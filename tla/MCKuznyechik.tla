---------------------------- MODULE MCKuznyechik -----------------------------
(***************************************************************************)
(* The AEAD with blocks of four bits, and the block cipher at its real size *)
(* beside it: what the AEAD assumes of its cipher is what is checked there. *)
(* A behaviour is one of the AEAD or one of the cipher.                     *)
(***************************************************************************)
EXTENDS KuznyechikAEAD, KuznyechikCipher, TLC

CONSTANTS good, bad

\* Permutations of the sixteen blocks.
Number(b) == 8 * b[1] + 4 * b[2] + 2 * b[3] + b[4]
Bit(n, i) == (n \div 2^(4 - i)) % 2
FromNumber(n) == <<Bit(n, 1), Bit(n, 2), Bit(n, 3), Bit(n, 4)>>
Permutation(images) ==
    [b \in [1..4 -> 0..1] |-> FromNumber(images[Number(b) + 1])]

MCEnc == good :> Permutation(<<12, 4, 6, 2, 10, 5, 11, 9, 14, 8, 13, 7, 0, 3, 15, 1>>)
MCMac == good :> Permutation(<<6, 8, 2, 3, 9, 10, 5, 12, 1, 14, 4, 7, 11, 13, 0, 15>>)
MCReduction == <<0, 0, 1, 1>>

\* All plaintexts of up to one block, and longer ones up to the four blocks
\* that half a counter can count.
MCPlaintexts ==
    UNION {{SubSeq(p, 1, n) : p \in [1..n -> 0..1]} : n \in 0..4}
      \cup {Tabulate(LAMBDA i : IF i % 3 = 0 THEN 1 ELSE 0, n) : n \in 5..16}
MCIVs == {<<0, 0, 0, 0>>, <<1, 0, 0, 1>>, <<1, 1, 1, 1>>}

MCKeys == {VectorKey, Tabulate(LAMBDA i : (37 * i) % 256, 32), <<1, 2, 3>>}
MCSources == {VectorPlain, Tabulate(LAMBDA i : (91 * i) % 256, 16)}

MCInit == AEADInit /\ CipherInit
MCNext ==
    \/ phase = "none" /\ AEADNext /\ UNCHANGED cipherVars
    \/ op = "none" /\ CipherNext /\ UNCHANGED aeadVars
MCSpec == MCInit /\ [][MCNext]_<<aeadVars, cipherVars>>

=============================================================================
