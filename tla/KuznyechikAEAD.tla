--------------------------- MODULE KuznyechikAEAD ----------------------------
(***************************************************************************)
(* internal/crypto/kuznyechik_mgm.go: Encrypt seals a plaintext by counter  *)
(* mode and a CMAC over the IV and the ciphertext, Decrypt opens it.  The   *)
(* loops of gostCTR, gostCMAC and fillBlock are actions, one per iteration; *)
(* bytes are the numbers below 2 * Top, blocks have blockSize bytes, and     *)
(* slices and blocks are sequences.                                         *)
(***************************************************************************)
EXTENDS Octets

CONSTANTS
    blockSize,
    Top,            \* the highest bit of a byte
    rb,             \* the reduction polynomial, as a block
    Masters,        \* master keys of a legal length
    BadMasters,     \* and of another one
    NoMaster,
    encBlock,       \* the block cipher under the encryption key of each master key
    macBlock,       \* and under the MAC key
    Plaintexts, IVs,
    Version,        \* currentVersion
    OtherVersion    \* another value of the first byte

VARIABLES
    master,         \* the key of the KuznyechikAEAD
    op,             \* the call in progress, and what came of it
    pc,             \* the loop it is in
    iv, src, dst,   \* slices of the call
    counter,        \* of gostCTR
    cbc, blockIdx,  \* of gostCMAC: cbc and the blocks that went into it
    partIdx, partOff, buf, filled,
    data,           \* what Encrypt returned, and what Decrypt is given
    tag,            \* the tag of data, or the one to compare it with
    result,         \* what Decrypt returned
    plaintext,      \* history: the argument of Encrypt
    altered,        \* history: data is not what Encrypt returned
    used            \* history: the counters of the call that went into the cipher

ctrVars == <<src, dst, counter, used>>
macVars == <<cbc, blockIdx, partIdx, partOff, buf, filled>>
callVars == <<master, iv, data, plaintext, altered>>
aeadVars == <<master, op, pc, iv, data, tag, result, plaintext, altered,
              ctrVars, macVars>>

Byte == 0..2 * Top - 1
Block == [1..blockSize -> Byte]
Overhead == 1 + 2 * blockSize
ZeroBlock == Tabulate(LAMBDA i : 0, blockSize)

\* The values that n bytes can take.
NumValues[n \in 0..blockSize] == IF n = 0 THEN 1 ELSE 2 * Top * NumValues[n - 1]

\* The block cipher is a permutation of the blocks under every key.  No slice is
\* longer than the blocks that half a counter counts: in Go that is 2^64 of them.
ASSUME AEADAssumption ==
    /\ blockSize \in Nat /\ blockSize > 1 /\ blockSize % 2 = 0
    /\ Top \in {1, 2, 4, 8, 16, 32, 64, 128}
    /\ rb \in Block
    /\ NoMaster \notin Masters \cup BadMasters
    /\ \A m \in Masters : \A E \in {encBlock[m], macBlock[m]} :
           /\ E \in [Block -> Block]
           /\ \A b, d \in Block : E[b] = E[d] => b = d
    /\ IVs \subseteq Block
    /\ \A p \in Plaintexts :
           p \in Seq(Byte) /\ Len(p) <= blockSize * NumValues[blockSize \div 2]
    /\ Version # OtherVersion

-----------------------------------------------------------------------------
(* The helpers. *)

gostCTRIncrementLast(ctr) == [ctr EXCEPT ![blockSize] = (@ + 1) % (2 * Top)]

\* The low half of the counter is incremented, without a carry out of it: a byte
\* moves when all bytes below it overflow.
gostCTRIncrement(ctr) ==
    Tabulate(LAMBDA i :
        IF i > blockSize \div 2 /\ \A j \in i + 1..blockSize : ctr[j] = 2 * Top - 1
        THEN (ctr[i] + 1) % (2 * Top)
        ELSE ctr[i], blockSize)

shiftLeftOne(b) ==
    Tabulate(LAMBDA i :
        ((2 * b[i]) % (2 * Top))
          + (IF i < Len(b) THEN b[i + 1] \div Top ELSE 0), Len(b))

\* Multiplication by X in the field of the blocks.
Doubled(b) ==
    IF b[1] >= Top THEN xorBytes(shiftLeftOne(b), rb) ELSE shiftLeftOne(b)

\* cmacGenerateSubkeys: k1 for a complete last block, k2 for a padded one.
k1(E) == Doubled(E[ZeroBlock])
k2(E) == Doubled(k1(E))

PartsWithoutIV == <<<<>>, IF op = "encrypt" THEN dst ELSE src>>
Parts == <<iv, IF op = "encrypt" THEN dst ELSE src>>
TotalLen == Len(Parts[1]) + Len(Parts[2])
NumBlocks ==
    IF TotalLen = 0 THEN 1 ELSE (TotalLen + blockSize - 1) \div blockSize
Remaining == TotalLen - blockIdx * blockSize

\* The bytes that the copy loop is to fill: a block, or what is left of the data.
Want == IF blockIdx < NumBlocks - 1 THEN blockSize ELSE Remaining
Filled == filled >= Want \/ partIdx > Len(Parts)

\* copy(b[n:], bytes)
CopyInto(b, n, bytes) ==
    Tabulate(LAMBDA i : IF n < i /\ i <= n + Len(bytes) THEN bytes[i - n] ELSE b[i], Len(b))

-----------------------------------------------------------------------------
AEADInit ==
    /\ master = NoMaster /\ op = "none" /\ pc = "none"
    /\ iv = <<>> /\ src = <<>> /\ dst = <<>> /\ counter = ZeroBlock
    /\ cbc = ZeroBlock /\ blockIdx = 0
    /\ partIdx = 1 /\ partOff = 0 /\ buf = ZeroBlock /\ filled = 0
    /\ data = <<>> /\ tag = <<>> /\ result = <<>>
    /\ plaintext = <<>> /\ altered = FALSE /\ used = <<>>

\* A master key of another length than 32 bytes is refused.
NewKuznyechikAEAD(m) ==
    /\ op = "none" /\ master = NoMaster
    /\ master' = IF m \in Masters THEN m ELSE NoMaster
    /\ op' = IF m \in Masters THEN "new" ELSE "refused"
    /\ UNCHANGED <<pc, iv, data, tag, result, plaintext, altered, ctrVars, macVars>>

\* gostCTR is called for these bytes, and gostCMAC for the parts.
BeginCTR(bytes, start) ==
    /\ pc' = "ctr"
    /\ src' = bytes /\ dst' = <<>> /\ counter' = start /\ used' = <<>>

BeginCMAC ==
    /\ pc' = "mac"
    /\ cbc' = ZeroBlock /\ blockIdx' = 0
    /\ partIdx' = 1 /\ partOff' = 0 /\ buf' = ZeroBlock /\ filled' = 0

Encrypt(p, v) ==
    /\ op = "new"
    /\ op' = "encrypt" /\ plaintext' = p /\ iv' = v
    /\ BeginCTR(p, v)
    /\ UNCHANGED <<master, data, tag, result, altered, macVars>>

CTRBlock ==
    /\ pc = "ctr" /\ src # <<>>
    /\ LET gamma == encBlock[master][counter]
           n == IF Len(src) < blockSize THEN Len(src) ELSE blockSize
       IN  /\ dst' = dst \o xorBytes(SubSeq(src, 1, n), SubSeq(gamma, 1, n))
           /\ src' = SubSeq(src, n + 1, Len(src))
    /\ used' = Append(used, counter)
    /\ counter' = gostCTRIncrement(counter)
    /\ UNCHANGED <<callVars, op, pc, tag, result, macVars>>

\* Encrypt goes on with the tag; for Decrypt this was the last step.
CTRDone ==
    /\ pc = "ctr" /\ src = <<>>
    /\ \/ /\ op = "encrypt" /\ BeginCMAC
          /\ UNCHANGED <<op, result>>
       \/ /\ op = "decrypt"
          /\ op' = "opened" /\ pc' = "none" /\ result' = dst
          /\ UNCHANGED macVars
    /\ UNCHANGED <<callVars, tag, ctrVars>>

CopyAgain ==
    /\ pc = "mac" /\ ~Filled
    /\ LET rest == Len(Parts[partIdx]) - partOff
           need == Want - filled
           n == IF rest <= need THEN rest ELSE need
       IN  /\ buf' = CopyInto(buf, filled,
                         SubSeq(Parts[partIdx], partOff + 1, partOff + n))
           /\ filled' = filled + n
           /\ IF rest <= need THEN partIdx' = partIdx + 1 /\ partOff' = 0
                              ELSE partOff' = need /\ UNCHANGED partIdx
    /\ UNCHANGED <<callVars, op, pc, tag, result, ctrVars, cbc, blockIdx>>

\* One iteration of fillBlock or fillBlockPartial: the rest of a part, or as much
\* of it as there is room for.
Copy ==
    /\ pc = "mac" /\ ~Filled
    /\ LET rest == Len(Parts[partIdx]) - partOff
           need == Want - filled
           n == IF rest <= need THEN rest ELSE need
       IN  /\ buf' = CopyInto(buf, filled,
                         SubSeq(Parts[partIdx], partOff + 1, partOff + n))
           /\ filled' = filled + n
           /\ IF rest <= need THEN partIdx' = partIdx + 1 /\ partOff' = 0
                              ELSE partOff' = partOff + need /\ UNCHANGED partIdx
    /\ UNCHANGED <<callVars, op, pc, tag, result, ctrVars, cbc, blockIdx>>

\* All blocks but the last.  The last one is filled into a block of zeros.
CMACBlock ==
    /\ pc = "mac" /\ Filled /\ blockIdx < NumBlocks - 1
    /\ cbc' = macBlock[master][xorBytes(cbc, buf)]
    /\ blockIdx' = blockIdx + 1
    /\ buf' = IF blockIdx' = NumBlocks - 1 THEN ZeroBlock ELSE buf
    /\ filled' = 0
    /\ UNCHANGED <<callVars, op, pc, tag, result, ctrVars, partIdx, partOff>>

LastBlock ==
    IF TotalLen > 0 /\ TotalLen % blockSize = 0
    THEN xorBytes(buf, k1(macBlock[master]))
    ELSE xorBytes([buf EXCEPT ![Remaining + 1] = Top], k2(macBlock[master]))

Tag == macBlock[master][xorBytes(cbc, LastBlock)]

\* The tag ends Encrypt, which returns version, iv, ciphertext and tag.
Sealed ==
    /\ pc = "mac" /\ Filled /\ blockIdx = NumBlocks - 1 /\ op = "encrypt"
    /\ tag' = Tag
    /\ data' = <<Version>> \o iv \o dst \o Tag
    /\ op' = "sealed" /\ pc' = "none"
    /\ UNCHANGED <<master, iv, plaintext, altered, result, ctrVars, macVars>>

\* Decrypt compares it before it decrypts anything.
Verified ==
    /\ pc = "mac" /\ Filled /\ blockIdx = NumBlocks - 1 /\ op = "decrypt"
    /\ IF tag = Tag
       THEN BeginCTR(src, iv) /\ UNCHANGED <<op, result>>
       ELSE /\ op' = "failed" /\ pc' = "none" /\ result' = "ErrAuthFailed"
            /\ UNCHANGED ctrVars
    /\ UNCHANGED <<callVars, tag, macVars>>

Decrypt ==
    /\ op = "sealed"
    /\ \/ /\ Len(data) < Overhead
          /\ op' = "failed" /\ result' = "ErrInvalidCiphertext"
          /\ UNCHANGED <<pc, iv, tag, src, macVars>>
       \/ /\ Len(data) >= Overhead /\ data[1] # Version
          /\ op' = "failed" /\ result' = "ErrUnsupportedVersion"
          /\ UNCHANGED <<pc, iv, tag, src, macVars>>
       \/ /\ Len(data) >= Overhead /\ data[1] = Version
          /\ op' = "decrypt"
          /\ iv' = SubSeq(data, 2, 1 + blockSize)
          /\ src' = SubSeq(data, 2 + blockSize, Len(data) - blockSize)
          /\ tag' = SubSeq(data, Len(data) - blockSize + 1, Len(data))
          /\ BeginCMAC
          /\ UNCHANGED result
    /\ UNCHANGED <<master, data, plaintext, altered, dst, counter, used>>

\* The caller makes the next call on the object it has.
Again ==
    /\ op \in {"opened", "failed", "refused"}
    /\ op' = IF op = "refused" THEN "none" ELSE "new"
    /\ iv' = <<>> /\ src' = <<>> /\ dst' = <<>> /\ counter' = ZeroBlock
    /\ cbc' = ZeroBlock /\ blockIdx' = 0
    /\ partIdx' = 1 /\ partOff' = 0 /\ buf' = ZeroBlock /\ filled' = 0
    /\ data' = <<>> /\ tag' = <<>> /\ result' = <<>>
    /\ plaintext' = <<>> /\ altered' = FALSE /\ used' = <<>>
    /\ UNCHANGED <<master, pc>>

\* Outside the code: a byte of the stored data changes, or its end is lost.
Alter ==
    /\ op = "sealed" /\ ~altered
    /\ altered' = TRUE
    /\ \/ data' = [data EXCEPT ![1] = OtherVersion]
       \/ \E i \in 2..Len(data), b \in Byte :
              b # data[i] /\ data' = [data EXCEPT ![i] = b]
       \/ \E n \in 0..Overhead - 1 : n < Len(data) /\ data' = SubSeq(data, 1, n)
    /\ UNCHANGED <<master, op, pc, iv, tag, result, plaintext, ctrVars, macVars>>

AEADNext ==
    \/ \E m \in Masters \cup BadMasters : NewKuznyechikAEAD(m)
    \/ \E p \in Plaintexts, v \in IVs : Encrypt(p, v)
    \/ CTRBlock \/ CTRDone
    \/ Copy \/ CMACBlock
    \/ Sealed \/ Verified
    \/ Decrypt
    \/ Alter
    \/ Again

AEADSpec == AEADInit /\ [][AEADNext]_aeadVars

-----------------------------------------------------------------------------
\* What Decrypt returns is the plaintext of Encrypt, or an error when a byte of
\* the data was changed or the data cut short below the overhead; it never
\* returns anything else, and refuses nothing that is intact.  Altered data is
\* refused before a block of it is decrypted (kuznyechik_mgm.go, 126-131).
OpensToThePlaintext ==
    /\ op = "opened" => ~altered /\ result = plaintext
    /\ op = "decrypt" /\ pc = "ctr" => ~altered
    /\ op = "failed" => altered

\* No block of a message, of at most as many blocks as half a counter can count,
\* is encrypted with the gamma of another: the increment carries through all of
\* the low half, and wraps without touching the high half.
GammaNeverRepeats ==
    pc = "ctr" =>
    /\ \A i, j \in 1..Len(used) : i # j => used[i] # used[j]
    /\ \A i \in 1..Len(used) :
           SubSeq(used[i], 1, blockSize \div 2) = SubSeq(iv, 1, blockSize \div 2)

\* The CMAC of a message as the standard defines it, on one string of bytes.
Padded(m) ==
    IF Len(m) > 0 /\ Len(m) % blockSize = 0 THEN m
    ELSE m \o <<Top>> \o Tabulate(LAMBDA i : 0, blockSize - 1 - (Len(m) % blockSize))

BlockOf(p, i) == SubSeq(p, (i - 1) * blockSize + 1, i * blockSize)

Chain(E, p) ==
    LET chain[i \in 0..Len(p) \div blockSize] ==
            IF i = 0 THEN ZeroBlock ELSE E[xorBytes(chain[i - 1], BlockOf(p, i))]
    IN  chain

CMAC(E, m) ==
    LET p == Padded(m)
        last == Len(p) \div blockSize
        k == IF p = m THEN k1(E) ELSE k2(E)
    IN  E[xorBytes(xorBytes(Chain(E, p)[last - 1], BlockOf(p, last)), k)]

\* The tag is the CMAC of the IV and the ciphertext put together, although
\* gostCMAC walks through the two slices without joining them.
TagIsCMAC == op = "sealed" => tag = CMAC(macBlock[master], iv \o dst)

=============================================================================
