-------------------------- MODULE KuznyechikCipher ---------------------------
(***************************************************************************)
(* The block cipher of internal/kuznyechik: GOST R 34.12-2015 by lookup in  *)
(* tables.  A pair of little-endian uint64 words is the block of its 16     *)
(* bytes; block and table indices are one above those of the code.          *)
(*                                                                          *)
(* tables.go lists the 2 * 4096 blocks of t and it and the 32 of c; they    *)
(* are stated here by the rule that generates them.                         *)
(***************************************************************************)
EXTENDS Octets, Integers

CONSTANTS
    Keys,     \* keys that are handed to NewCipher, of any length
    Sources,        \* blocks that are encrypted and decrypted
    Depth           \* bound: encryptions, or decryptions, on top of one another

VARIABLES
    phase,             \* what the caller is waiting for
    round,          \* the steps of phase that are done
    pair,           \* k00..k11: the running pair of the key schedule
    erk, drk,       \* the kuznyechikCipher, once NewCipher has returned
    block,          \* src of a call, t1 and t2 within it, dst afterwards
    plain,          \* history: the block that the caller started from
    level           \* history: encryptions less decryptions since plain

cipherVars == <<phase, round, pair, erk, drk, block, plain, level>>

Positions == 1..16
Block128 == [Positions -> Octet]

ASSUME CipherAssumption ==
    /\ \A key \in Keys : key \in Seq(Octet)
    /\ Sources \subseteq Block128
    /\ Depth \in Nat

Zero == Tabulate(LAMBDA i : 0, 16)

-----------------------------------------------------------------------------
(* The tables. *)

s == <<
      252, 238, 221, 17, 207, 110, 49, 22, 251, 196, 250, 218, 35, 197, 4, 77,
      233, 119, 240, 219, 147, 46, 153, 186, 23, 54, 241, 187, 20, 205, 95, 193,
      249, 24, 101, 90, 226, 92, 239, 33, 129, 28, 60, 66, 139, 1, 142, 79,
      5, 132, 2, 174, 227, 106, 143, 160, 6, 11, 237, 152, 127, 212, 211, 31,
      235, 52, 44, 81, 234, 200, 72, 171, 242, 42, 104, 162, 253, 58, 206, 204,
      181, 112, 14, 86, 8, 12, 118, 18, 191, 114, 19, 71, 156, 183, 93, 135,
      21, 161, 150, 41, 16, 123, 154, 199, 243, 145, 120, 111, 157, 158, 178, 177,
      50, 117, 25, 61, 255, 53, 138, 126, 109, 84, 198, 128, 195, 189, 13, 87,
      223, 245, 36, 169, 62, 168, 67, 201, 215, 121, 214, 246, 124, 34, 185, 3,
      224, 15, 236, 222, 122, 148, 176, 188, 220, 232, 40, 80, 78, 51, 10, 74,
      167, 151, 96, 115, 30, 0, 98, 68, 26, 184, 56, 130, 100, 159, 38, 65,
      173, 69, 70, 146, 39, 94, 85, 47, 140, 163, 165, 125, 105, 213, 149, 59,
      7, 88, 179, 64, 134, 172, 29, 247, 48, 55, 107, 228, 136, 217, 231, 137,
      225, 27, 131, 73, 76, 63, 248, 254, 141, 83, 170, 144, 202, 216, 133, 97,
      32, 113, 103, 164, 45, 43, 9, 91, 203, 155, 37, 208, 190, 229, 108, 82,
      89, 166, 116, 210, 230, 244, 180, 192, 209, 102, 175, 194, 57, 75, 99, 182 >>

is == <<
      165, 45, 50, 143, 14, 48, 56, 192, 84, 230, 158, 57, 85, 126, 82, 145,
      100, 3, 87, 90, 28, 96, 7, 24, 33, 114, 168, 209, 41, 198, 164, 63,
      224, 39, 141, 12, 130, 234, 174, 180, 154, 99, 73, 229, 66, 228, 21, 183,
      200, 6, 112, 157, 65, 117, 25, 201, 170, 252, 77, 191, 42, 115, 132, 213,
      195, 175, 43, 134, 167, 177, 178, 91, 70, 211, 159, 253, 212, 15, 156, 47,
      155, 67, 239, 217, 121, 182, 83, 127, 193, 240, 35, 231, 37, 94, 181, 30,
      162, 223, 166, 254, 172, 34, 249, 226, 74, 188, 53, 202, 238, 120, 5, 107,
      81, 225, 89, 163, 242, 113, 86, 17, 106, 137, 148, 101, 140, 187, 119, 60,
      123, 40, 171, 210, 49, 222, 196, 95, 204, 207, 118, 44, 184, 216, 46, 54,
      219, 105, 179, 20, 149, 190, 98, 161, 59, 22, 102, 233, 92, 108, 109, 173,
      55, 97, 75, 185, 227, 186, 241, 160, 133, 131, 218, 71, 197, 176, 51, 250,
      150, 111, 110, 194, 246, 80, 255, 93, 169, 142, 23, 27, 151, 125, 236, 88,
      247, 31, 251, 124, 9, 13, 122, 103, 69, 135, 220, 232, 79, 29, 78, 4,
      235, 248, 243, 62, 61, 189, 138, 136, 221, 205, 11, 19, 152, 2, 147, 128,
      144, 208, 36, 52, 203, 237, 244, 206, 153, 16, 68, 64, 146, 58, 1, 38,
      18, 26, 72, 104, 245, 129, 139, 199, 214, 32, 10, 8, 0, 76, 215, 116 >>

\* Multiplication in the field GF(2^8) modulo x^8 + x^7 + x^6 + x + 1.
double == Tabulate(LAMBDA a : IF a <= 128 THEN 2 * (a - 1) ELSE xor(2 * (a - 129), 195), 256)

mulOf[b \in Octet] ==
    [a \in Octet |->
        IF b = 0 THEN 0
        ELSE xor(double[mulOf[b \div 2][a] + 1], IF b % 2 = 1 THEN a ELSE 0)]

mulTable ==
    Tabulate(LAMBDA a : Tabulate(LAMBDA b : mulOf[b - 1][a - 1], 256), 256)

mul(a, b) == mulTable[a + 1][b + 1]

lCoefficients ==
    <<148, 32, 133, 16, 194, 192, 1, 251, 1, 192, 194, 16, 133, 32, 148, 1>>

\* The exclusive or of the bytes of x.
XorAll(x) ==
    LET sum[i \in 0..16] == IF i = 0 THEN 0 ELSE xor(x[i], sum[i - 1]) IN sum[16]

l(x) == XorAll(Tabulate(LAMBDA i : mul(lCoefficients[i], x[i]), 16))

\* The linear transformation of the standard, sixteen steps of a shift register,
\* and the same steps backwards.
LStep(x) == <<l(x)>> \o SubSeq(x, 1, 15)
LStepBack(x) == Tail(x) \o <<l(Tail(x) \o <<Head(x)>>)>>

LTransform(x) ==
    LET r[n \in 0..16] == IF n = 0 THEN x ELSE LStep(r[n - 1]) IN r[16]

LInverse(x) ==
    LET r[n \in 0..16] == IF n = 0 THEN x ELSE LStepBack(r[n - 1]) IN r[16]

Unit(j, b) == [i \in Positions |-> IF i = j THEN b ELSE 0]

lMatrix == Tabulate(LAMBDA j : LTransform(Unit(j, 1)), 16)
lInverseMatrix == Tabulate(LAMBDA j : LInverse(Unit(j, 1)), 16)

\* t is s followed by the linear transformation, which takes Unit(j, 1) to row j
\* of its matrix; it undoes each of the two.
TableOf(matrix, substitution) ==
    Tabulate(LAMBDA j :
        Tabulate(LAMBDA b :
            Tabulate(LAMBDA i : mul(matrix[j][i], substitution[b]), 16), 256), 16)

t == TableOf(lMatrix, s)
it == TableOf(lInverseMatrix, is)
c == Tabulate(LAMBDA i : LTransform(Unit(16, i)), 32)

-----------------------------------------------------------------------------
(* The rounds. *)

\* The sum of the table's entries for the bytes of x.
Lookup(table, x) ==
    Tabulate(LAMBDA i :
        XorAll(Tabulate(LAMBDA j : table[j][x[j] + 1][i], 16)), 16)

ls(x) == Lookup(t, x)
ils(x) == Lookup(it, x)
isi(x) == Tabulate(LAMBDA i : is[x[i] + 1], 16)
ilss(x) == Lookup(it, Tabulate(LAMBDA i : s[x[i] + 1], 16))

fUnswapped(k, i) == <<k[1], xorBytes(ls(xorBytes(k[1], c[i])), k[2])>>
f(k, i) == <<xorBytes(ls(xorBytes(k[1], c[i])), k[2]), k[1]>>

-----------------------------------------------------------------------------
CipherInit ==
    /\ phase = "none" /\ round = 0 /\ pair = <<Zero, Zero>>
    /\ erk = <<>> /\ drk = <<>>
    /\ block = Zero /\ plain = Zero /\ level = 0

\* Keys that do not have 32 bytes are refused.
NewCipher(key, src) ==
    /\ phase = "none" /\ Len(key) = 32
    /\ phase' = "schedule" /\ round' = 0 /\ level' = 0
    /\ pair' = <<SubSeq(key, 1, 16), SubSeq(key, 17, 32)>>
    /\ erk' = pair'
    /\ block' = src /\ plain' = src
    /\ UNCHANGED drk

\* One call of f by fk.  Every eighth leaves two more round keys.
Schedule ==
    /\ phase = "schedule" /\ round < 32
    /\ pair' = f(pair, round + 1)
    /\ round' = round + 1
    /\ erk' = IF round' % 8 = 0 THEN erk \o pair' ELSE erk
    /\ UNCHANGED <<phase, drk, block, plain, level>>

ScheduledAll ==
    /\ phase = "schedule" /\ round = 32
    /\ drk' = Tabulate(LAMBDA i : ilss(erk[i]), 10)
    /\ phase' = "idle"
    /\ UNCHANGED <<round, pair, erk, block, plain, level>>

Scheduled ==
    /\ phase = "schedule" /\ round = 32
    /\ drk' = Tabulate(LAMBDA i : IF i = 1 THEN erk[1] ELSE ilss(erk[i]), 10)
    /\ phase' = "idle"
    /\ UNCHANGED <<round, pair, erk, block, plain, level>>

BlockEncrypt ==
    /\ phase = "idle" /\ level < Depth
    /\ phase' = "encrypt" /\ round' = 1
    /\ block' = xorBytes(block, erk[1])
    /\ UNCHANGED <<pair, erk, drk, plain, level>>

\* The last round key ends the call.
EncryptRound ==
    /\ phase = "encrypt"
    /\ round' = round + 1
    /\ block' = xorBytes(ls(block), erk[round'])
    /\ IF round' = 10 THEN phase' = "idle" /\ level' = level + 1
                      ELSE UNCHANGED <<phase, level>>
    /\ UNCHANGED <<pair, erk, drk, plain>>

BlockDecrypt ==
    /\ phase = "idle" /\ -Depth < level
    /\ phase' = "decrypt" /\ round' = 10
    /\ block' = xorBytes(ilss(block), drk[10])
    /\ UNCHANGED <<pair, erk, drk, plain, level>>

DecryptRound ==
    /\ phase = "decrypt" /\ round > 2
    /\ round' = round - 1
    /\ block' = xorBytes(ils(block), drk[round'])
    /\ UNCHANGED <<phase, pair, erk, drk, plain, level>>

DecryptLast ==
    /\ phase = "decrypt" /\ round = 2
    /\ phase' = "idle" /\ level' = level - 1 /\ round' = 1
    /\ block' = xorBytes(isi(block), drk[1])
    /\ UNCHANGED <<pair, erk, drk, plain>>

\* The cipher is not used afterwards.
ZeroKey ==
    /\ phase = "idle"
    /\ phase' = "none"
    /\ erk' = Tabulate(LAMBDA i : Zero, 10) /\ drk' = erk'
    /\ UNCHANGED <<round, pair, block, plain, level>>

CipherNext ==
    \/ \E key \in Keys, src \in Sources : NewCipher(key, src)
    \/ Schedule \/ Scheduled
    \/ BlockEncrypt \/ EncryptRound
    \/ BlockDecrypt \/ DecryptRound \/ DecryptLast
    \/ ZeroKey

CipherSpec == CipherInit /\ [][CipherNext]_cipherVars

-----------------------------------------------------------------------------
\* Encrypt and Decrypt undo each other in any sequence of calls, whichever comes
\* first, although they use different tables, round keys and round structures.
CipherInverts == phase = "idle" /\ level = 0 => block = plain

\* The test vector of RFC 7801 and cipher_test.go.
VectorKey ==
    << 136, 153, 170, 187, 204, 221, 238, 255, 0, 17, 34, 51, 68, 85, 102, 119,
       254, 220, 186, 152, 118, 84, 50, 16, 1, 35, 69, 103, 137, 171, 205, 239 >>
VectorPlain == << 17, 34, 51, 68, 85, 102, 119, 0, 255, 238, 221, 204, 187, 170, 153, 136 >>
VectorCipher ==
    << 127, 103, 157, 144, 190, 188, 36, 48, 90, 70, 141, 66, 185, 212, 237, 205 >>

\* The tables, the key schedule and the rounds give what the standard prescribes.
CipherIsStandard ==
    phase = "idle" /\ level = 1 /\ plain = VectorPlain /\ erk[1] \o erk[2] = VectorKey =>
        block = VectorCipher

=============================================================================
