----------------------- MODULE KuznyechikAEAD_proofs ------------------------
(***************************************************************************)
(* Proofs about Encrypt and Decrypt: that gostCTR never repeats its gamma,  *)
(* that the tag is the CMAC of the standard, and that Decrypt returns the   *)
(* plaintext or refuses.  They hold for every plaintext and IV, every size  *)
(* of a block and of a byte, and any permutation of the blocks in place of  *)
(* the cipher.                                                              *)
(***************************************************************************)
EXTENDS KuznyechikAEAD, Octets_proofs

-----------------------------------------------------------------------------
(* Bytes and blocks. *)

\* Bytes are octets, with Top among them, and closed under xor.
LEMMA Bytes ==
    /\ Byte \subseteq Octet /\ Byte \subseteq Nat /\ 0 \in Byte /\ Top \in Byte
    /\ \A a, b \in Byte : xor(a, b) \in Byte
    /\ 2 * Top \in Nat /\ 2 * Top > 1 /\ Byte = 0..2 * Top - 1
<1>1. Byte \subseteq Octet /\ Byte \subseteq Nat /\ 0 \in Byte /\ Top \in Byte
  BY AEADAssumption DEF Byte, Octet
<1>2. 2 * Top \in {2, 4, 8, 16, 32, 64, 128, 256}
  BY AEADAssumption
<1>3. ASSUME NEW a \in Byte, NEW b \in Byte  PROVE xor(a, b) \in Byte
  <2> DEFINE t == 2 * Top
  <2>1. t \in {2, 4, 8, 16, 32, 64, 128, 256} /\ t \in Nat /\ Byte = 0..t - 1
    BY <1>2 DEF Byte
  <2> HIDE DEF t
  <2>2. a \in Octet /\ b \in Octet /\ a < t /\ b < t
    BY <1>1, <2>1
  <2>3. xor(a, b) \in Octet /\ xor(a, b) < t
    BY <2>1, <2>2, XorAlgebra
  <2>4. \A x \in Octet : x < t => x \in 0..t - 1
    BY <2>1 DEF Octet
  <2>5. xor(a, b) \in 0..t - 1
    BY <2>3, <2>4
  <2> QED
    BY <2>1, <2>5
<1>4. 2 * Top \in Nat /\ 2 * Top > 1
  BY <1>2
<1>5. Byte = 0..2 * Top - 1
  BY DEF Byte
<1> QED
  BY <1>1, <1>3, <1>4, <1>5

\* Blocks are the slices of blockSize bytes, an even number.
LEMMA Blocks ==
    /\ blockSize \in Nat /\ blockSize > 1
    /\ blockSize \div 2 \in Nat /\ blockSize \div 2 > 0
    /\ blockSize = 2 * (blockSize \div 2)
    /\ ZeroBlock \in Block /\ ZeroBlock = [i \in 1..blockSize |-> 0]
    /\ \A b \in Block : b \in Seq(Byte) /\ Len(b) = blockSize
    /\ \A b \in Seq(Byte) : Len(b) = blockSize => b \in Block
<1>1. blockSize \in Nat /\ blockSize > 1 /\ blockSize % 2 = 0
  BY AEADAssumption
<1>2. ZeroBlock = [i \in 1..blockSize |-> 0]
  BY <1>1 DEF ZeroBlock, Tabulate
<1>3. ZeroBlock \in Block
  BY <1>2, Bytes DEF Block
<1>4. \A b \in Block : b \in Seq(Byte) /\ Len(b) = blockSize
  BY <1>1 DEF Block
<1>5. \A b \in Seq(Byte) : Len(b) = blockSize => b \in Block
  BY DEF Block
<1> QED
  BY <1>1, <1>2, <1>3, <1>4, <1>5

NumValuesStep(f) == [n \in 0..blockSize |-> IF n = 0 THEN 1 ELSE 2 * Top * f[n - 1]]

\* NumValues satisfies its recursive definition.
LEMMA NumValuesEquation ==
    /\ NumValues[0] = 1
    /\ \A n \in 0..blockSize : NumValues[n] \in Nat \ {0}
    /\ \A n \in 1..blockSize : NumValues[n] = 2 * Top * NumValues[n - 1]
<1> DEFINE g == [k \in Nat |-> [x \in Nat \ {0} |-> 2 * Top * x]]
           IsNum(f) == /\ f \in [0..blockSize -> Nat \ {0}] /\ f[0] = 1
                       /\ \A k \in 1..blockSize : f[k] = 2 * Top * f[k - 1]
<1>1. \E f : IsNum(f)
  <2>1. \A x \in Nat \ {0} : 2 * Top * x \in Nat \ {0}
    BY AEADAssumption
  <2>2. IsStep(g, Nat \ {0})
    BY <2>1 DEF IsStep
  <2>3. \A k \in Nat, x \in Nat \ {0} : g[k][x] = 2 * Top * x
    OBVIOUS
  <2> HIDE DEF g
  <2>4. 1 \in Nat \ {0} /\ blockSize \in Nat
    BY Blocks
  <2>5. PICK f : IsIterated(f, blockSize, 1, g, Nat \ {0})
    BY <2>2, <2>4, Recursion
  <2>6. \A k \in 1..blockSize : f[k - 1] \in Nat \ {0}
    BY <2>5, Blocks DEF IsIterated
  <2>7. IsNum(f)
    BY <2>3, <2>5, <2>6 DEF IsIterated
  <2> QED
    BY <2>7
<1>2. \A f : IsNum(f) => f = NumValuesStep(f)
  <2> SUFFICES ASSUME NEW f, IsNum(f)  PROVE f = NumValuesStep(f)
    OBVIOUS
  <2>1. \A k \in 0..blockSize : f[k] = NumValuesStep(f)[k]
    BY Blocks DEF NumValuesStep
  <2> QED
    BY <2>1 DEF NumValuesStep
<1>3. NumValues = CHOOSE f : f = NumValuesStep(f)
  BY DEF NumValues, NumValuesStep
<1> HIDE DEF NumValues, IsNum
<1>4. NumValues = NumValuesStep(NumValues)
  BY <1>1, <1>2, <1>3
<1>5. /\ NumValues[0] = 1
      /\ \A n \in 1..blockSize : NumValues[n] = 2 * Top * NumValues[n - 1]
  BY <1>4, Blocks DEF NumValuesStep
<1>6. \A n \in 0..blockSize : NumValues[n] \in Nat \ {0}
  <2> DEFINE P == {n \in Nat : n <= blockSize => NumValues[n] \in Nat \ {0}}
  <2>1. 0 \in P
    BY <1>5
  <2>2. ASSUME NEW n \in Nat, n \in P  PROVE n + 1 \in P
    <3> SUFFICES ASSUME n + 1 <= blockSize  PROVE NumValues[n + 1] \in Nat \ {0}
      OBVIOUS
    <3>1. n + 1 \in 1..blockSize /\ (n + 1) - 1 = n /\ NumValues[n] \in Nat \ {0}
      BY <2>2, Blocks
    <3>2. NumValues[n + 1] = 2 * Top * NumValues[n]
      BY <1>5, <3>1
    <3> QED
      BY <3>1, <3>2, AEADAssumption
  <2> HIDE DEF P
  <2>3. Nat \subseteq P
    BY <2>1, <2>2, Induction
  <2> QED
    BY <2>3, Blocks DEF P
<1> QED
  BY <1>5, <1>6

Half == blockSize \div 2

\* The low half of a counter, read from its highest byte on as a number.
IsValue(v, ctr) ==
    /\ v \in [0..Half -> Nat] /\ v[0] = 0
    /\ \A k \in 1..Half : v[k] = v[k - 1] * (2 * Top) + ctr[Half + k]
CounterValue(ctr) == (CHOOSE v : IsValue(v, ctr))[Half]

\* A block has two halves.
LEMMA HalfBlock == Half \in Nat /\ Half > 0 /\ blockSize = Half + Half
  BY Blocks DEF Half

\* The bytes of the low half.
LEMMA LowBytes ==
    ASSUME NEW ctr \in Block, NEW k \in 1..Half
    PROVE  Half + k \in 1..blockSize /\ ctr[Half + k] \in Byte
<1>1. Half + k \in 1..blockSize
  BY HalfBlock
<1> QED
  BY <1>1 DEF Block

\* The number that the low half stands for exists.
LEMMA ValueExists ==
    ASSUME NEW ctr \in Block
    PROVE  \E v : IsValue(v, ctr)
<1> DEFINE t == 2 * Top
           g == [k \in Nat |-> [x \in Nat |-> x * t
                                  + (IF k \in 1..Half THEN ctr[Half + k] ELSE 0)]]
<1>1. \A k \in 1..Half : ctr[Half + k] \in Nat
  BY LowBytes, Bytes
<1>2. t \in Nat
  BY Bytes
<1> HIDE DEF t
<1>3. \A k \in Nat, x \in Nat :
          x * t + (IF k \in 1..Half THEN ctr[Half + k] ELSE 0) \in Nat
  BY <1>1, <1>2
<1>4. IsStep(g, Nat)
  BY <1>3 DEF IsStep
<1>5. \A k \in 1..Half, x \in Nat : g[k][x] = x * t + ctr[Half + k]
  OBVIOUS
<1> HIDE DEF g
<1>6. Half \in Nat /\ 0 \in Nat
  BY HalfBlock
<1>7. PICK v : IsIterated(v, Half, 0, g, Nat)
  BY <1>4, <1>6, Recursion
<1>8. \A k \in 1..Half : v[k - 1] \in Nat
  BY <1>6, <1>7 DEF IsIterated
<1>9. IsValue(v, ctr)
  BY <1>5, <1>7, <1>8 DEF IsValue, IsIterated, t
<1> QED
  BY <1>9

\* CounterValue is that number.
LEMMA ValueIsValue ==
    ASSUME NEW ctr \in Block
    PROVE  \E v : IsValue(v, ctr) /\ CounterValue(ctr) = v[Half]
  BY ValueExists DEF CounterValue

\* What gostCTRIncrement returns, byte by byte.
LEMMA Incremented ==
    ASSUME NEW ctr \in Block
    PROVE  /\ gostCTRIncrement(ctr) \in Block
           /\ \A i \in 1..Half : gostCTRIncrement(ctr)[i] = ctr[i]
           /\ \A k \in 1..Half :
                  gostCTRIncrement(ctr)[Half + k] =
                      IF \A j \in k + 1..Half : ctr[Half + j] = 2 * Top - 1
                      THEN (ctr[Half + k] + 1) % (2 * Top) ELSE ctr[Half + k]
<1> DEFINE c == gostCTRIncrement(ctr)
           t == 2 * Top
           Carry(i) == \A j \in i + 1..blockSize : ctr[j] = t - 1
<1>1. c = [i \in 1..blockSize |->
              IF i > Half /\ Carry(i) THEN (ctr[i] + 1) % t ELSE ctr[i]]
  BY Blocks DEF gostCTRIncrement, Tabulate, Half
<1>2. t \in Nat /\ t > 1 /\ Byte = 0..t - 1
  BY Bytes
<1> HIDE DEF c, t
<1>3. \A i \in 1..blockSize : ctr[i] \in Byte /\ ctr[i] \in Nat
  BY Bytes DEF Block
<1>4. \A x \in Nat : (x + 1) % t \in Byte
  BY <1>2
<1>5. c \in Block
  BY <1>1, <1>3, <1>4 DEF Block
<1>6. \A i \in 1..Half : c[i] = ctr[i]
  BY <1>1, HalfBlock
<1>7. ASSUME NEW k \in 1..Half
      PROVE  Carry(Half + k) <=> \A j \in k + 1..Half : ctr[Half + j] = t - 1
  <2>1. \A j \in k + 1..Half : Half + j \in Half + k + 1..blockSize
    BY HalfBlock
  <2>2. \A j \in Half + k + 1..blockSize :
            j - Half \in k + 1..Half /\ Half + (j - Half) = j
    BY HalfBlock
  <2> QED
    BY <2>1, <2>2
<1>8. \A k \in 1..Half : Half + k \in 1..blockSize /\ Half + k > Half
  BY HalfBlock
<1> HIDE DEF Carry
<1>9. \A k \in 1..Half :
          c[Half + k] = IF Carry(Half + k) THEN (ctr[Half + k] + 1) % t ELSE ctr[Half + k]
  BY <1>1, <1>8
<1> QED
  BY <1>5, <1>6, <1>7, <1>9 DEF c, t

\* Horner's rule for one byte d after bytes with value x, of n possible values, with
\* a carry into d, and what becomes of both.
LEMMA CarryStep ==
    ASSUME NEW t \in Nat, t > 1, NEW n \in Nat, NEW x \in 0..n - 1, NEW d \in 0..t - 1
    PROVE  /\ x * t + d \in 0..n * t - 1
           /\ d < t - 1 => x * t + (d + 1) # n * t
           /\ d = t - 1 => (x * t + d) + 1 = (x + 1) * t
           /\ x + 1 # n => (x + 1) * t # n * t
<1>1. (x + 1) * t = x * t + t /\ x * t \in Nat /\ n * t \in Nat
  OBVIOUS
<1>2. (x + 1) * t <= n * t
  BY TimesMonotonic
<1>3. ASSUME x + 1 # n  PROVE (x + 1) * t # n * t
  <2>1. (x + 2) * t <= n * t
    BY <1>3, TimesMonotonic
  <2>2. (x + 2) * t = (x + 1) * t + t
    OBVIOUS
  <2>3. (x + 1) * t \in Nat
    OBVIOUS
  <2> QED
    BY <2>1, <2>2, <2>3, <1>1
<1> QED
  BY <1>1, <1>2, <1>3

\* The increment of the counter counts modulo the number of values of its low half.
LEMMA IncrementCounts ==
    ASSUME NEW ctr \in Block
    PROVE  /\ CounterValue(ctr) \in 0..NumValues[Half] - 1
           /\ CounterValue(gostCTRIncrement(ctr)) =
                  IF CounterValue(ctr) + 1 = NumValues[Half] THEN 0
                  ELSE CounterValue(ctr) + 1
<1> DEFINE c == gostCTRIncrement(ctr)
           t == 2 * Top
           Carry(k) == \A j \in k + 1..Half : ctr[Half + j] = t - 1
<1>1. /\ c \in Block
      /\ \A k \in 1..Half : c[Half + k] = IF Carry(k) THEN (ctr[Half + k] + 1) % t
                                                     ELSE ctr[Half + k]
  BY Incremented
<1>2. PICK v : IsValue(v, ctr) /\ CounterValue(ctr) = v[Half]
  BY ValueIsValue
<1>3. PICK w : IsValue(w, c) /\ CounterValue(c) = w[Half]
  BY <1>1, ValueIsValue
<1>4. t \in Nat /\ t > 1 /\ Byte = 0..t - 1
  BY Bytes
<1>5. /\ v[0] = 0 /\ w[0] = 0
      /\ \A k \in 0..Half : v[k] \in Nat /\ w[k] \in Nat
      /\ \A k \in 1..Half : /\ v[k] = v[k - 1] * t + ctr[Half + k]
                            /\ w[k] = w[k - 1] * t + c[Half + k]
  BY <1>2, <1>3 DEF IsValue
<1>6. /\ NumValues[0] = 1
      /\ \A k \in 0..Half : NumValues[k] \in Nat
      /\ \A k \in 1..Half : NumValues[k] = NumValues[k - 1] * t
  <2>1. \A k \in 0..Half : k \in 0..blockSize
    BY HalfBlock
  <2>2. \A k \in 1..Half : k \in 1..blockSize /\ k - 1 \in 0..Half
    BY HalfBlock
  <2>3. \A k \in 1..Half : NumValues[k] = 2 * Top * NumValues[k - 1]
    BY <2>2, NumValuesEquation
  <2>4. \A k \in 0..Half : NumValues[k] \in Nat
    BY <2>1, NumValuesEquation
  <2> QED
    BY <2>2, <2>3, <2>4, <1>4, NumValuesEquation
<1> DEFINE Counts(k) ==
               /\ v[k] \in 0..NumValues[k] - 1
               /\ w[k] = IF Carry(k)
                         THEN IF v[k] + 1 = NumValues[k] THEN 0 ELSE v[k] + 1
                         ELSE v[k]
           P == {k \in Nat : k <= Half => Counts(k)}
<1> HIDE DEF c, t
<1>7. 0 \in P
  BY <1>5, <1>6
<1>8. ASSUME NEW m \in Nat, m \in P  PROVE m + 1 \in P
  <2> SUFFICES ASSUME m + 1 <= Half  PROVE Counts(m + 1)
    OBVIOUS
  <2> DEFINE k == m + 1
             d == ctr[Half + k]
             x == v[m]
             n == NumValues[m]
  <2>1. k \in 1..Half /\ k - 1 = m /\ m \in 0..Half
    BY HalfBlock
  <2>2. Counts(m)
    BY <1>8, <2>1
  <2>3. d \in 0..t - 1
    BY <2>1, <1>4, LowBytes
  <2>4. v[k] = x * t + d /\ w[k] = w[m] * t + c[Half + k] /\ NumValues[k] = n * t
    BY <1>5, <1>6, <2>1
  <2>5. c[Half + k] = IF Carry(k) THEN (d + 1) % t ELSE d
    BY <1>1, <2>1
  <2>6. Carry(m) <=> Carry(k) /\ d = t - 1
    <3>1. \A j : j \in m + 1..Half <=> j = k \/ j \in k + 1..Half
      BY <2>1, HalfBlock
    <3> QED
      BY <3>1
  <2> DEFINE cm == Carry(m)
             ck == Carry(k)
  <2>7. /\ x \in 0..n - 1 /\ n \in Nat
        /\ w[m] = IF cm THEN (IF x + 1 = n THEN 0 ELSE x + 1) ELSE x
    BY <2>1, <2>2, <1>6
  <2>8. cm \in BOOLEAN /\ ck \in BOOLEAN /\ (cm <=> ck /\ d = t - 1)
    BY <2>6
  <2>9. c[Half + k] = IF ck THEN (d + 1) % t ELSE d
    BY <2>5
  <2> HIDE DEF cm, ck, d, x, n, Carry
  <2>10. /\ x * t + d \in 0..n * t - 1
         /\ d < t - 1 => x * t + (d + 1) # n * t
         /\ d = t - 1 => (x * t + d) + 1 = (x + 1) * t
         /\ x + 1 # n => (x + 1) * t # n * t
    BY <1>4, <2>3, <2>7, CarryStep
  <2>11. w[k] = IF ck THEN IF x * t + d + 1 = n * t THEN 0 ELSE x * t + d + 1
                ELSE x * t + d
    <3>1. CASE ~ck
      BY <2>4, <2>7, <2>8, <2>9, <3>1
    <3>2. CASE ck /\ d < t - 1
      <4>1. (d + 1) % t = d + 1
        BY <1>4, <2>3, <3>2
      <4>2. w[m] = x /\ c[Half + k] = d + 1
        BY <2>3, <2>7, <2>8, <2>9, <3>2, <4>1, <1>4
      <4>3. x * t \in Nat /\ d \in Nat
        BY <1>4, <2>3, <2>7
      <4> QED
        BY <2>4, <2>10, <3>2, <4>2, <4>3
    <3>3. CASE ck /\ d = t - 1
      <4>1. (d + 1) % t = 0
        BY <1>4, <3>3
      <4>2. w[m] = (IF x + 1 = n THEN 0 ELSE x + 1) /\ c[Half + k] = 0
        BY <2>7, <2>8, <2>9, <3>3, <4>1
      <4>3. w[k] = w[m] * t
        BY <2>4, <2>7, <4>2, <1>4
      <4>4. CASE x + 1 = n
        <5>1. w[k] = 0
          BY <4>2, <4>3, <4>4, <1>4
        <5> QED
          BY <2>10, <3>3, <4>4, <5>1
      <4>5. CASE x + 1 # n
        <5>1. w[k] = (x + 1) * t
          BY <4>2, <4>3, <4>5
        <5> QED
          BY <2>10, <3>3, <4>5, <5>1
      <4> QED
        BY <4>4, <4>5
    <3> QED
      BY <3>1, <3>2, <3>3, <2>3, <1>4
  <2> QED
    BY <2>4, <2>10, <2>11 DEF ck
<1> HIDE DEF P, Counts
<1>9. Nat \subseteq P
  BY <1>7, <1>8, Induction
<1>10. Counts(Half)
  BY <1>9, HalfBlock DEF P
<1>11. Carry(Half)
  BY HalfBlock
<1> QED
  BY <1>2, <1>3, <1>10, <1>11 DEF Counts, c

-----------------------------------------------------------------------------
(* The shape of a state. *)

MaxLen == blockSize * NumValues[Half]
Ciphertext == IF op = "encrypt" THEN dst ELSE src

AEADTypeOK ==
    /\ master \in Masters \cup {NoMaster}
    /\ op \in {"none", "new", "refused", "encrypt", "sealed", "decrypt", "opened", "failed"}
    /\ pc \in {"none", "ctr", "mac"}
    /\ iv \in Seq(Byte) /\ src \in Seq(Byte) /\ dst \in Seq(Byte)
    /\ counter \in Block /\ used \in Seq(Block)
    /\ cbc \in Block /\ buf \in Block
    /\ tag \in Seq(Byte) /\ plaintext \in Seq(Byte) /\ altered \in BOOLEAN

\* A call runs under a key and with a whole IV.
InCall ==
    /\ pc # "none" <=> op \in {"encrypt", "decrypt"}
    /\ op \notin {"none", "refused"} => master \in Masters
    /\ pc # "none" \/ op = "sealed" => iv \in Block

SealedLen ==
    op = "sealed" =>
        /\ data \in Seq(Byte \cup {Version, OtherVersion})
        /\ \A i \in 2..Len(data) : data[i] \in Byte
        /\ Len(data) <= Overhead + MaxLen

CTRLen ==
    /\ pc = "ctr" =>
           /\ Len(dst) + Len(src) <= MaxLen
           /\ Len(used) <= NumValues[Half]
           /\ src # <<>> => Len(used) * blockSize + Len(src) <= MaxLen
    /\ pc = "mac" => Len(Ciphertext) <= MaxLen

\* How far the copy loop has come, as a number of bytes of both parts.
Position == blockIdx * blockSize + filled

MACPosition ==
    pc = "mac" =>
        /\ blockIdx \in 0..NumBlocks - 1 /\ filled \in 0..Want
        /\ partIdx \in 1..3 /\ partOff \in Nat
        /\ partIdx = 1 => partOff <= Len(iv) /\ Position = partOff
        /\ partIdx = 2 => partOff <= Len(Ciphertext) /\ Position = Len(iv) + partOff
        /\ partIdx = 3 => partOff = 0 /\ Position = TotalLen

Shape == AEADTypeOK /\ InCall /\ SealedLen /\ CTRLen /\ MACPosition

\* The bound on the length of a slice is a number.
LEMMA MaxLenNat == /\ MaxLen \in Nat /\ NumValues[Half] \in Nat \ {0}
                   /\ MaxLen = NumValues[Half] * blockSize
<1>1. Half \in 0..blockSize
  BY HalfBlock
<1>2. NumValues[Half] \in Nat \ {0} /\ blockSize \in Nat
  BY <1>1, NumValuesEquation, Blocks
<1> QED
  BY <1>2 DEF MaxLen

\* gostCMAC is called for the IV and the ciphertext.
LEMMA PartsAre ==
    /\ Parts[1] = iv /\ Parts[2] = Ciphertext /\ Len(Parts) = 2
    /\ TotalLen = Len(iv) + Len(Ciphertext)
<1>1. Parts = <<iv, Ciphertext>>
  BY DEF Parts, Ciphertext
<1> QED
  BY <1>1 DEF TotalLen

\* The last block has at least one byte and begins where the blocks before it end.
LEMMA NumBlocksBounds ==
    ASSUME TotalLen \in Nat \ {0}
    PROVE  /\ NumBlocks \in Nat \ {0}
           /\ (NumBlocks - 1) * blockSize \in Nat
           /\ (NumBlocks - 1) * blockSize < TotalLen
           /\ TotalLen <= (NumBlocks - 1) * blockSize + blockSize
<1> DEFINE n == TotalLen + blockSize - 1
           q == n \div blockSize
           r == n % blockSize
<1>1. NumBlocks = q
  BY DEF NumBlocks
<1>2. n \in Nat /\ blockSize \in Nat \ {0} /\ n >= blockSize /\ TotalLen = n - (blockSize - 1)
  BY Blocks
<1> HIDE DEF n
<1>3. q \in Nat /\ r \in 0..blockSize - 1 /\ n = q * blockSize + r
  BY <1>2, Division
<1> HIDE DEF q, r
<1>4. q # 0
  BY <1>2, <1>3
<1>5. (q - 1) * blockSize = q * blockSize - blockSize /\ (q - 1) * blockSize \in Nat
  BY <1>2, <1>3, <1>4
<1> QED
  BY <1>1, <1>2, <1>3, <1>4, <1>5

\* While there are blocks to go, the one to be filled lies within the data.
LEMMA WantBounds ==
    iv \in Block /\ Ciphertext \in Seq(Byte) /\ blockIdx \in 0..NumBlocks - 1 =>
        /\ Len(iv) = blockSize /\ Len(Ciphertext) \in Nat
        /\ TotalLen \in Nat /\ TotalLen > 0 /\ TotalLen >= blockSize
        /\ NumBlocks \in Nat \ {0} /\ blockIdx * blockSize \in Nat
        /\ Want \in 1..blockSize
        /\ blockIdx * blockSize + Want <= TotalLen
        /\ blockIdx < NumBlocks - 1 =>
               Want = blockSize /\ blockIdx * blockSize + Want < TotalLen
        /\ blockIdx = NumBlocks - 1 =>
               Want = Remaining /\ blockIdx * blockSize + Want = TotalLen
<1> SUFFICES ASSUME iv \in Block, Ciphertext \in Seq(Byte), blockIdx \in 0..NumBlocks - 1
    PROVE  /\ Len(iv) = blockSize /\ Len(Ciphertext) \in Nat
           /\ TotalLen \in Nat /\ TotalLen > 0 /\ TotalLen >= blockSize
           /\ NumBlocks \in Nat \ {0} /\ blockIdx * blockSize \in Nat
           /\ Want \in 1..blockSize
           /\ blockIdx * blockSize + Want <= TotalLen
           /\ blockIdx < NumBlocks - 1 =>
                  Want = blockSize /\ blockIdx * blockSize + Want < TotalLen
           /\ blockIdx = NumBlocks - 1 =>
                  Want = Remaining /\ blockIdx * blockSize + Want = TotalLen
  OBVIOUS
<1>1. /\ Len(iv) = blockSize /\ Len(Ciphertext) \in Nat
      /\ TotalLen \in Nat /\ TotalLen > 0 /\ TotalLen >= blockSize
  BY PartsAre, Blocks
<1>2. /\ NumBlocks \in Nat \ {0}
      /\ (NumBlocks - 1) * blockSize \in Nat
      /\ (NumBlocks - 1) * blockSize < TotalLen
      /\ TotalLen <= (NumBlocks - 1) * blockSize + blockSize
  BY <1>1, NumBlocksBounds
<1>3. blockSize \in Nat /\ blockSize > 1 /\ blockIdx * blockSize \in Nat
  BY <1>2, Blocks
<1>4. Remaining = TotalLen - blockIdx * blockSize
  BY DEF Remaining
<1>5. CASE blockIdx = NumBlocks - 1
  <2>1. Want = Remaining
    BY <1>5, <1>2 DEF Want
  <2>2. Want \in 1..blockSize /\ blockIdx * blockSize + Want = TotalLen
    BY <1>1, <1>2, <1>3, <1>4, <1>5, <2>1
  <2> QED
    BY <1>1, <1>2, <1>3, <1>5, <2>1, <2>2
<1>6. CASE blockIdx < NumBlocks - 1
  <2>1. Want = blockSize
    BY <1>6 DEF Want
  <2>2. (blockIdx + 1) * blockSize <= (NumBlocks - 1) * blockSize
    BY <1>2, <1>3, <1>6, TimesMonotonic
  <2>3. (blockIdx + 1) * blockSize = blockIdx * blockSize + blockSize
    BY <1>2, <1>3
  <2>4. blockIdx * blockSize + Want < TotalLen
    BY <1>1, <1>2, <1>3, <2>1, <2>2, <2>3
  <2> QED
    BY <1>1, <1>2, <1>3, <1>6, <2>1, <2>4
<1> QED
  BY <1>2, <1>5, <1>6

\* The copy loop ends when it has what it wants.
LEMMA FilledIsWanted ==
    ASSUME Shape, pc = "mac", Filled
    PROVE  filled = Want
<1>1. iv \in Block /\ Ciphertext \in Seq(Byte) /\ blockIdx \in 0..NumBlocks - 1
  BY DEF Shape, AEADTypeOK, InCall, MACPosition, Ciphertext
<1>2. /\ Want \in 1..blockSize /\ blockIdx * blockSize \in Nat /\ blockSize \in Nat
      /\ blockIdx * blockSize + Want <= TotalLen /\ TotalLen \in Nat
  BY <1>1, WantBounds, Blocks
<1>3. filled \in 0..Want /\ partIdx \in 1..3
  BY DEF Shape, MACPosition
<1>4. partIdx = 3 => blockIdx * blockSize + filled = TotalLen
  BY DEF Shape, MACPosition, Position
<1>5. filled >= Want \/ partIdx = 3
  <2>1. partIdx > 2 => partIdx = 3
    BY <1>3
  <2> QED
    BY <2>1, PartsAre DEF Filled
<1> QED
  BY <1>2, <1>3, <1>4, <1>5

\* gostCMAC begins before the first byte.
LEMMA MACStart ==
    /\ iv \in Block /\ Ciphertext \in Seq(Byte)
    /\ blockIdx = 0 /\ filled = 0 /\ partIdx = 1 /\ partOff = 0
    => MACPosition
<1> SUFFICES ASSUME iv \in Block, Ciphertext \in Seq(Byte),
                    blockIdx = 0, filled = 0, partIdx = 1, partOff = 0
             PROVE  MACPosition
  OBVIOUS
<1>1. TotalLen \in Nat \ {0} /\ Len(iv) \in Nat
  BY PartsAre, Blocks
<1>2. blockIdx \in 0..NumBlocks - 1
  BY <1>1, NumBlocksBounds
<1>3. Want \in 1..blockSize /\ blockSize \in Nat /\ blockSize > 0
  BY <1>2, WantBounds, Blocks
<1>4. Position = 0
  BY Blocks DEF Position
<1> QED
  BY <1>1, <1>2, <1>3, <1>4 DEF MACPosition

-----------------------------------------------------------------------------
(* The helpers. *)

\* What xorBytes returns, byte by byte.
LEMMA XorBytesAre ==
    ASSUME NEW a \in Seq(Byte), NEW b, \A i \in 1..Len(a) : b[i] \in Byte
    PROVE  /\ xorBytes(a, b) \in Seq(Byte) /\ Len(xorBytes(a, b)) = Len(a)
           /\ \A i \in 1..Len(a) : xorBytes(a, b)[i] = xor(a[i], b[i])
<1>1. Len(a) \in Nat /\ \A i \in 1..Len(a) : a[i] \in Byte
  OBVIOUS
<1>2. xorBytes(a, b) = [i \in 1..Len(a) |-> xor(a[i], b[i])]
  BY <1>1 DEF xorBytes, Tabulate
<1>3. \A i \in 1..Len(a) : xor(a[i], b[i]) \in Byte
  BY <1>1, Bytes
<1> DEFINE f == [i \in 1..Len(a) |-> xor(a[i], b[i])]
<1>4. f \in [1..Len(a) -> Byte] /\ \A i \in 1..Len(a) : f[i] = xor(a[i], b[i])
  BY <1>3
<1> HIDE DEF f
<1>5. f \in Seq(Byte) /\ Len(f) = Len(a)
  BY <1>1, <1>4
<1> QED
  BY <1>2, <1>4, <1>5 DEF f

\* The same for two blocks.
LEMMA XorBlocks ==
    ASSUME NEW a \in Block, NEW b \in Block
    PROVE  /\ xorBytes(a, b) \in Block
           /\ \A i \in 1..blockSize : xorBytes(a, b)[i] = xor(a[i], b[i])
<1>1. a \in Seq(Byte) /\ Len(a) = blockSize /\ \A i \in 1..blockSize : b[i] \in Byte
  BY Blocks DEF Block
<1> QED
  BY <1>1, XorBytesAre, Blocks

\* The cipher maps blocks to blocks, under both keys.
LEMMA Ciphers ==
    ASSUME NEW m \in Masters
    PROVE  /\ encBlock[m] \in [Block -> Block]
           /\ macBlock[m] \in [Block -> Block]
           /\ \A b, d \in Block : macBlock[m][b] = macBlock[m][d] => b = d
  BY AEADAssumption

\* shiftLeftOne returns a block.
LEMMA ShiftedBlock ==
    ASSUME NEW b \in Block
    PROVE  shiftLeftOne(b) \in Block
<1>1. Len(b) = blockSize /\ blockSize \in Nat
  BY Blocks
<1>2. shiftLeftOne(b) =
          [i \in 1..blockSize |->
              ((2 * b[i]) % (2 * Top)) + (IF i < blockSize THEN b[i + 1] \div Top ELSE 0)]
  BY <1>1 DEF shiftLeftOne, Tabulate
<1>3. ASSUME NEW x \in Byte, NEW y \in Byte
      PROVE  ((2 * x) % (2 * Top)) + (y \div Top) \in Byte
  <2>1. Top \in {1, 2, 4, 8, 16, 32, 64, 128}
    BY AEADAssumption
  <2> QED
    BY <2>1 DEF Byte
<1>4. \A i \in 1..blockSize : b[i] \in Byte /\ (i < blockSize => b[i + 1] \in Byte)
  BY <1>1 DEF Block
<1>5. 0 \in Byte /\ 0 \div Top = 0
  BY AEADAssumption, Bytes
<1>6. \A i \in 1..blockSize :
          ((2 * b[i]) % (2 * Top)) + (IF i < blockSize THEN b[i + 1] \div Top ELSE 0) \in Byte
  <2> TAKE i \in 1..blockSize
  <2>1. CASE i < blockSize
    BY <1>3, <1>4, <2>1
  <2>2. CASE ~ i < blockSize
    <3>1. ((2 * b[i]) % (2 * Top)) + (0 \div Top) \in Byte
      BY <1>3, <1>4, <1>5
    <3> QED
      BY <1>5, <2>2, <3>1
  <2> QED
    BY <2>1, <2>2
<1> QED
  BY <1>2, <1>6 DEF Block

\* cmacGenerateSubkeys returns blocks.
LEMMA Subkeys ==
    ASSUME NEW E \in [Block -> Block]
    PROVE  k1(E) \in Block /\ k2(E) \in Block
<1>1. \A b \in Block : Doubled(b) \in Block
  <2> TAKE b \in Block
  <2>1. rb \in Block /\ shiftLeftOne(b) \in Block
    BY AEADAssumption, ShiftedBlock
  <2>2. xorBytes(shiftLeftOne(b), rb) \in Block
    BY <2>1, XorBlocks
  <2> QED
    BY <2>1, <2>2 DEF Doubled
<1>2. E[ZeroBlock] \in Block
  BY Blocks
<1> QED
  BY <1>1, <1>2 DEF k1, k2

\* What copy leaves in a block, byte by byte.
LEMMA CopiedBlock ==
    ASSUME NEW b \in Block, NEW n \in Nat, NEW bytes \in Seq(Byte)
    PROVE  /\ CopyInto(b, n, bytes) \in Block
           /\ \A i \in 1..blockSize :
                  CopyInto(b, n, bytes)[i] =
                      IF n < i /\ i <= n + Len(bytes) THEN bytes[i - n] ELSE b[i]
<1>1. Len(b) = blockSize /\ blockSize \in Nat
  BY Blocks
<1>2. CopyInto(b, n, bytes) =
          [i \in 1..blockSize |->
              IF n < i /\ i <= n + Len(bytes) THEN bytes[i - n] ELSE b[i]]
  BY <1>1 DEF CopyInto, Tabulate
<1>3. \A i \in 1..blockSize :
          (IF n < i /\ i <= n + Len(bytes) THEN bytes[i - n] ELSE b[i]) \in Byte
  BY <1>1 DEF Block
<1> QED
  BY <1>2, <1>3 DEF Block

\* The last block and the tag are blocks.
LEMMA TagBlock ==
    ASSUME AEADTypeOK, master \in Masters
    PROVE  LastBlock \in Block /\ Tag \in Block
<1>1. /\ macBlock[master] \in [Block -> Block]
      /\ k1(macBlock[master]) \in Block /\ k2(macBlock[master]) \in Block
  BY Ciphers, Subkeys
<1>2. buf \in Block /\ cbc \in Block
  BY DEF AEADTypeOK
<1>3. [buf EXCEPT ![Remaining + 1] = Top] \in Block
  BY <1>2, Bytes DEF Block
<1>4. LastBlock \in Block
  BY <1>1, <1>2, <1>3, XorBlocks DEF LastBlock
<1>5. xorBytes(cbc, LastBlock) \in Block
  BY <1>2, <1>4, XorBlocks
<1> QED
  BY <1>1, <1>4, <1>5 DEF Tag

-----------------------------------------------------------------------------
(* Every step keeps the shape. *)

\* Shape holds before the first call.
LEMMA AEADInitShape == AEADInit => Shape
<1> SUFFICES ASSUME AEADInit  PROVE Shape
  OBVIOUS
<1> USE DEF AEADInit
<1>1. AEADTypeOK
  <2>1. ZeroBlock \in Block
    BY Blocks
  <2>2. /\ iv \in Seq(Byte) /\ src \in Seq(Byte) /\ dst \in Seq(Byte) /\ used \in Seq(Block)
        /\ tag \in Seq(Byte) /\ plaintext \in Seq(Byte)
    OBVIOUS
  <2> QED
    BY <2>1, <2>2 DEF AEADTypeOK
<1>2. InCall /\ SealedLen /\ CTRLen /\ MACPosition
  BY DEF InCall, SealedLen, CTRLen, MACPosition
<1> QED
  BY <1>1, <1>2 DEF Shape

\* NewKuznyechikAEAD keeps Shape.
LEMMA NewShape ==
    ASSUME Shape, NEW m \in Masters \cup BadMasters, NewKuznyechikAEAD(m)
    PROVE  Shape'
<1> USE DEF Shape, NewKuznyechikAEAD, ctrVars, macVars
<1>1. AEADTypeOK'
  BY DEF AEADTypeOK
<1>2. op' \in {"new", "refused"} /\ pc' = "none" /\ (op' = "new" => master' \in Masters)
  BY DEF InCall
<1>3. InCall' /\ SealedLen' /\ CTRLen' /\ MACPosition'
  BY <1>2 DEF InCall, SealedLen, CTRLen, MACPosition
<1> QED
  BY <1>1, <1>3

\* The begin of Encrypt keeps Shape: the plaintext is short enough for gostCTR.
LEMMA EncryptShape ==
    ASSUME Shape, NEW p \in Plaintexts, NEW v \in IVs, Encrypt(p, v)
    PROVE  Shape'
<1> USE DEF Shape, Encrypt, BeginCTR, macVars
<1>1. /\ p \in Seq(Byte) /\ Len(p) <= MaxLen
      /\ v \in Block /\ v \in Seq(Byte)
  BY AEADAssumption, Blocks DEF MaxLen, Half
<1>2. AEADTypeOK'
  BY <1>1 DEF AEADTypeOK
<1>3. InCall'
  BY <1>1 DEF InCall
<1>4. SealedLen' /\ MACPosition'
  BY DEF SealedLen, MACPosition
<1>5. Len(dst') = 0 /\ Len(used') = 0 /\ src' = p /\ Len(p) \in Nat /\ pc' = "ctr"
  BY <1>1
<1>6. CTRLen'
  <2>1. Len(dst') + Len(src') <= MaxLen
    BY <1>1, <1>5
  <2>2. Len(used') <= NumValues[Half]
    BY <1>5, MaxLenNat
  <2>3. Len(used') * blockSize + Len(src') <= MaxLen
    BY <1>1, <1>5, Blocks
  <2>4. MaxLen' = MaxLen /\ (NumValues[Half])' = NumValues[Half]
    OBVIOUS
  <2> QED
    BY <1>5, <2>1, <2>2, <2>3, <2>4 DEF CTRLen
<1> QED
  BY <1>2, <1>3, <1>4, <1>6

\* What one iteration of gostCTR does.
LEMMA CTRBlockEffect ==
    ASSUME Shape, CTRBlock
    PROVE  LET n == IF Len(src) < blockSize THEN Len(src) ELSE blockSize
               gamma == encBlock[master][counter]
           IN  /\ n \in 1..blockSize /\ n <= Len(src) /\ Len(src) \in Nat
               /\ dst' \in Seq(Byte) /\ Len(dst') = Len(dst) + n
               /\ \A i \in 1..Len(dst) : dst'[i] = dst[i]
               /\ \A i \in 1..n : dst'[Len(dst) + i] = xor(src[i], gamma[i])
               /\ src' \in Seq(Byte) /\ Len(src') = Len(src) - n
               /\ \A i \in 1..Len(src) - n : src'[i] = src[n + i]
               /\ used' \in Seq(Block) /\ Len(used') = Len(used) + 1
               /\ used'[Len(used) + 1] = counter
               /\ \A i \in 1..Len(used) : used'[i] = used[i]
               /\ gamma \in Block
<1> DEFINE n == IF Len(src) < blockSize THEN Len(src) ELSE blockSize
           gamma == encBlock[master][counter]
           s == SubSeq(src, 1, n)
           g == SubSeq(gamma, 1, n)
           x == xorBytes(s, g)
<1>1. /\ master \in Masters /\ counter \in Block /\ dst \in Seq(Byte) /\ src \in Seq(Byte)
      /\ used \in Seq(Block) /\ src # <<>>
  BY DEF Shape, AEADTypeOK, InCall, CTRBlock
<1>2. gamma \in Block /\ gamma \in Seq(Byte) /\ Len(gamma) = blockSize
  BY <1>1, Ciphers, Blocks
<1>3. dst' = dst \o x /\ src' = SubSeq(src, n + 1, Len(src)) /\ used' = Append(used, counter)
  BY DEF CTRBlock
<1>4. /\ n \in 1..blockSize /\ n <= Len(src) /\ Len(src) \in Nat /\ blockSize \in Nat
  BY <1>1, Blocks
<1> HIDE DEF n, gamma
<1>5. /\ s \in Seq(Byte) /\ Len(s) = n /\ \A i \in 1..n : s[i] = src[i]
  BY <1>1, <1>4
<1>6. \A i \in 1..n : g[i] = gamma[i] /\ g[i] \in Byte
  BY <1>2, <1>4
<1> HIDE DEF s, g
<1>7. x \in Seq(Byte) /\ Len(x) = n /\ \A i \in 1..n : x[i] = xor(src[i], gamma[i])
  BY <1>5, <1>6, XorBytesAre
<1> HIDE DEF x
<1>8. /\ dst' \in Seq(Byte) /\ Len(dst') = Len(dst) + n
      /\ \A i \in 1..Len(dst) : dst'[i] = dst[i]
      /\ \A i \in 1..n : dst'[Len(dst) + i] = x[i]
  <2>1. /\ dst \o x \in Seq(Byte) /\ Len(dst \o x) = Len(dst) + Len(x)
        /\ \A i \in 1..Len(dst) : (dst \o x)[i] = dst[i]
        /\ \A i \in 1..Len(x) : (dst \o x)[Len(dst) + i] = x[i]
    BY <1>1, <1>7, Joined
  <2> QED
    BY <1>3, <1>7, <2>1
<1>9. /\ src' \in Seq(Byte) /\ Len(src') = Len(src) - n
      /\ \A i \in 1..Len(src) - n : src'[i] = src[n + i]
  BY <1>1, <1>3, <1>4
<1>10. /\ used' \in Seq(Block) /\ Len(used') = Len(used) + 1
       /\ used'[Len(used) + 1] = counter
       /\ \A i \in 1..Len(used) : used'[i] = used[i]
  BY <1>1, <1>3
<1> QED
  BY <1>2, <1>4, <1>7, <1>8, <1>9, <1>10 DEF n, gamma

\* An iteration of gostCTR keeps Shape: as one counter more is used, a block of bytes
\* is done.
LEMMA CTRBlockShape ==
    ASSUME Shape, CTRBlock
    PROVE  Shape'
<1> DEFINE n == IF Len(src) < blockSize THEN Len(src) ELSE blockSize
<1>1. /\ n \in 1..blockSize /\ n <= Len(src) /\ Len(src) \in Nat
      /\ dst' \in Seq(Byte) /\ Len(dst') = Len(dst) + n
      /\ src' \in Seq(Byte) /\ Len(src') = Len(src) - n
      /\ used' \in Seq(Block) /\ Len(used') = Len(used) + 1
  BY CTRBlockEffect
<1>2. counter' \in Block /\ pc = "ctr" /\ src # <<>>
  BY Incremented DEF Shape, AEADTypeOK, CTRBlock
<1>3. AEADTypeOK'
  BY <1>1, <1>2 DEF AEADTypeOK, Shape, CTRBlock, callVars, macVars
<1>4. InCall' /\ SealedLen' /\ MACPosition'
  BY <1>2 DEF InCall, SealedLen, MACPosition, Shape, CTRBlock, callVars, macVars
<1>5. src' # <<>> => n = blockSize
  BY <1>1
<1> HIDE DEF n
<1>6. /\ Len(dst) + Len(src) <= MaxLen
      /\ Len(used) <= NumValues[Half]
      /\ Len(used) * blockSize + Len(src) <= MaxLen
  BY <1>2 DEF CTRLen, Shape
<1>7. Len(used) \in Nat /\ blockSize \in Nat /\ Len(dst) \in Nat
  BY Blocks DEF AEADTypeOK, Shape
<1>8. Len(dst') + Len(src') <= MaxLen
  <2>1. /\ n \in Nat /\ Len(src) \in Nat
        /\ Len(dst') = Len(dst) + n /\ Len(src') = Len(src) - n
    BY <1>1
  <2> QED
    BY <1>6, <1>7, <2>1, MaxLenNat
<1>9. (Len(used) + 1) * blockSize = Len(used) * blockSize + blockSize
  BY <1>7
<1>10. Len(used') <= NumValues[Half]
  <2> SUFFICES ASSUME NumValues[Half] <= Len(used)  PROVE FALSE
    BY <1>1, <1>6, <1>7, MaxLenNat
  <2>1. NumValues[Half] * blockSize <= Len(used) * blockSize
    BY <1>7, MaxLenNat, TimesMonotonic
  <2>2. Len(src) > 0
    BY <1>1
  <2> QED
    BY <1>1, <1>6, <1>7, <2>1, <2>2, MaxLenNat
<1>11. src' # <<>> => Len(used') * blockSize + Len(src') <= MaxLen
  <2> SUFFICES ASSUME src' # <<>>  PROVE Len(used') * blockSize + Len(src') <= MaxLen
    OBVIOUS
  <2>1. n = blockSize
    BY <1>5
  <2>2. Len(used') * blockSize = Len(used) * blockSize + blockSize
    BY <1>1, <1>9
  <2>3. Len(src') = Len(src) - blockSize /\ Len(used) * blockSize \in Nat
    <3>1. Len(used) * blockSize \in Nat
      BY <1>7
    <3> QED
      BY <1>1, <2>1, <3>1
  <2>4. Len(src) \in Nat
    BY <1>1
  <2> QED
    BY <1>6, <1>7, <2>2, <2>3, <2>4, MaxLenNat
<1>12. CTRLen'
  BY <1>2, <1>8, <1>10, <1>11 DEF CTRLen, CTRBlock, MaxLen
<1> QED
  BY <1>3, <1>4, <1>12 DEF Shape

\* The end of gostCTR keeps Shape: gostCMAC begins at the first byte.
LEMMA CTRDoneShape ==
    ASSUME Shape, CTRDone
    PROVE  Shape'
<1>1. /\ pc = "ctr" /\ iv' = iv /\ dst' = dst /\ src' = src /\ master' = master
      /\ counter' = counter /\ used' = used /\ tag' = tag /\ data' = data
      /\ plaintext' = plaintext /\ altered' = altered
  BY DEF CTRDone, callVars, ctrVars
<1>2. op \in {"encrypt", "decrypt"} /\ master \in Masters /\ iv \in Block
  BY <1>1 DEF Shape, InCall
<1>3. CASE op = "encrypt"
  <2>1. /\ op' = op /\ pc' = "mac" /\ cbc' = ZeroBlock /\ buf' = ZeroBlock
        /\ blockIdx' = 0 /\ partIdx' = 1 /\ partOff' = 0 /\ filled' = 0
    BY <1>3 DEF CTRDone, BeginCMAC
  <2>2. ZeroBlock \in Block
    BY Blocks
  <2>3. AEADTypeOK'
    BY <1>1, <2>1, <2>2 DEF Shape, AEADTypeOK
  <2>4. InCall' /\ SealedLen'
    BY <1>1, <1>2, <1>3, <2>1 DEF InCall, SealedLen
  <2>5. Ciphertext' = dst /\ dst \in Seq(Byte)
    BY <1>1, <1>3, <2>1 DEF Ciphertext, Shape, AEADTypeOK
  <2>6. Len(dst) + Len(src) <= MaxLen
    BY <1>1 DEF Shape, CTRLen
  <2>7. Len(dst) \in Nat /\ Len(src) \in Nat
    BY DEF Shape, AEADTypeOK
  <2>8. Len(dst) <= MaxLen
    BY <2>6, <2>7, MaxLenNat
  <2>9. CTRLen'
    BY <2>1, <2>5, <2>8 DEF CTRLen, MaxLen
  <2>10. iv' \in Block /\ Ciphertext' \in Seq(Byte)
    BY <1>1, <1>2, <2>5
  <2>11. MACPosition'
    <3>1. (/\ iv \in Block /\ Ciphertext \in Seq(Byte)
           /\ blockIdx = 0 /\ filled = 0 /\ partIdx = 1 /\ partOff = 0)'
      BY <2>1, <2>10 DEF Block
    <3> QED
      BY <3>1, MACStart, PTL
  <2> QED
    BY <2>3, <2>4, <2>9, <2>11 DEF Shape
<1>4. CASE op = "decrypt"
  <2>1. op' = "opened" /\ pc' = "none" /\ cbc' = cbc /\ buf' = buf
    BY <1>4 DEF CTRDone, macVars
  <2>2. AEADTypeOK'
    BY <1>1, <2>1 DEF Shape, AEADTypeOK
  <2>3. InCall' /\ SealedLen' /\ CTRLen' /\ MACPosition'
    BY <1>1, <1>2, <2>1 DEF InCall, SealedLen, CTRLen, MACPosition
  <2> QED
    BY <2>2, <2>3 DEF Shape
<1> QED
  BY <1>2, <1>3, <1>4

\* What one iteration of the copy loop does: n bytes of a part go into buf.
LEMMA CopyEffect ==
    ASSUME Shape, Copy
    PROVE  \E n \in Nat :
               LET bytes == SubSeq(Parts[partIdx], partOff + 1, partOff + n)
               IN  /\ partIdx \in 1..2 /\ partOff + n <= Len(Parts[partIdx])
                   /\ filled + n <= Want /\ filled' = filled + n
                   /\ bytes \in Seq(Byte) /\ Len(bytes) = n
                   /\ \A i \in 1..n : bytes[i] = Parts[partIdx][partOff + i]
                   /\ buf' = CopyInto(buf, filled, bytes) /\ buf' \in Block
                   /\ \/ /\ partOff + n = Len(Parts[partIdx])
                         /\ partIdx' = partIdx + 1 /\ partOff' = 0
                      \/ /\ filled + n = Want
                         /\ partIdx' = partIdx /\ partOff' = partOff + n
<1> DEFINE part == Parts[partIdx]
           rest == Len(part) - partOff
           need == Want - filled
           n == IF rest <= need THEN rest ELSE need
           bytes == SubSeq(part, partOff + 1, partOff + n)
<1>1. /\ pc = "mac" /\ ~Filled
      /\ buf' = CopyInto(buf, filled, bytes) /\ filled' = filled + n
      /\ IF rest <= need THEN partIdx' = partIdx + 1 /\ partOff' = 0
                         ELSE partOff' = partOff + need /\ partIdx' = partIdx
  BY DEF Copy
<1>2. iv \in Block /\ iv \in Seq(Byte) /\ Ciphertext \in Seq(Byte)
      /\ blockIdx \in 0..NumBlocks - 1 /\ buf \in Block
  BY <1>1 DEF Shape, AEADTypeOK, InCall, MACPosition, Ciphertext
<1>3. Want \in 1..blockSize
  BY <1>2, WantBounds
<1>4. /\ filled \in 0..Want /\ partIdx \in 1..3 /\ partOff \in Nat
      /\ partIdx = 1 => partOff <= Len(iv)
      /\ partIdx = 2 => partOff <= Len(Ciphertext)
  BY <1>1 DEF Shape, MACPosition
<1>5. partIdx \in 1..2 /\ filled < Want
  BY <1>1, <1>3, <1>4, PartsAre DEF Filled
<1>6. part \in Seq(Byte) /\ partOff <= Len(part) /\ Len(part) \in Nat
  BY <1>2, <1>4, <1>5, PartsAre
<1> HIDE DEF part
<1>7. rest \in Nat /\ need \in Nat
  BY <1>3, <1>4, <1>5, <1>6
<1>8. /\ n \in Nat /\ partOff + n <= Len(part) /\ filled + n <= Want
      /\ rest <= need => partOff + n = Len(part)
      /\ ~ rest <= need => filled + n = Want /\ n = need
  BY <1>3, <1>4, <1>6, <1>7
<1> HIDE DEF n, rest, need
<1>9. partOff + n \in Nat /\ (partOff + n) - partOff = n /\ partOff <= partOff + n
  BY <1>4, <1>8
<1>10. /\ bytes \in Seq(Byte) /\ Len(bytes) = n
       /\ \A i \in 1..n : bytes[i] = part[partOff + i]
  <2> DEFINE e == partOff + n
  <2>1. e \in Nat /\ partOff \in Nat /\ partOff <= e /\ e <= Len(part) /\ e - partOff = n
    BY <1>4, <1>8, <1>9
  <2>2. bytes = SubSeq(part, partOff + 1, e)
    OBVIOUS
  <2> HIDE DEF e
  <2>3. /\ SubSeq(part, partOff + 1, e) \in Seq(Byte)
        /\ Len(SubSeq(part, partOff + 1, e)) = e - partOff
        /\ \A i \in 1..e - partOff : SubSeq(part, partOff + 1, e)[i] = part[partOff + i]
    BY <1>6, <2>1, Sliced
  <2> QED
    BY <2>1, <2>2, <2>3
<1> HIDE DEF bytes
<1>11. buf' \in Block
  BY <1>1, <1>2, <1>4, <1>10, CopiedBlock
<1> QED
  BY <1>1, <1>5, <1>8, <1>10, <1>11 DEF bytes, part

\* An iteration of the copy loop keeps Shape: it is where the position in the parts
\* says.
LEMMA CopyShape ==
    ASSUME Shape, Copy
    PROVE  Shape'
<1>1. PICK n \in Nat :
          /\ partIdx \in 1..2 /\ partOff + n <= Len(Parts[partIdx])
          /\ filled + n <= Want /\ filled' = filled + n /\ buf' \in Block
          /\ \/ /\ partOff + n = Len(Parts[partIdx])
                /\ partIdx' = partIdx + 1 /\ partOff' = 0
             \/ /\ filled + n = Want
                /\ partIdx' = partIdx /\ partOff' = partOff + n
  BY CopyEffect
<1>2. /\ pc = "mac" /\ pc' = pc /\ op' = op /\ iv' = iv /\ dst' = dst /\ src' = src
      /\ master' = master /\ counter' = counter /\ used' = used /\ tag' = tag
      /\ data' = data /\ plaintext' = plaintext /\ altered' = altered
      /\ cbc' = cbc /\ blockIdx' = blockIdx
  BY DEF Copy, callVars, ctrVars
<1>3. AEADTypeOK'
  BY <1>1, <1>2 DEF Shape, AEADTypeOK
<1>4. InCall' /\ SealedLen' /\ CTRLen'
  BY <1>2 DEF Shape, InCall, SealedLen, CTRLen, Ciphertext, MaxLen
<1>5. /\ Parts' = Parts /\ TotalLen' = TotalLen /\ NumBlocks' = NumBlocks
      /\ Want' = Want /\ Ciphertext' = Ciphertext
  BY <1>2 DEF Parts, TotalLen, NumBlocks, Want, Remaining, Ciphertext
<1>6. /\ iv \in Block /\ iv \in Seq(Byte) /\ Ciphertext \in Seq(Byte)
      /\ blockIdx \in 0..NumBlocks - 1
  BY <1>2 DEF Shape, AEADTypeOK, InCall, MACPosition, Ciphertext
<1>7. /\ Want \in Nat /\ blockIdx * blockSize \in Nat
      /\ Len(iv) \in Nat /\ Len(Ciphertext) \in Nat
  BY <1>6, WantBounds
<1>8. /\ filled \in 0..Want /\ partOff \in Nat
      /\ partIdx = 1 => blockIdx * blockSize + filled = partOff
      /\ partIdx = 2 => blockIdx * blockSize + filled = Len(iv) + partOff
  BY <1>2 DEF Shape, MACPosition, Position
<1>9. Position' = blockIdx * blockSize + filled + n
  BY <1>1, <1>2, <1>7, <1>8 DEF Position
<1>10. /\ partIdx = 1 => Len(Parts[partIdx]) = Len(iv)
       /\ partIdx = 2 => Len(Parts[partIdx]) = Len(Ciphertext)
       /\ TotalLen = Len(iv) + Len(Ciphertext)
  BY PartsAre
<1>11. filled' \in 0..Want /\ partIdx' \in 1..3 /\ partOff' \in Nat
  BY <1>1, <1>7, <1>8
<1>12. /\ partIdx' = 1 => partOff' <= Len(iv) /\ Position' = partOff'
       /\ partIdx' = 2 => partOff' <= Len(Ciphertext) /\ Position' = Len(iv) + partOff'
       /\ partIdx' = 3 => partOff' = 0 /\ Position' = TotalLen
  <2>1. CASE partIdx = 1
    BY <1>1, <1>7, <1>8, <1>9, <1>10, <2>1
  <2>2. CASE partIdx = 2
    BY <1>1, <1>7, <1>8, <1>9, <1>10, <2>2
  <2> QED
    BY <1>1, <2>1, <2>2
<1>13. MACPosition'
  BY <1>2, <1>5, <1>6, <1>11, <1>12 DEF MACPosition
<1> QED
  BY <1>3, <1>4, <1>13 DEF Shape

\* A block of gostCMAC keeps Shape: the next one begins where it ended.
LEMMA CMACBlockShape ==
    ASSUME Shape, CMACBlock
    PROVE  Shape'
<1>1. /\ pc = "mac" /\ pc' = pc /\ op' = op /\ iv' = iv /\ dst' = dst /\ src' = src
      /\ master' = master /\ counter' = counter /\ used' = used /\ tag' = tag
      /\ data' = data /\ plaintext' = plaintext /\ altered' = altered
      /\ partIdx' = partIdx /\ partOff' = partOff
      /\ Filled /\ blockIdx < NumBlocks - 1
      /\ blockIdx' = blockIdx + 1 /\ filled' = 0
      /\ cbc' = macBlock[master][xorBytes(cbc, buf)]
      /\ buf' \in {ZeroBlock, buf}
  BY DEF CMACBlock, callVars, ctrVars
<1>2. /\ iv \in Block /\ Ciphertext \in Seq(Byte) /\ blockIdx \in 0..NumBlocks - 1
      /\ master \in Masters /\ cbc \in Block /\ buf \in Block
  BY <1>1 DEF Shape, AEADTypeOK, InCall, MACPosition, Ciphertext
<1>3. cbc' \in Block /\ buf' \in Block
  BY <1>1, <1>2, Ciphers, XorBlocks, Blocks
<1>4. AEADTypeOK'
  BY <1>1, <1>3 DEF Shape, AEADTypeOK
<1>5. InCall' /\ SealedLen' /\ CTRLen'
  BY <1>1 DEF Shape, InCall, SealedLen, CTRLen, Ciphertext, MaxLen
<1>6. /\ Parts' = Parts /\ TotalLen' = TotalLen /\ NumBlocks' = NumBlocks
      /\ Ciphertext' = Ciphertext
  BY <1>1 DEF Parts, TotalLen, NumBlocks, Ciphertext
<1>7. /\ NumBlocks \in Nat \ {0} /\ blockIdx * blockSize \in Nat /\ Want = blockSize
  BY <1>1, <1>2, WantBounds
<1>8. blockIdx' \in 0..NumBlocks - 1
  BY <1>1, <1>2, <1>7
<1>9. Want' \in 1..blockSize
  <2>1. (iv \in Block /\ Ciphertext \in Seq(Byte) /\ blockIdx \in 0..NumBlocks - 1)'
    BY <1>1, <1>2, <1>6, <1>8 DEF Block, Byte
  <2>2. (Want \in 1..blockSize)'
    BY <2>1, WantBounds, PTL
  <2> QED
    BY <2>2
<1>10. filled = blockSize
  BY <1>1, <1>7, FilledIsWanted
<1>11. Position' = Position
  <2>1. (blockIdx + 1) * blockSize = blockIdx * blockSize + blockSize
    BY <1>2, <1>7, Blocks
  <2> QED
    BY <1>1, <1>7, <1>10, <2>1, Blocks DEF Position
<1>12. filled' \in 0..Want'
  BY <1>1, <1>9, Blocks
<1>13. MACPosition'
  BY <1>1, <1>6, <1>8, <1>11, <1>12 DEF Shape, MACPosition
<1> QED
  BY <1>4, <1>5, <1>13 DEF Shape

\* What Encrypt returns: where the four parts of it are.
Envelope(v, c, t) == <<Version>> \o v \o c \o t

\* The version, the IV, the ciphertext and the tag follow each other.
LEMMA EnvelopeLayout ==
    ASSUME NEW v \in Block, NEW c \in Seq(Byte), NEW t \in Block
    PROVE  LET e == Envelope(v, c, t)
           IN  /\ e \in Seq(Byte \cup {Version, OtherVersion})
               /\ Len(e) = Overhead + Len(c) /\ e[1] = Version
               /\ \A i \in 1..blockSize : e[1 + i] = v[i]
               /\ \A i \in 1..Len(c) : e[1 + blockSize + i] = c[i]
               /\ \A i \in 1..blockSize : e[1 + blockSize + Len(c) + i] = t[i]
               /\ \A i \in 2..Len(e) : e[i] \in Byte
<1> DEFINE S == Byte \cup {Version, OtherVersion}
           w == <<Version>>
           x == w \o v
           y == x \o c
           e == y \o t
           l == 1 + blockSize
           m == 1 + blockSize + Len(c)
<1>1. /\ w \in Seq(S) /\ Len(w) = 1 /\ w[1] = Version
      /\ v \in Seq(S) /\ c \in Seq(S) /\ t \in Seq(S)
      /\ Len(v) = blockSize /\ Len(t) = blockSize /\ blockSize \in Nat /\ Len(c) \in Nat
  BY Blocks
<1> HIDE DEF S, w
<1>2. /\ x \in Seq(S) /\ Len(x) = l /\ x[1] = w[1]
      /\ \A i \in 1..blockSize : x[1 + i] = v[i]
  <2>1. /\ w \o v \in Seq(S) /\ Len(w \o v) = Len(w) + Len(v)
        /\ \A i \in 1..Len(w) : (w \o v)[i] = w[i]
        /\ \A i \in 1..Len(v) : (w \o v)[Len(w) + i] = v[i]
    <3>1. w \in Seq(S) /\ v \in Seq(S)
      BY <1>1
    <3> QED
      BY <3>1, Joined
  <2> QED
    BY <1>1, <2>1
<1> HIDE DEF x
<1>3. /\ y \in Seq(S) /\ Len(y) = l + Len(c)
      /\ \A i \in 1..l : y[i] = x[i]
      /\ \A i \in 1..Len(c) : y[l + i] = c[i]
  <2>1. /\ x \o c \in Seq(S) /\ Len(x \o c) = Len(x) + Len(c)
        /\ \A i \in 1..Len(x) : (x \o c)[i] = x[i]
        /\ \A i \in 1..Len(c) : (x \o c)[Len(x) + i] = c[i]
    <3>1. x \in Seq(S) /\ c \in Seq(S)
      BY <1>1, <1>2
    <3> QED
      BY <3>1, Joined
  <2> HIDE DEF l
  <2> QED
    BY <1>2, <2>1 DEF y
<1> HIDE DEF y
<1>4. Len(y) = m /\ m \in Nat /\ l \in Nat
  BY <1>1, <1>3
<1>5. /\ e \in Seq(S) /\ Len(e) = m + blockSize
      /\ \A i \in 1..m : e[i] = y[i]
      /\ \A i \in 1..blockSize : e[m + i] = t[i]
  <2>1. /\ y \o t \in Seq(S) /\ Len(y \o t) = Len(y) + Len(t)
        /\ \A i \in 1..Len(y) : (y \o t)[i] = y[i]
        /\ \A i \in 1..Len(t) : (y \o t)[Len(y) + i] = t[i]
    <3>1. y \in Seq(S) /\ t \in Seq(S)
      BY <1>1, <1>3
    <3> QED
      BY <3>1, Joined
  <2> HIDE DEF m, l
  <2> QED
    BY <1>1, <1>4, <2>1 DEF e
<1> HIDE DEF e
<1>6. /\ 1 \in 1..l /\ 1 \in 1..m
      /\ \A i \in 1..blockSize : 1 + i \in 1..l /\ 1 + i \in 1..m
      /\ \A i \in 1..Len(c) : l + i \in 1..m
  BY <1>1, <1>4
<1>7. /\ e[1] = Version
      /\ \A i \in 1..blockSize : e[1 + i] = v[i]
      /\ \A i \in 1..Len(c) : e[l + i] = c[i]
  <2> HIDE DEF m, l
  <2>1. e[1] = y[1] /\ y[1] = x[1]
    BY <1>3, <1>5, <1>6
  <2>2. \A i \in 1..blockSize : e[1 + i] = y[1 + i] /\ y[1 + i] = x[1 + i]
    BY <1>3, <1>5, <1>6
  <2>3. \A i \in 1..Len(c) : e[l + i] = y[l + i]
    BY <1>5, <1>6
  <2> QED
    BY <1>1, <1>2, <1>3, <2>1, <2>2, <2>3
<1>8. /\ \A i \in 1..blockSize : v[i] \in Byte /\ t[i] \in Byte
      /\ \A i \in 1..Len(c) : c[i] \in Byte
  BY <1>1 DEF Block
<1>9. ASSUME NEW i \in 2..Len(e)  PROVE e[i] \in Byte
  <2>1. CASE i <= l
    <3>1. i - 1 \in 1..blockSize /\ 1 + (i - 1) = i
      BY <1>1, <2>1
    <3> QED
      BY <1>7, <1>8, <3>1
  <2>2. CASE i > l /\ i <= m
    <3> DEFINE k == i - l
    <3>1. k \in 1..Len(c) /\ l + k = i
      BY <1>1, <1>4, <2>2
    <3> HIDE DEF k
    <3> QED
      BY <1>7, <1>8, <3>1
  <2>3. CASE i > m
    <3> DEFINE k == i - m
    <3>1. k \in 1..blockSize /\ m + k = i
      BY <1>1, <1>4, <1>5, <2>3
    <3> HIDE DEF k
    <3> QED
      BY <1>5, <1>8, <3>1
  <2> QED
    BY <1>4, <2>1, <2>2, <2>3
<1>10. m + blockSize = Overhead + Len(c)
  BY <1>1 DEF Overhead
<1> QED
  BY <1>5, <1>7, <1>9, <1>10 DEF e, y, x, w, S, Envelope

\* The end of Encrypt keeps Shape.
LEMMA SealedShape ==
    ASSUME Shape, Sealed
    PROVE  Shape'
<1>1. /\ pc = "mac" /\ op = "encrypt" /\ op' = "sealed" /\ pc' = "none"
      /\ iv' = iv /\ dst' = dst /\ src' = src /\ master' = master /\ counter' = counter
      /\ used' = used /\ plaintext' = plaintext /\ altered' = altered
      /\ cbc' = cbc /\ buf' = buf /\ tag' = Tag
      /\ data' = <<Version>> \o iv \o dst \o Tag
  BY DEF Sealed, ctrVars, macVars
<1>2. master \in Masters /\ iv \in Block /\ iv \in Seq(Byte) /\ dst \in Seq(Byte)
  BY <1>1 DEF Shape, InCall, AEADTypeOK
<1>3. Tag \in Block /\ Tag \in Seq(Byte) /\ Len(Tag) = blockSize /\ Len(iv) = blockSize
  BY <1>2, TagBlock, Blocks DEF Shape
<1>4. AEADTypeOK'
  BY <1>1, <1>2, <1>3 DEF Shape, AEADTypeOK
<1>5. InCall' /\ CTRLen' /\ MACPosition'
  BY <1>1, <1>2 DEF InCall, CTRLen, MACPosition
<1>6. SealedLen'
  <2>1. Len(dst) <= MaxLen
    BY <1>1 DEF Shape, CTRLen, Ciphertext
  <2>2. /\ data' \in Seq(Byte \cup {Version, OtherVersion})
        /\ Len(data') = Overhead + Len(dst)
        /\ \A i \in 2..Len(data') : data'[i] \in Byte
    BY <1>1, <1>2, <1>3, EnvelopeLayout DEF Envelope
  <2>3. Len(dst) \in Nat /\ Overhead \in Nat
    BY <1>2, Blocks DEF Overhead
  <2>4. Len(data') <= Overhead + MaxLen
    BY <2>1, <2>2, <2>3, MaxLenNat
  <2> QED
    BY <2>2, <2>4 DEF SealedLen, MaxLen, Overhead
<1> QED
  BY <1>4, <1>5, <1>6 DEF Shape

\* The comparison of the tags keeps Shape.
LEMMA VerifiedShape ==
    ASSUME Shape, Verified
    PROVE  Shape'
<1>1. /\ pc = "mac" /\ op = "decrypt" /\ iv' = iv /\ master' = master /\ data' = data
      /\ plaintext' = plaintext /\ altered' = altered /\ tag' = tag
      /\ cbc' = cbc /\ buf' = buf
  BY DEF Verified, callVars, macVars
<1>2. /\ master \in Masters /\ iv \in Block /\ iv \in Seq(Byte) /\ src \in Seq(Byte)
      /\ Len(src) <= MaxLen
  BY <1>1 DEF Shape, AEADTypeOK, InCall, CTRLen, Ciphertext
<1>3. CASE tag = Tag
  <2>1. /\ op' = op /\ pc' = "ctr" /\ src' = src /\ dst' = <<>> /\ counter' = iv
        /\ used' = <<>>
    BY <1>3 DEF Verified, BeginCTR
  <2>2. AEADTypeOK'
    BY <1>1, <1>2, <2>1 DEF Shape, AEADTypeOK
  <2>3. InCall' /\ SealedLen' /\ MACPosition'
    BY <1>1, <1>2, <2>1 DEF InCall, SealedLen, MACPosition
  <2>4. Len(dst') = 0 /\ Len(used') = 0 /\ Len(src) \in Nat
    BY <1>2, <2>1
  <2>5. Len(used') * blockSize = 0
    BY <2>4, Blocks
  <2>6. /\ Len(dst') + Len(src') <= MaxLen /\ Len(used') <= NumValues[Half]
        /\ Len(used') * blockSize + Len(src') <= MaxLen
    BY <1>2, <2>1, <2>4, <2>5, MaxLenNat
  <2>7. CTRLen'
    BY <2>1, <2>6 DEF CTRLen, MaxLen
  <2> QED
    BY <2>2, <2>3, <2>7 DEF Shape
<1>4. CASE tag # Tag
  <2>1. op' = "failed" /\ pc' = "none" /\ src' = src /\ dst' = dst /\ counter' = counter
        /\ used' = used
    BY <1>4 DEF Verified, ctrVars
  <2>2. AEADTypeOK'
    BY <1>1, <2>1 DEF Shape, AEADTypeOK
  <2>3. InCall' /\ SealedLen' /\ CTRLen' /\ MACPosition'
    BY <1>1, <1>2, <2>1 DEF InCall, SealedLen, CTRLen, MACPosition
  <2> QED
    BY <2>2, <2>3 DEF Shape
<1> QED
  BY <1>3, <1>4

\* Where Decrypt finds the parts of the data.
LEMMA DecryptEffect ==
    ASSUME Shape, Decrypt, op' = "decrypt"
    PROVE  /\ Len(data) >= Overhead /\ data[1] = Version
           /\ iv' \in Block /\ src' \in Seq(Byte) /\ tag' \in Block
           /\ Len(src') = Len(data) - Overhead
           /\ \A i \in 1..blockSize : iv'[i] = data[1 + i]
           /\ \A i \in 1..Len(src') : src'[i] = data[1 + blockSize + i]
           /\ \A i \in 1..blockSize : tag'[i] = data[1 + blockSize + Len(src') + i]
<1>1. op = "sealed" /\ Len(data) >= Overhead /\ data[1] = Version
      /\ iv' = SubSeq(data, 2, 1 + blockSize)
      /\ src' = SubSeq(data, 2 + blockSize, Len(data) - blockSize)
      /\ tag' = SubSeq(data, Len(data) - blockSize + 1, Len(data))
  BY DEF Decrypt
<1> DEFINE S == Byte \cup {Version, OtherVersion}
           l == 1 + blockSize
           m == Len(data) - blockSize
           n == Len(data)
<1>2. data \in Seq(S) /\ \A i \in 2..Len(data) : data[i] \in Byte
  BY <1>1 DEF Shape, SealedLen
<1>3. /\ blockSize \in Nat /\ n \in Nat /\ n >= 1 + 2 * blockSize
  BY <1>1, <1>2, Blocks DEF Overhead
<1>4. /\ l \in Nat /\ m \in Nat /\ 1 <= l /\ l <= m /\ m <= n /\ 1 \in Nat /\ l <= n
      /\ m - l = n - Overhead /\ n - m = blockSize /\ l - 1 = blockSize
      /\ l + (m - l) = m
  BY <1>3 DEF Overhead
<1>5. iv' = SubSeq(data, 1 + 1, l) /\ src' = SubSeq(data, l + 1, m) /\ tag' = SubSeq(data, m + 1, n)
  BY <1>1, <1>3
<1> HIDE DEF S, l, m, n
<1>6. \A a, b \in Nat : 1 <= a /\ a <= b /\ b <= Len(data) =>
          /\ SubSeq(data, a + 1, b) \in Seq(Byte) /\ Len(SubSeq(data, a + 1, b)) = b - a
          /\ \A i \in 1..b - a : SubSeq(data, a + 1, b)[i] = data[a + i]
  <2> SUFFICES ASSUME NEW a \in Nat, NEW b \in Nat, 1 <= a, a <= b, b <= Len(data)
               PROVE  /\ SubSeq(data, a + 1, b) \in Seq(Byte)
                      /\ Len(SubSeq(data, a + 1, b)) = b - a
                      /\ \A i \in 1..b - a : SubSeq(data, a + 1, b)[i] = data[a + i]
    OBVIOUS
  <2>1. \A i \in a + 1..b : data[i] \in Byte
    BY <1>2
  <2>2. /\ SubSeq(data, a + 1, b) \in Seq(S) /\ Len(SubSeq(data, a + 1, b)) = b - a
        /\ \A i \in 1..b - a : SubSeq(data, a + 1, b)[i] = data[a + i]
    BY <1>2, Sliced
  <2>3. \A i \in 1..b - a : a + i \in a + 1..b
    OBVIOUS
  <2>4. SubSeq(data, a + 1, b) \in Seq(Byte)
    BY <2>1, <2>2, <2>3
  <2> QED
    BY <2>2, <2>4
<1>7. n = Len(data)
  BY DEF n
<1>8. /\ iv' \in Seq(Byte) /\ Len(iv') = blockSize
      /\ \A i \in 1..blockSize : iv'[i] = data[1 + i]
  <2>1. 1 \in Nat /\ 1 <= 1 /\ l <= Len(data)
    BY <1>4, <1>7
  <2>2. /\ SubSeq(data, 1 + 1, l) \in Seq(Byte) /\ Len(SubSeq(data, 1 + 1, l)) = l - 1
        /\ \A i \in 1..l - 1 : SubSeq(data, 1 + 1, l)[i] = data[1 + i]
    BY <1>4, <1>6, <2>1
  <2> QED
    BY <1>4, <1>5, <2>2
<1>9. /\ src' \in Seq(Byte) /\ Len(src') = m - l
      /\ \A i \in 1..m - l : src'[i] = data[l + i]
  BY <1>4, <1>5, <1>6, <1>7
<1>10. /\ tag' \in Seq(Byte) /\ Len(tag') = blockSize
       /\ \A i \in 1..blockSize : tag'[i] = data[m + i]
  <2>1. n \in Nat /\ n <= Len(data) /\ m <= n /\ 1 <= m
    BY <1>3, <1>4, <1>7
  <2>2. /\ SubSeq(data, m + 1, n) \in Seq(Byte) /\ Len(SubSeq(data, m + 1, n)) = n - m
        /\ \A i \in 1..n - m : SubSeq(data, m + 1, n)[i] = data[m + i]
    BY <1>4, <1>6, <2>1
  <2> QED
    BY <1>4, <1>5, <2>2
<1>11. iv' \in Block /\ tag' \in Block
  BY <1>8, <1>10, Blocks
<1>12. l + Len(src') = m
  BY <1>4, <1>9
<1> QED
  BY <1>1, <1>4, <1>7, <1>8, <1>9, <1>10, <1>11, <1>12 DEF l

\* The begin of Decrypt keeps Shape.
LEMMA DecryptShape ==
    ASSUME Shape, Decrypt
    PROVE  Shape'
<1>1. /\ op = "sealed" /\ master' = master /\ data' = data /\ plaintext' = plaintext
      /\ altered' = altered /\ dst' = dst /\ counter' = counter /\ used' = used
      /\ op' \in {"failed", "decrypt"}
  BY DEF Decrypt
<1>2. master \in Masters /\ iv \in Block /\ pc = "none"
  BY <1>1 DEF Shape, InCall, AEADTypeOK
<1>3. CASE op' = "failed"
  <2>1. pc' = pc /\ iv' = iv /\ tag' = tag /\ src' = src /\ cbc' = cbc /\ buf' = buf
    BY <1>3 DEF Decrypt, macVars
  <2>2. AEADTypeOK'
    BY <1>1, <1>3, <2>1 DEF Shape, AEADTypeOK
  <2>3. InCall' /\ SealedLen' /\ CTRLen' /\ MACPosition'
    BY <1>1, <1>2, <1>3, <2>1 DEF InCall, SealedLen, CTRLen, MACPosition
  <2> QED
    BY <2>2, <2>3 DEF Shape
<1>4. CASE op' = "decrypt"
  <2>1. /\ iv' \in Block /\ src' \in Seq(Byte) /\ tag' \in Block
        /\ Len(src') = Len(data) - Overhead /\ Len(data) >= Overhead
    BY <1>4, DecryptEffect
  <2>2. /\ pc' = "mac" /\ cbc' = ZeroBlock /\ buf' = ZeroBlock
        /\ blockIdx' = 0 /\ partIdx' = 1 /\ partOff' = 0 /\ filled' = 0
    BY <1>4 DEF Decrypt, BeginCMAC
  <2>3. iv' \in Seq(Byte) /\ tag' \in Seq(Byte) /\ ZeroBlock \in Block
    BY <2>1, Blocks
  <2>4. AEADTypeOK'
    BY <1>1, <1>4, <2>1, <2>2, <2>3 DEF Shape, AEADTypeOK
  <2>5. InCall' /\ SealedLen'
    BY <1>1, <1>2, <1>4, <2>1, <2>2 DEF InCall, SealedLen, Block, Byte
  <2>6. Ciphertext' = src'
    BY <1>4 DEF Ciphertext
  <2>7. CTRLen'
    <3>1. Len(data) <= Overhead + MaxLen /\ Len(data) \in Nat
      BY <1>1 DEF Shape, SealedLen
    <3>2. Overhead \in Nat
      BY Blocks DEF Overhead
    <3>3. Len(src') <= MaxLen
      BY <2>1, <3>1, <3>2, MaxLenNat
    <3> QED
      BY <2>2, <2>6, <3>3 DEF CTRLen, MaxLen
  <2>8. (/\ iv \in Block /\ Ciphertext \in Seq(Byte)
         /\ blockIdx = 0 /\ filled = 0 /\ partIdx = 1 /\ partOff = 0)'
    BY <2>1, <2>2, <2>6 DEF Block, Byte
  <2>9. MACPosition'
    BY <2>8, MACStart, PTL
  <2> QED
    BY <2>4, <2>5, <2>7, <2>9 DEF Shape
<1> QED
  BY <1>1, <1>3, <1>4

\* Altered data is no longer than it was, and its bytes after the first are bytes.
LEMMA AlterShape ==
    ASSUME Shape, Alter
    PROVE  Shape'
<1>1. /\ op = "sealed" /\ op' = op /\ pc' = pc /\ iv' = iv /\ dst' = dst /\ src' = src
      /\ master' = master /\ counter' = counter /\ used' = used /\ tag' = tag
      /\ plaintext' = plaintext /\ altered' = TRUE /\ cbc' = cbc /\ buf' = buf
  BY DEF Alter, ctrVars, macVars
<1>2. pc = "none"
  BY <1>1 DEF Shape, InCall, AEADTypeOK
<1>3. AEADTypeOK' /\ InCall' /\ CTRLen' /\ MACPosition'
  <2>1. AEADTypeOK'
    BY <1>1 DEF Shape, AEADTypeOK
  <2>2. InCall'
    BY <1>1 DEF Shape, InCall
  <2>3. CTRLen' /\ MACPosition'
    BY <1>1, <1>2 DEF CTRLen, MACPosition
  <2> QED
    BY <2>1, <2>2, <2>3
<1> DEFINE S == Byte \cup {Version, OtherVersion}
<1>4. /\ data \in Seq(S) /\ \A i \in 2..Len(data) : data[i] \in Byte
      /\ Len(data) <= Overhead + MaxLen
  BY <1>1 DEF Shape, SealedLen
<1>5. data' \in Seq(S) /\ (\A i \in 2..Len(data') : data'[i] \in Byte)
      /\ Len(data') <= Overhead + MaxLen
  <2>1. CASE data' = [data EXCEPT ![1] = OtherVersion]
    <3>1. data \in [1..Len(data) -> S] /\ Len(data) \in Nat /\ OtherVersion \in S
      BY <1>4
    <3> DEFINE n == Len(data)
    <3>2. n \in Nat /\ data \in [1..n -> S]
      BY <3>1
    <3> HIDE DEF n, S
    <3>3. data' \in [1..n -> S]
      BY <2>1, <3>1, <3>2
    <3>4. \A i \in 2..n : data'[i] = data[i]
      BY <2>1, <3>2
    <3>5. data' \in [1..Len(data) -> S] /\ \A i \in 2..Len(data) : data'[i] = data[i]
      BY <3>3, <3>4 DEF n
    <3>6. data' \in Seq(S) /\ Len(data') = Len(data)
      BY <3>1, <3>5
    <3> QED
      BY <1>4, <3>5, <3>6
  <2>2. ASSUME NEW i \in 2..Len(data), NEW b \in Byte, data' = [data EXCEPT ![i] = b]
        PROVE  /\ data' \in Seq(S) /\ \A j \in 2..Len(data') : data'[j] \in Byte
               /\ Len(data') <= Overhead + MaxLen
    BY <1>4, <2>2
  <2>3. ASSUME NEW n \in 0..Overhead - 1, n < Len(data), data' = SubSeq(data, 1, n)
        PROVE  /\ data' \in Seq(S) /\ \A j \in 2..Len(data') : data'[j] \in Byte
               /\ Len(data') <= Overhead + MaxLen
    <3>1. n \in Nat /\ Len(data) \in Nat /\ Overhead \in Nat
      BY <1>4, Blocks DEF Overhead
    <3>2. Len(data') = n /\ data' \in Seq(S) /\ \A j \in 1..n : data'[j] = data[j]
      BY <1>4, <2>3, <3>1
    <3> QED
      BY <1>4, <2>3, <3>1, <3>2, MaxLenNat
  <2> QED
    BY <2>1, <2>2, <2>3 DEF Alter
<1>6. SealedLen'
  BY <1>5 DEF SealedLen, MaxLen, Overhead, Byte
<1> QED
  BY <1>3, <1>6 DEF Shape

\* The caller's next call keeps Shape.
LEMMA AgainShape ==
    ASSUME Shape, Again
    PROVE  Shape'
<1>1. op \in {"opened", "failed", "refused"}
  BY DEF Again
<1>2. /\ op' = IF op = "refused" THEN "none" ELSE "new"
      /\ master' = master /\ pc' = pc
      /\ iv' = <<>> /\ src' = <<>> /\ dst' = <<>> /\ counter' = ZeroBlock
      /\ cbc' = ZeroBlock /\ buf' = ZeroBlock /\ tag' = <<>> /\ plaintext' = <<>>
      /\ altered' = FALSE /\ used' = <<>>
  BY DEF Again
<1>3. pc = "none"
  BY <1>1 DEF Shape, InCall, AEADTypeOK
<1>4. AEADTypeOK'
  <2>1. ZeroBlock \in Block /\ <<>> \in Seq(Byte) /\ <<>> \in Seq(Block)
    BY Blocks
  <2> QED
    BY <1>1, <1>2, <2>1 DEF Shape, AEADTypeOK
<1>5. InCall'
  BY <1>1, <1>2, <1>3 DEF Shape, InCall
<1>6. SealedLen' /\ CTRLen' /\ MACPosition'
  BY <1>1, <1>2, <1>3 DEF SealedLen, CTRLen, MACPosition
<1> QED
  BY <1>4, <1>5, <1>6 DEF Shape

\* Every step keeps Shape.
LEMMA ShapeStep == Shape /\ [AEADNext]_aeadVars => Shape'
<1> SUFFICES ASSUME Shape, [AEADNext]_aeadVars  PROVE Shape'
  OBVIOUS
<1>1. CASE UNCHANGED aeadVars
  BY <1>1 DEF aeadVars, ctrVars, macVars, Shape, AEADTypeOK, InCall, SealedLen, CTRLen,
              MACPosition, Position, Ciphertext, Parts, TotalLen, NumBlocks, Want, Remaining
<1>2. CASE AEADNext
  BY <1>2, NewShape, EncryptShape, CTRBlockShape, CTRDoneShape, CopyShape, CMACBlockShape,
     SealedShape, VerifiedShape, DecryptShape, AlterShape, AgainShape DEF AEADNext
<1> QED
  BY <1>1, <1>2

\* Throughout Encrypt and Decrypt every variable has its type, a call has a key and an
\* IV, gostCTR does not outlive its counters, and the position of gostCMAC in its blocks
\* is its position in the two parts.
THEOREM ShapeInvariant == AEADSpec => []Shape
<1>1. AEADInit => Shape
  BY AEADInitShape
<1> QED
  BY <1>1, ShapeStep, PTL DEF AEADSpec

-----------------------------------------------------------------------------
(* The counters of a message. *)

\* The counters of a message with the IV v, one after another.
Counters(v) ==
    LET h[n \in 0..NumValues[Half]] ==
            IF n = 0 THEN v ELSE gostCTRIncrement(h[n - 1])
    IN  h
IsCounters(h, v) ==
    /\ h \in [0..NumValues[Half] -> Block] /\ h[0] = v
    /\ \A n \in 1..NumValues[Half] : h[n] = gostCTRIncrement(h[n - 1])
CountersStep(v, h) ==
    [n \in 0..NumValues[Half] |-> IF n = 0 THEN v ELSE gostCTRIncrement(h[n - 1])]

\* Counters satisfies its recursive definition.
LEMMA CountersEquation ==
    ASSUME NEW v \in Block
    PROVE  IsCounters(Counters(v), v)
<1> DEFINE m == NumValues[Half]
           g == [k \in Nat |-> [b \in Block |-> gostCTRIncrement(b)]]
           f == Counters(v)
<1>1. m \in Nat
  BY MaxLenNat
<1>2. \E h : IsCounters(h, v)
  <2>1. \A b \in Block : gostCTRIncrement(b) \in Block
    BY Incremented
  <2>2. IsStep(g, Block)
    BY <2>1 DEF IsStep
  <2>3. \A k \in Nat, b \in Block : g[k][b] = gostCTRIncrement(b)
    OBVIOUS
  <2> HIDE DEF g, m
  <2>4. PICK h : IsIterated(h, m, v, g, Block)
    BY <1>1, <2>2, Recursion
  <2>5. \A k \in 1..m : h[k - 1] \in Block
    BY <1>1, <2>4 DEF IsIterated
  <2>6. IsCounters(h, v)
    BY <2>3, <2>4, <2>5 DEF IsCounters, IsIterated, m
  <2> QED
    BY <2>6
<1>3. \A h : IsCounters(h, v) => h = CountersStep(v, h)
  <2> SUFFICES ASSUME NEW h, IsCounters(h, v)  PROVE h = CountersStep(v, h)
    OBVIOUS
  <2>1. \A n \in 0..m : h[n] = CountersStep(v, h)[n]
    BY <1>1 DEF IsCounters, CountersStep
  <2> QED
    BY <2>1 DEF IsCounters, CountersStep
<1>4. f = CHOOSE h : h = CountersStep(v, h)
  BY DEF Counters, CountersStep
<1> HIDE DEF f
<1>5. f = CountersStep(v, f)
  BY <1>2, <1>3, <1>4
<1>6. f[0] = v /\ \A n \in 1..m : f[n] = gostCTRIncrement(f[n - 1])
  BY <1>1, <1>5 DEF CountersStep
<1>7. \A n \in 0..m : f[n] \in Block
  <2> DEFINE P == {n \in Nat : n <= m => f[n] \in Block}
  <2>1. 0 \in P
    BY <1>6
  <2>2. ASSUME NEW n \in Nat, n \in P  PROVE n + 1 \in P
    <3> SUFFICES ASSUME n + 1 <= m  PROVE f[n + 1] \in Block
      OBVIOUS
    <3>1. n + 1 \in 1..m /\ (n + 1) - 1 = n /\ f[n] \in Block
      BY <1>1, <2>2
    <3> QED
      BY <1>6, <3>1, Incremented
  <2> HIDE DEF P
  <2>3. Nat \subseteq P
    BY <2>1, <2>2, Induction
  <2> QED
    BY <1>1, <2>3 DEF P
<1>8. f \in [0..m -> Block]
  BY <1>5, <1>7 DEF CountersStep
<1> QED
  BY <1>6, <1>8 DEF IsCounters, f

\* The value of the n-th of them, and that its high half is the one of the IV.
Ahead(x, n) == IF x + n < NumValues[Half] THEN x + n ELSE x + n - NumValues[Half]

\* The n-th counter is the IV plus n, modulo what its low half can count, with the high
\* half of the IV.
LEMMA CountersCount ==
    ASSUME NEW v \in Block, NEW n \in 0..NumValues[Half]
    PROVE  /\ CounterValue(Counters(v)[n]) = Ahead(CounterValue(v), n)
           /\ \A i \in 1..Half : Counters(v)[n][i] = v[i]
<1> DEFINE m == NumValues[Half]
           h == Counters(v)
           Agree(b) == \A i \in 1..Half : b[i] = v[i]
           P == {k \in Nat : k <= m => /\ CounterValue(h[k]) = Ahead(CounterValue(v), k)
                                       /\ Agree(h[k])}
<1>1. m \in Nat
  BY MaxLenNat
<1>2. h[0] = v /\ \A k \in 1..m : h[k - 1] \in Block /\ h[k] = gostCTRIncrement(h[k - 1])
  BY <1>1, CountersEquation DEF IsCounters
<1>3. CounterValue(v) \in 0..m - 1
  BY IncrementCounts
<1> HIDE DEF h
<1>4. 0 \in P
  BY <1>1, <1>2, <1>3 DEF Ahead
<1>5. ASSUME NEW k \in Nat, k \in P  PROVE k + 1 \in P
  <2> SUFFICES ASSUME k + 1 <= m
               PROVE  /\ CounterValue(h[k + 1]) = Ahead(CounterValue(v), k + 1)
                      /\ Agree(h[k + 1])
    OBVIOUS
  <2>1. k + 1 \in 1..m /\ (k + 1) - 1 = k
    BY <1>1
  <2>2. h[k] \in Block /\ h[k + 1] = gostCTRIncrement(h[k])
    BY <1>2, <2>1
  <2>3. CounterValue(h[k]) = Ahead(CounterValue(v), k) /\ Agree(h[k])
    BY <1>1, <1>5, <2>1
  <2>4. CounterValue(h[k + 1]) =
            IF CounterValue(h[k]) + 1 = m THEN 0 ELSE CounterValue(h[k]) + 1
    BY <2>2, IncrementCounts
  <2> DEFINE x == CounterValue(v)
  <2>5. x \in 0..m - 1
    BY <1>3
  <2> HIDE DEF x
  <2>6. (IF Ahead(x, k) + 1 = m THEN 0 ELSE Ahead(x, k) + 1) = Ahead(x, k + 1)
    BY <1>1, <2>1, <2>5 DEF Ahead
  <2>7. Agree(h[k + 1])
    BY <2>2, <2>3, Incremented
  <2> QED
    BY <2>3, <2>4, <2>6, <2>7 DEF x
<1> HIDE DEF P
<1>6. Nat \subseteq P
  BY <1>4, <1>5, Induction
<1> QED
  BY <1>1, <1>6 DEF P, h

\* No two of the counters of a message are equal.
LEMMA CountersDiffer ==
    ASSUME NEW v \in Block, NEW i \in 0..NumValues[Half] - 1, NEW j \in 0..NumValues[Half] - 1,
           i # j
    PROVE  Counters(v)[i] # Counters(v)[j]
<1> DEFINE m == NumValues[Half]
           x == CounterValue(v)
<1>1. m \in Nat
  BY MaxLenNat
<1>2. x \in 0..m - 1
  BY IncrementCounts
<1>3. i \in 0..m /\ j \in 0..m
  BY <1>1
<1>4. /\ CounterValue(Counters(v)[i]) = Ahead(x, i)
      /\ CounterValue(Counters(v)[j]) = Ahead(x, j)
  BY <1>3, CountersCount
<1> HIDE DEF x
<1>5. Ahead(x, i) # Ahead(x, j)
  BY <1>1, <1>2 DEF Ahead
<1> QED
  BY <1>4, <1>5

\* What gostCTR has encrypted so far went under the first counters of the IV.
Counting ==
    pc = "ctr" =>
        /\ \A i \in 1..Len(used) : used[i] = Counters(iv)[i - 1]
        /\ counter = Counters(iv)[Len(used)]

\* The first counter is the IV.
LEMMA CountingStart ==
    ASSUME NEW v \in Block
    PROVE  Counters(v)[0] = v
  BY CountersEquation DEF IsCounters

\* An iteration of gostCTR goes on to the next counter.
LEMMA CTRBlockCounting ==
    ASSUME Shape, Counting, CTRBlock
    PROVE  Counting'
<1> DEFINE h == Counters(iv)
           n == Len(used)
<1>1. /\ pc = "ctr" /\ pc' = pc /\ iv' = iv /\ counter' = gostCTRIncrement(counter)
  BY DEF CTRBlock, callVars
<1>2. iv \in Block /\ iv' \in Block
  BY <1>1 DEF Shape, InCall
<1>3. /\ used' \in Seq(Block) /\ Len(used') = Len(used) + 1
      /\ used'[Len(used) + 1] = counter
      /\ \A i \in 1..Len(used) : used'[i] = used[i]
  BY CTRBlockEffect
<1>4. n \in Nat
  BY DEF Shape, AEADTypeOK
<1>5. n + 1 <= NumValues[Half]
  <2>1. Shape'
    BY CTRBlockShape
  <2>2. pc' = "ctr" /\ (NumValues[Half])' = NumValues[Half]
    BY <1>1
  <2>3. Len(used') <= (NumValues[Half])'
    BY <2>1, <2>2 DEF Shape, CTRLen
  <2> QED
    BY <1>3, <2>2, <2>3
<1>6. (\A i \in 1..n : used[i] = h[i - 1]) /\ counter = h[n]
  BY <1>1 DEF Counting
<1>7. h[n + 1] = gostCTRIncrement(h[n])
  <2>1. n + 1 \in 1..NumValues[Half] /\ (n + 1) - 1 = n
    BY <1>4, <1>5, MaxLenNat
  <2>2. \A k \in 1..NumValues[Half] : h[k] = gostCTRIncrement(h[k - 1])
    BY <1>2, CountersEquation DEF IsCounters
  <2> HIDE DEF h, n
  <2> QED
    BY <2>1, <2>2
<1>8. Counters(iv)' = h
  BY <1>1 DEF Counters, Half
<1> HIDE DEF h
<1>9. \A i \in 1..n + 1 : used'[i] = h[i - 1]
  BY <1>3, <1>4, <1>6
<1>10. counter' = h[n + 1]
  BY <1>1, <1>6, <1>7
<1> QED
  BY <1>3, <1>8, <1>9, <1>10 DEF Counting

\* Every step keeps Counting.
LEMMA CountingStep == Shape /\ Counting /\ [AEADNext]_aeadVars => Counting'
<1> SUFFICES ASSUME Shape, Counting, [AEADNext]_aeadVars  PROVE Counting'
  OBVIOUS
<1>1. CASE CTRBlock
  BY <1>1, CTRBlockCounting
<1>2. ASSUME pc' = "ctr", used' = <<>>, counter' = iv', iv' \in Block
      PROVE  Counting'
  <2>1. Len(used') = 0
    BY <1>2
  <2>2. Counters(iv')[0] = iv'
    BY <1>2, CountingStart
  <2>3. (Counters(iv)[Len(used)])' = Counters(iv')[Len(used')]
    BY DEF Counters, Half
  <2>4. counter' = (Counters(iv)[Len(used)])'
    BY <1>2, <2>1, <2>2, <2>3
  <2> QED
    BY <2>1, <2>4 DEF Counting
<1>3. ASSUME NEW p \in Plaintexts, NEW v \in IVs, Encrypt(p, v)  PROVE Counting'
  <2>1. pc' = "ctr" /\ used' = <<>> /\ counter' = iv' /\ iv' \in Block
    BY <1>3, AEADAssumption DEF Encrypt, BeginCTR
  <2> QED
    BY <1>2, <2>1
<1>4. CASE Verified
  <2>1. CASE tag = Tag
    <3>1. pc' = "ctr" /\ used' = <<>> /\ counter' = iv' /\ iv' \in Block
      BY <1>4, <2>1 DEF Verified, BeginCTR, callVars, Shape, InCall
    <3> QED
      BY <1>2, <3>1
  <2>2. CASE tag # Tag
    BY <1>4, <2>2 DEF Verified, Counting
  <2> QED
    BY <2>1, <2>2
<1>5. CASE UNCHANGED aeadVars
  BY <1>5 DEF aeadVars, ctrVars, Counting, Counters, Half
<1>6. ASSUME NEW m \in Masters \cup BadMasters, NewKuznyechikAEAD(m)  PROVE Counting'
  BY <1>6 DEF NewKuznyechikAEAD, ctrVars, Counting, Shape, InCall
<1>7. CASE CTRDone
  BY <1>7 DEF CTRDone, BeginCMAC, Counting
<1>8. CASE Copy \/ CMACBlock
  BY <1>8 DEF Copy, CMACBlock, Counting
<1>9. CASE Sealed
  BY <1>9 DEF Sealed, Counting
<1>10. CASE Decrypt \/ Alter \/ Again
  <2>1. pc' # "ctr"
    BY <1>10 DEF Decrypt, BeginCMAC, Alter, Again, Shape, InCall
  <2> QED
    BY <2>1 DEF Counting
<1> QED
  BY <1>1, <1>3, <1>4, <1>5, <1>6, <1>7, <1>8, <1>9, <1>10 DEF AEADNext

\* As long as there are bytes to encrypt the counters have not come round.
LEMMA CountingShows == Shape /\ Counting => GammaNeverRepeats
<1> SUFFICES ASSUME Shape, Counting, pc = "ctr"
             PROVE  /\ \A i, j \in 1..Len(used) : i # j => used[i] # used[j]
                    /\ \A i \in 1..Len(used) : SubSeq(used[i], 1, Half) = SubSeq(iv, 1, Half)
  BY DEF GammaNeverRepeats, Half
<1> DEFINE m == NumValues[Half]
<1>1. /\ iv \in Block /\ iv \in Seq(Byte) /\ used \in Seq(Block) /\ Len(used) \in Nat
      /\ m \in Nat /\ Len(used) <= m /\ Half \in Nat /\ blockSize = Half + Half
  BY MaxLenNat, HalfBlock, Blocks DEF Shape, AEADTypeOK, InCall, CTRLen
<1>2. \A i \in 1..Len(used) : used[i] = Counters(iv)[i - 1]
  BY DEF Counting
<1>3. ASSUME NEW i \in 1..Len(used), NEW j \in 1..Len(used), i # j
      PROVE  used[i] # used[j]
  <2>1. i - 1 \in 0..m - 1 /\ j - 1 \in 0..m - 1 /\ i - 1 # j - 1
    BY <1>1, <1>3
  <2>2. Counters(iv)[i - 1] # Counters(iv)[j - 1]
    BY <1>1, <2>1, CountersDiffer
  <2> QED
    BY <1>2, <2>2
<1>4. ASSUME NEW i \in 1..Len(used)
      PROVE  SubSeq(used[i], 1, Half) = SubSeq(iv, 1, Half)
  <2>1. i - 1 \in 0..m /\ used[i] \in Block
    BY <1>1
  <2>2. \A k \in 1..Half : used[i][k] = iv[k]
    BY <1>1, <1>2, <2>1, CountersCount
  <2>3. used[i] \in Seq(Byte) /\ Len(used[i]) = blockSize /\ Len(iv) = blockSize
    BY <1>1, <2>1, Blocks
  <2> DEFINE a == used[i]
             sa == SubSeq(a, 1, Half)
             si == SubSeq(iv, 1, Half)
  <2>4. /\ sa = [k \in 1..Half |-> a[k]] /\ si = [k \in 1..Half |-> iv[k]]
    <3> HIDE DEF a
    <3>1. a \in Seq(Byte) /\ Len(a) = Half + Half
      BY <1>1, <2>3 DEF a
    <3>2. sa = [k \in 1..Half |-> a[k]]
      BY <1>1, <3>1
    <3>3. si = [k \in 1..Half |-> iv[k]]
      BY <1>1, <2>3
    <3> QED
      BY <3>2, <3>3
  <2> QED
    BY <2>2, <2>4
<1> QED
  BY <1>3, <1>4

\* gostCTR never encrypts two blocks of a message with the gamma of one counter, and no
\* counter leaves the high half of its IV, for any size of a block and of a byte.
THEOREM GammaNeverRepeatsInvariant == AEADSpec => []GammaNeverRepeats
<1>1. AEADInit => Counting
  BY DEF AEADInit, Counting
<1>2. AEADSpec => []Counting
  BY <1>1, CountingStep, ShapeInvariant, PTL DEF AEADSpec
<1> QED
  BY <1>2, ShapeInvariant, CountingShows, PTL

-----------------------------------------------------------------------------
(* The algebra of blocks. *)

\* Blocks with the same bytes are the same.
LEMMA EqualBlocks ==
    ASSUME NEW a \in Block, NEW b \in Block, \A i \in 1..blockSize : a[i] = b[i]
    PROVE  a = b
<1>1. a = [i \in 1..blockSize |-> a[i]] /\ b = [i \in 1..blockSize |-> b[i]]
  BY DEF Block
<1> QED
  BY <1>1

\* xorBytes is associative.
LEMMA XorBlocksAssociative ==
    ASSUME NEW a \in Block, NEW b \in Block, NEW c \in Block
    PROVE  xorBytes(xorBytes(a, b), c) = xorBytes(a, xorBytes(b, c))
<1> DEFINE x == xorBytes(a, b)
           y == xorBytes(b, c)
           l == xorBytes(x, c)
           r == xorBytes(a, y)
<1>1. /\ x \in Block /\ y \in Block
      /\ \A i \in 1..blockSize : x[i] = xor(a[i], b[i]) /\ y[i] = xor(b[i], c[i])
  BY XorBlocks
<1> HIDE DEF x, y
<1>2. /\ l \in Block /\ r \in Block
      /\ \A i \in 1..blockSize : l[i] = xor(x[i], c[i]) /\ r[i] = xor(a[i], y[i])
  BY <1>1, XorBlocks
<1> HIDE DEF l, r
<1>3. \A i \in 1..blockSize : a[i] \in Octet /\ b[i] \in Octet /\ c[i] \in Octet
  BY Bytes DEF Block
<1>4. \A i \in 1..blockSize : l[i] = r[i]
  BY <1>1, <1>2, <1>3, XorAssociative
<1>5. l = r
  BY <1>2, <1>4, EqualBlocks
<1> QED
  BY <1>5 DEF l, r, x, y

\* One of two blocks can be read from the other and their xor.
LEMMA XorBlocksCancel ==
    ASSUME NEW a \in Block, NEW b \in Block, NEW c \in Block
    PROVE  /\ xorBytes(a, b) = xorBytes(a, c) => b = c
           /\ xorBytes(a, c) = xorBytes(b, c) => a = b
<1>1. \A i \in 1..blockSize : a[i] \in Octet /\ b[i] \in Octet /\ c[i] \in Octet
  BY Bytes DEF Block
<1>2. /\ \A i \in 1..blockSize : /\ xorBytes(a, b)[i] = xor(a[i], b[i])
                                 /\ xorBytes(a, c)[i] = xor(a[i], c[i])
                                 /\ xorBytes(b, c)[i] = xor(b[i], c[i])
  BY XorBlocks
<1>3. ASSUME xorBytes(a, b) = xorBytes(a, c)  PROVE b = c
  <2>1. \A i \in 1..blockSize : xor(a[i], b[i]) = xor(a[i], c[i])
    BY <1>2, <1>3
  <2>2. \A i \in 1..blockSize : b[i] = c[i]
    <3> TAKE i \in 1..blockSize
    <3>1. xor(a[i], xor(a[i], b[i])) = b[i] /\ xor(a[i], xor(a[i], c[i])) = c[i]
      BY <1>1, XorInverse
    <3> QED
      BY <2>1, <3>1
  <2> QED
    BY <2>2, EqualBlocks
<1>4. ASSUME xorBytes(a, c) = xorBytes(b, c)  PROVE a = b
  <2>1. \A i \in 1..blockSize : xor(a[i], c[i]) = xor(b[i], c[i])
    BY <1>2, <1>4
  <2>2. \A i \in 1..blockSize : a[i] = b[i]
    <3> TAKE i \in 1..blockSize
    <3>1. xor(xor(a[i], c[i]), c[i]) = a[i] /\ xor(xor(b[i], c[i]), c[i]) = b[i]
      BY <1>1, XorInverse
    <3> QED
      BY <2>1, <3>1
  <2> QED
    BY <2>2, EqualBlocks
<1> QED
  BY <1>3, <1>4

-----------------------------------------------------------------------------
(* The padded message and its chain. *)

\* A slice of blockSize bytes is a block.
LEMMA SlicedBlock ==
    ASSUME NEW p \in Seq(Byte), NEW a \in Nat, a + blockSize <= Len(p)
    PROVE  /\ SubSeq(p, a + 1, a + blockSize) \in Block
           /\ \A j \in 1..blockSize : SubSeq(p, a + 1, a + blockSize)[j] = p[a + j]
<1> DEFINE b == a + blockSize
           s == SubSeq(p, a + 1, b)
<1>1. b \in Nat /\ a <= b /\ b <= Len(p) /\ b - a = blockSize
  BY Blocks
<1> HIDE DEF b
<1>2. s \in Seq(Byte) /\ Len(s) = b - a /\ \A j \in 1..b - a : s[j] = p[a + j]
  BY <1>1, Sliced
<1>3. s \in Block
  BY <1>1, <1>2, Blocks
<1> QED
  BY <1>1, <1>2, <1>3 DEF b

\* A block of a string of n of them.
LEMMA BlockOfBlocks ==
    ASSUME NEW p \in Seq(Byte), NEW n \in Nat, Len(p) = n * blockSize, NEW i \in 1..n
    PROVE  /\ BlockOf(p, i) \in Block
           /\ \A j \in 1..blockSize : BlockOf(p, i)[j] = p[(i - 1) * blockSize + j]
<1> DEFINE a == (i - 1) * blockSize
           b == i * blockSize
<1>1. i \in Nat /\ i - 1 \in Nat /\ i <= n /\ blockSize \in Nat
  BY Blocks
<1>2. a \in Nat /\ b \in Nat /\ b = a + blockSize
  BY <1>1
<1>3. b <= Len(p)
  BY <1>1, TimesMonotonic
<1>4. BlockOf(p, i) = SubSeq(p, a + 1, a + blockSize)
  BY <1>2 DEF BlockOf
<1> HIDE DEF a, b
<1>5. a + blockSize <= Len(p)
  BY <1>2, <1>3
<1>6. /\ SubSeq(p, a + 1, a + blockSize) \in Block
      /\ \A j \in 1..blockSize : SubSeq(p, a + 1, a + blockSize)[j] = p[a + j]
  BY <1>2, <1>5, SlicedBlock
<1> QED
  BY <1>4, <1>6 DEF a

ChainStep(E, p, h) ==
    [i \in 0..Len(p) \div blockSize |->
        IF i = 0 THEN ZeroBlock ELSE E[xorBytes(h[i - 1], BlockOf(p, i))]]
IsChain(E, p, n, h) ==
    /\ h \in [0..n -> Block] /\ h[0] = ZeroBlock
    /\ \A i \in 1..n : h[i] = E[xorBytes(h[i - 1], BlockOf(p, i))]

\* Chain satisfies its recursive definition.
LEMMA ChainEquation ==
    ASSUME NEW E \in [Block -> Block],
           NEW p \in Seq(Byte), NEW n \in Nat, Len(p) = n * blockSize
    PROVE  IsChain(E, p, n, Chain(E, p))
<1> DEFINE g == [k \in Nat |-> [b \in Block |->
                    IF k \in 1..n THEN E[xorBytes(b, BlockOf(p, k))] ELSE b]]
           f == Chain(E, p)
<1>1. Len(p) \div blockSize = n
  <2>1. Len(p) = n * blockSize + 0 /\ blockSize \in Nat \ {0} /\ 0 \in 0..blockSize - 1
    BY Blocks
  <2> QED
    BY <2>1, DivisionUnique
<1>2. \A k \in 1..n, b \in Block : E[xorBytes(b, BlockOf(p, k))] \in Block
  BY BlockOfBlocks, XorBlocks
<1>3. \E h : IsChain(E, p, n, h)
  <2>1. IsStep(g, Block)
    BY <1>2 DEF IsStep
  <2>2. \A k \in 1..n, b \in Block : g[k][b] = E[xorBytes(b, BlockOf(p, k))]
    OBVIOUS
  <2> HIDE DEF g
  <2>3. ZeroBlock \in Block
    BY Blocks
  <2>4. PICK h : IsIterated(h, n, ZeroBlock, g, Block)
    BY <2>1, <2>3, Recursion
  <2>5. \A k \in 1..n : h[k - 1] \in Block
    BY <2>4 DEF IsIterated
  <2>6. IsChain(E, p, n, h)
    BY <2>2, <2>4, <2>5 DEF IsChain, IsIterated
  <2> QED
    BY <2>6
<1>4. \A h : IsChain(E, p, n, h) => h = ChainStep(E, p, h)
  <2> SUFFICES ASSUME NEW h, IsChain(E, p, n, h)  PROVE h = ChainStep(E, p, h)
    OBVIOUS
  <2>1. \A i \in 0..n : h[i] = ChainStep(E, p, h)[i]
    BY <1>1 DEF IsChain, ChainStep
  <2> QED
    BY <1>1, <2>1 DEF IsChain, ChainStep
<1>5. f = CHOOSE h : h = ChainStep(E, p, h)
  BY DEF Chain, ChainStep
<1> HIDE DEF f
<1>6. f = ChainStep(E, p, f)
  BY <1>3, <1>4, <1>5
<1>7. /\ f[0] = ZeroBlock
      /\ \A i \in 1..n : f[i] = E[xorBytes(f[i - 1], BlockOf(p, i))]
  BY <1>1, <1>6 DEF ChainStep
<1>8. \A i \in 0..n : f[i] \in Block
  <2> DEFINE P == {i \in Nat : i <= n => f[i] \in Block}
  <2>1. 0 \in P
    BY <1>7, Blocks
  <2>2. ASSUME NEW i \in Nat, i \in P  PROVE i + 1 \in P
    <3> SUFFICES ASSUME i + 1 <= n  PROVE f[i + 1] \in Block
      OBVIOUS
    <3>1. i + 1 \in 1..n /\ (i + 1) - 1 = i /\ f[i] \in Block
      BY <2>2
    <3> QED
      BY <1>2, <1>7, <3>1
  <2> HIDE DEF P
  <2>3. Nat \subseteq P
    BY <2>1, <2>2, Induction
  <2> QED
    BY <2>3 DEF P
<1>9. f \in [0..n -> Block]
  BY <1>1, <1>6, <1>8 DEF ChainStep
<1> QED
  BY <1>7, <1>9 DEF IsChain, f

\* The elements of three sequences joined.
LEMMA JoinedTwice ==
    ASSUME NEW S, NEW a \in Seq(S), NEW b \in Seq(S), NEW c \in Seq(S)
    PROVE  /\ a \o b \o c \in Seq(S)
           /\ Len(a \o b \o c) = Len(a) + Len(b) + Len(c)
           /\ \A i \in 1..Len(a) : (a \o b \o c)[i] = a[i]
           /\ \A i \in 1..Len(b) : (a \o b \o c)[Len(a) + i] = b[i]
           /\ \A i \in 1..Len(c) : (a \o b \o c)[Len(a) + Len(b) + i] = c[i]
<1> DEFINE x == a \o b
<1>1. /\ x \in Seq(S) /\ Len(x) = Len(a) + Len(b)
      /\ \A i \in 1..Len(a) : x[i] = a[i]
      /\ \A i \in 1..Len(b) : x[Len(a) + i] = b[i]
  BY Joined
<1> HIDE DEF x
<1>2. /\ x \o c \in Seq(S) /\ Len(x \o c) = Len(x) + Len(c)
      /\ \A i \in 1..Len(x) : (x \o c)[i] = x[i]
      /\ \A i \in 1..Len(c) : (x \o c)[Len(x) + i] = c[i]
  <2>1. x \in Seq(S) /\ c \in Seq(S)
    BY <1>1
  <2> QED
    BY <2>1, Joined
<1>3. Len(a) \in Nat /\ Len(b) \in Nat
  OBVIOUS
<1>4. /\ \A i \in 1..Len(a) : i \in 1..Len(x)
      /\ \A i \in 1..Len(b) : Len(a) + i \in 1..Len(x)
  BY <1>1, <1>3
<1> QED
  BY <1>1, <1>2, <1>4 DEF x

\* A message with the padding behind it.
LEMMA Extended ==
    ASSUME NEW m \in Seq(Byte), NEW n \in Nat
    PROVE  LET y == m \o <<Top>> \o [i \in 1..n |-> 0]
           IN  /\ y \in Seq(Byte) /\ Len(y) = Len(m) + 1 + n
               /\ \A i \in 1..Len(m) : y[i] = m[i]
               /\ y[Len(m) + 1] = Top
               /\ \A i \in 1..n : y[Len(m) + 1 + i] = 0
<1> DEFINE z == [i \in 1..n |-> 0]
           t == <<Top>>
           y == m \o t \o z
<1>1. /\ t \in Seq(Byte) /\ Len(t) = 1 /\ t[1] = Top
      /\ z \in Seq(Byte) /\ Len(z) = n /\ \A i \in 1..n : z[i] = 0
  BY Bytes
<1> HIDE DEF z, t
<1>2. /\ y \in Seq(Byte) /\ Len(y) = Len(m) + Len(t) + Len(z)
      /\ \A i \in 1..Len(m) : y[i] = m[i]
      /\ \A i \in 1..Len(t) : y[Len(m) + i] = t[i]
      /\ \A i \in 1..Len(z) : y[Len(m) + Len(t) + i] = z[i]
  <2>1. t \in Seq(Byte) /\ z \in Seq(Byte)
    BY <1>1
  <2> QED
    BY <2>1, JoinedTwice
<1> HIDE DEF y
<1>3. /\ Len(y) = Len(m) + 1 + n /\ y[Len(m) + 1] = Top
      /\ \A i \in 1..n : y[Len(m) + 1 + i] = 0
  <2>1. Len(t) = 1 /\ Len(z) = n /\ t[1] = Top /\ Len(m) \in Nat /\ 1 \in 1..Len(t)
    BY <1>1
  <2>2. Len(y) = Len(m) + 1 + n /\ y[Len(m) + 1] = Top
    BY <1>2, <2>1
  <2>3. \A i \in 1..n : z[i] = 0
    BY <1>1
  <2>4. \A i \in 1..n : y[Len(m) + 1 + i] = z[i]
    BY <1>2, <2>1
  <2> QED
    BY <2>2, <2>3, <2>4
<1> QED
  BY <1>2, <1>3 DEF y, t, z

\* The padding completes the last block, of which the message has r bytes, with
\* the highest bit and zeros; a complete one stays as it is.
LEMMA PaddedBlocks ==
    ASSUME NEW m \in Seq(Byte), NEW q \in Nat, NEW r \in 1..blockSize,
           Len(m) = q * blockSize + r
    PROVE  /\ Padded(m) \in Seq(Byte) /\ Len(Padded(m)) = (q + 1) * blockSize
           /\ \A i \in 1..Len(m) : Padded(m)[i] = m[i]
           /\ \A j \in r + 1..blockSize :
                  Padded(m)[q * blockSize + j] = IF j = r + 1 THEN Top ELSE 0
           /\ Padded(m) = m <=> r = blockSize
           /\ Len(m) % blockSize = 0 <=> r = blockSize
<1>1. blockSize \in Nat \ {0} /\ q * blockSize \in Nat
      /\ (q + 1) * blockSize = q * blockSize + blockSize
  BY Blocks
<1>2. Len(m) > 0 /\ Len(m) \in Nat
  BY <1>1
<1>3. CASE r = blockSize
  <2>1. Len(m) = (q + 1) * blockSize + 0
    BY <1>1, <1>3
  <2>2. Len(m) % blockSize = 0
    <3>1. q + 1 \in Nat /\ 0 \in 0..blockSize - 1
      BY <1>1
    <3>2. ((q + 1) * blockSize + 0) % blockSize = 0
      BY <1>1, <3>1, DivisionUnique
    <3> QED
      BY <2>1, <3>2
  <2>3. Padded(m) = m
    BY <1>2, <2>2 DEF Padded
  <2>4. r + 1..blockSize = {}
    BY <1>1, <1>3
  <2> QED
    BY <1>1, <1>3, <2>1, <2>2, <2>3, <2>4
<1>4. CASE r < blockSize
  <2> DEFINE n == blockSize - 1 - r
             z == [i \in 1..n |-> 0]
             t == <<Top>>
             y == m \o t \o z
  <2>1. Len(m) % blockSize = r
    <3>1. r \in 0..blockSize - 1
      BY <1>1, <1>4
    <3>2. (q * blockSize + r) % blockSize = r
      BY <1>1, <3>1, DivisionUnique
    <3> QED
      BY <3>2
  <2>2. n \in Nat
    BY <1>1, <1>4
  <2>3. Padded(m) = y
    <3> DEFINE k == blockSize - 1 - (Len(m) % blockSize)
               zeros(i) == m \o t \o [j \in 1..i |-> 0]
    <3>1. Len(m) % blockSize # 0 /\ k = n
      BY <2>1
    <3>2. Padded(m) = zeros(k)
      <4>1. Padded(m) = m \o t \o Tabulate(LAMBDA i : 0, k)
        BY <3>1 DEF Padded
      <4>2. k \in Nat
        BY <2>2, <3>1
      <4> HIDE DEF k
      <4>3. Tabulate(LAMBDA i : 0, k) = [j \in 1..k |-> 0]
        BY <4>2 DEF Tabulate
      <4> QED
        BY <4>1, <4>3
    <3> HIDE DEF k, n, zeros
    <3>3. zeros(k) = zeros(n)
      BY <3>1
    <3> QED
      BY <3>2, <3>3 DEF zeros
  <2> HIDE DEF n
  <2>4. /\ y \in Seq(Byte) /\ Len(y) = Len(m) + 1 + n
        /\ \A i \in 1..Len(m) : y[i] = m[i]
        /\ y[Len(m) + 1] = Top
        /\ \A i \in 1..n : y[Len(m) + 1 + i] = 0
    BY <2>2, Extended
  <2> HIDE DEF y
  <2>5. Len(y) = (q + 1) * blockSize
    BY <1>1, <2>4 DEF n
  <2>6. ASSUME NEW j \in r + 1..blockSize
        PROVE  y[q * blockSize + j] = IF j = r + 1 THEN Top ELSE 0
    <3>1. CASE j = r + 1
      <4>1. q * blockSize + j = Len(m) + 1
        BY <1>1, <1>2, <3>1
      <4> QED
        BY <2>4, <3>1, <4>1
    <3>2. CASE j # r + 1
      <4> DEFINE i == j - (r + 1)
      <4>1. i \in 1..n /\ q * blockSize + j = Len(m) + 1 + i
        BY <1>1, <1>2, <1>4, <3>2 DEF n
      <4> HIDE DEF i
      <4> QED
        BY <2>4, <3>2, <4>1
    <3> QED
      BY <3>1, <3>2
  <2>7. Padded(m) # m
    <3>1. Len(y) # Len(m)
      BY <1>2, <2>2, <2>4
    <3> QED
      BY <2>3, <3>1
  <2>8. r # 0 /\ r # blockSize
    BY <1>1, <1>4
  <2> QED
    BY <2>1, <2>3, <2>4, <2>5, <2>6, <2>7, <2>8
<1> QED
  BY <1>1, <1>3, <1>4

-----------------------------------------------------------------------------
(* gostCMAC computes the chain of the message. *)

\* What the tag authenticates, and the chain of the standard over it.
Message == iv \o Ciphertext
MessageChain == Chain(macBlock[master], Padded(Message))

\* The bytes of the IV and of the ciphertext follow each other.
LEMMA MessageJoined ==
    ASSUME iv \in Block, Ciphertext \in Seq(Byte)
    PROVE  /\ Message \in Seq(Byte) /\ Len(Message) = TotalLen
           /\ \A i \in 1..blockSize : Message[i] = iv[i]
           /\ \A i \in 1..Len(Ciphertext) : Message[blockSize + i] = Ciphertext[i]
<1> DEFINE c == Ciphertext
<1>1. iv \in Seq(Byte) /\ c \in Seq(Byte) /\ Len(iv) = blockSize
  BY Blocks
<1>2. TotalLen = Len(iv) + Len(c)
  BY PartsAre
<1> HIDE DEF c
<1>3. /\ iv \o c \in Seq(Byte) /\ Len(iv \o c) = Len(iv) + Len(c)
      /\ \A i \in 1..Len(iv) : (iv \o c)[i] = iv[i]
      /\ \A i \in 1..Len(c) : (iv \o c)[Len(iv) + i] = c[i]
  <2>1. iv \in Seq(Byte) /\ c \in Seq(Byte)
    BY <1>1
  <2> QED
    BY <2>1, Joined
<1>4. Message = iv \o c
  BY DEF Message, c
<1> QED
  BY <1>1, <1>2, <1>3, <1>4 DEF c

\* The blocks that gostCMAC counts are those of the padded message.
LEMMA MessageBlocks ==
    ASSUME iv \in Block, Ciphertext \in Seq(Byte), master \in Masters
    PROVE  LET p == Padded(Message)
               q == NumBlocks - 1
               r == TotalLen - q * blockSize
           IN  /\ q \in Nat /\ r \in 1..blockSize /\ Len(Message) = q * blockSize + r
               /\ p \in Seq(Byte) /\ Len(p) = NumBlocks * blockSize
               /\ \A i \in 1..Len(Message) : p[i] = Message[i]
               /\ \A j \in r + 1..blockSize :
                      p[q * blockSize + j] = IF j = r + 1 THEN Top ELSE 0
               /\ p = Message <=> r = blockSize
               /\ Len(Message) % blockSize = 0 <=> r = blockSize
               /\ IsChain(macBlock[master], p, NumBlocks, MessageChain)
<1> DEFINE p == Padded(Message)
           q == NumBlocks - 1
           r == TotalLen - q * blockSize
<1>1. Message \in Seq(Byte) /\ Len(Message) = TotalLen
  BY MessageJoined
<1>2. TotalLen \in Nat \ {0} /\ blockSize \in Nat
  <2>1. Len(iv) = blockSize /\ Len(Ciphertext) \in Nat
    BY Blocks
  <2> QED
    BY <2>1, PartsAre, Blocks
<1>3. /\ NumBlocks \in Nat \ {0} /\ q * blockSize \in Nat
      /\ q * blockSize < TotalLen /\ TotalLen <= q * blockSize + blockSize
  BY <1>2, NumBlocksBounds
<1>4. q \in Nat /\ q + 1 = NumBlocks
  BY <1>3
<1>5. r \in 1..blockSize /\ TotalLen = q * blockSize + r
  <2> DEFINE k == q * blockSize
  <2>1. k \in Nat /\ k < TotalLen /\ TotalLen <= k + blockSize
    BY <1>3
  <2> HIDE DEF k
  <2>2. TotalLen - k \in 1..blockSize /\ TotalLen = k + (TotalLen - k)
    BY <1>2, <2>1
  <2> QED
    BY <2>2 DEF k
<1> HIDE DEF q, r
<1>6. Len(Message) = q * blockSize + r
  BY <1>1, <1>5
<1>7. /\ p \in Seq(Byte) /\ Len(p) = (q + 1) * blockSize
      /\ \A i \in 1..Len(Message) : p[i] = Message[i]
      /\ \A j \in r + 1..blockSize : p[q * blockSize + j] = IF j = r + 1 THEN Top ELSE 0
      /\ p = Message <=> r = blockSize
      /\ Len(Message) % blockSize = 0 <=> r = blockSize
  BY <1>1, <1>4, <1>5, <1>6, PaddedBlocks
<1>8. IsChain(macBlock[master], p, NumBlocks, MessageChain)
  <2> HIDE DEF p
  <2>1. Len(p) = NumBlocks * blockSize /\ p \in Seq(Byte) /\ NumBlocks \in Nat
    BY <1>3, <1>4, <1>7
  <2>2. macBlock[master] \in [Block -> Block]
    BY Ciphers
  <2>3. IsChain(macBlock[master], p, NumBlocks, Chain(macBlock[master], p))
    BY <2>1, <2>2, ChainEquation
  <2> QED
    BY <2>3 DEF MessageChain, p
<1> QED
  BY <1>4, <1>5, <1>6, <1>7, <1>8 DEF q, r

\* cbc is the chain so far, and buf the beginning of the next block.
MACWorks ==
    pc = "mac" =>
        /\ cbc = MessageChain[blockIdx]
        /\ \A j \in 1..filled : buf[j] = Message[blockIdx * blockSize + j]
        /\ blockIdx = NumBlocks - 1 => \A j \in filled + 1..blockSize : buf[j] = 0

\* MACWorks holds when gostCMAC begins.
LEMMA MACWorksAtStart ==
    /\ iv \in Block /\ Ciphertext \in Seq(Byte) /\ master \in Masters
    /\ cbc = ZeroBlock /\ buf = ZeroBlock /\ blockIdx = 0 /\ filled = 0
    => MACWorks
<1> SUFFICES ASSUME iv \in Block, Ciphertext \in Seq(Byte), master \in Masters,
                    cbc = ZeroBlock, buf = ZeroBlock, blockIdx = 0, filled = 0
             PROVE  MACWorks
  OBVIOUS
<1>1. MessageChain[0] = ZeroBlock
  BY MessageBlocks DEF IsChain
<1>2. \A j \in 1..blockSize : buf[j] = 0
  BY Blocks
<1> QED
  BY <1>1, <1>2 DEF MACWorks

\* The message is what it was while its parts are.
LEMMA MACFrame ==
    ASSUME iv' = iv, dst' = dst, src' = src, op' = op, master' = master
    PROVE  /\ Message' = Message /\ MessageChain' = MessageChain /\ NumBlocks' = NumBlocks
           /\ Ciphertext' = Ciphertext
<1>1. Message' = Message /\ Ciphertext' = Ciphertext
  BY DEF Message, Ciphertext
<1>2. MessageChain' = MessageChain
  BY <1>1 DEF MessageChain
<1>3. NumBlocks' = NumBlocks
  BY DEF NumBlocks, TotalLen, Parts
<1> QED
  BY <1>1, <1>2, <1>3

\* An iteration of the copy loop puts the next bytes of the message where they belong.
LEMMA CopyWorks ==
    ASSUME Shape, MACWorks, Copy
    PROVE  MACWorks'
<1>1. /\ pc = "mac" /\ pc' = pc /\ op' = op /\ iv' = iv /\ dst' = dst /\ src' = src
      /\ master' = master /\ cbc' = cbc /\ blockIdx' = blockIdx
  BY DEF Copy, callVars, ctrVars
<1>2. PICK n \in Nat :
          LET bytes == SubSeq(Parts[partIdx], partOff + 1, partOff + n)
          IN  /\ partIdx \in 1..2 /\ partOff + n <= Len(Parts[partIdx])
              /\ filled + n <= Want /\ filled' = filled + n
              /\ bytes \in Seq(Byte) /\ Len(bytes) = n
              /\ \A i \in 1..n : bytes[i] = Parts[partIdx][partOff + i]
              /\ buf' = CopyInto(buf, filled, bytes)
  BY CopyEffect
<1> DEFINE bytes == SubSeq(Parts[partIdx], partOff + 1, partOff + n)
           k == blockIdx * blockSize
<1>3. /\ Message' = Message /\ MessageChain' = MessageChain /\ NumBlocks' = NumBlocks
  BY <1>1, MACFrame
<1>4. /\ iv \in Block /\ Ciphertext \in Seq(Byte) /\ blockIdx \in 0..NumBlocks - 1
      /\ buf \in Block
  BY <1>1 DEF Shape, AEADTypeOK, InCall, MACPosition, Ciphertext
<1>5. /\ Want \in 1..blockSize /\ k \in Nat /\ blockSize \in Nat
      /\ Len(iv) = blockSize /\ Len(Ciphertext) \in Nat
  BY <1>4, WantBounds, Blocks
<1>6. /\ filled \in Nat /\ partOff \in Nat
      /\ partIdx = 1 => k + filled = partOff
      /\ partIdx = 2 => k + filled = blockSize + partOff
  BY <1>1, <1>5 DEF Shape, MACPosition, Position
<1>7. /\ \A i \in 1..blockSize : Message[i] = iv[i]
      /\ \A i \in 1..Len(Ciphertext) : Message[blockSize + i] = Ciphertext[i]
  BY <1>4, MessageJoined
<1>8. Parts[1] = iv /\ Parts[2] = Ciphertext
  BY PartsAre
<1>9. /\ partIdx \in 1..2 /\ partOff + n <= Len(Parts[partIdx])
      /\ filled + n <= Want /\ filled' = filled + n
      /\ bytes \in Seq(Byte) /\ Len(bytes) = n
      /\ \A i \in 1..n : bytes[i] = Parts[partIdx][partOff + i]
      /\ buf' = CopyInto(buf, filled, bytes)
  BY <1>2
<1> HIDE DEF k, bytes
<1>10. \A i \in 1..n : bytes[i] = Message[k + filled + i]
  <2>1. CASE partIdx = 1
    <3>1. \A i \in 1..n : partOff + i \in 1..blockSize
      BY <1>5, <1>6, <1>8, <1>9, <2>1
    <3>2. \A i \in 1..n : bytes[i] = iv[partOff + i]
      BY <1>8, <1>9, <2>1
    <3>3. k + filled = partOff
      BY <1>6, <2>1
    <3> QED
      BY <1>7, <3>1, <3>2, <3>3
  <2>2. CASE partIdx = 2
    <3>1. \A i \in 1..n : partOff + i \in 1..Len(Ciphertext)
      BY <1>5, <1>6, <1>8, <1>9, <2>2
    <3>2. \A i \in 1..n : bytes[i] = Ciphertext[partOff + i]
      BY <1>8, <1>9, <2>2
    <3>3. \A i \in 1..n : k + filled + i = blockSize + (partOff + i)
      BY <1>5, <1>6, <2>2
    <3> QED
      BY <1>7, <3>1, <3>2, <3>3
  <2> QED
    BY <1>9, <2>1, <2>2
<1>11. \A i \in 1..blockSize :
           buf'[i] = IF filled < i /\ i <= filled + n THEN bytes[i - filled] ELSE buf[i]
  <2>1. buf \in Block /\ filled \in Nat /\ bytes \in Seq(Byte) /\ Len(bytes) = n
    BY <1>4, <1>6, <1>9
  <2>2. \A i \in 1..blockSize :
            CopyInto(buf, filled, bytes)[i] =
                IF filled < i /\ i <= filled + Len(bytes) THEN bytes[i - filled] ELSE buf[i]
    BY <2>1, CopiedBlock
  <2> QED
    BY <1>9, <2>1, <2>2
<1>12. \A j \in 1..filled : buf[j] = Message[k + j]
  BY <1>1 DEF MACWorks, k
<1>13. \A j \in 1..filled + n : buf'[j] = Message[k + j]
  <2> TAKE j \in 1..filled + n
  <2>1. j \in 1..blockSize
    BY <1>5, <1>6, <1>9
  <2>2. CASE j <= filled
    BY <1>6, <1>11, <1>12, <2>1, <2>2
  <2>3. CASE j > filled
    <3> DEFINE i == j - filled
    <3>1. i \in 1..n /\ k + filled + i = k + j
      BY <1>5, <1>6, <2>1, <2>3
    <3>2. buf'[j] = bytes[i]
      BY <1>6, <1>11, <2>1, <2>3
    <3> HIDE DEF i
    <3> QED
      BY <1>10, <3>1, <3>2
  <2> QED
    BY <1>6, <2>2, <2>3
<1>14. blockIdx = NumBlocks - 1 => \A j \in filled + n + 1..blockSize : buf'[j] = 0
  <2> SUFFICES ASSUME blockIdx = NumBlocks - 1, NEW j \in filled + n + 1..blockSize
               PROVE  buf'[j] = 0
    OBVIOUS
  <2>1. j \in 1..blockSize /\ j \in filled + 1..blockSize /\ ~ j <= filled + n
    BY <1>5, <1>6
  <2>2. buf'[j] = buf[j]
    BY <1>11, <2>1
  <2> QED
    BY <1>1, <2>1, <2>2 DEF MACWorks
<1>15. cbc' = MessageChain'[blockIdx']
  BY <1>1, <1>3 DEF MACWorks
<1> QED
  BY <1>1, <1>3, <1>9, <1>13, <1>14, <1>15 DEF MACWorks, k

\* A block of gostCMAC takes the chain one block further.
LEMMA CMACBlockWorks ==
    ASSUME Shape, MACWorks, CMACBlock
    PROVE  MACWorks'
<1> DEFINE E == macBlock[master]
           p == Padded(Message)
           k == blockIdx * blockSize
           b == blockIdx + 1
           s == BlockOf(p, b)
           h == MessageChain
<1>1. /\ pc = "mac" /\ pc' = pc /\ op' = op /\ iv' = iv /\ dst' = dst /\ src' = src
      /\ master' = master
      /\ Filled /\ blockIdx < NumBlocks - 1
      /\ blockIdx' = b /\ filled' = 0 /\ cbc' = E[xorBytes(cbc, buf)]
      /\ b = NumBlocks - 1 => buf' = ZeroBlock
  BY DEF CMACBlock, callVars, ctrVars
<1>2. /\ iv \in Block /\ Ciphertext \in Seq(Byte) /\ blockIdx \in 0..NumBlocks - 1
      /\ master \in Masters /\ cbc \in Block /\ buf \in Block
  BY <1>1 DEF Shape, AEADTypeOK, InCall, MACPosition, Ciphertext
<1>3. /\ NumBlocks \in Nat \ {0} /\ k \in Nat /\ Want = blockSize
      /\ k + blockSize < TotalLen /\ blockSize \in Nat
  BY <1>1, <1>2, WantBounds, Blocks
<1>4. filled = blockSize
  BY <1>1, <1>3, FilledIsWanted
<1>5. \A j \in 1..blockSize : buf[j] = Message[k + j]
  BY <1>1, <1>4 DEF MACWorks
<1>6. /\ p \in Seq(Byte) /\ Len(p) = NumBlocks * blockSize
      /\ \A i \in 1..Len(Message) : p[i] = Message[i]
      /\ IsChain(E, p, NumBlocks, h)
  BY <1>2, MessageBlocks
<1>7. Message \in Seq(Byte) /\ Len(Message) = TotalLen /\ TotalLen \in Nat
  BY <1>2, MessageJoined, WantBounds
<1>8. cbc = h[blockIdx]
  BY <1>1 DEF MACWorks
<1>9. b \in 1..NumBlocks /\ b - 1 = blockIdx /\ blockIdx \in Nat
  BY <1>1, <1>2, <1>3
<1>10. /\ s \in Block
       /\ \A j \in 1..blockSize : s[j] = p[(b - 1) * blockSize + j]
  <2>1. p \in Seq(Byte) /\ Len(p) = NumBlocks * blockSize /\ NumBlocks \in Nat
    BY <1>3, <1>6
  <2> HIDE DEF p, b
  <2> QED
    BY <1>9, <2>1, BlockOfBlocks
<1>11. \A j \in 1..blockSize : s[j] = p[k + j]
  BY <1>9, <1>10
<1> HIDE DEF p, k, s, b, h
<1>12. \A j \in 1..blockSize : s[j] = buf[j]
  <2>1. \A j \in 1..blockSize : k + j \in 1..Len(Message)
    BY <1>3, <1>7
  <2> QED
    BY <1>5, <1>6, <1>11, <2>1
<1>13. s = buf
  BY <1>2, <1>10, <1>12, EqualBlocks
<1>14. h[b] = E[xorBytes(h[b - 1], s)]
  BY <1>6, <1>9 DEF IsChain, s
<1>15. cbc' = h[b]
  BY <1>1, <1>8, <1>9, <1>13, <1>14
<1>16. MessageChain' = h /\ NumBlocks' = NumBlocks
  BY <1>1, MACFrame DEF h
<1>17. b = NumBlocks - 1 => \A j \in 1..blockSize : buf'[j] = 0
  BY <1>1, Blocks
<1> QED
  BY <1>1, <1>15, <1>16, <1>17 DEF MACWorks

\* The last block that gostCMAC has filled is the last one of the padded message.
LEMMA TagOfMessage ==
    ASSUME Shape, MACWorks, pc = "mac", Filled, blockIdx = NumBlocks - 1
    PROVE  Tag = CMAC(macBlock[master], Message)
<1> DEFINE E == macBlock[master]
           p == Padded(Message)
           q == NumBlocks - 1
           k == q * blockSize
           r == TotalLen - k
           s == BlockOf(p, NumBlocks)
           h == MessageChain
<1>1. /\ iv \in Block /\ Ciphertext \in Seq(Byte) /\ blockIdx \in 0..NumBlocks - 1
      /\ master \in Masters /\ cbc \in Block /\ buf \in Block
  BY DEF Shape, AEADTypeOK, InCall, MACPosition, Ciphertext
<1>2. /\ NumBlocks \in Nat \ {0} /\ k \in Nat /\ Want = Remaining
      /\ k + Want = TotalLen /\ TotalLen \in Nat /\ TotalLen > 0 /\ blockSize \in Nat
  BY <1>1, WantBounds, Blocks
<1>3. Remaining = r /\ filled = r
  BY <1>2, FilledIsWanted DEF Remaining
<1>4. /\ q \in Nat /\ r \in 1..blockSize /\ Len(Message) = k + r
      /\ p \in Seq(Byte) /\ Len(p) = NumBlocks * blockSize
      /\ \A i \in 1..Len(Message) : p[i] = Message[i]
      /\ \A j \in r + 1..blockSize : p[k + j] = IF j = r + 1 THEN Top ELSE 0
      /\ p = Message <=> r = blockSize
      /\ Len(Message) % blockSize = 0 <=> r = blockSize
      /\ IsChain(E, p, NumBlocks, h)
  BY <1>1, MessageBlocks
<1>5. Message \in Seq(Byte) /\ Len(Message) = TotalLen
  BY <1>1, MessageJoined
<1>6. /\ cbc = h[q]
      /\ \A j \in 1..r : buf[j] = Message[k + j]
      /\ \A j \in r + 1..blockSize : buf[j] = 0
  BY <1>3 DEF MACWorks
<1>7. q + 1 = NumBlocks /\ NumBlocks - 1 = q /\ NumBlocks \in 1..NumBlocks
  BY <1>2
<1>8. /\ s \in Block
      /\ \A j \in 1..blockSize : s[j] = p[k + j]
  <2>1. p \in Seq(Byte) /\ Len(p) = NumBlocks * blockSize /\ NumBlocks \in Nat
    BY <1>2, <1>4
  <2>2. s \in Block /\ \A j \in 1..blockSize : s[j] = p[(NumBlocks - 1) * blockSize + j]
    <3> HIDE DEF p
    <3> QED
      BY <1>7, <2>1, BlockOfBlocks
  <2> QED
    BY <2>2
<1>9. Len(p) \div blockSize = NumBlocks
  <2>1. /\ blockSize \in Nat \ {0} /\ NumBlocks \in Nat /\ 0 \in 0..blockSize - 1
        /\ Len(p) = NumBlocks * blockSize + 0
    BY <1>2, <1>4, Blocks
  <2>2. (NumBlocks * blockSize + 0) \div blockSize = NumBlocks
    BY <2>1, DivisionUnique
  <2> QED
    BY <2>1, <2>2
<1>10. CMAC(E, Message) =
           E[xorBytes(xorBytes(h[q], s), IF p = Message THEN k1(E) ELSE k2(E))]
  <2>1. Chain(E, p) = h
    BY DEF MessageChain
  <2> QED
    BY <1>9, <2>1 DEF CMAC
<1>11. E \in [Block -> Block] /\ k1(E) \in Block /\ k2(E) \in Block
  BY <1>1, Ciphers, Subkeys
<1>12. Tag = E[xorBytes(cbc, LastBlock)]
  BY DEF Tag
<1> HIDE DEF p, k, q, r, s, h, E
<1>13. \A j \in 1..r : s[j] = buf[j]
  <2>1. \A j \in 1..r : j \in 1..blockSize /\ k + j \in 1..Len(Message)
    BY <1>2, <1>4
  <2> QED
    BY <1>4, <1>6, <1>8, <2>1
<1>14. CASE r = blockSize
  <2>1. s = buf
    BY <1>1, <1>8, <1>13, <1>14, EqualBlocks
  <2>2. TotalLen % blockSize = 0
    BY <1>4, <1>5, <1>14
  <2>3. LastBlock = xorBytes(buf, k1(E))
    BY <1>2, <2>2 DEF LastBlock, E
  <2>4. xorBytes(cbc, xorBytes(buf, k1(E))) = xorBytes(xorBytes(cbc, buf), k1(E))
    BY <1>1, <1>11, XorBlocksAssociative
  <2> QED
    BY <1>4, <1>6, <1>10, <1>12, <1>14, <2>1, <2>3, <2>4 DEF E
<1>15. CASE r # blockSize
  <2> DEFINE d == [buf EXCEPT ![r + 1] = Top]
  <2>1. r + 1 \in 1..blockSize
    BY <1>2, <1>4, <1>15
  <2>2. /\ d \in Block /\ d[r + 1] = Top
        /\ \A j \in 1..blockSize : j # r + 1 => d[j] = buf[j]
    BY <1>1, <2>1, Bytes DEF Block
  <2>3. TotalLen % blockSize # 0
    BY <1>4, <1>5, <1>15
  <2>4. LastBlock = xorBytes(d, k2(E))
    BY <1>3, <2>3 DEF LastBlock, E
  <2> HIDE DEF d
  <2>5. \A j \in 1..blockSize : s[j] = d[j]
    <3> TAKE j \in 1..blockSize
    <3>1. CASE j \in 1..r
      <4>1. j # r + 1
        BY <1>4, <3>1
      <4> QED
        BY <1>13, <2>2, <3>1, <4>1
    <3>2. CASE j = r + 1
      <4>1. j \in r + 1..blockSize
        BY <1>4, <2>1, <3>2
      <4>2. p[k + j] = Top
        BY <1>4, <3>2, <4>1
      <4> QED
        BY <1>8, <2>2, <3>2, <4>2
    <3>3. CASE j \in r + 1..blockSize /\ j # r + 1
      BY <1>4, <1>6, <1>8, <2>2, <3>3
    <3> QED
      BY <1>2, <1>4, <3>1, <3>2, <3>3
  <2>6. s = d
    BY <1>8, <2>2, <2>5, EqualBlocks
  <2>7. xorBytes(cbc, xorBytes(d, k2(E))) = xorBytes(xorBytes(cbc, d), k2(E))
    BY <1>1, <1>11, <2>2, XorBlocksAssociative
  <2> QED
    BY <1>4, <1>6, <1>10, <1>12, <1>15, <2>4, <2>6, <2>7 DEF E
<1> QED
  BY <1>14, <1>15 DEF E

\* Every step keeps MACWorks.
LEMMA MACWorksStep == Shape /\ MACWorks /\ [AEADNext]_aeadVars => MACWorks'
<1> SUFFICES ASSUME Shape, MACWorks, [AEADNext]_aeadVars  PROVE MACWorks'
  OBVIOUS
<1>1. CASE Copy
  BY <1>1, CopyWorks
<1>2. CASE CMACBlock
  BY <1>2, CMACBlockWorks
<1>3. Shape'
  BY ShapeStep
<1>4. ASSUME pc' = "mac", BeginCMAC  PROVE MACWorks'
  <2>1. cbc' = ZeroBlock /\ buf' = ZeroBlock /\ blockIdx' = 0 /\ filled' = 0
    BY <1>4 DEF BeginCMAC
  <2>2. (iv \in Block)'
    BY <1>3, <1>4 DEF Shape, InCall
  <2>3. (Ciphertext \in Seq(Byte))'
    BY <1>3 DEF Shape, AEADTypeOK, Ciphertext
  <2>4. (master \in Masters)'
    BY <1>3, <1>4 DEF Shape, InCall
  <2>5. (/\ iv \in Block /\ Ciphertext \in Seq(Byte) /\ master \in Masters
         /\ cbc = ZeroBlock /\ buf = ZeroBlock /\ blockIdx = 0 /\ filled = 0)'
    BY <2>1, <2>2, <2>3, <2>4 DEF ZeroBlock
  <2> QED
    BY <2>5, MACWorksAtStart, PTL
<1>5. CASE CTRDone
  <2>1. CASE op = "encrypt"
    BY <1>4, <1>5, <2>1 DEF CTRDone, BeginCMAC
  <2>2. CASE op # "encrypt"
    BY <1>5, <2>2 DEF CTRDone, MACWorks
  <2> QED
    BY <2>1, <2>2
<1>6. CASE Decrypt
  <2>1. CASE op' = "decrypt"
    BY <1>4, <1>6, <2>1 DEF Decrypt, BeginCMAC
  <2>2. CASE op' # "decrypt"
    BY <1>6, <2>2 DEF Decrypt, MACWorks, Shape, InCall
  <2> QED
    BY <2>1, <2>2
<1>7. CASE UNCHANGED aeadVars
  <2>1. /\ iv' = iv /\ dst' = dst /\ src' = src /\ op' = op /\ master' = master
        /\ pc' = pc /\ cbc' = cbc /\ blockIdx' = blockIdx /\ filled' = filled /\ buf' = buf
    BY <1>7 DEF aeadVars, ctrVars, macVars
  <2> QED
    BY <2>1, MACFrame DEF MACWorks
<1>8. ASSUME pc' # "mac"  PROVE MACWorks'
  BY <1>8 DEF MACWorks
<1>9. ASSUME NEW m \in Masters \cup BadMasters, NewKuznyechikAEAD(m)  PROVE MACWorks'
  BY <1>8, <1>9 DEF NewKuznyechikAEAD, Shape, InCall
<1>10. ASSUME NEW p \in Plaintexts, NEW v \in IVs, Encrypt(p, v)  PROVE MACWorks'
  BY <1>8, <1>10 DEF Encrypt, BeginCTR
<1>11. CASE CTRBlock
  BY <1>8, <1>11 DEF CTRBlock
<1>12. CASE Sealed \/ Verified
  BY <1>8, <1>12 DEF Sealed, Verified, BeginCTR
<1>13. CASE Alter \/ Again
  BY <1>8, <1>13 DEF Alter, Again, Shape, InCall
<1> QED
  BY <1>1, <1>2, <1>5, <1>6, <1>7, <1>9, <1>10, <1>11, <1>12, <1>13 DEF AEADNext

\* The tag that Encrypt returns is the CMAC of the IV and the ciphertext, although
\* gostCMAC walks through the two slices with its copy loop.
THEOREM TagIsCMACInvariant == AEADSpec => []TagIsCMAC
<1>1. AEADInit => MACWorks /\ TagIsCMAC
  BY DEF AEADInit, MACWorks, TagIsCMAC
<1>2. Shape /\ MACWorks /\ TagIsCMAC /\ [AEADNext]_aeadVars => TagIsCMAC'
  <2> SUFFICES ASSUME Shape, MACWorks, TagIsCMAC, [AEADNext]_aeadVars  PROVE TagIsCMAC'
    OBVIOUS
  <2>1. CASE Sealed
    <3>1. /\ pc = "mac" /\ Filled /\ blockIdx = NumBlocks - 1 /\ op = "encrypt"
          /\ tag' = Tag /\ iv' = iv /\ dst' = dst /\ master' = master
      BY <2>1 DEF Sealed, ctrVars
    <3>2. Tag = CMAC(macBlock[master], Message)
      BY <3>1, TagOfMessage
    <3>3. Message = iv \o dst
      BY <3>1 DEF Message, Ciphertext
    <3>4. tag' = CMAC(macBlock[master'], iv' \o dst')
      BY <3>1, <3>2, <3>3
    <3> QED
      BY <3>4 DEF TagIsCMAC
  <2>2. ASSUME tag' = tag, iv' = iv, dst' = dst, master' = master, op' = "sealed" => op = "sealed"
        PROVE  TagIsCMAC'
    <3>1. op' = "sealed" => tag' = CMAC(macBlock[master'], iv' \o dst')
      BY <2>2 DEF TagIsCMAC
    <3> QED
      BY <3>1 DEF TagIsCMAC
  <2>3. CASE Alter \/ UNCHANGED aeadVars
    BY <2>2, <2>3 DEF Alter, aeadVars, ctrVars
  <2>4. ASSUME op' # "sealed"  PROVE TagIsCMAC'
    BY <2>4 DEF TagIsCMAC
  <2>5. ASSUME NEW m \in Masters \cup BadMasters, NewKuznyechikAEAD(m)  PROVE TagIsCMAC'
    BY <2>4, <2>5 DEF NewKuznyechikAEAD
  <2>6. ASSUME NEW p \in Plaintexts, NEW v \in IVs, Encrypt(p, v)  PROVE TagIsCMAC'
    BY <2>4, <2>6 DEF Encrypt
  <2>7. CASE CTRBlock \/ CTRDone \/ Copy \/ CMACBlock \/ Verified
    <3>1. op \in {"encrypt", "decrypt"}
      BY <2>7 DEF CTRBlock, CTRDone, Copy, CMACBlock, Verified, Shape, InCall
    <3>2. op' # "sealed"
      BY <2>7, <3>1 DEF CTRBlock, CTRDone, Copy, CMACBlock, Verified
    <3> QED
      BY <2>4, <3>2
  <2>8. CASE Decrypt \/ Again
    BY <2>4, <2>8 DEF Decrypt, Again
  <2> QED
    BY <2>1, <2>3, <2>5, <2>6, <2>7, <2>8 DEF AEADNext
<1>3. AEADSpec => []MACWorks
  BY <1>1, MACWorksStep, ShapeInvariant, PTL DEF AEADSpec
<1> QED
  BY <1>1, <1>2, <1>3, ShapeInvariant, PTL DEF AEADSpec

-----------------------------------------------------------------------------
(* A changed byte changes the tag. *)

IsPermutation(E) ==
    E \in [Block -> Block] /\ \A b, d \in Block : E[b] = E[d] => b = d

\* Two strings of n blocks that differ in the byte k only.
DifferAt(p, s, n, k) ==
    /\ p \in Seq(Byte) /\ s \in Seq(Byte) /\ n \in Nat
    /\ Len(p) = n * blockSize /\ Len(s) = n * blockSize
    /\ k \in 1..n * blockSize
    /\ \A i \in 1..n * blockSize : p[i] = s[i] <=> i # k

\* They differ in one block.
LEMMA OneBlockDiffers ==
    ASSUME NEW p, NEW s, NEW n, NEW k, DifferAt(p, s, n, k)
    PROVE  \E b \in 1..n : \A i \in 1..n : BlockOf(p, i) = BlockOf(s, i) <=> i # b
<1> DEFINE z == (k - 1) \div blockSize
           t == (k - 1) % blockSize
           b == z + 1
<1>1. /\ p \in Seq(Byte) /\ s \in Seq(Byte) /\ n \in Nat
      /\ Len(p) = n * blockSize /\ Len(s) = n * blockSize
      /\ k \in 1..n * blockSize /\ blockSize \in Nat \ {0} /\ n * blockSize \in Nat
      /\ \A i \in 1..n * blockSize : p[i] = s[i] <=> i # k
  BY Blocks DEF DifferAt
<1>2. k - 1 \in Nat
  BY <1>1
<1>3. z \in Nat /\ t \in 0..blockSize - 1 /\ k - 1 = z * blockSize + t
  BY <1>1, <1>2, Division
<1> HIDE DEF z, t
<1>4. b \in 1..n
  <2> SUFFICES ASSUME n <= z  PROVE FALSE
    BY <1>1, <1>3
  <2>1. n * blockSize <= z * blockSize
    BY <1>1, <1>3, TimesMonotonic
  <2>2. z * blockSize \in Nat /\ k <= n * blockSize /\ k \in Nat
    BY <1>1, <1>3
  <2> QED
    BY <1>1, <1>3, <2>1, <2>2
<1>5. ASSUME NEW i \in 1..n
      PROVE  /\ BlockOf(p, i) \in Block /\ BlockOf(s, i) \in Block
             /\ \A j \in 1..blockSize : /\ BlockOf(p, i)[j] = p[(i - 1) * blockSize + j]
                                        /\ BlockOf(s, i)[j] = s[(i - 1) * blockSize + j]
  BY <1>1, <1>5, BlockOfBlocks
<1>6. ASSUME NEW i \in 1..n, NEW j \in 1..blockSize
      PROVE  /\ (i - 1) * blockSize + j \in 1..n * blockSize
             /\ (i - 1) * blockSize + j = k <=> i = b /\ j = t + 1
  <2>1. i - 1 \in Nat /\ (i - 1) * blockSize \in Nat
    BY <1>1
  <2>2. (i - 1) * blockSize + blockSize = i * blockSize /\ i \in Nat /\ i <= n
    BY <1>1
  <2>3. i * blockSize <= n * blockSize
    BY <1>1, <2>2, TimesMonotonic
  <2> DEFINE w == (i - 1) * blockSize
             y == i * blockSize
             x == n * blockSize
  <2>4. w \in Nat /\ w + blockSize = y /\ y <= x /\ x \in Nat
    BY <1>1, <2>1, <2>2, <2>3
  <2> HIDE DEF w, y, x
  <2>5. w + j \in 1..x
    BY <1>1, <2>4
  <2>6. ASSUME w + j = k  PROVE i = b /\ j = t + 1
    <3>1. w + (j - 1) = z * blockSize + t
      <4>1. z * blockSize \in Nat /\ k \in Nat
        BY <1>1, <1>3
      <4> QED
        BY <1>3, <2>4, <2>6, <4>1
    <3>2. j - 1 \in 0..blockSize - 1
      BY <1>1
    <3>3. (i - 1) * blockSize + (j - 1) = z * blockSize + t
      BY <3>1 DEF w
    <3>4. i - 1 = z /\ j - 1 = t
      BY <1>1, <1>3, <2>1, <3>2, <3>3, QuotientUnique
    <3> QED
      BY <1>3, <3>4
  <2>7. ASSUME i = b, j = t + 1  PROVE w + j = k
    <3>1. w = z * blockSize
      BY <1>3, <2>7 DEF w
    <3>2. z * blockSize \in Nat /\ k \in Nat
      BY <1>1, <1>3
    <3> QED
      BY <1>3, <2>7, <3>1, <3>2
  <2> QED
    BY <2>5, <2>6, <2>7 DEF w, x
<1>7. t + 1 \in 1..blockSize
  BY <1>1, <1>3
<1> HIDE DEF b
<1>8. ASSUME NEW i \in 1..n  PROVE BlockOf(p, i) = BlockOf(s, i) <=> i # b
  <2> DEFINE l(j) == (i - 1) * blockSize + j
  <2>1. \A j \in 1..blockSize :
            l(j) \in 1..n * blockSize /\ (l(j) = k <=> i = b /\ j = t + 1)
    BY <1>6
  <2>2. /\ BlockOf(p, i) \in Block /\ BlockOf(s, i) \in Block
        /\ \A j \in 1..blockSize : BlockOf(p, i)[j] = p[l(j)] /\ BlockOf(s, i)[j] = s[l(j)]
    BY <1>5
  <2> HIDE DEF l
  <2>3. CASE i # b
    <3>1. \A j \in 1..blockSize : p[l(j)] = s[l(j)]
      BY <1>1, <2>1, <2>3
    <3>2. \A j \in 1..blockSize : BlockOf(p, i)[j] = BlockOf(s, i)[j]
      BY <2>2, <3>1
    <3> QED
      BY <2>2, <2>3, <3>2, EqualBlocks
  <2>4. CASE i = b
    <3>1. p[l(t + 1)] # s[l(t + 1)]
      BY <1>1, <1>7, <2>1, <2>4
    <3>2. BlockOf(p, i)[t + 1] # BlockOf(s, i)[t + 1]
      BY <1>7, <2>2, <3>1
    <3> QED
      BY <2>4, <3>2
  <2> QED
    BY <2>3, <2>4
<1> QED
  BY <1>4, <1>8

\* From that block on the chains are different.
LEMMA ChainsDiffer ==
    ASSUME NEW E, IsPermutation(E), NEW p, NEW s, NEW n, NEW k, DifferAt(p, s, n, k)
    PROVE  Chain(E, p)[n] # Chain(E, s)[n]
<1> DEFINE g == Chain(E, p)
           h == Chain(E, s)
           u(i) == BlockOf(p, i)
           v(i) == BlockOf(s, i)
<1>1. /\ E \in [Block -> Block] /\ \A x, y \in Block : E[x] = E[y] => x = y
  BY DEF IsPermutation
<1>2. /\ p \in Seq(Byte) /\ s \in Seq(Byte) /\ n \in Nat
      /\ Len(p) = n * blockSize /\ Len(s) = n * blockSize
  BY DEF DifferAt
<1>3. IsChain(E, p, n, g) /\ IsChain(E, s, n, h)
  <2>1. IsChain(E, p, n, Chain(E, p))
    BY <1>1, <1>2, ChainEquation
  <2>2. IsChain(E, s, n, Chain(E, s))
    BY <1>1, <1>2, ChainEquation
  <2> QED
    BY <2>1, <2>2
<1>4. \A i \in 1..n : u(i) \in Block /\ v(i) \in Block
  BY <1>2, BlockOfBlocks
<1>5. PICK b \in 1..n : \A i \in 1..n : u(i) = v(i) <=> i # b
  BY OneBlockDiffers
<1> HIDE DEF g, h
<1>6. /\ g[0] = h[0] /\ \A i \in 0..n : g[i] \in Block /\ h[i] \in Block
      /\ \A i \in 1..n : g[i] = E[xorBytes(g[i - 1], u(i))] /\ h[i] = E[xorBytes(h[i - 1], v(i))]
  BY <1>3 DEF IsChain
<1> HIDE DEF u, v
<1> DEFINE P == {i \in Nat : i <= n => (g[i] = h[i] <=> i < b)}
<1>7. 0 \in P
  BY <1>5, <1>6
<1>8. ASSUME NEW i \in Nat, i \in P  PROVE i + 1 \in P
  <2> SUFFICES ASSUME i + 1 <= n  PROVE g[i + 1] = h[i + 1] <=> i + 1 < b
    OBVIOUS
  <2> DEFINE j == i + 1
             x == xorBytes(g[i], u(j))
             y == xorBytes(h[i], v(j))
  <2>1. j \in 1..n /\ j - 1 = i /\ i \in 0..n /\ (g[i] = h[i] <=> i < b)
    BY <1>2, <1>8
  <2>2. /\ g[i] \in Block /\ h[i] \in Block /\ u(j) \in Block /\ v(j) \in Block
        /\ g[j] = E[x] /\ h[j] = E[y]
    BY <1>4, <1>6, <2>1
  <2>3. x \in Block /\ y \in Block
    BY <2>2, XorBlocks
  <2>4. u(j) = v(j) <=> j # b
    BY <1>5, <2>1
  <2>5. x = y <=> j < b
    <3>1. CASE i < b /\ j # b
      <4>1. x = y
        BY <2>1, <2>4, <3>1
      <4> QED
        BY <1>5, <2>1, <3>1, <4>1
    <3>2. CASE i < b /\ j = b
      <4>1. g[i] = h[i] /\ u(j) # v(j)
        BY <2>1, <2>4, <3>2
      <4>2. x # y
        <5>1. xorBytes(g[i], u(j)) = xorBytes(g[i], v(j)) => u(j) = v(j)
          <6> HIDE DEF j
          <6> QED
            BY <2>2, XorBlocksCancel
        <5> QED
          BY <4>1, <5>1
      <4> QED
        BY <1>5, <3>2, <4>2
    <3>3. CASE ~ i < b
      <4>1. g[i] # h[i] /\ u(j) = v(j) /\ ~ j < b
        BY <1>5, <2>1, <2>4, <3>3
      <4>2. x # y
        <5>1. xorBytes(g[i], v(j)) = xorBytes(h[i], v(j)) => g[i] = h[i]
          <6> HIDE DEF j
          <6> QED
            BY <2>2, XorBlocksCancel
        <5> QED
          BY <4>1, <5>1
      <4> QED
        BY <4>1, <4>2
    <3> QED
      BY <3>1, <3>2, <3>3
  <2> QED
    BY <1>1, <2>2, <2>3, <2>5
<1> HIDE DEF P
<1>9. Nat \subseteq P
  BY <1>7, <1>8, Induction
<1>10. g[n] = h[n] <=> n < b
  BY <1>2, <1>9 DEF P
<1> QED
  BY <1>2, <1>5, <1>10 DEF g, h

\* The CMAC of a message whose last block has r bytes.
LEMMA CMACEquation ==
    ASSUME NEW E \in [Block -> Block], NEW m \in Seq(Byte),
           NEW q \in Nat, NEW r \in 1..blockSize, Len(m) = q * blockSize + r
    PROVE  LET p == Padded(m)
               x == xorBytes(Chain(E, p)[q], BlockOf(p, q + 1))
               k == IF r = blockSize THEN k1(E) ELSE k2(E)
           IN  /\ x \in Block /\ k \in Block
               /\ Chain(E, p)[q + 1] = E[x]
               /\ CMAC(E, m) = E[xorBytes(x, k)] /\ CMAC(E, m) \in Block
<1> DEFINE n == q + 1
           p == Padded(m)
           x == xorBytes(Chain(E, p)[q], BlockOf(p, n))
           k == IF r = blockSize THEN k1(E) ELSE k2(E)
<1>1. p \in Seq(Byte) /\ Len(p) = n * blockSize /\ (p = m <=> r = blockSize)
  BY PaddedBlocks
<1>2. n \in Nat /\ n \in 1..n /\ n - 1 = q /\ q \in 0..n /\ blockSize \in Nat \ {0}
  BY Blocks
<1>3. Len(p) \div blockSize = n
  <2>1. n * blockSize \in Nat /\ 0 \in 0..blockSize - 1
    BY <1>2
  <2>2. (n * blockSize + 0) \div blockSize = n
    BY <1>2, <2>1, DivisionUnique
  <2> DEFINE y == n * blockSize
  <2>3. y \in Nat /\ (y + 0) \div blockSize = n /\ Len(p) = y
    BY <1>1, <2>1, <2>2
  <2> HIDE DEF y, n, p
  <2> QED
    BY <2>3
<1>4. CMAC(E, m) = E[xorBytes(x, IF p = m THEN k1(E) ELSE k2(E))]
  BY <1>2, <1>3 DEF CMAC
<1> HIDE DEF p, n
<1>5. IsChain(E, p, n, Chain(E, p))
  BY <1>1, <1>2, ChainEquation
<1>6. BlockOf(p, n) \in Block
  BY <1>1, <1>2, BlockOfBlocks
<1>7. /\ Chain(E, p)[q] \in Block
      /\ Chain(E, p)[n] = E[xorBytes(Chain(E, p)[n - 1], BlockOf(p, n))]
  BY <1>2, <1>5 DEF IsChain
<1>8. x \in Block
  BY <1>6, <1>7, XorBlocks
<1>9. k \in Block
  BY Subkeys
<1>10. xorBytes(x, k) \in Block
  <2> HIDE DEF x, k
  <2> QED
    BY <1>8, <1>9, XorBlocks
<1>11. CMAC(E, m) = E[xorBytes(x, k)]
  BY <1>1, <1>4
<1>12. Chain(E, p)[n] = E[x]
  BY <1>2, <1>7
<1> QED
  BY <1>8, <1>9, <1>10, <1>11, <1>12 DEF n, p

\* Every message has as many bytes before its last block as some blocks have.
LEMMA LastBytes ==
    ASSUME NEW n \in Nat \ {0}
    PROVE  \E q \in Nat, r \in 1..blockSize : n = q * blockSize + r
<1> DEFINE l == n - 1
           q == l \div blockSize
           t == l % blockSize
<1>1. l \in Nat /\ blockSize \in Nat \ {0} /\ n = l + 1
  BY Blocks
<1> HIDE DEF l
<1>2. q \in Nat /\ t \in 0..blockSize - 1 /\ l = q * blockSize + t
  BY <1>1, Division
<1> HIDE DEF q, t
<1>3. t + 1 \in 1..blockSize /\ q * blockSize \in Nat
  BY <1>1, <1>2
<1>4. n = q * blockSize + (t + 1)
  BY <1>1, <1>2, <1>3
<1> QED
  BY <1>2, <1>3, <1>4

\* A message with one byte changed has another CMAC.
LEMMA ChangedByteChangesTag ==
    ASSUME NEW E, IsPermutation(E), NEW m \in Seq(Byte), NEW o \in Seq(Byte),
           Len(m) = Len(o), NEW k \in 1..Len(m), \A i \in 1..Len(m) : m[i] = o[i] <=> i # k
    PROVE  CMAC(E, m) # CMAC(E, o)
<1>1. Len(m) \in Nat \ {0} /\ k <= Len(m) /\ blockSize \in Nat \ {0}
  BY Blocks
<1>2. PICK q \in Nat, r \in 1..blockSize : Len(m) = q * blockSize + r
  BY <1>1, LastBytes
<1> DEFINE n == q + 1
           p == Padded(m)
           s == Padded(o)
<1>3. Len(m) = q * blockSize + r /\ Len(o) = q * blockSize + r
  BY <1>2
<1>4. /\ p \in Seq(Byte) /\ Len(p) = n * blockSize
      /\ \A i \in 1..Len(m) : p[i] = m[i]
      /\ \A j \in r + 1..blockSize : p[q * blockSize + j] = IF j = r + 1 THEN Top ELSE 0
      /\ p = m <=> r = blockSize
  BY <1>3, PaddedBlocks
<1>5. /\ s \in Seq(Byte) /\ Len(s) = n * blockSize
      /\ \A i \in 1..Len(o) : s[i] = o[i]
      /\ \A j \in r + 1..blockSize : s[q * blockSize + j] = IF j = r + 1 THEN Top ELSE 0
      /\ s = o <=> r = blockSize
  BY <1>3, PaddedBlocks
<1> HIDE DEF p, s
<1>6. n \in Nat \ {0} /\ n - 1 = q /\ n * blockSize = q * blockSize + blockSize
      /\ q * blockSize \in Nat
  BY <1>1
<1> HIDE DEF n
<1>7. DifferAt(p, s, n, k)
  <2>1. k \in 1..n * blockSize
    <3> DEFINE x == q * blockSize
               y == n * blockSize
    <3>1. x \in Nat /\ y = x + blockSize /\ Len(m) = x + r
      BY <1>3, <1>6
    <3> HIDE DEF x, y
    <3>2. k \in 1..y
      BY <1>1, <3>1
    <3> QED
      BY <3>2 DEF y
  <2>2. ASSUME NEW i \in 1..n * blockSize  PROVE p[i] = s[i] <=> i # k
    <3>1. CASE i <= Len(m)
      BY <1>1, <1>4, <1>5, <1>6, <3>1
    <3>2. CASE i > Len(m)
      <4> DEFINE x == q * blockSize
                 y == n * blockSize
                 j == i - x
      <4>1. x \in Nat /\ y = x + blockSize /\ Len(m) = x + r /\ i \in 1..y
        BY <1>3, <1>6
      <4>2. \A a \in r + 1..blockSize : p[x + a] = s[x + a]
        BY <1>4, <1>5
      <4> HIDE DEF x, y
      <4>3. j \in r + 1..blockSize /\ x + j = i /\ i # k
        BY <1>1, <3>2, <4>1
      <4> HIDE DEF j
      <4> QED
        BY <4>2, <4>3
    <3> QED
      BY <1>1, <1>6, <3>1, <3>2
  <2> QED
    BY <1>4, <1>5, <1>6, <2>1, <2>2 DEF DifferAt
<1>8. Chain(E, p)[n] # Chain(E, s)[n]
  BY <1>7, ChainsDiffer
<1>9. E \in [Block -> Block] /\ \A x, y \in Block : E[x] = E[y] => x = y
  BY DEF IsPermutation
<1> DEFINE c == xorBytes(Chain(E, p)[q], BlockOf(p, n))
           d == xorBytes(Chain(E, s)[q], BlockOf(s, n))
           key == IF r = blockSize THEN k1(E) ELSE k2(E)
<1>10. /\ c \in Block /\ key \in Block
       /\ Chain(E, p)[n] = E[c] /\ CMAC(E, m) = E[xorBytes(c, key)]
  BY <1>3, <1>9, CMACEquation DEF p, n
<1>11. /\ d \in Block
       /\ Chain(E, s)[n] = E[d] /\ CMAC(E, o) = E[xorBytes(d, key)]
  BY <1>3, <1>9, CMACEquation DEF s, n
<1> HIDE DEF c, d, key
<1>12. c # d
  BY <1>8, <1>10, <1>11
<1>13. xorBytes(c, key) # xorBytes(d, key)
  BY <1>10, <1>11, <1>12, XorBlocksCancel
<1>14. xorBytes(c, key) \in Block /\ xorBytes(d, key) \in Block
  BY <1>10, <1>11, XorBlocks
<1> QED
  BY <1>9, <1>10, <1>11, <1>13, <1>14

-----------------------------------------------------------------------------
(* gostCTR puts its input under the gamma. *)

\* The i-th byte of the gamma of the IV v, and a string of bytes under that gamma.
KeyByte(E, v, i) == E[Counters(v)[(i - 1) \div blockSize]][((i - 1) % blockSize) + 1]
UnderGamma(E, p, v) == [i \in 1..Len(p) |-> xor(p[i], KeyByte(E, v, i))]

\* The gamma of the block after the first q.
LEMMA KeyByteOfBlock ==
    ASSUME NEW E \in [Block -> Block], NEW v \in Block,
           NEW q \in 0..NumValues[Half] - 1, NEW r \in 1..blockSize
    PROVE  /\ KeyByte(E, v, q * blockSize + r) = E[Counters(v)[q]][r]
           /\ E[Counters(v)[q]][r] \in Byte
<1> DEFINE i == q * blockSize + r
<1>1. /\ blockSize \in Nat \ {0} /\ q \in Nat /\ q \in 0..NumValues[Half]
      /\ r - 1 \in 0..blockSize - 1 /\ q * blockSize \in Nat
  BY Blocks, MaxLenNat
<1>2. i - 1 = q * blockSize + (r - 1) /\ (r - 1) + 1 = r
  BY <1>1
<1>3. (q * blockSize + (r - 1)) \div blockSize = q
      /\ (q * blockSize + (r - 1)) % blockSize = r - 1
  BY <1>1, DivisionUnique
<1> HIDE DEF i
<1>4. KeyByte(E, v, i) = E[Counters(v)[q]][r]
  BY <1>2, <1>3 DEF KeyByte
<1>5. Counters(v)[q] \in Block
  BY <1>1, CountersEquation DEF IsCounters
<1>6. E[Counters(v)[q]] \in Block
  BY <1>5
<1>7. E[Counters(v)[q]][r] \in Byte
  BY <1>6 DEF Block
<1> QED
  BY <1>4, <1>7 DEF i

\* The gamma consists of bytes.
LEMMA KeyByteIsByte ==
    ASSUME NEW E \in [Block -> Block], NEW v \in Block, NEW i \in 1..MaxLen
    PROVE  KeyByte(E, v, i) \in Byte
<1> DEFINE m == NumValues[Half]
           l == i - 1
           q == l \div blockSize
           t == l % blockSize
<1>1. l \in Nat /\ blockSize \in Nat \ {0} /\ m \in Nat /\ MaxLen = m * blockSize /\ i <= MaxLen
      /\ MaxLen \in Nat
  BY MaxLenNat, Blocks
<1> HIDE DEF l
<1>2. q \in Nat /\ t \in 0..blockSize - 1 /\ l = q * blockSize + t
  BY <1>1, Division
<1> HIDE DEF q, t, m
<1>3. q \in 0..m - 1
  <2> SUFFICES ASSUME m <= q  PROVE FALSE
    BY <1>1, <1>2
  <2>1. m * blockSize <= q * blockSize
    BY <1>1, <1>2, TimesMonotonic
  <2>2. q * blockSize \in Nat /\ i = l + 1
    BY <1>1, <1>2 DEF l
  <2> QED
    BY <1>1, <1>2, <2>1, <2>2
<1>4. t + 1 \in 1..blockSize
  BY <1>1, <1>2
<1>5. i = q * blockSize + (t + 1)
  <2>1. q * blockSize \in Nat /\ i = l + 1
    BY <1>1, <1>2 DEF l
  <2> QED
    BY <1>1, <1>2, <2>1
<1>6. KeyByte(E, v, q * blockSize + (t + 1)) \in Byte
  <2>1. /\ KeyByte(E, v, q * blockSize + (t + 1)) = E[Counters(v)[q]][t + 1]
        /\ E[Counters(v)[q]][t + 1] \in Byte
    BY <1>3, <1>4, KeyByteOfBlock DEF m
  <2> QED
    BY <2>1
<1> QED
  BY <1>5, <1>6

\* A string under the gamma, byte by byte.
LEMMA UnderGammaIs ==
    ASSUME NEW E \in [Block -> Block], NEW v \in Block,
           NEW p \in Seq(Byte), Len(p) <= MaxLen
    PROVE  /\ UnderGamma(E, p, v) \in Seq(Byte) /\ Len(UnderGamma(E, p, v)) = Len(p)
           /\ \A i \in 1..Len(p) : /\ UnderGamma(E, p, v)[i] = xor(p[i], KeyByte(E, v, i))
                                   /\ KeyByte(E, v, i) \in Byte /\ p[i] \in Byte
<1> DEFINE n == Len(p)
           u == UnderGamma(E, p, v)
<1>1. n \in Nat /\ n <= MaxLen /\ \A i \in 1..n : p[i] \in Byte
  OBVIOUS
<1>2. \A i \in 1..n : i \in 1..MaxLen
  BY <1>1, MaxLenNat
<1>3. \A i \in 1..n : KeyByte(E, v, i) \in Byte
  BY <1>2, KeyByteIsByte
<1>4. \A i \in 1..n : xor(p[i], KeyByte(E, v, i)) \in Byte
  BY <1>1, <1>3, Bytes
<1>5. u = [i \in 1..n |-> xor(p[i], KeyByte(E, v, i))]
  BY DEF UnderGamma
<1> HIDE DEF u, n
<1>6. u \in [1..n -> Byte] /\ \A i \in 1..n : u[i] = xor(p[i], KeyByte(E, v, i))
  BY <1>4, <1>5
<1>7. u \in Seq(Byte) /\ Len(u) = n
  BY <1>1, <1>6
<1> QED
  BY <1>1, <1>3, <1>6, <1>7 DEF u, n

\* Decryption is encryption once more.
LEMMA UnderGammaTwice ==
    ASSUME NEW E \in [Block -> Block], NEW v \in Block,
           NEW p \in Seq(Byte), Len(p) <= MaxLen
    PROVE  UnderGamma(E, UnderGamma(E, p, v), v) = p
<1> DEFINE u == UnderGamma(E, p, v)
           w == UnderGamma(E, u, v)
<1>1. /\ u \in Seq(Byte) /\ Len(u) = Len(p)
      /\ \A i \in 1..Len(p) : /\ u[i] = xor(p[i], KeyByte(E, v, i))
                              /\ KeyByte(E, v, i) \in Byte /\ p[i] \in Byte
  BY UnderGammaIs
<1> HIDE DEF u
<1>2. /\ w \in Seq(Byte) /\ Len(w) = Len(u)
      /\ \A i \in 1..Len(u) : w[i] = xor(u[i], KeyByte(E, v, i))
  BY <1>1, UnderGammaIs
<1> HIDE DEF w
<1>3. \A i \in 1..Len(p) : xor(xor(p[i], KeyByte(E, v, i)), KeyByte(E, v, i)) = p[i]
  BY <1>1, Bytes, XorInverse
<1>4. \A i \in 1..Len(p) : w[i] = p[i]
  BY <1>1, <1>2, <1>3
<1>5. w \in Seq(Byte) /\ p \in Seq(Byte) /\ Len(w) = Len(p)
  BY <1>1, <1>2
<1>6. w = p
  BY <1>4, <1>5
<1> QED
  BY <1>6 DEF w, u

\* gostCTR works through the bytes that it is given, up to the end of dst.
CTRInput ==
    IF op = "encrypt" THEN plaintext ELSE UnderGamma(encBlock[master], plaintext, iv)

CTRWorks ==
    /\ Len(plaintext) <= MaxLen
    /\ pc = "ctr" =>
           /\ Len(dst) + Len(src) = Len(CTRInput)
           /\ \A i \in 1..Len(dst) : dst[i] = xor(CTRInput[i], KeyByte(encBlock[master], iv, i))
           /\ \A i \in 1..Len(src) : src[i] = CTRInput[Len(dst) + i]
           /\ src # <<>> => Len(dst) = Len(used) * blockSize

\* gostCTR is given as many bytes as the plaintext has.
LEMMA CTRInputIs ==
    ASSUME Shape, CTRWorks, pc = "ctr"
    PROVE  CTRInput \in Seq(Byte) /\ Len(CTRInput) = Len(plaintext)
<1>1. /\ plaintext \in Seq(Byte) /\ Len(plaintext) <= MaxLen
      /\ master \in Masters /\ iv \in Block
  BY DEF Shape, AEADTypeOK, InCall, CTRWorks
<1>2. encBlock[master] \in [Block -> Block]
  BY <1>1, Ciphers
<1> QED
  BY <1>1, <1>2, UnderGammaIs DEF CTRInput

\* When it is at the end, dst is its input under the gamma.
LEMMA CTRFinished ==
    ASSUME Shape, CTRWorks, pc = "ctr", src = <<>>
    PROVE  dst = UnderGamma(encBlock[master], CTRInput, iv)
<1>1. CTRInput \in Seq(Byte) /\ dst \in Seq(Byte) /\ Len(src) = 0
  BY CTRInputIs DEF Shape, AEADTypeOK
<1>2. Len(dst) = Len(CTRInput)
  BY <1>1 DEF CTRWorks
<1>3. \A i \in 1..Len(dst) : dst[i] = xor(CTRInput[i], KeyByte(encBlock[master], iv, i))
  BY DEF CTRWorks
<1>4. dst = [i \in 1..Len(dst) |-> dst[i]]
  BY <1>1
<1>5. dst = [i \in 1..Len(CTRInput) |-> xor(CTRInput[i], KeyByte(encBlock[master], iv, i))]
  BY <1>2, <1>3, <1>4
<1> QED
  BY <1>5 DEF UnderGamma

\* An iteration of gostCTR puts the next block under its gamma.
LEMMA CTRBlockWorks ==
    ASSUME Shape, Counting, CTRWorks, CTRBlock
    PROVE  CTRWorks'
<1> DEFINE E == encBlock[master]
           n == IF Len(src) < blockSize THEN Len(src) ELSE blockSize
           gamma == E[counter]
           q == Len(used)
           I == CTRInput
<1>1. /\ pc = "ctr" /\ pc' = pc /\ iv' = iv /\ op' = op /\ master' = master
      /\ plaintext' = plaintext /\ src # <<>>
  BY DEF CTRBlock, callVars
<1>2. /\ n \in 1..blockSize /\ n <= Len(src) /\ Len(src) \in Nat
      /\ dst' \in Seq(Byte) /\ Len(dst') = Len(dst) + n
      /\ \A i \in 1..Len(dst) : dst'[i] = dst[i]
      /\ \A i \in 1..n : dst'[Len(dst) + i] = xor(src[i], gamma[i])
      /\ src' \in Seq(Byte) /\ Len(src') = Len(src) - n
      /\ \A i \in 1..Len(src) - n : src'[i] = src[n + i]
      /\ used' \in Seq(Block) /\ Len(used') = Len(used) + 1
  BY CTRBlockEffect
<1>3. /\ Len(dst) + Len(src) = Len(I)
      /\ \A i \in 1..Len(dst) : dst[i] = xor(I[i], KeyByte(E, iv, i))
      /\ \A i \in 1..Len(src) : src[i] = I[Len(dst) + i]
      /\ Len(dst) = q * blockSize
  BY <1>1 DEF CTRWorks
<1>4. E \in [Block -> Block] /\ iv \in Block /\ dst \in Seq(Byte) /\ q \in Nat
  BY <1>1, Ciphers DEF Shape, AEADTypeOK, InCall
<1>5. counter = Counters(iv)[q]
  BY <1>1 DEF Counting
<1>6. q \in 0..NumValues[Half] - 1
  <2>1. Shape'
    BY CTRBlockShape
  <2>2. pc' = "ctr" /\ (NumValues[Half])' = NumValues[Half]
    BY <1>1
  <2>3. Len(used') <= (NumValues[Half])'
    BY <2>1, <2>2 DEF Shape, CTRLen
  <2> QED
    BY <1>2, <1>4, <2>2, <2>3, MaxLenNat
<1>7. src' # <<>> => n = blockSize
  BY <1>2
<1>8. CTRInput' = I
  BY <1>1 DEF CTRInput
<1>9. Len(dst) \in Nat /\ blockSize \in Nat
  BY <1>4, Blocks
<1>10. \A r \in 1..blockSize : KeyByte(E, iv, Len(dst) + r) = gamma[r]
  <2> TAKE r \in 1..blockSize
  <2> HIDE DEF q, E
  <2>1. KeyByte(E, iv, q * blockSize + r) = E[Counters(iv)[q]][r]
    BY <1>4, <1>6, KeyByteOfBlock
  <2> QED
    BY <1>3, <1>5, <2>1
<1> HIDE DEF E, n, gamma, q, I
<1>11. Len(dst') + Len(src') = Len(I)
  <2>1. Len(src) \in Nat /\ n \in Nat /\ Len(dst') = Len(dst) + n /\ Len(src') = Len(src) - n
    BY <1>2
  <2> QED
    BY <1>3, <1>9, <2>1
<1>12. \A i \in 1..Len(dst') : dst'[i] = xor(I[i], KeyByte(E, iv, i))
  <2> TAKE i \in 1..Len(dst')
  <2>1. CASE i <= Len(dst)
    <3>1. i \in 1..Len(dst)
      BY <1>2, <1>9, <2>1
    <3> QED
      BY <1>2, <1>3, <3>1
  <2>2. CASE i > Len(dst)
    <3> DEFINE r == i - Len(dst)
    <3>1. Len(dst') = Len(dst) + n /\ n \in 1..blockSize /\ n <= Len(src) /\ Len(src) \in Nat
      BY <1>2
    <3>2. r \in 1..n /\ r \in 1..blockSize /\ r \in 1..Len(src) /\ Len(dst) + r = i
      BY <1>9, <2>2, <3>1
    <3> HIDE DEF r
    <3>3. dst'[i] = xor(src[r], gamma[r]) /\ src[r] = I[i]
      BY <1>2, <1>3, <3>2
    <3>4. KeyByte(E, iv, i) = gamma[r]
      BY <1>10, <3>2
    <3> QED
      BY <3>3, <3>4
  <2> QED
    BY <1>2, <1>9, <2>1, <2>2
<1>13. \A i \in 1..Len(src') : src'[i] = I[Len(dst') + i]
  <2> TAKE i \in 1..Len(src')
  <2>1. /\ Len(src') = Len(src) - n /\ n \in 1..blockSize /\ n <= Len(src) /\ Len(src) \in Nat
        /\ Len(dst') = Len(dst) + n
    BY <1>2
  <2>2. i \in 1..Len(src) - n /\ n + i \in 1..Len(src) /\ Len(dst) + (n + i) = Len(dst') + i
    BY <1>9, <2>1
  <2>3. src'[i] = src[n + i]
    BY <1>2, <2>2
  <2>4. src[n + i] = I[Len(dst) + (n + i)]
    BY <1>3, <2>2
  <2> QED
    BY <2>2, <2>3, <2>4
<1>14. src' # <<>> => Len(dst') = Len(used') * blockSize
  <2> SUFFICES ASSUME src' # <<>>  PROVE Len(dst') = Len(used') * blockSize
    OBVIOUS
  <2>1. Len(dst') = q * blockSize + blockSize /\ Len(used') = q + 1
    BY <1>2, <1>3, <1>7 DEF q
  <2>2. (q + 1) * blockSize = q * blockSize + blockSize
    BY <1>4, <1>9
  <2> QED
    BY <2>1, <2>2
<1>15. Len(plaintext') <= MaxLen
  BY <1>1 DEF CTRWorks
<1>16. MaxLen' = MaxLen
  BY DEF MaxLen, Half
<1>17. E = encBlock[master']
  BY <1>1 DEF E
<1> QED
  BY <1>1, <1>8, <1>11, <1>12, <1>13, <1>14, <1>15, <1>16, <1>17 DEF CTRWorks

-----------------------------------------------------------------------------
(* What is stored and what is received. *)

\* What Encrypt is to return for the plaintext p and the IV v under the master key m.
CiphertextOf(m, p, v) == UnderGamma(encBlock[m], p, v)
TagOf(m, p, v) == CMAC(macBlock[m], v \o CiphertextOf(m, p, v))
SealedAs(m, p, v) == Envelope(v, CiphertextOf(m, p, v), TagOf(m, p, v))

\* The parts of what Encrypt is to return.
LEMMA SealedParts ==
    ASSUME NEW m \in Masters, NEW p \in Seq(Byte), Len(p) <= MaxLen, NEW v \in Block
    PROVE  LET c == CiphertextOf(m, p, v)
               t == TagOf(m, p, v)
               e == SealedAs(m, p, v)
           IN  /\ c \in Seq(Byte) /\ Len(c) = Len(p) /\ t \in Block
               /\ v \o c \in Seq(Byte) /\ Len(v \o c) = blockSize + Len(c)
               /\ Len(e) = Overhead + Len(c) /\ e[1] = Version
               /\ e \in Seq(Byte \cup {Version, OtherVersion})
               /\ \A i \in 1..blockSize : e[1 + i] = v[i]
               /\ \A i \in 1..Len(c) : e[1 + blockSize + i] = c[i]
               /\ \A i \in 1..blockSize : e[1 + blockSize + Len(c) + i] = t[i]
               /\ \A i \in 1..blockSize : (v \o c)[i] = v[i]
               /\ \A i \in 1..Len(c) : (v \o c)[blockSize + i] = c[i]
<1> DEFINE c == CiphertextOf(m, p, v)
           t == TagOf(m, p, v)
           e == SealedAs(m, p, v)
<1>1. encBlock[m] \in [Block -> Block] /\ macBlock[m] \in [Block -> Block]
  BY Ciphers
<1>2. c \in Seq(Byte) /\ Len(c) = Len(p)
  BY <1>1, UnderGammaIs DEF CiphertextOf
<1>3. v \in Seq(Byte) /\ Len(v) = blockSize /\ blockSize \in Nat /\ blockSize > 0
  BY Blocks
<1>4. t = CMAC(macBlock[m], v \o c)
  BY DEF TagOf
<1>5. e = Envelope(v, c, t)
  BY DEF SealedAs
<1> HIDE DEF c, t, e
<1>6. /\ v \o c \in Seq(Byte) /\ Len(v \o c) = Len(v) + Len(c)
      /\ \A i \in 1..Len(v) : (v \o c)[i] = v[i]
      /\ \A i \in 1..Len(c) : (v \o c)[Len(v) + i] = c[i]
  <2>1. v \in Seq(Byte) /\ c \in Seq(Byte)
    BY <1>2, <1>3
  <2> QED
    BY <2>1, Joined
<1>7. Len(v \o c) \in Nat \ {0} /\ Len(v \o c) = blockSize + Len(c)
  <2>1. Len(c) \in Nat
    BY <1>2
  <2> QED
    BY <1>3, <1>6, <2>1
<1>8. t \in Block
  <2>1. PICK q \in Nat, r \in 1..blockSize : Len(v \o c) = q * blockSize + r
    BY <1>7, LastBytes
  <2>2. v \o c \in Seq(Byte)
    BY <1>6
  <2>3. CMAC(macBlock[m], v \o c) \in Block
    BY <1>1, <2>1, <2>2, CMACEquation
  <2> QED
    BY <1>4, <2>3
<1>9. /\ e \in Seq(Byte \cup {Version, OtherVersion})
      /\ Len(e) = Overhead + Len(c) /\ e[1] = Version
      /\ \A i \in 1..blockSize : e[1 + i] = v[i]
      /\ \A i \in 1..Len(c) : e[1 + blockSize + i] = c[i]
      /\ \A i \in 1..blockSize : e[1 + blockSize + Len(c) + i] = t[i]
  BY <1>2, <1>5, <1>8, EnvelopeLayout
<1> QED
  BY <1>2, <1>3, <1>6, <1>7, <1>8, <1>9 DEF c, t, e

\* What becomes of the data e that Encrypt has returned.
StoredAs(e) ==
    IF ~altered THEN data = e
    ELSE \/ data = [e EXCEPT ![1] = OtherVersion]
         \/ \E i \in 2..Len(e), b \in Byte : b # e[i] /\ data = [e EXCEPT ![i] = b]
         \/ \E n \in 0..Overhead - 1 : n < Len(e) /\ data = SubSeq(e, 1, n)

\* What Decrypt has found in it: all that was sealed with the IV v, or all but one byte.
ReceivedAs(v) ==
    LET c == CiphertextOf(master, plaintext, v)
        t == TagOf(master, plaintext, v)
    IN  /\ Len(src) = Len(c)
        /\ \/ ~altered /\ iv = v /\ src = c /\ tag = t
           \/ altered /\ iv = v /\ src = c /\ tag # t
           \/ /\ altered /\ tag = t
              /\ \E k \in 1..Len(v \o c) :
                     \A i \in 1..Len(v \o c) : (iv \o src)[i] = (v \o c)[i] <=> i # k

Storing ==
    /\ op \in {"none", "new", "refused", "encrypt"} => ~altered
    /\ op = "encrypt" /\ pc = "mac" => dst = CiphertextOf(master, plaintext, iv)
    /\ op = "sealed" => \E v \in Block : StoredAs(SealedAs(master, plaintext, v))
    /\ op = "decrypt" /\ pc = "mac" => \E v \in Block : ReceivedAs(v)
    /\ op = "decrypt" /\ pc = "ctr" => ~altered

\* The end of gostCTR: the ciphertext of Encrypt, or the plaintext of Decrypt.
LEMMA CTRDoneStores ==
    ASSUME Shape, CTRWorks, Storing, CTRDone
    PROVE  Storing' /\ OpensToThePlaintext'
<1>1. /\ pc = "ctr" /\ src = <<>> /\ iv' = iv /\ dst' = dst /\ master' = master
      /\ plaintext' = plaintext /\ altered' = altered
  BY DEF CTRDone, callVars, ctrVars
<1>2. dst = UnderGamma(encBlock[master], CTRInput, iv)
  BY <1>1, CTRFinished
<1>3. CASE op = "encrypt"
  <2>1. op' = "encrypt" /\ pc' = "mac" /\ ~altered
    BY <1>3 DEF CTRDone, BeginCMAC, Storing
  <2>2. dst' = CiphertextOf(master', plaintext', iv')
    BY <1>1, <1>2, <1>3 DEF CTRInput, CiphertextOf
  <2> QED
    BY <1>1, <2>1, <2>2 DEF Storing, OpensToThePlaintext
<1>4. CASE op = "decrypt"
  <2>1. op' = "opened" /\ pc' = "none" /\ result' = dst /\ ~altered
    BY <1>1, <1>4 DEF CTRDone, Storing
  <2>2. /\ plaintext \in Seq(Byte) /\ Len(plaintext) <= MaxLen
        /\ master \in Masters /\ iv \in Block
    BY <1>1, <1>4 DEF Shape, AEADTypeOK, InCall, CTRWorks
  <2>3. encBlock[master] \in [Block -> Block]
    BY <2>2, Ciphers
  <2>4. dst = plaintext
    BY <1>2, <1>4, <2>2, <2>3, UnderGammaTwice DEF CTRInput
  <2> QED
    BY <1>1, <2>1, <2>4 DEF Storing, OpensToThePlaintext
<1> QED
  BY <1>1, <1>3, <1>4 DEF Shape, InCall

\* Encrypt returns what SealedAs says.
LEMMA SealedStores ==
    ASSUME Shape, MACWorks, Storing, Sealed
    PROVE  Storing' /\ OpensToThePlaintext'
<1>1. /\ pc = "mac" /\ Filled /\ blockIdx = NumBlocks - 1 /\ op = "encrypt"
      /\ op' = "sealed" /\ pc' = "none" /\ data' = <<Version>> \o iv \o dst \o Tag
      /\ master' = master /\ plaintext' = plaintext /\ altered' = altered
  BY DEF Sealed
<1>2. Tag = CMAC(macBlock[master], iv \o dst)
  BY <1>1, TagOfMessage DEF Message, Ciphertext
<1>3. dst = CiphertextOf(master, plaintext, iv) /\ ~altered /\ iv \in Block
  BY <1>1 DEF Storing, Shape, InCall
<1>4. data' = SealedAs(master, plaintext, iv)
  BY <1>1, <1>2, <1>3 DEF SealedAs, Envelope, TagOf
<1>5. \E v \in Block : data' = SealedAs(master', plaintext', v) /\ ~altered'
  BY <1>1, <1>3, <1>4
<1>6. (\E v \in Block : StoredAs(SealedAs(master, plaintext, v)))'
  BY <1>5 DEF StoredAs, Block, Byte
<1> QED
  BY <1>1, <1>6 DEF Storing, OpensToThePlaintext

\* Data that was altered once is as StoredAs says.
LEMMA AlterStores ==
    ASSUME Storing, Alter
    PROVE  Storing' /\ OpensToThePlaintext'
<1>1. /\ op = "sealed" /\ op' = op /\ pc' = pc /\ ~altered /\ altered' = TRUE
      /\ master' = master /\ plaintext' = plaintext
      /\ \/ data' = [data EXCEPT ![1] = OtherVersion]
         \/ \E i \in 2..Len(data), b \in Byte :
                b # data[i] /\ data' = [data EXCEPT ![i] = b]
         \/ \E n \in 0..Overhead - 1 : n < Len(data) /\ data' = SubSeq(data, 1, n)
  BY DEF Alter
<1>2. PICK v \in Block : data = SealedAs(master, plaintext, v)
  BY <1>1 DEF Storing, StoredAs
<1>3. StoredAs(SealedAs(master, plaintext, v))'
  BY <1>1, <1>2 DEF StoredAs, Byte, Overhead
<1>4. (\E w \in Block : StoredAs(SealedAs(master, plaintext, w)))'
  BY <1>3 DEF Block, Byte
<1> QED
  BY <1>1, <1>4 DEF Storing, OpensToThePlaintext

\* An IV and a ciphertext next to each other in e.
LEMMA JoinedParts ==
    ASSUME NEW v \in Block, NEW c \in Seq(Byte), NEW e,
           \A i \in 1..blockSize : v[i] = e[1 + i],
           \A i \in 1..Len(c) : c[i] = e[1 + blockSize + i]
    PROVE  /\ v \o c \in Seq(Byte) /\ Len(v \o c) = blockSize + Len(c)
           /\ \A j \in 1..blockSize + Len(c) : (v \o c)[j] = e[1 + j]
<1> DEFINE x == v \o c
<1>1. v \in Seq(Byte) /\ Len(v) = blockSize /\ blockSize \in Nat /\ Len(c) \in Nat
  BY Blocks
<1>2. /\ x \in Seq(Byte) /\ Len(x) = Len(v) + Len(c)
      /\ \A i \in 1..Len(v) : x[i] = v[i]
      /\ \A i \in 1..Len(c) : x[Len(v) + i] = c[i]
  <2>1. v \in Seq(Byte) /\ c \in Seq(Byte)
    BY <1>1
  <2> QED
    BY <2>1, Joined
<1> HIDE DEF x
<1>3. ASSUME NEW j \in 1..blockSize + Len(c)  PROVE x[j] = e[1 + j]
  <2>1. CASE j <= blockSize
    BY <1>1, <1>2, <2>1
  <2>2. CASE j > blockSize
    <3> DEFINE i == j - blockSize
    <3>1. i \in 1..Len(c) /\ blockSize + i = j /\ 1 + blockSize + i = 1 + j
      BY <1>1, <2>2
    <3> HIDE DEF i
    <3>2. x[j] = c[i]
      BY <1>1, <1>2, <3>1
    <3> QED
      BY <3>1, <3>2
  <2> QED
    BY <1>1, <2>1, <2>2
<1> QED
  BY <1>1, <1>2, <1>3 DEF x

\* Decrypt refuses data for its length or version only when they were altered.
LEMMA DecryptRefuses ==
    ASSUME Shape, CTRWorks, Storing, Decrypt, ~altered
    PROVE  op' = "decrypt"
<1>1. op = "sealed" /\ master \in Masters /\ plaintext \in Seq(Byte) /\ Len(plaintext) <= MaxLen
  BY DEF Decrypt, Shape, AEADTypeOK, InCall, CTRWorks
<1>2. PICK v \in Block : data = SealedAs(master, plaintext, v)
  BY <1>1 DEF Storing, StoredAs
<1> DEFINE c == CiphertextOf(master, plaintext, v)
<1>3. /\ c \in Seq(Byte) /\ Len(data) = Overhead + Len(c) /\ data[1] = Version
  BY <1>1, <1>2, SealedParts
<1> HIDE DEF c
<1>4. Len(data) >= Overhead
  BY <1>3, Blocks DEF Overhead
<1>5. ~ Len(data) < Overhead
  BY <1>3, <1>4, Blocks DEF Overhead
<1> QED
  BY <1>3, <1>5 DEF Decrypt

\* The parts of the data are what they were where no byte was changed.
LEMMA DecryptReceives ==
    ASSUME Shape, CTRWorks, Storing, Decrypt, op' = "decrypt"
    PROVE  \E v \in Block : ReceivedAs(v)'
<1>1. /\ op = "sealed" /\ master' = master /\ plaintext' = plaintext /\ altered' = altered
      /\ master \in Masters /\ plaintext \in Seq(Byte) /\ Len(plaintext) <= MaxLen
      /\ altered \in BOOLEAN
  BY DEF Decrypt, Shape, AEADTypeOK, InCall, CTRWorks
<1>2. PICK v \in Block : StoredAs(SealedAs(master, plaintext, v))
  BY <1>1 DEF Storing
<1> DEFINE c == CiphertextOf(master, plaintext, v)
           t == TagOf(master, plaintext, v)
           e == SealedAs(master, plaintext, v)
           m == 1 + blockSize + Len(c)
<1>3. /\ c \in Seq(Byte) /\ t \in Block
      /\ v \o c \in Seq(Byte) /\ Len(v \o c) = blockSize + Len(c)
      /\ Len(e) = Overhead + Len(c) /\ e[1] = Version
      /\ e \in Seq(Byte \cup {Version, OtherVersion})
      /\ \A i \in 1..blockSize : e[1 + i] = v[i]
      /\ \A i \in 1..Len(c) : e[1 + blockSize + i] = c[i]
      /\ \A i \in 1..blockSize : e[m + i] = t[i]
  BY <1>1, SealedParts
<1>4. /\ Len(data) >= Overhead /\ data[1] = Version
      /\ iv' \in Block /\ src' \in Seq(Byte) /\ tag' \in Block
      /\ Len(src') = Len(data) - Overhead
      /\ \A i \in 1..blockSize : iv'[i] = data[1 + i]
      /\ \A i \in 1..Len(src') : src'[i] = data[1 + blockSize + i]
      /\ \A i \in 1..blockSize : tag'[i] = data[1 + blockSize + Len(src') + i]
  BY DecryptEffect
<1>5. StoredAs(e)
  BY <1>2
<1>6. ReceivedAs(v)' <=>
          /\ Len(src') = Len(c)
          /\ \/ ~altered /\ iv' = v /\ src' = c /\ tag' = t
             \/ altered /\ iv' = v /\ src' = c /\ tag' # t
             \/ /\ altered /\ tag' = t
                /\ \E k \in 1..Len(v \o c) :
                       \A i \in 1..Len(v \o c) : (iv' \o src')[i] = (v \o c)[i] <=> i # k
  BY <1>1 DEF ReceivedAs
<1> HIDE DEF c, t, e
<1>7. /\ blockSize \in Nat /\ blockSize > 0 /\ Overhead \in Nat /\ Len(c) \in Nat
      /\ Overhead = 1 + 2 * blockSize /\ m \in Nat /\ Len(e) = m + blockSize /\ Len(e) \in Nat
  BY <1>3, Blocks DEF Overhead
<1>8. ASSUME Len(data) = Len(e)  PROVE Len(src') = Len(c) /\ 1 + blockSize + Len(src') = m
  BY <1>3, <1>4, <1>7, <1>8
<1> HIDE DEF m
<1>9. ASSUME Len(data) = Len(e), \A j \in 2..m : data[j] = e[j]
      PROVE  iv' = v /\ src' = c
  <2>1. /\ \A i \in 1..blockSize : 1 + i \in 2..m
        /\ \A i \in 1..Len(c) : 1 + blockSize + i \in 2..m
    BY <1>7 DEF m
  <2>2. \A i \in 1..blockSize : iv'[i] = v[i]
    BY <1>3, <1>4, <1>9, <2>1
  <2>3. \A i \in 1..Len(c) : src'[i] = c[i]
    BY <1>3, <1>4, <1>8, <1>9, <2>1
  <2>4. iv' = v
    BY <1>4, <2>2, EqualBlocks
  <2>5. src' = [i \in 1..Len(src') |-> src'[i]] /\ c = [i \in 1..Len(c) |-> c[i]]
    BY <1>3, <1>4
  <2>6. src' = c
    BY <1>8, <1>9, <2>3, <2>5
  <2> QED
    BY <2>4, <2>6
<1>10. ASSUME Len(data) = Len(e), \A j \in m + 1..Len(e) : data[j] = e[j]
       PROVE  tag' = t
  <2>1. \A i \in 1..blockSize : m + i \in m + 1..Len(e)
    BY <1>7
  <2>2. \A i \in 1..blockSize : tag'[i] = data[m + i]
    BY <1>4, <1>8, <1>10
  <2>3. \A i \in 1..blockSize : tag'[i] = t[i]
    BY <1>3, <1>10, <2>1, <2>2
  <2> QED
    BY <1>3, <1>4, <2>3, EqualBlocks
<1>11. CASE ~altered
  <2>1. data = e
    BY <1>5, <1>11 DEF StoredAs
  <2> QED
    BY <1>6, <1>8, <1>9, <1>10, <1>11, <2>1
<1>12. CASE altered
  <2>1. data # [e EXCEPT ![1] = OtherVersion]
    <3>1. 1 \in 1..Len(e) /\ e \in [1..Len(e) -> Byte \cup {Version, OtherVersion}]
      BY <1>3, <1>7
    <3>2. [e EXCEPT ![1] = OtherVersion][1] = OtherVersion
      BY <3>1
    <3> QED
      BY <1>4, <3>2, AEADAssumption
  <2>2. ASSUME NEW n \in 0..Overhead - 1, n < Len(e), data = SubSeq(e, 1, n)
        PROVE  FALSE
    <3>1. n \in Nat /\ n <= Len(e) /\ n < Overhead
      BY <1>7, <2>2
    <3>2. Len(data) = n
      BY <1>3, <2>2, <3>1
    <3> QED
      BY <1>4, <1>7, <3>1, <3>2
  <2>3. PICK i \in 2..Len(e), b \in Byte : b # e[i] /\ data = [e EXCEPT ![i] = b]
    BY <1>5, <1>12, <2>1, <2>2 DEF StoredAs
  <2>4. Len(data) = Len(e) /\ \A j \in 1..Len(e) : data[j] = e[j] <=> j # i
    <3> DEFINE n == Len(e)
               S == Byte \cup {Version, OtherVersion}
    <3>1. n \in Nat /\ e \in [1..n -> S] /\ b \in S /\ i \in 1..n
      BY <1>3, <1>7
    <3> HIDE DEF n, S
    <3>2. data \in [1..n -> S]
      BY <2>3, <3>1
    <3>3. \A j \in 1..n : data[j] = e[j] <=> j # i
      BY <2>3, <3>1
    <3>4. Len(data) = n
      BY <3>1, <3>2
    <3> QED
      BY <3>3, <3>4 DEF n
  <2>5. i \in Nat /\ i <= Len(e)
    BY <1>7
  <2>6. Len(src') = Len(c)
    BY <1>8, <2>4
  <2>7. CASE i <= m
    <3> DEFINE k == i - 1
    <3>1. tag' = t
      <4>1. \A j \in m + 1..Len(e) : j \in 1..Len(e) /\ j # i
        BY <1>7, <2>5, <2>7
      <4> QED
        BY <1>10, <2>4, <4>1
    <3>2. k \in 1..Len(v \o c)
      BY <1>3, <1>7, <2>7 DEF m
    <3>3. \A j \in 1..blockSize + Len(c) : (v \o c)[j] = e[1 + j]
      <4>1. \A j \in 1..blockSize : v[j] = e[1 + j]
        BY <1>3
      <4>2. \A j \in 1..Len(c) : c[j] = e[1 + blockSize + j]
        BY <1>3
      <4>3. v \in Block /\ c \in Seq(Byte)
        BY <1>3
      <4> QED
        BY <4>1, <4>2, <4>3, JoinedParts
    <3>4. \A j \in 1..blockSize + Len(src') : (iv' \o src')[j] = data[1 + j]
      <4> DEFINE x == iv'
                 y == src'
      <4>1. \A j \in 1..blockSize : x[j] = data[1 + j]
        BY <1>4
      <4>2. \A j \in 1..Len(y) : y[j] = data[1 + blockSize + j]
        BY <1>4
      <4>3. x \in Block /\ y \in Seq(Byte)
        BY <1>4
      <4> HIDE DEF x, y
      <4>4. \A j \in 1..blockSize + Len(y) : (x \o y)[j] = data[1 + j]
        BY <4>1, <4>2, <4>3, JoinedParts
      <4> QED
        BY <4>4 DEF x, y
    <3>5. \A j \in 1..Len(v \o c) : (iv' \o src')[j] = (v \o c)[j] <=> j # k
      <4> TAKE j \in 1..Len(v \o c)
      <4>1. j \in 1..blockSize + Len(c)
        BY <1>3
      <4>2. (iv' \o src')[j] = data[1 + j] /\ (v \o c)[j] = e[1 + j]
        BY <2>6, <3>3, <3>4, <4>1
      <4>3. 1 + j \in 1..Len(e) /\ (1 + j = i <=> j = k)
        BY <1>7, <2>5, <4>1 DEF m
      <4> QED
        BY <2>4, <4>2, <4>3
    <3> HIDE DEF k
    <3> QED
      BY <1>6, <1>12, <2>6, <3>1, <3>2, <3>5
  <2>8. CASE i > m
    <3> DEFINE k == i - m
    <3>1. iv' = v /\ src' = c
      <4>1. \A j \in 2..m : j \in 1..Len(e) /\ j # i
        BY <1>7, <2>5, <2>8
      <4> QED
        BY <1>9, <2>4, <4>1
    <3>2. k \in 1..blockSize /\ m + k = i
      BY <1>7, <2>5, <2>8
    <3> HIDE DEF k
    <3>3. tag'[k] = data[i] /\ t[k] = e[i]
      BY <1>3, <1>4, <1>8, <2>4, <3>2
    <3>4. i \in 1..Len(e)
      BY <2>5, <1>7
    <3>5. tag' # t
      BY <2>4, <3>3, <3>4
    <3> QED
      BY <1>6, <1>12, <2>6, <3>1, <3>5
  <2> QED
    BY <1>7, <2>5, <2>7, <2>8
<1> QED
  BY <1>1, <1>11, <1>12

\* The comparison of the tags tells whether the data is what Encrypt returned.
LEMMA VerifiedTells ==
    ASSUME Shape, MACWorks, CTRWorks, Storing, Verified
    PROVE  /\ tag = Tag => ~altered /\ src = CiphertextOf(master, plaintext, iv)
           /\ tag # Tag => altered
<1>1. /\ pc = "mac" /\ Filled /\ blockIdx = NumBlocks - 1 /\ op = "decrypt"
  BY DEF Verified
<1>2. /\ iv \in Block /\ src \in Seq(Byte) /\ master \in Masters
      /\ plaintext \in Seq(Byte) /\ Len(plaintext) <= MaxLen
  BY <1>1 DEF Shape, AEADTypeOK, InCall, CTRWorks
<1>3. Tag = CMAC(macBlock[master], iv \o src)
  BY <1>1, TagOfMessage DEF Message, Ciphertext
<1>4. PICK v \in Block : ReceivedAs(v)
  BY <1>1 DEF Storing
<1> DEFINE c == CiphertextOf(master, plaintext, v)
           t == TagOf(master, plaintext, v)
           E == macBlock[master]
<1>5. c \in Seq(Byte) /\ v \o c \in Seq(Byte) /\ Len(v \o c) = blockSize + Len(c)
  BY <1>2, SealedParts
<1>6. /\ Len(src) = Len(c)
      /\ \/ ~altered /\ iv = v /\ src = c /\ tag = t
         \/ altered /\ iv = v /\ src = c /\ tag # t
         \/ /\ altered /\ tag = t
            /\ \E k \in 1..Len(v \o c) :
                   \A i \in 1..Len(v \o c) : (iv \o src)[i] = (v \o c)[i] <=> i # k
  BY <1>4 DEF ReceivedAs
<1>7. t = CMAC(E, v \o c)
  BY DEF TagOf
<1>8. iv \o src \in Seq(Byte) /\ Len(iv \o src) = blockSize + Len(src)
  <2>1. iv \in Seq(Byte) /\ Len(iv) = blockSize
    BY <1>2, Blocks
  <2>2. iv \o src \in Seq(Byte) /\ Len(iv \o src) = Len(iv) + Len(src)
    BY <1>2, <2>1, Joined
  <2> QED
    BY <2>1, <2>2
<1>9. IsPermutation(E)
  BY <1>2, Ciphers DEF IsPermutation
<1>10. CASE ~altered
  <2>1. iv = v /\ src = c /\ tag = t
    BY <1>6, <1>10
  <2>2. tag = Tag
    BY <1>3, <1>7, <2>1
  <2> QED
    BY <1>10, <2>1, <2>2
<1>11. CASE altered
  <2>1. CASE iv = v /\ src = c /\ tag # t
    BY <1>3, <1>7, <1>11, <2>1
  <2>2. ASSUME tag = t, NEW k \in 1..Len(v \o c),
               \A i \in 1..Len(v \o c) : (iv \o src)[i] = (v \o c)[i] <=> i # k
        PROVE  tag # Tag
    <3> HIDE DEF c, t, E
    <3> DEFINE x == iv \o src
               y == v \o c
    <3>1. /\ x \in Seq(Byte) /\ y \in Seq(Byte) /\ Len(x) = Len(y)
          /\ k \in 1..Len(x) /\ \A i \in 1..Len(x) : x[i] = y[i] <=> i # k
      BY <1>5, <1>6, <1>8, <2>2
    <3> HIDE DEF x, y
    <3>2. CMAC(E, x) # CMAC(E, y)
      BY <1>9, <3>1, ChangedByteChangesTag
    <3> QED
      BY <1>3, <1>7, <2>2, <3>2 DEF x, y, E
  <2> QED
    BY <1>6, <1>11, <2>1, <2>2
<1> QED
  BY <1>10, <1>11

-----------------------------------------------------------------------------
(* Decrypt returns the plaintext. *)

\* The call works on what it was given, and the data is what was sealed or altered once.
Works == Shape /\ Counting /\ MACWorks /\ CTRWorks /\ Storing

\* Every step keeps CTRWorks: a call of gostCTR begins with all of its input in src.
LEMMA CTRWorksStep == Works /\ [AEADNext]_aeadVars => CTRWorks'
<1> SUFFICES ASSUME Works, [AEADNext]_aeadVars  PROVE CTRWorks'
  OBVIOUS
<1> USE DEF Works
<1>1. MaxLen' = MaxLen
  BY DEF MaxLen, Half
<1>2. CASE CTRBlock
  BY <1>2, CTRBlockWorks
<1>3. ASSUME pc' = "ctr", src' = CTRInput', CTRInput' \in Seq(Byte), dst' = <<>>, used' = <<>>,
             Len(plaintext') <= MaxLen
      PROVE  CTRWorks'
  <2>1. /\ Len(dst') = 0 /\ Len(used') = 0 /\ Len(src') \in Nat
        /\ Len(used') * blockSize = 0
    BY <1>3, Blocks
  <2>2. Len(dst') + Len(src') = Len(CTRInput')
    BY <1>3, <2>1
  <2>3. \A i \in 1..Len(src') : Len(dst') + i = i
    BY <2>1
  <2>4. \A i \in 1..Len(src') : src'[i] = CTRInput'[Len(dst') + i]
    BY <1>3, <2>3
  <2>5. Len(dst') = Len(used') * blockSize
    BY <2>1
  <2> QED
    BY <1>1, <1>3, <2>1, <2>2, <2>4, <2>5 DEF CTRWorks
<1>4. ASSUME pc' # "ctr", plaintext' = plaintext \/ plaintext' = <<>>  PROVE CTRWorks'
  <2>1. Len(plaintext') <= MaxLen
    BY <1>4, MaxLenNat DEF CTRWorks
  <2> QED
    BY <1>1, <1>4, <2>1 DEF CTRWorks
<1>5. ASSUME NEW p \in Plaintexts, NEW v \in IVs, Encrypt(p, v)  PROVE CTRWorks'
  <2>1. p \in Seq(Byte) /\ Len(p) <= MaxLen
    BY AEADAssumption DEF MaxLen, Half
  <2>2. /\ pc' = "ctr" /\ src' = p /\ dst' = <<>> /\ used' = <<>> /\ plaintext' = p
        /\ CTRInput' = p
    BY <1>5 DEF Encrypt, BeginCTR, CTRInput
  <2> QED
    BY <1>3, <2>1, <2>2
<1>6. CASE Verified
  <2>1. CASE tag = Tag
    <3>1. /\ op = "decrypt" /\ op' = op /\ pc' = "ctr" /\ src' = src /\ dst' = <<>>
          /\ used' = <<>> /\ master' = master /\ iv' = iv /\ plaintext' = plaintext
      BY <1>6, <2>1 DEF Verified, BeginCTR, callVars
    <3>2. src = CiphertextOf(master, plaintext, iv)
      BY <1>6, <2>1, VerifiedTells
    <3>3. CTRInput' = CiphertextOf(master, plaintext, iv)
      BY <3>1 DEF CTRInput, CiphertextOf
    <3>4. src \in Seq(Byte) /\ Len(plaintext) <= MaxLen
      BY DEF Shape, AEADTypeOK, CTRWorks
    <3> QED
      BY <1>3, <3>1, <3>2, <3>3, <3>4
  <2>2. CASE tag # Tag
    BY <1>4, <1>6, <2>2 DEF Verified, callVars
  <2> QED
    BY <2>1, <2>2
<1>7. CASE UNCHANGED aeadVars
  <2>1. /\ pc' = pc /\ op' = op /\ iv' = iv /\ master' = master /\ plaintext' = plaintext
        /\ src' = src /\ dst' = dst /\ used' = used
    BY <1>7 DEF aeadVars, ctrVars
  <2>2. CTRInput' = CTRInput
    BY <2>1 DEF CTRInput
  <2> QED
    BY <1>1, <2>1, <2>2 DEF CTRWorks
<1>8. ASSUME NEW m \in Masters \cup BadMasters, NewKuznyechikAEAD(m)  PROVE CTRWorks'
  BY <1>4, <1>8 DEF NewKuznyechikAEAD, Shape, InCall
<1>9. CASE CTRDone
  BY <1>4, <1>9 DEF CTRDone, BeginCMAC, callVars
<1>10. CASE Copy \/ CMACBlock \/ Sealed
  BY <1>4, <1>10 DEF Copy, CMACBlock, Sealed, callVars
<1>11. CASE Decrypt
  BY <1>4, <1>11 DEF Decrypt, BeginCMAC, Shape, InCall
<1>12. CASE Alter \/ Again
  BY <1>4, <1>12 DEF Alter, Again, Shape, InCall
<1> QED
  BY <1>2, <1>5, <1>6, <1>7, <1>8, <1>9, <1>10, <1>11, <1>12 DEF AEADNext

\* Every step keeps Storing, and with it what is to be shown.
LEMMA StoringStep ==
    Works /\ OpensToThePlaintext /\ [AEADNext]_aeadVars => Storing' /\ OpensToThePlaintext'
<1> SUFFICES ASSUME Works, OpensToThePlaintext, [AEADNext]_aeadVars
             PROVE  Storing' /\ OpensToThePlaintext'
  OBVIOUS
<1> USE DEF Works
<1>1. CASE CTRDone
  BY <1>1, CTRDoneStores
<1>2. CASE Sealed
  BY <1>2, SealedStores
<1>3. CASE Alter
  BY <1>3, AlterStores
<1>4. CASE Decrypt
  <2>1. /\ op = "sealed" /\ op' \in {"failed", "decrypt"}
        /\ plaintext' = plaintext /\ altered' = altered
    BY <1>4 DEF Decrypt
  <2>2. CASE op' = "decrypt"
    <3>1. pc' = "mac"
      BY <1>4, <2>2 DEF Decrypt, BeginCMAC
    <3>2. \E v \in Block : ReceivedAs(v)'
      BY <1>4, <2>2, DecryptReceives
    <3>3. (\E v \in Block : ReceivedAs(v))'
      BY <3>2 DEF Block, Byte
    <3> QED
      BY <2>2, <3>1, <3>3 DEF Storing, OpensToThePlaintext
  <2>3. CASE op' = "failed"
    <3>1. altered
      BY <1>4, <2>3, DecryptRefuses
    <3> QED
      BY <2>1, <2>3, <3>1 DEF Storing, OpensToThePlaintext
  <2> QED
    BY <2>1, <2>2, <2>3
<1>5. CASE Verified
  <2>1. pc = "mac" /\ op = "decrypt" /\ altered' = altered
    BY <1>5 DEF Verified, callVars
  <2>2. CASE tag = Tag
    <3>1. op' = "decrypt" /\ pc' = "ctr" /\ ~altered
      BY <1>5, <2>1, <2>2, VerifiedTells DEF Verified, BeginCTR
    <3> QED
      BY <2>1, <3>1 DEF Storing, OpensToThePlaintext
  <2>3. CASE tag # Tag
    <3>1. op' = "failed" /\ pc' = "none" /\ altered
      BY <1>5, <2>3, VerifiedTells DEF Verified
    <3> QED
      BY <2>1, <3>1 DEF Storing, OpensToThePlaintext
  <2> QED
    BY <2>2, <2>3
<1>6. ASSUME NEW m \in Masters \cup BadMasters, NewKuznyechikAEAD(m)
      PROVE  Storing' /\ OpensToThePlaintext'
  <2>1. ~altered /\ altered' = altered /\ op' \in {"new", "refused"}
    BY <1>6 DEF NewKuznyechikAEAD, Storing
  <2> QED
    BY <2>1 DEF Storing, OpensToThePlaintext
<1>7. ASSUME NEW p \in Plaintexts, NEW v \in IVs, Encrypt(p, v)
      PROVE  Storing' /\ OpensToThePlaintext'
  <2>1. ~altered /\ altered' = altered /\ op' = "encrypt" /\ pc' = "ctr"
    BY <1>7 DEF Encrypt, BeginCTR, Storing
  <2> QED
    BY <2>1 DEF Storing, OpensToThePlaintext
<1>8. CASE CTRBlock
  <2>1. /\ pc' = pc /\ pc = "ctr" /\ op' = op /\ op \in {"encrypt", "decrypt"}
        /\ altered' = altered
    BY <1>8 DEF CTRBlock, callVars, Shape, InCall
  <2> QED
    BY <2>1 DEF Storing, OpensToThePlaintext
<1>9. ASSUME op' = op, pc' = pc, altered' = altered, dst' = dst, master' = master,
             plaintext' = plaintext, iv' = iv, src' = src, tag' = tag, data' = data,
             result' = result
      PROVE  Storing' /\ OpensToThePlaintext'
  <2>1. Block' = Block
    BY DEF Block, Byte
  <2>2. \A v \in Block : ReceivedAs(v)' <=> ReceivedAs(v)
    BY <1>9 DEF ReceivedAs
  <2>3. (\E v \in Block : ReceivedAs(v))' <=> \E v \in Block : ReceivedAs(v)
    BY <2>1, <2>2
  <2>4. \A v \in Block : StoredAs(SealedAs(master, plaintext, v))'
                            <=> StoredAs(SealedAs(master, plaintext, v))
    BY <1>9 DEF StoredAs, Byte, Overhead
  <2>5. (\E v \in Block : StoredAs(SealedAs(master, plaintext, v)))'
            <=> \E v \in Block : StoredAs(SealedAs(master, plaintext, v))
    BY <2>1, <2>4
  <2>6. CiphertextOf(master, plaintext, iv)' = CiphertextOf(master, plaintext, iv)
    BY <1>9 DEF CiphertextOf
  <2>7. Storing'
    BY <1>9, <2>3, <2>5, <2>6 DEF Storing
  <2>8. OpensToThePlaintext'
    BY <1>9 DEF OpensToThePlaintext
  <2> QED
    BY <2>7, <2>8
<1>10. CASE Copy \/ CMACBlock \/ UNCHANGED aeadVars
  BY <1>9, <1>10 DEF Copy, CMACBlock, callVars, ctrVars, aeadVars
<1>11. CASE Again
  <2>1. altered' = FALSE /\ op' \in {"none", "new"}
    BY <1>11 DEF Again
  <2> QED
    BY <2>1 DEF Storing, OpensToThePlaintext
<1> QED
  BY <1>1, <1>2, <1>3, <1>4, <1>5, <1>6, <1>7, <1>8, <1>10, <1>11 DEF AEADNext

\* Decrypt returns the plaintext that Encrypt was given, and refuses no data that is
\* intact; data with one byte changed, or cut short, it refuses
\* before it has decrypted any of it.
THEOREM OpensToThePlaintextInvariant == AEADSpec => []OpensToThePlaintext
<1> DEFINE Inv == Works /\ OpensToThePlaintext
<1>1. AEADInit => Inv
  <2> SUFFICES ASSUME AEADInit  PROVE Inv
    OBVIOUS
  <2>1. Shape
    BY AEADInitShape
  <2>2. Len(plaintext) <= MaxLen
    BY MaxLenNat DEF AEADInit
  <2>3. pc = "none" /\ op = "none" /\ ~altered
    BY DEF AEADInit
  <2>4. Counting /\ MACWorks /\ CTRWorks /\ Storing /\ OpensToThePlaintext
    BY <2>2, <2>3 DEF Counting, MACWorks, CTRWorks, Storing, OpensToThePlaintext
  <2> QED
    BY <2>1, <2>4 DEF Works
<1>2. Inv /\ [AEADNext]_aeadVars => Inv'
  <2> SUFFICES ASSUME Works, OpensToThePlaintext, [AEADNext]_aeadVars  PROVE Inv'
    OBVIOUS
  <2>1. Shape' /\ Counting' /\ MACWorks'
    BY ShapeStep, CountingStep, MACWorksStep DEF Works
  <2>2. CTRWorks' /\ Storing' /\ OpensToThePlaintext'
    BY CTRWorksStep, StoringStep
  <2> QED
    BY <2>1, <2>2 DEF Works
<1> QED
  BY <1>1, <1>2, PTL DEF AEADSpec

=============================================================================
