----------------------- MODULE KuznyechikCipher_proofs ----------------------
(***************************************************************************)
(* Proofs about the block cipher: that a decryption undoes an encryption,   *)
(* and the other way round, with any key, any block and any sequence of     *)
(* calls, and that encryption with any round keys is a permutation of the   *)
(* blocks.                                                                  *)
(*                                                                          *)
(* The tables are those of a linear function after a substitution of bytes, *)
(* because the multiplication of the field is bilinear and associative;     *)
(* decryption with transformed round keys works because it is linear.       *)
(***************************************************************************)
EXTENDS KuznyechikCipher, Octets_proofs

-----------------------------------------------------------------------------
(* The field. *)

\* A byte times x in the field.
Twice(a) == double[a + 1]

\* Below 128 the shift is all of it; above, the highest bit is reduced.
LEMMA TwiceIs ==
    ASSUME NEW a \in Octet
    PROVE  /\ a < 128 => Twice(a) = 2 * a
           /\ ~(a < 128) => Twice(a) = xor(2 * (a - 128), 195)
<1>1. a \in 0..255 /\ a + 1 \in 1..256
  BY DEF Octet
<1>2. double = [i \in 1..256 |-> IF i <= 128 THEN 2 * (i - 1) ELSE xor(2 * (i - 129), 195)]
  BY DEF double, Tabulate
<1>3. Twice(a) = IF a + 1 <= 128 THEN 2 * ((a + 1) - 1) ELSE xor(2 * ((a + 1) - 129), 195)
  BY <1>1, <1>2 DEF Twice
<1>4. (a + 1) - 1 = a /\ (a + 1) - 129 = a - 128 /\ (a + 1 <= 128 <=> a < 128)
  BY <1>1
<1> QED
  BY <1>3, <1>4

\* Shifting both arguments shifts the result.
LEMMA XorShifted ==
    ASSUME NEW a \in Octet, NEW b \in Octet, a < 128, b < 128
    PROVE  /\ 2 * a \in Octet /\ 2 * b \in Octet /\ xor(a, b) < 128
           /\ xor(2 * a, 2 * b) = 2 * xor(a, b)
<1>1. a \in Nat /\ b \in Nat /\ 2 * a \in Octet /\ 2 * b \in Octet
  BY DEF Octet
<1>2. (2 * a) \div 2 = a /\ (2 * b) \div 2 = b /\ (2 * a + 2 * b) % 2 = 0
  BY <1>1
<1>3. xor(2 * a, 2 * b) = 2 * xor((2 * a) \div 2, (2 * b) \div 2) + ((2 * a + 2 * b) % 2)
  BY <1>1, XorAlgebra
<1>4. xor(a, b) \in Octet /\ xor(a, b) < 128
  BY XorAlgebra
<1>5. xor(a, b) \in Nat
  BY <1>4 DEF Octet
<1> QED
  BY <1>1, <1>2, <1>3, <1>4, <1>5

\* A power of two and a smaller number have no bit in common.
IsSum(n) == \A a \in Octet : a < n => xor(n, a) = n + a

\* From one power of two to the next.
LEMMA SumStep ==
    ASSUME NEW n \in 1..64, IsSum(n)
    PROVE  IsSum(2 * n)
<1> SUFFICES ASSUME NEW a \in Octet, a < 2 * n  PROVE xor(2 * n, a) = 2 * n + a
  BY DEF IsSum
<1> DEFINE h == a \div 2
           k == a % 2
<1>1. n \in Nat /\ a \in Nat /\ 2 * n \in Octet /\ n \in Octet
  BY DEF Octet
<1>2. h \in Octet /\ h \in Nat /\ k \in 0..1 /\ a = 2 * h + k
  BY <1>1, Halves
<1>3. xor(2 * n, a) = 2 * xor((2 * n) \div 2, h) + ((2 * n + a) % 2)
  BY <1>1, XorAlgebra
<1> HIDE DEF h, k
<1>4. (2 * n) \div 2 = n /\ (2 * n + a) % 2 = k /\ h < n
  BY <1>1, <1>2
<1>5. xor(n, h) = n + h
  BY <1>2, <1>4 DEF IsSum
<1> QED
  BY <1>1, <1>2, <1>3, <1>4, <1>5

\* The highest bit of a byte is added to the others.
LEMMA HighestBit ==
    ASSUME NEW a \in Octet, a < 128
    PROVE  xor(128, a) = 128 + a
<1>1. IsSum(1)
  <2> SUFFICES ASSUME NEW b \in Octet, b < 1  PROVE xor(1, b) = 1 + b
    BY DEF IsSum
  <2>1. b = 0 /\ 1 \in Octet
    BY DEF Octet
  <2> QED
    BY <2>1, XorCases
<1>2. IsSum(2)
  BY <1>1, SumStep, 2 * 1 = 2, 1 \in 1..64
<1>3. IsSum(4)
  BY <1>2, SumStep, 2 * 2 = 4, 2 \in 1..64
<1>4. IsSum(8)
  BY <1>3, SumStep, 2 * 4 = 8, 4 \in 1..64
<1>5. IsSum(16)
  BY <1>4, SumStep, 2 * 8 = 16, 8 \in 1..64
<1>6. IsSum(32)
  BY <1>5, SumStep, 2 * 16 = 32, 16 \in 1..64
<1>7. IsSum(64)
  BY <1>6, SumStep, 2 * 32 = 64, 32 \in 1..64
<1>8. IsSum(128)
  BY <1>7, SumStep, 2 * 64 = 128, 64 \in 1..64
<1> QED
  BY <1>8 DEF IsSum

\* The other bits of a byte that has the highest one.
LEMMA OtherBits ==
    ASSUME NEW a \in Octet, ~(a < 128)
    PROVE  /\ a - 128 \in Octet /\ a - 128 < 128 /\ a = xor(128, a - 128)
           /\ 2 * (a - 128) \in Octet /\ Twice(a) = xor(2 * (a - 128), 195)
<1>1. a - 128 \in Octet /\ a - 128 < 128 /\ a = 128 + (a - 128) /\ 2 * (a - 128) \in Octet
  BY DEF Octet
<1>2. xor(128, a - 128) = 128 + (a - 128)
  BY <1>1, HighestBit
<1> QED
  BY <1>1, <1>2, TwiceIs

\* It is a byte again.
LEMMA TwiceIsOctet ==
    ASSUME NEW a \in Octet
    PROVE  Twice(a) \in Octet
<1>1. CASE a < 128
  BY <1>1, TwiceIs DEF Octet
<1>2. CASE ~(a < 128)
  <2>1. 195 \in Octet
    BY DEF Octet
  <2> QED
    BY <1>2, <2>1, OtherBits, XorGroup
<1> QED
  BY <1>1, <1>2

\* Only the first of two bytes has the highest bit.
LEMMA TwiceLinearHigh ==
    ASSUME NEW a \in Octet, NEW b \in Octet, ~(a < 128), b < 128
    PROVE  Twice(xor(a, b)) = xor(Twice(a), Twice(b))
<1> DEFINE d == a - 128
           e == xor(d, b)
<1>1. /\ d \in Octet /\ d < 128 /\ a = xor(128, d) /\ 2 * d \in Octet
      /\ Twice(a) = xor(2 * d, 195)
  BY OtherBits
<1> HIDE DEF d
<1>2. e \in Octet /\ e < 128 /\ xor(2 * d, 2 * b) = 2 * e /\ 2 * b \in Octet
  BY <1>1, XorShifted, XorGroup
<1>3. 128 \in Octet /\ 195 \in Octet
  BY DEF Octet
<1>4. xor(a, b) = xor(128, e)
  BY <1>1, <1>3, XorGroup
<1> HIDE DEF e
<1>5. xor(128, e) = 128 + e
  BY <1>2, HighestBit
<1>6. xor(a, b) \in Octet /\ ~(xor(a, b) < 128) /\ xor(a, b) - 128 = e
  BY <1>2, <1>4, <1>5 DEF Octet
<1>7. Twice(xor(a, b)) = xor(2 * e, 195)
  BY <1>6, TwiceIs
<1>8. Twice(b) = 2 * b
  BY TwiceIs
<1>9. xor(xor(2 * d, 2 * b), 195) = xor(xor(2 * d, 195), 2 * b)
  <2>1. xor(xor(2 * d, 2 * b), 195) = xor(2 * d, xor(2 * b, 195))
    BY <1>1, <1>2, <1>3, XorGroup
  <2>2. xor(2 * b, 195) = xor(195, 2 * b)
    BY <1>2, <1>3, XorGroup
  <2>3. xor(2 * d, xor(195, 2 * b)) = xor(xor(2 * d, 195), 2 * b)
    BY <1>1, <1>2, <1>3, XorGroup
  <2> QED
    BY <2>1, <2>2, <2>3
<1> QED
  BY <1>1, <1>2, <1>7, <1>8, <1>9

\* Twice is linear.
LEMMA TwiceLinear ==
    ASSUME NEW a \in Octet, NEW b \in Octet
    PROVE  Twice(xor(a, b)) = xor(Twice(a), Twice(b))
<1>1. CASE a < 128 /\ b < 128
  <2>1. xor(2 * a, 2 * b) = 2 * xor(a, b) /\ xor(a, b) < 128 /\ xor(a, b) \in Octet
    BY <1>1, XorShifted, XorGroup
  <2>2. Twice(a) = 2 * a /\ Twice(b) = 2 * b /\ Twice(xor(a, b)) = 2 * xor(a, b)
    BY <1>1, <2>1, TwiceIs
  <2> QED
    BY <2>1, <2>2
<1>2. CASE ~(a < 128) /\ b < 128
  BY <1>2, TwiceLinearHigh
<1>3. CASE a < 128 /\ ~(b < 128)
  <2>1. Twice(xor(b, a)) = xor(Twice(b), Twice(a))
    BY <1>3, TwiceLinearHigh
  <2> QED
    BY <2>1, TwiceIsOctet, XorGroup
<1>4. CASE ~(a < 128) /\ ~(b < 128)
  <2> DEFINE d == a - 128
             e == b - 128
  <2>1. /\ d \in Octet /\ d < 128 /\ a = xor(128, d) /\ 2 * d \in Octet
        /\ Twice(a) = xor(2 * d, 195)
    BY <1>4, OtherBits
  <2>2. /\ e \in Octet /\ e < 128 /\ b = xor(128, e) /\ 2 * e \in Octet
        /\ Twice(b) = xor(2 * e, 195)
    BY <1>4, OtherBits
  <2> HIDE DEF d, e
  <2>3. xor(2 * d, 2 * e) = 2 * xor(d, e) /\ xor(d, e) < 128 /\ xor(d, e) \in Octet
    BY <2>1, <2>2, XorShifted, XorGroup
  <2>4. 128 \in Octet /\ 195 \in Octet
    BY DEF Octet
  <2>5. xor(a, b) = xor(xor(128, 128), xor(d, e))
    BY <2>1, <2>2, <2>4, XorGroup
  <2>6. xor(a, b) = xor(d, e)
    BY <2>3, <2>4, <2>5, XorGroup
  <2>7. Twice(xor(a, b)) = 2 * xor(d, e)
    BY <2>3, <2>6, TwiceIs
  <2>8. xor(xor(2 * d, 195), xor(2 * e, 195)) = xor(xor(2 * d, 2 * e), xor(195, 195))
    BY <2>1, <2>2, <2>4, XorGroup
  <2>9. xor(2 * d, 2 * e) \in Octet
    BY <2>1, <2>2, XorGroup
  <2>10. xor(xor(2 * d, 2 * e), xor(195, 195)) = xor(2 * d, 2 * e)
    BY <2>4, <2>9, XorGroup
  <2> QED
    BY <2>1, <2>2, <2>3, <2>7, <2>8, <2>10
<1> QED
  BY <1>1, <1>2, <1>3, <1>4

IfOdd(b, a) == IF b % 2 = 1 THEN a ELSE 0

MulStep(m) ==
    [b \in Octet |-> [a \in Octet |->
        IF b = 0 THEN 0 ELSE xor(double[m[b \div 2][a] + 1], IfOdd(b, a))]]

\* Zero or the byte.
LEMMA IfOddIs ==
    ASSUME NEW a \in Octet, NEW b \in Octet
    PROVE  IfOdd(b, a) \in Octet /\ (IfOdd(b, a) = a \/ IfOdd(b, a) = 0)
  BY DEF IfOdd, Octet

\* mulOf is a solution of its own definition.
LEMMA MulOfEquation == mulOf = MulStep(mulOf) /\ mulOf \in [Octet -> [Octet -> Octet]]
<1> DEFINE S == [Octet -> Octet]
           zero == [a \in Octet |-> 0]
           g == [b \in 1..255 |-> [u \in S |->
                    [a \in Octet |-> xor(Twice(u[a]), IfOdd(b, a))]]]
<1>1. \E m \in [Octet -> S] : m = MulStep(m)
  <2>1. \A b \in 1..255 : \A u \in S, a \in Octet : xor(Twice(u[a]), IfOdd(b, a)) \in Octet
    <3> TAKE b \in 1..255
    <3> TAKE u \in S, a \in Octet
    <3>1. u[a] \in Octet
      OBVIOUS
    <3>2. b \in Octet
      BY DEF Octet
    <3> QED
      BY <3>1, <3>2, TwiceIsOctet, IfOddIs, XorGroup
  <2>2. zero \in S
    BY DEF Octet
  <2>3. g \in [1..255 -> [S -> S]]
    BY <2>1
  <2>4. \A b \in 1..255, u \in S : g[b][u] = [a \in Octet |-> xor(Twice(u[a]), IfOdd(b, a))]
    OBVIOUS
  <2> HIDE DEF g, S
  <2>5. PICK m : IsHalving(m, 256, zero, g, S)
    BY <2>2, <2>3, HalvingRecursion
  <2>6. m \in [Octet -> S] /\ m[0] = zero
    BY <2>5 DEF IsHalving
  <2>7. ASSUME NEW b \in Octet  PROVE m[b] = MulStep(m)[b]
    <3>1. CASE b = 0
      BY <2>6, <3>1 DEF MulStep
    <3>2. CASE b # 0
      <4>1. b \in 1..255 /\ b < 256 /\ b \div 2 \in Octet
        BY <3>2, Halves DEF Octet
      <4>2. m[b] = g[b][m[b \div 2]] /\ m[b \div 2] \in S
        BY <2>5, <2>6, <4>1 DEF IsHalving
      <4>3. m[b] = [a \in Octet |-> xor(Twice(m[b \div 2][a]), IfOdd(b, a))]
        BY <2>4, <4>1, <4>2
      <4> QED
        BY <3>2, <4>3 DEF MulStep, Twice
    <3> QED
      BY <3>1, <3>2
  <2>8. m = MulStep(m)
    BY <2>6, <2>7 DEF MulStep
  <2> QED
    BY <2>6, <2>8
<1>2. \A m : m = MulStep(m) => m \in [Octet -> S]
  <2> SUFFICES ASSUME NEW m, m = MulStep(m)  PROVE m \in [Octet -> S]
    OBVIOUS
  <2>1. \A b \in Octet : m[b] = [a \in Octet |->
            IF b = 0 THEN 0 ELSE xor(double[m[b \div 2][a] + 1], IfOdd(b, a))]
    BY DEF MulStep
  <2> DEFINE P == {b \in Octet : m[b] \in S}
  <2>2. 0 \in P
    <3>1. 0 \in Octet
      BY DEF Octet
    <3>2. m[0] = [a \in Octet |-> 0]
      BY <2>1, <3>1
    <3> QED
      BY <3>1, <3>2
  <2>3. ASSUME NEW b \in 1..255, b \div 2 \in P  PROVE b \in P
    <3>1. b \in Octet
      BY DEF Octet
    <3>2. \A a \in Octet : xor(Twice(m[b \div 2][a]), IfOdd(b, a)) \in Octet
      <4> TAKE a \in Octet
      <4>1. m[b \div 2][a] \in Octet
        BY <2>3
      <4> QED
        BY <3>1, <4>1, TwiceIsOctet, IfOddIs, XorGroup
    <3>3. b # 0
      OBVIOUS
    <3>4. m[b] = [a \in Octet |-> xor(Twice(m[b \div 2][a]), IfOdd(b, a))]
      BY <2>1, <3>1, <3>3 DEF Twice
    <3> QED
      BY <3>1, <3>2, <3>4
  <2> HIDE DEF P
  <2>4. Octet \subseteq P
    BY <2>2, <2>3, HalvingInduction
  <2> QED
    BY <2>4 DEF MulStep, P
<1>3. mulOf = CHOOSE m : m = MulStep(m)
  BY DEF mulOf, MulStep, IfOdd
<1> HIDE DEF mulOf
<1> QED
  BY <1>1, <1>2, <1>3

\* The product of two bytes, from the product with half of the second.
LEMMA MulIs ==
    ASSUME NEW a \in Octet, NEW b \in Octet
    PROVE  /\ mul(a, b) \in Octet /\ mul(a, 0) = 0
           /\ b \div 2 \in Octet
           /\ mul(a, b) = xor(Twice(mul(a, b \div 2)), IfOdd(b, a))
<1>1. mulTable = [i \in 1..256 |-> [j \in 1..256 |-> mulOf[j - 1][i - 1]]]
  BY DEF mulTable, Tabulate
<1>2. \A u, v \in Octet : mul(u, v) = mulOf[v][u]
  <2> TAKE u, v \in Octet
  <2>1. u + 1 \in 1..256 /\ v + 1 \in 1..256 /\ (u + 1) - 1 = u /\ (v + 1) - 1 = v
    BY DEF Octet
  <2>2. mulTable[u + 1][v + 1] = mulOf[(v + 1) - 1][(u + 1) - 1]
    BY <1>1, <2>1
  <2> QED
    BY <2>1, <2>2 DEF mul
<1>3. \A u, v \in Octet : mulOf[v][u] \in Octet
  BY MulOfEquation
<1>4. mulOf[b][a] = IF b = 0 THEN 0 ELSE xor(double[mulOf[b \div 2][a] + 1], IfOdd(b, a))
  <2>1. mulOf[b] = MulStep(mulOf)[b]
    BY MulOfEquation
  <2> QED
    BY <2>1 DEF MulStep
<1>5. 0 \in Octet /\ b \div 2 \in Octet
  BY Halves DEF Octet
<1>6. mulOf[0][a] = 0
  <2>1. mulOf[0] = MulStep(mulOf)[0]
    BY MulOfEquation
  <2> QED
    BY <1>5, <2>1 DEF MulStep
<1>7. CASE b = 0
  <2>1. 0 \div 2 = 0 /\ 0 % 2 = 0 /\ Twice(0) = 0
    BY <1>5, TwiceIs
  <2> QED
    BY <1>2, <1>5, <1>6, <1>7, <2>1, XorGroup DEF IfOdd
<1>8. CASE b # 0
  BY <1>2, <1>3, <1>4, <1>5, <1>6, <1>8 DEF Twice
<1> QED
  BY <1>7, <1>8

\* A byte from its half.
LEMMA FromHalf ==
    ASSUME NEW b \in Octet
    PROVE  /\ b \div 2 \in Octet /\ b = xor(Twice(b \div 2), IfOdd(b, 1))
           /\ Twice(b \div 2) = 2 * (b \div 2)
<1> DEFINE h == b \div 2
           k == b % 2
<1>1. b \in Nat /\ h \in Octet /\ h \in Nat /\ h < 128 /\ k \in 0..1 /\ b = 2 * h + k
  BY Halves DEF Octet
<1>2. Twice(h) = 2 * h /\ IfOdd(b, 1) = k /\ 2 * h \in Octet /\ k \in Octet /\ k \div 2 = 0
  BY <1>1, TwiceIs DEF IfOdd, Octet
<1> HIDE DEF h, k
<1>3. xor(2 * h, k) = 2 * xor((2 * h) \div 2, k \div 2) + ((2 * h + k) % 2)
  BY <1>2, XorAlgebra
<1>4. (2 * h) \div 2 = h /\ (2 * h + k) % 2 = k
  BY <1>1
<1>5. xor(h, 0) = h
  BY <1>1, XorGroup
<1>6. xor(2 * h, k) = b
  BY <1>1, <1>2, <1>3, <1>4, <1>5
<1> QED
  BY <1>1, <1>2, <1>6 DEF h

\* IfOdd is linear in both arguments.
LEMMA IfOddLinear ==
    ASSUME NEW a \in Octet, NEW b \in Octet, NEW d \in Octet
    PROVE  /\ IfOdd(b, xor(a, d)) = xor(IfOdd(b, a), IfOdd(b, d))
           /\ IfOdd(xor(b, d), a) = xor(IfOdd(b, a), IfOdd(d, a))
           /\ xor(b, d) \div 2 = xor(b \div 2, d \div 2)
<1>1. 0 \in Octet /\ xor(0, 0) = 0 /\ xor(a, a) = 0 /\ xor(a, 0) = a /\ xor(0, a) = a
  BY XorGroup
<1>2. IfOdd(b, xor(a, d)) = xor(IfOdd(b, a), IfOdd(b, d))
  BY <1>1 DEF IfOdd
<1>3. b \in Nat /\ d \in Nat
  BY DEF Octet
<1>4. /\ xor(b \div 2, d \div 2) \in Octet
      /\ xor(b, d) = 2 * xor(b \div 2, d \div 2) + ((b + d) % 2)
  BY <1>3, Halves, XorAlgebra
<1>5. xor(b \div 2, d \div 2) \in Nat
  BY <1>4 DEF Octet
<1>6. xor(b, d) \div 2 = xor(b \div 2, d \div 2) /\ (xor(b, d) + 0) % 2 = (b + d + 0) % 2
  BY <1>3, <1>4, <1>5, LowestBit
<1>7. xor(b, d) % 2 = (b + d) % 2
  <2>1. xor(b, d) \in Nat
    BY <1>3, <1>4, <1>5
  <2> QED
    BY <1>3, <1>6, <2>1
<1>8. ((b + d) % 2 = 1) <=> ((b % 2 = 1) # (d % 2 = 1))
  BY <1>3
<1>9. IfOdd(xor(b, d), a) = xor(IfOdd(b, a), IfOdd(d, a))
  BY <1>1, <1>7, <1>8 DEF IfOdd
<1> QED
  BY <1>2, <1>6, <1>9

\* Multiplication is linear in its first argument,
LEMMA MulLeftLinear ==
    ASSUME NEW a \in Octet, NEW d \in Octet, NEW b \in Octet
    PROVE  mul(xor(a, d), b) = xor(mul(a, b), mul(d, b))
<1> DEFINE e == xor(a, d)
           P == {k \in Octet : mul(e, k) = xor(mul(a, k), mul(d, k))}
<1>1. e \in Octet /\ 0 \in Octet
  BY XorGroup
<1>2. 0 \in P
  BY <1>1, MulIs, XorGroup
<1>3. ASSUME NEW k \in 1..255, k \div 2 \in P  PROVE k \in P
  <2> DEFINE h == k \div 2
             u == mul(a, h)
             v == mul(d, h)
             x == IfOdd(k, a)
             y == IfOdd(k, d)
  <2>1. k \in Octet
    BY DEF Octet
  <2>2. h \in Octet /\ mul(e, h) = xor(u, v) /\ u \in Octet /\ v \in Octet
    BY <1>3, MulIs
  <2>3. x \in Octet /\ y \in Octet /\ IfOdd(k, e) = xor(x, y)
    BY <2>1, IfOddIs, IfOddLinear
  <2>4. /\ mul(e, k) = xor(Twice(mul(e, h)), IfOdd(k, e))
        /\ mul(a, k) = xor(Twice(u), x) /\ mul(d, k) = xor(Twice(v), y)
    BY <1>1, <2>1, MulIs
  <2> HIDE DEF e, h, u, v, x, y
  <2>5. Twice(xor(u, v)) = xor(Twice(u), Twice(v)) /\ Twice(u) \in Octet /\ Twice(v) \in Octet
    BY <2>2, TwiceLinear, TwiceIsOctet
  <2>6. xor(xor(Twice(u), Twice(v)), xor(x, y)) = xor(xor(Twice(u), x), xor(Twice(v), y))
    BY <2>3, <2>5, XorGroup
  <2> QED
    BY <2>1, <2>2, <2>3, <2>4, <2>5, <2>6
<1> HIDE DEF P
<1>4. Octet \subseteq P
  BY <1>2, <1>3, HalvingInduction
<1> QED
  BY <1>4 DEF P

\* and in its second,
LEMMA MulRightLinear ==
    ASSUME NEW a \in Octet, NEW b \in Octet, NEW d \in Octet
    PROVE  mul(a, xor(b, d)) = xor(mul(a, b), mul(a, d))
<1> DEFINE P == {k \in Octet : \A n \in Octet : mul(a, xor(k, n)) = xor(mul(a, k), mul(a, n))}
<1>1. 0 \in P
  <2>1. 0 \in Octet
    BY DEF Octet
  <2>2. ASSUME NEW n \in Octet  PROVE mul(a, xor(0, n)) = xor(mul(a, 0), mul(a, n))
    BY <2>1, MulIs, XorGroup
  <2> QED
    BY <2>1, <2>2
<1>2. ASSUME NEW k \in 1..255, k \div 2 \in P  PROVE k \in P
  <2>1. k \in Octet
    BY DEF Octet
  <2> SUFFICES ASSUME NEW n \in Octet
               PROVE  mul(a, xor(k, n)) = xor(mul(a, k), mul(a, n))
    BY <2>1
  <2> DEFINE h == k \div 2
             m == n \div 2
             u == mul(a, h)
             v == mul(a, m)
             x == IfOdd(k, a)
             y == IfOdd(n, a)
             e == xor(k, n)
  <2>2. h \in Octet /\ m \in Octet /\ u \in Octet /\ v \in Octet
    BY <2>1, MulIs
  <2>3. mul(a, xor(h, m)) = xor(u, v)
    BY <1>2, <2>2
  <2>4. e \in Octet /\ e \div 2 = xor(h, m) /\ IfOdd(e, a) = xor(x, y)
    BY <2>1, XorGroup, IfOddLinear
  <2>5. x \in Octet /\ y \in Octet
    BY <2>1, IfOddIs
  <2>6. /\ mul(a, e) = xor(Twice(mul(a, e \div 2)), IfOdd(e, a))
        /\ mul(a, k) = xor(Twice(u), x) /\ mul(a, n) = xor(Twice(v), y)
    BY <2>1, <2>4, MulIs
  <2> HIDE DEF e, h, m, u, v, x, y
  <2>7. Twice(xor(u, v)) = xor(Twice(u), Twice(v)) /\ Twice(u) \in Octet /\ Twice(v) \in Octet
    BY <2>2, TwiceLinear, TwiceIsOctet
  <2>8. xor(xor(Twice(u), Twice(v)), xor(x, y)) = xor(xor(Twice(u), x), xor(Twice(v), y))
    BY <2>5, <2>7, XorGroup
  <2> QED
    BY <2>3, <2>4, <2>6, <2>7, <2>8 DEF e
<1> HIDE DEF P
<1>3. Octet \subseteq P
  BY <1>1, <1>2, HalvingInduction
<1> QED
  BY <1>3 DEF P

\* has one as its unit,
LEMMA MulOne ==
    ASSUME NEW b \in Octet
    PROVE  mul(1, b) = b /\ mul(b, 1) = b
<1> DEFINE P == {k \in Octet : mul(1, k) = k}
<1>1. 0 \in Octet /\ 1 \in Octet
  BY DEF Octet
<1>2. 0 \in P
  BY <1>1, MulIs
<1>3. ASSUME NEW k \in 1..255, k \div 2 \in P  PROVE k \in P
  <2>1. k \in Octet
    BY DEF Octet
  <2> QED
    BY <1>1, <1>3, <2>1, MulIs, FromHalf
<1> HIDE DEF P
<1>4. Octet \subseteq P
  BY <1>2, <1>3, HalvingInduction
<1>5. mul(b, 1) = b
  <2>1. 1 \div 2 = 0 /\ Twice(0) = 0 /\ mul(b, 0) = 0 /\ IfOdd(1, b) = b
    BY <1>1, MulIs, TwiceIs DEF IfOdd
  <2> QED
    BY <1>1, <2>1, MulIs, XorGroup
<1> QED
  BY <1>4, <1>5 DEF P

\* and lets x pass through either argument.
LEMMA MulTwiceLeft ==
    ASSUME NEW a \in Octet, NEW b \in Octet
    PROVE  mul(Twice(a), b) = Twice(mul(a, b))
<1> DEFINE P == {k \in Octet : mul(Twice(a), k) = Twice(mul(a, k))}
<1>1. 0 \in Octet /\ Twice(0) = 0 /\ Twice(a) \in Octet
  <2>1. 0 \in Octet
    BY DEF Octet
  <2> QED
    BY <2>1, TwiceIs, TwiceIsOctet
<1>2. 0 \in P
  BY <1>1, MulIs
<1>3. ASSUME NEW k \in 1..255, k \div 2 \in P  PROVE k \in P
  <2> DEFINE h == k \div 2
             u == mul(a, h)
             x == IfOdd(k, a)
  <2>1. k \in Octet
    BY DEF Octet
  <2>2. h \in Octet /\ u \in Octet /\ mul(Twice(a), h) = Twice(u) /\ Twice(u) \in Octet
    BY <1>3, <2>1, MulIs, TwiceIsOctet
  <2>3. x \in Octet /\ IfOdd(k, Twice(a)) = Twice(x)
    BY <1>1, <2>1, IfOddIs DEF IfOdd
  <2>4. /\ mul(Twice(a), k) = xor(Twice(mul(Twice(a), h)), IfOdd(k, Twice(a)))
        /\ mul(a, k) = xor(Twice(u), x)
    BY <1>1, <2>1, MulIs
  <2> HIDE DEF h, u, x
  <2>5. Twice(xor(Twice(u), x)) = xor(Twice(Twice(u)), Twice(x))
    BY <2>2, <2>3, TwiceLinear
  <2> QED
    BY <2>1, <2>2, <2>3, <2>4, <2>5
<1> HIDE DEF P
<1>4. Octet \subseteq P
  BY <1>2, <1>3, HalvingInduction
<1> QED
  BY <1>4 DEF P

\* A byte times zero, on either side.
LEMMA MulZero ==
    ASSUME NEW b \in Octet
    PROVE  mul(b, 0) = 0 /\ mul(0, b) = 0
<1>1. 0 \in Octet /\ 1 \in Octet
  BY DEF Octet
<1>2. xor(0, 0) = 0 /\ mul(0, b) \in Octet /\ mul(b, 0) = 0
  BY <1>1, MulIs, XorGroup
<1>3. mul(0, b) = xor(mul(0, b), mul(0, b))
  BY <1>1, <1>2, MulLeftLinear
<1> QED
  BY <1>2, <1>3, XorGroup

\* x^8 = x^7 + x^6 + x + 1, as a statement about one byte.
Reduces(a) == Twice(mul(a, 128)) = mul(a, 195)

\* It holds for sums of bytes for which it holds,
LEMMA ReducesSum ==
    ASSUME NEW a \in Octet, NEW b \in Octet, Reduces(a), Reduces(b)
    PROVE  Reduces(xor(a, b))
<1>1. 128 \in Octet /\ 195 \in Octet
  BY DEF Octet
<1>2. /\ mul(xor(a, b), 128) = xor(mul(a, 128), mul(b, 128))
      /\ mul(xor(a, b), 195) = xor(mul(a, 195), mul(b, 195))
  BY <1>1, MulLeftLinear
<1>3. mul(a, 128) \in Octet /\ mul(b, 128) \in Octet
  BY <1>1, MulIs
<1>4. Twice(xor(mul(a, 128), mul(b, 128))) = xor(Twice(mul(a, 128)), Twice(mul(b, 128)))
  BY <1>3, TwiceLinear
<1> QED
  BY <1>2, <1>4 DEF Reduces

\* for x times such a byte,
LEMMA ReducesTwice ==
    ASSUME NEW a \in Octet, Reduces(a)
    PROVE  Reduces(Twice(a))
<1>1. 128 \in Octet /\ 195 \in Octet
  BY DEF Octet
<1>2. mul(Twice(a), 128) = Twice(mul(a, 128)) /\ mul(Twice(a), 195) = Twice(mul(a, 195))
  BY <1>1, MulTwiceLeft
<1> QED
  BY <1>2 DEF Reduces

\* for one, and so for every byte.
LEMMA EveryByteReduces ==
    ASSUME NEW a \in Octet
    PROVE  Reduces(a)
<1> DEFINE P == {k \in Octet : Reduces(k)}
<1>1. 0 \in Octet /\ 1 \in Octet /\ 128 \in Octet /\ 195 \in Octet
  BY DEF Octet
<1>2. Reduces(1)
  <2>1. mul(1, 128) = 128 /\ mul(1, 195) = 195
    BY <1>1, MulOne
  <2>2. Twice(128) = xor(0, 195)
    <3>1. 2 * (128 - 128) = 0
      OBVIOUS
    <3> QED
      BY <1>1, <3>1, TwiceIs
  <2> QED
    BY <1>1, <2>1, <2>2, XorGroup DEF Reduces
<1>3. Reduces(0)
  <2>1. xor(1, 1) = 0
    BY <1>1, XorGroup
  <2> QED
    BY <1>1, <1>2, <2>1, ReducesSum
<1>4. ASSUME NEW k \in 1..255, k \div 2 \in P  PROVE k \in P
  <2>1. k \in Octet
    BY DEF Octet
  <2>2. k \div 2 \in Octet /\ Reduces(k \div 2) /\ k = xor(Twice(k \div 2), IfOdd(k, 1))
    BY <1>4, <2>1, FromHalf
  <2>3. Twice(k \div 2) \in Octet /\ Reduces(Twice(k \div 2))
    BY <2>2, ReducesTwice, TwiceIsOctet
  <2>4. IfOdd(k, 1) \in Octet /\ Reduces(IfOdd(k, 1))
    BY <1>1, <1>2, <1>3 DEF IfOdd
  <2>5. Reduces(xor(Twice(k \div 2), IfOdd(k, 1)))
    BY <2>3, <2>4, ReducesSum
  <2> QED
    BY <2>1, <2>2, <2>5
<1>5. 0 \in P
  BY <1>1, <1>3
<1> HIDE DEF P
<1>6. Octet \subseteq P
  BY <1>4, <1>5, HalvingInduction
<1> QED
  BY <1>6 DEF P

\* x can be taken out of the second argument.
LEMMA MulTwiceRight ==
    ASSUME NEW a \in Octet, NEW b \in Octet
    PROVE  mul(a, Twice(b)) = Twice(mul(a, b))
<1>1. \A d \in Octet : d < 128 => mul(a, 2 * d) = Twice(mul(a, d))
  <2> SUFFICES ASSUME NEW d \in Octet, d < 128  PROVE mul(a, 2 * d) = Twice(mul(a, d))
    OBVIOUS
  <2>1. /\ d \in Nat /\ 2 * d \in Octet /\ (2 * d) \div 2 = d /\ IfOdd(2 * d, a) = 0
    BY DEF Octet, IfOdd
  <2>2. mul(a, 2 * d) = xor(Twice(mul(a, d)), 0)
    BY <2>1, MulIs
  <2>3. Twice(mul(a, d)) \in Octet
    BY MulIs, TwiceIsOctet
  <2> QED
    BY <2>2, <2>3, XorGroup
<1>2. CASE b < 128
  BY <1>1, <1>2, TwiceIs
<1>3. CASE ~(b < 128)
  <2> DEFINE d == b - 128
  <2>1. /\ d \in Octet /\ d < 128 /\ b = xor(128, d)
        /\ 2 * d \in Octet /\ Twice(b) = xor(2 * d, 195)
    BY <1>3, OtherBits
  <2> HIDE DEF d
  <2>2. 128 \in Octet /\ 195 \in Octet
    BY DEF Octet
  <2>3. mul(a, Twice(b)) = xor(mul(a, 2 * d), mul(a, 195))
    BY <2>1, <2>2, MulRightLinear
  <2>4. mul(a, 2 * d) = Twice(mul(a, d)) /\ mul(a, 195) = Twice(mul(a, 128))
    BY <1>1, <2>1, EveryByteReduces DEF Reduces
  <2>5. mul(a, d) \in Octet /\ mul(a, 128) \in Octet
    BY <2>1, <2>2, MulIs
  <2>6. mul(a, b) = xor(mul(a, 128), mul(a, d))
    BY <2>1, <2>2, MulRightLinear
  <2>7. Twice(mul(a, b)) = xor(Twice(mul(a, 128)), Twice(mul(a, d)))
    BY <2>5, <2>6, TwiceLinear
  <2>8. Twice(mul(a, 128)) \in Octet /\ Twice(mul(a, d)) \in Octet
    BY <2>5, TwiceIsOctet
  <2> QED
    BY <2>3, <2>4, <2>7, <2>8, XorGroup
<1> QED
  BY <1>2, <1>3

\* Multiplication is associative.
LEMMA MulAssociative ==
    ASSUME NEW a \in Octet, NEW d \in Octet, NEW b \in Octet
    PROVE  mul(a, mul(d, b)) = mul(mul(a, d), b)
<1> DEFINE P == {k \in Octet : mul(a, mul(d, k)) = mul(mul(a, d), k)}
<1>1. 0 \in Octet /\ mul(a, d) \in Octet
  <2>1. 0 \in Octet
    BY DEF Octet
  <2> QED
    BY <2>1, MulIs
<1>2. 0 \in P
  BY <1>1, MulIs
<1>3. ASSUME NEW k \in 1..255, k \div 2 \in P  PROVE k \in P
  <2> DEFINE h == k \div 2
             u == mul(d, h)
             x == IfOdd(k, d)
  <2>1. k \in Octet
    BY DEF Octet
  <2>2. h \in Octet /\ u \in Octet /\ mul(a, u) = mul(mul(a, d), h)
    BY <1>3, <2>1, MulIs
  <2>3. x \in Octet
    BY <2>1, IfOddIs
  <2>4. mul(a, x) = IfOdd(k, mul(a, d))
    BY MulIs DEF IfOdd
  <2>5. /\ mul(d, k) = xor(Twice(u), x)
        /\ mul(mul(a, d), k) = xor(Twice(mul(mul(a, d), h)), IfOdd(k, mul(a, d)))
    BY <1>1, <2>1, MulIs
  <2> HIDE DEF h, u, x
  <2>6. mul(a, xor(Twice(u), x)) = xor(mul(a, Twice(u)), mul(a, x))
    BY <2>2, <2>3, TwiceIsOctet, MulRightLinear
  <2>7. mul(a, Twice(u)) = Twice(mul(a, u))
    BY <2>2, MulTwiceRight
  <2> QED
    BY <2>1, <2>2, <2>4, <2>5, <2>6, <2>7
<1> HIDE DEF P
<1>4. Octet \subseteq P
  BY <1>2, <1>3, HalvingInduction
<1> QED
  BY <1>4 DEF P

-----------------------------------------------------------------------------
(* Blocks, and sums of products. *)

\* The blocks of the cipher are sequences of 16 bytes.
LEMMA Blocks128 ==
    ASSUME NEW x \in Block128
    PROVE  /\ x \in Seq(Octet) /\ Len(x) = 16 /\ x = [i \in Positions |-> x[i]]
           /\ \A i \in 1..16 : x[i] \in Octet
<1>2. x \in [1..16 -> Octet]
  BY DEF Block128, Positions
<1>1. x \in Seq(Octet) /\ Len(x) = 16
  <2>1. \A n \in Nat : x \in [1..n -> Octet] => x \in Seq(Octet) /\ Len(x) = n
    BY FunctionIsSequence
  <2> QED
    BY <1>2, <2>1
<1>3. x = [i \in Positions |-> x[i]]
  BY <1>2 DEF Positions
<1> QED
  BY <1>1, <1>2, <1>3

\* They are equal if their bytes are.
LEMMA EqualBlocks128 ==
    ASSUME NEW x \in Block128, NEW y \in Block128, \A i \in 1..16 : x[i] = y[i]
    PROVE  x = y
  BY DEF Block128, Positions

\* xorBytes on them.
LEMMA XorBlocks128 ==
    ASSUME NEW x \in Block128, NEW y \in Block128
    PROVE  /\ xorBytes(x, y) \in Block128
           /\ \A i \in 1..16 : xorBytes(x, y)[i] = xor(x[i], y[i])
<1>1. Len(x) = 16 /\ \A i \in 1..16 : x[i] \in Octet /\ y[i] \in Octet
  BY Blocks128
<1>2. xorBytes(x, y) = [i \in 1..16 |-> xor(x[i], y[i])]
  BY <1>1 DEF xorBytes, Tabulate
<1>3. \A i \in 1..16 : xor(x[i], y[i]) \in Octet
  BY <1>1, XorAlgebra
<1> QED
  BY <1>2, <1>3 DEF Block128, Positions

IsXorAll(sum, x) ==
    /\ sum \in [0..16 -> Octet] /\ sum[0] = 0
    /\ \A i \in 1..16 : sum[i] = xor(x[i], sum[i - 1])
XorAllStep(sum, x) == [i \in 0..16 |-> IF i = 0 THEN 0 ELSE xor(x[i], sum[i - 1])]

\* The sums that XorAll goes through.
LEMMA XorAllIs ==
    ASSUME NEW x \in Block128
    PROVE  \E sum : IsXorAll(sum, x) /\ XorAll(x) = sum[16]
<1> DEFINE g == [k \in Nat |-> [a \in Octet |-> IF k \in 1..16 THEN xor(x[k], a) ELSE a]]
           choice == CHOOSE sum : sum = XorAllStep(sum, x)
<1>1. \A i \in 1..16 : x[i] \in Octet
  BY Blocks128
<1>2. 0 \in Octet
  BY DEF Octet
<1>3. \A k \in 1..16, a \in Octet : xor(x[k], a) \in Octet
  BY <1>1, XorAlgebra
<1>4. IsStep(g, Octet)
  BY <1>3 DEF IsStep
<1>5. \A k \in 1..16, a \in Octet : g[k][a] = xor(x[k], a)
  OBVIOUS
<1> HIDE DEF g
<1>6. PICK h : IsIterated(h, 16, 0, g, Octet)
  BY <1>2, <1>4, Recursion
<1>7. h \in [0..16 -> Octet] /\ h[0] = 0 /\ \A i \in 1..16 : h[i] = xor(x[i], h[i - 1])
  BY <1>5, <1>6 DEF IsIterated
<1>8. h = XorAllStep(h, x)
  BY <1>7 DEF XorAllStep
<1>9. choice = XorAllStep(choice, x)
  BY <1>8
<1> HIDE DEF choice
<1>10. choice[0] = 0 /\ \A i \in 1..16 : choice[i] = xor(x[i], choice[i - 1])
  BY <1>9 DEF XorAllStep
<1>11. \A n \in 0..16 : choice[n] = h[n]
  BY <1>7, <1>10, SameRecursion
<1>12. choice = h
  BY <1>7, <1>9, <1>11 DEF XorAllStep
<1>13. XorAll(x) = choice[16]
  BY DEF XorAll, XorAllStep, choice
<1> QED
  BY <1>7, <1>12, <1>13 DEF IsXorAll

\* A block times a byte.
Times(x, b) == [i \in Positions |-> mul(x[i], b)]

\* It is a block.
LEMMA TimesIs ==
    ASSUME NEW x \in Block128, NEW b \in Octet
    PROVE  Times(x, b) \in Block128 /\ \A i \in 1..16 : Times(x, b)[i] = mul(x[i], b)
<1>1. \A i \in 1..16 : mul(x[i], b) \in Octet
  BY Blocks128, MulIs
<1> QED
  BY <1>1 DEF Times, Block128, Positions

\* XorAll is linear.
LEMMA XorAllLinear ==
    ASSUME NEW x \in Block128, NEW y \in Block128, NEW b \in Octet
    PROVE  /\ XorAll(x) \in Octet
           /\ XorAll(xorBytes(x, y)) = xor(XorAll(x), XorAll(y))
           /\ XorAll(Times(x, b)) = mul(XorAll(x), b)
<1> DEFINE z == xorBytes(x, y)
           w == Times(x, b)
<1>1. z \in Block128 /\ \A i \in 1..16 : z[i] = xor(x[i], y[i])
  BY XorBlocks128
<1>2. w \in Block128 /\ \A i \in 1..16 : w[i] = mul(x[i], b)
  BY TimesIs
<1>3. \A i \in 1..16 : x[i] \in Octet /\ y[i] \in Octet
  BY Blocks128
<1> HIDE DEF z, w
<1>4. PICK p : IsXorAll(p, x) /\ XorAll(x) = p[16]
  BY XorAllIs
<1>5. PICK q : IsXorAll(q, y) /\ XorAll(y) = q[16]
  BY XorAllIs
<1>6. PICK r : IsXorAll(r, z) /\ XorAll(z) = r[16]
  BY <1>1, XorAllIs
<1>7. PICK u : IsXorAll(u, w) /\ XorAll(w) = u[16]
  BY <1>2, XorAllIs
<1> DEFINE P == {n \in Nat : n <= 16 => r[n] = xor(p[n], q[n]) /\ u[n] = mul(p[n], b)}
<1>8. 0 \in P
  <2>1. 0 \in Octet
    BY DEF Octet
  <2>2. p[0] = 0 /\ q[0] = 0 /\ r[0] = 0 /\ u[0] = 0
    BY <1>4, <1>5, <1>6, <1>7 DEF IsXorAll
  <2>3. mul(0, b) = 0
    BY MulZero
  <2> QED
    BY <2>1, <2>2, <2>3, XorGroup
<1>9. ASSUME NEW n \in Nat, n \in P  PROVE n + 1 \in P
  <2> SUFFICES ASSUME n + 1 <= 16
               PROVE  r[n + 1] = xor(p[n + 1], q[n + 1]) /\ u[n + 1] = mul(p[n + 1], b)
    OBVIOUS
  <2>1. n + 1 \in 1..16 /\ (n + 1) - 1 = n /\ n \in 0..16
    OBVIOUS
  <2>2. /\ p[n] \in Octet /\ q[n] \in Octet
        /\ p[n + 1] = xor(x[n + 1], p[n]) /\ q[n + 1] = xor(y[n + 1], q[n])
        /\ r[n + 1] = xor(z[n + 1], r[n]) /\ u[n + 1] = xor(w[n + 1], u[n])
    BY <1>4, <1>5, <1>6, <1>7, <2>1 DEF IsXorAll
  <2>3. r[n] = xor(p[n], q[n]) /\ u[n] = mul(p[n], b)
    BY <1>9
  <2>4. x[n + 1] \in Octet /\ y[n + 1] \in Octet /\ p[n] \in Octet /\ q[n] \in Octet
    BY <1>3, <2>1, <2>2
  <2>5. xor(xor(x[n + 1], y[n + 1]), xor(p[n], q[n]))
          = xor(xor(x[n + 1], p[n]), xor(y[n + 1], q[n]))
    <3> HIDE DEF P
    <3>1. \A a1, a2, a3, a4 \in Octet :
            xor(xor(a1, a2), xor(a3, a4)) = xor(xor(a1, a3), xor(a2, a4))
      BY XorGroup
    <3> QED
      BY <2>4, <3>1
  <2>6. mul(xor(x[n + 1], p[n]), b) = xor(mul(x[n + 1], b), mul(p[n], b))
    BY <2>4, MulLeftLinear
  <2> QED
    BY <1>1, <1>2, <2>1, <2>2, <2>3, <2>5, <2>6
<1> HIDE DEF P
<1>10. Nat \subseteq P
  BY <1>8, <1>9, Induction
<1>11. r[16] = xor(p[16], q[16]) /\ u[16] = mul(p[16], b)
  BY <1>10 DEF P
<1>12. p[16] \in Octet
  BY <1>4 DEF IsXorAll
<1> QED
  BY <1>4, <1>5, <1>6, <1>7, <1>11, <1>12 DEF z, w

-----------------------------------------------------------------------------
(* The shift register. *)

\* A position is the first or follows one of the first 15, and it is the last or one
\* of these.
LEMMA PositionCases ==
    /\ \A i \in 1..15 : i \in 1..16 /\ i + 1 \in 1..16
    /\ \A i \in 1..16 : i \in 1..15 \/ i = 16
    /\ \A i \in 1..16 : i = 1 \/ \E k \in 1..15 : i = k + 1
<1>1. /\ \A i \in 1..15 : i \in 1..16 /\ i + 1 \in 1..16
      /\ \A i \in 1..16 : i \in 1..15 \/ i = 16
  OBVIOUS
<1>2. ASSUME NEW i \in 1..16, i # 1  PROVE \E k \in 1..15 : i = k + 1
  <2>1. i - 1 \in 1..15 /\ i = (i - 1) + 1
    BY <1>2
  <2> QED
    BY <2>1
<1> QED
  BY <1>1, <1>2

\* The terms of the sum l.
Weighted(x) == Tabulate(LAMBDA i : mul(lCoefficients[i], x[i]), 16)

\* Their coefficients; the last is one.
LEMMA Coefficients == lCoefficients[16] = 1 /\ \A i \in 1..16 : lCoefficients[i] \in Octet
  BY DEF lCoefficients, Octet

\* They are a block.
LEMMA WeightedIs ==
    ASSUME NEW x \in Block128
    PROVE  /\ Weighted(x) \in Block128
           /\ \A i \in 1..16 : Weighted(x)[i] = mul(lCoefficients[i], x[i])
<1>1. \A i \in 1..16 : mul(lCoefficients[i], x[i]) \in Octet
  BY Blocks128, Coefficients, MulIs
<1>2. Weighted(x) = [i \in 1..16 |-> mul(lCoefficients[i], x[i])]
  BY DEF Weighted, Tabulate
<1> QED
  BY <1>1, <1>2 DEF Block128, Positions

\* l is linear.
LEMMA LIsLinear ==
    ASSUME NEW x \in Block128, NEW y \in Block128, NEW b \in Octet
    PROVE  /\ l(x) \in Octet
           /\ l(xorBytes(x, y)) = xor(l(x), l(y))
           /\ l(Times(x, b)) = mul(l(x), b)
<1>1. /\ Weighted(x) \in Block128 /\ Weighted(y) \in Block128
      /\ \A i \in 1..16 : /\ Weighted(x)[i] = mul(lCoefficients[i], x[i])
                          /\ Weighted(y)[i] = mul(lCoefficients[i], y[i])
  BY WeightedIs
<1>2. \A i \in 1..16 : x[i] \in Octet /\ y[i] \in Octet /\ lCoefficients[i] \in Octet
  BY Blocks128, Coefficients
<1>3. Weighted(xorBytes(x, y)) = xorBytes(Weighted(x), Weighted(y))
  <2>1. xorBytes(x, y) \in Block128 /\ \A i \in 1..16 : xorBytes(x, y)[i] = xor(x[i], y[i])
    BY XorBlocks128
  <2>2. /\ xorBytes(Weighted(x), Weighted(y)) \in Block128
        /\ \A i \in 1..16 : xorBytes(Weighted(x), Weighted(y))[i]
                              = xor(Weighted(x)[i], Weighted(y)[i])
    BY <1>1, XorBlocks128
  <2>3. /\ Weighted(xorBytes(x, y)) \in Block128
        /\ \A i \in 1..16 : Weighted(xorBytes(x, y))[i]
                              = mul(lCoefficients[i], xorBytes(x, y)[i])
    BY <2>1, WeightedIs
  <2>4. \A i \in 1..16 : mul(lCoefficients[i], xor(x[i], y[i]))
                           = xor(mul(lCoefficients[i], x[i]), mul(lCoefficients[i], y[i]))
    BY <1>2, MulRightLinear
  <2>5. \A i \in 1..16 : Weighted(xorBytes(x, y))[i] = xorBytes(Weighted(x), Weighted(y))[i]
    BY <1>1, <2>1, <2>2, <2>3, <2>4
  <2> QED
    BY <2>2, <2>3, <2>5, EqualBlocks128
<1>4. Weighted(Times(x, b)) = Times(Weighted(x), b)
  <2>1. Times(x, b) \in Block128 /\ \A i \in 1..16 : Times(x, b)[i] = mul(x[i], b)
    BY TimesIs
  <2>2. /\ Times(Weighted(x), b) \in Block128
        /\ \A i \in 1..16 : Times(Weighted(x), b)[i] = mul(Weighted(x)[i], b)
    BY <1>1, TimesIs
  <2>3. /\ Weighted(Times(x, b)) \in Block128
        /\ \A i \in 1..16 : Weighted(Times(x, b))[i] = mul(lCoefficients[i], Times(x, b)[i])
    BY <2>1, WeightedIs
  <2>4. \A i \in 1..16 : mul(lCoefficients[i], mul(x[i], b)) = mul(mul(lCoefficients[i], x[i]), b)
    BY <1>2, MulAssociative
  <2>5. \A i \in 1..16 : Weighted(Times(x, b))[i] = Times(Weighted(x), b)[i]
    BY <1>1, <2>1, <2>2, <2>3, <2>4
  <2> QED
    BY <2>2, <2>3, <2>5, EqualBlocks128
<1>5. \A z : l(z) = XorAll(Weighted(z))
  BY DEF l, Weighted
<1> QED
  BY <1>1, <1>3, <1>4, <1>5, XorAllLinear

\* The last byte of a block is a term of l, and no other term depends on it.
LEMMA LLastByte ==
    ASSUME NEW x \in Block128, NEW y \in Block128, \A i \in 1..15 : x[i] = y[i]
    PROVE  \E a \in Octet : l(x) = xor(x[16], a) /\ l(y) = xor(y[16], a)
<1> DEFINE v == Weighted(x)
           w == Weighted(y)
<1>1. /\ v \in Block128 /\ w \in Block128
      /\ \A i \in 1..16 : v[i] = mul(lCoefficients[i], x[i]) /\ w[i] = mul(lCoefficients[i], y[i])
  BY WeightedIs
<1>2. v[16] = x[16] /\ w[16] = y[16] /\ \A i \in 1..15 : v[i] = w[i]
  <2>1. 16 \in 1..16 /\ \A i \in 1..15 : i \in 1..16
    OBVIOUS
  <2>2. x[16] \in Octet /\ y[16] \in Octet
    BY <2>1, Blocks128
  <2>3. mul(1, x[16]) = x[16] /\ mul(1, y[16]) = y[16]
    BY <2>2, MulOne
  <2> QED
    BY <1>1, <2>1, <2>3, Coefficients
<1>3. l(x) = XorAll(v) /\ l(y) = XorAll(w)
  BY DEF l, Weighted
<1> HIDE DEF v, w
<1>4. PICK p : IsXorAll(p, v) /\ XorAll(v) = p[16]
  BY <1>1, XorAllIs
<1>5. PICK q : IsXorAll(q, w) /\ XorAll(w) = q[16]
  BY <1>1, XorAllIs
<1> DEFINE P == {n \in Nat : n <= 15 => p[n] = q[n]}
<1>6. 0 \in P
  BY <1>4, <1>5 DEF IsXorAll
<1>7. ASSUME NEW n \in Nat, n \in P  PROVE n + 1 \in P
  <2> SUFFICES ASSUME n + 1 <= 15  PROVE p[n + 1] = q[n + 1]
    OBVIOUS
  <2>1. n + 1 \in 1..15 /\ n + 1 \in 1..16 /\ (n + 1) - 1 = n /\ p[n] = q[n]
    BY <1>7
  <2> QED
    BY <1>2, <1>4, <1>5, <2>1 DEF IsXorAll
<1> HIDE DEF P
<1>8. Nat \subseteq P
  BY <1>6, <1>7, Induction
<1>9. p[15] = q[15]
  BY <1>8 DEF P
<1>10. p[15] \in Octet /\ p[16] = xor(v[16], p[15]) /\ q[16] = xor(w[16], q[15])
  <2>1. 15 \in 0..16 /\ 16 \in 1..16 /\ 16 - 1 = 15
    OBVIOUS
  <2> QED
    BY <1>4, <1>5, <2>1 DEF IsXorAll
<1> QED
  BY <1>2, <1>3, <1>4, <1>5, <1>9, <1>10

\* l of a block is a byte.
LEMMA LIsOctet ==
    ASSUME NEW x \in Block128
    PROVE  l(x) \in Octet
<1>1. 0 \in Octet
  BY DEF Octet
<1> QED
  BY <1>1, LIsLinear

\* The same for blocks.
LEMMA PartsOfBlock ==
    ASSUME NEW x \in Block128
    PROVE  /\ SubSeq(x, 1, 15) \in Seq(Octet) /\ Len(SubSeq(x, 1, 15)) = 15
           /\ \A i \in 1..15 : SubSeq(x, 1, 15)[i] = x[i]
           /\ Tail(x) \in Seq(Octet) /\ Len(Tail(x)) = 15
           /\ \A i \in 1..15 : Tail(x)[i] = x[i + 1]
           /\ x[1] \in Octet /\ Head(x) = x[1]
<1>1. x \in Seq(Octet) /\ Len(x) = 15 + 1 /\ 15 \in Nat
  BY Blocks128
<1> QED
  BY <1>1, PartsOfSequence

\* LStep is a block of 15 bytes of another and one more.
LEMMA LStepIs ==
    ASSUME NEW x \in Block128
    PROVE  /\ LStep(x) \in Block128 /\ LStep(x)[1] = l(x)
           /\ \A i \in 1..15 : LStep(x)[i + 1] = x[i]
<1>1. x \in Seq(Octet) /\ Len(x) = 16 /\ l(x) \in Octet
  BY Blocks128, LIsLinear
<1> DEFINE d == l(x)
<1>2. LStep(x) = <<d>> \o SubSeq(x, 1, 15)
  BY DEF LStep
<1> HIDE DEF d
<1>3. d \in Octet
  BY <1>1 DEF d
<1>4. SubSeq(x, 1, 15) \in Seq(Octet) /\ Len(SubSeq(x, 1, 15)) = 15
  BY PartsOfBlock
<1>5. \A i \in 1..15 : SubSeq(x, 1, 15)[i] = x[i]
  BY PartsOfBlock
<1>6. LStep(x) \in Seq(Octet) /\ Len(LStep(x)) = 16
  BY <1>2, <1>3, <1>4
<1>7. LStep(x)[1] = d /\ \A i \in 1..15 : LStep(x)[i + 1] = x[i]
  BY <1>2, <1>3, <1>4, <1>5
<1> QED
  BY <1>6, <1>7 DEF d, Block128, Positions

\* A block of 15 bytes and one more.
LEMMA SixteenthByte ==
    ASSUME NEW x \in Seq(Octet), Len(x) = 15, NEW d \in Octet
    PROVE  /\ x \o <<d>> \in Block128
           /\ (x \o <<d>>)[16] = d /\ \A i \in 1..15 : (x \o <<d>>)[i] = x[i]
<1>1. \A n, m \in Nat : Len(x) = n /\ m = n + 1 =>
            /\ x \o <<d>> \in [1..m -> Octet] /\ (x \o <<d>>)[m] = d
            /\ \A i \in 1..n : (x \o <<d>>)[i] = x[i]
  BY OneMore
<1>2. 15 \in Nat /\ 16 \in Nat /\ 16 = 15 + 1
  OBVIOUS
<1> HIDE DEF Octet
<1> QED
  BY <1>1, <1>2 DEF Block128, Positions

\* The block whose first byte has become its last.
Rotated(x) == Tail(x) \o <<Head(x)>>

\* Its bytes.
LEMMA RotatedIs ==
    ASSUME NEW x \in Block128
    PROVE  /\ Rotated(x) \in Block128 /\ Rotated(x)[16] = x[1]
           /\ \A i \in 1..15 : Rotated(x)[i] = x[i + 1]
<1>1. Head(x) = x[1] /\ x[1] \in Octet
  BY PartsOfBlock
<1>2. Tail(x) \in Seq(Octet) /\ Len(Tail(x)) = 15 /\ \A i \in 1..15 : Tail(x)[i] = x[i + 1]
  BY PartsOfBlock
<1>3. Rotated(x) = Tail(x) \o <<x[1]>>
  BY <1>1 DEF Rotated
<1> DEFINE e == Tail(x)
           d == x[1]
           y == e \o <<d>>
<1>4. e \in Seq(Octet) /\ Len(e) = 15 /\ d \in Octet
  BY <1>1, <1>2
<1> HIDE DEF e, d
<1>5. y \in Block128 /\ y[16] = d /\ \A i \in 1..15 : y[i] = e[i]
  BY <1>4, SixteenthByte
<1>6. Rotated(x) = y
  BY <1>3 DEF e, d
<1> HIDE DEF y
<1> QED
  BY <1>2, <1>5, <1>6 DEF e, d

\* LStepBack, the same.
LEMMA LStepBackIs ==
    ASSUME NEW x \in Block128
    PROVE  /\ LStepBack(x) \in Block128 /\ LStepBack(x)[16] = l(Rotated(x))
           /\ \A i \in 1..15 : LStepBack(x)[i] = x[i + 1]
<1>1. Rotated(x) \in Block128
  BY RotatedIs
<1>2. l(Rotated(x)) \in Octet
  BY <1>1, LIsOctet
<1>3. Tail(x) \in Seq(Octet) /\ Len(Tail(x)) = 15 /\ \A i \in 1..15 : Tail(x)[i] = x[i + 1]
  BY PartsOfBlock
<1>4. LStepBack(x) = Tail(x) \o <<l(Rotated(x))>>
  BY DEF LStepBack, Rotated
<1> DEFINE e == Tail(x)
           d == l(Rotated(x))
           y == e \o <<d>>
<1>5. e \in Seq(Octet) /\ Len(e) = 15 /\ d \in Octet
  BY <1>2, <1>3
<1>6. LStepBack(x) = y
  BY <1>4
<1> HIDE DEF e, d
<1>7. y \in Block128 /\ y[16] = d /\ \A i \in 1..15 : y[i] = e[i]
  BY <1>5, SixteenthByte
<1> HIDE DEF y
<1> QED
  BY <1>3, <1>6, <1>7 DEF e, d

\* The two steps undo each other.
LEMMA LStepsInverse ==
    ASSUME NEW x \in Block128
    PROVE  LStepBack(LStep(x)) = x /\ LStep(LStepBack(x)) = x
<1>1. LStepBack(LStep(x)) = x
  <2> DEFINE y == LStep(x)
             z == Rotated(y)
             u == LStepBack(y)
  <2>1. y \in Block128 /\ y[1] = l(x) /\ \A i \in 1..15 : y[i + 1] = x[i]
    BY LStepIs
  <2>2. z \in Block128 /\ z[16] = y[1] /\ \A i \in 1..15 : z[i] = y[i + 1]
    BY <2>1, RotatedIs
  <2>3. u \in Block128 /\ u[16] = l(z) /\ \A i \in 1..15 : u[i] = y[i + 1]
    BY <2>1, LStepBackIs
  <2> HIDE DEF y, z, u
  <2>4. \A i \in 1..15 : x[i] = z[i]
    BY <2>1, <2>2
  <2>5. PICK a \in Octet : l(x) = xor(x[16], a) /\ l(z) = xor(z[16], a)
    BY <2>2, <2>4, LLastByte
  <2>6. x[16] \in Octet
    BY 16 \in 1..16, Blocks128
  <2>7. xor(xor(x[16], a), a) = x[16]
    BY <2>6, XorGroup
  <2>8. u[16] = x[16]
    BY <2>1, <2>2, <2>3, <2>5, <2>7
  <2>9. \A i \in 1..16 : u[i] = x[i]
    BY <2>1, <2>3, <2>8, PositionCases
  <2> QED
    BY <2>3, <2>9, EqualBlocks128 DEF u, y
<1>2. LStep(LStepBack(x)) = x
  <2> DEFINE z == Rotated(x)
             y == LStepBack(x)
             u == LStep(y)
  <2>1. z \in Block128 /\ z[16] = x[1] /\ \A i \in 1..15 : z[i] = x[i + 1]
    BY RotatedIs
  <2>2. y \in Block128 /\ y[16] = l(z) /\ \A i \in 1..15 : y[i] = x[i + 1]
    BY LStepBackIs
  <2>3. u \in Block128 /\ u[1] = l(y) /\ \A i \in 1..15 : u[i + 1] = y[i]
    BY <2>2, LStepIs
  <2> HIDE DEF y, z, u
  <2>4. \A i \in 1..15 : y[i] = z[i]
    BY <2>1, <2>2
  <2>5. PICK a \in Octet : l(y) = xor(y[16], a) /\ l(z) = xor(z[16], a)
    BY <2>1, <2>2, <2>4, LLastByte
  <2>6. z[16] \in Octet
    BY <2>1, 16 \in 1..16, Blocks128
  <2>7. xor(xor(z[16], a), a) = z[16]
    BY <2>6, XorGroup
  <2>8. u[1] = x[1]
    BY <2>1, <2>2, <2>3, <2>5, <2>7
  <2>9. \A i \in 1..16 : u[i] = x[i]
    BY <2>2, <2>3, <2>8, PositionCases
  <2> QED
    BY <2>3, <2>9, EqualBlocks128 DEF u, y
<1> QED
  BY <1>1, <1>2

\* Both steps are linear.
LEMMA LStepLinear ==
    ASSUME NEW x \in Block128, NEW y \in Block128, NEW b \in Octet
    PROVE  /\ LStep(xorBytes(x, y)) = xorBytes(LStep(x), LStep(y))
           /\ LStep(Times(x, b)) = Times(LStep(x), b)
<1>1. LStep(x) \in Block128 /\ LStep(x)[1] = l(x) /\ \A i \in 1..15 : LStep(x)[i + 1] = x[i]
  BY LStepIs
<1>2. LStep(y) \in Block128 /\ LStep(y)[1] = l(y) /\ \A i \in 1..15 : LStep(y)[i + 1] = y[i]
  BY LStepIs
<1>3. 1 \in 1..16
  OBVIOUS
<1>4. LStep(xorBytes(x, y)) = xorBytes(LStep(x), LStep(y))
  <2> DEFINE z == xorBytes(x, y)
             u == LStep(z)
             v == xorBytes(LStep(x), LStep(y))
  <2>1. z \in Block128 /\ \A i \in 1..16 : z[i] = xor(x[i], y[i])
    BY XorBlocks128
  <2>2. u \in Block128 /\ u[1] = l(z) /\ \A i \in 1..15 : u[i + 1] = z[i]
    BY <2>1, LStepIs
  <2>3. v \in Block128 /\ \A i \in 1..16 : v[i] = xor(LStep(x)[i], LStep(y)[i])
    BY <1>1, <1>2, XorBlocks128
  <2>4. l(z) = xor(l(x), l(y))
    BY LIsLinear
  <2> HIDE DEF z, u, v
  <2>5. \A i \in 1..16 : u[i] = v[i]
    BY <1>1, <1>2, <1>3, <2>1, <2>2, <2>3, <2>4, PositionCases
  <2> QED
    BY <2>2, <2>3, <2>5, EqualBlocks128 DEF u, v, z
<1>5. LStep(Times(x, b)) = Times(LStep(x), b)
  <2> DEFINE z == Times(x, b)
             u == LStep(z)
             v == Times(LStep(x), b)
  <2>1. z \in Block128 /\ \A i \in 1..16 : z[i] = mul(x[i], b)
    BY TimesIs
  <2>2. u \in Block128 /\ u[1] = l(z) /\ \A i \in 1..15 : u[i + 1] = z[i]
    BY <2>1, LStepIs
  <2>3. v \in Block128 /\ \A i \in 1..16 : v[i] = mul(LStep(x)[i], b)
    BY <1>1, TimesIs
  <2>4. l(z) = mul(l(x), b)
    BY LIsLinear
  <2> HIDE DEF z, u, v
  <2>5. \A i \in 1..16 : u[i] = v[i]
    BY <1>1, <1>3, <2>1, <2>2, <2>3, <2>4, PositionCases
  <2> QED
    BY <2>2, <2>3, <2>5, EqualBlocks128 DEF u, v, z
<1> QED
  BY <1>4, <1>5

\* LStepBack is linear because it undoes LStep, which is.
LEMMA LStepBackLinear ==
    ASSUME NEW x \in Block128, NEW y \in Block128, NEW b \in Octet
    PROVE  /\ LStepBack(xorBytes(x, y)) = xorBytes(LStepBack(x), LStepBack(y))
           /\ LStepBack(Times(x, b)) = Times(LStepBack(x), b)
<1>1. LStepBack(x) \in Block128 /\ LStepBack(y) \in Block128
  BY LStepBackIs
<1>2. LStep(LStepBack(x)) = x /\ LStep(LStepBack(y)) = y
  BY LStepsInverse
<1>3. LStepBack(xorBytes(x, y)) = xorBytes(LStepBack(x), LStepBack(y))
  <2> DEFINE u == xorBytes(LStepBack(x), LStepBack(y))
  <2>1. u \in Block128
    BY <1>1, XorBlocks128
  <2>2. LStep(u) = xorBytes(LStep(LStepBack(x)), LStep(LStepBack(y)))
    BY <1>1, LStepLinear
  <2>3. LStepBack(LStep(u)) = u
    BY <2>1, LStepsInverse
  <2> QED
    BY <1>2, <2>2, <2>3
<1>4. LStepBack(Times(x, b)) = Times(LStepBack(x), b)
  <2> DEFINE u == Times(LStepBack(x), b)
  <2>1. u \in Block128
    BY <1>1, TimesIs
  <2>2. LStep(u) = Times(LStep(LStepBack(x)), b)
    BY <1>1, LStepLinear
  <2>3. LStepBack(LStep(u)) = u
    BY <2>1, LStepsInverse
  <2> QED
    BY <1>2, <2>2, <2>3
<1> QED
  BY <1>3, <1>4

\* Sixteen steps of F, from x.
IsRun(r, x, F) ==
    /\ r \in [0..16 -> Block128] /\ r[0] = x
    /\ \A k \in 1..16 : r[k] = F[r[k - 1]]

\* They exist for every F.
LEMMA RunExists ==
    ASSUME NEW F \in [Block128 -> Block128], NEW x \in Block128
    PROVE  \E r : IsRun(r, x, F)
<1> DEFINE g == [k \in Nat |-> F]
<1>1. IsStep(g, Block128) /\ \A k \in 1..16 : g[k] = F
  BY DEF IsStep
<1> HIDE DEF g
<1>2. PICK r : IsIterated(r, 16, x, g, Block128)
  BY <1>1, Recursion
<1>3. IsRun(r, x, F)
  BY <1>1, <1>2 DEF IsIterated, IsRun
<1> QED
  BY <1>3

Forward == [x \in Block128 |-> LStep(x)]
Backward == [x \in Block128 |-> LStepBack(x)]
ForwardStep(r, x) == [n \in 0..16 |-> IF n = 0 THEN x ELSE LStep(r[n - 1])]
BackwardStep(r, x) == [n \in 0..16 |-> IF n = 0 THEN x ELSE LStepBack(r[n - 1])]

\* LTransform and LInverse are such runs.
LEMMA LTransformIs ==
    ASSUME NEW x \in Block128
    PROVE  \E r : IsRun(r, x, Forward) /\ LTransform(x) = r[16]
<1> DEFINE choice == CHOOSE r : r = ForwardStep(r, x)
<1>1. Forward \in [Block128 -> Block128]
  BY LStepIs DEF Forward
<1>2. PICK r : IsRun(r, x, Forward)
  BY <1>1, RunExists
<1>3. /\ r \in [0..16 -> Block128] /\ r[0] = x
      /\ \A k \in 1..16 : k - 1 \in 0..16 /\ r[k] = Forward[r[k - 1]]
  BY <1>2 DEF IsRun
<1>4. \A k \in 1..16 : r[k] = LStep(r[k - 1])
  BY <1>3 DEF Forward
<1>5. r = ForwardStep(r, x)
  BY <1>3, <1>4 DEF ForwardStep
<1>6. choice = ForwardStep(choice, x)
  BY <1>5
<1> HIDE DEF choice
<1>7. choice[0] = x /\ \A k \in 1..16 : choice[k] = LStep(choice[k - 1])
  BY <1>6 DEF ForwardStep
<1>8. \A n \in 0..16 : choice[n] = r[n]
  BY <1>3, <1>4, <1>7, SameRecursion
<1>9. LTransform(x) = choice[16]
  BY DEF LTransform, ForwardStep, choice
<1> QED
  BY <1>2, <1>8, <1>9

\* LInverse too.
LEMMA LInverseIs ==
    ASSUME NEW x \in Block128
    PROVE  \E r : IsRun(r, x, Backward) /\ LInverse(x) = r[16]
<1> DEFINE choice == CHOOSE r : r = BackwardStep(r, x)
<1>1. Backward \in [Block128 -> Block128]
  BY LStepBackIs DEF Backward
<1>2. PICK r : IsRun(r, x, Backward)
  BY <1>1, RunExists
<1>3. /\ r \in [0..16 -> Block128] /\ r[0] = x
      /\ \A k \in 1..16 : k - 1 \in 0..16 /\ r[k] = Backward[r[k - 1]]
  BY <1>2 DEF IsRun
<1>4. \A k \in 1..16 : r[k] = LStepBack(r[k - 1])
  BY <1>3 DEF Backward
<1>5. r = BackwardStep(r, x)
  BY <1>3, <1>4 DEF BackwardStep
<1>6. choice = BackwardStep(choice, x)
  BY <1>5
<1> HIDE DEF choice
<1>7. choice[0] = x /\ \A k \in 1..16 : choice[k] = LStepBack(choice[k - 1])
  BY <1>6 DEF BackwardStep
<1>8. \A n \in 0..16 : choice[n] = r[n]
  BY <1>3, <1>4, <1>7, SameRecursion
<1>9. LInverse(x) = choice[16]
  BY DEF LInverse, BackwardStep, choice
<1> QED
  BY <1>2, <1>8, <1>9

\* A linear function on blocks.
Linear(F) ==
    /\ F \in [Block128 -> Block128]
    /\ \A x, y \in Block128 : F[xorBytes(x, y)] = xorBytes(F[x], F[y])
    /\ \A x \in Block128, b \in Octet : F[Times(x, b)] = Times(F[x], b)

\* The result of sixteen steps of a linear function is linear.
LEMMA RunSum ==
    ASSUME NEW F, Linear(F), NEW p, NEW q, NEW r,
           NEW x \in Block128, NEW y \in Block128,
           IsRun(p, x, F), IsRun(q, y, F), IsRun(r, xorBytes(x, y), F)
    PROVE  r[16] = xorBytes(p[16], q[16])
<1> DEFINE u == [n \in 0..16 |-> xorBytes(p[n], q[n])]
<1>1. \A n \in 0..16 : u[n] = xorBytes(p[n], q[n])
  OBVIOUS
<1> HIDE DEF u
<1>2. u[0] = r[0]
  BY <1>1 DEF IsRun
<1>3. ASSUME NEW k \in 1..16, u[k - 1] = r[k - 1]  PROVE u[k] = r[k]
  <2>1. k \in 0..16 /\ k - 1 \in 0..16
    OBVIOUS
  <2>2. p[k - 1] \in Block128 /\ q[k - 1] \in Block128
    BY <2>1 DEF IsRun
  <2>3. r[k] = F[xorBytes(p[k - 1], q[k - 1])]
    BY <1>1, <1>3, <2>1 DEF IsRun
  <2>4. F[xorBytes(p[k - 1], q[k - 1])] = xorBytes(F[p[k - 1]], F[q[k - 1]])
    BY <2>2 DEF Linear
  <2>5. p[k] = F[p[k - 1]] /\ q[k] = F[q[k - 1]]
    BY DEF IsRun
  <2> QED
    BY <1>1, <2>1, <2>3, <2>4, <2>5
<1>4. \A n \in 0..16 : u[n] = r[n]
  BY <1>2, <1>3, SameRecursion
<1> QED
  BY <1>1, <1>4

\* And it takes a multiple to a multiple.
LEMMA RunMultiple ==
    ASSUME NEW F, Linear(F), NEW p, NEW r,
           NEW x \in Block128, NEW b \in Octet,
           IsRun(p, x, F), IsRun(r, Times(x, b), F)
    PROVE  r[16] = Times(p[16], b)
<1> DEFINE u == [n \in 0..16 |-> Times(p[n], b)]
<1>1. \A n \in 0..16 : u[n] = Times(p[n], b)
  OBVIOUS
<1> HIDE DEF u
<1>2. u[0] = r[0]
  BY <1>1 DEF IsRun
<1>3. ASSUME NEW k \in 1..16, u[k - 1] = r[k - 1]  PROVE u[k] = r[k]
  <2>1. k \in 0..16 /\ k - 1 \in 0..16
    OBVIOUS
  <2>2. p[k - 1] \in Block128
    BY <2>1 DEF IsRun
  <2>3. r[k] = F[Times(p[k - 1], b)]
    BY <1>1, <1>3, <2>1 DEF IsRun
  <2>4. F[Times(p[k - 1], b)] = Times(F[p[k - 1]], b)
    BY <2>2 DEF Linear
  <2>5. p[k] = F[p[k - 1]]
    BY DEF IsRun
  <2> QED
    BY <1>1, <2>1, <2>3, <2>4, <2>5
<1>4. \A n \in 0..16 : u[n] = r[n]
  BY <1>2, <1>3, SameRecursion
<1> QED
  BY <1>1, <1>4

\* Sixteen steps back undo sixteen steps.
LEMMA RunBack ==
    ASSUME NEW F \in [Block128 -> Block128], NEW G \in [Block128 -> Block128],
           \A z \in Block128 : G[F[z]] = z,
           NEW p, NEW q, NEW x \in Block128, IsRun(p, x, F), IsRun(q, p[16], G)
    PROVE  q[16] = x
<1> DEFINE u == [n \in 0..16 |-> p[16 - n]]
<1>1. \A n \in 0..16 : u[n] = p[16 - n]
  OBVIOUS
<1> HIDE DEF u
<1>2. u[0] = q[0]
  BY <1>1, 16 - 0 = 16 DEF IsRun
<1>3. ASSUME NEW k \in 1..16, u[k - 1] = q[k - 1]  PROVE u[k] = q[k]
  <2> DEFINE j == 17 - k
  <2>1. j \in 1..16 /\ j - 1 \in 0..16 /\ 16 - (k - 1) = j /\ 16 - k = j - 1
        /\ k \in 0..16 /\ k - 1 \in 0..16
    OBVIOUS
  <2> HIDE DEF j
  <2>2. u[k - 1] = p[j] /\ u[k] = p[j - 1]
    BY <1>1, <2>1
  <2>3. p[j] = F[p[j - 1]] /\ p[j - 1] \in Block128
    BY <2>1 DEF IsRun
  <2>4. q[k] = G[p[j]]
    BY <1>3, <2>2 DEF IsRun
  <2> QED
    BY <2>2, <2>3, <2>4
<1>4. \A n \in 0..16 : u[n] = q[n]
  BY <1>2, <1>3, SameRecursion
<1>5. u[16] = q[16] /\ u[16] = p[16 - 16] /\ 16 - 16 = 0
  BY <1>1, <1>4
<1> QED
  BY <1>5 DEF IsRun

L == [x \in Block128 |-> LTransform(x)]
LBack == [x \in Block128 |-> LInverse(x)]

\* The transformation of the standard and its inverse.
LEMMA Transformations ==
    /\ Linear(L) /\ Linear(LBack)
    /\ \A x \in Block128 : LBack[L[x]] = x /\ L[LBack[x]] = x
<1>1. Linear(Forward) /\ Linear(Backward)
  <2>1. Forward \in [Block128 -> Block128] /\ Backward \in [Block128 -> Block128]
    BY LStepIs, LStepBackIs DEF Forward, Backward
  <2>2. ASSUME NEW x \in Block128, NEW y \in Block128
        PROVE  /\ Forward[xorBytes(x, y)] = xorBytes(Forward[x], Forward[y])
               /\ Backward[xorBytes(x, y)] = xorBytes(Backward[x], Backward[y])
    <3>1. xorBytes(x, y) \in Block128 /\ 0 \in Octet
      <4>1. 0 \in Octet
        BY DEF Octet
      <4> QED
        BY <4>1, XorBlocks128
    <3>2. /\ LStep(xorBytes(x, y)) = xorBytes(LStep(x), LStep(y))
          /\ LStepBack(xorBytes(x, y)) = xorBytes(LStepBack(x), LStepBack(y))
      BY <3>1, LStepLinear, LStepBackLinear
    <3> QED
      BY <3>1, <3>2 DEF Forward, Backward
  <2>3. ASSUME NEW x \in Block128, NEW b \in Octet
        PROVE  /\ Forward[Times(x, b)] = Times(Forward[x], b)
               /\ Backward[Times(x, b)] = Times(Backward[x], b)
    <3>1. Times(x, b) \in Block128
      BY TimesIs
    <3>2. LStep(Times(x, b)) = Times(LStep(x), b) /\ LStepBack(Times(x, b)) = Times(LStepBack(x), b)
      BY LStepLinear, LStepBackLinear
    <3> QED
      BY <3>1, <3>2 DEF Forward, Backward
  <2> QED
    BY <2>1, <2>2, <2>3 DEF Linear
<1>2. \A x \in Block128 : Backward[Forward[x]] = x /\ Forward[Backward[x]] = x
  <2> TAKE x \in Block128
  <2>1. Forward[x] = LStep(x) /\ Backward[x] = LStepBack(x)
    BY DEF Forward, Backward
  <2>2. LStep(x) \in Block128 /\ LStepBack(x) \in Block128
    BY LStepIs, LStepBackIs
  <2>3. Backward[LStep(x)] = LStepBack(LStep(x)) /\ Forward[LStepBack(x)] = LStep(LStepBack(x))
    BY <2>2 DEF Forward, Backward
  <2> QED
    BY <2>1, <2>3, LStepsInverse
<1>3. \A x \in Block128 : L[x] \in Block128 /\ \E r : IsRun(r, x, Forward) /\ L[x] = r[16]
  <2> TAKE x \in Block128
  <2>1. PICK r : IsRun(r, x, Forward) /\ LTransform(x) = r[16]
    BY LTransformIs
  <2>2. L[x] = r[16] /\ r[16] \in Block128
    BY <2>1 DEF L, IsRun
  <2> QED
    BY <2>1, <2>2
<1>4. \A x \in Block128 :
        LBack[x] \in Block128 /\ \E r : IsRun(r, x, Backward) /\ LBack[x] = r[16]
  <2> TAKE x \in Block128
  <2>1. PICK r : IsRun(r, x, Backward) /\ LInverse(x) = r[16]
    BY LInverseIs
  <2>2. LBack[x] = r[16] /\ r[16] \in Block128
    BY <2>1 DEF LBack, IsRun
  <2> QED
    BY <2>1, <2>2
<1>5. L \in [Block128 -> Block128] /\ LBack \in [Block128 -> Block128]
  <2>1. L = [x \in Block128 |-> L[x]] /\ LBack = [x \in Block128 |-> LBack[x]]
    BY DEF L, LBack
  <2> QED
    BY <1>3, <1>4, <2>1
<1>6. ASSUME NEW x \in Block128, NEW y \in Block128
      PROVE  /\ L[xorBytes(x, y)] = xorBytes(L[x], L[y])
             /\ LBack[xorBytes(x, y)] = xorBytes(LBack[x], LBack[y])
  <2>1. xorBytes(x, y) \in Block128
    BY XorBlocks128
  <2>2. L[xorBytes(x, y)] = xorBytes(L[x], L[y])
    BY <1>1, <1>3, <2>1, RunSum
  <2>3. LBack[xorBytes(x, y)] = xorBytes(LBack[x], LBack[y])
    BY <1>1, <1>4, <2>1, RunSum
  <2> QED
    BY <2>2, <2>3
<1>7. ASSUME NEW x \in Block128, NEW b \in Octet
      PROVE  L[Times(x, b)] = Times(L[x], b) /\ LBack[Times(x, b)] = Times(LBack[x], b)
  <2>1. Times(x, b) \in Block128
    BY TimesIs
  <2>2. L[Times(x, b)] = Times(L[x], b)
    BY <1>1, <1>3, <2>1, RunMultiple
  <2>3. LBack[Times(x, b)] = Times(LBack[x], b)
    BY <1>1, <1>4, <2>1, RunMultiple
  <2> QED
    BY <2>2, <2>3
<1>8. Forward \in [Block128 -> Block128] /\ Backward \in [Block128 -> Block128]
  BY <1>1 DEF Linear
<1>9. ASSUME NEW x \in Block128  PROVE LBack[L[x]] = x /\ L[LBack[x]] = x
  <2>1. LBack[L[x]] = x
    BY <1>2, <1>3, <1>4, <1>8, RunBack
  <2>2. L[LBack[x]] = x
    BY <1>2, <1>3, <1>4, <1>8, RunBack
  <2> QED
    BY <2>1, <2>2
<1> QED
  BY <1>5, <1>6, <1>7, <1>9 DEF Linear

-----------------------------------------------------------------------------
(* The tables. *)

\* The blocks of a byte and zeros, and of zeros.
LEMMA UnitIs ==
    ASSUME NEW j \in 1..16, NEW b \in Octet
    PROVE  /\ Unit(j, b) \in Block128
           /\ \A i \in 1..16 : Unit(j, b)[i] = IF i = j THEN b ELSE 0
<1>1. 0 \in Octet
  BY DEF Octet
<1> QED
  BY <1>1 DEF Unit, Block128, Positions

\* The first n bytes of y, followed by zeros.
Prefix(y, n) == [i \in Positions |-> IF i <= n THEN y[i] ELSE 0]

\* It is a block.
LEMMA PrefixIs ==
    ASSUME NEW y \in Block128, NEW n \in 0..16
    PROVE  /\ Prefix(y, n) \in Block128
           /\ \A i \in 1..16 : Prefix(y, n)[i] = IF i <= n THEN y[i] ELSE 0
<1>1. 0 \in Octet
  BY DEF Octet
<1>2. \A i \in 1..16 : y[i] \in Octet
  BY Blocks128
<1> QED
  BY <1>1, <1>2 DEF Prefix, Block128, Positions

\* One more byte of y.
LEMMA PrefixStep ==
    ASSUME NEW y \in Block128, NEW n \in 1..16
    PROVE  Prefix(y, n) = xorBytes(Times(Unit(n, 1), y[n]), Prefix(y, n - 1))
<1> DEFINE e == Times(Unit(n, 1), y[n])
           q == Prefix(y, n - 1)
           z == xorBytes(e, q)
<1>1. 0 \in Octet /\ 1 \in Octet /\ y[n] \in Octet
  <2>1. 0 \in Octet /\ 1 \in Octet
    BY DEF Octet
  <2> QED
    BY <2>1, Blocks128
<1>2. n \in 0..16 /\ n - 1 \in 0..16
  OBVIOUS
<1>3. Unit(n, 1) \in Block128 /\ \A i \in 1..16 : Unit(n, 1)[i] = IF i = n THEN 1 ELSE 0
  BY <1>1, UnitIs
<1>4. e \in Block128 /\ \A i \in 1..16 : e[i] = mul(Unit(n, 1)[i], y[n])
  BY <1>1, <1>3, TimesIs
<1>5. q \in Block128 /\ \A i \in 1..16 : q[i] = IF i <= n - 1 THEN y[i] ELSE 0
  BY <1>2, PrefixIs
<1>6. z \in Block128 /\ \A i \in 1..16 : z[i] = xor(e[i], q[i])
  BY <1>4, <1>5, XorBlocks128
<1>7. Prefix(y, n) \in Block128 /\ \A i \in 1..16 : Prefix(y, n)[i] = IF i <= n THEN y[i] ELSE 0
  BY <1>2, PrefixIs
<1> HIDE DEF e, q, z
<1>8. mul(1, y[n]) = y[n] /\ mul(0, y[n]) = 0
  BY <1>1, MulOne, MulZero
<1>9. ASSUME NEW i \in 1..16  PROVE Prefix(y, n)[i] = z[i]
  <2>1. y[i] \in Octet
    BY Blocks128
  <2>2. xor(y[n], 0) = y[n] /\ xor(0, y[i]) = y[i] /\ xor(0, 0) = 0
    BY <1>1, <2>1, XorGroup
  <2>3. CASE i = n
    <3>1. e[i] = y[n] /\ q[i] = 0
      BY <1>3, <1>4, <1>5, <1>8, <2>3
    <3> QED
      BY <1>6, <1>7, <2>2, <2>3, <3>1
  <2>4. CASE i < n
    <3>1. e[i] = 0 /\ q[i] = y[i]
      BY <1>3, <1>4, <1>5, <1>8, <2>4
    <3> QED
      BY <1>6, <1>7, <2>2, <2>4, <3>1
  <2>5. CASE n < i
    <3>1. e[i] = 0 /\ q[i] = 0
      BY <1>3, <1>4, <1>5, <1>8, <2>5
    <3> QED
      BY <1>6, <1>7, <2>2, <2>5, <3>1
  <2> QED
    BY <2>3, <2>4, <2>5
<1>10. Prefix(y, n) = z
  BY <1>6, <1>7, <1>9, EqualBlocks128
<1> QED
  BY <1>10 DEF z, e, q

\* Column i of the products of the rows of F's matrix with the bytes of y.
Column(m, y, i) == Tabulate(LAMBDA j : mul(m[j][i], y[j]), 16)

\* A linear function is what its matrix says.
LEMMA MatrixIsFunction ==
    ASSUME NEW F, Linear(F), NEW m, \A j \in 1..16 : m[j] = F[Unit(j, 1)],
           NEW y \in Block128, NEW i \in 1..16
    PROVE  XorAll(Column(m, y, i)) = F[y][i] /\ F[y][i] \in Octet
<1> DEFINE w == Column(m, y, i)
<1>1. 0 \in Octet /\ 1 \in Octet
  BY DEF Octet
<1>2. \A z \in Block128 : F[z] \in Block128 /\ F[z][i] \in Octet
  <2>1. \A z \in Block128 : F[z] \in Block128
    BY DEF Linear
  <2> QED
    BY <2>1, Blocks128
<1>3. \A j \in 1..16 : Unit(j, 1) \in Block128 /\ y[j] \in Octet
  BY <1>1, UnitIs, Blocks128
<1>4. \A j \in 1..16 : m[j] \in Block128 /\ m[j][i] \in Octet
  BY <1>2, <1>3
<1>5. w \in Block128 /\ \A j \in 1..16 : w[j] = mul(m[j][i], y[j])
  <2>1. \A j \in 1..16 : mul(m[j][i], y[j]) \in Octet
    BY <1>3, <1>4, MulIs
  <2>2. w = [j \in 1..16 |-> mul(m[j][i], y[j])]
    BY DEF Column, Tabulate
  <2> QED
    BY <2>1, <2>2 DEF Block128, Positions
<1> HIDE DEF w
<1>6. PICK sum : IsXorAll(sum, w) /\ XorAll(w) = sum[16]
  BY <1>5, XorAllIs
<1> DEFINE u == [n \in 0..16 |-> F[Prefix(y, n)][i]]
<1>7. \A n \in 0..16 : u[n] = F[Prefix(y, n)][i]
  OBVIOUS
<1> HIDE DEF u
<1>8. sum[0] = u[0]
  <2>1. Prefix(y, 0) \in Block128 /\ \A k \in 1..16 : Prefix(y, 0)[k] = 0
    BY PrefixIs
  <2>2. Times(Prefix(y, 0), 0) \in Block128
        /\ \A k \in 1..16 : Times(Prefix(y, 0), 0)[k] = mul(Prefix(y, 0)[k], 0)
    BY <1>1, <2>1, TimesIs
  <2>3. mul(0, 0) = 0
    BY <1>1, MulZero
  <2>4. Times(Prefix(y, 0), 0) = Prefix(y, 0)
    BY <2>1, <2>2, <2>3, EqualBlocks128
  <2>5. F[Prefix(y, 0)] = Times(F[Prefix(y, 0)], 0)
    BY <1>1, <2>1, <2>4 DEF Linear
  <2>6. F[Prefix(y, 0)] \in Block128 /\ F[Prefix(y, 0)][i] \in Octet
    BY <1>2, <2>1
  <2>7. Times(F[Prefix(y, 0)], 0)[i] = mul(F[Prefix(y, 0)][i], 0)
    BY <1>1, <2>6, TimesIs
  <2>8. mul(F[Prefix(y, 0)][i], 0) = 0
    BY <2>6, MulZero
  <2> QED
    BY <1>6, <1>7, <2>5, <2>7, <2>8 DEF IsXorAll
<1>9. ASSUME NEW k \in 1..16, sum[k - 1] = u[k - 1]  PROVE sum[k] = u[k]
  <2> DEFINE e == Times(Unit(k, 1), y[k])
             q == Prefix(y, k - 1)
  <2>1. k \in 0..16 /\ k - 1 \in 0..16
    OBVIOUS
  <2>2. e \in Block128 /\ q \in Block128
    BY <1>3, <2>1, TimesIs, PrefixIs
  <2>3. Prefix(y, k) = xorBytes(e, q)
    BY PrefixStep
  <2>4. F[e] = Times(m[k], y[k])
    BY <1>3 DEF Linear
  <2>5. F[e][i] = mul(m[k][i], y[k])
    <3>1. m[k] \in Block128 /\ y[k] \in Octet
      BY <1>3, <1>4
    <3>2. Times(m[k], y[k])[i] = mul(m[k][i], y[k])
      BY <3>1, TimesIs
    <3> QED
      BY <2>4, <3>2
  <2>6. u[k - 1] = F[q][i]
    BY <1>7, <2>1
  <2>7. u[k] = F[xorBytes(e, q)][i]
    BY <1>7, <2>1, <2>3
  <2> HIDE DEF e, q
  <2>8. F[xorBytes(e, q)] = xorBytes(F[e], F[q]) /\ F[e] \in Block128 /\ F[q] \in Block128
    BY <1>2, <2>2 DEF Linear
  <2>9. xorBytes(F[e], F[q])[i] = xor(F[e][i], F[q][i])
    BY <2>8, XorBlocks128
  <2>10. sum[k] = xor(w[k], sum[k - 1])
    BY <1>6 DEF IsXorAll
  <2> QED
    BY <1>5, <1>9, <2>5, <2>6, <2>7, <2>8, <2>9, <2>10
<1>10. sum[16] = u[16]
  BY <1>8, <1>9, SameRecursion
<1>11. Prefix(y, 16) = y
  <2>1. Prefix(y, 16) \in Block128 /\ \A k \in 1..16 : Prefix(y, 16)[k] = y[k]
    BY PrefixIs
  <2> QED
    BY <2>1, EqualBlocks128
<1> QED
  BY <1>2, <1>6, <1>7, <1>10, <1>11 DEF w

\* A table of bytes, and the bytes of x through it.
IsSubstitution(table) == \A b \in 1..256 : table[b] \in Octet
Through(table, x) == Tabulate(LAMBDA i : table[x[i] + 1], 16)

\* They are a block.
LEMMA ThroughIs ==
    ASSUME NEW table, IsSubstitution(table), NEW x \in Block128
    PROVE  Through(table, x) \in Block128 /\ \A i \in 1..16 : Through(table, x)[i] = table[x[i] + 1]
<1>1. \A i \in 1..16 : x[i] + 1 \in 1..256
  <2> TAKE i \in 1..16
  <2>1. x[i] \in Octet
    BY Blocks128
  <2> QED
    BY <2>1 DEF Octet
<1>2. Through(table, x) = [i \in 1..16 |-> table[x[i] + 1]]
  BY DEF Through, Tabulate
<1> QED
  BY <1>1, <1>2 DEF IsSubstitution, Block128, Positions

\* The lookup in the table of a linear function and a substitution is one after
\* the other.
LEMMA LookupIs ==
    ASSUME NEW F, Linear(F), NEW m, \A j \in 1..16 : m[j] = F[Unit(j, 1)],
           NEW table, IsSubstitution(table), NEW x \in Block128
    PROVE  Lookup(TableOf(m, table), x) = F[Through(table, x)]
<1> DEFINE y == Through(table, x)
           tt == TableOf(m, table)
<1>1. y \in Block128 /\ \A i \in 1..16 : y[i] = table[x[i] + 1]
  BY ThroughIs
<1>2. \A j \in 1..16 : x[j] + 1 \in 1..256
  <2> TAKE j \in 1..16
  <2>1. x[j] \in Octet
    BY Blocks128
  <2> QED
    BY <2>1 DEF Octet
<1>4. \A j \in 1..16, b \in 1..256, i \in 1..16 : tt[j][b][i] = mul(m[j][i], table[b])
  <2> TAKE j \in 1..16, b \in 1..256, i \in 1..16
  <2> DEFINE row(k) == Tabulate(LAMBDA d :
                          Tabulate(LAMBDA n : mul(m[k][n], table[d]), 16), 256)
             entry(d) == Tabulate(LAMBDA n : mul(m[j][n], table[d]), 16)
  <2>1. tt = Tabulate(LAMBDA k : row(k), 16) /\ row(j) = Tabulate(LAMBDA d : entry(d), 256)
    BY DEF TableOf
  <2>2. entry(b)[i] = mul(m[j][i], table[b])
    BY DEF Tabulate
  <2> HIDE DEF row, entry, tt
  <2>3. tt[j] = row(j) /\ row(j)[b] = entry(b)
    BY <2>1 DEF Tabulate
  <2> QED
    BY <2>2, <2>3
<1> HIDE DEF y, tt
<1>5. \A i, j \in 1..16 : tt[j][x[j] + 1][i] = mul(m[j][i], y[j])
  <2> TAKE i, j \in 1..16
  <2>1. x[j] + 1 \in 1..256 /\ y[j] = table[x[j] + 1]
    BY <1>1, <1>2
  <2> QED
    BY <1>4, <2>1
<1>6. ASSUME NEW i \in 1..16
      PROVE  XorAll(Tabulate(LAMBDA j : tt[j][x[j] + 1][i], 16)) = F[y][i] /\ F[y][i] \in Octet
  <2>1. Tabulate(LAMBDA j : tt[j][x[j] + 1][i], 16) = [j \in 1..16 |-> tt[j][x[j] + 1][i]]
    BY DEF Tabulate
  <2>2. Column(m, y, i) = [j \in 1..16 |-> mul(m[j][i], y[j])]
    BY DEF Column, Tabulate
  <2>3. [j \in 1..16 |-> tt[j][x[j] + 1][i]] = [j \in 1..16 |-> mul(m[j][i], y[j])]
    BY <1>5
  <2>4. XorAll(Column(m, y, i)) = F[y][i] /\ F[y][i] \in Octet
    BY <1>1, MatrixIsFunction
  <2> QED
    BY <2>1, <2>2, <2>3, <2>4
<1>7. Lookup(tt, x) = [i \in 1..16 |-> XorAll(Tabulate(LAMBDA j : tt[j][x[j] + 1][i], 16))]
  BY DEF Lookup, Tabulate
<1>8. Lookup(tt, x) = [i \in 1..16 |-> F[y][i]]
  BY <1>6, <1>7
<1>9. F[y] \in Block128
  BY <1>1 DEF Linear
<1>10. F[y] = [i \in 1..16 |-> F[y][i]]
  BY <1>9, Blocks128 DEF Positions
<1> QED
  BY <1>8, <1>10 DEF tt, y

\* The two substitutions undo each other.
LEMMA Substitutions ==
    /\ IsSubstitution(s) /\ IsSubstitution(is)
    /\ \A b \in Octet : is[s[b + 1] + 1] = b /\ s[is[b + 1] + 1] = b
<1>1. \A b \in Octet : is[s[b + 1] + 1] = b /\ s[is[b + 1] + 1] = b
  BY DEF s, is, Octet
<1>2. \A b \in Octet : s[b + 1] \in Octet /\ is[b + 1] \in Octet
  BY DEF s, is, Octet
<1>3. \A b \in 1..256 : b - 1 \in Octet /\ (b - 1) + 1 = b
  BY DEF Octet
<1>4. \A b \in 1..256 : s[b] \in Octet /\ is[b] \in Octet
  BY <1>2, <1>3
<1> QED
  BY <1>1, <1>4 DEF IsSubstitution

\* So do the blocks of bytes that they give.
LEMMA ThroughBoth ==
    ASSUME NEW x \in Block128
    PROVE  /\ Through(s, x) \in Block128 /\ Through(is, x) \in Block128
           /\ Through(is, Through(s, x)) = x /\ Through(s, Through(is, x)) = x
<1>1. \A i \in 1..16 : x[i] \in Octet
  BY Blocks128
<1>2. Through(s, x) \in Block128 /\ \A i \in 1..16 : Through(s, x)[i] = s[x[i] + 1]
  BY Substitutions, ThroughIs
<1>3. Through(is, x) \in Block128 /\ \A i \in 1..16 : Through(is, x)[i] = is[x[i] + 1]
  BY Substitutions, ThroughIs
<1>4. Through(is, Through(s, x)) = x
  <2> DEFINE y == Through(s, x)
             z == Through(is, y)
  <2>1. z \in Block128 /\ \A i \in 1..16 : z[i] = is[y[i] + 1]
    BY <1>2, Substitutions, ThroughIs
  <2> HIDE DEF z
  <2>2. \A i \in 1..16 : z[i] = x[i]
    BY <1>1, <1>2, <2>1, Substitutions
  <2>3. z = x
    BY <2>1, <2>2, EqualBlocks128
  <2> QED
    BY <2>3 DEF z
<1>5. Through(s, Through(is, x)) = x
  <2> DEFINE y == Through(is, x)
             z == Through(s, y)
  <2>1. z \in Block128 /\ \A i \in 1..16 : z[i] = s[y[i] + 1]
    BY <1>3, Substitutions, ThroughIs
  <2> HIDE DEF z
  <2>2. \A i \in 1..16 : z[i] = x[i]
    BY <1>1, <1>3, <2>1, Substitutions
  <2>3. z = x
    BY <2>1, <2>2, EqualBlocks128
  <2> QED
    BY <2>3 DEF z
<1> QED
  BY <1>2, <1>3, <1>4, <1>5

\* What the lookups in t and it compute.
LEMMA LookupsAre ==
    ASSUME NEW x \in Block128
    PROVE  /\ ls(x) = L[Through(s, x)] /\ ils(x) = LBack[Through(is, x)]
           /\ isi(x) = Through(is, x) /\ ilss(x) = LBack[x]
<1>1. \A j \in 1..16 : Unit(j, 1) \in Block128
  <2>1. 1 \in Octet
    BY DEF Octet
  <2> QED
    BY <2>1, UnitIs
<1>2. lMatrix = [j \in 1..16 |-> LTransform(Unit(j, 1))]
  BY DEF lMatrix, Tabulate
<1>3. lInverseMatrix = [j \in 1..16 |-> LInverse(Unit(j, 1))]
  BY DEF lInverseMatrix, Tabulate
<1>4. \A j \in 1..16 : lMatrix[j] = L[Unit(j, 1)]
  BY <1>1, <1>2 DEF L
<1>5. \A j \in 1..16 : lInverseMatrix[j] = LBack[Unit(j, 1)]
  BY <1>1, <1>3 DEF LBack
<1>6. ls(x) = L[Through(s, x)]
  <2>1. Lookup(TableOf(lMatrix, s), x) = L[Through(s, x)]
    BY <1>4, LookupIs, Transformations, Substitutions
  <2> QED
    BY <2>1 DEF ls, t
<1>7. \A z \in Block128 : Lookup(it, z) = LBack[Through(is, z)]
  <2> TAKE z \in Block128
  <2>1. Lookup(TableOf(lInverseMatrix, is), z) = LBack[Through(is, z)]
    BY <1>5, LookupIs, Transformations, Substitutions
  <2> QED
    BY <2>1 DEF it
<1>8. Through(s, x) \in Block128 /\ Through(is, Through(s, x)) = x
  BY ThroughBoth
<1>9. ilss(x) = Lookup(it, Through(s, x))
  BY DEF ilss, Through
<1> QED
  BY <1>6, <1>7, <1>8, <1>9 DEF ils, isi, Through

-----------------------------------------------------------------------------
(* The rounds. *)

\* Adding a block twice is adding nothing.
LEMMA AddTwice ==
    ASSUME NEW x \in Block128, NEW k \in Block128
    PROVE  xorBytes(x, k) \in Block128 /\ xorBytes(xorBytes(x, k), k) = x
<1> DEFINE y == xorBytes(x, k)
           z == xorBytes(y, k)
<1>1. y \in Block128 /\ \A i \in 1..16 : y[i] = xor(x[i], k[i])
  BY XorBlocks128
<1> HIDE DEF y
<1>2. z \in Block128 /\ \A i \in 1..16 : z[i] = xor(y[i], k[i])
  BY <1>1, XorBlocks128
<1> HIDE DEF z
<1>3. \A i \in 1..16 : z[i] = x[i]
  <2> TAKE i \in 1..16
  <2>1. x[i] \in Octet /\ k[i] \in Octet
    BY Blocks128
  <2>2. xor(xor(x[i], k[i]), k[i]) = x[i]
    BY <2>1, XorGroup
  <2> QED
    BY <1>1, <1>2, <2>2
<1>4. z = x
  BY <1>2, <1>3, EqualBlocks128
<1> QED
  BY <1>1, <1>4 DEF z, y

\* A round of the encryption and its inverse.
Round(x, k) == xorBytes(L[Through(s, x)], k)
RoundBack(y, k) == Through(is, LBack[xorBytes(y, k)])

\* They undo each other, and a round can be undone with the transformed round key,
\* which is what drk holds.
LEMMA RoundIs ==
    ASSUME NEW x \in Block128, NEW k \in Block128
    PROVE  /\ Round(x, k) \in Block128 /\ RoundBack(x, k) \in Block128
           /\ RoundBack(Round(x, k), k) = x /\ Round(RoundBack(x, k), k) = x
           /\ xorBytes(LBack[Round(x, k)], LBack[k]) = Through(s, x)
<1>1. \A z \in Block128 : L[z] \in Block128 /\ LBack[z] \in Block128
  BY Transformations DEF Linear
<1>2. Round(x, k) \in Block128
  <2>1. L[Through(s, x)] \in Block128
    BY <1>1, ThroughBoth
  <2> QED
    BY <2>1, AddTwice DEF Round
<1>3. RoundBack(x, k) \in Block128
  <2>1. LBack[xorBytes(x, k)] \in Block128
    BY <1>1, AddTwice
  <2> QED
    BY <2>1, ThroughBoth DEF RoundBack
<1>4. RoundBack(Round(x, k), k) = x
  <2> DEFINE z == Through(s, x)
  <2>1. z \in Block128 /\ Through(is, z) = x
    BY ThroughBoth
  <2>2. xorBytes(xorBytes(L[z], k), k) = L[z] /\ LBack[L[z]] = z
    BY <1>1, <2>1, AddTwice, Transformations
  <2> QED
    BY <2>1, <2>2 DEF Round, RoundBack
<1>5. Round(RoundBack(x, k), k) = x
  <2> DEFINE z == xorBytes(x, k)
             u == LBack[z]
  <2>1. z \in Block128 /\ xorBytes(z, k) = x
    BY AddTwice
  <2>2. u \in Block128 /\ L[u] = z
    BY <1>1, <2>1, Transformations
  <2>3. Through(s, Through(is, u)) = u
    BY <2>2, ThroughBoth
  <2> QED
    BY <2>1, <2>2, <2>3 DEF Round, RoundBack
<1>6. xorBytes(LBack[Round(x, k)], LBack[k]) = Through(s, x)
  <2> DEFINE z == Through(s, x)
             y == Round(x, k)
  <2>1. z \in Block128
    BY ThroughBoth
  <2>2. xorBytes(y, k) = L[z] /\ LBack[L[z]] = z
    BY <1>1, <2>1, AddTwice, Transformations DEF Round
  <2>3. LBack[xorBytes(y, k)] = xorBytes(LBack[y], LBack[k])
    BY <1>2, Transformations DEF Linear
  <2> QED
    BY <2>2, <2>3
<1> QED
  BY <1>2, <1>3, <1>4, <1>5, <1>6

BlockFunctions == [Block128 -> Block128]
RoundKeys == [1..10 -> Block128]

\* Y[k][x]: the block after the round key k, when x is encrypted with e.
IsEncryption(Y, e) ==
    /\ Y \in [1..10 -> BlockFunctions]
    /\ \A x \in Block128 :
          /\ Y[1][x] = xorBytes(x, e[1])
          /\ \A k \in 2..10 : Y[k][x] = Round(Y[k - 1][x], e[k])

\* Z[k][z]: the block after the round key k of the block whose encryption is z.
IsDecryption(Z, e) ==
    /\ Z \in [1..10 -> BlockFunctions]
    /\ \A z \in Block128 :
          /\ Z[10][z] = z
          /\ \A k \in 2..10 : Z[k - 1][z] = RoundBack(Z[k][z], e[k])

\* Both exist for any round keys.
LEMMA EncryptionExists ==
    ASSUME NEW e \in RoundKeys
    PROVE  \E Y : IsEncryption(Y, e)
<1> DEFINE g == [k \in Nat |-> [F \in BlockFunctions |->
                    IF k \in 1..9 THEN [x \in Block128 |-> Round(F[x], e[k + 1])] ELSE F]]
           first == [x \in Block128 |-> xorBytes(x, e[1])]
<1>1. \A k \in 1..10 : e[k] \in Block128
  BY DEF RoundKeys
<1>2. first \in BlockFunctions
  BY <1>1, AddTwice DEF BlockFunctions
<1>3. \A k \in 1..9 : \A F \in BlockFunctions :
        [x \in Block128 |-> Round(F[x], e[k + 1])] \in BlockFunctions
  <2> TAKE k \in 1..9
  <2> TAKE F \in BlockFunctions
  <2>1. e[k + 1] \in Block128 /\ \A x \in Block128 : F[x] \in Block128
    BY <1>1 DEF BlockFunctions
  <2>2. \A x \in Block128 : Round(F[x], e[k + 1]) \in Block128
    BY <2>1, RoundIs
  <2> QED
    BY <2>2 DEF BlockFunctions
<1>4. IsStep(g, BlockFunctions)
  BY <1>3 DEF IsStep
<1>5. \A k \in 1..9 : \A F \in BlockFunctions :
        g[k][F] = [x \in Block128 |-> Round(F[x], e[k + 1])]
  OBVIOUS
<1>6. \A x \in Block128 : first[x] = xorBytes(x, e[1])
  OBVIOUS
<1> HIDE DEF g, first
<1>7. PICK h : IsIterated(h, 9, first, g, BlockFunctions)
  BY <1>2, <1>4, Recursion
<1> DEFINE Y == [k \in 1..10 |-> h[k - 1]]
<1>8. \A k \in 1..10 : Y[k] = h[k - 1] /\ k - 1 \in 0..9
  OBVIOUS
<1>9. Y \in [1..10 -> BlockFunctions]
  BY <1>7 DEF IsIterated
<1> HIDE DEF Y
<1>10. Y[1] = first
  BY <1>7, <1>8 DEF IsIterated
<1>11. ASSUME NEW k \in 2..10, NEW x \in Block128  PROVE Y[k][x] = Round(Y[k - 1][x], e[k])
  <2> DEFINE j == k - 1
  <2>1. j \in 1..9 /\ j \in 1..10 /\ k \in 1..10 /\ j + 1 = k /\ j - 1 \in 0..9
    OBVIOUS
  <2>2. Y[k] = h[j] /\ Y[j] = h[j - 1]
    BY <1>8, <2>1
  <2> HIDE DEF j
  <2>3. h[j] = g[j][h[j - 1]] /\ h[j - 1] \in BlockFunctions
    BY <1>7, <2>1 DEF IsIterated
  <2>4. h[j] = [y \in Block128 |-> Round(h[j - 1][y], e[k])]
    BY <1>5, <2>1, <2>3
  <2> QED
    BY <2>2, <2>4 DEF j
<1> QED
  BY <1>6, <1>9, <1>10, <1>11 DEF IsEncryption

\* The blocks of the way back exist too.
LEMMA DecryptionExists ==
    ASSUME NEW e \in RoundKeys
    PROVE  \E Z : IsDecryption(Z, e)
<1> DEFINE g == [k \in Nat |-> [F \in BlockFunctions |->
                    IF k \in 1..9 THEN [z \in Block128 |-> RoundBack(F[z], e[11 - k])] ELSE F]]
           first == [z \in Block128 |-> z]
<1>1. \A k \in 1..10 : e[k] \in Block128
  BY DEF RoundKeys
<1>2. first \in BlockFunctions
  BY DEF BlockFunctions
<1>3. \A k \in 1..9 : \A F \in BlockFunctions :
        [z \in Block128 |-> RoundBack(F[z], e[11 - k])] \in BlockFunctions
  <2> TAKE k \in 1..9
  <2> TAKE F \in BlockFunctions
  <2>1. e[11 - k] \in Block128 /\ \A z \in Block128 : F[z] \in Block128
    BY <1>1 DEF BlockFunctions
  <2>2. \A z \in Block128 : RoundBack(F[z], e[11 - k]) \in Block128
    BY <2>1, RoundIs
  <2> QED
    BY <2>2 DEF BlockFunctions
<1>4. IsStep(g, BlockFunctions)
  BY <1>3 DEF IsStep
<1>5. \A k \in 1..9 : \A F \in BlockFunctions :
        g[k][F] = [z \in Block128 |-> RoundBack(F[z], e[11 - k])]
  OBVIOUS
<1>6. \A z \in Block128 : first[z] = z
  OBVIOUS
<1> HIDE DEF g, first
<1>7. PICK h : IsIterated(h, 9, first, g, BlockFunctions)
  BY <1>2, <1>4, Recursion
<1> DEFINE Z == [k \in 1..10 |-> h[10 - k]]
<1>8. \A k \in 1..10 : Z[k] = h[10 - k] /\ 10 - k \in 0..9
  OBVIOUS
<1>9. Z \in [1..10 -> BlockFunctions]
  BY <1>7 DEF IsIterated
<1> HIDE DEF Z
<1>10. Z[10] = first
  BY <1>7, <1>8 DEF IsIterated
<1>11. ASSUME NEW k \in 2..10, NEW z \in Block128  PROVE Z[k - 1][z] = RoundBack(Z[k][z], e[k])
  <2> DEFINE j == 11 - k
  <2>1. j \in 1..9 /\ k - 1 \in 1..10 /\ k \in 1..10 /\ 11 - j = k /\ j - 1 \in 0..9
        /\ 10 - k = j - 1 /\ 10 - (k - 1) = j
    OBVIOUS
  <2> HIDE DEF j
  <2>2. Z[k] = h[j - 1] /\ Z[k - 1] = h[j]
    BY <1>8, <2>1
  <2>3. h[j] = g[j][h[j - 1]] /\ h[j - 1] \in BlockFunctions
    BY <1>7, <2>1 DEF IsIterated
  <2>4. h[j] = [y \in Block128 |-> RoundBack(h[j - 1][y], e[k])]
    BY <1>5, <2>1, <2>3
  <2> QED
    BY <2>2, <2>4
<1> QED
  BY <1>6, <1>9, <1>10, <1>11 DEF IsDecryption

\* Encryption with any round keys is a permutation of the blocks.
THEOREM EncryptionIsPermutation ==
    ASSUME NEW e \in RoundKeys, NEW Y, IsEncryption(Y, e)
    PROVE  \E D \in BlockFunctions :
              \A x \in Block128 : D[Y[10][x]] = x /\ Y[10][D[x]] = x
<1>1. PICK Z : IsDecryption(Z, e)
  BY DecryptionExists
<1> DEFINE D == [z \in Block128 |-> xorBytes(Z[1][z], e[1])]
<1>2. \A k \in 1..10 : e[k] \in Block128
  BY DEF RoundKeys
<1>3. \A k \in 1..10 : \A x \in Block128 : Y[k][x] \in Block128 /\ Z[k][x] \in Block128
  BY <1>1 DEF IsEncryption, IsDecryption, BlockFunctions
<1>4. \A z \in Block128 : D[z] = xorBytes(Z[1][z], e[1]) /\ D[z] \in Block128
  BY <1>2, <1>3, AddTwice
<1>5. D \in BlockFunctions
  BY <1>4 DEF BlockFunctions
<1> HIDE DEF D
<1>6. ASSUME NEW z \in Block128  PROVE Y[10][D[z]] = z
  <2> DEFINE P == {k \in 1..10 : Y[k][D[z]] = Z[k][z]}
  <2>1. 1 \in P
    <3>1. Y[1][D[z]] = xorBytes(xorBytes(Z[1][z], e[1]), e[1])
      BY <1>4 DEF IsEncryption
    <3> QED
      BY <1>2, <1>3, <3>1, AddTwice
  <2>2. ASSUME NEW k \in 2..10, k - 1 \in P  PROVE k \in P
    <3>1. Y[k][D[z]] = Round(Y[k - 1][D[z]], e[k])
      BY <1>4 DEF IsEncryption
    <3>2. Y[k - 1][D[z]] = Z[k - 1][z] /\ Z[k - 1][z] = RoundBack(Z[k][z], e[k])
      BY <1>1, <2>2 DEF IsDecryption
    <3>3. k \in 1..10 /\ Z[k][z] \in Block128 /\ e[k] \in Block128
      BY <1>2, <1>3
    <3>4. Round(RoundBack(Z[k][z], e[k]), e[k]) = Z[k][z]
      BY <3>3, RoundIs
    <3> QED
      BY <3>1, <3>2, <3>3, <3>4
  <2> HIDE DEF P
  <2>3. 1..10 \subseteq P
    BY <2>1, <2>2, 10 \in Nat, UpTo
  <2>4. Y[10][D[z]] = Z[10][z]
    BY <2>3 DEF P
  <2> QED
    BY <1>1, <2>4 DEF IsDecryption
<1>7. ASSUME NEW x \in Block128  PROVE D[Y[10][x]] = x
  <2> DEFINE z == Y[10][x]
             P == {k \in Nat : 11 - k \in 1..10 => Z[11 - k][z] = Y[11 - k][x]}
  <2>1. z \in Block128
    BY <1>3
  <2> HIDE DEF z
  <2>2. 1 \in P
    BY <1>1, <2>1, 11 - 1 = 10 DEF IsDecryption, z
  <2>3. ASSUME NEW k \in 2..10, k - 1 \in P  PROVE k \in P
    <3> DEFINE j == 12 - k
    <3>1. j \in 2..10 /\ j \in 1..10 /\ j - 1 \in 1..10 /\ 11 - (k - 1) = j /\ 11 - k = j - 1
          /\ k \in Nat
      OBVIOUS
    <3> HIDE DEF j
    <3>2. Z[j][z] = Y[j][x]
      BY <2>3, <3>1
    <3>3. Z[j - 1][z] = RoundBack(Z[j][z], e[j])
      BY <1>1, <2>1, <3>1 DEF IsDecryption
    <3>4. Y[j][x] = Round(Y[j - 1][x], e[j])
      BY <3>1 DEF IsEncryption
    <3>5. Y[j - 1][x] \in Block128 /\ e[j] \in Block128
      BY <1>2, <1>3, <3>1
    <3>6. RoundBack(Round(Y[j - 1][x], e[j]), e[j]) = Y[j - 1][x]
      BY <3>5, RoundIs
    <3> QED
      BY <3>1, <3>2, <3>3, <3>4, <3>6
  <2> HIDE DEF P
  <2>4. 1..10 \subseteq P
    BY <2>2, <2>3, 10 \in Nat, UpTo
  <2>5. Z[1][z] = Y[1][x]
    <3>1. 10 \in P /\ 11 - 10 = 1
      BY <2>4
    <3> QED
      BY <3>1 DEF P
  <2>6. D[z] = xorBytes(xorBytes(x, e[1]), e[1])
    BY <1>4, <2>1, <2>5 DEF IsEncryption
  <2> QED
    BY <1>2, <2>6, AddTwice DEF z
<1> QED
  BY <1>5, <1>6, <1>7

-----------------------------------------------------------------------------
(* Sequences of calls. *)

Levels == -Depth..Depth

\* h[n]: x encrypted n times by E, or decrypted -n times.
IsOrbit(h, E, x) ==
    /\ h \in [Levels -> Block128] /\ h[0] = x
    /\ \A n \in Levels : n < Depth => h[n + 1] = E[h[n]]

\* It exists for every permutation E.
LEMMA OrbitExists ==
    ASSUME NEW E \in BlockFunctions, NEW D \in BlockFunctions,
           \A x \in Block128 : E[D[x]] = x, NEW x \in Block128
    PROVE  \E h : IsOrbit(h, E, x)
<1>1. Depth \in Nat
  BY CipherAssumption
<1> DEFINE ge == [k \in Nat |-> E]
           gd == [k \in Nat |-> D]
<1>2. /\ IsStep(ge, Block128) /\ \A k \in 1..Depth : ge[k] = E
      /\ IsStep(gd, Block128) /\ \A k \in 1..Depth : gd[k] = D
  BY DEF IsStep, BlockFunctions
<1> HIDE DEF ge, gd
<1>3. PICK u : IsIterated(u, Depth, x, ge, Block128)
  BY <1>1, <1>2, Recursion
<1>4. PICK d : IsIterated(d, Depth, x, gd, Block128)
  BY <1>1, <1>2, Recursion
<1>5. /\ u \in [0..Depth -> Block128] /\ u[0] = x
      /\ \A k \in 1..Depth : u[k] = E[u[k - 1]]
      /\ d \in [0..Depth -> Block128] /\ d[0] = x
      /\ \A k \in 1..Depth : d[k] = D[d[k - 1]]
  BY <1>2, <1>3, <1>4 DEF IsIterated
<1> DEFINE h == [n \in Levels |-> IF n >= 0 THEN u[n] ELSE d[-n]]
<1>6. \A n \in Levels : h[n] = IF n >= 0 THEN u[n] ELSE d[-n]
  OBVIOUS
<1>7. h \in [Levels -> Block128]
  BY <1>1, <1>5 DEF Levels
<1>8. 0 \in Levels
  BY <1>1 DEF Levels
<1> HIDE DEF h
<1>9. ASSUME NEW n \in Levels, n < Depth  PROVE h[n + 1] = E[h[n]]
  <2>1. n \in Int /\ n + 1 \in Levels
    BY <1>1, <1>9 DEF Levels
  <2>2. CASE n >= 0
    <3>1. n + 1 \in 1..Depth /\ (n + 1) - 1 = n /\ n + 1 >= 0
      BY <1>1, <1>9, <2>1, <2>2
    <3> QED
      BY <1>5, <1>6, <2>1, <2>2, <3>1
  <2>3. CASE n < 0
    <3> DEFINE k == -n
    <3>1. k \in 1..Depth /\ -(n + 1) = k - 1 /\ k - 1 \in 0..Depth
      BY <1>1, <2>1, <2>3 DEF Levels
    <3>2. h[n] = d[k]
      BY <1>6, <2>1, <2>3
    <3>3. h[n + 1] = d[k - 1]
      <4>1. CASE n + 1 >= 0
        <5>1. n + 1 = 0 /\ k - 1 = 0
          BY <2>1, <2>3, <4>1
        <5> QED
          BY <1>5, <1>6, <1>8, <5>1
      <4>2. CASE ~(n + 1 >= 0)
        BY <1>6, <2>1, <3>1, <4>2
      <4> QED
        BY <4>1, <4>2
    <3> HIDE DEF k
    <3>4. d[k - 1] \in Block128 /\ d[k] = D[d[k - 1]]
      BY <1>5, <3>1
    <3> QED
      BY <3>2, <3>3, <3>4
  <2> QED
    BY <2>1, <2>2, <2>3
<1> QED
  BY <1>5, <1>6, <1>7, <1>8, <1>9 DEF IsOrbit

Calling == phase \in {"idle", "encrypt", "decrypt"}

\* The types of the state.
CipherTypeOK ==
    /\ phase \in {"none", "schedule", "idle", "encrypt", "decrypt"}
    /\ round \in 0..32 /\ level \in Levels
    /\ pair \in Block128 \X Block128
    /\ block \in Block128 /\ plain \in Block128
    /\ phase = "encrypt" => round \in 1..9 /\ level < Depth
    /\ phase = "decrypt" => round \in 2..10 /\ -Depth < level

\* While the key schedule runs, every eighth step has left two round keys.
Scheduling ==
    phase = "schedule" =>
        /\ erk \in Seq(Block128) /\ Len(erk) = 2 + 2 * (round \div 8)
        /\ level = 0 /\ block = plain

\* The round keys of the two directions.
RoundKeysMatch ==
    Calling => erk \in RoundKeys
               /\ drk = [i \in 1..10 |-> IF i = 1 THEN erk[1] ELSE LBack[erk[i]]]

\* The block is the one that the calls so far make of plain, within a call too.
BlockFollows ==
    Calling =>
        \E Y, h :
            /\ IsEncryption(Y, erk) /\ IsOrbit(h, Y[10], plain)
            /\ phase = "idle" => block = h[level]
            /\ phase = "encrypt" => block = Y[round][h[level]]
            /\ phase = "decrypt" => block = Through(s, Y[round - 1][h[level - 1]])

CipherInv == CipherTypeOK /\ Scheduling /\ RoundKeysMatch /\ BlockFollows

\* The block of zeros is a block.
LEMMA ZeroIsBlock == Zero \in Block128
<1>1. 0 \in Octet
  BY DEF Octet
<1>2. Zero = [i \in 1..16 |-> 0]
  BY DEF Zero, Tabulate
<1> QED
  BY <1>1, <1>2 DEF Block128, Positions

\* The invariant holds before the first NewCipher.
LEMMA CipherInitInv == CipherInit => CipherInv
<1> SUFFICES ASSUME CipherInit  PROVE CipherInv
  OBVIOUS
<1>1. Zero \in Block128 /\ Depth \in Nat
  BY ZeroIsBlock, CipherAssumption
<1>2. phase = "none" /\ round = 0 /\ level = 0 /\ pair = <<Zero, Zero>>
      /\ block = Zero /\ plain = Zero
  BY DEF CipherInit
<1>3. CipherTypeOK
  BY <1>1, <1>2 DEF CipherTypeOK, Levels
<1> QED
  BY <1>2, <1>3 DEF CipherInv, Scheduling, RoundKeysMatch, BlockFollows, Calling

\* Sixteen bytes of a key are a block.
LEMMA KeyPart ==
    ASSUME NEW key \in Seq(Octet), NEW k \in Nat \ {0}, NEW n \in Nat, NEW w \in Nat,
           n <= Len(key), k + w = n + 1
    PROVE  SubSeq(key, k, n) \in [1..w -> Octet]
<1> DEFINE m == k - 1
           y == SubSeq(key, k, n)
<1>1. m \in Nat /\ m <= n /\ k = m + 1 /\ n - m = w
  OBVIOUS
<1>2. SubSeq(key, m + 1, n) \in Seq(Octet) /\ Len(SubSeq(key, m + 1, n)) = n - m
  <2> HIDE DEF m
  <2> QED
    BY <1>1, Sliced
<1>3. y \in Seq(Octet) /\ Len(y) = w
  BY <1>1, <1>2
<1> HIDE DEF y
<1>4. y \in [1..w -> Octet]
  BY <1>3, SequenceIsFunction
<1> QED
  BY <1>4 DEF y

\* The halves of a key are blocks.
LEMMA KeyHalves ==
    ASSUME NEW key \in Seq(Octet), Len(key) = 32
    PROVE  SubSeq(key, 1, 16) \in Block128 /\ SubSeq(key, 17, 32) \in Block128
<1>1. \A k \in Nat \ {0}, n, w \in Nat :
          n <= Len(key) /\ k + w = n + 1 => SubSeq(key, k, n) \in [1..w -> Octet]
  BY KeyPart
<1>2. SubSeq(key, 1, 16) \in [1..16 -> Octet]
  BY <1>1
<1>3. SubSeq(key, 17, 32) \in [1..16 -> Octet]
  BY <1>1
<1> QED
  BY <1>2, <1>3 DEF Block128, Positions

\* NewCipher starts the key schedule.
LEMMA NewCipherInv ==
    ASSUME CipherInv, NEW key \in Keys, NEW src \in Sources, NewCipher(key, src)
    PROVE  CipherInv'
<1>1. key \in Seq(Octet) /\ src \in Block128 /\ Depth \in Nat
  BY CipherAssumption
<1>2. /\ Len(key) = 32 /\ phase' = "schedule" /\ round' = 0 /\ level' = 0
      /\ pair' = <<SubSeq(key, 1, 16), SubSeq(key, 17, 32)>> /\ erk' = pair'
      /\ block' = src /\ plain' = src
  BY DEF NewCipher
<1> DEFINE a == SubSeq(key, 1, 16)
           b == SubSeq(key, 17, 32)
<1>3. a \in Block128 /\ b \in Block128
  BY <1>1, <1>2, KeyHalves
<1>4. pair' = <<a, b>> /\ erk' = <<a, b>>
  BY <1>2
<1> HIDE DEF a, b
<1>5. erk' \in Seq(Block128) /\ Len(erk') = 2
  BY <1>3, <1>4
<1>6. 2 + 2 * (0 \div 8) = 2 /\ 0 \in 0..32 /\ 0 \in Levels
  BY <1>1 DEF Levels
<1>7. CipherTypeOK'
  <2>1. pair' \in Block128 \X Block128
    BY <1>3, <1>4
  <2> QED
    BY <1>1, <1>2, <1>6, <2>1 DEF CipherTypeOK
<1>8. Scheduling'
  BY <1>2, <1>5, <1>6 DEF Scheduling
<1> QED
  BY <1>2, <1>7, <1>8 DEF CipherInv, RoundKeysMatch, BlockFollows, Calling

\* The constants of the key schedule, and a step of it, are blocks.
LEMMA ScheduleStep ==
    ASSUME NEW k \in Block128 \X Block128, NEW i \in 1..32
    PROVE  f(k, i) \in Block128 \X Block128
<1>1. k[1] \in Block128 /\ k[2] \in Block128
  OBVIOUS
<1>2. i \in Octet /\ 16 \in 1..16
  BY DEF Octet
<1>3. Unit(16, i) \in Block128
  BY <1>2, UnitIs
<1>4. L[Unit(16, i)] \in Block128 /\ L[Unit(16, i)] = LTransform(Unit(16, i))
  BY <1>3, Transformations DEF Linear, L
<1>5. c[i] = LTransform(Unit(16, i))
  BY DEF c, Tabulate
<1>6. xorBytes(k[1], c[i]) \in Block128
  BY <1>1, <1>4, <1>5, XorBlocks128
<1>7. ls(xorBytes(k[1], c[i])) \in Block128
  <2> DEFINE x == xorBytes(k[1], c[i])
  <2>1. ls(x) = L[Through(s, x)] /\ Through(s, x) \in Block128
    BY <1>6, LookupsAre, ThroughBoth
  <2> QED
    BY <2>1, Transformations DEF Linear
<1>8. xorBytes(ls(xorBytes(k[1], c[i])), k[2]) \in Block128
  BY <1>1, <1>7, XorBlocks128
<1> QED
  BY <1>1, <1>8 DEF f

\* A step of it leaves blocks, and every eighth two round keys.
LEMMA ScheduleInv ==
    ASSUME CipherInv, Schedule
    PROVE  CipherInv'
<1>1. /\ phase = "schedule" /\ round < 32 /\ pair' = f(pair, round + 1)
      /\ round' = round + 1
      /\ erk' = IF round' % 8 = 0 THEN erk \o pair' ELSE erk
      /\ phase' = phase /\ block' = block /\ plain' = plain /\ level' = level
  BY DEF Schedule
<1>2. CipherTypeOK /\ Scheduling
  BY DEF CipherInv
<1>3. round \in 0..31 /\ round + 1 \in 1..32 /\ round + 1 \in 0..32
  BY <1>1, <1>2 DEF CipherTypeOK
<1>4. pair' \in Block128 \X Block128
  BY <1>1, <1>2, <1>3, ScheduleStep DEF CipherTypeOK
<1>5. CipherTypeOK'
  BY <1>1, <1>2, <1>3, <1>4 DEF CipherTypeOK
<1>6. erk \in Seq(Block128) /\ Len(erk) = 2 + 2 * (round \div 8) /\ level = 0 /\ block = plain
  BY <1>1, <1>2 DEF Scheduling
<1>7. erk' \in Seq(Block128) /\ Len(erk') = 2 + 2 * (round' \div 8)
  <2>1. pair' \in Seq(Block128) /\ Len(pair') = 2
    <3>1. PICK a \in Block128, b \in Block128 : pair' = <<a, b>>
      BY <1>4
    <3> QED
      BY <3>1
  <2>2. CASE (round + 1) % 8 = 0
    <3>1. (round + 1) \div 8 = (round \div 8) + 1
      BY <1>3, <2>2
    <3>2. erk' = erk \o pair'
      BY <1>1, <2>2
    <3>3. erk \o pair' \in Seq(Block128) /\ Len(erk \o pair') = Len(erk) + Len(pair')
      BY <1>6, <2>1, Joined
    <3>4. round \div 8 \in Nat
      BY <1>3
    <3> DEFINE q == round \div 8
    <3>5. Len(erk) = 2 + 2 * q /\ round' \div 8 = q + 1 /\ q \in Nat
      BY <1>1, <1>6, <3>1, <3>4
    <3> HIDE DEF q
    <3>6. 2 + 2 * (round' \div 8) = 2 + 2 * (q + 1)
      BY <3>5
    <3>7. Len(erk') = (2 + 2 * q) + 2
      BY <2>1, <3>2, <3>3, <3>5
    <3> QED
      BY <3>2, <3>3, <3>5, <3>6, <3>7
  <2>3. CASE (round + 1) % 8 # 0
    <3>1. (round + 1) \div 8 = round \div 8
      BY <1>3, <2>3
    <3>2. erk' = erk
      BY <1>1, <2>3
    <3> QED
      BY <1>1, <1>6, <3>1, <3>2
  <2> QED
    BY <2>2, <2>3
<1>8. Scheduling'
  BY <1>1, <1>6, <1>7 DEF Scheduling
<1> QED
  BY <1>1, <1>5, <1>8 DEF CipherInv, RoundKeysMatch, BlockFollows, Calling

\* The schedule ends with ten round keys; they make a permutation, and so an orbit.
LEMMA ScheduledInv ==
    ASSUME CipherInv, Scheduled
    PROVE  CipherInv'
<1>1. /\ phase = "schedule" /\ round = 32 /\ phase' = "idle"
      /\ drk' = Tabulate(LAMBDA i : IF i = 1 THEN erk[1] ELSE ilss(erk[i]), 10)
      /\ round' = round /\ pair' = pair /\ erk' = erk /\ block' = block
      /\ plain' = plain /\ level' = level
  BY DEF Scheduled
<1>2. CipherTypeOK /\ Scheduling /\ Depth \in Nat
  BY CipherAssumption DEF CipherInv
<1>3. erk \in Seq(Block128) /\ Len(erk) = 10 /\ level = 0 /\ block = plain
  <2>1. 2 + 2 * (32 \div 8) = 10
    OBVIOUS
  <2> QED
    BY <1>1, <1>2, <2>1 DEF Scheduling
<1>4. erk \in RoundKeys
  <2>1. 10 \in Nat
    OBVIOUS
  <2> QED
    BY <1>3, <2>1, SequenceIsFunction DEF RoundKeys
<1>5. drk' = [i \in 1..10 |-> IF i = 1 THEN erk[1] ELSE LBack[erk[i]]]
  <2>1. drk' = [i \in 1..10 |-> IF i = 1 THEN erk[1] ELSE ilss(erk[i])]
    BY <1>1 DEF Tabulate
  <2>2. \A i \in 1..10 : ilss(erk[i]) = LBack[erk[i]]
    BY <1>4, LookupsAre DEF RoundKeys
  <2> QED
    BY <2>1, <2>2
<1>6. RoundKeysMatch'
  BY <1>1, <1>4, <1>5 DEF RoundKeysMatch
<1>7. PICK Y : IsEncryption(Y, erk)
  BY <1>4, EncryptionExists
<1>8. PICK D \in BlockFunctions : \A x \in Block128 : D[Y[10][x]] = x /\ Y[10][D[x]] = x
  BY <1>4, <1>7, EncryptionIsPermutation
<1>9. Y[10] \in BlockFunctions /\ plain \in Block128
  BY <1>2, <1>7 DEF IsEncryption, CipherTypeOK
<1>10. PICK h : IsOrbit(h, Y[10], plain)
  BY <1>8, <1>9, OrbitExists
<1>11. BlockFollows'
  <2>1. block' = h[level']
    BY <1>1, <1>3, <1>10 DEF IsOrbit
  <2>2. IsEncryption(Y, erk') /\ IsOrbit(h, Y[10], plain')
    BY <1>1, <1>7, <1>10
  <2> QED
    BY <1>1, <2>1, <2>2 DEF BlockFollows
<1>12. CipherTypeOK'
  BY <1>1, <1>2 DEF CipherTypeOK
<1> QED
  BY <1>1, <1>6, <1>11, <1>12 DEF CipherInv, Scheduling

\* Within a call, and between calls, the round keys are blocks.
LEMMA CallingFacts ==
    ASSUME CipherInv, Calling
    PROVE  /\ erk \in RoundKeys /\ block \in Block128 /\ Depth \in Nat
           /\ \A k \in 1..10 : erk[k] \in Block128
           /\ drk[1] = erk[1] /\ \A k \in 2..10 : drk[k] = LBack[erk[k]]
<1>1. erk \in RoundKeys /\ drk = [i \in 1..10 |-> IF i = 1 THEN erk[1] ELSE LBack[erk[i]]]
  BY DEF CipherInv, RoundKeysMatch
<1> QED
  BY <1>1, CipherAssumption DEF CipherInv, CipherTypeOK, RoundKeys

\* The blocks of an encryption.
LEMMA EncryptionIs ==
    ASSUME NEW e, NEW Y, IsEncryption(Y, e), NEW x \in Block128
    PROVE  /\ \A k \in 1..10 : Y[k][x] \in Block128
           /\ Y[1][x] = xorBytes(x, e[1])
           /\ \A k \in 2..10 : Y[k][x] = Round(Y[k - 1][x], e[k])
  BY DEF IsEncryption, BlockFunctions

\* The steps that do not call NewCipher keep the round keys.
LEMMA KeysStay ==
    ASSUME CipherInv, Calling, erk' = erk, drk' = drk
    PROVE  RoundKeysMatch'
  BY DEF CipherInv, RoundKeysMatch

\* BlockEncrypt adds the first round key.
LEMMA BlockEncryptInv ==
    ASSUME CipherInv, BlockEncrypt
    PROVE  CipherInv'
<1>1. /\ phase = "idle" /\ level < Depth /\ phase' = "encrypt" /\ round' = 1
      /\ block' = xorBytes(block, erk[1])
      /\ pair' = pair /\ erk' = erk /\ drk' = drk /\ plain' = plain /\ level' = level
  BY DEF BlockEncrypt
<1>2. CipherTypeOK /\ Calling /\ BlockFollows
  BY <1>1 DEF CipherInv, Calling
<1>3. erk[1] \in Block128 /\ block \in Block128
  BY <1>2, CallingFacts
<1>4. block' \in Block128
  BY <1>1, <1>3, AddTwice
<1>5. CipherTypeOK'
  BY <1>1, <1>2, <1>4 DEF CipherTypeOK
<1>6. PICK Y, h : IsEncryption(Y, erk) /\ IsOrbit(h, Y[10], plain) /\ block = h[level]
  BY <1>1, <1>2 DEF BlockFollows
<1>7. block' = Y[1][h[level]]
  BY <1>1, <1>3, <1>6, EncryptionIs
<1>8. BlockFollows'
  <2>1. IsEncryption(Y, erk') /\ IsOrbit(h, Y[10], plain') /\ block' = Y[round'][h[level']]
    BY <1>1, <1>6, <1>7
  <2> QED
    BY <1>1, <2>1 DEF BlockFollows
<1>9. RoundKeysMatch'
  BY <1>1, <1>2, KeysStay
<1> QED
  BY <1>1, <1>5, <1>8, <1>9 DEF CipherInv, Scheduling

\* A round of the encryption is a round of Y.
LEMMA EncryptRoundInv ==
    ASSUME CipherInv, EncryptRound
    PROVE  CipherInv'
<1>1. /\ phase = "encrypt" /\ round' = round + 1
      /\ block' = xorBytes(ls(block), erk[round'])
      /\ IF round' = 10 THEN phase' = "idle" /\ level' = level + 1
                        ELSE phase' = phase /\ level' = level
      /\ pair' = pair /\ erk' = erk /\ drk' = drk /\ plain' = plain
  BY DEF EncryptRound
<1>2. CipherTypeOK /\ Calling /\ BlockFollows
  BY <1>1 DEF CipherInv, Calling
<1>3. round \in 1..9 /\ round' \in 2..10 /\ round' \in 1..10 /\ round' - 1 = round
      /\ level < Depth /\ level \in Levels /\ Depth \in Nat
  BY <1>1, <1>2, CallingFacts DEF CipherTypeOK
<1>4. level + 1 \in Levels
  BY <1>3 DEF Levels
<1>5. erk[round'] \in Block128 /\ block \in Block128
  BY <1>2, <1>3, CallingFacts
<1>6. block' = Round(block, erk[round'])
  BY <1>1, <1>5, LookupsAre DEF Round
<1>7. block' \in Block128
  BY <1>5, <1>6, RoundIs
<1>8. CipherTypeOK'
  <2>1. CASE round' = 10
    BY <1>1, <1>2, <1>4, <1>7, <2>1 DEF CipherTypeOK
  <2>2. CASE round' # 10
    <3>1. round' \in 1..9
      BY <1>3, <2>2
    <3> QED
      BY <1>1, <1>2, <1>3, <1>7, <2>2, <3>1 DEF CipherTypeOK
  <2> QED
    BY <2>1, <2>2
<1>9. PICK Y, h : IsEncryption(Y, erk) /\ IsOrbit(h, Y[10], plain) /\ block = Y[round][h[level]]
  BY <1>1, <1>2 DEF BlockFollows
<1>10. h[level] \in Block128 /\ h[level + 1] = Y[10][h[level]]
  BY <1>3, <1>9 DEF IsOrbit
<1>11. block' = Y[round'][h[level]]
  <2>1. Y[round'][h[level]] = Round(Y[round' - 1][h[level]], erk[round'])
    BY <1>3, <1>9, <1>10, EncryptionIs
  <2> QED
    BY <1>3, <1>6, <1>9, <2>1
<1>12. BlockFollows'
  <2>1. IsEncryption(Y, erk') /\ IsOrbit(h, Y[10], plain')
    BY <1>1, <1>9
  <2>2. CASE round' = 10
    <3>1. phase' = "idle" /\ block' = h[level']
      BY <1>1, <1>10, <1>11, <2>2
    <3> QED
      BY <2>1, <3>1 DEF BlockFollows
  <2>3. CASE round' # 10
    <3>1. phase' = "encrypt" /\ block' = Y[round'][h[level']]
      BY <1>1, <1>11, <2>3
    <3> QED
      BY <2>1, <3>1 DEF BlockFollows
  <2> QED
    BY <2>2, <2>3
<1>13. RoundKeysMatch'
  BY <1>1, <1>2, KeysStay
<1>14. phase' # "schedule"
  BY <1>1
<1> QED
  BY <1>8, <1>12, <1>13, <1>14 DEF CipherInv, Scheduling

\* BlockDecrypt takes the last round key and the last transformation away.
LEMMA BlockDecryptInv ==
    ASSUME CipherInv, BlockDecrypt
    PROVE  CipherInv'
<1>1. /\ phase = "idle" /\ -Depth < level /\ phase' = "decrypt" /\ round' = 10
      /\ block' = xorBytes(ilss(block), drk[10])
      /\ pair' = pair /\ erk' = erk /\ drk' = drk /\ plain' = plain /\ level' = level
  BY DEF BlockDecrypt
<1>2. CipherTypeOK /\ Calling /\ BlockFollows
  BY <1>1 DEF CipherInv, Calling
<1>3. /\ erk[10] \in Block128 /\ block \in Block128 /\ Depth \in Nat
      /\ drk[10] = LBack[erk[10]]
  BY <1>2, CallingFacts
<1>4. level \in Levels /\ level - 1 \in Levels /\ level - 1 < Depth /\ (level - 1) + 1 = level
  <2>1. level \in Levels
    BY <1>2 DEF CipherTypeOK
  <2> QED
    BY <1>1, <1>3, <2>1 DEF Levels
<1>5. PICK Y, h : IsEncryption(Y, erk) /\ IsOrbit(h, Y[10], plain) /\ block = h[level]
  BY <1>1, <1>2 DEF BlockFollows
<1>6. h[level - 1] \in Block128 /\ h[level] = Y[10][h[level - 1]]
  BY <1>4, <1>5 DEF IsOrbit
<1> DEFINE x == h[level - 1]
<1>7. block = Round(Y[9][x], erk[10]) /\ Y[9][x] \in Block128
  <2>1. Y[10][x] = Round(Y[10 - 1][x], erk[10]) /\ 10 - 1 = 9 /\ Y[9][x] \in Block128
    BY <1>5, <1>6, EncryptionIs
  <2> QED
    BY <1>5, <1>6, <2>1
<1> HIDE DEF x
<1>8. block' = xorBytes(LBack[block], LBack[erk[10]])
  BY <1>1, <1>3, LookupsAre
<1>9. block' = Through(s, Y[9][x])
  BY <1>3, <1>7, <1>8, RoundIs
<1>10. block' \in Block128
  BY <1>7, <1>9, ThroughBoth
<1>11. CipherTypeOK'
  BY <1>1, <1>2, <1>10 DEF CipherTypeOK
<1>12. BlockFollows'
  <2>1. IsEncryption(Y, erk') /\ IsOrbit(h, Y[10], plain')
    BY <1>1, <1>5
  <2>2. round' - 1 = 9 /\ block' = Through(s, Y[round' - 1][h[level' - 1]])
    BY <1>1, <1>9 DEF x
  <2> QED
    BY <1>1, <2>1, <2>2 DEF BlockFollows
<1>13. RoundKeysMatch'
  BY <1>1, <1>2, KeysStay
<1> QED
  BY <1>1, <1>11, <1>12, <1>13 DEF CipherInv, Scheduling

\* A round of the decryption undoes one of Y.
LEMMA DecryptRoundInv ==
    ASSUME CipherInv, DecryptRound
    PROVE  CipherInv'
<1>1. /\ phase = "decrypt" /\ round > 2 /\ phase' = phase /\ round' = round - 1
      /\ block' = xorBytes(ils(block), drk[round'])
      /\ pair' = pair /\ erk' = erk /\ drk' = drk /\ plain' = plain /\ level' = level
  BY DEF DecryptRound
<1>2. CipherTypeOK /\ Calling /\ BlockFollows
  BY <1>1 DEF CipherInv, Calling
<1>3. /\ round \in 2..10 /\ -Depth < level /\ level \in Levels
      /\ Depth \in Nat /\ block \in Block128
  BY <1>1, <1>2, CallingFacts DEF CipherTypeOK
<1> DEFINE k == round - 1
<1>4. k \in 2..10 /\ k \in 1..10 /\ k - 1 \in 1..10 /\ round' = k
  BY <1>1, <1>3
<1>5. erk[k] \in Block128 /\ drk[k] = LBack[erk[k]]
  BY <1>2, <1>4, CallingFacts
<1>6. level - 1 \in Levels
  BY <1>3 DEF Levels
<1>7. PICK Y, h : /\ IsEncryption(Y, erk) /\ IsOrbit(h, Y[10], plain)
                  /\ block = Through(s, Y[round - 1][h[level - 1]])
  BY <1>1, <1>2 DEF BlockFollows
<1> DEFINE x == h[level - 1]
           y == Y[k][x]
           z == Y[k - 1][x]
<1>8. x \in Block128 /\ block = Through(s, y)
  BY <1>6, <1>7 DEF IsOrbit
<1>9. y \in Block128 /\ z \in Block128 /\ y = Round(z, erk[k])
  BY <1>4, <1>7, <1>8, EncryptionIs
<1> HIDE DEF k, x, y, z
<1>10. ils(block) = LBack[y]
  <2>1. ils(block) = LBack[Through(is, block)]
    BY <1>3, LookupsAre
  <2> QED
    BY <1>8, <1>9, <2>1, ThroughBoth
<1>11. block' = xorBytes(LBack[y], LBack[erk[k]])
  BY <1>1, <1>4, <1>5, <1>10
<1>12. block' = Through(s, z)
  BY <1>5, <1>9, <1>11, RoundIs
<1>13. block' \in Block128
  BY <1>9, <1>12, ThroughBoth
<1>14. CipherTypeOK'
  <2>1. round' \in 2..10 /\ round' \in 0..32
    BY <1>4
  <2> QED
    BY <1>1, <1>2, <1>13, <2>1 DEF CipherTypeOK
<1>15. BlockFollows'
  <2>1. IsEncryption(Y, erk') /\ IsOrbit(h, Y[10], plain')
    BY <1>1, <1>7
  <2>2. block' = Through(s, Y[round' - 1][h[level' - 1]])
    BY <1>1, <1>4, <1>12 DEF z, x
  <2> QED
    BY <1>1, <2>1, <2>2 DEF BlockFollows
<1>16. RoundKeysMatch'
  BY <1>1, <1>2, KeysStay
<1> QED
  BY <1>1, <1>14, <1>15, <1>16 DEF CipherInv, Scheduling

\* The last one takes the first round key away.
LEMMA DecryptLastInv ==
    ASSUME CipherInv, DecryptLast
    PROVE  CipherInv'
<1>1. /\ phase = "decrypt" /\ round = 2 /\ phase' = "idle" /\ level' = level - 1
      /\ round' = 1 /\ block' = xorBytes(isi(block), drk[1])
      /\ pair' = pair /\ erk' = erk /\ drk' = drk /\ plain' = plain
  BY DEF DecryptLast
<1>2. CipherTypeOK /\ Calling /\ BlockFollows
  BY <1>1 DEF CipherInv, Calling
<1>3. /\ -Depth < level /\ level \in Levels /\ Depth \in Nat /\ block \in Block128
      /\ erk[1] \in Block128 /\ drk[1] = erk[1]
  BY <1>1, <1>2, CallingFacts DEF CipherTypeOK
<1>4. level - 1 \in Levels
  BY <1>3 DEF Levels
<1>5. PICK Y, h : /\ IsEncryption(Y, erk) /\ IsOrbit(h, Y[10], plain)
                  /\ block = Through(s, Y[round - 1][h[level - 1]])
  BY <1>1, <1>2 DEF BlockFollows
<1> DEFINE x == h[level - 1]
           y == Y[1][x]
<1>6. x \in Block128 /\ block = Through(s, y)
  <2>1. round - 1 = 1
    BY <1>1
  <2> QED
    BY <1>4, <1>5, <2>1 DEF IsOrbit
<1>7. y \in Block128 /\ y = xorBytes(x, erk[1])
  BY <1>5, <1>6, EncryptionIs
<1> HIDE DEF x, y
<1>8. isi(block) = y
  <2>1. isi(block) = Through(is, block)
    BY <1>3, LookupsAre
  <2> QED
    BY <1>6, <1>7, <2>1, ThroughBoth
<1>9. block' = x
  BY <1>1, <1>3, <1>6, <1>7, <1>8, AddTwice
<1>10. CipherTypeOK'
  BY <1>1, <1>2, <1>4, <1>6, <1>9 DEF CipherTypeOK
<1>11. BlockFollows'
  <2>1. IsEncryption(Y, erk') /\ IsOrbit(h, Y[10], plain') /\ block' = h[level']
    BY <1>1, <1>5, <1>9 DEF x
  <2> QED
    BY <1>1, <2>1 DEF BlockFollows
<1>12. RoundKeysMatch'
  BY <1>1, <1>2, KeysStay
<1> QED
  BY <1>1, <1>10, <1>11, <1>12 DEF CipherInv, Scheduling

\* Zeroing the key ends the calls.
LEMMA ZeroKeyInv ==
    ASSUME CipherInv, ZeroKey
    PROVE  CipherInv'
<1>1. /\ phase' = "none" /\ round' = round /\ pair' = pair /\ block' = block
      /\ plain' = plain /\ level' = level
  BY DEF ZeroKey
<1>2. CipherTypeOK'
  BY <1>1 DEF CipherInv, CipherTypeOK
<1> QED
  BY <1>1, <1>2 DEF CipherInv, Scheduling, RoundKeysMatch, BlockFollows, Calling

\* Every step preserves the invariant.
LEMMA CipherNextInv ==
    ASSUME CipherInv, [CipherNext]_cipherVars
    PROVE  CipherInv'
<1>1. CASE \E key \in Keys, src \in Sources : NewCipher(key, src)
  BY <1>1, NewCipherInv
<1>2. CASE Schedule
  BY <1>2, ScheduleInv
<1>3. CASE Scheduled
  BY <1>3, ScheduledInv
<1>4. CASE BlockEncrypt
  BY <1>4, BlockEncryptInv
<1>5. CASE EncryptRound
  BY <1>5, EncryptRoundInv
<1>6. CASE BlockDecrypt
  BY <1>6, BlockDecryptInv
<1>7. CASE DecryptRound
  BY <1>7, DecryptRoundInv
<1>8. CASE DecryptLast
  BY <1>8, DecryptLastInv
<1>9. CASE ZeroKey
  BY <1>9, ZeroKeyInv
<1>10. CASE UNCHANGED cipherVars
  BY <1>10 DEF cipherVars, CipherInv, CipherTypeOK, Scheduling, RoundKeysMatch,
               BlockFollows, Calling
<1> QED
  BY <1>1, <1>2, <1>3, <1>4, <1>5, <1>6, <1>7, <1>8, <1>9, <1>10 DEF CipherNext

\* The invariant says what it is needed for.
LEMMA CipherInvImplies == CipherInv => CipherInverts
<1> SUFFICES ASSUME CipherInv, phase = "idle", level = 0  PROVE block = plain
  BY DEF CipherInverts
<1>1. PICK Y, h : IsOrbit(h, Y[10], plain) /\ block = h[level]
  BY DEF CipherInv, BlockFollows, Calling
<1> QED
  BY <1>1 DEF IsOrbit

\* Decrypt undoes Encrypt, and Encrypt undoes Decrypt, in every sequence of calls, with
\* any key of 32 bytes and any block.
THEOREM CipherInvertsInvariant == CipherSpec => []CipherInverts
<1>1. CipherInit => CipherInv
  BY CipherInitInv
<1>2. CipherInv /\ [CipherNext]_cipherVars => CipherInv'
  BY CipherNextInv
<1>3. CipherInv => CipherInverts
  BY CipherInvImplies
<1> QED
  BY <1>1, <1>2, <1>3, PTL DEF CipherSpec

=============================================================================
