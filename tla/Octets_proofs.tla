--------------------------- MODULE Octets_proofs ----------------------------
(***************************************************************************)
(* What the proofs about the cipher and about the modes of operation share: *)
(* induction and recursion over numbers, sequences, and that the exclusive  *)
(* or of bytes is a commutative group.                                      *)
(***************************************************************************)
EXTENDS Octets, TLAPS, WellFoundedInduction, SequenceTheorems

-----------------------------------------------------------------------------
(* Numbers and sequences.  (The library's induction and recursion theorems take an
   operator; with a set of numbers, or a function of steps, in its place they follow
   from what it says of well-founded relations.) *)

\* A set of numbers with 0 in it, and with n + 1 for every n in it, has them all.
LEMMA Induction ==
    ASSUME NEW P, 0 \in P, \A n \in Nat : n \in P => n + 1 \in P
    PROVE  Nat \subseteq P
<1> DEFINE R == OpToRel(<, Nat)
           T == Nat \ P
<1> SUFFICES ASSUME T # {}  PROVE FALSE
  OBVIOUS
<1>1. IsWellFoundedOn(R, Nat)
  BY NatLessThanWellFounded
<1>2. \A m, n \in Nat : m < n => <<m, n>> \in R
  BY DEF OpToRel
<1> HIDE DEF R
<1>3. \E x \in T : \A y \in T : <<y, x>> \notin R
  BY <1>1, WFMin
<1>4. PICK x \in T : \A y \in T : <<y, x>> \notin R
  BY <1>3
<1>5. x # 0 /\ x - 1 \in Nat /\ x - 1 < x
  BY <1>4
<1>6. x - 1 \notin T
  BY <1>2, <1>4, <1>5
<1> QED
  BY <1>4, <1>5, <1>6

\* g[k] is the k-th step on the values in S, and h the first n results from first.
IsStep(g, S) == g \in [Nat -> [S -> S]]
IsIterated(h, n, first, g, S) ==
    /\ h \in [0..n -> S]
    /\ h[0] = first
    /\ \A k \in 1..n : h[k] = g[k][h[k - 1]]

\* The first n iterates of any steps on S exist, as one function.
LEMMA Recursion ==
    ASSUME NEW S, NEW first \in S, NEW g, IsStep(g, S), NEW n \in Nat
    PROVE  \E h : IsIterated(h, n, first, g, S)
<1> DEFINE Is(h, m) == IsIterated(h, m, first, g, S)
           P == {m \in Nat : \E h : Is(h, m)}
<1> USE DEF IsStep, IsIterated
<1>1. 0 \in P
  <2>1. Is([k \in 0..0 |-> first], 0)
    OBVIOUS
  <2> QED
    BY <2>1
<1>2. ASSUME NEW m \in Nat, m \in P  PROVE m + 1 \in P
  <2>1. PICK h : Is(h, m)
    BY <1>2
  <2> DEFINE f == [k \in 0..m + 1 |-> IF k = m + 1 THEN g[m + 1][h[m]] ELSE h[k]]
  <2>2. h[m] \in S /\ g[m + 1] \in [S -> S]
    BY <2>1
  <2>3. f \in [0..m + 1 -> S] /\ f[0] = first
    BY <2>1, <2>2
  <2>4. ASSUME NEW k \in 1..m + 1  PROVE f[k] = g[k][f[k - 1]]
    <3>1. CASE k = m + 1
      <4>1. f[k] = g[m + 1][h[m]] /\ f[k - 1] = h[m]
        BY <3>1
      <4> QED
        BY <3>1, <4>1
    <3>2. CASE k # m + 1
      <4>1. k \in 1..m /\ f[k] = h[k] /\ f[k - 1] = h[k - 1]
        BY <3>2
      <4> QED
        BY <2>1, <4>1
    <3> QED
      BY <3>1, <3>2
  <2>5. Is(f, m + 1)
    BY <2>3, <2>4
  <2> HIDE DEF f
  <2> QED
    BY <2>5
<1>3. n \in P
  <2> HIDE DEF P
  <2>1. \A m \in Nat : m \in P => m + 1 \in P
    BY <1>2
  <2>2. Nat \subseteq P
    BY <1>1, <2>1, Induction
  <2> QED
    BY <2>2
<1> QED
  BY <1>3

\* Quotient and remainder.
LEMMA Division ==
    ASSUME NEW n \in Nat, NEW d \in Nat \ {0}
    PROVE  /\ n \div d \in Nat /\ n % d \in 0..d - 1
           /\ n = (n \div d) * d + (n % d)
  OBVIOUS

\* A larger number has the larger multiple.
LEMMA TimesMonotonic ==
    ASSUME NEW a \in Nat, NEW b \in Nat, NEW d \in Nat, a <= b
    PROVE  a * d <= b * d
<1>1. (b - a) \in Nat /\ (b - a) * d \in Nat
  OBVIOUS
<1>2. (b - a) * d = b * d - a * d
  OBVIOUS
<1> QED
  BY <1>1, <1>2

\* One half of the uniqueness of quotients.
LEMMA QuotientLess ==
    ASSUME NEW d \in Nat, NEW q \in Nat, NEW r \in 0..d - 1,
           NEW p \in Nat, NEW s \in 0..d - 1, q * d + r = p * d + s
    PROVE  p <= q
<1> SUFFICES ASSUME q + 1 <= p  PROVE FALSE
  OBVIOUS
<1>1. (q + 1) * d <= p * d
  BY TimesMonotonic
<1>2. (q + 1) * d = q * d + d
  OBVIOUS
<1>3. q * d \in Nat /\ p * d \in Nat
  OBVIOUS
<1> QED
  BY <1>1, <1>2, <1>3

\* A number has one quotient and one remainder.
LEMMA QuotientUnique ==
    ASSUME NEW d \in Nat, NEW q \in Nat, NEW r \in 0..d - 1,
           NEW p \in Nat, NEW s \in 0..d - 1, q * d + r = p * d + s
    PROVE  p = q /\ r = s
<1>1. p <= q /\ q <= p
  BY QuotientLess
<1>2. p = q
  BY <1>1
<1>3. p * d \in Nat /\ q * d = p * d
  BY <1>2
<1> QED
  BY <1>2, <1>3

\* What div and % make of a multiple and a remainder.
LEMMA DivisionUnique ==
    ASSUME NEW d \in Nat \ {0}, NEW q \in Nat, NEW r \in 0..d - 1
    PROVE  (q * d + r) \div d = q /\ (q * d + r) % d = r
<1>1. q * d + r \in Nat
  OBVIOUS
<1> QED
  BY <1>1, Division, QuotientUnique

\* The elements of two sequences joined.
LEMMA Joined ==
    ASSUME NEW S, NEW a \in Seq(S), NEW b \in Seq(S)
    PROVE  /\ a \o b \in Seq(S) /\ Len(a \o b) = Len(a) + Len(b)
           /\ \A i \in 1..Len(a) : (a \o b)[i] = a[i]
           /\ \A i \in 1..Len(b) : (a \o b)[Len(a) + i] = b[i]
<1>1. a \o b \in Seq(S) /\ Len(a \o b) = Len(a) + Len(b)
  BY ConcatProperties
<1>2. \A i \in 1..Len(a) + Len(b) :
          (a \o b)[i] = IF i <= Len(a) THEN a[i] ELSE b[i - Len(a)]
  BY ConcatProperties
<1>3. Len(a) \in Nat /\ Len(b) \in Nat
  OBVIOUS
<1>4. \A i \in 1..Len(a) : (a \o b)[i] = a[i]
  BY <1>2, <1>3
<1>5. ASSUME NEW i \in 1..Len(b)  PROVE (a \o b)[Len(a) + i] = b[i]
  <2>1. Len(a) + i \in 1..Len(a) + Len(b) /\ ~ Len(a) + i <= Len(a) /\ Len(a) + i - Len(a) = i
    BY <1>3
  <2> QED
    BY <1>2, <2>1
<1> QED
  BY <1>1, <1>4, <1>5

\* The elements of a slice.
LEMMA Sliced ==
    ASSUME NEW S, NEW a \in Seq(S), NEW m \in Nat, NEW n \in Nat, m <= n, n <= Len(a)
    PROVE  /\ SubSeq(a, m + 1, n) \in Seq(S) /\ Len(SubSeq(a, m + 1, n)) = n - m
           /\ \A i \in 1..n - m : SubSeq(a, m + 1, n)[i] = a[m + i]
  OBVIOUS

\* Two functions with the same recursion on 0 to 16 are equal there.
LEMMA SameRecursion ==
    ASSUME NEW p, NEW q, p[0] = q[0], \A k \in 1..16 : p[k - 1] = q[k - 1] => p[k] = q[k]
    PROVE  \A n \in 0..16 : p[n] = q[n]
<1> DEFINE P == {n \in Nat : n <= 16 => p[n] = q[n]}
<1>1. 0 \in P
  OBVIOUS
<1>2. ASSUME NEW n \in Nat, n \in P  PROVE n + 1 \in P
  <2> SUFFICES ASSUME n + 1 <= 16  PROVE p[n + 1] = q[n + 1]
    OBVIOUS
  <2>1. n + 1 \in 1..16 /\ (n + 1) - 1 = n /\ p[n] = q[n]
    BY <1>2
  <2> QED
    BY <2>1
<1> HIDE DEF P
<1>3. Nat \subseteq P
  BY <1>1, <1>2, Induction
<1> QED
  BY <1>3 DEF P

\* A set of numbers with 1 in it, and with every number after one below n, holds
\* all from 1 to n.
LEMMA UpTo ==
    ASSUME NEW P, NEW n \in Nat, 1 \in P, \A k \in 2..n : k - 1 \in P => k \in P
    PROVE  1..n \subseteq P
<1> DEFINE Q == {m \in Nat : m + 1 \in 1..n => m + 1 \in P}
<1>1. 0 \in Q
  OBVIOUS
<1>2. ASSUME NEW m \in Nat, m \in Q  PROVE m + 1 \in Q
  <2> SUFFICES ASSUME (m + 1) + 1 \in 1..n  PROVE (m + 1) + 1 \in P
    OBVIOUS
  <2> DEFINE k == (m + 1) + 1
  <2>1. m + 1 \in P /\ k \in 2..n /\ k - 1 = m + 1
    BY <1>2
  <2> QED
    BY <2>1
<1> HIDE DEF Q
<1>3. Nat \subseteq Q
  BY <1>1, <1>2, Induction
<1>4. ASSUME NEW k \in 1..n  PROVE k \in P
  <2>1. k - 1 \in Nat /\ (k - 1) + 1 = k
    OBVIOUS
  <2> QED
    BY <1>3, <2>1 DEF Q
<1> QED
  BY <1>4

\* A function on 1 to n is a sequence.
LEMMA FunctionIsSequence ==
    ASSUME NEW S, NEW n \in Nat, NEW y \in [1..n -> S]
    PROVE  y \in Seq(S) /\ Len(y) = n
  OBVIOUS

\* A sequence is a function.
LEMMA SequenceIsFunction ==
    ASSUME NEW S, NEW m \in Nat, NEW y \in Seq(S), Len(y) = m
    PROVE  y \in [1..m -> S]
  OBVIOUS

\* The first bytes of a sequence, and all but its first.
LEMMA PartsOfSequence ==
    ASSUME NEW S, NEW x \in Seq(S), NEW n \in Nat, Len(x) = n + 1
    PROVE  /\ SubSeq(x, 1, n) \in Seq(S) /\ Len(SubSeq(x, 1, n)) = n
           /\ \A i \in 1..n : SubSeq(x, 1, n)[i] = x[i]
           /\ Tail(x) \in Seq(S) /\ Len(Tail(x)) = n
           /\ \A i \in 1..n : Tail(x)[i] = x[i + 1]
           /\ x[1] \in S /\ Head(x) = x[1]
<1>1. SubSeq(x, 1, n) \in Seq(S) /\ Len(SubSeq(x, 1, n)) = n
  OBVIOUS
<1>2. \A i \in 1..n : SubSeq(x, 1, n)[i] = x[i]
  OBVIOUS
<1>3. x # <<>>
  OBVIOUS
<1>4. Tail(x) \in Seq(S) /\ Len(Tail(x)) = n
  BY <1>3
<1>5. \A i \in 1..n : Tail(x)[i] = x[i + 1]
  BY <1>3
<1>6. x[1] \in S /\ Head(x) = x[1]
  BY <1>3
<1> QED
  BY <1>1, <1>2, <1>4, <1>5, <1>6

\* A sequence and one more element.
LEMMA OneMore ==
    ASSUME NEW S, NEW x \in Seq(S), NEW n \in Nat, Len(x) = n, NEW d \in S
    PROVE  /\ x \o <<d>> \in [1..n + 1 -> S]
           /\ (x \o <<d>>)[n + 1] = d /\ \A i \in 1..n : (x \o <<d>>)[i] = x[i]
<1>1. <<d>> \in Seq(S) /\ Len(<<d>>) = 1 /\ <<d>>[1] = d
  OBVIOUS
<1>2. x \o <<d>> \in Seq(S) /\ Len(x \o <<d>>) = n + 1
  BY <1>1
<1>3. \A i \in 1..n : (x \o <<d>>)[i] = x[i]
  BY <1>1
<1>4. (x \o <<d>>)[n + 1] = <<d>>[1]
  BY <1>1
<1>5. x \o <<d>> \in [1..n + 1 -> S]
  <2> DEFINE y == x \o <<d>>
             m == n + 1
  <2>1. y \in Seq(S) /\ Len(y) = m /\ m \in Nat
    BY <1>2
  <2> HIDE DEF y, m
  <2>2. y \in [1..m -> S]
    BY <2>1, SequenceIsFunction
  <2> QED
    BY <2>2 DEF y, m
<1> QED
  BY <1>1, <1>3, <1>4, <1>5

-----------------------------------------------------------------------------
(* The exclusive or. *)

\* x satisfies the recursive definition in xorTable for the first arguments below n.
IsXor(x, n) ==
    /\ x \in [Octet -> [Octet -> Nat]]
    /\ \A a, b \in Octet : a < n =>
           x[a][b] = IF a = 0 THEN b
                     ELSE IF b = 0 THEN a
                     ELSE 2 * x[a \div 2][b \div 2] + ((a + b) % 2)

\* A number is twice its half, and its lowest bit.
LEMMA Halves ==
    ASSUME NEW a \in Nat
    PROVE  /\ a \div 2 \in Nat /\ a % 2 \in 0..1 /\ a = 2 * (a \div 2) + (a % 2)
           /\ a > 0 => a \div 2 < a
           /\ a \in Octet => a \div 2 \in Octet
  BY DEF Octet

\* A function that satisfies the recursive definition of the table exists: it is
\* built by recursion over the first argument.
LEMMA XorExists == \E x : IsXor(x, 256)
<1> DEFINE P == {n \in Nat : \E x : IsXor(x, n)}
<1>1. 0 \in P
  <2>1. [a \in Octet |-> [b \in Octet |-> 0]] \in [Octet -> [Octet -> Nat]]
    OBVIOUS
  <2>2. IsXor([a \in Octet |-> [b \in Octet |-> 0]], 0)
    BY <2>1 DEF IsXor, Octet
  <2> QED
    BY <2>2
<1>2. ASSUME NEW n \in Nat, n \in P  PROVE n + 1 \in P
  <2>1. PICK x : IsXor(x, n)
    BY <1>2
  <2> DEFINE e(a, b) == IF a = 0 THEN b
                        ELSE IF b = 0 THEN a
                        ELSE 2 * x[a \div 2][b \div 2] + ((a + b) % 2)
             y == [a \in Octet |-> [b \in Octet |-> IF a = n THEN e(a, b) ELSE x[a][b]]]
  <2>2. \A a, b \in Octet : x[a][b] \in Nat
    BY <2>1 DEF IsXor
  <2>3. \A a, b \in Octet : e(a, b) \in Nat
    <3> TAKE a, b \in Octet
    <3>1. a \in Nat /\ b \in Nat /\ a + b \in Nat
      BY DEF Octet
    <3>2. x[a \div 2][b \div 2] \in Nat /\ (a + b) % 2 \in Nat
      BY <2>2, <3>1, Halves
    <3> QED
      BY <3>1, <3>2
  <2> HIDE DEF e
  <2>4. y \in [Octet -> [Octet -> Nat]]
    BY <2>2, <2>3
  <2>5. \A a, b \in Octet : y[a][b] = IF a = n THEN e(a, b) ELSE x[a][b]
    OBVIOUS
  <2> HIDE DEF y
  <2>6. ASSUME NEW a \in Octet, NEW b \in Octet, a < n + 1, a # 0
        PROVE  y[a \div 2][b \div 2] = x[a \div 2][b \div 2]
    <3>1. a \in Nat /\ b \in Nat
      BY DEF Octet
    <3>2. a \div 2 \in Octet /\ b \div 2 \in Octet /\ a \div 2 # n
      BY <2>6, <3>1, Halves
    <3> QED
      BY <2>5, <3>2
  <2>7. ASSUME NEW a \in Octet, NEW b \in Octet, a < n + 1
        PROVE  y[a][b] = e(a, b)
    <3>1. CASE a = n
      BY <2>5, <3>1
    <3>2. CASE a # n
      <4>1. a < n
        BY <2>7, <3>2 DEF Octet
      <4> QED
        BY <2>1, <2>5, <3>2, <4>1 DEF IsXor, e
    <3> QED
      BY <3>1, <3>2
  <2>8. IsXor(y, n + 1)
    BY <2>4, <2>6, <2>7 DEF IsXor, e
  <2> QED
    BY <2>8
<1> HIDE DEF P
<1>3. Nat \subseteq P
  BY <1>1, <1>2, Induction
<1> QED
  BY <1>3, 256 \in Nat DEF P

XorStep(x) ==
    [a \in Octet |-> [b \in Octet |->
        IF a = 0 THEN b
        ELSE IF b = 0 THEN a
        ELSE 2 * x[a \div 2][b \div 2] + ((a + b) % 2)]]

\* So xorOf is a solution of its own definition.
LEMMA XorOfEquation == xorOf = XorStep(xorOf)
<1>1. \E x : x = XorStep(x)
  <2>1. PICK x : IsXor(x, 256)
    BY XorExists
  <2>2. x \in [Octet -> [Octet -> Nat]]
    BY <2>1 DEF IsXor
  <2>3. \A a \in Octet : a < 256
    BY DEF Octet
  <2>4. \A a, b \in Octet : x[a][b] = XorStep(x)[a][b]
    BY <2>1, <2>3 DEF IsXor, XorStep
  <2>5. \A a \in Octet : x[a] = XorStep(x)[a]
    BY <2>2, <2>4 DEF XorStep
  <2>6. x = XorStep(x)
    BY <2>2, <2>5 DEF XorStep
  <2> QED
    BY <2>6
<1>2. xorOf = CHOOSE x : x = XorStep(x)
  BY DEF xorOf, XorStep
<1> HIDE DEF xorOf
<1> QED
  BY <1>1, <1>2

\* The table has what xorOf says.
LEMMA XorIsXorOf ==
    ASSUME NEW a \in Octet, NEW b \in Octet
    PROVE  xor(a, b) = xorOf[a][b]
<1>1. xorTable = [i \in 1..256 |-> [j \in 1..256 |-> xorOf[i - 1][j - 1]]]
  BY DEF xorTable, Tabulate
<1>2. \A i, j \in 1..256 : xorTable[i][j] = xorOf[i - 1][j - 1]
  BY <1>1
<1>3. a + 1 \in 1..256 /\ b + 1 \in 1..256 /\ (a + 1) - 1 = a /\ (b + 1) - 1 = b
  BY DEF Octet
<1>4. xorTable[a + 1][b + 1] = xorOf[(a + 1) - 1][(b + 1) - 1]
  BY <1>2, <1>3
<1> QED
  BY <1>3, <1>4 DEF xor

\* The equations of the table, without cases.
LEMMA XorCases ==
    ASSUME NEW a \in Octet, NEW b \in Octet
    PROVE  /\ xor(0, b) = b /\ xor(a, 0) = a
           /\ a # 0 /\ b # 0 => xor(a, b) = 2 * xor(a \div 2, b \div 2) + ((a + b) % 2)
<1>1. \A u, v \in Octet :
          xorOf[u][v] = IF u = 0 THEN v
                        ELSE IF v = 0 THEN u
                        ELSE 2 * xorOf[u \div 2][v \div 2] + ((u + v) % 2)
  BY XorOfEquation DEF XorStep
<1>2. 0 \in Octet /\ a \div 2 \in Octet /\ b \div 2 \in Octet
  BY DEF Octet
<1> QED
  BY <1>1, <1>2, XorIsXorOf

Double(a, b) == 2 * xor(a \div 2, b \div 2) + ((a + b) % 2)

\* xor has the algebra of the exclusive or, on the numbers below n.
XorUpTo(n) ==
    \A a, b \in Octet : a < n /\ b < n =>
        /\ xor(a, b) \in Octet
        /\ \A t \in {1, 2, 4, 8, 16, 32, 64, 128, 256} : a < t /\ b < t => xor(a, b) < t
        /\ xor(a, b) = Double(a, b)
        /\ xor(a, b) = xor(b, a)

\* By induction on the bound of both arguments.
LEMMA XorInduction == \A n \in Nat : XorUpTo(n)
<1> DEFINE P == {n \in Nat : XorUpTo(n)}
<1>1. 0 \in P
  <2>1. \A a \in Octet : ~ a < 0
    BY DEF Octet
  <2> QED
    BY <2>1 DEF XorUpTo
<1>2. ASSUME NEW n \in Nat, n \in P  PROVE n + 1 \in P
  <2> SUFFICES ASSUME NEW a \in Octet, NEW b \in Octet, a < n + 1, b < n + 1
               PROVE  /\ xor(a, b) \in Octet
                      /\ \A t \in {1, 2, 4, 8, 16, 32, 64, 128, 256} :
                             a < t /\ b < t => xor(a, b) < t
                      /\ xor(a, b) = Double(a, b)
                      /\ xor(a, b) = xor(b, a)
    BY DEF XorUpTo
  <2> DEFINE c == a \div 2
             d == b \div 2
             h == xor(c, d)
             k == (a + b) % 2
  <2>1. a \in Nat /\ b \in Nat /\ a < 256 /\ b < 256
    BY DEF Octet
  <2>2. /\ c \in Octet /\ d \in Octet /\ k \in 0..1
        /\ a = 2 * c + (a % 2) /\ b = 2 * d + (b % 2) /\ a % 2 \in 0..1 /\ b % 2 \in 0..1
    BY <2>1, Halves
  <2>3. c \in Nat /\ d \in Nat /\ c < 256 /\ d < 256
    BY <2>2 DEF Octet
  <2>4. CASE n = 0
    <3>1. a = 0 /\ b = 0 /\ 0 \in Octet
      BY <2>1, <2>4 DEF Octet
    <3>2. xor(a, b) = 0 /\ xor(b, a) = 0
      BY <3>1, XorCases
    <3>3. Double(a, b) = 0
      BY <3>1, <3>2, 0 \div 2 = 0, 0 % 2 = 0 DEF Double
    <3> QED
      BY <3>1, <3>2, <3>3
  <2>5. CASE n # 0
    <3>1. c < n /\ d < n
      BY <2>1, <2>2, <2>3, <2>5
    <3>2. /\ h \in Octet /\ h = xor(d, c)
          /\ \A t \in {1, 2, 4, 8, 16, 32, 64, 128, 256} : c < t /\ d < t => h < t
      BY <1>2, <2>2, <3>1 DEF XorUpTo
    <3>3. h \in Nat
      BY <3>2 DEF Octet
    <3>4. a = 0 => c = 0 /\ h = d /\ k = b % 2
      BY <2>1, <2>2, XorCases
    <3>5. b = 0 => d = 0 /\ h = c /\ k = a % 2
      BY <2>1, <2>2, XorCases
    <3>6. xor(a, b) = 2 * h + k
      BY <2>2, <3>4, <3>5, XorCases
    <3>7. xor(b, a) = 2 * h + k
      <4>1. (b + a) % 2 = k
        BY <2>1
      <4> QED
        BY <2>2, <3>2, <3>4, <3>5, <4>1, XorCases
    <3> HIDE DEF h, k, c, d
    <3>8. ASSUME NEW t \in {1, 2, 4, 8, 16, 32, 64, 128, 256}, a < t, b < t
          PROVE  2 * h + k < t
      <4>1. CASE t = 1
        <5>1. a = 0 /\ b = 0
          BY <2>1, <3>8, <4>1
        <5>2. c = 0 /\ d = 0 /\ k = 0 /\ h = 0
          BY <5>1, <2>2, <3>4, <3>5
        <5> QED
          BY <4>1, <5>2
      <4>2. CASE t # 1
        <5>1. PICK u \in {1, 2, 4, 8, 16, 32, 64, 128, 256} : t = 2 * u
          BY <4>2
        <5>2. c < u /\ d < u
          BY <2>1, <2>2, <2>3, <3>8, <5>1
        <5>3. h < u
          BY <3>2, <5>2
        <5> QED
          BY <2>2, <3>3, <5>1, <5>3
      <4> QED
        BY <4>1, <4>2
    <3>9. 2 * h + k \in Octet
      BY <2>1, <2>2, <3>3, <3>8 DEF Octet
    <3> QED
      BY <3>6, <3>7, <3>8, <3>9 DEF Double, h, k, c, d
  <2> QED
    BY <2>4, <2>5
<1> HIDE DEF P
<1>3. Nat \subseteq P
  BY <1>1, <1>2, Induction
<1> QED
  BY <1>3 DEF P

\* Go's ^ on two bytes: it stays within as many bits as they have, commutes, and its
\* lowest bit is the parity.
LEMMA XorAlgebra ==
    ASSUME NEW a \in Octet, NEW b \in Octet
    PROVE  /\ xor(a, b) \in Octet
           /\ \A t \in {1, 2, 4, 8, 16, 32, 64, 128, 256} : a < t /\ b < t => xor(a, b) < t
           /\ xor(a, b) = 2 * xor(a \div 2, b \div 2) + ((a + b) % 2)
           /\ xor(a, b) = xor(b, a)
<1>1. a < 256 /\ b < 256 /\ 256 \in Nat
  BY DEF Octet
<1> QED
  BY <1>1, XorInduction DEF XorUpTo, Double

XorInverseUpTo(n) == \A a, b \in Octet : a < n /\ b < n => xor(xor(a, b), b) = a

\* By induction on the bound of both arguments.
LEMMA XorInverseInduction == \A n \in Nat : XorInverseUpTo(n)
<1> DEFINE P == {n \in Nat : XorInverseUpTo(n)}
<1>1. 0 \in P
  <2>1. \A a \in Octet : ~ a < 0
    BY DEF Octet
  <2> QED
    BY <2>1 DEF XorInverseUpTo
<1>2. ASSUME NEW n \in Nat, n \in P  PROVE n + 1 \in P
  <2> SUFFICES ASSUME NEW a \in Octet, NEW b \in Octet, a < n + 1, b < n + 1
               PROVE  xor(xor(a, b), b) = a
    BY DEF XorInverseUpTo
  <2> DEFINE c == a \div 2
             d == b \div 2
             h == xor(c, d)
             k == (a + b) % 2
             v == xor(a, b)
  <2>1. a \in Nat /\ b \in Nat /\ a < 256 /\ b < 256
    BY DEF Octet
  <2>2. /\ c \in Octet /\ d \in Octet /\ k \in 0..1
        /\ a = 2 * c + (a % 2) /\ b = 2 * d + (b % 2) /\ a % 2 \in 0..1 /\ b % 2 \in 0..1
    BY <2>1, Halves
  <2>3. c \in Nat /\ d \in Nat
    BY <2>2 DEF Octet
  <2>4. CASE n = 0
    <3>1. a = 0 /\ b = 0 /\ 0 \in Octet
      BY <2>1, <2>4 DEF Octet
    <3> QED
      BY <3>1, XorCases
  <2>5. CASE n # 0
    <3>1. c < n /\ d < n
      BY <2>1, <2>2, <2>3, <2>5
    <3>2. xor(h, d) = c
      BY <1>2, <2>2, <3>1 DEF XorInverseUpTo
    <3>3. v = 2 * h + k /\ h \in Octet /\ v \in Octet
      BY <2>2, XorAlgebra
    <3>4. xor(v, b) = 2 * xor(v \div 2, d) + ((v + b) % 2)
      BY <3>3, XorAlgebra
    <3> HIDE DEF h, k, c, d, v
    <3>5. h \in Nat /\ v \in Nat
      BY <3>3 DEF Octet
    <3>6. v \div 2 = h
      BY <2>2, <3>3, <3>5
    <3>7. (v + b) % 2 = a % 2
      <4>1. v + b = 2 * h + k + b
        BY <2>1, <2>2, <3>3, <3>5
      <4>2. PICK q \in Nat : a + b = 2 * q + k
        BY <2>1, Halves DEF k
      <4>3. v + b = a + 2 * (h + b - q) /\ h + b - q \in Int
        BY <2>1, <2>2, <3>5, <4>1, <4>2
      <4>4. \A z \in Int : (a + 2 * z) % 2 = a % 2
        BY <2>1
      <4> QED
        BY <4>3, <4>4
    <3> QED
      BY <2>2, <3>2, <3>4, <3>6, <3>7 DEF v
  <2> QED
    BY <2>4, <2>5
<1> HIDE DEF P
<1>3. Nat \subseteq P
  BY <1>1, <1>2, Induction
<1> QED
  BY <1>3 DEF P

\* A byte that is masked twice is itself again.
LEMMA XorInverse ==
    ASSUME NEW a \in Octet, NEW b \in Octet
    PROVE  xor(xor(a, b), b) = a /\ xor(a, xor(a, b)) = b
<1>1. 256 \in Nat /\ \A x \in Octet : x < 256
  BY DEF Octet
<1>2. \A x, y \in Octet : xor(xor(x, y), y) = x
  BY <1>1, XorInverseInduction DEF XorInverseUpTo
<1>3. xor(a, b) = xor(b, a) /\ xor(a, b) \in Octet /\ xor(b, a) \in Octet
  BY XorAlgebra
<1>4. xor(a, xor(b, a)) = xor(xor(b, a), a)
  BY <1>3, XorAlgebra
<1> QED
  BY <1>2, <1>3, <1>4

\* The halves and the parity of a number whose lowest bit is the one of a + b.
LEMMA LowestBit ==
    ASSUME NEW a \in Nat, NEW b \in Nat, NEW c \in Nat, NEW h \in Nat, NEW u,
           u = 2 * h + ((a + b) % 2)
    PROVE  u \in Nat /\ u \div 2 = h /\ (u + c) % 2 = (a + b + c) % 2
<1> DEFINE k == (a + b) % 2
<1>1. k \in 0..1 /\ u = 2 * h + k
  OBVIOUS
<1>2. PICK q \in Nat : a + b = 2 * q + k
  BY Halves
<1> HIDE DEF k
<1>3. u \in Nat /\ u \div 2 = h
  BY <1>1
<1>4. u + c = (k + c) + 2 * h /\ a + b + c = (k + c) + 2 * q
  BY <1>1, <1>2
<1>5. \A x, z \in Nat : (x + 2 * z) % 2 = x % 2
  OBVIOUS
<1>6. k + c \in Nat
  BY <1>1
<1> QED
  BY <1>3, <1>4, <1>5, <1>6

XorAssociativeUpTo(n) ==
    \A a, b, c \in Octet :
        a < n /\ b < n /\ c < n => xor(xor(a, b), c) = xor(a, xor(b, c))

\* By induction on the bound of the three arguments.
LEMMA XorAssociativeInduction == \A n \in Nat : XorAssociativeUpTo(n)
<1> DEFINE P == {n \in Nat : XorAssociativeUpTo(n)}
<1>1. 0 \in P
  <2>1. \A a \in Octet : ~ a < 0
    BY DEF Octet
  <2> QED
    BY <2>1 DEF XorAssociativeUpTo
<1>2. ASSUME NEW n \in Nat, n \in P  PROVE n + 1 \in P
  <2> SUFFICES ASSUME NEW a \in Octet, NEW b \in Octet, NEW c \in Octet,
                      a < n + 1, b < n + 1, c < n + 1
               PROVE  xor(xor(a, b), c) = xor(a, xor(b, c))
    BY DEF XorAssociativeUpTo
  <2> DEFINE a2 == a \div 2
             b2 == b \div 2
             c2 == c \div 2
             u == xor(a, b)
             w == xor(b, c)
             h == xor(a2, b2)
             g == xor(b2, c2)
  <2>1. a \in Nat /\ b \in Nat /\ c \in Nat
    BY DEF Octet
  <2>2. CASE n = 0
    <3>1. a = 0 /\ b = 0 /\ c = 0 /\ 0 \in Octet
      BY <2>1, <2>2 DEF Octet
    <3> QED
      BY <3>1, XorCases
  <2>3. CASE n # 0
    <3>1. a2 \in Octet /\ b2 \in Octet /\ c2 \in Octet
      BY <2>1, Halves
    <3>2. a2 < n /\ b2 < n /\ c2 < n
      <4>1. \A x \in Nat : x < n + 1 => x \div 2 < n
        BY <2>3
      <4> QED
        BY <2>1, <4>1
    <3>3. xor(h, c2) = xor(a2, g)
      BY <1>2, <3>1, <3>2 DEF XorAssociativeUpTo
    <3>4. /\ u \in Octet /\ w \in Octet /\ h \in Octet /\ g \in Octet
          /\ u = 2 * h + ((a + b) % 2) /\ w = 2 * g + ((b + c) % 2)
      BY <3>1, XorAlgebra
    <3> HIDE DEF u, w, h, g, a2, b2, c2
    <3>5. h \in Nat /\ g \in Nat
      BY <3>4 DEF Octet
    <3>6. u \in Nat /\ u \div 2 = h /\ (u + c) % 2 = (a + b + c) % 2
      <4>1. u = 2 * h + ((a + b) % 2)
        BY <3>4
      <4> QED
        BY <2>1, <3>5, <4>1, LowestBit
    <3>7. w \in Nat /\ w \div 2 = g /\ (w + a) % 2 = (b + c + a) % 2
      <4>1. w = 2 * g + ((b + c) % 2)
        BY <3>4
      <4> QED
        BY <2>1, <3>5, <4>1, LowestBit
    <3>8. /\ xor(u, c) = 2 * xor(u \div 2, c2) + ((u + c) % 2)
          /\ xor(a, w) = 2 * xor(a2, w \div 2) + ((a + w) % 2)
      BY <3>4, XorAlgebra DEF a2, c2
    <3>9. (u + c) % 2 = (a + w) % 2
      <4>1. w + a = a + w /\ b + c + a = a + b + c
        BY <2>1, <3>7
      <4> QED
        BY <3>6, <3>7, <4>1
    <3>10. xor(u, c) = xor(a, w)
      BY <3>3, <3>6, <3>7, <3>8, <3>9
    <3> QED
      BY <3>10 DEF u, w
  <2> QED
    BY <2>2, <2>3
<1> HIDE DEF P
<1>3. Nat \subseteq P
  BY <1>1, <1>2, Induction
<1> QED
  BY <1>3 DEF P

\* Go's ^ is associative.
LEMMA XorAssociative ==
    ASSUME NEW a \in Octet, NEW b \in Octet, NEW c \in Octet
    PROVE  xor(xor(a, b), c) = xor(a, xor(b, c))
<1>1. 256 \in Nat /\ a < 256 /\ b < 256 /\ c < 256
  BY DEF Octet
<1> QED
  BY <1>1, XorAssociativeInduction DEF XorAssociativeUpTo

\* A set with 0 in it, and with every byte whose half is in it, has all bytes.
LEMMA HalvingInduction ==
    ASSUME NEW P, 0 \in P, \A b \in 1..255 : b \div 2 \in P => b \in P
    PROVE  Octet \subseteq P
<1> DEFINE Q == {n \in Nat : \A b \in Octet : b < n => b \in P}
<1>1. 0 \in Q
  BY DEF Octet
<1>2. ASSUME NEW n \in Nat, n \in Q  PROVE n + 1 \in Q
  <2> SUFFICES ASSUME NEW b \in Octet, b < n + 1  PROVE b \in P
    OBVIOUS
  <2>1. CASE b = 0
    BY <2>1
  <2>2. CASE b # 0
    <3>1. b \in 1..255 /\ b \in Nat
      BY <2>2 DEF Octet
    <3>2. b \div 2 \in Octet /\ b \div 2 < n
      BY <3>1, Halves DEF Octet
    <3> QED
      BY <1>2, <3>1, <3>2
  <2> QED
    BY <2>1, <2>2
<1> HIDE DEF Q
<1>3. Nat \subseteq Q
  BY <1>1, <1>2, Induction
<1>4. 256 \in Q
  BY <1>3
<1> QED
  BY <1>4 DEF Q, Octet

\* h follows the recursion over halves whose steps are g, for the bytes below n.
IsHalving(h, n, first, g, S) ==
    /\ h \in [Octet -> S] /\ h[0] = first
    /\ \A b \in 1..255 : b < n => h[b] = g[b][h[b \div 2]]

\* Such a function exists for all bytes.
LEMMA HalvingRecursion ==
    ASSUME NEW S, NEW first \in S, NEW g, g \in [1..255 -> [S -> S]]
    PROVE  \E h : IsHalving(h, 256, first, g, S)
<1> DEFINE P == {n \in Nat : \E h : IsHalving(h, n, first, g, S)}
<1>1. 0 \in P
  <2> DEFINE h == [b \in Octet |-> first]
  <2>1. h \in [Octet -> S] /\ h[0] = first
    BY DEF Octet
  <2>2. IsHalving(h, 0, first, g, S)
    BY <2>1 DEF IsHalving
  <2> QED
    BY <2>2
<1>2. ASSUME NEW n \in Nat, n \in P  PROVE n + 1 \in P
  <2>1. PICK h : IsHalving(h, n, first, g, S)
    BY <1>2
  <2>2. CASE n \notin 1..255
    <3>1. IsHalving(h, n + 1, first, g, S)
      BY <2>1, <2>2 DEF IsHalving
    <3> QED
      BY <3>1
  <2>3. CASE n \in 1..255
    <3> DEFINE y == [b \in Octet |-> IF b = n THEN g[n][h[n \div 2]] ELSE h[b]]
    <3>1. n \div 2 \in Octet /\ n \in Octet
      BY <2>3, Halves DEF Octet
    <3>2. h \in [Octet -> S] /\ g[n] \in [S -> S]
      BY <2>1, <2>3 DEF IsHalving
    <3>3. y \in [Octet -> S]
      BY <3>1, <3>2
    <3>4. y[0] = first
      BY <2>1, <2>3 DEF IsHalving, Octet
    <3>5. \A b \in Octet : y[b] = IF b = n THEN g[n][h[n \div 2]] ELSE h[b]
      OBVIOUS
    <3> HIDE DEF y
    <3>6. ASSUME NEW b \in 1..255, b < n + 1  PROVE y[b] = g[b][y[b \div 2]]
      <4>1. b \in Octet /\ b \div 2 \in Octet /\ b \div 2 < b
        BY Halves DEF Octet
      <4>2. b \div 2 # n
        BY <3>6, <4>1 DEF Octet
      <4>3. y[b \div 2] = h[b \div 2]
        BY <3>5, <4>1, <4>2
      <4>4. CASE b = n
        BY <3>5, <4>1, <4>3, <4>4
      <4>5. CASE b # n
        <5>1. b < n
          BY <3>6, <4>5
        <5> QED
          BY <2>1, <3>5, <4>1, <4>3, <4>5, <5>1 DEF IsHalving
      <4> QED
        BY <4>4, <4>5
    <3>7. IsHalving(y, n + 1, first, g, S)
      BY <3>3, <3>4, <3>6 DEF IsHalving
    <3> QED
      BY <3>7
  <2> QED
    BY <2>2, <2>3
<1> HIDE DEF P
<1>3. Nat \subseteq P
  BY <1>1, <1>2, Induction
<1> QED
  BY <1>3, 256 \in Nat DEF P

\* Go's ^ on any bytes: an abelian group in which every byte is its own inverse.
LEMMA XorGroup ==
    ASSUME NEW a \in Octet, NEW b \in Octet, NEW d \in Octet, NEW e \in Octet
    PROVE  /\ xor(a, b) \in Octet /\ xor(a, b) = xor(b, a)
           /\ xor(xor(a, b), d) = xor(a, xor(b, d))
           /\ xor(xor(a, b), xor(d, e)) = xor(xor(a, d), xor(b, e))
           /\ 0 \in Octet /\ xor(a, 0) = a /\ xor(0, a) = a /\ xor(a, a) = 0
           /\ xor(xor(a, b), b) = a
           /\ xor(a, b) = d <=> a = xor(d, b)
<1>1. 0 \in Octet
  BY DEF Octet
<1>2. \A u, v \in Octet : xor(u, v) \in Octet /\ xor(u, v) = xor(v, u)
  BY XorAlgebra
<1>3. \A u, v, w \in Octet : xor(xor(u, v), w) = xor(u, xor(v, w))
  BY XorAssociative
<1>4. \A u \in Octet : xor(u, 0) = u /\ xor(0, u) = u
  BY <1>1, XorCases
<1>5. \A u, v \in Octet : xor(xor(u, v), v) = u
  BY XorInverse
<1>6. xor(a, a) = 0
  BY <1>1, <1>4, <1>5
<1>7. xor(xor(a, b), xor(d, e)) = xor(xor(a, d), xor(b, e))
  <2>1. xor(xor(a, b), xor(d, e)) = xor(a, xor(b, xor(d, e)))
    BY <1>2, <1>3
  <2>2. xor(b, xor(d, e)) = xor(xor(b, d), e)
    BY <1>3
  <2>3. xor(xor(b, d), e) = xor(xor(d, b), e)
    BY <1>2
  <2>4. xor(xor(d, b), e) = xor(d, xor(b, e))
    BY <1>3
  <2>5. xor(a, xor(d, xor(b, e))) = xor(xor(a, d), xor(b, e))
    BY <1>2, <1>3
  <2> QED
    BY <2>1, <2>2, <2>3, <2>4, <2>5
<1> QED
  BY <1>1, <1>2, <1>3, <1>4, <1>5, <1>6, <1>7

=============================================================================
