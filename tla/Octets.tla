------------------------------- MODULE Octets --------------------------------
(***************************************************************************)
(* Go's ^ on bytes, and on byte slices of one length (xorBytes in           *)
(* internal/crypto/kuznyechik_mgm.go).                                      *)
(***************************************************************************)
EXTENDS Naturals, Sequences

Octet == 0..255

\* The sequence of e(1), ..., e(n).  (SubSeq leaves it as it is; to TLC it is then
\* a tuple, which is computed once and not each time it is applied.)
Tabulate(e(_), n) == SubSeq([i \in 1..n |-> e(i)], 1, n)

\* The exclusive or of two bytes, from that of their higher bits, and its table.
xorOf[a \in Octet] ==
    [b \in Octet |->
        IF a = 0 THEN b
        ELSE IF b = 0 THEN a
        ELSE 2 * xorOf[a \div 2][b \div 2] + ((a + b) % 2)]

xorTable ==
    Tabulate(LAMBDA a : Tabulate(LAMBDA b : xorOf[a - 1][b - 1], 256), 256)

xor(a, b) == xorTable[a + 1][b + 1]

xorBytes(a, b) == Tabulate(LAMBDA i : xor(a[i], b[i]), Len(a))

=============================================================================
