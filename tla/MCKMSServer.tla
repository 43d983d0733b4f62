---------------------------- MODULE MCKMSServer -----------------------------
(***************************************************************************)
(* Instances of KMSServer and of the documentation's claims for TLC.        *)
(***************************************************************************)
EXTENDS KMSClaims, FiniteSets, TLC

CONSTANTS p1, p2, c1, c2, c3, k1, k2, k3, k4

HostAlone == c1 :> p1
HostOne == (c1 :> p1) @@ (c2 :> p1)
HostTwo == HostOne @@ (c3 :> p2)

Absent == [key |-> NoKey, version |-> 0]
NoRecord == {Absent}
ARecord == {[key |-> k1, version |-> 1]}
AnyRecord == ARecord \cup NoRecord

\* Keys that no initial record mentions are interchangeable.
KeySymmetry == Permutations(Keys \ {r.key : r \in InitialRecords})

=============================================================================
