--------------------------- MODULE MCKeyRotation ----------------------------
(***************************************************************************)
(* Instances of KeyRotation for TLC: one plugin process with one goroutine, *)
(* one or two requests in the UI, rotations up to version 4.                *)
(***************************************************************************)
EXTENDS KeyRotation, FiniteSets, TLC

CONSTANTS p1, c1, r1, r2, k1, k2, k3, k4

HostAlone == c1 :> p1

ARecord == {[key |-> k1, version |-> 1]}

\* Keys that no initial record mentions are interchangeable.
KeySymmetry == Permutations(Keys \ {r.key : r \in InitialRecords})

=============================================================================
