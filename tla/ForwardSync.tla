----------------------------- MODULE ForwardSync ----------------------------
(***************************************************************************)
(* What the BaoSecret controller promises, without its caches, its queue,   *)
(* its conflicts and its restarts: an object that is created, edited and    *)
(* removed; the generations of it that are applied to its target, always    *)
(* forward; and a status that reports a generation only when that one was   *)
(* applied last.                                                            *)
(***************************************************************************)
EXTENDS Naturals

VARIABLES
    uid,         \* which object it is: how many there have been
    generation,  \* its generation, 0 if it is absent
    applied,     \* [uid, generation]: what was applied last
    reported     \* the generation that the status reports, or 0

Init ==
    /\ uid = 0 /\ generation = 0 /\ reported = 0
    /\ applied = [uid |-> 0, generation |-> 0]

Present == [uid |-> uid, generation |-> generation]

Create ==
    /\ generation = 0
    /\ uid' = uid + 1 /\ generation' = 1
    /\ UNCHANGED <<applied, reported>>

\* The status stays behind.
Edit ==
    /\ generation > 0
    /\ generation' = generation + 1
    /\ UNCHANGED <<uid, applied, reported>>

Remove ==
    /\ generation > 0
    /\ generation' = 0 /\ reported' = 0
    /\ UNCHANGED <<uid, applied>>

\* A generation that need not be the present one any more, but is none before the
\* one that was applied last.
Apply ==
    /\ \E g \in 1..generation :
           /\ applied.uid = uid => applied.generation <= g
           /\ applied' = [uid |-> uid, generation |-> g]
    /\ UNCHANGED <<uid, generation, reported>>

Report ==
    /\ generation > 0 /\ applied = Present
    /\ reported' = generation
    /\ UNCHANGED <<uid, generation, applied>>

\* A failure, or suspension.
Withdraw ==
    /\ reported' = 0
    /\ UNCHANGED <<uid, generation, applied>>

Next == Create \/ Edit \/ Remove \/ Apply \/ Report \/ Withdraw

Spec == Init /\ [][Next]_<<uid, generation, applied, reported>>

=============================================================================
