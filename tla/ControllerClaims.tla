-------------------------- MODULE ControllerClaims --------------------------
(***************************************************************************)
(* What the source says of the BaoSecret controller, to compare it with     *)
(* what the controller does.                                                *)
(***************************************************************************)
EXTENDS BaoSecretController

(***************************************************************************)
(* "Owner reference: при "Owner" Secret удаляется вместе с BaoSecret; при    *)
(* "Orphan" — остаётся" (baosecret_controller.go:237; 274-276 says the same *)
(* of the deletion): where nobody else touches the Secrets, none is removed *)
(* that was synchronised last, and under the policy Orphan.                 *)
(***************************************************************************)
OrphansAreKept ==
    [][\A t \in Targets :
          synced # None /\ synced.target = t /\ synced.policy = "Orphan" /\ secrets[t] # None
              => secrets'[t] # None]_vars

=============================================================================
