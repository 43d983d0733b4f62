---------------------------- MODULE MCBaoSecret -----------------------------
(***************************************************************************)
(* Values of the constants of BaoSecretController for TLC.                  *)
(***************************************************************************)
EXTENDS ControllerClaims

CONSTANTS v1, v2, here, there, opaque, tls

MCValues == {v1, v2}
MCTargets == {here, there}
MCSameNamespace == {here}
MCTypes == {opaque, tls}

SpecOf(t, y, p, s) == [target |-> t, type |-> y, policy |-> p, suspend |-> s]

OwnerHere == SpecOf(here, opaque, "Owner", FALSE)
OrphanHere == SpecOf(here, opaque, "Orphan", FALSE)

\* A target in the namespace under either policy, and one outside.
MCSpecs == {OwnerHere, OrphanHere, SpecOf(there, opaque, "Owner", FALSE)}

\* A template that v2 makes endless; someone else makes the Secret one of the type of
\* the suspended spec.
MCLive == {OwnerHere, SpecOf(here, tls, "Owner", TRUE)}
MCLiveOthers == {[data |-> v2, type |-> tls, owner |-> Foreign]}
MCEndless == {<<OwnerHere, v2>>}

MCPolicies == {OwnerHere, OrphanHere}
=============================================================================
