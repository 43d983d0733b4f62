----------------------------- MODULE KeyRotation ----------------------------
(***************************************************************************)
(* Rotation of the Kuznyechik key from the web UI (internal/ui/handlers.go, *)
(* RotateKey) over the running plugins of KMSServer.  The handlers of one   *)
(* UI process run concurrently.  The version a rotation writes comes from   *)
(* keyRotations, a counter in the memory of the UI process, read when the   *)
(* request arrives and raised when OpenBao has acknowledged the write.      *)
(*                                                                         *)
(* The new key is drawn when its write is applied, which nobody can tell    *)
(* from its being drawn earlier.                                            *)
(***************************************************************************)
EXTENDS KMSServer, FiniteSets

CONSTANTS
    Requests,   \* goroutines of the UI that can serve a POST of RotateKey
    UIFaults    \* what may go wrong in the UI: a subset of {"restart", "error"}

ASSUME RotationAssumption ==
    /\ IsFiniteSet(Requests)
    /\ UIFaults \subseteq {"restart", "error"}

VARIABLES
    rotations,  \* h.keyRotations
    rpc,        \* rpc[r]: where handler r is
    newVersion, \* newVersion[r]: the version it is going to write, 0 before
    orderly     \* history: no two rotations overlapped, and the UI has lost
                \* neither its counter nor the answer to a write

ui == <<rotations, rpc, newVersion, orderly>>
rotationVars == <<serverVars, ui>>

Leave(r) ==
    /\ rpc' = [rpc EXCEPT ![r] = "idle"]
    /\ newVersion' = [newVersion EXCEPT ![r] = 0]

RotateBeginsLow(r) ==
    /\ rpc[r] = "idle" /\ rotations + 2 <= MaxVersion
    /\ rpc' = [rpc EXCEPT ![r] = "post"]
    /\ newVersion' = [newVersion EXCEPT ![r] = rotations + 1]
    /\ orderly' = (orderly /\ \A q \in Requests : rpc[q] = "idle")
    /\ UNCHANGED <<rotations, serverVars>>

\* The request arrives: newVersion := keyRotations + 2.
RotateBegins(r) ==
    /\ rpc[r] = "idle" /\ rotations + 2 <= MaxVersion
    /\ rpc' = [rpc EXCEPT ![r] = "post"]
    /\ newVersion' = [newVersion EXCEPT ![r] = rotations + 2]
    /\ orderly' = (orderly /\ \A q \in Requests : rpc[q] = "idle")
    /\ UNCHANGED <<rotations, serverVars>>

\* OpenBao applies the POST of {key, version}.
RotateWrites(r, k) ==
    /\ rpc[r] = "post"
    /\ RotateByHand(k, newVersion[r])
    /\ rpc' = [rpc EXCEPT ![r] = "reply"]
    /\ UNCHANGED <<rotations, newVersion, orderly>>

\* client.Do fails or times out, before or after the write was applied, or the
\* status is not 2xx: the counter stays.
RotateFails(r) ==
    /\ rpc[r] \in {"post", "reply"}
    /\ "error" \in UIFaults \/ ~baoUp
    /\ Leave(r)
    /\ orderly' = (orderly /\ rpc[r] = "post")
    /\ UNCHANGED <<rotations, serverVars>>

\* client.Do gives up on a request that OpenBao is still working on.
RotateTimesOut(r, k) ==
    /\ rpc[r] = "post" /\ "lateWrite" \in Env /\ Fresh(k)
    /\ late' = late \cup {[key |-> k, version |-> newVersion[r]]}
    /\ Leave(r)
    /\ orderly' = FALSE
    /\ UNCHANGED <<kv, baoUp, stored, memory, calls, history,
                   status, responses, rotations>>

RotateAckedEarly(r) ==
    /\ rpc[r] \in {"post", "reply"}
    /\ rotations' = rotations + 1
    /\ Leave(r)
    /\ UNCHANGED <<orderly, serverVars>>

\* 2xx: keyRotations.Add(1).
RotateAcked(r) ==
    /\ rpc[r] = "reply"
    /\ rotations' = rotations + 1
    /\ Leave(r)
    /\ UNCHANGED <<orderly, serverVars>>

\* The UI process restarts; its counter starts again from 0.
UIRestart ==
    /\ "restart" \in UIFaults
    /\ rotations' = 0
    /\ orderly' = FALSE
    /\ rpc' = [r \in Requests |-> "idle"]
    /\ newVersion' = [r \in Requests |-> 0]
    /\ UNCHANGED serverVars

RotationInit ==
    /\ ServerInit
    /\ rotations = 0
    /\ orderly = TRUE
    /\ rpc = [r \in Requests |-> "idle"]
    /\ newVersion = [r \in Requests |-> 0]

RotationNext ==
    \/ ServerStep /\ UNCHANGED ui
    \/ \E r \in Requests :
           \/ RotateBegins(r) \/ RotateFails(r) \/ RotateAcked(r)
           \/ \E k \in Keys : RotateWrites(r, k) \/ RotateTimesOut(r, k)
    \/ UIRestart

RotationSpec == RotationInit /\ [][RotationNext]_rotationVars

-----------------------------------------------------------------------------
RotationTypeOK ==
    /\ rotations \in Nat
    /\ rpc \in [Requests -> {"idle", "post", "reply"}]
    /\ newVersion \in [Requests -> {0} \cup 2..MaxVersion]
    /\ orderly \in BOOLEAN

\* Nobody but the UI ever replaces the record, which starts with a key and at
\* version 1.
OnlyTheUIWrites ==
    /\ Env \cap {"outage", "malformed"} = {}
    /\ \A r \in InitialRecords : r.key \in Keys /\ r.version = 1

\* As long as rotations come one after the other and no answer is lost, the
\* counter accounts for the version of the record, also after writes that failed
\* before they were applied: it is behind by one between requests, and by two
\* while a write waits to be acknowledged.
CounterFollowsRecord ==
    OnlyTheUIWrites /\ orderly =>
        kv.version = rotations + (IF \E r \in Requests : rpc[r] = "reply" THEN 2 ELSE 1)

\* Whatever fails, the counter never runs ahead of the keys that reached the
\* record, the first one included: no rotation is counted that did not take
\* place, and none twice.
CounterCountsWrites ==
    (\A r \in InitialRecords : r.key \in Keys) =>
        rotations + Cardinality({r \in Requests : rpc[r] = "reply"}) < Cardinality(stored)

=============================================================================
