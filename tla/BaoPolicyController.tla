------------------------ MODULE BaoPolicyController ------------------------
(***************************************************************************)
(* The BaoPolicy controller of the operator                                 *)
(* (internal/controller/baopolicy_controller.go): one BaoPolicy and the     *)
(* policies of OpenBao it is written to.  Whether to write is decided by a   *)
(* hash of the policy kept in the status, not by what OpenBao holds.         *)
(*                                                                         *)
(* As in BaoSecretController, Reconcile works on a cached copy, and the API   *)
(* server accepts an update only if that copy is the current object.  The     *)
(* text of a policy stands for its hash; LastSyncTime is left out.           *)
(***************************************************************************)
EXTENDS Naturals

CONSTANTS
    Rules,          \* lists of rules
    Orders,         \* Orders[r]: how many texts the rules r have
    Names,          \* names of policies in OpenBao
    ObjectName,     \* metadata.name of the BaoPolicy
    Unnamed,        \* spec.policyName left out
    Specs,          \* [name, rules]: the specs a user may write
    MaxUID,         \* bound on how often the BaoPolicy is created
    MaxGeneration,  \* bound on the generations of its spec
    None,           \* an absent object, policy, version or name
    LogsIn,         \* NewClient has to log in to OpenBao (Kubernetes auth)
    Env             \* "outage", "lostReply", "crash", "tamper"

\* ToHCL ranges over the map allowedParameters in any order, so the same rules have
\* several texts, and each its own hash.
ToHCL(rules) == {[rules |-> rules, order |-> i] : i \in 1..Orders[rules]}
Texts == UNION {ToHCL(r) : r \in Rules}

\* GetPolicyName
PolicyName(spec) == IF spec.name = Unnamed THEN ObjectName ELSE spec.name

BaoPolicies == [uid : 1..MaxUID, generation : 1..MaxGeneration, spec : Specs,
                finalizer : BOOLEAN, deleting : BOOLEAN,
                ready : BOOLEAN, observed : 0..MaxGeneration,
                version : Texts \cup {None}, applied : Names \cup {None}]

ASSUME PolicyAssumption ==
    /\ Orders \in [Rules -> Nat \ {0}]
    /\ Specs \subseteq [name : Names \cup {Unnamed}, rules : Rules]
    /\ ObjectName \in Names /\ Unnamed \notin Names
    /\ MaxUID \in Nat /\ MaxGeneration \in Nat \ {0}
    /\ None \notin Names \cup Texts \cup BaoPolicies
    /\ LogsIn \in BOOLEAN

VARIABLES
    live,       \* the BaoPolicy in the API server, or None
    uids,       \* how many BaoPolicies there have been
    policies,   \* policies[n]: the text of the policy n in OpenBao, or None
    baoUp,      \* OpenBao answers requests
    client,     \* the operator has an OpenBao client
    seen,       \* the BaoPolicy in the operator's cache
    queued,     \* the work queue holds a request for it
    timer,      \* ... or will hold one later (RequeueAfter, rate limiter)
    pc,         \* where Reconcile is
    obj,        \* its copy of the BaoPolicy
    text,       \* the text it writes or has written, or None
    past,       \* history: the rules this BaoPolicy has had
    orderly,    \* history: every edit has brought new rules; no tampering
    written     \* history: the operator's last write that OpenBao applied, <<name, text>>

cluster == <<live, uids>>
bao == <<policies, baoUp, written>>
operator == <<seen, queued, timer, client>>
reconcile == <<pc, obj, text>>
history == <<past, orderly>>
policyVars == <<cluster, bao, operator, reconcile, history>>

-----------------------------------------------------------------------------
\* Reconcile, from the Get to its return.
Return(again) ==
    /\ pc' = "idle" /\ obj' = None /\ text' = None
    /\ timer' = (timer \/ again)
    /\ UNCHANGED <<seen, queued, client>>

Begin ==
    /\ pc = "idle" /\ queued /\ seen # None
    /\ queued' = FALSE
    /\ obj' = seen
    /\ pc' = CASE seen.deleting -> "unfinalize"
                [] ~seen.deleting /\ ~seen.finalizer -> "finalize"
                [] OTHER -> "sync"
    /\ UNCHANGED <<cluster, bao, seen, timer, client, text, history>>

BeginGone ==
    /\ pc = "idle" /\ queued /\ seen = None
    /\ queued' = FALSE
    /\ UNCHANGED <<cluster, bao, seen, timer, client, reconcile, history>>

\* An update of the object by its current copy succeeds.
UpdateTo(new) ==
    /\ obj = live
    /\ live' = new
    /\ UNCHANGED <<uids, bao, history>>

Finalize ==
    /\ pc = "finalize"
    /\ UpdateTo([obj EXCEPT !.finalizer = TRUE])
    /\ obj' = live'
    /\ pc' = "sync"
    /\ UNCHANGED <<operator, text>>

Synced(t) ==
    /\ text' = t /\ UNCHANGED <<policies, written>>
    /\ pc' = IF obj.version = t THEN "synced" ELSE "write"

\* syncPolicy: a text with the hash of the status is not written again.
Sync ==
    /\ pc = "sync" /\ client
    /\ \E t \in ToHCL(obj.spec.rules) : Synced(t)
    /\ UNCHANGED <<cluster, baoUp, operator, obj, history>>

Apply == /\ policies' = [policies EXCEPT ![PolicyName(obj.spec)] = text]
         /\ written' = <<PolicyName(obj.spec), text>>

Write ==
    /\ pc = "write" /\ baoUp
    /\ Apply
    /\ pc' = "synced"
    /\ UNCHANGED <<cluster, baoUp, operator, obj, text, history>>

SyncFailsLate ==
    /\ \/ pc = "sync" /\ ~client /\ UNCHANGED <<policies, written>>
       \/ pc = "write" /\ ~baoUp /\ UNCHANGED <<policies, written>>
       \/ pc = "write" /\ baoUp /\ "lostReply" \in Env /\ Apply
    /\ pc' = "failed"
    /\ UNCHANGED <<cluster, baoUp, operator, obj, text, history>>

\* It returns an error: there is no client, OpenBao refuses, or its answer is lost
\* after the write.
SyncFails ==
    /\ \/ pc = "sync" /\ ~client /\ UNCHANGED <<policies, written>>
       \/ pc = "write" /\ ~baoUp /\ UNCHANGED <<policies, written>>
       \/ pc = "write" /\ baoUp /\ "lostReply" \in Env /\ Apply
    /\ pc' = "failed" /\ text' = None
    /\ UNCHANGED <<cluster, baoUp, operator, obj, history>>

\* The status that syncPolicy leaves on the copy.
WithVersion ==
    IF text \in {None, obj.version}
         THEN obj
         ELSE [obj EXCEPT !.version = text, !.applied = PolicyName(obj.spec)]

ReportSyncedRefetched ==
    /\ pc = "synced" /\ live # None /\ ~live.deleting
    /\ live' = [live EXCEPT !.version = WithVersion.version, !.applied = WithVersion.applied,
                            !.ready = TRUE, !.observed = live.generation]
    /\ Return(TRUE)
    /\ UNCHANGED <<uids, bao, history>>

\* The status of a sync, and the next one after five minutes.
ReportSynced ==
    /\ pc = "synced"
    /\ UpdateTo([WithVersion EXCEPT !.ready = TRUE, !.observed = obj.generation])
    /\ Return(TRUE)

ReportFailedQuietly ==
    /\ pc = "failed"
    /\ UpdateTo([WithVersion EXCEPT !.ready = FALSE])
    /\ Return(FALSE)

\* The status of a failed sync, and another attempt after 30 seconds.
ReportFailed ==
    /\ pc = "failed"
    /\ UpdateTo([WithVersion EXCEPT !.ready = FALSE])
    /\ Return(TRUE)

UnfinalizeInOpenBao ==
    /\ pc = "unfinalize" /\ client
    /\ UpdateTo(None)
    /\ Return(FALSE)

\* handleDeletion logs what it should delete, and removes the finalizer.
Unfinalize ==
    /\ pc = "unfinalize"
    /\ UpdateTo(None)
    /\ Return(FALSE)

\* An update of the BaoPolicy is refused or lost: Reconcile returns the error.
UpdateFails ==
    /\ pc \in {"finalize", "synced", "failed", "unfinalize"}
    /\ Return(TRUE)
    /\ UNCHANGED <<cluster, bao, history>>

Reconcile ==
    \/ Begin \/ BeginGone \/ Finalize \/ Sync \/ Write \/ SyncFails
    \/ ReportSynced \/ ReportFailed \/ Unfinalize \/ UpdateFails

-----------------------------------------------------------------------------
\* The operator around Reconcile, and everybody else.
Observe ==
    /\ seen # live
    /\ seen' = live
    /\ queued' = TRUE
    /\ UNCHANGED <<cluster, bao, timer, client, reconcile, history>>

TimerFires ==
    /\ timer
    /\ timer' = FALSE /\ queued' = TRUE
    /\ UNCHANGED <<cluster, bao, seen, client, reconcile, history>>

\* The operator restarts, without a client if NewClient fails (main.go:100).
Crash ==
    /\ "crash" \in Env
    /\ pc' = "idle" /\ obj' = None /\ text' = None
    /\ seen' = live
    /\ queued' = (live # None) /\ timer' = FALSE
    /\ client' = (baoUp \/ ~LogsIn)
    /\ UNCHANGED <<cluster, bao, history>>

Create(s) ==
    /\ live = None /\ uids < MaxUID
    /\ uids' = uids + 1
    /\ live' = [uid |-> uids', generation |-> 1, spec |-> s, finalizer |-> FALSE,
                deleting |-> FALSE, ready |-> FALSE, observed |-> 0,
                version |-> None, applied |-> None]
    /\ past' = {s.rules}
    /\ orderly' = TRUE
    /\ UNCHANGED <<bao, operator, reconcile>>

Edit(s) ==
    /\ live # None
    /\ live.generation < MaxGeneration /\ s # live.spec
    /\ live' = [live EXCEPT !.spec = s, !.generation = @ + 1]
    /\ past' = past \cup {s.rules}
    /\ orderly' = (orderly /\ s.rules \notin past)
    /\ UNCHANGED <<uids, bao, operator, reconcile>>

\* The finalizer holds the object back.
Delete ==
    /\ live # None
    /\ ~live.deleting
    /\ live' = IF live.finalizer THEN [live EXCEPT !.deleting = TRUE] ELSE None
    /\ UNCHANGED <<uids, bao, operator, reconcile, history>>

\* Somebody else deletes a policy in OpenBao.
Tamper(n) ==
    /\ "tamper" \in Env /\ policies[n] # None
    /\ policies' = [policies EXCEPT ![n] = None]
    /\ orderly' = FALSE
    /\ UNCHANGED <<cluster, baoUp, written, operator, reconcile, past>>

Outage ==
    /\ "outage" \in Env /\ baoUp
    /\ baoUp' = FALSE
    /\ UNCHANGED <<cluster, policies, written, operator, reconcile, history>>

Recovery ==
    /\ ~baoUp
    /\ baoUp' = TRUE
    /\ UNCHANGED <<cluster, policies, written, operator, reconcile, history>>

PolicyInit ==
    /\ live = None /\ uids = 0
    /\ policies = [n \in Names |-> None] /\ baoUp = TRUE /\ written = <<>>
    /\ seen = None /\ queued = FALSE /\ timer = FALSE /\ client = TRUE
    /\ pc = "idle" /\ obj = None /\ text = None
    /\ past = {} /\ orderly = TRUE

PolicyNext ==
    \/ Reconcile \/ Observe \/ TimerFires \/ Crash
    \/ \E s \in Specs : Create(s) \/ Edit(s)
    \/ Delete
    \/ \E n \in Names : Tamper(n)
    \/ Outage \/ Recovery

PolicySpec == PolicyInit /\ [][PolicyNext]_policyVars

(***************************************************************************)
(* The worker, the informer and the timers keep running; a call that is      *)
(* possible again and again succeeds at last.                               *)
(***************************************************************************)
PolicyFairness ==
    /\ WF_policyVars(Reconcile) /\ WF_policyVars(Observe) /\ WF_policyVars(TimerFires)
    /\ SF_policyVars(Finalize) /\ SF_policyVars(Sync) /\ SF_policyVars(Write)
    /\ SF_policyVars(ReportSynced) /\ SF_policyVars(Unfinalize)

FairPolicySpec == PolicySpec /\ PolicyFairness

-----------------------------------------------------------------------------
PolicyTypeOK ==
    /\ live \in BaoPolicies \cup {None} /\ uids \in 0..MaxUID
    /\ policies \in [Names -> Texts \cup {None}] /\ baoUp \in BOOLEAN
    /\ written \in (Names \X Texts) \cup {<<>>}
    /\ seen \in BaoPolicies \cup {None}
    /\ queued \in BOOLEAN /\ timer \in BOOLEAN /\ client \in BOOLEAN
    /\ pc \in {"idle", "finalize", "sync", "write", "synced", "failed", "unfinalize"}
    /\ obj \in IF pc = "idle" THEN {None} ELSE BaoPolicies
    /\ text \in IF pc \in {"write", "synced"} THEN Texts ELSE {None}
    /\ past \subseteq Rules /\ orderly \in BOOLEAN

(***************************************************************************)
(* A status that names a policy and its version names the write that OpenBao  *)
(* applied last, although it is stored after the write, in an update that can *)
(* conflict or be lost (133-142, 90).                                       *)
(***************************************************************************)
VersionOf(b) == IF b = None THEN <<>> ELSE <<b.applied, b.version>>

StatusFollowsWrites ==
    [][VersionOf(live') # VersionOf(live) =>
           live' = None \/ live'.version = None \/ VersionOf(live') = written]_policyVars

(***************************************************************************)
(* A BaoPolicy that reports ready at its present generation has the version  *)
(* of its own rules; and it is in force under its name, in one text or        *)
(* another, as long as every edit brings rules that it has not had before and *)
(* nobody else touches the policy: syncPolicy skips the write of a policy that *)
(* was renamed only, or went back to the rules of its status (120-124).       *)
(***************************************************************************)
ReadyIsInForce ==
    live # None /\ live.ready /\ live.observed = live.generation =>
        /\ live.version # None /\ live.version.rules = live.spec.rules
        /\ orderly => LET p == policies[PolicyName(live.spec)] IN
                        p # None /\ p.rules = live.spec.rules

\* A deletion completes, with or without OpenBao, and however often it is repeated
\* (handleDeletion, 148-177).
PolicyDeletionCompletes == []<>(live = None \/ ~live.deleting)

(***************************************************************************)
(* When the BaoPolicy and OpenBao settle and the operator has a client, the  *)
(* policy is reported ready at its last generation, through conflicts, stale *)
(* copies, lost answers and restarts (Reconcile, 42-96).                     *)
(***************************************************************************)
PolicyConverges ==
    <>[](live # None /\ ~live.deleting /\ baoUp /\ client) =>
        []<>(live # None /\ live.ready /\ live.observed = live.generation)

=============================================================================
