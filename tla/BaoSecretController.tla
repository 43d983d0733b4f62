------------------------- MODULE BaoSecretController ------------------------
(***************************************************************************)
(* The BaoSecret controller of the operator                                 *)
(* (internal/controller/baosecret_controller.go): one BaoSecret, the secret *)
(* in OpenBao it names, and the Kubernetes Secrets it is copied to.  The    *)
(* controller reads Kubernetes objects from informer caches, which lag      *)
(* behind the API server.                                                   *)
(*                                                                         *)
(* The API server accepts an update only of the version that is current;    *)
(* here, if the updater's copy equals the object.  A call can also fail for *)
(* any other reason.  The data of a Secret is the value it was rendered     *)
(* from; a source that cannot be rendered (a missing key, a bad template)   *)
(* is None, like one that is absent.  Labels and annotations are left out.  *)
(* Operators that no action uses are faulty variants for testing properties.*)
(***************************************************************************)
EXTENDS Naturals

CONSTANTS
    Values,         \* what the secret in OpenBao may hold
    Targets,        \* namespace and name of target Secrets
    SameNamespace,  \* the targets in the namespace of the BaoSecret
    Types,          \* types of Secrets, which the API server never changes
    Specs,          \* [target, type, policy, suspend]: the specs a user may write
    Endless,        \* the <<spec, value>> of which the template is never rendered: a
                    \* value that contains its own placeholder and more
    Invalid,        \* the <<spec, value>> that make a Secret the API server refuses
    Foreign,        \* another object that controls Secrets, and stays
    Others,         \* the Secrets that someone else may make of a target
    MaxUID,         \* bound on how often the BaoSecret is created
    MaxGeneration,  \* bound on the generations of its specs
    None,           \* an absent object, value or controller
    LogsIn,         \* NewClient has to log in to OpenBao (Kubernetes auth)
    Env             \* what the environment may do, a subset of EnvKinds

EnvKinds == {"outage", "crash", "tamper"}

BaoSecrets == [uid : 1..MaxUID, generation : 1..MaxGeneration, spec : Specs,
               finalizer : BOOLEAN, deleting : BOOLEAN,
               ready : BOOLEAN, observed : 0..MaxGeneration]

Secrets == [data : Values, type : Types, owner : 1..MaxUID \cup {None, Foreign}]

Syncs == [uid : 1..MaxUID, generation : 1..MaxGeneration,
          target : Targets, policy : {"Owner", "Orphan"}]

ASSUME ControllerAssumption ==
    /\ SameNamespace \subseteq Targets
    /\ Specs \subseteq [target : Targets, type : Types, policy : {"Owner", "Orphan"},
                       suspend : BOOLEAN]
    /\ Endless \subseteq Specs \X Values /\ Invalid \subseteq Specs \X Values
    /\ Others \subseteq [data : Values, type : Types, owner : {None, Foreign}]
    /\ MaxUID \in Nat /\ MaxGeneration \in Nat \ {0}
    /\ Foreign # None /\ Foreign \notin Nat
    /\ None \notin Values \cup Nat \cup BaoSecrets \cup Secrets \cup Syncs
    /\ LogsIn \in BOOLEAN /\ Env \subseteq EnvKinds

VARIABLES
    live,       \* the BaoSecret in the API server, or None
    uids,       \* how many BaoSecrets there have been
    secrets,    \* secrets[t]: the Secret t in the API server, or None
    source,     \* the value OpenBao holds at spec.secretPath, or None
    baoUp,      \* OpenBao answers requests
    client,     \* the operator has an OpenBao client
    seen,       \* the BaoSecret in the operator's cache
    copies,     \* copies[t]: the Secret t in the operator's cache
    queued,     \* the work queue holds a request for the BaoSecret
    timer,      \* ... or will hold one later (RequeueAfter, rate limiter)
    pc,         \* where Reconcile is
    obj,        \* its copy of the BaoSecret
    data,       \* what it has read from OpenBao
    synced,     \* history: the last sync of a target
    asked       \* history: uids and the targets they were ever to own

cluster == <<live, uids, secrets, asked>>
bao == <<source, baoUp>>
caches == <<seen, copies>>
operator == <<caches, queued, timer, client>>
reconcile == <<pc, obj, data>>
vars == <<cluster, bao, operator, reconcile, synced>>

BSTypeOK ==
    /\ live \in BaoSecrets \cup {None} /\ uids \in 0..MaxUID
    /\ secrets \in [Targets -> Secrets \cup {None}]
    /\ source \in Values \cup {None} /\ baoUp \in BOOLEAN
    /\ seen \in BaoSecrets \cup {None}
    /\ copies \in [Targets -> Secrets \cup {None}]
    /\ queued \in BOOLEAN /\ timer \in BOOLEAN /\ client \in BOOLEAN
    /\ pc \in {"idle", "finalize", "suspend", "read", "render", "write", "synced", "failed",
              "unfinalize"}
    /\ obj \in IF pc = "idle" THEN {None} ELSE BaoSecrets
    /\ data \in IF pc = "write" THEN Values ELSE {None}
    /\ synced \in Syncs \cup {None}
    /\ asked \subseteq (1..MaxUID) \X SameNamespace

-----------------------------------------------------------------------------
\* Reconcile, from the Get to its return.

\* It returns; again says whether it is to run again later.
Return(again) ==
    /\ pc' = "idle" /\ obj' = None /\ data' = None
    /\ timer' = (timer \/ again)
    /\ UNCHANGED <<caches, queued, client>>

SyncFromSuspended(s) == "read"

\* The sync of a BaoSecret that has its finalizer, unless it is suspended.
SyncFrom(s) == IF s.spec.suspend THEN "suspend" ELSE "read"

BeginSuspendedFirst ==
    /\ pc = "idle" /\ queued /\ seen # None
    /\ queued' = FALSE
    /\ obj' = seen
    /\ pc' = CASE seen.spec.suspend -> "suspend"
                [] ~seen.spec.suspend /\ seen.deleting -> "unfinalize"
                [] OTHER -> IF seen.finalizer THEN "read" ELSE "finalize"
    /\ UNCHANGED <<cluster, bao, caches, timer, client, data, synced>>

\* The worker takes the request; Get finds the BaoSecret.
Begin ==
    /\ pc = "idle" /\ queued /\ seen # None
    /\ queued' = FALSE
    /\ obj' = seen
    /\ pc' = CASE seen.deleting -> "unfinalize"
                [] ~seen.deleting /\ ~seen.finalizer -> "finalize"
                [] OTHER -> SyncFrom(seen)
    /\ UNCHANGED <<cluster, bao, caches, timer, client, data, synced>>

\* Get finds nothing.
BeginGone ==
    /\ pc = "idle" /\ queued /\ seen = None
    /\ queued' = FALSE
    /\ UNCHANGED <<cluster, bao, caches, timer, client, reconcile, synced>>

\* An update of the BaoSecret with the fields that f changes succeeds.
UpdateTo(new) ==
    /\ obj = live
    /\ live' = new
    /\ UNCHANGED <<uids, secrets, asked, bao>>

FinalizeLocally ==
    /\ pc = "finalize"
    /\ obj' = [obj EXCEPT !.finalizer = TRUE]
    /\ pc' = SyncFrom(obj)
    /\ UNCHANGED <<cluster, bao, operator, data, synced>>

\* AddFinalizer and Update, which returns the new version.
Finalize ==
    /\ pc = "finalize"
    /\ UpdateTo([obj EXCEPT !.finalizer = TRUE])
    /\ obj' = live'
    /\ pc' = SyncFrom(obj)
    /\ UNCHANGED <<operator, data, synced>>

\* suspendSync: the status says so, and nothing is asked for later.
Suspend ==
    /\ pc = "suspend"
    /\ UpdateTo([obj EXCEPT !.ready = FALSE])
    /\ Return(FALSE)
    /\ UNCHANGED synced

\* KVRead, and applyTemplate, which comes to an end.
Read ==
    /\ pc = "read" /\ client /\ baoUp /\ source # None
    /\ <<obj.spec, source>> \notin Endless
    /\ data' = source
    /\ pc' = "write"
    /\ UNCHANGED <<cluster, bao, operator, obj, synced>>

\* replaceAll puts in a value that contains what it replaces: the only worker never
\* comes back, until the operator is restarted (for want of memory, at last).
ReadEndless ==
    /\ pc = "read" /\ client /\ baoUp /\ source # None
    /\ <<obj.spec, source>> \in Endless
    /\ pc' = "render"
    /\ UNCHANGED <<cluster, bao, operator, obj, data, synced>>

\* syncSecret gives up, at any step.
SyncFails ==
    /\ \/ pc = "read" /\ (~client \/ ~baoUp \/ source = None)
       \/ pc = "write"
    /\ pc' = "failed" /\ data' = None
    /\ UNCHANGED <<cluster, bao, operator, obj, synced>>

\* The owner reference that the mutate function of CreateOrUpdate leaves on
\* the target t: set for a target in the namespace, and never removed.
SetsReferenceAnywhere(t) == obj.spec.policy = "Owner"

SetsReference(t) == obj.spec.policy = "Owner" /\ t \in SameNamespace

OwnerOf(s) == IF s = None THEN None ELSE s.owner

UidOf(b) == IF b = None THEN None ELSE b.uid

\* The target that the spec of b asks to own: with the policy "Owner", in its namespace.
Asks(b) ==
    {<<b.uid, t>> : t \in {u \in SameNamespace : b.spec.policy = "Owner" /\ b.spec.target = u}}

Wanted(t) ==
    [data |-> data, type |-> obj.spec.type,
     owner |-> IF SetsReference(t) THEN obj.uid ELSE OwnerOf(copies[t])]

\* The API server validates a Secret, and refuses to change the type of one.
Accepted(t) ==
    /\ <<obj.spec, data>> \notin Invalid
    /\ secrets[t] # None => secrets[t].type = obj.spec.type

RefusedNever(t) == FALSE

\* SetControllerReference refuses a Secret that another object controls.
Refused(t) == SetsReference(t) /\ OwnerOf(copies[t]) \notin {None, obj.uid}

\* CreateOrUpdate succeeds: it creates or updates the target if the cached copy
\* is the current one, and does nothing if the copy already is as wanted.
Write ==
    /\ pc = "write"
    /\ LET t == obj.spec.target IN
       /\ ~Refused(t)
       /\ \/ copies[t] = Wanted(t) /\ UNCHANGED secrets
          \/ /\ copies[t] = secrets[t] /\ Accepted(t)
             /\ secrets' = [secrets EXCEPT ![t] = Wanted(t)]
       /\ synced' = [uid |-> obj.uid, generation |-> obj.generation,
                     target |-> t, policy |-> obj.spec.policy]
    /\ pc' = "synced" /\ data' = None
    /\ UNCHANGED <<live, uids, asked, bao, operator, obj>>

ReportSyncedRefetched ==
    /\ pc = "synced" /\ UidOf(live) = obj.uid
    /\ live' = [live EXCEPT !.ready = TRUE, !.observed = live.generation]
    /\ Return(TRUE)
    /\ UNCHANGED <<uids, secrets, asked, bao, synced>>

\* The status of a sync, and the next one after refreshInterval.
ReportSynced ==
    /\ pc = "synced"
    /\ UpdateTo([obj EXCEPT !.ready = TRUE, !.observed = obj.generation])
    /\ Return(TRUE)
    /\ UNCHANGED synced

ReportFailedAsObserved ==
    /\ pc = "failed"
    /\ UpdateTo([obj EXCEPT !.observed = obj.generation])
    /\ Return(TRUE)
    /\ UNCHANGED synced

ReportFailedQuietly ==
    /\ pc = "failed"
    /\ UpdateTo([obj EXCEPT !.ready = FALSE])
    /\ Return(FALSE)
    /\ UNCHANGED synced

\* The status of a failed sync, and another attempt after 30 seconds.
ReportFailed ==
    /\ pc = "failed"
    /\ UpdateTo([obj EXCEPT !.ready = FALSE])
    /\ Return(TRUE)
    /\ UNCHANGED synced

\* handleDeletion: with its last finalizer gone, so is the object.
Unfinalize ==
    /\ pc = "unfinalize"
    /\ UpdateTo(None)
    /\ Return(FALSE)
    /\ UNCHANGED synced

\* An update of the BaoSecret is refused or lost: Reconcile returns the error.
UpdateFails ==
    /\ pc \in {"finalize", "suspend", "synced", "failed", "unfinalize"}
    /\ Return(TRUE)
    /\ UNCHANGED <<cluster, bao, synced>>

Reconcile ==
    \/ Begin \/ BeginGone \/ Finalize \/ Suspend \/ Read \/ ReadEndless \/ SyncFails
    \/ Write \/ ReportSynced \/ ReportFailed \/ Unfinalize \/ UpdateFails

-----------------------------------------------------------------------------
\* The operator around Reconcile, and everybody else.

\* An event brings a cache up to date and queues a request: for the BaoSecret
\* itself, or for the one that a Secret names as its controller, now or before.
Observe ==
    /\ seen # live
    /\ seen' = live
    /\ queued' = TRUE
    /\ UNCHANGED <<cluster, bao, copies, timer, client, reconcile, synced>>

ObserveSecret(t) ==
    /\ copies[t] # secrets[t]
    /\ copies' = [copies EXCEPT ![t] = secrets[t]]
    /\ queued' = (queued \/ {OwnerOf(copies[t]), OwnerOf(secrets[t])} # {None})
    /\ UNCHANGED <<cluster, bao, seen, timer, client, reconcile, synced>>

TimerFires ==
    /\ timer
    /\ timer' = FALSE /\ queued' = TRUE
    /\ UNCHANGED <<cluster, bao, caches, client, reconcile, synced>>

\* The operator restarts: its caches are filled anew, from lists that may be as old as
\* the caches were, and every object in them is queued.  If NewClient fails, the new
\* operator goes on without a client (main.go:100).
Crash ==
    /\ "crash" \in Env
    /\ pc' = "idle" /\ obj' = None /\ data' = None
    /\ seen' \in {seen, live} /\ queued' = (seen' # None) /\ timer' = FALSE
    /\ copies' \in {c \in [Targets -> Secrets \cup {None}] :
                       \A t \in Targets : c[t] \in {copies[t], secrets[t]}}
    /\ client' = (baoUp \/ ~LogsIn)
    /\ UNCHANGED <<cluster, bao, synced>>

Create(s) ==
    /\ live = None /\ uids < MaxUID
    /\ uids' = uids + 1
    /\ live' = [uid |-> uids', generation |-> 1, spec |-> s, finalizer |-> FALSE,
                deleting |-> FALSE, ready |-> FALSE, observed |-> 0]
    /\ asked' = asked \cup Asks(live')
    /\ UNCHANGED <<secrets, bao, operator, reconcile, synced>>

Edit(s) ==
    /\ live # None
    /\ live.generation < MaxGeneration /\ s # live.spec
    /\ live' = [live EXCEPT !.spec = s, !.generation = @ + 1]
    /\ asked' = asked \cup Asks(live')
    /\ UNCHANGED <<uids, secrets, bao, operator, reconcile, synced>>

\* The finalizer holds the object back.
Delete ==
    /\ live # None
    /\ ~live.deleting
    /\ live' = IF live.finalizer THEN [live EXCEPT !.deleting = TRUE] ELSE None
    /\ UNCHANGED <<uids, secrets, asked, bao, operator, reconcile, synced>>

\* The garbage collector removes a Secret whose owner is gone.
Collect(t) ==
    /\ OwnerOf(secrets[t]) \notin {None, Foreign, UidOf(live)}
    /\ secrets' = [secrets EXCEPT ![t] = None]
    /\ UNCHANGED <<live, uids, asked, bao, operator, reconcile, synced>>

\* Someone else creates, changes or deletes a target.
Tamper(t) ==
    /\ "tamper" \in Env
    /\ \/ secrets' = [secrets EXCEPT ![t] = None]
       \/ \E s \in Others :
             /\ secrets[t] # None => secrets[t].type = s.type
             /\ secrets' = [secrets EXCEPT ![t] =
                    [s EXCEPT !.owner = IF OwnerOf(secrets[t]) = None THEN s.owner
                                        ELSE OwnerOf(secrets[t])]]
    /\ UNCHANGED <<live, uids, asked, bao, operator, reconcile, synced>>

SourceChanges(v) ==
    /\ v # source
    /\ source' = v
    /\ UNCHANGED <<cluster, baoUp, operator, reconcile, synced>>

Outage ==
    /\ "outage" \in Env /\ baoUp
    /\ baoUp' = FALSE
    /\ UNCHANGED <<cluster, source, operator, reconcile, synced>>

Recovery ==
    /\ ~baoUp
    /\ baoUp' = TRUE
    /\ UNCHANGED <<cluster, source, operator, reconcile, synced>>

Init ==
    /\ live = None /\ uids = 0
    /\ secrets = [t \in Targets |-> None] /\ copies = secrets
    /\ source \in Values \cup {None} /\ baoUp = TRUE
    /\ seen = None /\ queued = FALSE /\ timer = FALSE /\ client = TRUE
    /\ pc = "idle" /\ obj = None /\ data = None
    /\ synced = None /\ asked = {}

Next ==
    \/ Reconcile \/ Observe \/ TimerFires \/ Crash
    \/ \E s \in Specs : Create(s) \/ Edit(s)
    \/ Delete
    \/ \E t \in Targets : ObserveSecret(t) \/ Collect(t) \/ Tamper(t)
    \/ \E v \in Values \cup {None} : SourceChanges(v)
    \/ Outage \/ Recovery

Spec == Init /\ [][Next]_vars

(***************************************************************************)
(* The worker, the informers, the timers and the garbage collector keep     *)
(* running; a call that is possible again and again succeeds at last, as    *)
(* neither conflicts nor restarts always hit the same step.                 *)
(***************************************************************************)
Fairness ==
    /\ WF_vars(Reconcile) /\ WF_vars(Observe) /\ WF_vars(TimerFires)
    /\ \A t \in Targets : WF_vars(ObserveSecret(t)) /\ WF_vars(Collect(t))
    /\ SF_vars(Finalize) /\ SF_vars(Read) /\ SF_vars(Write) /\ SF_vars(ReportSynced)
    /\ SF_vars(Unfinalize)

FairSpec == Spec /\ Fairness

-----------------------------------------------------------------------------
(***************************************************************************)
(* Only a BaoSecret that still exists, under the finalizer of the           *)
(* controller, is synchronised: no Secret is written for one that is gone,  *)
(* however old the cached copy that Reconcile works on (lines 74-116).      *)
(***************************************************************************)
OnlyLiveOnesAreSynced ==
    pc \in {"read", "render", "write", "synced", "failed"} =>
        UidOf(live) = obj.uid /\ live.finalizer

(***************************************************************************)
(* A BaoSecret that reports ready at its present generation was last        *)
(* synchronised at that generation: no Reconcile of an older copy has       *)
(* written a target after the report (lines 105-130).                       *)
(***************************************************************************)
ReadyIsCurrent ==
    live # None /\ live.ready /\ live.observed = live.generation =>
        /\ synced # None
        /\ synced.uid = live.uid /\ synced.generation = live.generation
        /\ synced.target = live.spec.target

(***************************************************************************)
(* A Secret passes from one controlling BaoSecret to another only through   *)
(* its deletion (SetControllerReference on a copy that may be old, 240).    *)
(***************************************************************************)
OwnersAreNotReplaced ==
    [][\A t \in Targets : OwnerOf(secrets[t]) # None /\ secrets'[t] # None =>
           OwnerOf(secrets'[t]) = OwnerOf(secrets[t])]_vars

(***************************************************************************)
(* A Secret is controlled only by a BaoSecret of its own namespace whose     *)
(* spec had the policy "Owner" for it, at the present or at an earlier       *)
(* generation: a Secret that no BaoSecret ever asked to own, in whatever     *)
(* life, is never left to the garbage collector (lines 239-243).            *)
(***************************************************************************)
ReferencesWereAsked ==
    \A t \in Targets :
        OwnerOf(secrets[t]) \notin {None, Foreign} => <<OwnerOf(secrets[t]), t>> \in asked

(***************************************************************************)
(* What all this comes to, seen through the status: the generations that    *)
(* are applied go forward only, through every stale copy, conflict and      *)
(* restart, and the status reports what was applied last (lines 52-137).    *)
(***************************************************************************)
PresentGeneration == IF live = None THEN 0 ELSE live.generation

AppliedLast ==
    IF synced = None THEN [uid |-> 0, generation |-> 0]
    ELSE [uid |-> synced.uid, generation |-> synced.generation]

ReportedGeneration == IF live # None /\ live.ready THEN live.observed ELSE 0

Forward == INSTANCE ForwardSync WITH
    uid <- uids, generation <- PresentGeneration,
    applied <- AppliedLast, reported <- ReportedGeneration

ImplementsForwardSync == Forward!Spec

\* The worker is not stuck for good in a template that it never finishes.
NotStuck == []<>(pc # "render")

(***************************************************************************)
(* A deletion completes, whether OpenBao answers or not, whatever Reconcile *)
(* is doing when it is asked for, and even from a template without end if   *)
(* the operator is restarted then (handleDeletion, 268-289).                *)
(***************************************************************************)
DeletionCompletes ==
    NotStuck => \A u \in 1..MaxUID :
        (live # None /\ live.uid = u /\ live.deleting) ~> (live = None \/ live.uid # u)

\* Nothing stands in the way of synchronising v.  An operator that came up
\* during an outage has no client, and never gets one while it runs; a Secret that
\* has another type, or that another object controls, stays in the way until somebody
\* deletes it.
Synchronisable(v) ==
    /\ live # None /\ ~live.deleting /\ ~live.spec.suspend
    /\ source = v /\ baoUp /\ client
    /\ <<live.spec, v>> \notin Endless \cup Invalid
    /\ secrets[live.spec.target] # None =>
          /\ secrets[live.spec.target].type = live.spec.type
          /\ Asks(live) # {} => secrets[live.spec.target].owner # Foreign

\* Only the controller and the garbage collector change Secrets.
Untampered == \A t \in Targets : secrets'[t] = secrets[t] \/ Collect(t) \/ Write

(***************************************************************************)
(* When the BaoSecret, the value in OpenBao and OpenBao itself settle, and  *)
(* people leave the Secrets alone, the target comes to hold the value and  *)
(* the status to say so, through every conflict, stale copy and restart,    *)
(* whether the target was deleted or changed before or belongs to an earlier *)
(* BaoSecret of the name (Reconcile, 52-137).                               *)
(***************************************************************************)
Converges ==
    \A v \in Values :
        <>[]Synchronisable(v) /\ <>[][Untampered]_vars /\ NotStuck =>
            []<>(/\ live # None /\ live.ready /\ live.observed = live.generation
                 /\ secrets[live.spec.target] # None
                 /\ secrets[live.spec.target].data = v)

(***************************************************************************)
(* A BaoSecret that stays suspended is not synchronised any more            *)
(* (docs/TESTING.md, FT-E-04; lines 89-97).                                 *)
(***************************************************************************)
SuspensionHolds ==
    <>[](live # None /\ live.spec.suspend) => <>[](pc # "write")

=============================================================================
