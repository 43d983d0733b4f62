--------------------- MODULE BaoSecretController_proofs ---------------------
(***************************************************************************)
(* Proofs about BaoSecretController, for any set of targets, values and     *)
(* specs and any number of BaoSecrets and generations: type correctness,    *)
(* then CopiesInv, which says how old the copies in the cache and in        *)
(* Reconcile can be, and on top of it ReadyInv.                             *)
(***************************************************************************)
EXTENDS BaoSecretController, TLAPS

\* Every step keeps the variables in their types.
LEMMA TypesStep == BSTypeOK /\ [Next]_vars => BSTypeOK'
<1> USE ControllerAssumption DEF BSTypeOK, BaoSecrets, Secrets, Syncs, cluster, bao, caches,
         operator, reconcile
<1> SUFFICES ASSUME BSTypeOK, [Next]_vars PROVE BSTypeOK'
  OBVIOUS
<1>0. \A b \in BaoSecrets : Asks(b) \subseteq (1..MaxUID) \X SameNamespace
  BY DEF Asks
<1>1. CASE Begin
  <2>1. seen \in BaoSecrets /\ obj' = seen /\ pc = "idle"
    BY <1>1 DEF Begin
  <2>2. pc' \in {"unfinalize", "finalize", "suspend", "read"}
    BY <1>1 DEF Begin, SyncFrom
  <2>3. queued' \in BOOLEAN
    BY <1>1 DEF Begin
  <2>4. UNCHANGED <<live, uids, secrets, source, baoUp, seen, copies, timer, client, data, synced, asked>>
    BY <1>1 DEF Begin
  <2> QED
    BY <2>1, <2>2, <2>3, <2>4
<1>2. CASE BeginGone
  BY <1>2 DEF BeginGone
<1>3. CASE Finalize
  BY <1>3 DEF Finalize, UpdateTo, SyncFrom
<1>4. CASE Suspend
  BY <1>4 DEF Suspend, UpdateTo, Return
<1>5. CASE Read \/ ReadEndless
  BY <1>5 DEF Read, ReadEndless
<1>6. CASE SyncFails
  BY <1>6 DEF SyncFails
<1>7. CASE Write
  <2>1. obj \in BaoSecrets /\ obj.spec \in Specs /\ data \in Values
    BY <1>7 DEF Write
  <2>2. \A t \in Targets : Wanted(t) \in Secrets
    BY <2>1 DEF Wanted, OwnerOf
  <2>3. secrets' \in [Targets -> Secrets \cup {None}]
    BY <1>7, <2>1, <2>2 DEF Write
  <2>4. synced' \in Syncs
    BY <1>7, <2>1 DEF Write
  <2>5. pc' = "synced" /\ data' = None
        /\ UNCHANGED <<live, uids, source, baoUp, seen, copies, queued, timer, client, obj, asked>>
    BY <1>7 DEF Write
  <2> QED
    BY <2>1, <2>3, <2>4, <2>5
<1>8. CASE ReportSynced
  <2>1. obj \in BaoSecrets /\ obj.generation \in 0..MaxGeneration
    BY <1>8 DEF ReportSynced
  <2>2. live' \in BaoSecrets
    BY <1>8, <2>1 DEF ReportSynced, UpdateTo
  <2>3. timer' \in BOOLEAN
    BY <1>8 DEF ReportSynced, Return
  <2>4. UNCHANGED <<uids, secrets, source, baoUp, seen, copies, queued, client, synced, asked>>
    BY <1>8 DEF ReportSynced, UpdateTo, Return
  <2>5. pc' = "idle" /\ obj' = None /\ data' = None
    BY <1>8 DEF ReportSynced, Return
  <2> QED
    BY <2>2, <2>3, <2>4, <2>5
<1>9. CASE ReportFailed
  BY <1>9 DEF ReportFailed, UpdateTo, Return
<1>10. CASE Unfinalize
  BY <1>10 DEF Unfinalize, UpdateTo, Return
<1>11. CASE UpdateFails
  BY <1>11 DEF UpdateFails, Return
<1>12. CASE Observe
  BY <1>12 DEF Observe
<1>13. CASE TimerFires
  <2>1. timer' \in BOOLEAN /\ queued' \in BOOLEAN
    BY <1>13 DEF TimerFires
  <2>2. UNCHANGED <<live, uids, secrets, source, baoUp, seen, copies, client, pc, obj, data, synced, asked>>
    BY <1>13 DEF TimerFires
  <2> QED
    BY <2>1, <2>2
<1>14. CASE Crash
  <2>1. seen' \in BaoSecrets \cup {None} /\ copies' \in [Targets -> Secrets \cup {None}]
    BY <1>14 DEF Crash
  <2>2. queued' \in BOOLEAN /\ timer' \in BOOLEAN /\ client' \in BOOLEAN
    BY <1>14 DEF Crash
  <2>3. pc' = "idle" /\ obj' = None /\ data' = None
        /\ UNCHANGED <<live, uids, secrets, source, baoUp, synced, asked>>
    BY <1>14 DEF Crash
  <2> QED
    BY <2>1, <2>2, <2>3
<1>15. ASSUME NEW s \in Specs, Create(s) PROVE BSTypeOK'
  <2>1. live' \in BaoSecrets /\ uids' \in 0..MaxUID
    BY <1>15 DEF Create
  <2>2. asked' \subseteq (1..MaxUID) \X SameNamespace
    BY <1>0, <1>15, <2>1 DEF Create
  <2>3. UNCHANGED <<secrets, source, baoUp, seen, copies, queued, timer, client, pc, obj,
                    data, synced>>
    BY <1>15 DEF Create
  <2> QED
    BY <2>1, <2>2, <2>3
<1>16. ASSUME NEW s \in Specs, Edit(s) PROVE BSTypeOK'
  <2>1. live \in BaoSecrets /\ live.generation + 1 \in 1..MaxGeneration
    BY <1>16 DEF Edit
  <2>2. live' \in BaoSecrets
    BY <1>16, <2>1 DEF Edit
  <2>3. UNCHANGED <<uids, secrets, source, baoUp, seen, copies, queued, timer, client, pc, obj,
                    data, synced>>
    BY <1>16 DEF Edit
  <2>4. asked' \subseteq (1..MaxUID) \X SameNamespace
    BY <1>0, <1>16, <2>2 DEF Edit
  <2> QED
    BY <2>2, <2>3, <2>4
<1>17. CASE Delete
  <2>1. live' \in BaoSecrets \cup {None}
    BY <1>17 DEF Delete
  <2>2. UNCHANGED <<uids, secrets, source, baoUp, seen, copies, queued, timer, client, pc, obj,
                    data, synced, asked>>
    BY <1>17 DEF Delete
  <2> QED
    BY <2>1, <2>2
<1>18. ASSUME NEW t \in Targets, ObserveSecret(t) PROVE BSTypeOK'
  BY <1>18 DEF ObserveSecret
<1>19. ASSUME NEW t \in Targets, Collect(t) PROVE BSTypeOK'
  BY <1>19 DEF Collect
<1>20. ASSUME NEW t \in Targets, Tamper(t) PROVE BSTypeOK'
  BY <1>20 DEF Tamper, OwnerOf
<1>21. ASSUME NEW v \in Values \cup {None}, SourceChanges(v) PROVE BSTypeOK'
  BY <1>21 DEF SourceChanges
<1>22. CASE Outage
  <2>1. baoUp' \in BOOLEAN
    BY <1>22 DEF Outage
  <2>2. UNCHANGED <<live, uids, secrets, source, seen, copies, queued, timer, client, pc, obj,
                    data, synced, asked>>
    BY <1>22 DEF Outage
  <2> QED
    BY <2>1, <2>2
<1>23. CASE Recovery
  BY <1>23 DEF Recovery
<1>24. CASE UNCHANGED vars
  BY <1>24 DEF vars
<1> QED
  BY <1>1, <1>2, <1>3, <1>4, <1>5, <1>6, <1>7, <1>8, <1>9, <1>10, <1>11, <1>12,
     <1>13, <1>14, <1>15, <1>16, <1>17, <1>18, <1>19, <1>20, <1>21, <1>22, <1>23,
     <1>24 DEF Next, Reconcile

-----------------------------------------------------------------------------
\* What a copy b of the BaoSecret, in the cache or in Reconcile, says of it.
Behind(b) ==
    b # None =>
        /\ b.uid <= uids
        /\ b.uid = UidOf(live) =>
              /\ b.generation <= live.generation
              /\ b.generation = live.generation => b.spec = live.spec
              /\ b.deleting => live.deleting
              /\ b.finalizer => live.finalizer
        /\ b.finalizer /\ ~b.deleting => b.uid = UidOf(live)

LiveInv ==
    live # None =>
        /\ live.uid = uids
        /\ live.deleting => live.finalizer
        /\ live.observed <= live.generation

\* The copy of Reconcile is no newer than the cache.
ObjInv ==
    obj # None =>
        /\ pc \in {"suspend", "read", "render", "write", "synced", "failed"} => obj.finalizer
        /\ obj.deleting <=> pc = "unfinalize"
        /\ obj.uid = UidOf(live) => UidOf(seen) = obj.uid
        /\ obj.uid = UidOf(seen) =>
              /\ obj.generation <= seen.generation
              /\ obj.deleting => seen.deleting

CopiesInv == LiveInv /\ Behind(seen) /\ Behind(obj) /\ ObjInv

\* A copy never overtakes the API server, nor Reconcile the cache.
LEMMA CopiesStep == BSTypeOK /\ CopiesInv /\ [Next]_vars => CopiesInv'
<1> USE ControllerAssumption DEF cluster, bao, caches, operator, reconcile, UidOf
<1> SUFFICES ASSUME BSTypeOK, CopiesInv, [Next]_vars PROVE CopiesInv'
  OBVIOUS
<1> DEFINE Quiet == UNCHANGED <<live, uids, seen>>
<1>a. /\ live \in BaoSecrets \cup {None} /\ seen \in BaoSecrets \cup {None}
      /\ uids \in Nat /\ obj \in BaoSecrets \cup {None}
      /\ pc = "idle" <=> obj = None
  BY DEF BSTypeOK, BaoSecrets
<1>b. ASSUME Quiet, obj' = None PROVE CopiesInv'
  BY <1>b DEF CopiesInv, LiveInv, Behind, ObjInv
<1>c. ASSUME Quiet, UNCHANGED <<pc, obj>> PROVE CopiesInv'
  BY <1>c DEF CopiesInv, LiveInv, Behind, ObjInv
<1>1. CASE Begin
  <2>1. seen # None /\ obj' = seen /\ UNCHANGED <<live, uids, seen>>
    BY <1>1 DEF Begin
  <2>2. /\ pc' = "unfinalize" <=> seen.deleting
        /\ pc' \in {"suspend", "read", "render", "write", "synced", "failed"} => seen.finalizer
    <3>1. CASE seen.deleting
      BY <1>1, <3>1, <1>a DEF Begin, CopiesInv, LiveInv, Behind, ObjInv
    <3>2. CASE ~seen.deleting /\ ~seen.finalizer
      BY <1>1, <3>2 DEF Begin
    <3>3. CASE ~seen.deleting /\ seen.finalizer
      BY <1>1, <3>3 DEF Begin, SyncFrom
    <3> QED
      BY <3>1, <3>2, <3>3
  <2>3. ObjInv'
    BY <2>1, <2>2, <1>a DEF ObjInv, BaoSecrets
  <2> QED
    BY <2>1, <2>3, <1>a DEF CopiesInv, LiveInv, Behind
<1>2. CASE BeginGone
  BY <1>2, <1>c DEF BeginGone
<1>3. CASE Finalize
  BY <1>3, <1>a DEF Finalize, UpdateTo, SyncFrom, CopiesInv, LiveInv, Behind, ObjInv, BaoSecrets
<1>4. CASE Suspend
  BY <1>4, <1>a DEF Suspend, UpdateTo, Return, CopiesInv, LiveInv, Behind, ObjInv, BaoSecrets
<1>5. CASE Read \/ ReadEndless
  BY <1>5, <1>a DEF Read, ReadEndless, CopiesInv, LiveInv, Behind, ObjInv
<1>6. CASE SyncFails
  BY <1>6, <1>a DEF SyncFails, CopiesInv, LiveInv, Behind, ObjInv
<1>7. CASE Write
  BY <1>7, <1>a DEF Write, CopiesInv, LiveInv, Behind, ObjInv
<1>8. CASE ReportSynced
  <2>0. /\ obj = live /\ live \in BaoSecrets /\ live' \in BaoSecrets
        /\ live'.generation = live.generation /\ live'.spec = live.spec
        /\ live'.uid = live.uid /\ live'.observed = live.generation
        /\ live'.deleting = live.deleting /\ live'.finalizer = live.finalizer
        /\ UNCHANGED <<uids, seen>> /\ obj' = None
    <3>1. obj = live /\ live \in BaoSecrets /\ UNCHANGED <<uids, seen>> /\ obj' = None
      BY <1>8, <1>a DEF ReportSynced, UpdateTo, Return
    <3>2. live' = [live EXCEPT !.ready = TRUE, !.observed = live.generation]
      BY <1>8, <3>1 DEF ReportSynced, UpdateTo
    <3>3. live' \in BaoSecrets
      <4>1. live.generation \in 0..MaxGeneration
        BY <3>1 DEF BaoSecrets
      <4> QED
        BY <3>1, <3>2, <4>1 DEF BaoSecrets
    <3>4. /\ live'.generation = live.generation /\ live'.spec = live.spec
          /\ live'.uid = live.uid /\ live'.observed = live.generation
      BY <3>1, <3>2 DEF BaoSecrets
    <3>5. live'.deleting = live.deleting /\ live'.finalizer = live.finalizer
      BY <3>1, <3>2 DEF BaoSecrets
    <3> QED
      BY <3>1, <3>3, <3>4, <3>5
  <2>1. LiveInv'
    BY <2>0, <1>a DEF CopiesInv, LiveInv, BaoSecrets
  <2>2. Behind(seen)'
    BY <2>0, <1>a DEF CopiesInv, Behind, BaoSecrets
  <2>3. Behind(obj)'
    BY <2>0 DEF Behind
  <2>4. ObjInv'
    BY <1>8, <1>a DEF ReportSynced, UpdateTo, Return, CopiesInv, LiveInv, Behind, ObjInv, BaoSecrets
  <2> QED
    BY <2>1, <2>2, <2>3, <2>4 DEF CopiesInv
<1>9. CASE ReportFailed
  BY <1>9, <1>a DEF ReportFailed, UpdateTo, Return, CopiesInv, LiveInv, Behind, ObjInv, BaoSecrets
<1>10. CASE Unfinalize
  BY <1>10, <1>a DEF Unfinalize, UpdateTo, Return, CopiesInv, LiveInv, Behind, ObjInv
<1>11. CASE UpdateFails
  BY <1>11, <1>b DEF UpdateFails, Return
<1>12. CASE Observe
  <2>1. LiveInv'
    BY <1>12, <1>a DEF Observe, CopiesInv, LiveInv, BaoSecrets
  <2>2. Behind(seen)'
    BY <1>12, <1>a DEF Observe, CopiesInv, LiveInv, Behind, BaoSecrets
  <2>3. Behind(obj)'
    BY <1>12, <1>a DEF Observe, CopiesInv, LiveInv, Behind, BaoSecrets
  <2>4. ObjInv'
    BY <1>12, <1>a DEF Observe, CopiesInv, LiveInv, Behind, ObjInv, BaoSecrets
  <2> QED
    BY <2>1, <2>2, <2>3, <2>4 DEF CopiesInv
<1>13. CASE TimerFires
  BY <1>13, <1>c DEF TimerFires
<1>14. CASE Crash
  <2>1. LiveInv'
    BY <1>14, <1>a DEF Crash, CopiesInv, LiveInv, BaoSecrets
  <2>2. Behind(seen)'
    BY <1>14, <1>a DEF Crash, CopiesInv, LiveInv, Behind, BaoSecrets
  <2>3. Behind(obj)'
    BY <1>14, <1>a DEF Crash, CopiesInv, LiveInv, Behind, BaoSecrets
  <2>4. ObjInv'
    BY <1>14, <1>a DEF Crash, CopiesInv, LiveInv, Behind, ObjInv, BaoSecrets
  <2> QED
    BY <2>1, <2>2, <2>3, <2>4 DEF CopiesInv
<1>15. ASSUME NEW s \in Specs, Create(s) PROVE CopiesInv'
  BY <1>15, <1>a DEF Create, CopiesInv, LiveInv, Behind, ObjInv, BaoSecrets
<1>16. ASSUME NEW s \in Specs, Edit(s) PROVE CopiesInv'
  <2>0. /\ live \in BaoSecrets /\ live' \in BaoSecrets
        /\ live'.generation = live.generation + 1
        /\ live'.uid = live.uid /\ live'.observed = live.observed
        /\ live'.deleting = live.deleting /\ live'.finalizer = live.finalizer
        /\ UNCHANGED <<uids, seen, obj>>
    <3>1. live \in BaoSecrets /\ UNCHANGED <<uids, seen, obj>>
      BY <1>16, <1>a DEF Edit
    <3>2. live' = [live EXCEPT !.spec = s, !.generation = @ + 1] /\ live.generation + 1 \in 1..MaxGeneration
      BY <1>16, <3>1 DEF Edit, BaoSecrets
    <3>3. live' \in BaoSecrets
      BY <3>1, <3>2 DEF BaoSecrets
    <3>4. live'.generation = live.generation + 1
      BY <3>1, <3>2 DEF BaoSecrets
    <3>5. /\ live'.uid = live.uid /\ live'.observed = live.observed
          /\ live'.deleting = live.deleting /\ live'.finalizer = live.finalizer
      BY <3>1, <3>2 DEF BaoSecrets
    <3> QED
      BY <3>1, <3>3, <3>4, <3>5
  <2>1. LiveInv'
    BY <1>16, <1>a DEF Edit, CopiesInv, LiveInv, BaoSecrets
  <2>2. Behind(seen)'
    BY <2>0, <1>a DEF CopiesInv, Behind, BaoSecrets
  <2>3. Behind(obj)'
    BY <2>0, <1>a DEF CopiesInv, Behind, BaoSecrets
  <2>4. ObjInv'
    BY <1>16, <1>a DEF Edit, CopiesInv, LiveInv, Behind, ObjInv, BaoSecrets
  <2> QED
    BY <2>1, <2>2, <2>3, <2>4 DEF CopiesInv
<1>17. CASE Delete
  <2>0. CASE live.finalizer
    <3>1. /\ live \in BaoSecrets /\ live' \in BaoSecrets
          /\ live'.generation = live.generation /\ live'.spec = live.spec
          /\ live'.uid = live.uid /\ live'.observed = live.observed
          /\ live'.deleting /\ live'.finalizer
          /\ UNCHANGED <<uids, seen, obj, pc>>
      BY <1>17, <1>a, <2>0 DEF Delete, BaoSecrets
    <3> QED
      BY <3>1, <1>a DEF CopiesInv, Behind, BaoSecrets, LiveInv, ObjInv
  <2>1. CASE ~live.finalizer
    <3>1. live # None /\ live' = None /\ UNCHANGED <<uids, seen, obj, pc>>
      BY <1>17, <2>1 DEF Delete
    <3>2. Behind(seen)'
      BY <3>1, <2>1, <1>a DEF CopiesInv, Behind, LiveInv, BaoSecrets
    <3>3. Behind(obj)'
      BY <3>1, <2>1, <1>a DEF CopiesInv, Behind, LiveInv, BaoSecrets
    <3>4. LiveInv' /\ ObjInv'
      BY <3>1, <2>1, <1>a DEF CopiesInv, LiveInv, ObjInv, BaoSecrets
    <3> QED
      BY <3>2, <3>3, <3>4 DEF CopiesInv
  <2> QED
    BY <2>0, <2>1
<1>18. ASSUME NEW t \in Targets, ObserveSecret(t) PROVE CopiesInv'
  BY <1>18, <1>c DEF ObserveSecret
<1>19. ASSUME NEW t \in Targets, Collect(t) PROVE CopiesInv'
  BY <1>19, <1>c DEF Collect
<1>20. ASSUME NEW t \in Targets, Tamper(t) PROVE CopiesInv'
  BY <1>20, <1>c DEF Tamper
<1>21. ASSUME NEW v \in Values \cup {None}, SourceChanges(v) PROVE CopiesInv'
  BY <1>21, <1>c DEF SourceChanges
<1>22. CASE Outage
  BY <1>22, <1>c DEF Outage
<1>23. CASE Recovery
  BY <1>23, <1>c DEF Recovery
<1>24. CASE UNCHANGED vars
  BY <1>24, <1>c DEF vars
<1> QED
  BY <1>1, <1>2, <1>3, <1>4, <1>5, <1>6, <1>7, <1>8, <1>9, <1>10, <1>11, <1>12,
     <1>13, <1>14, <1>15, <1>16, <1>17, <1>18, <1>19, <1>20, <1>21, <1>22, <1>23,
     <1>24 DEF Next, Reconcile

\* The variables of the controller and of its cluster keep their types.
THEOREM ControllerTypeCorrect == Spec => []BSTypeOK
<1>1. Init => BSTypeOK
  <2> SUFFICES ASSUME Init PROVE BSTypeOK
    OBVIOUS
  <2>1. baoUp \in BOOLEAN /\ queued \in BOOLEAN /\ timer \in BOOLEAN /\ client \in BOOLEAN
    BY DEF Init
  <2>2. live = None /\ seen = None /\ obj = None /\ data = None /\ synced = None /\ pc = "idle"
    BY DEF Init
  <2>3. uids \in 0..MaxUID /\ source \in Values \cup {None}
    BY ControllerAssumption DEF Init
  <2>4. secrets \in [Targets -> Secrets \cup {None}] /\ copies \in [Targets -> Secrets \cup {None}]
    BY DEF Init
  <2>5. asked = {}
    BY DEF Init
  <2> QED
    BY <2>1, <2>2, <2>3, <2>4, <2>5 DEF BSTypeOK
<1> QED
  BY <1>1, TypesStep, PTL DEF Spec

\* So the copies are never ahead, nor of a BaoSecret that lost its finalizer.
LEMMA CopiesInvariant == Spec => []CopiesInv
<1>1. Init => CopiesInv
  BY DEF Init, CopiesInv, LiveInv, Behind, ObjInv
<1> QED
  BY <1>1, ControllerTypeCorrect, CopiesStep, PTL DEF Spec

\* Reconcile synchronises only a BaoSecret that exists and has the finalizer.
THEOREM SyncsAreOfLiveOnes == Spec => []OnlyLiveOnesAreSynced
<1>1. BSTypeOK /\ CopiesInv => OnlyLiveOnesAreSynced
  <2> SUFFICES ASSUME BSTypeOK, CopiesInv, pc \in {"read", "render", "write", "synced", "failed"}
               PROVE  UidOf(live) = obj.uid /\ live.finalizer
    BY DEF OnlyLiveOnesAreSynced
  <2>1. obj # None /\ obj \in BaoSecrets /\ obj.uid # None
    BY ControllerAssumption DEF BSTypeOK, BaoSecrets
  <2>2. obj.finalizer /\ ~obj.deleting
    BY <2>1 DEF CopiesInv, ObjInv
  <2>3. obj.uid = UidOf(live)
    BY <2>1, <2>2 DEF CopiesInv, Behind
  <2> QED
    BY <2>1, <2>2, <2>3 DEF CopiesInv, Behind
<1> QED
  BY <1>1, ControllerTypeCorrect, CopiesInvariant, PTL

\* No write takes a Secret over from the BaoSecret that controls it.
THEOREM OwnersStay == Spec => OwnersAreNotReplaced
<1> DEFINE Kept(t) == OwnerOf(secrets[t]) # None /\ secrets'[t] # None =>
                        OwnerOf(secrets'[t]) = OwnerOf(secrets[t])
<1>1. BSTypeOK /\ [Next]_vars => \A t \in Targets : Kept(t)
  <2> SUFFICES ASSUME BSTypeOK, [Next]_vars, NEW t \in Targets PROVE Kept(t)
    OBVIOUS
  <2>1. CASE UNCHANGED secrets
    BY <2>1
  <2>2. CASE Write
    BY <2>2, ControllerAssumption DEF Write, Wanted, Refused, OwnerOf, BSTypeOK, Secrets
  <2>3. ASSUME NEW u \in Targets, Tamper(u) PROVE Kept(t)
    BY <2>3, ControllerAssumption DEF Tamper, OwnerOf, BSTypeOK, Secrets
  <2>4. ASSUME NEW u \in Targets, Collect(u) PROVE Kept(t)
    BY <2>4, ControllerAssumption DEF Collect, OwnerOf, BSTypeOK, Secrets
  <2>5. \/ Write \/ UNCHANGED secrets
        \/ \E u \in Targets : Tamper(u)
        \/ \E u \in Targets : Collect(u)
    BY DEF Next, Reconcile, Begin, BeginGone, Finalize, Suspend, Read, ReadEndless, SyncFails,
       ReportSynced, ReportFailed, Unfinalize, UpdateFails, UpdateTo, Observe, ObserveSecret, TimerFires, Crash,
       Create, Edit, Delete, SourceChanges, Outage, Recovery, vars, cluster
  <2> QED
    BY <2>1, <2>2, <2>3, <2>4, <2>5
<1> QED
  BY <1>1, ControllerTypeCorrect, PTL DEF Spec, OwnersAreNotReplaced

-----------------------------------------------------------------------------
\* The last sync was of the generation that Reconcile is about to report.
SyncedInv ==
    pc = "synced" =>
        /\ synced # None
        /\ synced.uid = obj.uid /\ synced.generation = obj.generation
        /\ synced.target = obj.spec.target

\* Once the present generation is reported, neither the cache nor Reconcile
\* holds an older one, so that no later sync can be of an older one.
Reported == live # None /\ live.ready /\ live.observed = live.generation

AtPresent(b) == b # None /\ b.uid = live.uid /\ b.generation = live.generation

ReportedInv ==
    Reported =>
        /\ AtPresent(seen)
        /\ obj # None => AtPresent(obj)
        /\ AtPresent(synced) /\ synced.target = live.spec.target

ReadyInv == SyncedInv /\ ReportedInv

\* What is reported stays what was synchronised last.
LEMMA ReadyStep == BSTypeOK /\ CopiesInv /\ ReadyInv /\ [Next]_vars => ReadyInv'
<1> USE DEF cluster, bao, caches, operator, reconcile, ReadyInv, Reported, AtPresent
<1> SUFFICES ASSUME BSTypeOK, CopiesInv, ReadyInv, [Next]_vars PROVE ReadyInv'
  OBVIOUS
<1>a. /\ live \in BaoSecrets \cup {None} /\ seen \in BaoSecrets \cup {None}
      /\ obj \in BaoSecrets \cup {None} /\ None \notin BaoSecrets
      /\ pc = "idle" <=> obj = None
  BY ControllerAssumption DEF BSTypeOK
<1>b. ASSUME UNCHANGED <<live, seen, synced>>, obj' = None, pc' = "idle" PROVE ReadyInv'
  BY <1>b DEF SyncedInv, ReportedInv
<1>c. ASSUME UNCHANGED <<live, seen, synced, obj>>, pc' = pc \/ pc' # "synced" PROVE ReadyInv'
  BY <1>c DEF SyncedInv, ReportedInv
\* An update that leaves the BaoSecret not reported.
<1>d. ASSUME ~Reported', pc' # "synced" PROVE ReadyInv'
  BY <1>d DEF SyncedInv, ReportedInv
\* An update that leaves what ReportedInv looks at.
<1>e. ASSUME live # None, live' # None, UNCHANGED <<seen, synced>>,
             live'.uid = live.uid, live'.generation = live.generation,
             live'.spec = live.spec, live'.ready = live.ready, live'.observed = live.observed,
             \/ obj' = obj /\ pc' = pc
             \/ obj' = live' /\ pc' # "synced"
      PROVE  ReadyInv'
  BY <1>e DEF SyncedInv, ReportedInv
<1>1. CASE Begin
  <2>1. obj' = seen /\ seen # None /\ UNCHANGED <<live, seen, synced>>
    BY <1>1 DEF Begin
  <2>2. pc' # "synced"
    BY <1>1 DEF Begin, SyncFrom
  <2> QED
    BY <2>1, <2>2 DEF SyncedInv, ReportedInv
<1>2. CASE BeginGone
  BY <1>2, <1>c DEF BeginGone
<1>3. CASE Finalize
  <2>1. /\ live \in BaoSecrets /\ live' = [live EXCEPT !.finalizer = TRUE]
        /\ obj' = live' /\ UNCHANGED <<seen, synced>>
    BY <1>3, <1>a DEF Finalize, UpdateTo
  <2>2. pc' # "synced"
    BY <1>3 DEF Finalize, SyncFrom
  <2>3. live' \in BaoSecrets
    BY <2>1 DEF BaoSecrets
  <2>4. /\ live'.uid = live.uid /\ live'.generation = live.generation
        /\ live'.spec = live.spec /\ live'.ready = live.ready /\ live'.observed = live.observed
    BY <2>1 DEF BaoSecrets
  <2> QED
    BY <1>a, <1>e, <2>1, <2>2, <2>3, <2>4
<1>4. CASE Suspend
  <2>1. live' = [live EXCEPT !.ready = FALSE] /\ live \in BaoSecrets /\ pc' = "idle"
    BY <1>4, <1>a DEF Suspend, UpdateTo, Return
  <2>2. ~live'.ready
    BY <2>1 DEF BaoSecrets
  <2> QED
    BY <1>d, <2>1, <2>2
<1>5. CASE Read \/ ReadEndless
  BY <1>5, <1>c DEF Read, ReadEndless
<1>6. CASE SyncFails
  BY <1>6, <1>c DEF SyncFails
<1>7. CASE Write
  <2>1. /\ synced' = [uid |-> obj.uid, generation |-> obj.generation,
                      target |-> obj.spec.target, policy |-> obj.spec.policy]
        /\ UNCHANGED <<live, seen, obj>> /\ obj # None
    BY <1>7, <1>a DEF Write
  <2>2. /\ synced'.uid = obj.uid /\ synced'.generation = obj.generation
        /\ synced'.target = obj.spec.target
    BY <2>1
  <2>3. synced' # None
    <3>1. obj \in BaoSecrets /\ obj.spec \in Specs
      BY <2>1, <1>a DEF BaoSecrets
    <3>2. synced' \in Syncs
      BY <2>1, <3>1, ControllerAssumption DEF Syncs, BaoSecrets
    <3> QED
      BY <3>2, ControllerAssumption
  <2>4. Reported => obj.spec = live.spec
    BY <2>1, <1>a DEF ReportedInv, CopiesInv, Behind, UidOf
  <2> QED
    BY <2>1, <2>2, <2>3, <2>4 DEF SyncedInv, ReportedInv
<1>8. CASE ReportSynced
  <2>1. /\ obj = live /\ live \in BaoSecrets /\ UNCHANGED <<seen, synced>> /\ obj' = None
        /\ live' = [live EXCEPT !.ready = TRUE, !.observed = live.generation]
        /\ pc = "synced" /\ pc' = "idle"
    BY <1>8, <1>a DEF ReportSynced, UpdateTo, Return
  <2>2. /\ live'.uid = live.uid /\ live'.generation = live.generation
        /\ live'.spec = live.spec
    BY <2>1 DEF BaoSecrets
  <2>3. seen # None /\ seen.uid = live.uid /\ seen.generation = live.generation
    BY <2>1, <1>a, ControllerAssumption DEF CopiesInv, ObjInv, Behind, UidOf, BaoSecrets
  <2>4. synced # None /\ synced.uid = live.uid /\ synced.generation = live.generation
        /\ synced.target = live.spec.target
    BY <2>1 DEF SyncedInv
  <2> QED
    BY <2>1, <2>2, <2>3, <2>4 DEF SyncedInv, ReportedInv
<1>9. CASE ReportFailed
  <2>1. live' = [live EXCEPT !.ready = FALSE] /\ live \in BaoSecrets /\ pc' = "idle"
    BY <1>9, <1>a DEF ReportFailed, UpdateTo, Return
  <2>2. ~live'.ready
    BY <2>1 DEF BaoSecrets
  <2> QED
    BY <1>d, <2>1, <2>2
<1>10. CASE Unfinalize
  BY <1>10, <1>d DEF Unfinalize, UpdateTo, Return
<1>11. CASE UpdateFails
  BY <1>11, <1>b DEF UpdateFails, Return
<1>12. CASE Observe
  BY <1>12, <1>a DEF Observe, SyncedInv, ReportedInv
<1>13. CASE TimerFires
  BY <1>13, <1>c DEF TimerFires
<1>14. CASE Crash
  <2>1. seen' \in {seen, live} /\ obj' = None /\ pc' = "idle" /\ UNCHANGED <<live, synced>>
    BY <1>14 DEF Crash
  <2> QED
    BY <2>1 DEF SyncedInv, ReportedInv
<1>15. ASSUME NEW s \in Specs, Create(s) PROVE ReadyInv'
  <2>1. ~live'.ready /\ UNCHANGED <<pc, obj, synced>>
    BY <1>15 DEF Create
  <2> QED
    BY <2>1 DEF SyncedInv, ReportedInv
<1>16. ASSUME NEW s \in Specs, Edit(s) PROVE ReadyInv'
  <2>1. /\ live' = [live EXCEPT !.spec = s, !.generation = @ + 1] /\ live \in BaoSecrets
        /\ UNCHANGED <<pc, obj, synced>>
    BY <1>16, <1>a DEF Edit
  <2>2. live'.observed = live.observed /\ live'.generation = live.generation + 1
    BY <2>1 DEF BaoSecrets
  <2>3. live.observed <= live.generation
    BY <2>1, <1>a DEF CopiesInv, LiveInv
  <2>4. ~Reported'
    BY <2>1, <2>2, <2>3 DEF BaoSecrets
  <2> QED
    BY <2>1, <2>4 DEF SyncedInv, ReportedInv
<1>17. CASE Delete
  <2>1. live # None /\ live \in BaoSecrets /\ UNCHANGED <<seen, synced, obj, pc>>
    BY <1>17, <1>a DEF Delete
  <2>2. CASE live' = None
    BY <2>1, <2>2 DEF SyncedInv, ReportedInv
  <2>3. CASE live' = [live EXCEPT !.deleting = TRUE]
    <3>1. live' \in BaoSecrets
      BY <2>1, <2>3 DEF BaoSecrets
    <3>2. /\ live'.uid = live.uid /\ live'.generation = live.generation
          /\ live'.spec = live.spec /\ live'.ready = live.ready /\ live'.observed = live.observed
      BY <2>1, <2>3 DEF BaoSecrets
    <3> QED
      BY <1>a, <1>e, <2>1, <3>1, <3>2
  <2> QED
    BY <1>17, <2>2, <2>3 DEF Delete
<1>18. ASSUME NEW t \in Targets, ObserveSecret(t) PROVE ReadyInv'
  BY <1>18, <1>c DEF ObserveSecret
<1>19. ASSUME NEW t \in Targets, Collect(t) PROVE ReadyInv'
  BY <1>19, <1>c DEF Collect
<1>20. ASSUME NEW t \in Targets, Tamper(t) PROVE ReadyInv'
  BY <1>20, <1>c DEF Tamper
<1>21. ASSUME NEW v \in Values \cup {None}, SourceChanges(v) PROVE ReadyInv'
  BY <1>21, <1>c DEF SourceChanges
<1>22. CASE Outage
  BY <1>22, <1>c DEF Outage
<1>23. CASE Recovery
  BY <1>23, <1>c DEF Recovery
<1>24. CASE UNCHANGED vars
  BY <1>24, <1>c DEF vars
<1> QED
  BY <1>1, <1>2, <1>3, <1>4, <1>5, <1>6, <1>7, <1>8, <1>9, <1>10, <1>11, <1>12,
     <1>13, <1>14, <1>15, <1>16, <1>17, <1>18, <1>19, <1>20, <1>21, <1>22, <1>23,
     <1>24 DEF Next, Reconcile

\* A BaoSecret reported ready at its generation was last synchronised at it.
THEOREM ReadyMeansCurrent == Spec => []ReadyIsCurrent
<1>1. Init => ReadyInv
  BY DEF Init, ReadyInv, SyncedInv, ReportedInv, Reported
<1>2. ReadyInv => ReadyIsCurrent
  BY DEF ReadyInv, ReportedInv, Reported, AtPresent, ReadyIsCurrent
<1> QED
  BY <1>1, <1>2, ControllerTypeCorrect, CopiesInvariant, ReadyStep, PTL DEF Spec

-----------------------------------------------------------------------------
\* A reference in the cluster or in a copy was asked for, and so is what any
\* copy of the BaoSecret asks for.
Referenced(s) ==
    \A t \in Targets : OwnerOf(s[t]) \notin {None, Foreign} => <<OwnerOf(s[t]), t>> \in asked

AsksAsked(b) == b # None => Asks(b) \subseteq asked

AskedInv ==
    /\ AsksAsked(live) /\ AsksAsked(seen) /\ AsksAsked(obj)
    /\ Referenced(secrets) /\ Referenced(copies)

\* No step adds a reference that was not asked for, nor forgets what was.
LEMMA AskedStep == BSTypeOK /\ AskedInv /\ [Next]_vars => AskedInv'
<1> USE DEF cluster, bao, caches, operator, reconcile, AskedInv
<1> SUFFICES ASSUME BSTypeOK, AskedInv, [Next]_vars PROVE AskedInv'
  OBVIOUS
<1>a. /\ live \in BaoSecrets \cup {None} /\ obj \in BaoSecrets \cup {None}
      /\ secrets \in [Targets -> Secrets \cup {None}] /\ copies \in [Targets -> Secrets \cup {None}]
      /\ None \notin BaoSecrets /\ None \notin Secrets
      /\ pc = "idle" <=> obj = None
  BY ControllerAssumption DEF BSTypeOK
<1>b. ASSUME UNCHANGED <<secrets, copies>>, asked \subseteq asked',
             AsksAsked(live)', AsksAsked(seen)', AsksAsked(obj)'
      PROVE  AskedInv'
  BY <1>b DEF Referenced
<1>c. ASSUME UNCHANGED <<live, seen, secrets, copies, asked>>, obj' = obj \/ obj' = None
      PROVE  AskedInv'
  BY <1>c DEF Referenced, AsksAsked, Asks
<1>d. ASSUME UNCHANGED <<live, seen, obj, asked>>, Referenced(secrets)', Referenced(copies)'
      PROVE  AskedInv'
  BY <1>d DEF AsksAsked, Asks
\* An update of the BaoSecret leaves what it asks for.
<1>e. ASSUME UNCHANGED <<seen, secrets, copies, asked>>,
             \/ live' = None
             \/ live # None /\ live' # None /\ live'.uid = live.uid /\ live'.spec = live.spec,
             obj' \in {obj, None, live'}
      PROVE  AskedInv'
  <2>1. AsksAsked(live)'
    BY <1>e DEF AsksAsked, Asks
  <2>2. AsksAsked(obj)' /\ AsksAsked(seen)'
    BY <1>e, <2>1 DEF AsksAsked, Asks
  <2> QED
    BY <1>e, <2>1, <2>2 DEF Referenced
<1>1. CASE Begin
  <2>1. obj' = seen /\ UNCHANGED <<live, seen, secrets, copies, asked>>
    BY <1>1 DEF Begin
  <2> QED
    BY <2>1 DEF AsksAsked, Asks, Referenced
<1>2. CASE BeginGone \/ Read \/ ReadEndless \/ SyncFails \/ TimerFires \/ Outage \/ Recovery
          \/ UNCHANGED vars
  BY <1>2, <1>c DEF BeginGone, Read, ReadEndless, SyncFails, TimerFires, Outage, Recovery, vars
<1>3. CASE Finalize
  <2>1. /\ live \in BaoSecrets /\ live' = [live EXCEPT !.finalizer = TRUE]
        /\ obj' = live' /\ UNCHANGED <<seen, secrets, copies, asked>>
    BY <1>3, <1>a DEF Finalize, UpdateTo
  <2>2. live' \in BaoSecrets /\ live'.uid = live.uid /\ live'.spec = live.spec
    BY <2>1 DEF BaoSecrets
  <2> QED
    BY <1>a, <1>e, <2>1, <2>2
<1>4. CASE Suspend \/ ReportFailed
  <2>1. /\ live \in BaoSecrets /\ live' = [live EXCEPT !.ready = FALSE]
        /\ obj' = None /\ UNCHANGED <<seen, secrets, copies, asked>>
    BY <1>4, <1>a DEF Suspend, ReportFailed, UpdateTo, Return
  <2>2. live' \in BaoSecrets /\ live'.uid = live.uid /\ live'.spec = live.spec
    BY <2>1 DEF BaoSecrets
  <2> QED
    BY <1>a, <1>e, <2>1, <2>2
<1>5. CASE Write
  <2>1. /\ obj \in BaoSecrets /\ UNCHANGED <<live, seen, obj, copies, asked>>
        /\ \/ UNCHANGED secrets
           \/ secrets' = [secrets EXCEPT ![obj.spec.target] = Wanted(obj.spec.target)]
    BY <1>5, <1>a DEF Write
  <2>2. ASSUME NEW t \in Targets, t = obj.spec.target, OwnerOf(Wanted(t)) \notin {None, Foreign}
        PROVE  <<OwnerOf(Wanted(t)), t>> \in asked
    <3>1. OwnerOf(Wanted(t)) = IF SetsReference(t) THEN obj.uid ELSE OwnerOf(copies[t])
      <4>1. Wanted(t) \in Secrets
        BY <1>5, <2>1, <2>2, <1>a, ControllerAssumption
           DEF Wanted, Write, BSTypeOK, Secrets, BaoSecrets, OwnerOf
      <4> QED
        BY <4>1, <1>a DEF Wanted, OwnerOf
    <3>2. CASE SetsReference(t)
      BY <2>1, <2>2, <3>1, <3>2, <1>a DEF SetsReference, AsksAsked, Asks
    <3>3. CASE ~SetsReference(t)
      BY <2>2, <3>1, <3>3 DEF Referenced
    <3> QED
      BY <3>2, <3>3
  <2>3. Referenced(secrets)'
    BY <2>1, <2>2, <1>a DEF Referenced, OwnerOf
  <2> QED
    BY <1>d, <2>1, <2>3 DEF Referenced
<1>6. CASE ReportSynced
  <2>1. /\ live \in BaoSecrets /\ live' = [live EXCEPT !.ready = TRUE, !.observed = live.generation]
        /\ obj' = None /\ UNCHANGED <<seen, secrets, copies, asked>>
    BY <1>6, <1>a DEF ReportSynced, UpdateTo, Return
  <2>2. live' \in BaoSecrets
    <3>1. live.generation \in 0..MaxGeneration
      BY <2>1, ControllerAssumption DEF BaoSecrets
    <3> QED
      BY <2>1, <3>1 DEF BaoSecrets
  <2>3. live'.uid = live.uid /\ live'.spec = live.spec
    BY <2>1 DEF BaoSecrets
  <2> QED
    BY <1>a, <1>e, <2>1, <2>2, <2>3
<1>7. CASE Unfinalize
  BY <1>7, <1>e DEF Unfinalize, UpdateTo, Return
<1>8. CASE UpdateFails
  BY <1>8, <1>c DEF UpdateFails, Return
<1>9. CASE Observe
  BY <1>9 DEF Observe, AsksAsked, Asks, Referenced
<1>10. ASSUME NEW t \in Targets, ObserveSecret(t) PROVE AskedInv'
  <2>1. UNCHANGED <<live, seen, obj, secrets, asked>> /\ copies' = [copies EXCEPT ![t] = secrets[t]]
    BY <1>10 DEF ObserveSecret
  <2> QED
    BY <1>a, <1>d, <2>1 DEF Referenced, OwnerOf
<1>11. CASE Crash
  <2>1. /\ UNCHANGED <<live, secrets, asked>> /\ seen' \in {seen, live} /\ obj' = None
        /\ \A t \in Targets : copies'[t] \in {copies[t], secrets[t]}
    BY <1>11 DEF Crash
  <2>2. Referenced(copies)'
    BY <2>1 DEF Referenced, OwnerOf
  <2> QED
    BY <2>1, <2>2 DEF AsksAsked, Asks, Referenced
<1>12. ASSUME NEW s \in Specs, Create(s) \/ Edit(s) PROVE AskedInv'
  <2>1. /\ UNCHANGED <<seen, obj, secrets, copies>> /\ asked' = asked \cup Asks(live')
    BY <1>12 DEF Create, Edit
  <2> QED
    BY <1>b, <2>1 DEF AsksAsked, Asks
<1>13. CASE Delete
  <2>1. live # None /\ live \in BaoSecrets /\ UNCHANGED <<seen, obj, secrets, copies, asked>>
    BY <1>13, <1>a DEF Delete
  <2>2. CASE live' = None
    BY <1>e, <2>1, <2>2
  <2>3. CASE live' = [live EXCEPT !.deleting = TRUE]
    <3>1. live' \in BaoSecrets /\ live'.uid = live.uid /\ live'.spec = live.spec
      BY <2>1, <2>3 DEF BaoSecrets
    <3> QED
      BY <1>a, <1>e, <2>1, <3>1
  <2> QED
    BY <1>13, <2>2, <2>3 DEF Delete
<1>14. ASSUME NEW t \in Targets, Collect(t) PROVE AskedInv'
  <2>1. UNCHANGED <<live, seen, obj, copies, asked>> /\ secrets' = [secrets EXCEPT ![t] = None]
    BY <1>14 DEF Collect
  <2> QED
    BY <1>a, <1>d, <2>1 DEF Referenced, OwnerOf
<1>15. ASSUME NEW t \in Targets, Tamper(t) PROVE AskedInv'
  <2>1. /\ UNCHANGED <<live, seen, obj, copies, asked>>
        /\ OwnerOf(secrets'[t]) \in {None, Foreign, OwnerOf(secrets[t])}
        /\ \A u \in Targets \ {t} : secrets'[u] = secrets[u]
    <3>1. UNCHANGED <<live, seen, obj, copies, asked>>
      BY <1>15 DEF Tamper
    <3>2. CASE secrets' = [secrets EXCEPT ![t] = None]
      BY <3>1, <3>2, <1>a DEF OwnerOf
    <3>3. ASSUME NEW s \in Others,
                 secrets' = [secrets EXCEPT ![t] =
                     [s EXCEPT !.owner = IF OwnerOf(secrets[t]) = None THEN s.owner
                                         ELSE OwnerOf(secrets[t])]]
          PROVE  OwnerOf(secrets'[t]) \in {None, Foreign, OwnerOf(secrets[t])}
      <4>1. secrets'[t] = [s EXCEPT !.owner = IF OwnerOf(secrets[t]) = None THEN s.owner
                                              ELSE OwnerOf(secrets[t])]
        BY <3>3, <1>a
      <4>2. s.owner \in {None, Foreign}
            /\ secrets'[t].owner = IF OwnerOf(secrets[t]) = None THEN s.owner
                                   ELSE OwnerOf(secrets[t])
        BY <4>1, ControllerAssumption
      <4> QED
        BY <4>2 DEF OwnerOf
    <3> QED
      BY <1>15, <3>1, <3>2, <3>3, <1>a DEF Tamper
  <2> QED
    BY <1>d, <2>1 DEF Referenced, OwnerOf
<1>16. ASSUME NEW v \in Values \cup {None}, SourceChanges(v) PROVE AskedInv'
  BY <1>16, <1>c DEF SourceChanges
<1> QED
  BY <1>1, <1>2, <1>3, <1>4, <1>5, <1>6, <1>7, <1>8, <1>9, <1>10, <1>11, <1>12, <1>13, <1>14,
     <1>15, <1>16 DEF Next, Reconcile

\* A Secret is controlled only by a BaoSecret of its namespace that asked for it.
THEOREM OnlyAskedReferences == Spec => []ReferencesWereAsked
<1>1. Init => AskedInv
  BY DEF Init, AskedInv, AsksAsked, Referenced, OwnerOf
<1>2. AskedInv => ReferencesWereAsked
  BY DEF AskedInv, Referenced, ReferencesWereAsked
<1> QED
  BY <1>1, <1>2, ControllerTypeCorrect, AskedStep, PTL DEF Spec

-----------------------------------------------------------------------------
\* No copy of the BaoSecret that was synchronised last is older than that sync.
NotBefore(b) == b # None /\ b.uid = synced.uid => synced.generation <= b.generation

ForwardInv ==
    synced # None =>
        synced.uid <= uids /\ NotBefore(live) /\ NotBefore(seen) /\ NotBefore(obj)

\* Neither the cache nor Reconcile falls behind what was synchronised.
LEMMA ForwardStep == BSTypeOK /\ CopiesInv /\ ForwardInv /\ [Next]_vars => ForwardInv'
<1> USE DEF cluster, bao, caches, operator, reconcile, ForwardInv
<1> SUFFICES ASSUME BSTypeOK, CopiesInv, ForwardInv, [Next]_vars PROVE ForwardInv'
  OBVIOUS
<1>a. /\ live \in BaoSecrets \cup {None} /\ seen \in BaoSecrets \cup {None}
      /\ obj \in BaoSecrets \cup {None} /\ None \notin BaoSecrets
      /\ synced \in Syncs \cup {None} /\ None \notin Syncs
      /\ uids \in Nat
      /\ pc = "idle" <=> obj = None
  BY ControllerAssumption DEF BSTypeOK
<1>b. ASSUME UNCHANGED <<live, uids, seen, synced>>, obj' = obj \/ obj' = None
      PROVE  ForwardInv'
  BY <1>b DEF NotBefore
\* The BaoSecret stays of its generation.
<1>c. ASSUME UNCHANGED <<uids, seen, synced>>,
             \/ live' = None
             \/ live # None /\ live'.uid = live.uid /\ live'.generation = live.generation,
             obj' \in {obj, None, live'}
      PROVE  ForwardInv'
  BY <1>c DEF NotBefore
<1>1. CASE Begin
  <2>1. obj' = seen /\ UNCHANGED <<live, uids, seen, synced>>
    BY <1>1 DEF Begin
  <2> QED
    BY <2>1 DEF NotBefore
<1>2. CASE BeginGone \/ Read \/ ReadEndless \/ SyncFails \/ TimerFires \/ Outage \/ Recovery
          \/ UNCHANGED vars
  BY <1>2, <1>b DEF BeginGone, Read, ReadEndless, SyncFails, TimerFires, Outage, Recovery, vars
<1>3. CASE Finalize
  <2>1. /\ live \in BaoSecrets /\ live' = [live EXCEPT !.finalizer = TRUE]
        /\ obj' = live' /\ UNCHANGED <<uids, seen, synced>>
    BY <1>3, <1>a DEF Finalize, UpdateTo
  <2>2. live'.uid = live.uid /\ live'.generation = live.generation
    BY <2>1 DEF BaoSecrets
  <2> QED
    BY <1>a, <1>c, <2>1, <2>2
<1>4. CASE Suspend \/ ReportFailed
  <2>1. /\ live \in BaoSecrets /\ live' = [live EXCEPT !.ready = FALSE]
        /\ obj' = None /\ UNCHANGED <<uids, seen, synced>>
    BY <1>4, <1>a DEF Suspend, ReportFailed, UpdateTo, Return
  <2>2. live'.uid = live.uid /\ live'.generation = live.generation
    BY <2>1 DEF BaoSecrets
  <2> QED
    BY <1>a, <1>c, <2>1, <2>2
<1>5. CASE Write
  <2>1. /\ obj \in BaoSecrets /\ UNCHANGED <<live, uids, seen, obj>> /\ pc = "write"
        /\ synced' = [uid |-> obj.uid, generation |-> obj.generation,
                      target |-> obj.spec.target, policy |-> obj.spec.policy]
    BY <1>5, <1>a DEF Write
  <2>2. synced'.uid = obj.uid /\ synced'.generation = obj.generation /\ obj.generation \in Nat
    BY <2>1 DEF BaoSecrets
  <2>3. obj.uid <= uids
    BY <2>1, <1>a DEF CopiesInv, Behind
  <2>4. live # None /\ live.uid = obj.uid => obj.generation <= live.generation
    BY <2>1, <1>a DEF CopiesInv, Behind, UidOf
  <2>5. seen # None /\ seen.uid = obj.uid => obj.generation <= seen.generation
    BY <2>1, <1>a DEF CopiesInv, ObjInv, UidOf
  <2> QED
    BY <2>1, <2>2, <2>3, <2>4, <2>5 DEF NotBefore
<1>6. CASE ReportSynced
  <2>1. /\ live \in BaoSecrets /\ live' = [live EXCEPT !.ready = TRUE, !.observed = live.generation]
        /\ obj' = None /\ UNCHANGED <<uids, seen, synced>>
    BY <1>6, <1>a DEF ReportSynced, UpdateTo, Return
  <2>2. live'.uid = live.uid /\ live'.generation = live.generation
    BY <2>1 DEF BaoSecrets
  <2> QED
    BY <1>a, <1>c, <2>1, <2>2
<1>7. CASE Unfinalize
  BY <1>7, <1>c DEF Unfinalize, UpdateTo, Return
<1>8. CASE UpdateFails
  BY <1>8, <1>b DEF UpdateFails, Return
<1>9. CASE Observe
  BY <1>9 DEF Observe, NotBefore
<1>10. ASSUME NEW t \in Targets, ObserveSecret(t) PROVE ForwardInv'
  BY <1>10, <1>b DEF ObserveSecret
<1>11. CASE Crash
  BY <1>11 DEF Crash, NotBefore
<1>12. ASSUME NEW s \in Specs, Create(s) PROVE ForwardInv'
  <2>1. uids' = uids + 1 /\ live'.uid = uids' /\ UNCHANGED <<seen, obj, synced>>
    BY <1>12 DEF Create
  <2>2. synced # None => synced.uid \in Nat
    BY <1>a DEF Syncs
  <2>3. synced # None => synced.uid <= uids' /\ live'.uid # synced.uid
    BY <1>a, <2>1, <2>2
  <2> QED
    BY <2>1, <2>3 DEF NotBefore
<1>13. ASSUME NEW s \in Specs, Edit(s) PROVE ForwardInv'
  <2>1. /\ live # None /\ live \in BaoSecrets
        /\ live' = [live EXCEPT !.spec = s, !.generation = @ + 1]
        /\ UNCHANGED <<uids, seen, obj, synced>>
    BY <1>13, <1>a DEF Edit
  <2>2. live'.uid = live.uid /\ live'.generation = live.generation + 1 /\ live.generation \in Nat
    BY <2>1 DEF BaoSecrets
  <2>3. synced # None => synced.generation \in Nat
    BY <1>a DEF Syncs
  <2>4. UNCHANGED <<uids, seen, obj, synced>> /\ live # None
    BY <2>1
  <2>5. synced # None => NotBefore(live)'
    BY <2>2, <2>3, <2>4 DEF NotBefore
  <2> QED
    BY <2>4, <2>5 DEF NotBefore
<1>14. CASE Delete
  <2>1. live # None /\ live \in BaoSecrets /\ UNCHANGED <<uids, seen, obj, synced>>
    BY <1>14, <1>a DEF Delete
  <2>2. CASE live' = None
    BY <1>c, <2>1, <2>2
  <2>3. CASE live' = [live EXCEPT !.deleting = TRUE]
    <3>1. live'.uid = live.uid /\ live'.generation = live.generation
      BY <2>1, <2>3 DEF BaoSecrets
    <3> QED
      BY <1>c, <2>1, <3>1
  <2> QED
    BY <1>14, <2>2, <2>3 DEF Delete
<1>15. ASSUME NEW t \in Targets, Collect(t) PROVE ForwardInv'
  BY <1>15, <1>b DEF Collect
<1>16. ASSUME NEW t \in Targets, Tamper(t) PROVE ForwardInv'
  BY <1>16, <1>b DEF Tamper
<1>17. ASSUME NEW v \in Values \cup {None}, SourceChanges(v) PROVE ForwardInv'
  BY <1>17, <1>b DEF SourceChanges
<1> QED
  BY <1>1, <1>2, <1>3, <1>4, <1>5, <1>6, <1>7, <1>8, <1>9, <1>10, <1>11, <1>12, <1>13, <1>14,
     <1>15, <1>16, <1>17 DEF Next, Reconcile

abstract == <<uids, PresentGeneration, AppliedLast, ReportedGeneration>>

\* Every step is one of ForwardSync, or changes nothing that it has.
LEMMA ForwardSimulates ==
    BSTypeOK /\ CopiesInv /\ ReadyInv /\ ForwardInv /\ [Next]_vars =>
        Forward!Next \/ UNCHANGED abstract
<1> USE DEF cluster, bao, caches, operator, reconcile, abstract
<1> SUFFICES ASSUME BSTypeOK, CopiesInv, ReadyInv, ForwardInv, [Next]_vars
             PROVE  Forward!Next \/ UNCHANGED abstract
  OBVIOUS
<1>a. /\ live \in BaoSecrets \cup {None} /\ seen \in BaoSecrets \cup {None}
      /\ obj \in BaoSecrets \cup {None} /\ None \notin BaoSecrets
      /\ synced \in Syncs \cup {None} /\ None \notin Syncs
      /\ uids \in Nat
      /\ pc = "idle" <=> obj = None
  BY ControllerAssumption DEF BSTypeOK
<1>b. ASSUME UNCHANGED <<live, uids, synced>> PROVE UNCHANGED abstract
  BY <1>b DEF PresentGeneration, AppliedLast, ReportedGeneration
\* An update that keeps the status.
<1>c. ASSUME UNCHANGED <<uids, synced>>, live # None, live' # None,
             live'.generation = live.generation, live'.ready = live.ready,
             live'.observed = live.observed
      PROVE  UNCHANGED abstract
  BY <1>c DEF PresentGeneration, AppliedLast, ReportedGeneration
<1>1. CASE Finalize
  <2>1. /\ live \in BaoSecrets /\ live' = [live EXCEPT !.finalizer = TRUE]
        /\ UNCHANGED <<uids, synced>>
    BY <1>1, <1>a DEF Finalize, UpdateTo
  <2>2. /\ live' \in BaoSecrets /\ live'.generation = live.generation
        /\ live'.ready = live.ready /\ live'.observed = live.observed
    BY <2>1 DEF BaoSecrets
  <2> QED
    BY <1>a, <1>c, <2>1, <2>2
<1>2. CASE Suspend \/ ReportFailed
  <2>1. /\ live \in BaoSecrets /\ live' = [live EXCEPT !.ready = FALSE]
        /\ UNCHANGED <<uids, synced>>
    BY <1>2, <1>a DEF Suspend, ReportFailed, UpdateTo
  <2>2. live' \in BaoSecrets /\ live'.generation = live.generation /\ ~live'.ready
    BY <2>1 DEF BaoSecrets
  <2>3. UNCHANGED <<uids, PresentGeneration, AppliedLast>> /\ ReportedGeneration' = 0
    BY <1>a, <2>1, <2>2 DEF PresentGeneration, AppliedLast, ReportedGeneration
  <2> QED
    BY <2>3 DEF Forward!Next, Forward!Withdraw
<1>3. CASE Write
  <2>1. /\ obj \in BaoSecrets /\ UNCHANGED <<live, uids>> /\ pc = "write"
        /\ synced' = [uid |-> obj.uid, generation |-> obj.generation,
                      target |-> obj.spec.target, policy |-> obj.spec.policy]
    BY <1>3, <1>a DEF Write
  <2>2. live # None /\ live.uid = obj.uid /\ obj.uid = uids /\ obj.generation <= live.generation
    <3>1. obj.finalizer /\ ~obj.deleting
      BY <2>1, <1>a DEF CopiesInv, ObjInv
    <3>2. obj.uid = UidOf(live) /\ obj.uid # None
      BY <2>1, <3>1, <1>a, ControllerAssumption DEF CopiesInv, Behind, BaoSecrets
    <3> QED
      BY <2>1, <3>2, <1>a DEF CopiesInv, LiveInv, Behind, UidOf
  <2>3. synced' # None
    <3>1. synced' \in Syncs
      BY <2>1, ControllerAssumption DEF Syncs, BaoSecrets
    <3> QED
      BY <3>1, <1>a
  <2>4. AppliedLast' = [uid |-> uids, generation |-> obj.generation]
    BY <2>1, <2>2, <2>3 DEF AppliedLast
  <2>5. UNCHANGED <<uids, PresentGeneration, ReportedGeneration>>
    BY <2>1 DEF PresentGeneration, ReportedGeneration
  <2>6. obj.generation \in 1..PresentGeneration
    BY <2>1, <2>2, <1>a DEF PresentGeneration, BaoSecrets
  <2>7. AppliedLast.uid = uids => AppliedLast.generation <= obj.generation
    <3>1. CASE synced = None
      BY <3>1, <2>6 DEF AppliedLast
    <3>2. CASE synced # None
      BY <3>2, <2>1, <2>2, <1>a DEF AppliedLast, ForwardInv, NotBefore
    <3> QED
      BY <3>1, <3>2
  <2>8. Forward!Apply
    BY <2>4, <2>5, <2>6, <2>7 DEF Forward!Apply
  <2> QED
    BY <2>8 DEF Forward!Next
<1>4. CASE ReportSynced
  <2>1. /\ obj = live /\ live \in BaoSecrets /\ UNCHANGED <<uids, synced>>
        /\ live' = [live EXCEPT !.ready = TRUE, !.observed = live.generation]
        /\ pc = "synced"
    BY <1>4, <1>a DEF ReportSynced, UpdateTo
  <2>2. live'.generation = live.generation /\ live'.ready /\ live'.observed = live.generation
    BY <2>1 DEF BaoSecrets
  <2>3. live' # None
    <3>1. live.generation \in 0..MaxGeneration
      BY <2>1, ControllerAssumption DEF BaoSecrets
    <3>2. live' \in BaoSecrets
      BY <2>1, <3>1 DEF BaoSecrets
    <3> QED
      BY <3>2, <1>a
  <2>4. AppliedLast = [uid |-> uids, generation |-> live.generation]
    BY <2>1, <1>a DEF AppliedLast, ReadyInv, SyncedInv, CopiesInv, LiveInv
  <2>5. PresentGeneration = live.generation /\ live.generation \in Nat /\ live.generation > 0
    BY <2>1, <1>a DEF PresentGeneration, BaoSecrets
  <2>6. UNCHANGED <<uids, PresentGeneration, AppliedLast>> /\ ReportedGeneration' = live.generation
    BY <2>1, <2>2, <2>3, <1>a DEF PresentGeneration, AppliedLast, ReportedGeneration
  <2>7. Forward!Report
    BY <2>4, <2>5, <2>6 DEF Forward!Report, Forward!Present
  <2> QED
    BY <2>7 DEF Forward!Next
<1>5. ASSUME live # None, live' = None, UNCHANGED <<uids, synced>> PROVE Forward!Next
  <2>1. PresentGeneration > 0
    BY <1>5, <1>a DEF PresentGeneration, BaoSecrets
  <2>2. PresentGeneration' = 0 /\ ReportedGeneration' = 0 /\ UNCHANGED <<uids, AppliedLast>>
    BY <1>5 DEF PresentGeneration, ReportedGeneration, AppliedLast
  <2> QED
    BY <2>1, <2>2 DEF Forward!Next, Forward!Remove
<1>6. CASE Unfinalize
  BY <1>5, <1>6, <1>a DEF Unfinalize, UpdateTo
<1>7. ASSUME NEW s \in Specs, Create(s) PROVE Forward!Next
  <2>1. /\ live = None /\ uids' = uids + 1 /\ UNCHANGED synced
        /\ live' = [uid |-> uids', generation |-> 1, spec |-> s, finalizer |-> FALSE,
                    deleting |-> FALSE, ready |-> FALSE, observed |-> 0]
    BY <1>7 DEF Create
  <2>2. live' \in BaoSecrets
    BY <1>7, <2>1, ControllerAssumption DEF Create, BaoSecrets, BSTypeOK
  <2>3. /\ PresentGeneration = 0 /\ PresentGeneration' = 1
        /\ UNCHANGED <<AppliedLast, ReportedGeneration>>
    BY <2>1, <2>2, <1>a DEF PresentGeneration, ReportedGeneration, AppliedLast
  <2> QED
    BY <2>1, <2>3 DEF Forward!Next, Forward!Create
<1>8. ASSUME NEW s \in Specs, Edit(s) PROVE Forward!Next
  <2>1. /\ live # None /\ live \in BaoSecrets /\ UNCHANGED <<uids, synced>>
        /\ live' = [live EXCEPT !.spec = s, !.generation = @ + 1]
        /\ live.generation + 1 \in 1..MaxGeneration
    BY <1>8, <1>a, ControllerAssumption DEF Edit, BaoSecrets
  <2>2. /\ live' \in BaoSecrets /\ live'.generation = live.generation + 1
        /\ live'.ready = live.ready /\ live'.observed = live.observed
    BY <2>1 DEF BaoSecrets
  <2>3. /\ PresentGeneration > 0 /\ PresentGeneration' = PresentGeneration + 1
        /\ UNCHANGED <<AppliedLast, ReportedGeneration>>
    <3>0. live.generation \in 1..MaxGeneration
      BY <2>1 DEF BaoSecrets
    <3>1. /\ live # None /\ live' # None /\ live.generation > 0 /\ UNCHANGED synced
      BY <2>1, <2>2, <3>0, <1>a, ControllerAssumption
    <3>2. /\ live'.ready = live.ready /\ live'.observed = live.observed
          /\ live'.generation = live.generation + 1
      BY <2>2
    <3>3. PresentGeneration = live.generation /\ PresentGeneration' = live'.generation
      BY <3>1 DEF PresentGeneration
    <3>4. UNCHANGED <<AppliedLast, ReportedGeneration>>
      BY <3>1, <3>2, Zenon DEF AppliedLast, ReportedGeneration
    <3> QED
      BY <3>1, <3>2, <3>3, <3>4
  <2> QED
    BY <2>1, <2>3 DEF Forward!Next, Forward!Edit
<1>9. CASE Delete
  <2>1. live # None /\ live \in BaoSecrets /\ UNCHANGED <<uids, synced>>
    BY <1>9, <1>a DEF Delete
  <2>2. CASE live' = None
    BY <1>5, <2>1, <2>2
  <2>3. CASE live' = [live EXCEPT !.deleting = TRUE]
    <3>1. /\ live' \in BaoSecrets /\ live'.generation = live.generation
          /\ live'.ready = live.ready /\ live'.observed = live.observed
      BY <2>1, <2>3 DEF BaoSecrets
    <3> QED
      BY <1>a, <1>c, <2>1, <3>1
  <2> QED
    BY <1>9, <2>2, <2>3 DEF Delete
<1>10. CASE Begin \/ BeginGone \/ Read \/ ReadEndless \/ SyncFails \/ UpdateFails
  BY <1>10, <1>b DEF Begin, BeginGone, Read, ReadEndless, SyncFails, UpdateFails
<1>11. CASE Observe \/ TimerFires \/ Crash \/ Outage \/ Recovery \/ UNCHANGED vars
  BY <1>11, <1>b DEF Observe, TimerFires, Crash, Outage, Recovery, vars
<1>12. ASSUME NEW t \in Targets, ObserveSecret(t) \/ Collect(t) \/ Tamper(t)
       PROVE  UNCHANGED abstract
  BY <1>12, <1>b DEF ObserveSecret, Collect, Tamper
<1>13. ASSUME NEW v \in Values \cup {None}, SourceChanges(v) PROVE UNCHANGED abstract
  BY <1>13, <1>b DEF SourceChanges
<1> QED
  BY <1>1, <1>2, <1>3, <1>4, <1>6, <1>7, <1>8, <1>9, <1>10, <1>11, <1>12, <1>13
     DEF Next, Reconcile

\* The controller implements ForwardSync.
THEOREM SyncsGoForward == Spec => ImplementsForwardSync
<1>1. Init => ReadyInv /\ ForwardInv
  BY DEF Init, ReadyInv, SyncedInv, ReportedInv, Reported, ForwardInv
<1>2. Init => Forward!Init
  BY DEF Init, Forward!Init, PresentGeneration, AppliedLast, ReportedGeneration
<1>3. BSTypeOK /\ CopiesInv /\ ReadyInv /\ ForwardInv /\ [Next]_vars
          => [Forward!Next]_abstract
  BY ForwardSimulates
<1> QED
  BY <1>1, <1>2, <1>3, ControllerTypeCorrect, CopiesInvariant, ReadyStep, ForwardStep, PTL
     DEF Spec, ImplementsForwardSync, Forward!Spec, abstract
=============================================================================
