--------------------- MODULE BaoPolicyController_proofs ----------------------
(***************************************************************************)
(* Proofs about BaoPolicyController, for any rules, names and specs and any *)
(* number of BaoPolicies and generations: types, then how old the copies in *)
(* the cache and in Reconcile can be, and on top of it what the status says  *)
(* of the policy in OpenBao.                                                *)
(***************************************************************************)
EXTENDS BaoPolicyController, TLAPS

\* The texts of a list of rules say what rules they are.
LEMMA TextsOfRules ==
    ASSUME NEW r \in Rules
    PROVE  \A t \in ToHCL(r) : t \in Texts /\ t.rules = r
BY DEF ToHCL, Texts

\* Every step keeps the variables in their types.
LEMMA PolicyTypes == PolicyTypeOK /\ [PolicyNext]_policyVars => PolicyTypeOK'
<1> USE PolicyAssumption DEF PolicyTypeOK, BaoPolicies, cluster, bao, operator, reconcile, history
<1> SUFFICES ASSUME PolicyTypeOK, [PolicyNext]_policyVars PROVE PolicyTypeOK'
  OBVIOUS
<1>a. ASSUME obj # None PROVE PolicyName(obj.spec) \in Names
  BY <1>a DEF PolicyName
<1>1. CASE Begin
  <2>1. pc' \in {"unfinalize", "finalize", "sync"} /\ obj' \in BaoPolicies
    BY <1>1 DEF Begin
  <2>2. queued' \in BOOLEAN
    BY <1>1 DEF Begin
  <2>3. /\ UNCHANGED <<live, uids, policies, baoUp, written, seen, timer, client, text, past, orderly>>
        /\ text = None
    BY <1>1 DEF Begin
  <2> QED
    BY <2>1, <2>2, <2>3
<1>2. CASE BeginGone
  BY <1>2 DEF BeginGone
<1>3. CASE Finalize
  BY <1>3 DEF Finalize, UpdateTo
<1>4. CASE Sync
  <2>1. PICK t \in ToHCL(obj.spec.rules) : Synced(t)
    BY <1>4 DEF Sync
  <2>2. t \in Texts
    BY <1>4, TextsOfRules, <2>1 DEF Sync
  <2>3. UNCHANGED <<live, uids, policies, baoUp, written, seen, queued, timer, client, obj, past, orderly>>
    BY <1>4, <2>1 DEF Sync, Synced
  <2>4. pc' \in {"write", "synced"} /\ text' \in Texts /\ pc = "sync"
    BY <1>4, <2>1, <2>2 DEF Sync, Synced
  <2> QED
    BY <2>3, <2>4
<1>5. CASE Write
  BY <1>5, <1>a DEF Write, Apply
<1>6. CASE SyncFails
  BY <1>6, <1>a DEF SyncFails, Apply
<1>7. ASSUME ReportSynced PROVE PolicyTypeOK'
  <2>1. /\ obj \in BaoPolicies /\ obj.generation \in 0..MaxGeneration
        /\ text \in Texts
    BY <1>7 DEF ReportSynced
  <2>2. WithVersion \in BaoPolicies
    BY <1>a, <2>1 DEF WithVersion
  <2>3. live' \in BaoPolicies
    BY <1>7, <2>1, <2>2 DEF ReportSynced, UpdateTo
  <2>4. timer' \in BOOLEAN
    BY <1>7 DEF ReportSynced, Return
  <2>5. /\ UNCHANGED <<uids, policies, baoUp, written, past, orderly, seen, queued, client>>
        /\ pc' = "idle" /\ obj' = None /\ text' = None
    BY <1>7 DEF ReportSynced, UpdateTo, Return
  <2> QED
    BY <2>3, <2>4, <2>5
<1>8. ASSUME ReportFailed PROVE PolicyTypeOK'
  <2>1. obj \in BaoPolicies /\ text = None
    BY <1>8 DEF ReportFailed
  <2>2. live' \in BaoPolicies
    BY <1>8, <2>1 DEF ReportFailed, UpdateTo, WithVersion
  <2>3. timer' \in BOOLEAN
    BY <1>8 DEF ReportFailed, Return
  <2>4. /\ UNCHANGED <<uids, policies, baoUp, written, past, orderly, seen, queued, client>>
        /\ pc' = "idle" /\ obj' = None /\ text' = None
    BY <1>8 DEF ReportFailed, UpdateTo, Return
  <2> QED
    BY <2>2, <2>3, <2>4
<1>9. CASE Unfinalize
  BY <1>9 DEF Unfinalize, UpdateTo, Return
<1>10. CASE UpdateFails
  BY <1>10 DEF UpdateFails, Return
<1>11. CASE Observe
  BY <1>11 DEF Observe
<1>12. CASE TimerFires
  <2>1. timer' \in BOOLEAN /\ queued' \in BOOLEAN
    BY <1>12 DEF TimerFires
  <2>2. UNCHANGED <<live, uids, policies, baoUp, written, seen, client, pc, obj, text, past, orderly>>
    BY <1>12 DEF TimerFires
  <2> QED
    BY <2>1, <2>2
<1>13. CASE Crash
  <2>1. timer' \in BOOLEAN /\ queued' \in BOOLEAN /\ client' \in BOOLEAN
    BY <1>13 DEF Crash
  <2>2. /\ UNCHANGED <<live, uids, policies, baoUp, written, past, orderly>>
        /\ seen' = live /\ pc' = "idle" /\ obj' = None /\ text' = None
    BY <1>13 DEF Crash
  <2> QED
    BY <2>1, <2>2
<1>14. ASSUME NEW s \in Specs, Create(s) PROVE PolicyTypeOK'
  BY <1>14 DEF Create
<1>15. ASSUME NEW s \in Specs, Edit(s) PROVE PolicyTypeOK'
  <2>1. live \in BaoPolicies /\ live.generation + 1 \in 1..MaxGeneration
    BY <1>15 DEF Edit
  <2>2. live' \in BaoPolicies
    BY <1>15, <2>1 DEF Edit
  <2>3. past' \subseteq Rules
    BY <1>15 DEF Edit
  <2>4. orderly' \in BOOLEAN
    BY <1>15 DEF Edit
  <2>5. UNCHANGED <<uids, policies, baoUp, written, seen, queued, timer, client, pc, obj, text>>
    BY <1>15 DEF Edit
  <2> QED
    BY <2>2, <2>3, <2>4, <2>5
<1>16. CASE Delete
  <2>1. live' \in BaoPolicies \cup {None}
    BY <1>16 DEF Delete
  <2>2. UNCHANGED <<uids, policies, baoUp, written, seen, queued, timer, client, pc, obj, text, past, orderly>>
    BY <1>16 DEF Delete
  <2> QED
    BY <2>1, <2>2
<1>17. ASSUME NEW n \in Names, Tamper(n) PROVE PolicyTypeOK'
  <2>1. policies' \in [Names -> Texts \cup {None}]
    BY <1>17 DEF Tamper
  <2>2. UNCHANGED <<live, uids, baoUp, written, seen, queued, timer, client, pc, obj, text, past>>
    BY <1>17 DEF Tamper
  <2>3. orderly' \in BOOLEAN
    BY <1>17 DEF Tamper
  <2> QED
    BY <2>1, <2>2, <2>3
<1>18. CASE Outage
  <2>1. baoUp' \in BOOLEAN
    BY <1>18 DEF Outage
  <2>2. UNCHANGED <<live, uids, policies, written, seen, queued, timer, client, pc, obj, text, past, orderly>>
    BY <1>18 DEF Outage
  <2> QED
    BY <2>1, <2>2
<1>19. CASE Recovery
  BY <1>19 DEF Recovery
<1>20. CASE UNCHANGED policyVars
  BY <1>20 DEF policyVars
<1> QED
  BY <1>1, <1>2, <1>3, <1>4, <1>5, <1>6, <1>7, <1>8, <1>9, <1>10, <1>11, <1>12,
     <1>13, <1>14, <1>15, <1>16, <1>17, <1>18, <1>19, <1>20 DEF PolicyNext, Reconcile

-----------------------------------------------------------------------------
UidOf(b) == IF b = None THEN 0 ELSE b.uid

\* A change of the object in the API server that leaves the spec and what the status
\* says of the policy alone.
Refreshed ==
    /\ live \in BaoPolicies /\ live' \in BaoPolicies
    /\ live'.uid = live.uid /\ live'.generation = live.generation /\ live'.spec = live.spec
    /\ live'.observed = live.observed
    /\ live'.ready => live.ready
    /\ live'.version = live.version /\ live'.applied = live.applied

\* What Finalize, ReportFailed and a deletion that the finalizer holds back do.
LEMMA RefreshingSteps ==
    ASSUME PolicyTypeOK
    PROVE  /\ Finalize => Refreshed /\ obj = live /\ obj' = live'
           /\ ReportFailed => Refreshed /\ obj = live /\ obj' = None
           /\ Delete => Refreshed \/ live' = None
<1> USE PolicyAssumption DEF PolicyTypeOK
<1>1. ASSUME Finalize PROVE Refreshed /\ obj = live /\ obj' = live'
  <2>1. live \in BaoPolicies /\ obj = live /\ live' = [live EXCEPT !.finalizer = TRUE]
    BY <1>1 DEF Finalize, UpdateTo
  <2> QED
    BY <1>1, <2>1 DEF Finalize, Refreshed, BaoPolicies
<1>2. ASSUME ReportFailed PROVE Refreshed /\ obj = live /\ obj' = None
  <2>1. live \in BaoPolicies /\ obj = live /\ live' = [live EXCEPT !.ready = FALSE]
    BY <1>2 DEF ReportFailed, UpdateTo, WithVersion
  <2> QED
    BY <1>2, <2>1 DEF ReportFailed, Return, Refreshed, BaoPolicies
<1>3. ASSUME Delete PROVE Refreshed \/ live' = None
  <2>1. live \in BaoPolicies /\ live' \in {None, [live EXCEPT !.deleting = TRUE]}
    BY <1>3 DEF Delete
  <2> QED
    BY <2>1 DEF Refreshed, BaoPolicies
<1> QED
  BY <1>1, <1>2, <1>3

\* What ReportSynced does.
LEMMA ReportSteps ==
    ASSUME PolicyTypeOK, ReportSynced
    PROVE  /\ live \in BaoPolicies /\ live' \in BaoPolicies
           /\ live'.uid = live.uid /\ live'.generation = live.generation
           /\ live'.spec = live.spec /\ live'.observed = live.generation
           /\ live'.version = text
           /\ live'.applied = IF text = live.version THEN live.applied
                                                    ELSE PolicyName(live.spec)
           /\ obj = live /\ obj' = None /\ text' = None /\ pc' = "idle"
           /\ text \in Texts /\ pc = "synced"
           /\ UNCHANGED <<uids, bao, history, seen>>
<1> USE PolicyAssumption DEF PolicyTypeOK
<1>1. /\ obj = live /\ live \in BaoPolicies /\ text \in Texts /\ pc = "synced"
      /\ obj' = None /\ text' = None /\ pc' = "idle"
      /\ UNCHANGED <<uids, bao, history, seen>>
  BY DEF ReportSynced, UpdateTo, Return
<1>2. live' = [WithVersion EXCEPT !.ready = TRUE, !.observed = live.generation]
  BY <1>1 DEF ReportSynced, UpdateTo
<1>3. PolicyName(live.spec) \in Names
  BY <1>1 DEF PolicyName, BaoPolicies
<1>4. /\ WithVersion \in BaoPolicies
      /\ WithVersion.uid = live.uid /\ WithVersion.generation = live.generation
      /\ WithVersion.spec = live.spec /\ WithVersion.version = text
      /\ WithVersion.applied = IF text = live.version THEN live.applied
                                                     ELSE PolicyName(live.spec)
  <2>1. CASE text = live.version
    BY <1>1, <2>1 DEF WithVersion
  <2>2. CASE text # live.version
    <3>1. WithVersion = [live EXCEPT !.version = text, !.applied = PolicyName(live.spec)]
      BY <1>1, <2>2 DEF WithVersion
    <3> QED
      BY <1>1, <1>3, <2>2, <3>1 DEF BaoPolicies
  <2> QED
    BY <2>1, <2>2
<1>5. live.generation \in 0..MaxGeneration
  BY <1>1 DEF BaoPolicies
<1>6. /\ live' \in BaoPolicies
      /\ live'.uid = WithVersion.uid /\ live'.generation = WithVersion.generation
      /\ live'.spec = WithVersion.spec /\ live'.observed = live.generation
      /\ live'.version = WithVersion.version /\ live'.applied = WithVersion.applied
  BY <1>2, <1>4, <1>5 DEF BaoPolicies
<1> QED
  BY <1>1, <1>4, <1>6

\* What a user's edit does.
LEMMA EditSteps ==
    ASSUME PolicyTypeOK, NEW s \in Specs, Edit(s)
    PROVE  /\ live \in BaoPolicies /\ live' \in BaoPolicies
           /\ live'.uid = live.uid /\ live'.generation = live.generation + 1
           /\ live'.spec = s /\ live'.observed = live.observed
           /\ live'.version = live.version /\ live'.applied = live.applied
<1> USE PolicyAssumption DEF PolicyTypeOK
<1>1. live \in BaoPolicies /\ live.generation + 1 \in 1..MaxGeneration
  BY DEF Edit, BaoPolicies
<1>2. live' = [live EXCEPT !.spec = s, !.generation = live.generation + 1]
  BY DEF Edit
<1> QED
  BY <1>1, <1>2 DEF BaoPolicies

-----------------------------------------------------------------------------
\* How old a copy b of the BaoPolicy, in the cache or in Reconcile, can be.
Behind(b) ==
    b # None =>
        /\ b.uid <= uids
        /\ b.uid = UidOf(live) =>
              /\ b.generation <= live.generation
              /\ b.generation = live.generation => b.spec = live.spec

LiveInv ==
    live # None =>
        /\ live.uid = uids
        /\ live.observed <= live.generation
        /\ live.spec.rules \in past
        /\ live.version # None => live.version.rules \in past

\* The copy of Reconcile is no newer than the cache.
ObjInv ==
    obj # None /\ obj.uid = UidOf(live) =>
        UidOf(seen) = obj.uid /\ obj.generation <= seen.generation

\* A text that waits to be written or reported is of the rules of the copy.
TextInv == text # None => text.rules = obj.spec.rules

CopiesInv == LiveInv /\ Behind(seen) /\ Behind(obj) /\ ObjInv /\ TextInv

\* A copy never overtakes the API server, nor Reconcile the cache.
LEMMA CopiesStep == PolicyTypeOK /\ CopiesInv /\ [PolicyNext]_policyVars => CopiesInv'
<1> USE PolicyAssumption DEF cluster, bao, operator, reconcile, history, UidOf
<1> SUFFICES ASSUME PolicyTypeOK, CopiesInv, [PolicyNext]_policyVars PROVE CopiesInv'
  OBVIOUS
<1>a. /\ live \in BaoPolicies \cup {None} /\ seen \in BaoPolicies \cup {None}
      /\ uids \in Nat /\ obj \in BaoPolicies \cup {None}
      /\ pc = "idle" <=> obj = None
      /\ text # None => pc \in {"write", "synced"}
  BY DEF PolicyTypeOK, BaoPolicies
<1>b. ASSUME NEW b \in BaoPolicies
      PROVE  b # None /\ b.uid \in Nat \ {0} /\ b.generation \in Nat /\ b.observed \in Nat
  BY DEF BaoPolicies
<1>c. ASSUME UNCHANGED <<live, uids, past, seen>>, UNCHANGED obj \/ obj' = None,
             UNCHANGED text \/ text' = None, obj' = None => text' = None
      PROVE  CopiesInv'
  BY <1>c DEF CopiesInv, LiveInv, Behind, ObjInv, TextInv
<1>d. ASSUME Refreshed, UNCHANGED <<uids, past, seen>>, text' = None,
             obj' \in {None, live'} \/ UNCHANGED obj, obj' = live' => obj = live
      PROVE  CopiesInv'
  BY <1>d, <1>a, <1>b DEF CopiesInv, Refreshed, LiveInv, Behind, ObjInv, TextInv
<1>1. CASE Begin
  BY <1>1, <1>a, <1>b DEF Begin, CopiesInv, LiveInv, Behind, ObjInv, TextInv
<1>2. CASE BeginGone
  BY <1>2, <1>a, <1>c DEF BeginGone
<1>3. CASE Finalize
  <2>1. UNCHANGED <<uids, past, seen>> /\ text' = None
    BY <1>3, <1>a DEF Finalize, UpdateTo
  <2> QED
    BY <1>3, <1>d, <2>1, RefreshingSteps
<1>4. CASE Sync
  <2>1. PICK t \in ToHCL(obj.spec.rules) : Synced(t)
    BY <1>4 DEF Sync
  <2>2. obj # None /\ obj.spec.rules \in Rules
    BY <1>4, <1>a DEF Sync, BaoPolicies
  <2>3. text' = t /\ t.rules = obj.spec.rules
    BY <2>1, <2>2, TextsOfRules DEF Synced
  <2>4. UNCHANGED <<live, uids, past, seen, obj>>
    BY <1>4 DEF Sync
  <2> QED
    BY <2>3, <2>4 DEF CopiesInv, LiveInv, Behind, ObjInv, TextInv
<1>5. CASE Write
  BY <1>5, <1>a, <1>c DEF Write
<1>6. CASE SyncFails
  BY <1>6, <1>c DEF SyncFails
<1>7. CASE ReportSynced
  <2>1. text.rules = live.spec.rules /\ UNCHANGED <<uids, past, seen>>
    BY <1>7, <1>a, ReportSteps DEF CopiesInv, TextInv, PolicyTypeOK
  <2>2. LiveInv'
    BY <1>7, <1>a, <1>b, <2>1, ReportSteps DEF CopiesInv, LiveInv
  <2>3. Behind(seen)'
    BY <1>7, <1>a, <1>b, <2>1, ReportSteps DEF CopiesInv, Behind
  <2> QED
    BY <1>7, <2>2, <2>3, ReportSteps DEF CopiesInv, Behind, ObjInv, TextInv
<1>8. CASE ReportFailed
  <2>1. UNCHANGED <<uids, past, seen>> /\ text' = None
    BY <1>8 DEF ReportFailed, UpdateTo, Return
  <2> QED
    BY <1>8, <1>b, <1>d, <2>1, RefreshingSteps DEF Refreshed
<1>9. CASE Unfinalize
  BY <1>9, <1>a, <1>b DEF Unfinalize, UpdateTo, Return, CopiesInv, LiveInv, Behind, ObjInv, TextInv
<1>10. CASE UpdateFails
  BY <1>10, <1>c DEF UpdateFails, Return
<1>11. CASE Observe
  BY <1>11, <1>a, <1>b DEF Observe, CopiesInv, LiveInv, Behind, ObjInv, TextInv
<1>12. CASE TimerFires
  BY <1>12, <1>a, <1>c DEF TimerFires
<1>13. CASE Crash
  BY <1>13, <1>a, <1>b DEF Crash, CopiesInv, LiveInv, Behind, ObjInv, TextInv
<1>14. ASSUME NEW s \in Specs, Create(s) PROVE CopiesInv'
  <2>1. /\ live' # None /\ live'.uid = uids + 1 /\ live'.generation = 1 /\ live'.spec = s
        /\ live'.observed = 0 /\ live'.version = None
        /\ uids' = uids + 1 /\ past' = {s.rules} /\ UNCHANGED <<seen, obj, text>>
    <3>1. live' \in BaoPolicies
      BY <1>14 DEF Create, PolicyTypeOK, BaoPolicies
    <3> QED
      BY <1>14, <1>b, <3>1 DEF Create
  <2> QED
    BY <2>1, <1>a, <1>b DEF CopiesInv, LiveInv, Behind, ObjInv, TextInv
<1>15. ASSUME NEW s \in Specs, Edit(s) PROVE CopiesInv'
  <2>1. UNCHANGED <<uids, seen, obj, text>> /\ past' = past \cup {s.rules}
    BY <1>15 DEF Edit
  <2> QED
    BY <1>15, <2>1, <1>a, <1>b, EditSteps DEF CopiesInv, LiveInv, Behind, ObjInv, TextInv
<1>16. CASE Delete
  <2>1. UNCHANGED <<uids, past, seen, obj, text>>
    BY <1>16 DEF Delete
  <2>2. CASE Refreshed
    BY <2>1, <2>2, <1>a, <1>b DEF CopiesInv, Refreshed, LiveInv, Behind, ObjInv, TextInv
  <2>3. CASE live' = None
    BY <2>1, <2>3, <1>a, <1>b DEF CopiesInv, LiveInv, Behind, ObjInv, TextInv
  <2> QED
    BY <1>16, <2>2, <2>3, RefreshingSteps
<1>17. ASSUME NEW n \in Names, Tamper(n) PROVE CopiesInv'
  BY <1>17, <1>a, <1>c DEF Tamper
<1>18. CASE Outage
  BY <1>18, <1>a, <1>c DEF Outage
<1>19. CASE Recovery
  BY <1>19, <1>a, <1>c DEF Recovery
<1>20. CASE UNCHANGED policyVars
  BY <1>20, <1>a, <1>c DEF policyVars
<1> QED
  BY <1>1, <1>2, <1>3, <1>4, <1>5, <1>6, <1>7, <1>8, <1>9, <1>10, <1>11, <1>12,
     <1>13, <1>14, <1>15, <1>16, <1>17, <1>18, <1>19, <1>20 DEF PolicyNext, Reconcile

-----------------------------------------------------------------------------
\* A text that is about to be reported is the one in the status, or was written last.
WriteInv ==
    pc = "synced" =>
        \/ text = obj.version
        \/ /\ written = <<PolicyName(obj.spec), text>>
           /\ orderly /\ obj.uid = UidOf(live) => policies[PolicyName(obj.spec)] = text

ReadyInv ==
    live # None /\ live.ready /\ live.observed = live.generation =>
        live.version # None /\ live.version.rules = live.spec.rules

\* A status with the version of the present rules: they are in force, and no copy with
\* older rules is left that could be written over them.
InForceInv ==
    orderly /\ live # None /\ live.version # None /\ live.version.rules = live.spec.rules =>
        /\ policies[PolicyName(live.spec)] # None
        /\ policies[PolicyName(live.spec)].rules = live.spec.rules
        /\ seen # None /\ seen.uid = live.uid /\ seen.generation = live.generation
        /\ obj # None => obj.uid = live.uid /\ obj.generation = live.generation

StatusInv == WriteInv /\ ReadyInv /\ InForceInv

\* Every step keeps what the status says true.
LEMMA StatusStep ==
    PolicyTypeOK /\ CopiesInv /\ StatusInv /\ [PolicyNext]_policyVars => StatusInv'
<1> USE PolicyAssumption DEF cluster, bao, operator, reconcile, history, UidOf
<1> SUFFICES ASSUME PolicyTypeOK, CopiesInv, StatusInv, [PolicyNext]_policyVars
             PROVE  StatusInv'
  OBVIOUS
<1>a. /\ live \in BaoPolicies \cup {None} /\ seen \in BaoPolicies \cup {None}
      /\ uids \in Nat /\ obj \in BaoPolicies \cup {None}
      /\ pc = "idle" <=> obj = None
      /\ text # None <=> pc \in {"write", "synced"}
      /\ text \in Texts \cup {None} /\ None \notin Texts
      /\ policies \in [Names -> Texts \cup {None}]
  BY DEF PolicyTypeOK, BaoPolicies
<1>b. ASSUME NEW b \in BaoPolicies
      PROVE  /\ b # None /\ b.uid \in Nat \ {0} /\ b.generation \in Nat /\ b.observed \in Nat
             /\ PolicyName(b.spec) \in Names
  BY DEF BaoPolicies, PolicyName
<1> DEFINE Apart == UNCHANGED <<live, policies, orderly, written>>
<1>c. ASSUME Apart, UNCHANGED seen, obj' = None, pc' # "synced" PROVE StatusInv'
  BY <1>c DEF StatusInv, WriteInv, ReadyInv, InForceInv
<1>d. ASSUME Apart, UNCHANGED <<seen, obj, text, pc>> PROVE StatusInv'
  BY <1>d DEF StatusInv, WriteInv, ReadyInv, InForceInv
<1>e. ASSUME Refreshed, UNCHANGED <<policies, orderly, written, seen>>,
             \/ pc' # "synced" /\ obj' \in {None, live'}
             \/ UNCHANGED <<pc, obj, text>>
      PROVE  StatusInv'
  <2>1. ReadyInv'
    BY <1>e DEF StatusInv, ReadyInv, Refreshed
  <2>2. InForceInv'
    BY <1>e DEF StatusInv, InForceInv, Refreshed
  <2>3. WriteInv'
    BY <1>e, <1>b DEF StatusInv, WriteInv, Refreshed
  <2> QED
    BY <2>1, <2>2, <2>3 DEF StatusInv
<1>f. ASSUME obj # None, Apply, UNCHANGED <<live, orderly, seen, obj>>, text \in Texts,
             pc' = "synced" => UNCHANGED text
      PROVE  StatusInv'
  <2>1. /\ policies' = [policies EXCEPT ![PolicyName(obj.spec)] = text]
        /\ PolicyName(obj.spec) \in Names /\ text.rules = obj.spec.rules /\ text # None
        /\ written' = <<PolicyName(obj.spec), text>>
    BY <1>a, <1>b, <1>f DEF Apply, CopiesInv, TextInv
  <2>2. policies'[PolicyName(obj.spec)] = text
    BY <2>1, <1>a
  <2>3. WriteInv' /\ ReadyInv'
    BY <1>f, <2>1, <2>2 DEF StatusInv, WriteInv, ReadyInv
  <2>4. ASSUME orderly, live # None, live.version # None, live.version.rules = live.spec.rules
        PROVE  obj.spec = live.spec
    BY <1>a, <1>f, <2>4 DEF StatusInv, InForceInv, CopiesInv, Behind
  <2>5. InForceInv'
    BY <1>f, <2>1, <2>2, <2>4 DEF StatusInv, InForceInv
  <2> QED
    BY <2>3, <2>5 DEF StatusInv
<1>1. CASE Begin
  <2>1. Apart /\ UNCHANGED seen /\ obj' = seen /\ pc' # "synced"
    BY <1>1 DEF Begin
  <2> QED
    BY <2>1 DEF StatusInv, WriteInv, ReadyInv, InForceInv
<1>2. CASE BeginGone
  BY <1>2, <1>d DEF BeginGone
<1>3. CASE Finalize
  <2>1. UNCHANGED <<policies, orderly, written, seen>> /\ pc' = "sync"
    BY <1>3 DEF Finalize, UpdateTo
  <2> QED
    BY <1>3, <1>e, <2>1, RefreshingSteps
<1>4. CASE Sync
  <2>1. PICK t \in ToHCL(obj.spec.rules) : Synced(t)
    BY <1>4 DEF Sync
  <2>2. Apart /\ UNCHANGED <<seen, obj>> /\ (pc' = "synced" => text' = obj.version)
    BY <1>4, <2>1 DEF Sync, Synced
  <2> QED
    BY <2>2 DEF StatusInv, WriteInv, ReadyInv, InForceInv
<1>5. CASE Write
  BY <1>5, <1>a, <1>f DEF Write
<1>6. CASE SyncFails
  <2>1. CASE Apply /\ pc = "write"
    BY <1>6, <2>1, <1>a, <1>f DEF SyncFails
  <2>2. CASE UNCHANGED <<policies, written>>
    BY <1>6, <2>2 DEF SyncFails, StatusInv, WriteInv, ReadyInv, InForceInv
  <2> QED
    BY <1>6, <2>1, <2>2 DEF SyncFails
<1>7. CASE ReportSynced
  <2>1. text.rules = live.spec.rules /\ text # None
    BY <1>7, <1>a, ReportSteps DEF CopiesInv, TextInv
  <2>2. UNCHANGED <<policies, orderly, written, seen>>
    BY <1>7, ReportSteps
  <2>3. WriteInv' /\ ReadyInv'
    BY <1>7, <2>1, ReportSteps DEF WriteInv, ReadyInv
  <2>4. seen # None /\ seen.uid = live.uid /\ seen.generation = live.generation
    BY <1>7, <1>a, <1>b, ReportSteps DEF CopiesInv, ObjInv, Behind
  <2>5. orderly => /\ policies[PolicyName(live.spec)] # None
                   /\ policies[PolicyName(live.spec)].rules = live.spec.rules
    <3>1. CASE text = live.version
      BY <1>7, <2>1, <3>1, ReportSteps DEF StatusInv, InForceInv
    <3>2. CASE text # live.version
      BY <1>7, <1>b, <2>1, <3>2, ReportSteps DEF StatusInv, WriteInv
    <3> QED
      BY <3>1, <3>2
  <2>6. InForceInv'
    BY <1>7, <2>1, <2>2, <2>4, <2>5, ReportSteps DEF InForceInv
  <2> QED
    BY <2>3, <2>6 DEF StatusInv
<1>8. CASE ReportFailed
  <2>1. UNCHANGED <<policies, orderly, written, seen>> /\ pc' = "idle"
    BY <1>8 DEF ReportFailed, UpdateTo, Return
  <2> QED
    BY <1>8, <1>e, <2>1, RefreshingSteps
<1>9. CASE Unfinalize
  BY <1>9 DEF Unfinalize, UpdateTo, Return, StatusInv, WriteInv, ReadyInv, InForceInv
<1>10. CASE UpdateFails
  BY <1>10, <1>c DEF UpdateFails, Return
<1>11. CASE Observe
  BY <1>11 DEF Observe, StatusInv, WriteInv, ReadyInv, InForceInv
<1>12. CASE TimerFires
  BY <1>12, <1>d DEF TimerFires
<1>13. CASE Crash
  BY <1>13 DEF Crash, StatusInv, WriteInv, ReadyInv, InForceInv
<1>14. ASSUME NEW s \in Specs, Create(s) PROVE StatusInv'
  <2>1. live' # None /\ live'.uid = uids + 1 /\ live'.version = None /\ ~live'.ready
    <3>1. live' \in BaoPolicies
      BY <1>14 DEF Create, PolicyTypeOK, BaoPolicies
    <3> QED
      BY <1>14, <1>b, <3>1 DEF Create
  <2>2. UNCHANGED <<policies, written, obj, text, pc>>
    BY <1>14 DEF Create
  <2>3. obj # None => obj.uid <= uids /\ obj.uid \in Nat
    BY <1>a, <1>b DEF CopiesInv, Behind
  <2> QED
    BY <2>1, <2>2, <2>3, <1>a DEF StatusInv, WriteInv, ReadyInv, InForceInv
<1>15. ASSUME NEW s \in Specs, Edit(s) PROVE StatusInv'
  <2>1. /\ UNCHANGED <<policies, written, seen, obj, text, pc>>
        /\ orderly' => orderly /\ s.rules \notin past
    BY <1>15 DEF Edit
  <2>2. WriteInv'
    BY <1>15, <2>1, <1>b, EditSteps DEF StatusInv, WriteInv
  <2>3. ReadyInv' /\ InForceInv'
    BY <1>15, <2>1, <1>b, EditSteps DEF CopiesInv, LiveInv, ReadyInv, InForceInv
  <2> QED
    BY <2>2, <2>3 DEF StatusInv
<1>16. CASE Delete
  <2>1. UNCHANGED <<policies, orderly, written, seen, obj, text, pc>>
    BY <1>16 DEF Delete
  <2>2. CASE Refreshed
    BY <2>1, <2>2, <1>e
  <2>3. CASE live' = None
    BY <2>1, <2>3, <1>a, <1>b DEF StatusInv, WriteInv, ReadyInv, InForceInv
  <2> QED
    BY <1>16, <2>2, <2>3, RefreshingSteps
<1>17. ASSUME NEW n \in Names, Tamper(n) PROVE StatusInv'
  BY <1>17 DEF Tamper, StatusInv, WriteInv, ReadyInv, InForceInv
<1>18. CASE Outage
  BY <1>18, <1>d DEF Outage
<1>19. CASE Recovery
  BY <1>19, <1>d DEF Recovery
<1>20. CASE UNCHANGED policyVars
  BY <1>20, <1>d DEF policyVars
<1> QED
  BY <1>1, <1>2, <1>3, <1>4, <1>5, <1>6, <1>7, <1>8, <1>9, <1>10, <1>11, <1>12,
     <1>13, <1>14, <1>15, <1>16, <1>17, <1>18, <1>19, <1>20 DEF PolicyNext, Reconcile

-----------------------------------------------------------------------------
\* The controller starts in these invariants.
LEMMA PolicyStarts == PolicyInit => PolicyTypeOK /\ CopiesInv /\ StatusInv
<1> SUFFICES ASSUME PolicyInit PROVE PolicyTypeOK /\ CopiesInv /\ StatusInv
  OBVIOUS
<1>1. baoUp \in BOOLEAN /\ queued \in BOOLEAN /\ timer \in BOOLEAN /\ client \in BOOLEAN
  BY DEF PolicyInit
<1>2. /\ live = None /\ seen = None /\ obj = None /\ text = None /\ pc = "idle" /\ uids = 0
      /\ policies = [n \in Names |-> None] /\ written = <<>> /\ past = {} /\ orderly = TRUE
  BY DEF PolicyInit
<1>3. PolicyTypeOK
  BY <1>1, <1>2, PolicyAssumption DEF PolicyTypeOK
<1> QED
  BY <1>2, <1>3 DEF CopiesInv, LiveInv, Behind, ObjInv, TextInv, StatusInv, WriteInv,
       ReadyInv, InForceInv

\* The variables of the controller, of its cluster and of OpenBao keep their types.
THEOREM PolicyTypeCorrect == PolicySpec => []PolicyTypeOK
BY PolicyStarts, PolicyTypes, PTL DEF PolicySpec

\* All invariants of the controller together.
LEMMA PolicyInvariant == PolicySpec => [](PolicyTypeOK /\ CopiesInv /\ StatusInv)
BY PolicyStarts, PolicyTypes, CopiesStep, StatusStep, PTL DEF PolicySpec

\* What is reported ready at the present generation is in force, if every edit brings
\* new rules: no copy that is older than the report is ever written after it.
THEOREM ReadyPoliciesAreInForce == PolicySpec => []ReadyIsInForce
<1>1. StatusInv => ReadyIsInForce
  BY DEF StatusInv, ReadyInv, InForceInv, ReadyIsInForce
<1> QED
  BY <1>1, PolicyInvariant, PTL

\* A step that changes which version the status names gives it the one that was
\* written last.
LEMMA NamesWhatWasWritten ==
    ASSUME PolicyTypeOK, StatusInv, [PolicyNext]_policyVars,
           VersionOf(live') # VersionOf(live), live' # None, live'.version # None
    PROVE  VersionOf(live') = written
<1> USE PolicyAssumption DEF VersionOf
<1>1. CASE ReportSynced
  <2>1. VersionOf(live') = IF text = live.version THEN VersionOf(live)
                                                  ELSE <<PolicyName(live.spec), text>>
    BY <1>1, ReportSteps
  <2> QED
    BY <1>1, <2>1, ReportSteps DEF StatusInv, WriteInv
<1>2. ASSUME Refreshed PROVE FALSE
  BY <1>2 DEF Refreshed, BaoPolicies
<1>3. ASSUME UNCHANGED live PROVE FALSE
  BY <1>3
<1>4. ASSUME NEW s \in Specs, Create(s) PROVE FALSE
  <2>1. live'.version = None
    BY <1>4 DEF Create
  <2> QED
    BY <2>1
<1>5. ASSUME NEW s \in Specs, Edit(s) PROVE FALSE
  BY <1>5, EditSteps DEF BaoPolicies
<1>6. CASE Reconcile
  <2>1. ASSUME Begin \/ BeginGone \/ Sync \/ Write \/ SyncFails \/ UpdateFails
        PROVE  UNCHANGED live
    BY <2>1 DEF Begin, BeginGone, Sync, Write, SyncFails, UpdateFails, cluster
  <2>2. ASSUME Unfinalize PROVE FALSE
    BY <2>2 DEF Unfinalize, UpdateTo
  <2> QED
    BY <1>1, <1>2, <1>3, <1>6, <2>1, <2>2, RefreshingSteps DEF Reconcile
<1>7. ASSUME Observe \/ TimerFires \/ Crash \/ (\E n \in Names : Tamper(n))
               \/ Outage \/ Recovery \/ UNCHANGED policyVars
      PROVE  UNCHANGED live
  BY <1>7 DEF Observe, TimerFires, Crash, Tamper, Outage, Recovery, policyVars, cluster
<1> QED
  BY <1>2, <1>3, <1>4, <1>5, <1>6, <1>7, RefreshingSteps DEF PolicyNext

\* The status never names a version that OpenBao has not applied, nor one older than
\* the operator's last write, whatever is lost between the write and the status.
THEOREM StatusNamesTheLastWrite == PolicySpec => StatusFollowsWrites
<1>1. PolicyTypeOK /\ StatusInv /\ [PolicyNext]_policyVars =>
          [VersionOf(live') # VersionOf(live) =>
               live' = None \/ live'.version = None \/ VersionOf(live') = written]_policyVars
  BY NamesWhatWasWritten
<1> QED
  BY <1>1, PolicyInvariant, PTL DEF PolicySpec, StatusFollowsWrites

=============================================================================
