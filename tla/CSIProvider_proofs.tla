------------------------- MODULE CSIProvider_proofs --------------------------
(***************************************************************************)
(* Proofs about CSIProvider, for any mounts, requests, versions, TTL and    *)
(* timeout: types, the age of what the cache and an answer hold, and what a *)
(* mount has gathered of what it was asked for.                             *)
(***************************************************************************)
EXTENDS CSIProvider, TLAPS

\* Where the calls of FetchSecrets point.
IndexInv ==
    \A m \in Mounts :
        /\ pc[m] \in {"send", "store"} => next[m] \in DOMAIN request[m].objects
        /\ pc[m] \in {"idle", "login", "return"} =>
              next[m] = 1 /\ got[m] = <<>> /\ failed[m] = FALSE

\* An object that a mount has reached is one that can be asked for.
LEMMA ObjectFacts ==
    ASSUME CSITypeOK, NEW m \in Mounts, pc[m] # "idle",
           next[m] \in DOMAIN request[m].objects
    PROVE  /\ request[m] \in Requests /\ Object(m) \in ObjectsOf(request[m])
           /\ Object(m) \in Objects
           /\ CacheKey(Object(m)) \in Keys
           /\ Source(m) \in Locations
           /\ \A s \in Secrets : Fetched(request[m], Object(m), s) \in Files
<1>1. request[m] \in Requests
  BY DEF CSITypeOK
<1>2. Object(m) \in ObjectsOf(request[m])
  BY DEF Object, ObjectsOf
<1>3. Object(m) \in Objects
  BY <1>1, <1>2 DEF Objects
<1>4. Wanted(request[m], Object(m)) \in Wants
  BY <1>1, <1>2 DEF Wants
<1>5. Source(m) \in Locations
  <2>1. Wanted(request[m], Object(m)).location = Source(m)
    BY DEF Wanted, Source
  <2> QED
    BY <1>4, <2>1 DEF Locations
<1>6. ASSUME NEW s \in Secrets PROVE Fetched(request[m], Object(m), s) \in Files
  BY <1>4 DEF Fetched, Files, Secrets
<1> QED
  BY <1>1, <1>2, <1>3, <1>5, <1>6 DEF Keys

\* A file comes from a place that can be asked for.
LEMMA FilesAreLocated == \A f \in Files : f.of.location \in Locations
BY DEF Files, Locations

\* Every step keeps the variables in their types.
LEMMA CSITypes == CSITypeOK /\ IndexInv /\ [CSINext]_csiVars => CSITypeOK' /\ IndexInv'
<1> USE CSIAssumption DEF mountVars
<1> SUFFICES ASSUME CSITypeOK, IndexInv, [CSINext]_csiVars PROVE CSITypeOK' /\ IndexInv'
  OBVIOUS
<1>a. Nothing \in Secrets /\ (\A e \in Entries : e.secret \in Files)
  BY DEF Nothing, Secrets, Entries
<1>b. ASSUME NEW m \in Mounts, NEW code \in {"OK", "InvalidArgument", "PermissionDenied", "Internal"},
             NEW files \in Seq(Files), Return(m, code, files),
             \/ pc[m] # "idle" /\ UNCHANGED request
             \/ \E r \in Requests : request' = [request EXCEPT ![m] = r]
      PROVE  CSITypeOK' /\ IndexInv'
  <2>1. /\ answer' \in [Mounts -> [code : {"none", "OK", "InvalidArgument", "PermissionDenied",
                                        "Internal"}, files : Seq(Files)]]
        /\ UNCHANGED <<kv, settled, phase, cache, read, late>>
    BY <1>b DEF Return, CSITypeOK
  <2>2. /\ pc' = [pc EXCEPT ![m] = "return"] /\ next' = [next EXCEPT ![m] = 1]
        /\ got' = [got EXCEPT ![m] = <<>>] /\ got' \in [Mounts -> Seq(Files)]
        /\ failed' = [failed EXCEPT ![m] = FALSE]
    BY <1>b DEF Return, CSITypeOK
  <2>3. failed' \in [Mounts -> BOOLEAN] /\ failed'[m] = FALSE
        /\ \A n \in Mounts \ {m} : failed'[n] = failed[n]
    BY <2>2 DEF CSITypeOK
  <2>4. /\ request' \in [Mounts -> Requests \cup {NoRequest}] /\ request'[m] # NoRequest
        /\ \A n \in Mounts \ {m} : request'[n] = request[n]
    BY <1>b DEF CSITypeOK
  <2>5. CSITypeOK'
    BY <2>1, <2>2, <2>3, <2>4 DEF CSITypeOK
  <2>6. IndexInv'
    BY <2>2, <2>3, <2>4 DEF CSITypeOK, IndexInv
  <2> QED
    BY <2>5, <2>6
<1>c. ASSUME NEW m \in Mounts, pc[m] \notin {"idle", "login", "return"}, NextObject(m),
             cache' \in [Keys -> Entries \cup {NoEntry}],
             (\E secret \in Files : Deliver(m, secret)) \/ Skip(m)
      PROVE  CSITypeOK' /\ IndexInv'
  <2>1. got' \in [Mounts -> Seq(Files)] /\ failed' \in [Mounts -> BOOLEAN]
        /\ \A n \in Mounts \ {m} : got'[n] = got[n] /\ failed'[n] = failed[n]
    <3>1. ASSUME NEW secret \in Files, Deliver(m, secret)
          PROVE  got' \in [Mounts -> Seq(Files)]
                 /\ \A n \in Mounts \ {m} : got'[n] = got[n]
      BY <3>1 DEF Deliver, CSITypeOK
    <3>2. ASSUME Skip(m)
          PROVE  failed' \in [Mounts -> BOOLEAN]
                 /\ \A n \in Mounts \ {m} : failed'[n] = failed[n]
      BY <3>2 DEF Skip, CSITypeOK
    <3>3. CASE \E secret \in Files : Deliver(m, secret)
      <4>1. failed' = failed
        BY <3>3 DEF Deliver
      <4>2. failed' \in [Mounts -> BOOLEAN] /\ \A n \in Mounts \ {m} : failed'[n] = failed[n]
        BY <4>1 DEF CSITypeOK
      <4> QED
        BY <3>1, <3>3, <4>2
    <3>4. CASE Skip(m)
      <4>1. got' = got
        BY <3>4 DEF Skip
      <4>2. got' \in [Mounts -> Seq(Files)] /\ \A n \in Mounts \ {m} : got'[n] = got[n]
        BY <4>1 DEF CSITypeOK
      <4> QED
        BY <3>2, <3>4, <4>2
    <3> QED
      BY <1>c, <3>3, <3>4
  <2>2. /\ pc' = [pc EXCEPT ![m] = "fetch"] /\ next' = [next EXCEPT ![m] = @ + 1]
        /\ next' \in [Mounts -> Nat \ {0}]
        /\ read' \in [Mounts -> Secrets] /\ late' \in [Mounts -> 0..Timeout]
        /\ UNCHANGED <<kv, settled, phase, request, answer>>
    BY <1>a, <1>c DEF NextObject, CSITypeOK
  <2>3. CSITypeOK'
    BY <1>c, <2>1, <2>2 DEF CSITypeOK
  <2>4. IndexInv'
    <3> SUFFICES ASSUME NEW n \in Mounts
                 PROVE  /\ pc'[n] \in {"send", "store"} => next'[n] \in DOMAIN request'[n].objects
                        /\ pc'[n] \in {"idle", "login", "return"} =>
                              next'[n] = 1 /\ got'[n] = <<>> /\ failed'[n] = FALSE
      BY DEF IndexInv
    <3>1. CASE n = m
      BY <2>2, <3>1 DEF CSITypeOK
    <3>2. CASE n # m
      <4>1. pc'[n] = pc[n] /\ next'[n] = next[n] /\ request'[n] = request[n]
        BY <2>2, <3>2 DEF CSITypeOK
      <4> QED
        BY <2>1, <3>2, <4>1 DEF IndexInv
    <3> QED
      BY <3>1, <3>2
  <2> QED
    BY <2>3, <2>4
<1>1. ASSUME NEW m \in Mounts, LoggedIn(m) PROVE CSITypeOK' /\ IndexInv'
  BY <1>1 DEF LoggedIn, CSITypeOK, IndexInv
<1>2. ASSUME NEW m \in Mounts, Denied(m) PROVE CSITypeOK' /\ IndexInv'
  <2>1. <<>> \in Seq(Files)
    OBVIOUS
  <2> QED
    BY <1>2, <1>b, <2>1 DEF Denied
<1>3. ASSUME NEW m \in Mounts, Hit(m) PROVE CSITypeOK' /\ IndexInv'
  <2>1. CacheKey(Object(m)) \in Keys
    BY <1>3, ObjectFacts DEF Hit
  <2>2. cache[CacheKey(Object(m))].secret \in Files
    BY <1>3, <1>a, <2>1 DEF Hit, CSITypeOK
  <2> QED
    BY <1>3, <1>c, <2>2 DEF Hit, CSITypeOK
<1>4. ASSUME NEW m \in Mounts, Miss(m) PROVE CSITypeOK' /\ IndexInv'
  BY <1>4 DEF Miss, CSITypeOK, IndexInv
<1>5. ASSUME NEW m \in Mounts, Respond(m) PROVE CSITypeOK' /\ IndexInv'
  <2>1. Source(m) \in Locations
    BY <1>5, ObjectFacts DEF Respond, IndexInv
  <2> QED
    BY <1>5, <2>1 DEF Respond, CSITypeOK, IndexInv
<1>6. ASSUME NEW m \in Mounts, RequestFails(m) PROVE CSITypeOK' /\ IndexInv'
  BY <1>6, <1>c DEF RequestFails, CSITypeOK
<1>7. ASSUME NEW m \in Mounts, Store(m) PROVE CSITypeOK' /\ IndexInv'
  <2>1. CacheKey(Object(m)) \in Keys /\ Fetched(request[m], Object(m), read[m]) \in Files
    BY <1>7, ObjectFacts DEF Store, IndexInv, CSITypeOK
  <2>2. [secret |-> Fetched(request[m], Object(m), read[m]), left |-> TTL] \in Entries
    BY <2>1 DEF Entries
  <2>3. cache' \in [Keys -> Entries \cup {NoEntry}]
    BY <1>7, <2>1, <2>2 DEF Store, CSITypeOK
  <2> QED
    BY <1>7, <1>c, <2>1, <2>3 DEF Store
<1>8. ASSUME NEW m \in Mounts, NotExtractable(m) PROVE CSITypeOK' /\ IndexInv'
  BY <1>8, <1>c DEF NotExtractable, CSITypeOK
<1>9. ASSUME NEW m \in Mounts, Answer(m) PROVE CSITypeOK' /\ IndexInv'
  <2>1. got[m] \in Seq(Files) /\ <<>> \in Seq(Files)
    BY DEF CSITypeOK
  <2> QED
    BY <1>9, <1>b, <2>1 DEF Answer
<1>10. ASSUME NEW m \in Mounts, Reply(m) PROVE CSITypeOK' /\ IndexInv'
  BY <1>10 DEF Reply, NoAnswer, CSITypeOK, IndexInv
<1>11. ASSUME NEW m \in Mounts, NEW r \in Requests, Mount(m, r) PROVE CSITypeOK' /\ IndexInv'
  <2>1. CASE WellFormed(r) /\ pc' = [pc EXCEPT ![m] = "login"]
             /\ UNCHANGED <<kv, settled, phase, cache, next, got, failed, read, late, answer>>
    BY <1>11, <2>1 DEF Mount, CSITypeOK, IndexInv
  <2>2. CASE Return(m, "InvalidArgument", <<>>)
    <3>1. <<>> \in Seq(Files)
      OBVIOUS
    <3> QED
      BY <1>11, <1>b, <2>2, <3>1 DEF Mount
  <2> QED
    BY <1>11, <2>1, <2>2 DEF Mount
<1>12. CASE Start
  BY <1>12 DEF Start, CSITypeOK, IndexInv
<1>13. CASE Stop
  BY <1>13 DEF Stop, CSITypeOK, IndexInv
<1>14. ASSUME LoseProcess PROVE CSITypeOK' /\ IndexInv'
  <2>1. /\ cache' \in [Keys -> Entries \cup {NoEntry}]
        /\ read' \in [Mounts -> Secrets] /\ late' \in [Mounts -> 0..Timeout]
        /\ UNCHANGED <<kv, settled>> /\ phase' = "down"
    BY <1>14, <1>a DEF LoseProcess
  <2>2. /\ pc' = [m \in Mounts |-> "idle"] /\ request' = [m \in Mounts |-> NoRequest]
        /\ next' = [m \in Mounts |-> 1] /\ got' = [m \in Mounts |-> <<>>]
        /\ failed' = [m \in Mounts |-> FALSE] /\ answer' = [m \in Mounts |-> NoAnswer]
    BY <1>14 DEF LoseProcess
  <2>3. failed' \in [Mounts -> BOOLEAN] /\ \A m \in Mounts : failed'[m] = FALSE
    BY <2>2
  <2>4. got' \in [Mounts -> Seq(Files)]
    BY <2>2
  <2> QED
    BY <2>1, <2>2, <2>3, <2>4 DEF CSITypeOK, IndexInv, NoAnswer
<1>15. CASE Tick
  <2>1. settled' \in [Locations -> 0..Horizon + 1]
    <3>1. Horizon \in Nat
      BY DEF Horizon
    <3> QED
      BY <1>15, <3>1 DEF Tick, CSITypeOK
  <2>2. late' \in [Mounts -> 0..Timeout]
    BY <1>15 DEF Tick, CSITypeOK
  <2>3. cache' \in [Keys -> Entries \cup {NoEntry}]
    <3>1. ASSUME NEW e \in Entries \cup {NoEntry} PROVE Aged(e) \in Entries \cup {NoEntry}
      BY DEF Aged, Entries
    <3> QED
      BY <1>15, <3>1 DEF Tick, CSITypeOK
  <2> QED
    BY <1>15, <2>1, <2>2, <2>3 DEF Tick, CSITypeOK, IndexInv
<1>16. ASSUME NEW l \in Locations, SecretChanges(l) PROVE CSITypeOK' /\ IndexInv'
  <2>1. kv' \in [Locations -> Secrets]
    <3>1. CASE \E fields \in SUBSET Fields :
                  /\ kv[l].version < MaxVersion
                  /\ kv' = [kv EXCEPT ![l] = [version |-> @.version + 1, fields |-> fields]]
      <4>1. PICK fields \in SUBSET Fields :
                  /\ kv[l].version < MaxVersion
                  /\ kv' = [kv EXCEPT ![l] = [version |-> kv[l].version + 1, fields |-> fields]]
        BY <3>1
      <4>2. kv[l].version \in 0..MaxVersion
        BY DEF CSITypeOK, Secrets
      <4>3. [version |-> kv[l].version + 1, fields |-> fields] \in Secrets
        BY <4>1, <4>2 DEF Secrets
      <4> QED
        BY <4>1, <4>3 DEF CSITypeOK
    <3>2. CASE kv' = [kv EXCEPT ![l].fields = {}]
      <4>0. kv[l] \in Secrets
        BY DEF CSITypeOK
      <4>1. [kv[l] EXCEPT !.fields = {}] \in Secrets
        BY <4>0 DEF Secrets
      <4>2. kv' = [kv EXCEPT ![l] = [kv[l] EXCEPT !.fields = {}]]
        BY <3>2
      <4> QED
        BY <4>1, <4>2 DEF CSITypeOK
    <3> QED
      BY <1>16, <3>1, <3>2 DEF SecretChanges
  <2>2. settled' \in [Locations -> 0..Horizon + 1]
    <3>1. 0 \in 0..Horizon + 1
      BY DEF Horizon
    <3> QED
      BY <1>16, <3>1 DEF SecretChanges, CSITypeOK
  <2> QED
    BY <1>16, <2>1, <2>2 DEF SecretChanges, CSITypeOK, IndexInv
<1>17. CASE UNCHANGED csiVars
  BY <1>17 DEF csiVars, CSITypeOK, IndexInv
<1> QED
  BY <1>1, <1>2, <1>3, <1>4, <1>5, <1>6, <1>7, <1>8, <1>9, <1>10, <1>11, <1>12, <1>13,
     <1>14, <1>15, <1>16, <1>17 DEF CSINext, MountStep, Stopped, Crash

\* The provider starts in its types.
LEMMA CSIStarts == CSIInit => CSITypeOK /\ IndexInv
<1> SUFFICES ASSUME CSIInit PROVE CSITypeOK /\ IndexInv
  OBVIOUS
<1>1. Nothing \in Secrets
  BY CSIAssumption DEF Nothing, Secrets
<1>2. failed \in [Mounts -> BOOLEAN] /\ \A m \in Mounts : failed[m] = FALSE
  BY DEF CSIInit
<1>3. Horizon \in Nat
  BY CSIAssumption DEF Horizon
<1>4. got \in [Mounts -> Seq(Files)] /\ \A m \in Mounts : got[m] = <<>>
  BY DEF CSIInit
<1>5. answer \in [Mounts -> [code : {"none", "OK", "InvalidArgument", "PermissionDenied",
                                   "Internal"}, files : Seq(Files)]]
  BY DEF CSIInit, NoAnswer
<1> QED
  BY <1>1, <1>2, <1>3, <1>4, <1>5, CSIAssumption DEF CSIInit, CSITypeOK, IndexInv

\* The variables of the provider, of its mounts and of OpenBao keep their types.
THEOREM CSITypeCorrect == CSISpec => []CSITypeOK
BY CSIStarts, CSITypes, PTL DEF CSISpec

-----------------------------------------------------------------------------
\* An answer that has become stale on its way has done so since it was sent.
LateInv ==
    \A m \in Mounts :
        LET l == Source(m) IN
        pc[m] = "store" /\ (read[m].version # kv[l].version \/ kv[l].fields = {}) =>
            settled[l] <= late[m]

\* Neither an answer nor a copy in the cache gets older than they may.
LEMMA AgeStep ==
    CSITypeOK /\ IndexInv /\ LateInv /\ StaleEntriesExpire /\ [CSINext]_csiVars
        => LateInv' /\ StaleEntriesExpire'
<1> USE CSIAssumption DEF mountVars
<1> SUFFICES ASSUME CSITypeOK, IndexInv, LateInv, StaleEntriesExpire, [CSINext]_csiVars
             PROVE  LateInv' /\ StaleEntriesExpire'
  OBVIOUS
<1>a. /\ Horizon \in Nat /\ Horizon = TTL + Timeout /\ TTL \in Nat /\ Timeout \in Nat
      /\ \A l \in Locations : settled[l] \in Nat
      /\ \A m \in Mounts : late[m] \in 0..Timeout
  BY DEF Horizon, CSITypeOK
<1>b. ASSUME NEW e \in Entries
      PROVE  e # NoEntry /\ e.left \in 0..TTL /\ e.secret.of.location \in Locations
  <2>1. /\ e.secret.of \in Wants /\ e.secret.version \in 0..MaxVersion /\ e.left \in 0..TTL
        /\ e = [secret |-> [of |-> e.secret.of, version |-> e.secret.version], left |-> e.left]
    BY DEF Entries, Files
  <2>2. e.secret \in Files
    BY DEF Entries
  <2> QED
    BY <2>1, <2>2, FilesAreLocated
<1>c. \A k \in Keys : cache[k] # NoEntry => cache[k] \in Entries
  BY DEF CSITypeOK
\* A step that leaves OpenBao alone, and every answer that is still waited for.
<1>d. ASSUME UNCHANGED <<kv, settled>>,
             \A m \in Mounts : pc'[m] = "store" =>
                 /\ pc[m] = "store" /\ read'[m] = read[m] /\ late'[m] = late[m]
                 /\ request'[m] = request[m] /\ next'[m] = next[m]
      PROVE  LateInv'
  BY <1>d DEF LateInv, Source, Object
<1>e. ASSUME UNCHANGED <<kv, settled, cache>> PROVE StaleEntriesExpire'
  BY <1>e DEF StaleEntriesExpire, Stale
<1>f. ASSUME NEW m \in Mounts, NextObject(m) PROVE LateInv'
  <2>1. /\ pc' = [pc EXCEPT ![m] = "fetch"] /\ next' = [next EXCEPT ![m] = @ + 1]
        /\ read' = [read EXCEPT ![m] = Nothing] /\ late' = [late EXCEPT ![m] = 0]
        /\ UNCHANGED <<kv, settled, request>>
    BY <1>f DEF NextObject
  <2> QED
    BY <1>d, <2>1 DEF CSITypeOK
<1>g. ASSUME NEW m \in Mounts, NEW code, NEW files, Return(m, code, files),
             pc[m] # "store",
             UNCHANGED request \/ \E r \in Requests : request' = [request EXCEPT ![m] = r]
      PROVE  LateInv' /\ StaleEntriesExpire'
  <2>1. /\ pc' = [pc EXCEPT ![m] = "return"] /\ next' = [next EXCEPT ![m] = 1]
        /\ UNCHANGED <<kv, settled, cache, read, late>>
    BY <1>g DEF Return
  <2>2. \A n \in Mounts \ {m} : request'[n] = request[n]
    BY <1>g DEF CSITypeOK
  <2> QED
    BY <1>d, <1>e, <2>1, <2>2 DEF CSITypeOK
<1>1. ASSUME NEW m \in Mounts, LoggedIn(m) \/ Miss(m) \/ Reply(m)
      PROVE  LateInv' /\ StaleEntriesExpire'
  BY <1>1, <1>d, <1>e DEF LoggedIn, Miss, Reply, CSITypeOK
<1>2. ASSUME NEW m \in Mounts, Denied(m) PROVE LateInv' /\ StaleEntriesExpire'
  BY <1>2, <1>g DEF Denied
<1>3. ASSUME NEW m \in Mounts, Hit(m) \/ RequestFails(m) \/ NotExtractable(m)
      PROVE  LateInv' /\ StaleEntriesExpire'
  BY <1>3, <1>e, <1>f DEF Hit, RequestFails, NotExtractable, NextObject
<1>4. ASSUME NEW m \in Mounts, Respond(m) PROVE LateInv' /\ StaleEntriesExpire'
  <2>1. /\ pc' = [pc EXCEPT ![m] = "store"]
        /\ read' = [read EXCEPT ![m] = kv[Source(m)]]
        /\ kv[Source(m)].fields # {}
        /\ UNCHANGED <<kv, settled, cache, request, next, late>>
    BY <1>4 DEF Respond
  <2>2. LateInv'
    BY <2>1 DEF LateInv, Source, Object, CSITypeOK
  <2> QED
    BY <1>e, <2>1, <2>2
<1>5. ASSUME NEW m \in Mounts, Store(m) PROVE LateInv' /\ StaleEntriesExpire'
  <2> DEFINE o == Object(m)  l == Source(m)  s == Fetched(request[m], o, read[m])
  <2>1. /\ CacheKey(o) \in Keys /\ l \in Locations
        /\ cache' = [cache EXCEPT ![CacheKey(o)] = [secret |-> s, left |-> TTL]]
        /\ pc[m] = "store" /\ NextObject(m) /\ UNCHANGED <<kv, settled>>
    BY <1>5, ObjectFacts DEF Store, IndexInv, NextObject
  <2>2. s.version = read[m].version /\ s.of.location = l
    BY DEF Fetched, Wanted, Source
  <2>3. Stale(s) => settled[l] <= Timeout
    <3>1. read[m].version # kv[l].version \/ kv[l].fields = {} => settled[l] <= late[m]
      BY <2>1 DEF LateInv
    <3>2. late[m] \in 0..Timeout /\ settled[l] \in Nat
      BY <1>a, <2>1
    <3>3. Stale(s) => read[m].version # kv[l].version \/ kv[l].fields = {}
      BY <2>2 DEF Stale
    <3> HIDE DEF l, s
    <3> QED
      BY <1>a, <3>1, <3>2, <3>3
  <2>4. ASSUME NEW k \in Keys, cache'[k] # NoEntry, Stale(cache'[k].secret)
        PROVE  settled[cache'[k].secret.of.location] + cache'[k].left <= Horizon
    <3>1. CASE k = CacheKey(o)
      <4>1. cache'[k] = [secret |-> s, left |-> TTL]
        BY <2>1, <3>1 DEF CSITypeOK
      <4>2. cache'[k].secret = s /\ cache'[k].left = TTL
        BY <4>1
      <4> QED
        BY <1>a, <2>1, <2>2, <2>3, <2>4, <4>2
    <3>2. CASE k # CacheKey(o)
      <4>1. cache'[k] = cache[k]
        BY <2>1, <3>2 DEF CSITypeOK
      <4> QED
        BY <2>4, <4>1 DEF StaleEntriesExpire
    <3> QED
      BY <3>1, <3>2
  <2>5. StaleEntriesExpire'
    BY <2>1, <2>4 DEF StaleEntriesExpire, Stale
  <2> QED
    BY <1>f, <2>1, <2>5
<1>6. ASSUME NEW m \in Mounts, Answer(m) PROVE LateInv' /\ StaleEntriesExpire'
  BY <1>6, <1>g DEF Answer
<1>7. ASSUME NEW m \in Mounts, NEW r \in Requests, Mount(m, r)
      PROVE  LateInv' /\ StaleEntriesExpire'
  <2>1. pc[m] = "idle" /\ request' = [request EXCEPT ![m] = r]
    BY <1>7 DEF Mount
  <2>2. CASE pc' = [pc EXCEPT ![m] = "login"]
             /\ UNCHANGED <<kv, settled, phase, cache, next, got, failed, read, late, answer>>
    BY <1>d, <1>e, <2>1, <2>2 DEF CSITypeOK
  <2>3. CASE Return(m, "InvalidArgument", <<>>)
    BY <1>g, <2>1, <2>3
  <2> QED
    BY <1>7, <2>2, <2>3 DEF Mount
<1>8. CASE Start \/ Stop \/ UNCHANGED csiVars
  BY <1>8, <1>d, <1>e DEF Start, Stop, csiVars
<1>9. ASSUME LoseProcess PROVE LateInv' /\ StaleEntriesExpire'
  BY <1>9, <1>d DEF LoseProcess, StaleEntriesExpire
<1>10. CASE Tick
  <2>1. \A l \in Locations : settled'[l] \in Nat /\ settled'[l] <= settled[l] + 1
    BY <1>10, <1>a DEF Tick, CSITypeOK
  <2>2. UNCHANGED <<kv, pc, request, next, read>>
    BY <1>10 DEF Tick
  <2>3. LateInv'
    <3> SUFFICES ASSUME NEW m \in Mounts, pc[m] = "store",
                        \/ read[m].version # kv[Source(m)].version
                        \/ kv[Source(m)].fields = {}
                 PROVE  settled'[Source(m)] <= late'[m]
      BY <2>2 DEF LateInv, Source, Object
    <3>1. settled[Source(m)] <= late[m]
      BY DEF LateInv
    <3>2. late'[m] = late[m] + 1
      BY <1>10 DEF Tick
    <3>3. Source(m) \in Locations
      BY ObjectFacts DEF IndexInv
    <3> QED
      BY <1>a, <2>1, <3>1, <3>2, <3>3
  <2>4. ASSUME NEW k \in Keys, cache'[k] # NoEntry, Stale(cache'[k].secret)
        PROVE  settled'[cache'[k].secret.of.location] + cache'[k].left <= Horizon
    <3>1. cache'[k] = Aged(cache[k])
      BY <1>10 DEF Tick
    <3>2. /\ cache[k] \in Entries /\ cache[k].left # 0
          /\ cache'[k].secret = cache[k].secret /\ cache'[k].left = cache[k].left - 1
      BY <1>b, <1>c, <2>4, <3>1 DEF Aged, Entries
    <3>3. settled[cache[k].secret.of.location] + cache[k].left <= Horizon
      BY <1>b, <2>4, <3>2 DEF StaleEntriesExpire
    <3> DEFINE l == cache[k].secret.of.location
    <3>4. l \in Locations /\ cache[k].left \in 0..TTL /\ cache'[k].secret.of.location = l
      BY <1>b, <3>2
    <3>5. settled[l] \in Nat /\ settled'[l] \in Nat /\ settled'[l] <= settled[l] + 1
      BY <1>a, <2>1, <3>4
    <3>6. settled[l] + cache[k].left <= Horizon
      BY <3>3
    <3> HIDE DEF l
    <3> QED
      BY <1>a, <3>2, <3>4, <3>5, <3>6
  <2>5. StaleEntriesExpire'
    BY <2>2, <2>4 DEF StaleEntriesExpire, Stale
  <2> QED
    BY <2>3, <2>5
<1>11. ASSUME NEW c \in Locations, SecretChanges(c) PROVE LateInv' /\ StaleEntriesExpire'
  <2>1. /\ settled' = [settled EXCEPT ![c] = 0]
        /\ \A l \in Locations \ {c} : kv'[l] = kv[l]
        /\ UNCHANGED <<cache, pc, request, next, read, late>>
    BY <1>11 DEF SecretChanges, CSITypeOK
  <2>2. \A l \in Locations \ {c} : settled'[l] = settled[l]
    BY <2>1 DEF CSITypeOK
  <2>3. settled'[c] = 0
    BY <2>1 DEF CSITypeOK
  <2>4. LateInv'
    <3> SUFFICES ASSUME NEW m \in Mounts, pc[m] = "store",
                        \/ read[m].version # kv'[Source(m)].version
                        \/ kv'[Source(m)].fields = {}
                 PROVE  settled'[Source(m)] <= late[m]
      BY <2>1 DEF LateInv, Source, Object
    <3>1. Source(m) \in Locations
      BY ObjectFacts DEF IndexInv
    <3> QED
      BY <1>a, <2>1, <2>2, <2>3, <3>1 DEF LateInv
  <2>5. ASSUME NEW k \in Keys, cache[k] # NoEntry,
               \/ cache[k].secret.version # kv'[cache[k].secret.of.location].version
               \/ kv'[cache[k].secret.of.location].fields = {}
        PROVE  settled'[cache[k].secret.of.location] + cache[k].left <= Horizon
    <3>1. cache[k].secret.of.location \in Locations /\ cache[k].left \in 0..TTL
      BY <1>b, <1>c, <2>5
    <3>2. CASE cache[k].secret.of.location = c
      BY <1>a, <2>3, <3>1, <3>2
    <3>3. CASE cache[k].secret.of.location # c
      BY <2>1, <2>2, <2>5, <3>1, <3>3 DEF StaleEntriesExpire, Stale
    <3> QED
      BY <3>2, <3>3
  <2>6. StaleEntriesExpire'
    BY <2>1, <2>5 DEF StaleEntriesExpire, Stale
  <2> QED
    BY <2>4, <2>6
<1> QED
  BY <1>1, <1>2, <1>3, <1>4, <1>5, <1>6, <1>7, <1>8, <1>9, <1>10, <1>11
     DEF CSINext, MountStep, Stopped, Crash

\* Nothing is stale at the start.
LEMMA AgeStarts == CSIInit => LateInv /\ StaleEntriesExpire
BY DEF CSIInit, LateInv, StaleEntriesExpire

\* The bounds on ages always hold.
LEMMA AgeInvariant == CSISpec => [](CSITypeOK /\ IndexInv /\ LateInv /\ StaleEntriesExpire)
BY CSIStarts, CSITypes, AgeStarts, AgeStep, PTL DEF CSISpec

\* A stale copy is gone from the cache after TTL and one timeout, for any number of
\* mounts that store what they were answered in any order.
THEOREM StaleEntriesAlwaysExpire == CSISpec => []StaleEntriesExpire
BY AgeInvariant, PTL

\* What a mount delivers was current, or in the cache, less than that long ago.
LEMMA DeliveryIsFresh ==
    ASSUME CSITypeOK, IndexInv, LateInv, StaleEntriesExpire, [CSINext]_csiVars,
           NEW n \in Mounts, Len(got'[n]) > Len(got[n])
    PROVE  LET secret == got'[n][Len(got'[n])] IN
           Stale(secret) => settled[secret.of.location] <= Horizon
<1> USE CSIAssumption DEF mountVars
<1>a. /\ got[n] \in Seq(Files) /\ Len(got[n]) \in Nat /\ Len(<<>>) = 0
      /\ got \in [Mounts -> Seq(Files)]
      /\ Horizon = TTL + Timeout /\ TTL \in Nat /\ Timeout \in Nat
  BY DEF CSITypeOK, Horizon
<1>b. ASSUME got' = got PROVE FALSE
  BY <1>a, <1>b
<1>c. ASSUME got' = [m \in Mounts |-> <<>>] \/ \E m \in Mounts : got' = [got EXCEPT ![m] = <<>>]
      PROVE  FALSE
  BY <1>a, <1>c
<1>d. ASSUME NEW m \in Mounts, NEW secret \in Files, Deliver(m, secret)
      PROVE  m = n /\ got'[n][Len(got'[n])] = secret
  <2>1. got' = [got EXCEPT ![m] = Append(got[m], secret)]
    BY <1>d DEF Deliver
  <2>2. m = n
    BY <1>a, <2>1
  <2>3. got'[n] = Append(got[n], secret)
    BY <1>a, <2>1, <2>2
  <2> QED
    BY <1>a, <2>2, <2>3
<1>1. ASSUME NEW m \in Mounts, Hit(m)
      PROVE  LET secret == got'[n][Len(got'[n])] IN
             Stale(secret) => settled[secret.of.location] <= Horizon
  <2> DEFINE k == CacheKey(Object(m))  secret == cache[k].secret
  <2>1. k \in Keys
    BY <1>1, ObjectFacts DEF Hit
  <2>2. cache[k] \in Entries /\ cache[k] # NoEntry /\ Deliver(m, secret)
    BY <1>1, <2>1 DEF Hit, CSITypeOK
  <2>3. secret \in Files /\ cache[k].left \in 0..TTL
    BY <2>2 DEF Entries
  <2>4. got'[n][Len(got'[n])] = secret
    BY <1>d, <2>2, <2>3
  <2>5. Stale(secret) => settled[secret.of.location] + cache[k].left <= Horizon
    BY <2>1, <2>2 DEF StaleEntriesExpire
  <2>6. settled[secret.of.location] \in Nat
    BY <2>3, FilesAreLocated DEF CSITypeOK, Horizon
  <2>7. Stale(secret) => settled[secret.of.location] <= Horizon
    <3> HIDE DEF secret, k
    <3> QED
      BY <1>a, <2>3, <2>5, <2>6
  <2> QED
    BY <2>4, <2>7
<1>2. ASSUME NEW m \in Mounts, Store(m)
      PROVE  LET secret == got'[n][Len(got'[n])] IN
             Stale(secret) => settled[secret.of.location] <= Horizon
  <2> DEFINE l == Source(m)  secret == Fetched(request[m], Object(m), read[m])
  <2>1. secret \in Files /\ l \in Locations /\ pc[m] = "store" /\ Deliver(m, secret)
    BY <1>2, ObjectFacts DEF Store, IndexInv, CSITypeOK
  <2>2. got'[n][Len(got'[n])] = secret
    BY <1>d, <2>1
  <2>3. secret.version = read[m].version /\ secret.of.location = l
    BY DEF Fetched, Wanted, Source
  <2>4. read[m].version # kv[l].version \/ kv[l].fields = {} => settled[l] <= late[m]
    BY <2>1 DEF LateInv
  <2>5. late[m] \in 0..Timeout /\ settled[l] \in Nat
    BY <1>a, <2>1 DEF CSITypeOK
  <2>6. Stale(secret) => read[m].version # kv[l].version \/ kv[l].fields = {}
    BY <2>3 DEF Stale
  <2>7. Stale(secret) => settled[secret.of.location] <= Horizon
    <3> HIDE DEF secret, l
    <3> QED
      BY <1>a, <2>3, <2>4, <2>5, <2>6
  <2> QED
    BY <2>2, <2>7
<1>3. ASSUME NEW m \in Mounts,
             \/ LoggedIn(m) \/ Denied(m) \/ Miss(m) \/ Respond(m)
             \/ RequestFails(m) \/ NotExtractable(m) \/ Answer(m) \/ Reply(m)
      PROVE  FALSE
  BY <1>3, <1>b, <1>c DEF LoggedIn, Denied, Miss, Respond, RequestFails, Skip,
       NotExtractable, Answer, Reply, Return
<1>4. ASSUME NEW m \in Mounts, NEW r \in Requests, Mount(m, r) PROVE FALSE
  BY <1>4, <1>b, <1>c DEF Mount, Return
<1>5. ASSUME Start \/ Stop \/ Tick \/ (\E l \in Volatile : SecretChanges(l)) \/ UNCHANGED csiVars
      PROVE  FALSE
  BY <1>5, <1>b DEF Start, Stop, Tick, SecretChanges, csiVars
<1>6. ASSUME LoseProcess PROVE FALSE
  BY <1>6, <1>c DEF LoseProcess
<1> QED
  BY <1>1, <1>2, <1>3, <1>4, <1>5, <1>6 DEF CSINext, MountStep, Stopped, Crash

\* No mount is given a secret that was replaced or deleted longer ago than that.
THEOREM DeliveredFilesAreFresh == CSISpec => FilesAreFresh
<1>1. CSITypeOK /\ IndexInv /\ LateInv /\ StaleEntriesExpire /\ [CSINext]_csiVars =>
          [\A m \in Mounts : Len(got'[m]) > Len(got[m]) =>
               LET secret == got'[m][Len(got'[m])] IN
               Stale(secret) => settled[secret.of.location] <= Horizon]_csiVars
  BY DeliveryIsFresh
<1> QED
  BY <1>1, AgeInvariant, PTL DEF CSISpec, FilesAreFresh

-----------------------------------------------------------------------------
\* An entry of the cache was fetched for an object with its key.
CacheInv ==
    \A k \in Keys : cache[k] # NoEntry =>
        \E r \in Requests : \E o \in ObjectsOf(r) :
            CacheKey(o) = k /\ cache[k].secret.of = Wanted(r, o)

\* While nothing has failed, mount m has what it asked for up to the object it is at.
Gathered(m) ==
    /\ pc[m] = "return" <=> answer[m] # NoAnswer
    /\ pc[m] \in {"fetch", "send", "store"} =>
          /\ next[m] <= Len(request[m].objects) + 1
          /\ ~failed[m] =>
                /\ Len(got[m]) = next[m] - 1
                /\ \A i \in 1..Len(got[m]) : AsAsked(got[m][i], request[m], request[m].objects[i])

\* What AllOrNothing says of one mount.
Complete(m) ==
    /\ answer[m].code # "OK" => answer[m].files = <<>>
    /\ answer[m].code = "OK" =>
         /\ Len(answer[m].files) = Len(request[m].objects)
         /\ \A i \in DOMAIN answer[m].files :
                AsAsked(answer[m].files[i], request[m], request[m].objects[i])

GatherInv == CacheInv /\ \A m \in Mounts : Gathered(m) /\ Complete(m)

\* An entry that was fetched for one object serves every object with its key.
LEMMA EntriesAreAsAsked ==
    ASSUME NEW r \in Requests, NEW o \in ObjectsOf(r), NEW q \in Requests,
           NEW p \in ObjectsOf(q), CacheKey(p) = CacheKey(o), NEW file,
           file.of = Wanted(q, p)
    PROVE  AsAsked(file, r, o)
<1> DEFINE joined(x) == x.path \o <<":">> \o x.key \o <<":">> \o x.name
           shared(x) == {Wanted(x, y) : y \in {z \in ObjectsOf(x) : joined(z) = joined(o)}}
<1>1. joined(p) = joined(o)
  BY DEF CacheKey, Colon
<1>2. o \in Objects
  BY DEF Objects
<1>3. Sharing[o] = UNION {shared(x) : x \in Requests}
  BY <1>2 DEF Sharing
<1>4. Wanted(q, p) \in shared(q)
  BY <1>1
<1> HIDE DEF shared
<1>5. file.of \in Sharing[o]
  BY <1>3, <1>4
<1> QED
  BY <1>5 DEF AsAsked

\* So a hit is as it was asked for.
LEMMA HitsFit ==
    ASSUME CSITypeOK, CacheInv, NEW m \in Mounts, Hit(m)
    PROVE  AsAsked(cache[CacheKey(Object(m))].secret, request[m], Object(m))
<1>1. /\ request[m] \in Requests /\ Object(m) \in ObjectsOf(request[m])
      /\ CacheKey(Object(m)) \in Keys
  BY ObjectFacts DEF Hit
<1>2. PICK r \in Requests : \E p \in ObjectsOf(r) :
          /\ CacheKey(p) = CacheKey(Object(m))
          /\ cache[CacheKey(Object(m))].secret.of = Wanted(r, p)
  BY <1>1 DEF Hit, CacheInv
<1> QED
  BY <1>1, <1>2, EntriesAreAsAsked

\* A mount that has got its next object as it asked for it.
LEMMA DeliverGathers ==
    ASSUME CSITypeOK, NEW m \in Mounts, Gathered(m), pc[m] \in {"fetch", "send", "store"},
           next[m] \in DOMAIN request[m].objects, NextObject(m),
           Skip(m) \/ \E secret \in Files : Deliver(m, secret) /\ AsAsked(secret, request[m], Object(m))
    PROVE  Gathered(m)'
<1>1. /\ pc' = [pc EXCEPT ![m] = "fetch"] /\ next' = [next EXCEPT ![m] = @ + 1]
      /\ UNCHANGED <<request, answer>>
  BY DEF NextObject
<1>2. pc'[m] = "fetch" /\ next'[m] = next[m] + 1 /\ next[m] \in Nat /\ answer'[m] = answer[m]
  BY <1>1 DEF CSITypeOK
<1>3. /\ request[m].objects \in Seq(Objects) /\ Len(request[m].objects) \in Nat
      /\ next[m] <= Len(request[m].objects)
  BY CSIAssumption DEF CSITypeOK
<1>4. ASSUME ~failed'[m]
      PROVE  /\ Len(got'[m]) = next[m]
             /\ \A i \in 1..Len(got'[m]) : AsAsked(got'[m][i], request[m], request[m].objects[i])
  <2>1. PICK secret \in Files : Deliver(m, secret) /\ AsAsked(secret, request[m], Object(m))
    BY <1>4 DEF Skip, CSITypeOK
  <2>2. got' = [got EXCEPT ![m] = Append(got[m], secret)] /\ ~failed[m]
    BY <1>4, <2>1 DEF Deliver
  <2>3. got[m] \in Seq(Files) /\ got'[m] = Append(got[m], secret)
    BY <2>2 DEF CSITypeOK
  <2>4. /\ Len(got[m]) = next[m] - 1
        /\ \A i \in 1..Len(got[m]) : AsAsked(got[m][i], request[m], request[m].objects[i])
    BY <2>2 DEF Gathered
  <2>5. Len(got'[m]) = next[m]
    BY <1>2, <2>3, <2>4
  <2>6. ASSUME NEW i \in 1..Len(got'[m]) PROVE AsAsked(got'[m][i], request[m], request[m].objects[i])
    <3>1. CASE i = next[m]
      <4>1. got'[m][i] = secret
        BY <1>2, <2>3, <2>4, <3>1
      <4> QED
        BY <2>1, <3>1, <4>1 DEF Object
    <3>2. CASE i # next[m]
      <4>1. i \in 1..Len(got[m]) /\ got'[m][i] = got[m][i]
        BY <1>2, <2>3, <2>4, <2>5, <3>2
      <4> QED
        BY <2>4, <4>1
    <3> QED
      BY <3>1, <3>2
  <2> QED
    BY <2>5, <2>6
<1> QED
  BY <1>1, <1>2, <1>3, <1>4 DEF Gathered

\* Every step keeps the cache and what the mounts have gathered in order.
LEMMA GatherStep ==
    CSITypeOK /\ IndexInv /\ GatherInv /\ [CSINext]_csiVars => GatherInv'
<1> USE CSIAssumption DEF mountVars
<1> SUFFICES ASSUME CSITypeOK, IndexInv, GatherInv, [CSINext]_csiVars PROVE GatherInv'
  OBVIOUS
<1>a. ASSUME NEW n \in Mounts, UNCHANGED <<pc[n], answer[n], request[n], next[n], failed[n], got[n]>>
      PROVE  Gathered(n)' /\ Complete(n)'
  BY <1>a DEF GatherInv, Gathered, Complete
<1>b. ASSUME UNCHANGED cache PROVE CacheInv'
  BY <1>b DEF GatherInv, CacheInv
<1>c. ASSUME NEW m \in Mounts, NextObject(m), pc[m] \in {"fetch", "send", "store"},
             next[m] \in DOMAIN request[m].objects, CacheInv',
             Skip(m) \/ \E secret \in Files : Deliver(m, secret) /\ AsAsked(secret, request[m], Object(m))
      PROVE  GatherInv'
  <2>1. Gathered(m)'
    BY <1>c, DeliverGathers DEF GatherInv
  <2>2. Complete(m)'
    BY <1>c DEF NextObject, GatherInv, Complete
  <2>3. ASSUME NEW n \in Mounts \ {m} PROVE Gathered(n)' /\ Complete(n)'
    <3>1. pc'[n] = pc[n] /\ next'[n] = next[n] /\ UNCHANGED <<request, answer>>
      BY <1>c DEF NextObject, CSITypeOK
    <3>2. got'[n] = got[n]
      BY <1>c DEF Deliver, Skip, CSITypeOK
    <3>3. failed'[n] = failed[n]
      BY <1>c DEF Deliver, Skip, CSITypeOK
    <3> QED
      BY <1>a, <3>1, <3>2, <3>3
  <2> QED
    BY <1>c, <2>1, <2>2, <2>3 DEF GatherInv
<1>d. ASSUME NEW m \in Mounts, NEW code, NEW files, Return(m, code, files), code # "none",
             \A n \in Mounts \ {m} : request'[n] = request[n],
             Complete(m)'
      PROVE  GatherInv'
  <2>1. /\ pc' = [pc EXCEPT ![m] = "return"]
        /\ answer' = [answer EXCEPT ![m] = [code |-> code, files |-> files]]
        /\ next' = [next EXCEPT ![m] = 1] /\ got' = [got EXCEPT ![m] = <<>>]
        /\ failed' = [failed EXCEPT ![m] = FALSE] /\ UNCHANGED cache
    BY <1>d DEF Return
  <2>2. Gathered(m)'
    <3>1. pc'[m] = "return" /\ answer'[m] = [code |-> code, files |-> files]
      BY <2>1 DEF CSITypeOK
    <3>2. [code |-> code, files |-> files].code # NoAnswer.code
      BY <1>d DEF NoAnswer
    <3>3. answer'[m] # NoAnswer
      BY <3>1, <3>2
    <3> QED
      BY <3>1, <3>3 DEF Gathered
  <2>3. ASSUME NEW n \in Mounts \ {m} PROVE Gathered(n)' /\ Complete(n)'
    <3>1. failed'[n] = failed[n]
      BY <2>1 DEF CSITypeOK
    <3>2. UNCHANGED <<pc[n], answer[n], request[n], next[n], got[n]>>
      BY <1>d, <2>1 DEF CSITypeOK
    <3> QED
      BY <1>a, <3>1, <3>2
  <2> QED
    BY <1>b, <1>d, <2>1, <2>2, <2>3 DEF GatherInv
<1>e. ASSUME NEW m \in Mounts, NEW code \in {"InvalidArgument", "PermissionDenied", "Internal"},
             Return(m, code, <<>>)
      PROVE  Complete(m)'
  <2>1. answer'[m] = [code |-> code, files |-> <<>>]
    BY <1>e DEF Return, CSITypeOK
  <2>2. answer'[m].code = code /\ answer'[m].files = <<>>
    BY <2>1
  <2> QED
    BY <2>2 DEF Complete
<1>1. ASSUME NEW m \in Mounts, LoggedIn(m) PROVE GatherInv'
  <2>1. /\ pc[m] = "login" /\ pc' = [pc EXCEPT ![m] = "fetch"]
        /\ UNCHANGED <<cache, answer, request, next, failed, got>>
    BY <1>1 DEF LoggedIn
  <2>2. request[m] \in Requests /\ Len(request[m].objects) \in Nat
    BY <2>1 DEF CSITypeOK
  <2>3. Gathered(m)' /\ Complete(m)'
    BY <2>1, <2>2 DEF GatherInv, Gathered, Complete, IndexInv, CSITypeOK
  <2>4. ASSUME NEW n \in Mounts \ {m} PROVE Gathered(n)' /\ Complete(n)'
    BY <1>a, <2>1 DEF CSITypeOK
  <2> QED
    BY <1>b, <2>1, <2>3, <2>4 DEF GatherInv
<1>2. ASSUME NEW m \in Mounts, Denied(m) PROVE GatherInv'
  BY <1>2, <1>d, <1>e DEF Denied
<1>3. ASSUME NEW m \in Mounts, Hit(m) PROVE GatherInv'
  <2>1. Object(m) \in Objects /\ CacheKey(Object(m)) \in Keys
    BY <1>3, ObjectFacts DEF Hit
  <2>2. /\ cache[CacheKey(Object(m))] # NoEntry /\ NextObject(m) /\ UNCHANGED cache
        /\ Deliver(m, cache[CacheKey(Object(m))].secret)
        /\ pc[m] = "fetch" /\ next[m] \in DOMAIN request[m].objects
    BY <1>3 DEF Hit
  <2>3. AsAsked(cache[CacheKey(Object(m))].secret, request[m], Object(m))
    BY <1>3, HitsFit DEF GatherInv
  <2>4. cache[CacheKey(Object(m))].secret \in Files
    BY <2>1, <2>2 DEF CSITypeOK, Entries
  <2> QED
    BY <1>b, <1>c, <2>2, <2>3, <2>4
<1>4. ASSUME NEW m \in Mounts, Miss(m) \/ Respond(m) PROVE GatherInv'
  <2>1. /\ UNCHANGED <<cache, answer, request, next, failed, got>>
        /\ pc[m] \in {"fetch", "send"} /\ \E x \in {"send", "store"} : pc' = [pc EXCEPT ![m] = x]
    BY <1>4 DEF Miss, Respond
  <2>2. Gathered(m)' /\ Complete(m)'
    BY <2>1 DEF GatherInv, Gathered, Complete, CSITypeOK
  <2>3. ASSUME NEW n \in Mounts \ {m} PROVE Gathered(n)' /\ Complete(n)'
    BY <1>a, <2>1 DEF CSITypeOK
  <2> QED
    BY <1>b, <2>1, <2>2, <2>3 DEF GatherInv
<1>5. ASSUME NEW m \in Mounts, RequestFails(m) \/ NotExtractable(m) PROVE GatherInv'
  BY <1>5, <1>b, <1>c DEF RequestFails, NotExtractable, IndexInv
<1>6. ASSUME NEW m \in Mounts, Store(m) PROVE GatherInv'
  <2> DEFINE o == Object(m)  secret == Fetched(request[m], o, read[m])
  <2>1. /\ pc[m] = "store" /\ NextObject(m) /\ Deliver(m, secret)
        /\ cache' = [cache EXCEPT ![CacheKey(o)] = [secret |-> secret, left |-> TTL]]
        /\ next[m] \in DOMAIN request[m].objects
    BY <1>6 DEF Store, IndexInv
  <2>2. /\ request[m] \in Requests /\ o \in ObjectsOf(request[m])
        /\ CacheKey(o) \in Keys /\ secret \in Files
    BY <2>1, ObjectFacts DEF CSITypeOK
  <2>3. AsAsked(secret, request[m], o)
    <3>1. secret.of = Wanted(request[m], o)
      BY DEF Fetched
    <3> QED
      BY <2>2, <3>1, EntriesAreAsAsked
  <2>4. CacheInv'
    <3> SUFFICES ASSUME NEW k \in Keys, cache'[k] # NoEntry
                 PROVE  \E r \in Requests : \E p \in ObjectsOf(r) :
                            CacheKey(p) = k /\ cache'[k].secret.of = Wanted(r, p)
      BY DEF CacheInv
    <3>1. CASE k = CacheKey(o)
      <4>1. cache'[k] = [secret |-> secret, left |-> TTL]
        BY <2>1, <3>1 DEF CSITypeOK
      <4>2. cache'[k].secret.of = Wanted(request[m], o)
        BY <4>1 DEF Fetched
      <4> QED
        BY <2>2, <3>1, <4>2
    <3>2. CASE k # CacheKey(o)
      <4>1. cache'[k] = cache[k]
        BY <2>1, <3>2 DEF CSITypeOK
      <4> QED
        BY <4>1 DEF GatherInv, CacheInv
    <3> QED
      BY <3>1, <3>2
  <2> QED
    BY <1>c, <2>1, <2>2, <2>3, <2>4
<1>7. ASSUME NEW m \in Mounts, Answer(m) PROVE GatherInv'
  <2>1. pc[m] = "fetch" /\ next[m] > Len(request[m].objects) /\ UNCHANGED request
    BY <1>7 DEF Answer
  <2>2. CASE failed[m]
    BY <1>7, <1>d, <1>e, <2>1, <2>2 DEF Answer
  <2>3. CASE ~failed[m]
    <3>1. Return(m, "OK", got[m])
      BY <1>7, <2>3 DEF Answer
    <3>2. answer'[m] = [code |-> "OK", files |-> got[m]]
      BY <3>1 DEF Return, CSITypeOK
    <3>3. got[m] \in Seq(Files) /\ Len(request[m].objects) \in Nat /\ next[m] \in Nat
      BY <2>1 DEF CSITypeOK
    <3>4. /\ Len(got[m]) = Len(request[m].objects)
          /\ \A i \in 1..Len(got[m]) : AsAsked(got[m][i], request[m], request[m].objects[i])
      BY <2>1, <2>3, <3>3 DEF GatherInv, Gathered
    <3>5. answer'[m].code = "OK" /\ answer'[m].files = got[m]
      BY <3>2
    <3>6. Complete(m)'
      BY <2>1, <3>3, <3>4, <3>5 DEF Complete
    <3> QED
      BY <1>d, <2>1, <3>1, <3>6
  <2> QED
    BY <2>2, <2>3
<1>8. ASSUME NEW m \in Mounts, Reply(m) PROVE GatherInv'
  <2>1. /\ pc' = [pc EXCEPT ![m] = "idle"] /\ request' = [request EXCEPT ![m] = NoRequest]
        /\ answer' = [answer EXCEPT ![m] = NoAnswer] /\ UNCHANGED <<cache, next, got, failed>>
    BY <1>8 DEF Reply
  <2>2. Gathered(m)' /\ Complete(m)'
    BY <2>1 DEF CSITypeOK, Gathered, Complete, NoAnswer
  <2>3. ASSUME NEW n \in Mounts \ {m} PROVE Gathered(n)' /\ Complete(n)'
    BY <1>a, <2>1 DEF CSITypeOK
  <2> QED
    BY <1>b, <2>1, <2>2, <2>3 DEF GatherInv
<1>9. ASSUME NEW m \in Mounts, NEW r \in Requests, Mount(m, r) PROVE GatherInv'
  <2>1. pc[m] = "idle" /\ request' = [request EXCEPT ![m] = r]
    BY <1>9 DEF Mount
  <2>2. CASE pc' = [pc EXCEPT ![m] = "login"]
             /\ UNCHANGED <<kv, settled, phase, cache, next, got, failed, read, late, answer>>
    <3>1. Gathered(m)' /\ Complete(m)'
      BY <2>1, <2>2 DEF CSITypeOK, GatherInv, Gathered, Complete, NoAnswer
    <3>2. ASSUME NEW n \in Mounts \ {m} PROVE Gathered(n)' /\ Complete(n)'
      BY <1>a, <2>1, <2>2 DEF CSITypeOK
    <3> QED
      BY <1>b, <2>2, <3>1, <3>2 DEF GatherInv
  <2>3. CASE Return(m, "InvalidArgument", <<>>)
    BY <1>d, <1>e, <2>1, <2>3 DEF CSITypeOK
  <2> QED
    BY <1>9, <2>2, <2>3 DEF Mount
<1>10. CASE Start \/ Stop \/ (\E l \in Volatile : SecretChanges(l)) \/ UNCHANGED csiVars
  <2>1. UNCHANGED <<pc, answer, request, next, failed, got, cache>>
    BY <1>10 DEF Start, Stop, SecretChanges, csiVars
  <2> QED
    BY <1>a, <1>b, <2>1 DEF GatherInv
<1>11. CASE Tick
  <2>1. UNCHANGED <<pc, answer, request, next, failed, got>>
    BY <1>11 DEF Tick
  <2>2. CacheInv'
    <3> SUFFICES ASSUME NEW k \in Keys, cache'[k] # NoEntry
                 PROVE  cache[k] # NoEntry /\ cache'[k].secret = cache[k].secret
      BY DEF CacheInv, GatherInv
    <3>1. cache'[k] = Aged(cache[k]) /\ cache[k] \in Entries \cup {NoEntry}
      BY <1>11 DEF Tick, CSITypeOK
    <3> QED
      BY <3>1 DEF Aged, Entries
  <2> QED
    BY <1>a, <2>1, <2>2 DEF GatherInv
<1>12. ASSUME LoseProcess PROVE GatherInv'
  <2>1. /\ cache' = [k \in Keys |-> NoEntry] /\ pc' = [m \in Mounts |-> "idle"]
        /\ answer' = [m \in Mounts |-> NoAnswer]
    BY <1>12 DEF LoseProcess
  <2> QED
    BY <2>1 DEF GatherInv, CacheInv, Gathered, Complete, NoAnswer
<1> QED
  BY <1>1, <1>2, <1>3, <1>4, <1>5, <1>6, <1>7, <1>8, <1>9, <1>10, <1>11, <1>12
     DEF CSINext, MountStep, Stopped, Crash

\* What the cache and the mounts hold is in order at all times.
LEMMA GatherInvariant == CSISpec => []GatherInv
<1>1. CSIInit => GatherInv
  BY DEF CSIInit, GatherInv, CacheInv, Gathered, Complete, NoAnswer
<1> QED
  BY <1>1, CSIStarts, CSITypes, GatherStep, PTL DEF CSISpec

\* A mount that succeeds has every object it asked for, in order and as asked for, for
\* any number of mounts that fill one cache; one that fails delivers nothing.
THEOREM MountsDeliverAllOrNothing == CSISpec => []AllOrNothing
<1>1. GatherInv => AllOrNothing
  BY DEF GatherInv, Complete, AllOrNothing
<1> QED
  BY <1>1, GatherInvariant, PTL

-----------------------------------------------------------------------------
promised == <<kv, settled, request, Picked, answer>>

\* A mount under way has a request and no answer.
LEMMA UnderwayMounts ==
    ASSUME CSITypeOK, GatherInv, NEW m \in Mounts, pc[m] \in {"login", "fetch", "send", "store"}
    PROVE  Promise!Underway(m) /\ request[m] \in Requests
<1>1. request[m] \in Requests /\ request[m] # NoRequest
  BY DEF CSITypeOK
<1>2. answer[m] = NoAnswer
  BY DEF GatherInv, Gathered
<1> QED
  BY <1>1, <1>2 DEF Promise!Underway, Promise!Pending, NoAnswer

\* A file that fits the next object and is fresh is a step of SecretMounts, or, once
\* an object has failed, none.
LEMMA DeliverPicks ==
    ASSUME CSITypeOK, GatherInv, NEW m \in Mounts, pc[m] \in {"fetch", "send", "store"},
           next[m] \in DOMAIN request[m].objects, NextObject(m),
           NEW secret \in Files, Deliver(m, secret), AsAsked(secret, request[m], Object(m)),
           Stale(secret) => settled[secret.of.location] <= Horizon
    PROVE  Promise!Pick(m) \/ UNCHANGED promised
<1>1. /\ UNCHANGED <<kv, settled, request, answer, failed>>
      /\ got' = [got EXCEPT ![m] = Append(@, secret)]
  BY DEF NextObject, Deliver
<1>2. got \in [Mounts -> Seq(Files)] /\ next[m] \in Nat /\ request[m] \in Requests
  BY UnderwayMounts DEF CSITypeOK
<1>3. CASE failed[m]
  <2>1. \A n \in Mounts : (IF failed'[n] THEN <<>> ELSE got'[n]) = IF failed[n] THEN <<>> ELSE got[n]
    BY <1>1, <1>2, <1>3
  <2>2. Picked' = Picked
    BY <2>1 DEF Picked
  <2> QED
    BY <1>1, <2>2 DEF promised
<1>4. CASE ~failed[m]
  <2>1. Picked[m] = got[m] /\ Picked' = [Picked EXCEPT ![m] = Append(@, secret)]
    <3>1. Picked[m] = got[m] /\ got'[m] = Append(got[m], secret) /\ ~failed'[m]
      BY <1>1, <1>2, <1>4 DEF Picked
    <3>2. \A n \in Mounts \ {m} : got'[n] = got[n] /\ failed'[n] = failed[n]
      BY <1>1, <1>2
    <3>3. \A n \in Mounts : Picked'[n] = IF n = m THEN Append(Picked[m], secret) ELSE Picked[n]
      BY <3>1, <3>2 DEF Picked
    <3>4. Picked' = [n \in Mounts |-> Picked'[n]]
      BY DEF Picked
    <3>5. Picked = [n \in Mounts |-> Picked[n]]
      BY DEF Picked
    <3> HIDE DEF Picked
    <3> QED
      BY <3>1, <3>3, <3>4, <3>5
  <2>2. Len(got[m]) = next[m] - 1 /\ request[m].objects \in Seq(Objects)
    BY <1>2, <1>4, CSIAssumption DEF GatherInv, Gathered
  <2>3. Len(Picked[m]) + 1 = next[m] /\ Len(Picked[m]) < Len(request[m].objects)
    BY <1>2, <2>1, <2>2
  <2>4. request[m].objects[Len(Picked[m]) + 1] = Object(m) /\ Object(m) \in Objects
    BY <2>2, <2>3 DEF Object
  <2>5. <<secret, request[m], Object(m)>> \in Fitting
    BY <1>2, <2>4 DEF Fitting
  <2>6. Promise!Stale(secret) => settled[secret.of.location] <= Horizon
    BY DEF Promise!Stale, Stale
  <2>7. Promise!Underway(m)
    BY UnderwayMounts
  <2>8. Promise!Pick(m)
    BY <1>1, <2>1, <2>3, <2>4, <2>5, <2>6, <2>7 DEF Promise!Pick
  <2> QED
    BY <2>8
<1> QED
  BY <1>3, <1>4

\* Every step is one of SecretMounts, or changes nothing that it has.
LEMMA MountsSimulate ==
    /\ CSITypeOK /\ IndexInv /\ LateInv /\ StaleEntriesExpire /\ GatherInv
    /\ [CSINext]_csiVars
    => Promise!Next \/ UNCHANGED promised
<1> USE CSIAssumption DEF mountVars
<1> SUFFICES ASSUME CSITypeOK, IndexInv, LateInv, StaleEntriesExpire, GatherInv,
                    [CSINext]_csiVars
             PROVE  Promise!Next \/ UNCHANGED promised
  OBVIOUS
<1>a. got \in [Mounts -> Seq(Files)] /\ failed \in [Mounts -> BOOLEAN]
  BY DEF CSITypeOK
<1>b. ASSUME UNCHANGED <<kv, settled, request, failed, got, answer>> PROVE UNCHANGED promised
  BY <1>b DEF promised, Picked
\* Mount m has nothing left of what it picked.
<1>c. ASSUME NEW m \in Mounts,
             \/ got' = [got EXCEPT ![m] = <<>>] /\ failed' = [failed EXCEPT ![m] = FALSE]
             \/ got' = got /\ failed' = [failed EXCEPT ![m] = TRUE]
      PROVE  Picked' = [Picked EXCEPT ![m] = <<>>]
  <2>1. \A n \in Mounts \ {m} : got'[n] = got[n] /\ failed'[n] = failed[n]
    BY <1>a, <1>c
  <2>2. failed'[m] \/ got'[m] = <<>>
    BY <1>a, <1>c
  <2>3. \A n \in Mounts : Picked'[n] = IF n = m THEN <<>> ELSE Picked[n]
    BY <2>1, <2>2 DEF Picked
  <2>4. Picked' = [n \in Mounts |-> Picked'[n]]
    BY DEF Picked
  <2>5. Picked = [n \in Mounts |-> Picked[n]]
    BY DEF Picked
  <2> HIDE DEF Picked
  <2> QED
    BY <2>3, <2>4, <2>5
<1>d. ASSUME NEW m \in Mounts, NEW code, NEW files, Return(m, code, files)
      PROVE  /\ Picked' = [Picked EXCEPT ![m] = <<>>] /\ UNCHANGED <<kv, settled>>
             /\ answer' = [answer EXCEPT ![m] = [code |-> code, files |-> files]]
  BY <1>c, <1>d DEF Return
<1>e. ASSUME NEW m \in Mounts, pc[m] \in {"login", "fetch"}, UNCHANGED request,
             NEW code \in {"PermissionDenied", "Internal"}, Return(m, code, <<>>)
      PROVE  Promise!Next
  <2>1. [code |-> code, files |-> <<>>] \in Promise!Failures
    BY DEF Promise!Failures
  <2>2. Promise!Fail(m)
    BY <1>d, <1>e, <2>1, UnderwayMounts DEF Promise!Fail
  <2> QED
    BY <2>2 DEF Promise!Next
<1>f. ASSUME NEW m \in Mounts, NEW secret \in Files, Deliver(m, secret)
      PROVE  Stale(secret) => settled[secret.of.location] <= Horizon
  <2>1. got'[m] = Append(got[m], secret) /\ got[m] \in Seq(Files)
    BY <1>a, <1>f DEF Deliver
  <2>2. Len(got'[m]) > Len(got[m]) /\ got'[m][Len(got'[m])] = secret
    BY <2>1
  <2> QED
    BY <2>2, DeliveryIsFresh
<1>1. ASSUME NEW m \in Mounts, LoggedIn(m) \/ Miss(m) \/ Respond(m) PROVE UNCHANGED promised
  BY <1>1, <1>b DEF LoggedIn, Miss, Respond
<1>2. ASSUME NEW m \in Mounts, Denied(m) PROVE Promise!Next
  BY <1>2, <1>e DEF Denied
<1>3. ASSUME NEW m \in Mounts, Hit(m) PROVE Promise!Next \/ UNCHANGED promised
  <2> DEFINE secret == cache[CacheKey(Object(m))].secret
  <2>1. /\ pc[m] = "fetch" /\ next[m] \in DOMAIN request[m].objects /\ NextObject(m)
        /\ Deliver(m, secret) /\ cache[CacheKey(Object(m))] # NoEntry
    BY <1>3 DEF Hit
  <2>2. secret \in Files
    BY <2>1, ObjectFacts DEF CSITypeOK, Entries
  <2>3. AsAsked(secret, request[m], Object(m))
    BY <1>3, HitsFit DEF GatherInv
  <2>4. Stale(secret) => settled[secret.of.location] <= Horizon
    BY <1>f, <2>1, <2>2
  <2> HIDE DEF secret
  <2>5. Promise!Pick(m) \/ UNCHANGED promised
    BY <2>1, <2>2, <2>3, <2>4, DeliverPicks
  <2> QED
    BY <2>5 DEF Promise!Next
<1>4. ASSUME NEW m \in Mounts, Store(m) PROVE Promise!Next \/ UNCHANGED promised
  <2> DEFINE secret == Fetched(request[m], Object(m), read[m])
  <2>1. /\ pc[m] = "store" /\ next[m] \in DOMAIN request[m].objects /\ NextObject(m)
        /\ Deliver(m, secret)
    BY <1>4 DEF Store, IndexInv
  <2>2. /\ secret \in Files /\ request[m] \in Requests
        /\ Object(m) \in ObjectsOf(request[m])
    BY <2>1, ObjectFacts DEF CSITypeOK
  <2>3. AsAsked(secret, request[m], Object(m))
    <3>1. secret.of = Wanted(request[m], Object(m))
      BY DEF Fetched
    <3> QED
      BY <2>2, <3>1, EntriesAreAsAsked
  <2>4. Stale(secret) => settled[secret.of.location] <= Horizon
    BY <1>f, <2>1, <2>2
  <2> HIDE DEF secret
  <2>5. Promise!Pick(m) \/ UNCHANGED promised
    BY <2>1, <2>2, <2>3, <2>4, DeliverPicks
  <2> QED
    BY <2>5 DEF Promise!Next
<1>5. ASSUME NEW m \in Mounts, RequestFails(m) \/ NotExtractable(m) PROVE Promise!Next
  <2>1. /\ pc[m] \in {"send", "store"} /\ Skip(m) /\ NextObject(m)
    BY <1>5 DEF RequestFails, NotExtractable
  <2>2. Picked' = [Picked EXCEPT ![m] = <<>>]
    BY <1>c, <2>1 DEF Skip
  <2>3. Promise!Drop(m)
    BY <2>1, <2>2, UnderwayMounts DEF Promise!Drop, NextObject
  <2> QED
    BY <2>3 DEF Promise!Next
<1>6. ASSUME NEW m \in Mounts, Answer(m) PROVE Promise!Next
  <2>1. pc[m] = "fetch" /\ next[m] > Len(request[m].objects) /\ UNCHANGED request
    BY <1>6 DEF Answer
  <2>2. CASE failed[m]
    BY <1>6, <1>e, <2>1, <2>2 DEF Answer
  <2>3. CASE ~failed[m]
    <3>1. Return(m, "OK", got[m]) /\ Picked[m] = got[m]
      BY <1>6, <2>3 DEF Answer, Picked
    <3>2. request[m].objects \in Seq(Objects) /\ next[m] \in Nat
      BY <2>1, UnderwayMounts DEF CSITypeOK
    <3>3. Len(Picked[m]) = Len(request[m].objects)
      BY <2>1, <2>3, <3>1, <3>2 DEF GatherInv, Gathered
    <3>4. Promise!Succeed(m)
      BY <1>d, <2>1, <3>1, <3>3, UnderwayMounts DEF Promise!Succeed
    <3> QED
      BY <3>4 DEF Promise!Next
  <2> QED
    BY <2>2, <2>3
<1>7. ASSUME NEW m \in Mounts, Reply(m) PROVE Promise!Next \/ UNCHANGED promised
  <2>1. /\ pc[m] = "return" /\ request' = [request EXCEPT ![m] = NoRequest]
        /\ answer' = [answer EXCEPT ![m] = NoAnswer] /\ UNCHANGED <<kv, settled, got, failed>>
    BY <1>7 DEF Reply
  <2>2. answer[m] # NoAnswer
    BY <2>1 DEF GatherInv, Gathered
  <2>3. Picked' = Picked
    BY <2>1 DEF Picked
  <2>4. Promise!Reply(m)
    BY <2>1, <2>2, <2>3 DEF Promise!Reply, Promise!Pending, NoAnswer
  <2> QED
    BY <2>4 DEF Promise!Next
<1>8. ASSUME NEW m \in Mounts, NEW r \in Requests, Mount(m, r) PROVE Promise!Next
  <2>1. request[m] = NoRequest /\ request' = [request EXCEPT ![m] = r]
    BY <1>8 DEF Mount, CSITypeOK
  <2>2. /\ UNCHANGED <<kv, settled, Picked>>
        /\ \E a \in Promise!Failures \cup {Promise!Pending} : answer' = [answer EXCEPT ![m] = a]
    <3>1. CASE UNCHANGED <<kv, settled, got, failed, answer>>
      <4>1. answer' = [answer EXCEPT ![m] = NoAnswer]
        BY <1>8, <3>1 DEF Mount, GatherInv, Gathered, CSITypeOK
      <4> QED
        BY <3>1, <4>1 DEF Picked, Promise!Pending, NoAnswer
    <3>2. CASE Return(m, "InvalidArgument", <<>>)
      <4>1. [code |-> "InvalidArgument", files |-> <<>>] \in Promise!Failures
        BY DEF Promise!Failures
      <4>2. Picked[m] = <<>> /\ DOMAIN Picked = Mounts
        BY <1>8 DEF Mount, IndexInv, Picked
      <4>3. Picked = [n \in Mounts |-> Picked[n]]
        BY DEF Picked
      <4>4. [Picked EXCEPT ![m] = <<>>] = Picked
        BY <4>2, <4>3
      <4> QED
        BY <1>d, <3>2, <4>1, <4>4
    <3> QED
      BY <1>8, <3>1, <3>2 DEF Mount
  <2>3. Promise!Ask(m, r)
    BY <2>1, <2>2 DEF Promise!Ask
  <2> QED
    BY <1>8, <2>3 DEF Promise!Next
<1>9. CASE Start \/ Stop \/ UNCHANGED csiVars
  BY <1>9, <1>b DEF Start, Stop, csiVars
<1>10. ASSUME LoseProcess PROVE Promise!Next
  <2>1. /\ request' = [m \in Mounts |-> NoRequest] /\ answer' = [m \in Mounts |-> NoAnswer]
        /\ got' = [m \in Mounts |-> <<>>] /\ UNCHANGED <<kv, settled>>
    BY <1>10 DEF LoseProcess
  <2>2. Picked' = [m \in Mounts |-> <<>>]
    BY <2>1 DEF Picked
  <2> QED
    BY <2>1, <2>2 DEF Promise!Next, Promise!Lose, Promise!Pending, NoAnswer
<1>11. CASE Tick
  <2>1. Picked' = Picked
    BY <1>11 DEF Tick, Picked
  <2>2. Promise!Tick
    BY <1>11, <2>1 DEF Tick, Promise!Tick
  <2> QED
    BY <2>2 DEF Promise!Next
<1>12. ASSUME NEW l \in Locations, SecretChanges(l) PROVE Promise!Next
  <2>1. kv \in [Locations -> Secrets] /\ kv[l] \in Secrets /\ kv[l].version \in Nat
    BY DEF CSITypeOK, Secrets
  <2>2. UNCHANGED <<request, Picked, answer>> /\ settled' = [settled EXCEPT ![l] = 0]
    BY <1>12 DEF SecretChanges, Picked
  <2>3. \E s \in Secrets : s.version >= kv[l].version /\ kv' = [kv EXCEPT ![l] = s]
    <3>1. CASE kv[l].version < MaxVersion /\ \E fields \in SUBSET Fields \ {{}} :
                  kv' = [kv EXCEPT ![l] = [version |-> @.version + 1, fields |-> fields]]
      <4>1. PICK fields \in SUBSET Fields :
                kv' = [kv EXCEPT ![l] = [version |-> kv[l].version + 1, fields |-> fields]]
        BY <2>1, <3>1
      <4> DEFINE s == [version |-> kv[l].version + 1, fields |-> fields]
      <4>2. s \in Secrets /\ s.version >= kv[l].version
        BY <2>1, <3>1 DEF Secrets
      <4> HIDE DEF s
      <4> QED
        BY <4>1, <4>2, Zenon DEF s
    <3>2. CASE kv' = [kv EXCEPT ![l].fields = {}]
      <4> DEFINE s == [kv[l] EXCEPT !.fields = {}]
      <4>1. s \in Secrets /\ s.version = kv[l].version
        BY <2>1 DEF Secrets
      <4>2. s.version >= kv[l].version
        BY <2>1, <4>1
      <4>3. kv' = [kv EXCEPT ![l] = s]
        BY <3>2
      <4> HIDE DEF s
      <4> QED
        BY <4>1, <4>2, <4>3, Zenon
    <3> QED
      BY <1>12, <3>1, <3>2 DEF SecretChanges
  <2>4. Promise!SecretChanges
    BY <2>2, <2>3 DEF Promise!SecretChanges
  <2> QED
    BY <2>4 DEF Promise!Next
<1> QED
  BY <1>1, <1>2, <1>3, <1>4, <1>5, <1>6, <1>7, <1>8, <1>9, <1>10, <1>11, <1>12
     DEF CSINext, MountStep, Stopped, Crash

\* The provider implements SecretMounts.
THEOREM MountsKeepThePromise == CSISpec => ImplementsSecretMounts
<1>1. CSIInit => Promise!Init
  BY CSIAssumption DEF CSIInit, Promise!Init, Promise!Pending, Picked, NoAnswer
<1>2. /\ CSITypeOK /\ IndexInv /\ LateInv /\ StaleEntriesExpire /\ GatherInv
      /\ [CSINext]_csiVars
      => [Promise!Next]_promised
  BY MountsSimulate
<1> QED
  BY <1>1, <1>2, AgeInvariant, GatherInvariant, PTL
     DEF CSISpec, ImplementsSecretMounts, Promise!Spec, Promise!mountsVars, promised

=============================================================================
