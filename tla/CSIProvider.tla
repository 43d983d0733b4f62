---------------------------- MODULE CSIProvider ----------------------------
(***************************************************************************)
(* The CSI provider (internal/csi): concurrent Mount calls that log in to    *)
(* OpenBao, read their objects one by one and answer with files, over a cache *)
(* of fetched secrets that all mounts share and that lives CacheTTL.         *)
(*                                                                         *)
(* Every request to OpenBao may fail: it is down, refuses the token or the    *)
(* path, or answers too late.  Time passes in Ticks and is kept as what       *)
(* remains of an entry (left) and what has passed since a secret changed      *)
(* (settled).                                                               *)
(***************************************************************************)
EXTENDS Integers, Sequences

CONSTANTS
    Mounts,             \* concurrent calls
    Requests,           \* what they may ask for
    Absent,             \* an attribute that is not there
    DefaultAddress,     \* Config.OpenBao.Address
    DefaultRole,        \* Config.DefaultRole, perhaps ""
    DefaultMethod,      \* Config.DefaultAuthMethod
    OwnToken,           \* OPENBAO_TOKEN or VAULT_TOKEN is set
    Fields,             \* keys of the secrets
    TTL,                \* Config.CacheTTL, in ticks
    Timeout,            \* of one request of the API client
    Initial,            \* the secrets that OpenBao has at first
    Volatile,           \* bound: the locations whose secret changes
    MaxVersion,         \* bound: versions of a secret
    NoEntry,
    NoRequest,
    Env                 \* what may happen: "crash"

\* A string is the sequence of its words, "/" and ":".
Colon == <<":">>

\* The OpenBao server and namespace of a mount: those of its attributes, or the
\* provider's own server and no namespace.
Server(r) ==
    [address |-> IF r.address \in {Absent, ""} THEN DefaultAddress ELSE r.address,
     namespace |-> IF r.namespace = Absent THEN "" ELSE r.namespace]

\* readFromOpenBao puts the default mount before any path that does not start with
\* secret/ or kv/, and data after a mount without /data/ behind it.
ReadPath(path) ==
    IF ~(Len(path) > 1 /\ path[1] \in {"secret", "kv"} /\ path[2] = "/")
         THEN <<"secret", "/", "data", "/">> \o path
    ELSE IF ~\E i \in 1..Len(path) - 2 : SubSeq(path, i, i + 2) = <<"/", "data", "/">>
         THEN <<path[1], "/", "data">> \o Tail(path)
    ELSE path

Location(r, o) == [server |-> Server(r), path |-> ReadPath(o.path)]

\* cacheKey
CacheKey(o) == o.path \o Colon \o o.key \o Colon \o o.name

\* parseFilePermission: a missing, broken or zero mode is 0644.
Mode(o) == IF o.mode \in {"", "broken", "0"} THEN "0644" ELSE o.mode

\* What the mount r asks for with its object o.
Wanted(r, o) ==
    [name |-> o.name, location |-> Location(r, o), key |-> o.key,
     encoding |-> o.encoding, mode |-> Mode(o)]

\* What OpenBao's copy s gives for it: the content is that of the location, the key,
\* the version and the encoding.
Fetched(r, o, s) == [of |-> Wanted(r, o), version |-> s.version]

ObjectsOf(r) == {r.objects[i] : i \in DOMAIN r.objects}
Objects == UNION {ObjectsOf(r) : r \in Requests}
Keys == {CacheKey(o) : o \in Objects}
Wants == UNION {{Wanted(r, o) : o \in ObjectsOf(r)} : r \in Requests}
Locations == {w.location : w \in Wants}
Secrets == [version : 0..MaxVersion, fields : SUBSET Fields]

\* The age beyond which no copy of a secret is handed out.
Horizon == TTL + Timeout

ASSUME CSIAssumption ==
    /\ TTL \in Nat /\ Timeout \in Nat /\ MaxVersion \in Nat
    /\ OwnToken \in BOOLEAN
    /\ Initial \in [Locations -> Secrets] /\ Volatile \subseteq Locations
    /\ \A w \in Wants, v \in 0..MaxVersion, n \in 0..TTL :
          NoEntry # [secret |-> [of |-> w, version |-> v], left |-> n]
    /\ NoRequest \notin Requests
    /\ \A r \in Requests : r.objects \in Seq(Objects)

VARIABLES
    kv,         \* kv[l]: OpenBao's secret at l, [version, fields]; no fields without it
    settled,    \* settled[l]: ticks since kv[l] changed, up to Horizon + 1
    phase,      \* "down", "serving", "stopping"
    cache,      \* cache[k]: [secret, left] until it expires
    pc,         \* where a mount is
    request,    \* request[m]: what m asks for
    next,       \* next[m]: the index of the object m is at
    got,        \* got[m]: the secrets fetched so far
    failed,     \* failed[m]: fetchErrors is not empty
    read,       \* read[m]: what OpenBao answered to m's request
    late,       \* late[m]: ticks since it did
    answer      \* answer[m]: the [code, files] that m returns

mountVars == <<pc, request, next, got, failed, read, late, answer>>
csiVars == <<kv, settled, phase, cache, mountVars>>

Nothing == [version |-> 0, fields |-> {}]
NoAnswer == [code |-> "none", files |-> <<>>]

CSIInit ==
    /\ kv = Initial
    /\ settled = [l \in Locations |-> Horizon + 1]
    /\ phase = "down"
    /\ cache = [k \in Keys |-> NoEntry]
    /\ pc = [m \in Mounts |-> "idle"]
    /\ request = [m \in Mounts |-> NoRequest]
    /\ next = [m \in Mounts |-> 1]
    /\ got = [m \in Mounts |-> <<>>]
    /\ failed = [m \in Mounts |-> FALSE]
    /\ read = [m \in Mounts |-> Nothing]
    /\ late = [m \in Mounts |-> 0]
    /\ answer = [m \in Mounts |-> NoAnswer]

-----------------------------------------------------------------------------
\* parseMountParams: what the attributes leave out has a default; a role that is
\* there but empty has none.
Role(r) == IF r.role = Absent THEN DefaultRole ELSE r.role
Method(r) == IF r.method = Absent THEN DefaultMethod ELSE r.method

\* The attributes and the list of objects parse, and name a role and an object.
WellFormed(r) == r.readable /\ Role(r) # "" /\ r.objects # <<>>

\* authenticate: with the first service account token found in the attributes, the
\* secrets and the provider's own pod, or with the token of the environment, which
\* needs no request.
CanLogIn(r) ==
    /\ Server(r).address # ""
    /\ \/ Method(r) \in {"kubernetes", "jwt"}
       \/ Method(r) = "token" /\ OwnToken

\* extractContent; without a key the whole secret is the content.
Extractable(o, s) ==
    /\ o.key = <<>> \/ o.key \in s.fields
    /\ o.encoding \in {"base64", "text", ""}

Object(m) == request[m].objects[next[m]]

Source(m) == Location(request[m], Object(m))

\* Mount returns.
Return(m, code, files) ==
    /\ pc' = [pc EXCEPT ![m] = "return"]
    /\ answer' = [answer EXCEPT ![m] = [code |-> code, files |-> files]]
    /\ next' = [next EXCEPT ![m] = 1]
    /\ got' = [got EXCEPT ![m] = <<>>]
    /\ failed' = [failed EXCEPT ![m] = FALSE]
    /\ UNCHANGED <<kv, settled, phase, cache, read, late>>

DeliverLastErrorWins(m, secret) ==
    /\ got' = [got EXCEPT ![m] = Append(@, secret)]
    /\ failed' = [failed EXCEPT ![m] = FALSE]

\* FetchSecrets goes on with the next object, whether this one failed or not.
Deliver(m, secret) ==
    /\ got' = [got EXCEPT ![m] = Append(@, secret)]
    /\ UNCHANGED failed

Skip(m) ==
    /\ failed' = [failed EXCEPT ![m] = TRUE]
    /\ UNCHANGED got

NextObject(m) ==
    /\ pc' = [pc EXCEPT ![m] = "fetch"]
    /\ next' = [next EXCEPT ![m] = @ + 1]
    /\ read' = [read EXCEPT ![m] = Nothing]
    /\ late' = [late EXCEPT ![m] = 0]
    /\ UNCHANGED <<kv, settled, phase, request, answer>>

-----------------------------------------------------------------------------
MountUntilDown(m, r) ==
    /\ phase # "down" /\ pc[m] = "idle"
    /\ request' = [request EXCEPT ![m] = r]
    /\ \/ /\ WellFormed(r)
          /\ pc' = [pc EXCEPT ![m] = "login"]
          /\ UNCHANGED <<kv, settled, phase, cache, next, got, failed, read, late, answer>>
       \/ /\ ~WellFormed(r)
          /\ Return(m, "InvalidArgument", <<>>)

\* kubelet mounts a volume.
Mount(m, r) ==
    /\ phase = "serving" /\ pc[m] = "idle"
    /\ request' = [request EXCEPT ![m] = r]
    /\ \/ /\ WellFormed(r)
          /\ pc' = [pc EXCEPT ![m] = "login"]
          /\ UNCHANGED <<kv, settled, phase, cache, next, got, failed, read, late, answer>>
       \/ /\ ~WellFormed(r)
          /\ Return(m, "InvalidArgument", <<>>)

\* NewAuthenticatedClient: a client and a token of the mount's own.
LoggedIn(m) ==
    /\ pc[m] = "login" /\ CanLogIn(request[m])
    /\ pc' = [pc EXCEPT ![m] = "fetch"]
    /\ UNCHANGED <<kv, settled, phase, cache, request, next, got, failed, read, late, answer>>

Denied(m) ==
    /\ pc[m] = "login"
    /\ Method(request[m]) = "token" => ~CanLogIn(request[m])
    /\ Return(m, "PermissionDenied", <<>>)
    /\ UNCHANGED request

HitRenewing(m) ==
    /\ pc[m] = "fetch" /\ next[m] \in DOMAIN request[m].objects
    /\ LET entry == cache[CacheKey(Object(m))] IN
          /\ entry # NoEntry
          /\ Deliver(m, entry.secret)
    /\ NextObject(m)
    /\ cache' = [cache EXCEPT ![CacheKey(Object(m))].left = TTL]

\* fetchSecret: a copy in the cache needs no request.
Hit(m) ==
    /\ pc[m] = "fetch" /\ next[m] \in DOMAIN request[m].objects
    /\ LET entry == cache[CacheKey(Object(m))] IN
          /\ entry # NoEntry
          /\ Deliver(m, entry.secret)
    /\ NextObject(m)
    /\ UNCHANGED cache

\* RefreshToken, then the request; a token that could be neither renewed nor
\* replaced is only warned about.
Miss(m) ==
    /\ pc[m] = "fetch" /\ next[m] \in DOMAIN request[m].objects
    /\ cache[CacheKey(Object(m))] = NoEntry
    /\ pc' = [pc EXCEPT ![m] = "send"]
    /\ UNCHANGED <<kv, settled, phase, cache, request, next, got, failed, read, late, answer>>

\* OpenBao answers.  An object with arguments is written, and a KV engine refuses that.
Respond(m) ==
    /\ pc[m] = "send"
    /\ ~Object(m).args
    /\ kv[Source(m)].fields # {}
    /\ read' = [read EXCEPT ![m] = kv[Source(m)]]
    /\ pc' = [pc EXCEPT ![m] = "store"]
    /\ UNCHANGED <<kv, settled, phase, cache, request, next, got, failed, late, answer>>

RequestRepeated(m) ==
    /\ pc[m] \in {"send", "store"}
    /\ pc' = [pc EXCEPT ![m] = "send"]
    /\ read' = [read EXCEPT ![m] = Nothing]
    /\ late' = [late EXCEPT ![m] = 0]
    /\ UNCHANGED <<kv, settled, phase, cache, request, next, got, failed, answer>>

RequestFails(m) ==
    /\ pc[m] \in {"send", "store"}
    /\ Skip(m)
    /\ NextObject(m)
    /\ UNCHANGED cache

\* The answer arrives within the timeout, and replaces whatever another mount has put
\* into the cache since.
Store(m) ==
    LET o == Object(m)  secret == Fetched(request[m], o, read[m]) IN
    /\ pc[m] = "store" /\ Extractable(o, read[m])
    /\ cache' = [cache EXCEPT ![CacheKey(o)] = [secret |-> secret, left |-> TTL]]
    /\ Deliver(m, secret)
    /\ NextObject(m)

NotExtractable(m) ==
    /\ pc[m] = "store" /\ ~Extractable(Object(m), read[m])
    /\ Skip(m)
    /\ NextObject(m)
    /\ UNCHANGED cache

\* Partial results are dropped.
AnswerPartly(m) ==
    /\ pc[m] = "fetch" /\ next[m] > Len(request[m].objects)
    /\ Return(m, IF got[m] = <<>> THEN "Internal" ELSE "OK", got[m])
    /\ UNCHANGED request

Answer(m) ==
    /\ pc[m] = "fetch" /\ next[m] > Len(request[m].objects)
    /\ IF failed[m] THEN Return(m, "Internal", <<>>) ELSE Return(m, "OK", got[m])
    /\ UNCHANGED request

\* The answer is sent, and the mount is over.
Reply(m) ==
    /\ pc[m] = "return"
    /\ pc' = [pc EXCEPT ![m] = "idle"]
    /\ request' = [request EXCEPT ![m] = NoRequest]
    /\ answer' = [answer EXCEPT ![m] = NoAnswer]
    /\ UNCHANGED <<kv, settled, phase, cache, next, got, failed, read, late>>

MountStep(m) ==
    \/ LoggedIn(m) \/ Denied(m) \/ Hit(m) \/ Miss(m)
    \/ Respond(m) \/ RequestFails(m) \/ Store(m) \/ NotExtractable(m) \/ Answer(m)
    \/ Reply(m)

-----------------------------------------------------------------------------
\* Run, with an empty cache.
Start ==
    /\ phase = "down"
    /\ phase' = "serving"
    /\ UNCHANGED <<kv, settled, cache, mountVars>>

\* SIGTERM: GracefulStop waits for the calls and accepts no more.
Stop ==
    /\ phase = "serving"
    /\ phase' = "stopping"
    /\ UNCHANGED <<kv, settled, cache, mountVars>>

LoseProcess ==
    /\ phase' = "down"
    /\ cache' = [k \in Keys |-> NoEntry]
    /\ pc' = [m \in Mounts |-> "idle"]
    /\ next' = [m \in Mounts |-> 1]
    /\ got' = [m \in Mounts |-> <<>>]
    /\ failed' = [m \in Mounts |-> FALSE]
    /\ read' = [m \in Mounts |-> Nothing]
    /\ late' = [m \in Mounts |-> 0]
    /\ request' = [m \in Mounts |-> NoRequest]
    /\ answer' = [m \in Mounts |-> NoAnswer]
    /\ UNCHANGED <<kv, settled>>

Stopped ==
    /\ phase = "stopping" /\ \A m \in Mounts : pc[m] = "idle"
    /\ LoseProcess

Crash == "crash" \in Env /\ phase # "down" /\ LoseProcess

AgedNever(entry) == entry

\* Entries that have expired stay in the map but are never returned again.
Aged(entry) ==
    IF entry = NoEntry \/ entry.left = 0 THEN NoEntry ELSE [entry EXCEPT !.left = @ - 1]

Tick ==
    /\ \A m \in Mounts : pc[m] = "store" => late[m] < Timeout
    /\ late' = [m \in Mounts |-> IF pc[m] = "store" THEN late[m] + 1 ELSE 0]
    /\ settled' = [l \in Locations |-> IF settled[l] > Horizon THEN settled[l]
                                       ELSE settled[l] + 1]
    /\ cache' = [k \in Keys |-> Aged(cache[k])]
    /\ UNCHANGED <<kv, phase, pc, request, next, got, failed, read, answer>>

\* Somebody writes the secret, or deletes its latest version.
SecretChanges(l) ==
    /\ \/ /\ kv[l].version < MaxVersion
          /\ \E fields \in SUBSET Fields \ {{}} :
                kv' = [kv EXCEPT ![l] = [version |-> @.version + 1, fields |-> fields]]
       \/ kv[l].fields # {} /\ kv' = [kv EXCEPT ![l].fields = {}]
    /\ settled' = [settled EXCEPT ![l] = 0]
    /\ UNCHANGED <<phase, cache, mountVars>>

CSINext ==
    \/ \E m \in Mounts : MountStep(m) \/ \E r \in Requests : Mount(m, r)
    \/ Start \/ Stop \/ Stopped \/ Crash \/ Tick
    \/ \E l \in Volatile : SecretChanges(l)

CSISpec == CSIInit /\ [][CSINext]_csiVars

\* Goroutines run and requests end by their timeout.
FairCSISpec ==
    /\ CSISpec
    /\ \A m \in Mounts : WF_csiVars(MountStep(m))
    /\ WF_csiVars(Stopped)

-----------------------------------------------------------------------------
Files == [of : Wants, version : 0..MaxVersion]
Entries == [secret : Files, left : 0..TTL]

CSITypeOK ==
    /\ kv \in [Locations -> Secrets]
    /\ settled \in [Locations -> 0..Horizon + 1]
    /\ phase \in {"down", "serving", "stopping"}
    /\ cache \in [Keys -> Entries \cup {NoEntry}]
    /\ pc \in [Mounts -> {"idle", "login", "fetch", "send", "store", "return"}]
    /\ request \in [Mounts -> Requests \cup {NoRequest}]
    /\ next \in [Mounts -> Nat \ {0}]
    /\ got \in [Mounts -> Seq(Files)]
    /\ failed \in [Mounts -> BOOLEAN]
    /\ read \in [Mounts -> Secrets]
    /\ late \in [Mounts -> 0..Timeout]
    /\ answer \in [Mounts -> [code : {"none", "OK", "InvalidArgument", "PermissionDenied",
                                      "Internal"},
                              files : Seq(Files)]]
    /\ \A m \in Mounts : pc[m] = "idle" <=> request[m] = NoRequest

\* A copy is stale once the secret has been written again or deleted.
Stale(secret) ==
    \/ secret.version # kv[secret.of.location].version
    \/ kv[secret.of.location].fields = {}

\* However late the answers arrive, and in whatever order two mounts store theirs, a
\* stale copy leaves the cache at most TTL and one timeout after the change.
StaleEntriesExpire ==
    \A k \in Keys : cache[k] # NoEntry /\ Stale(cache[k].secret) =>
        settled[cache[k].secret.of.location] + cache[k].left <= Horizon

\* No mount picks up a secret that was replaced or deleted longer ago than that.
FilesAreFresh ==
    [][\A m \in Mounts : Len(got'[m]) > Len(got[m]) =>
          LET secret == got'[m][Len(got'[m])] IN
          Stale(secret) => settled[secret.of.location] <= Horizon]_csiVars

\* The cache is shared by all mounts and keeps no server, namespace, encoding or mode
\* apart, nor a colon within a path, a key or a name from those between them.  These
\* are what the mounts ask for with a given secretPath:secretKey:objectName.
Sharing == [o \in Objects |->
    LET joined(p) == p.path \o <<":">> \o p.key \o <<":">> \o p.name IN
    UNION {{Wanted(r, p) : p \in {q \in ObjectsOf(r) : joined(q) = joined(o)}} : r \in Requests}]

\* A file for the object o of the mount r is what a mount sharing its entry asks for,
\* so that it is exactly what r asks for when no other asks for anything else there.
AsAsked(file, r, o) ==
    /\ file.of \in Sharing[o]
    /\ Sharing[o] = {Wanted(r, o)} => file.of = Wanted(r, o)

\* A mount that succeeds delivers a file for each of its objects, in their order; one
\* that fails delivers none.  An object's file is as the mount asked for it, from its
\* own server, unless the mounts that share its cache entry want different things:
\* then it may be what any of these wants.
AllOrNothing ==
    \A m \in Mounts :
        /\ answer[m].code # "OK" => answer[m].files = <<>>
        /\ answer[m].code = "OK" =>
             /\ Len(answer[m].files) = Len(request[m].objects)
             /\ \A i \in DOMAIN answer[m].files :
                    AsAsked(answer[m].files[i], request[m], request[m].objects[i])

\* What all this comes to, SecretMounts: each mount gathers files that are fresh and
\* fit its objects as AsAsked says, one after the other, and delivers all or none,
\* through late answers, entries replaced by other mounts, expiry and restarts.  A
\* mount of which an object failed has no files.
Picked == [m \in Mounts |-> IF failed[m] THEN <<>> ELSE got[m]]

Fitting == {t \in Files \X Requests \X Objects : AsAsked(t[1], t[2], t[3])}

Promise == INSTANCE SecretMounts WITH
    Fits <- Fitting, asked <- request, picked <- Picked, delivery <- answer

ImplementsSecretMounts == Promise!Spec

\* Every mount ends, whatever OpenBao does, and so does a shutdown that waits for
\* them.
MountsAreAnswered == \A m \in Mounts : pc[m] # "idle" ~> pc[m] = "idle"
ShutdownEnds == phase = "stopping" ~> phase = "down"

=============================================================================
