----------------------------- MODULE KeyManager -----------------------------
(***************************************************************************)
(* The Kuznyechik key of the KMS plugin: the record OpenBao keeps for it,   *)
(* the copy each plugin process caches, and the Encrypt and Decrypt calls   *)
(* that go through GetOrCreateKey (internal/kms/key_manager.go and          *)
(* kuznyechik_provider.go).  Several plugin processes share one record, and *)
(* several calls run at once in a process.                                  *)
(*                                                                          *)
(* Abstractions.  A key is a value of Keys, and crypto/rand never returns a *)
(* key that is still referenced somewhere.  A ciphertext is the key it was  *)
(* sealed under: the AEAD opens it with that key and with no other.  The    *)
(* km.keyVersion field only reaches the log and is left out, as is an       *)
(* Encrypt or Decrypt of an empty argument, refused before it does anything.*)
(*                                                                         *)
(* Operators that no action uses (UnlockForgotten, AcquireLockUnchecked...) *)
(* are faulty variants of the definition that follows them; the properties  *)
(* are tested by putting them in its place.  Other modules do the same.     *)
(***************************************************************************)
EXTENDS Naturals

CONSTANTS
    Plugins,            \* kubebao-kms processes, one per control-plane node
    Calls,              \* goroutines that can serve a gRPC call
    Host,               \* Host[c] is the process goroutine c belongs to
    Keys,               \* the values crypto/rand can produce
    NoKey,              \* a nil key slice, and the key of an absent record
    BadKey,             \* a key field parseKeyData rejects; garbage ciphertext
    Free,               \* km.mu is not held for writing
    Creators,           \* the processes with config.CreateKeyIfNotExists
    InitialRecords,     \* what the record may be when the plugins first start
    MaxVersion,         \* bound on the versions that rotations write
    Env                 \* what the environment may do, a subset of EnvKinds

EnvKinds == {"outage", "writeError", "lateWrite", "crash", "rotate", "malformed",
             "invalidate"}

Record == [key : Keys \cup {NoKey, BadKey}, version : 0..MaxVersion]

ASSUME KeyManagerAssumption ==
    /\ Host \in [Calls -> Plugins]
    /\ NoKey \notin Keys /\ BadKey \notin Keys /\ NoKey # BadKey
    /\ Free \notin Calls
    /\ Creators \subseteq Plugins
    /\ MaxVersion \in Nat \ {0}
    /\ InitialRecords \subseteq Record
    /\ Env \subseteq EnvKinds

VARIABLES
    kv,         \* the record at {kvMount}/data/{kvPathPrefix}/{keyName}
    late,       \* writes given up by their caller, not yet by OpenBao
    baoUp,      \* OpenBao answers requests
    up,         \* up[p]: process p is serving
    cachedKey,  \* cachedKey[p]: km.cachedKey of process p
    mu,         \* mu[p]: the goroutine that holds km.mu for writing, or Free
    pc,         \* pc[c]: where goroutine c is
    key,        \* key[c]: its key slice, then the key its ciphertext is under
    ct,         \* ct[c]: the ciphertext of a Decrypt, NoKey for an Encrypt
    sealed,     \* the keys of the ciphertexts Encrypt has returned
    stored,     \* history: every key that was ever in the record
    used        \* history: used[p], the keys p sealed with since it started

store == <<kv, late, baoUp, stored>>
memory == <<up, cachedKey, mu>>
calls == <<pc, key, ct>>
history == <<sealed, used>>
vars == <<store, memory, calls, history>>

PC == {"idle", "fast", "lock", "read", "write", "reply", "crypt", "respond"}

\* The goroutine is in the section of GetOrCreateKey that holds km.mu.
InCritical(c) == pc[c] \in {"read", "write", "reply"}

-----------------------------------------------------------------------------
\* The record as KVRead and parseKeyData see it.

KVReadable == baoUp /\ kv.key # NoKey
KeyReadable == KVReadable /\ kv.key # BadKey

\* A key that is referenced nowhere, what rand.Read delivers.
Fresh(k) ==
    /\ k \notin stored \cup sealed
    /\ \A r \in late : r.key # k
    /\ k # kv.key
    /\ \A c \in Calls : key[c] # k /\ ct[c] # k
    /\ \A p \in Plugins : cachedKey[p] # k /\ k \notin used[p]

\* A write of r that OpenBao has applied; KVWrite passes no check-and-set
\* version, so it replaces whatever is there.
Put(r) ==
    /\ kv' = r
    /\ stored' = stored \cup {r.key}
    /\ UNCHANGED baoUp

NewRecordUnversioned(c) == [key |-> key[c], version |-> 0]

\* What a call writes: the key it has drawn, as version 1.
NewRecord(c) == [key |-> key[c], version |-> 1]

-----------------------------------------------------------------------------
\* One call, from its arrival to its answer.

\* The call returns: its key slice is zeroed by the deferred zeroBytes.
Finish(c) ==
    /\ pc' = [pc EXCEPT ![c] = "idle"]
    /\ key' = [key EXCEPT ![c] = NoKey]
    /\ ct' = [ct EXCEPT ![c] = NoKey]

\* GetOrCreateKey returns a copy of k.
HandOut(c, k) ==
    /\ pc' = [pc EXCEPT ![c] = "crypt"]
    /\ key' = [key EXCEPT ![c] = k]
    /\ UNCHANGED ct

Goto(c, l) ==
    /\ pc' = [pc EXCEPT ![c] = l]
    /\ UNCHANGED <<key, ct>>

UnlockForgotten(c) == UNCHANGED mu

\* km.mu.Unlock, deferred.
Unlock(c) == mu' = [mu EXCEPT ![Host[c]] = Free]

\* An Encrypt arrives, or a Decrypt of a ciphertext the plugins returned, or
\* of bytes none of them produced.
Receive(c, x) ==
    /\ up[Host[c]] /\ pc[c] = "idle"
    /\ x \in sealed \cup {NoKey, BadKey}
    /\ pc' = [pc EXCEPT ![c] = "fast"]
    /\ ct' = [ct EXCEPT ![c] = x]
    /\ UNCHANGED <<store, memory, key, history>>

\* RLock, look at the cache, RUnlock.
FastPath(c) ==
    /\ pc[c] = "fast" /\ mu[Host[c]] = Free
    /\ IF cachedKey[Host[c]] # NoKey
         THEN HandOut(c, cachedKey[Host[c]])
         ELSE Goto(c, "lock")
    /\ UNCHANGED <<store, memory, history>>

AcquireLockUnchecked(c) ==
    /\ pc[c] = "lock" /\ mu[Host[c]] = Free
    /\ mu' = [mu EXCEPT ![Host[c]] = c]
    /\ Goto(c, "read")
    /\ UNCHANGED <<store, up, cachedKey, history>>

\* Lock, then the second look at the cache.
AcquireLock(c) ==
    /\ pc[c] = "lock" /\ mu[Host[c]] = Free
    /\ IF cachedKey[Host[c]] # NoKey
         THEN HandOut(c, cachedKey[Host[c]]) /\ UNCHANGED mu
         ELSE Goto(c, "read") /\ mu' = [mu EXCEPT ![Host[c]] = c]
    /\ UNCHANGED <<store, up, cachedKey, history>>

\* KVRead succeeds and the record parses: cache it and hand out a copy.
ReadKey(c) ==
    /\ pc[c] = "read" /\ KeyReadable
    /\ cachedKey' = [cachedKey EXCEPT ![Host[c]] = kv.key]
    /\ HandOut(c, kv.key)
    /\ Unlock(c)
    /\ UNCHANGED <<store, up, history>>

\* KVRead succeeds but parseKeyData rejects the record: the call fails.
ReadMalformed(c) ==
    /\ pc[c] = "read" /\ KVReadable /\ kv.key = BadKey
    /\ Finish(c) /\ Unlock(c)
    /\ UNCHANGED <<store, up, cachedKey, history>>

\* KVRead returns an error, for whatever reason: the code does not look at
\* which.  Without createIfNotExists the call fails.
ReadMiss(c) ==
    /\ pc[c] = "read" /\ ~KVReadable /\ Host[c] \notin Creators
    /\ Finish(c) /\ Unlock(c)
    /\ UNCHANGED <<store, up, cachedKey, history>>

GenerateAndCache(c, k) ==
    /\ pc[c] = "read" /\ ~KVReadable /\ Host[c] \in Creators /\ Fresh(k)
    /\ pc' = [pc EXCEPT ![c] = "write"]
    /\ key' = [key EXCEPT ![c] = k]
    /\ cachedKey' = [cachedKey EXCEPT ![Host[c]] = k]
    /\ UNCHANGED <<store, up, mu, ct, history>>

\* With it, the same error makes the call draw a new key.
Generate(c, k) ==
    /\ pc[c] = "read" /\ ~KVReadable /\ Host[c] \in Creators /\ Fresh(k)
    /\ pc' = [pc EXCEPT ![c] = "write"]
    /\ key' = [key EXCEPT ![c] = k]
    /\ UNCHANGED <<store, memory, ct, history>>

\* OpenBao applies the KVWrite.
WriteApplied(c) ==
    /\ pc[c] = "write" /\ baoUp
    /\ Put(NewRecord(c))
    /\ Goto(c, "reply")
    /\ UNCHANGED <<late, memory, history>>

\* The request or its reply can be lost.
WriteFault == ~baoUp \/ "writeError" \in Env

RetryDrawsNewKey(c) ==
    /\ pc[c] = "reply" /\ WriteFault
    /\ \E k \in Keys : /\ Fresh(k)
                       /\ key' = [key EXCEPT ![c] = k]
    /\ pc' = [pc EXCEPT ![c] = "write"]
    /\ UNCHANGED <<store, memory, ct, history>>

\* The API client repeats a write whose reply it did not get (MaxRetries).
Retry(c) ==
    /\ pc[c] = "reply" /\ WriteFault
    /\ Goto(c, "write")
    /\ UNCHANGED <<store, memory, history>>

WriteErrorIgnored(c) ==
    /\ pc[c] \in {"write", "reply"} /\ WriteFault
    /\ cachedKey' = [cachedKey EXCEPT ![Host[c]] = key[c]]
    /\ HandOut(c, key[c]) /\ Unlock(c)
    /\ UNCHANGED <<store, up, history>>

\* KVWrite returns an error, whether or not the write was applied: nothing is
\* cached and the call fails.
WriteFails(c) ==
    /\ pc[c] \in {"write", "reply"} /\ WriteFault
    /\ Finish(c) /\ Unlock(c)
    /\ UNCHANGED <<store, up, cachedKey, history>>

\* KVWrite gives up on a request that OpenBao is still working on.
WriteTimesOut(c) ==
    /\ pc[c] = "write" /\ "lateWrite" \in Env
    /\ late' = late \cup {NewRecord(c)}
    /\ Finish(c) /\ Unlock(c)
    /\ UNCHANGED <<kv, baoUp, stored, up, cachedKey, history>>

\* KVWrite returns: cache the new key and hand out a copy.
WriteAcked(c) ==
    /\ pc[c] = "reply"
    /\ cachedKey' = [cachedKey EXCEPT ![Host[c]] = key[c]]
    /\ HandOut(c, key[c]) /\ Unlock(c)
    /\ UNCHANGED <<store, up, history>>

\* KuznyechikProvider.Encrypt seals under the key it was handed.
Seal(c) ==
    /\ pc[c] = "crypt" /\ ct[c] = NoKey
    /\ used' = [used EXCEPT ![Host[c]] = @ \cup {key[c]}]
    /\ Goto(c, "respond")
    /\ UNCHANGED <<store, memory, sealed>>

\* Server.Encrypt returns the ciphertext.
Respond(c) ==
    /\ pc[c] = "respond"
    /\ sealed' = sealed \cup {key[c]}
    /\ Finish(c)
    /\ UNCHANGED <<store, memory, used>>

\* KuznyechikProvider.Decrypt: the plaintext if the tag matches, that is if
\* key[c] = ct[c], ErrAuthFailed otherwise.  Neither changes any state.
Open(c) ==
    /\ pc[c] = "crypt" /\ ct[c] # NoKey
    /\ Finish(c)
    /\ UNCHANGED <<store, memory, history>>

Step(c) ==
    \/ FastPath(c) \/ AcquireLock(c)
    \/ ReadKey(c) \/ ReadMalformed(c) \/ ReadMiss(c)
    \/ \E k \in Keys : Generate(c, k)
    \/ WriteApplied(c) \/ Retry(c)
    \/ WriteFails(c) \/ WriteTimesOut(c) \/ WriteAcked(c)
    \/ Seal(c) \/ Respond(c) \/ Open(c)

-----------------------------------------------------------------------------
\* Processes and the environment.

\* The process starts with nothing cached.
Boot(p) ==
    /\ ~up[p]
    /\ up' = [up EXCEPT ![p] = TRUE]
    /\ UNCHANGED <<store, cachedKey, mu, calls, history>>

\* It dies, with its cache, its lock and its goroutines.
Crash(p) ==
    /\ "crash" \in Env /\ up[p]
    /\ up' = [up EXCEPT ![p] = FALSE]
    /\ cachedKey' = [cachedKey EXCEPT ![p] = NoKey]
    /\ mu' = [mu EXCEPT ![p] = Free]
    /\ pc' = [c \in Calls |-> IF Host[c] = p THEN "idle" ELSE pc[c]]
    /\ key' = [c \in Calls |-> IF Host[c] = p THEN NoKey ELSE key[c]]
    /\ ct' = [c \in Calls |-> IF Host[c] = p THEN NoKey ELSE ct[c]]
    /\ used' = [used EXCEPT ![p] = {}]
    /\ UNCHANGED <<store, sealed>>

\* KeyManager.InvalidateCache; no code of the repository calls it yet.
InvalidateCache(p) ==
    /\ "invalidate" \in Env /\ up[p] /\ mu[p] = Free
    /\ cachedKey' = [cachedKey EXCEPT ![p] = NoKey]
    /\ UNCHANGED <<store, up, mu, calls, history>>

\* A write that its caller has given up is applied after all.
LateWrite(r) ==
    /\ r \in late /\ baoUp
    /\ Put(r)
    /\ late' = late \ {r}
    /\ UNCHANGED <<memory, calls, history>>

\* Someone else writes a new key: the UI's RotateKey or an operator's curl.
Rotate(k, v) ==
    /\ "rotate" \in Env /\ baoUp /\ Fresh(k)
    /\ Put([key |-> k, version |-> v])
    /\ UNCHANGED <<late, memory, calls, history>>

\* An operator writes a record whose key does not decode to 32 bytes.
WriteMalformed ==
    /\ "malformed" \in Env /\ baoUp
    /\ kv' = [key |-> BadKey, version |-> 1]
    /\ UNCHANGED <<late, baoUp, stored, memory, calls, history>>

Outage ==
    /\ "outage" \in Env /\ baoUp
    /\ baoUp' = FALSE
    /\ UNCHANGED <<kv, late, stored, memory, calls, history>>

Recovery ==
    /\ ~baoUp
    /\ baoUp' = TRUE
    /\ UNCHANGED <<kv, late, stored, memory, calls, history>>

-----------------------------------------------------------------------------
Init ==
    /\ kv \in InitialRecords
    /\ late = {}
    /\ baoUp = TRUE
    /\ stored = {kv.key} \cap Keys
    /\ up = [p \in Plugins |-> FALSE]
    /\ cachedKey = [p \in Plugins |-> NoKey]
    /\ mu = [p \in Plugins |-> Free]
    /\ pc = [c \in Calls |-> "idle"]
    /\ key = [c \in Calls |-> NoKey]
    /\ ct = [c \in Calls |-> NoKey]
    /\ sealed = {}
    /\ used = [p \in Plugins |-> {}]

Next ==
    \/ \E c \in Calls : Step(c)
    \/ \E c \in Calls, x \in Keys \cup {NoKey, BadKey} : Receive(c, x)
    \/ \E p \in Plugins : Boot(p) \/ Crash(p) \/ InvalidateCache(p)
    \/ \E k \in Keys, v \in 1..MaxVersion : Rotate(k, v)
    \/ \E r \in Record : LateWrite(r)
    \/ WriteMalformed \/ Outage \/ Recovery

Spec == Init /\ [][Next]_vars

(***************************************************************************)
(* The Go scheduler runs every goroutine, an HTTP request ends by           *)
(* config.Timeout, retries are at most MaxRetries, and a goroutine waiting  *)
(* for km.mu is not overtaken for ever (a waiting Lock keeps new RLocks     *)
(* out, and sync.Mutex hands over to a starving waiter).  The last two are   *)
(* the strong fairness of Settle.                                           *)
(***************************************************************************)
Settle(c) == FastPath(c) \/ AcquireLock(c) \/ WriteFails(c) \/ WriteAcked(c)

CallFairness(c) == WF_vars(Step(c)) /\ SF_vars(Settle(c))

FairSpec == Spec /\ \A c \in Calls : CallFairness(c)

-----------------------------------------------------------------------------
TypeOK ==
    /\ kv \in Record
    /\ late \subseteq [key : Keys, version : 1..MaxVersion]
    /\ baoUp \in BOOLEAN
    /\ stored \subseteq Keys
    /\ up \in [Plugins -> BOOLEAN]
    /\ cachedKey \in [Plugins -> Keys \cup {NoKey}]
    /\ mu \in [Plugins -> Calls \cup {Free}]
    /\ pc \in [Calls -> PC]
    /\ key \in [Calls -> Keys \cup {NoKey}]
    /\ ct \in [Calls -> Keys \cup {NoKey, BadKey}]
    /\ sealed \subseteq Keys
    /\ used \in [Plugins -> SUBSET Keys]

\* km.mu is held by a goroutine of its process, which is in the critical section
\* and finds nothing in the cache there.
LockInv ==
    /\ \A p \in Plugins : mu[p] # Free => Host[mu[p]] = p
    /\ \A c \in Calls : InCritical(c) <=> mu[Host[c]] = c
    /\ \A c \in Calls : InCritical(c) => cachedKey[Host[c]] = NoKey

\* A key that a call may seal with, or a process has cached, was in the record.
KeyInv ==
    /\ kv.key \in stored \cup {NoKey, BadKey}
    /\ \A p \in Plugins : cachedKey[p] \in stored \cup {NoKey}
    /\ \A c \in Calls : pc[c] = "write" => key[c] \in Keys
    /\ \A c \in Calls : pc[c] \in {"reply", "crypt", "respond"} => key[c] \in stored
    /\ sealed \subseteq stored

\* Unless the cache is invalidated, a call works with the key that is cached,
\* and its process has sealed with no other.
OneKeyInv ==
    "invalidate" \notin Env =>
        /\ \A c \in Calls : pc[c] \in {"crypt", "respond"} => key[c] = cachedKey[Host[c]]
        /\ \A p \in Plugins : used[p] \subseteq {cachedKey[p]} \ {NoKey}

\* Encrypt never returns a ciphertext whose key was not in OpenBao first:
\* GetOrCreateKey hands out a generated key only after KVWrite succeeded.
SealedIsStored == sealed \subseteq stored

\* A process opens every ciphertext it has sealed since it started, whatever
\* happens to the record meanwhile: all its calls are handed the same key,
\* which is what the second look at the cache under the lock is for.
OwnRoundTrip ==
    \A c \in Calls :
        pc[c] = "crypt" /\ ct[c] \in used[Host[c]] => key[c] = ct[c]

Vault == INSTANCE SealingKeys WITH active <- cachedKey

\* Seen through the caches alone, the plugins adopt a key only when they have
\* none and only from OpenBao, and return no ciphertext under any other key,
\* however many calls race through GetOrCreateKey.  (InvalidateCache would
\* break it: a call in progress keeps the key it was handed.)
ImplementsSealingKeys == Vault!Spec

\* The deployments in which only the plugins write the record, no write outlives
\* its caller, and no plugin can mistake a present record for an absent one: none
\* may create it, or OpenBao always answers and no two of those that may create
\* it can both find it absent.
SafeDeployment ==
    /\ Env \cap {"rotate", "malformed", "lateWrite"} = {}
    /\ \/ Creators = {}
       \/ /\ "outage" \notin Env
          /\ (\A p, q \in Creators : p = q) \/ (\A r \in InitialRecords : r.key # NoKey)

\* Why the record is permanent there: a key that is cached or in use is the one
\* in the record, and a call writes only over an absent record or its own write.
RecordInv ==
    SafeDeployment =>
        /\ late = {}
        /\ Creators # {} => baoUp
        /\ (\A r \in InitialRecords : r.key # NoKey) => kv.key # NoKey
        /\ \A p \in Plugins : cachedKey[p] \in {NoKey, kv.key}
        /\ \A c \in Calls : pc[c] \in {"crypt", "respond"} => key[c] = kv.key
        /\ \A c \in Calls : pc[c] \in {"write", "reply"} =>
               /\ Host[c] \in Creators
               /\ \E r \in InitialRecords : r.key = NoKey
        /\ \A c \in Calls : pc[c] = "write" => kv.key = NoKey \/ kv = NewRecord(c)
        /\ \A c \in Calls : pc[c] = "reply" => kv = NewRecord(c)
        /\ sealed \subseteq {kv.key}
        /\ \A c \in Calls : ct[c] \in {NoKey, BadKey, kv.key}

\* In a safe deployment every ciphertext Encrypt returned is under the key that the
\* record holds, and every Decrypt of one that comes to a key comes to that key: any
\* plugin, restarted or not, opens what any other has sealed.
Recoverable ==
    SafeDeployment =>
        /\ sealed \subseteq {kv.key}
        /\ \A c \in Calls : pc[c] = "crypt" /\ ct[c] \in Keys => key[c] = ct[c]

\* In a safe deployment GetOrCreateKey never replaces a record it has once
\* created: the read under the lock and the retries of one write see to that.
RecordIsPermanent ==
    [][SafeDeployment /\ kv.key # NoKey => kv' = kv]_vars

\* Every call is answered: km.mu is released on every path out of
\* GetOrCreateKey, so no call waits for ever behind another one.
CallsAreAnswered ==
    \A c \in Calls : pc[c] # "idle" ~> pc[c] = "idle"

=============================================================================
