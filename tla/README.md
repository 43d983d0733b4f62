# Verification of kubebao in TLA+

kubebao connects a Kubernetes cluster to OpenBao. It has a KMS v2 plugin that
encrypts the data-encryption keys of etcd, with GOST Kuznyechik or with the
Transit engine; an operator that copies OpenBao secrets to Kubernetes Secrets
and BaoPolicy objects to OpenBao policies; a CSI provider that mounts OpenBao
secrets as files; and a web UI. This directory holds TLA+ models of it, the TLC
configurations that check them, and proofs that TLAPS checks.

Paths like `internal/kms/server.go:357` are relative to the repository's root.

## 1. Inventory

| Part | State it keeps | Operations | Interacts with |
|---|---|---|---|
| Key manager (`internal/kms/key_manager.go`, `kuznyechik_provider.go`) | `cachedKey`, `keyVersion`, `mu` in each plugin process; the record `{key, version}` in OpenBao KV, shared by all processes | `GetOrCreateKey`, `GetKeyInfo`, `InvalidateCache`, `Encrypt`, `Decrypt` | OpenBao client; called by concurrent gRPC goroutines |
| KMS server (`internal/kms/server.go`, `cmd/kubebao-kms`) | `keyID`, `healthy`, counters | `initialize`, `Status`, `Encrypt`, `Decrypt`, the health loop, the statistics loop, graceful stop | API server (gRPC), provider |
| Transit provider (`internal/kms/transit.go`) | none; versions live in OpenBao | `Encrypt`, `Decrypt`, `GetKeyInfo`, `CreateKey`, `RotateKey` | OpenBao client |
| OpenBao client (`internal/openbao/client.go`) | `tokenExpiry`, the token | authentication, `RefreshToken` before every request, KV and Transit calls | OpenBao over HTTP |
| Web UI (`internal/ui/handlers.go`) | `keyRotations`, `lastRotated`, metrics history, sessions | `RotateKey`, listings, decrypt tool, CSI attach | OpenBao (writes the key record), Kubernetes |
| CSI provider (`internal/csi`) | a cache of fetched secrets shared by all mounts | `Mount`, authentication per mount, fetch, cache | kubelet's CSI driver, OpenBao |
| BaoSecret controller (`internal/controller/baosecret_controller.go`) | the BaoSecret's status and finalizer, the target Secret | `Reconcile`, `syncSecret`, `handleDeletion` | Kubernetes API (optimistic concurrency, garbage collector), OpenBao |
| BaoPolicy controller (`internal/controller/baopolicy_controller.go`) | the BaoPolicy's status and finalizer, the policy in OpenBao | `Reconcile`, `syncPolicy`, `handleDeletion` | same |
| KMS configuration (`internal/kms/config.go`, `internal/openbao/config.go`) | none | defaults, environment, validation | read once by `cmd/kubebao-kms` |
| Kuznyechik AEAD (`internal/crypto`) | none | CTR, CMAC, subkeys | called by the provider |
| Kuznyechik block cipher (`internal/kuznyechik`) | round keys of an object | key schedule, block encryption and decryption | called by the AEAD |

What is hard about each part, and what would make it correct:

* **Key manager.** Calls race to fill one cache; each does a read, a generate
  and a write over the network that other processes, operators and the UI also
  write. Losing a key means losing every Secret of the cluster, so: nothing is
  encrypted under a key that OpenBao does not have; a process does not change
  keys under way; in deployments where nobody else touches the record the key is
  created once and for all; every call is answered.
* **KMS server.** Labels (`keyID`) and keys are read at different moments; the
  health loop applies answers that may be old. Labels must name the right
  record; all control-plane nodes must agree; health must mean something.
* **UI rotation.** The version comes from a counter in memory and the write is a
  separate request. Versions must grow, and the counter must match the record.
* **OpenBao client.** Token expiry, renewal and re-login race with requests, and
  nothing locks a refresh as a whole. A request must not trust a dead token, and
  it must end.
* **Transit provider.** A start of up to three requests, any of which may fail or
  lose its answer. A plugin must not serve without a key, and an outage must show.
* **CSI.** One cache for all mounts, whose answers are stored late and out of
  order; expiry; partial failure; a stop that waits for mounts. Files must be
  complete and of a bounded age, and everything must end.
* **Controllers.** Reconciles are repeated, may see old objects, may fail
  between two writes. The status must not claim what is not so, and edits and
  deletions must get through.
* **AEAD.** Block splitting over two slices, partial last blocks, counter wrap.
  Decryption must invert encryption and refuse what was altered.
* **Block cipher.** Encryption and decryption have different tables, round keys
  and rounds, and must invert each other and follow the standard.

## 2. Plan

The key of the cluster comes first, then what surrounds it.

1. `KeyManager`, with the abstract `SealingKeys` it implements.
2. `PluginStatus`, composed with `KeyManager` in `KMSServer`; `KMSClaims`.
3. `KeyRotation`: the UI over the record. The proofs about 1 to 3 are in
   `KMS_proofs`.
4. `OpenBaoClient` (the token) and `KMSConfig` (the settings), composed with
   `PluginStatus` in `TransitServer`, proofs in `TransitServer_proofs`.
5. `CSIProvider`, with the abstract `SecretMounts` it implements, proofs in
   `CSIProvider_proofs`.
6. `BaoSecretController`, over a small model of the Kubernetes API (conflicts,
   caches, finalizers, owner references, garbage collection), with the abstract
   `ForwardSync` it implements, proofs in `BaoSecretController_proofs`;
   `ControllerClaims`.
7. `BaoPolicyController`, over the same API, with the policies in OpenBao,
   proofs in `BaoPolicyController_proofs`.
8. `Octets`, `KuznyechikCipher` and `KuznyechikAEAD`, proofs in
   `Octets_proofs`, `KuznyechikCipher_proofs` and `KuznyechikAEAD_proofs`.

All of these exist. The remaining handlers of the web UI show state rather than
change it.

## 3. Modules

### KeyManager

One action per step between which another goroutine, process or the network can
come in:

| Code (`key_manager.go`) | Actions |
|---|---|
| gRPC call arrives | `Receive` |
| 62-71 `RLock`, look, `RUnlock` | `FastPath` |
| 73-81 `Lock`, second look | `AcquireLock` |
| 84-100 `KVRead`, parse, cache | `ReadKey`, `ReadMalformed` |
| 103-105 no key, may not create | `ReadMiss` |
| 107-121 `rand.Read` | `Generate` |
| 123 `KVWrite` | `WriteApplied`, `Retry`, `WriteFails`, `WriteTimesOut`, later `LateWrite` |
| 132-137 cache, copy | `WriteAcked` |
| `kuznyechik_provider.go` | `Seal`, `Respond`, `Open` |
| 183-194 | `InvalidateCache` (no caller in the repository) |
| process | `Boot`, `Crash` |
| OpenBao and others | `Rotate`, `WriteMalformed`, `Outage`, `Recovery` |

The state: `kv` is the record, `cachedKey[p]` and `mu[p]` are the fields of the
process's `KeyManager` (the read lock is held for a look only and is part of
`FastPath`), `pc`, `key` and `ct` are the goroutine's position, key slice and
argument. `sealed`, `stored` and `used` are history for the properties. `KVRead`
has one kind of error, because the code looks at none: an unreachable OpenBao, a
refused token and an absent record are all `~KVReadable`. "outage" stands for all
failures to read; a single lost read is an `Outage` and a `Recovery`.

A key is an element of `Keys`. `Fresh` says that `crypto/rand` does not repeat a
key that is still referenced. A ciphertext is the key it opens with, which
abstracts the AEAD; `KuznyechikAEAD` looks into it.

`Env` names what the environment may do, and `Creators` which processes have
`createKeyIfNotExists`, so that one module serves all deployments.
`SafeDeployment` names the ones in which the key cannot be lost: nobody but the
plugins writes the record, no write outlives its caller, and either no plugin may
create the record, or OpenBao is always reachable and no two processes that may
create it can both find it absent (only one may, or the record was made
beforehand). Every clause is needed: an outage makes a plugin overwrite the
record (`ClaimOnlyAbsentCreated`); after a rotation and a restart a plugin knows
the new key only; two processes that start on an absent record both write, since
`KVWrite` passes no check-and-set version.

### SealingKeys

The promise of the key manager without its mechanism: keys accumulate in OpenBao
(`Store`), a process adopts a stored key when it has none (`Adopt`), returns
ciphertexts under that key only (`Issue`) and forgets it when it restarts
(`Restart`). `KeyManager!ImplementsSealingKeys` maps `active` to `cachedKey`.

### PluginStatus, KMSServer

`PluginStatus` is the part of `server.go` that does not care which provider
answers: `initialize` with the soft start of Kuznyechik, and `performHealthCheck`
split where it takes `s.mu`, between the answer of `GetKeyInfo` and its use.
`KMSServer` composes it with `KeyManager`: `Start` is `NewServer`, `Die` the end
of the process, `Serve` a step of a call, whose last one reads the label, and
`HealthRead`, `HealthApply` the health loop. `ParsedVersion` is what
`parseKeyData` makes of the version field: it asserts `float64`, and the API
client (openbao/api v2.1.0) decodes numbers to `json.Number`, so the default 1
remains. The CSI provider of this repository relies on that type
(`internal/csi/secrets.go:164`).

### KeyRotation

`RotateKey` of the UI: `RotateBegins` reads the counter, `RotateWrites` is the
POST applied by OpenBao (`KeyManager!Rotate` under the chosen version),
`RotateAcked` counts, `RotateFails` and `RotateTimesOut` are its failures,
`UIRestart` loses the counter. The history variable `orderly` says that no two
rotations overlapped so far and that the UI lost neither its counter nor an
answer, which is when `CounterFollowsRecord` holds. The UI always writes below the mount `secret`;
the model assumes that the plugins use that mount, which is the default.

### KMSClaims

Statements about the KMS plugin that the code does not fulfil, each with a run that
refutes it:

* `OnlyAbsentKeysAreCreated`: a key is generated only if there is none
  (`key_manager.go:60`). Any error of the read counts as its absence.
* `StatusMoves`, which two statements imply: the keyID follows a rotation
  (`docs/ARCHITECTURE.md:450-451`, the comment at `server.go:373`), and an outage makes
  the plugin unhealthy (`docs/TESTING.md:100`, NF-R-01; `server.go:356`). A plugin
  whose checks see a rotated record and outages again and again need not do either:
  `ParsedVersion` is always 1, and `performHealthCheck` keeps a Kuznyechik plugin
  healthy after any error of `GetKeyInfo` if it was healthy (`server.go:365`), also
  when a key exists. One behaviour refutes both statements, so they share a run.

Others follow from definitions of the model that a reader can look up, and have no
run:

* A rotated key is never taken up by a running plugin (`docs/ARCHITECTURE.md:453`,
  `internal/ui/handlers.go:323`): `cachedKey` is set by `ReadKey` and
  `WriteAcked` only, which need an empty cache, and nothing calls
  `InvalidateCache`.
* After a rotation the old key is not available for decryption
  (`docs/ARCHITECTURE.md:454`): `ReadKey` knows the present record only.
* A rotation does not always write version N+1 (`docs/ARCHITECTURE.md:448`): two
  `RotateBegins` read the same counter.

### OpenBaoClient, KMSConfig, TransitServer

`OpenBaoClient` is the one client of a process and the goroutines (`Callers`) that
share it. Time is what remains: `left` of what `tokenExpiry` promises, `life[t]`
of what OpenBao grants the token `t`, so that the state space is finite; `late[c]`
bounds how long an answer may take (`Config.Timeout`).

| Code (`client.go`) | Actions |
|---|---|
| 64-159 `NewClient`, `authenticate` | `NewClient` |
| 216-223 read the expiry | `Request` |
| 228 `RenewSelf`, applied by OpenBao; 230-234 | `RenewAccepted`, `Renewed` |
| 228, 237-239 | `RenewFails` |
| 189 login, applied by OpenBao; 198; 201-205 | `LoginAccepted`, `SetToken`, `SetExpiry` |
| 190-196, 244-246 a failed refresh is logged | `LoginFails` |
| 255-269 the request itself | `Finish` |

`api.Client` copies its token into a request when it is built, so `held[c]` is the
token of the request under way, which another goroutine's `SetToken` does not
change. Token names are recycled: `Current` is whichever one the client holds.

`KMSConfig` has the settings that decide how a plugin starts. `TransitServer`
starts with every one of `Settings` and goes through `initialize`: `Lookup`,
then `Initialized`, or `TryCreate`, `Create`, `Created`, `Lookup` again, or
`GiveUp`. `Receive`, `SendCall` are the gRPC calls, `HealthAsk`, `HealthRead`,
`HealthApply` the health loop over the same `PluginStatus` as `KMSServer`. Seen in
the model:

* The keyID of a Transit plugin is `name:v0` for ever: `TransitGetKeyInfo` takes
  `latest_version` from a `float64` only, and gets a `json.Number`
  (`LatestVersion`). So a Transit rotation does not show in Status either,
  against the comment at `internal/kms/server.go:373`.
* The default key type `kuznyechik` passes `Validate` with the provider `transit`
  (`config.go:138` looks at one direction only), and `CreateKey` is then refused
  by OpenBao: such a plugin starts only if the key exists.

`RotateKey`, `UpdateKeyConfig` and `Health` of `transit.go` have no caller.

### CSIProvider

Mounts `m` run at once, each with a client and token of its own, over one cache.

| Code | Actions |
|---|---|
| `provider.go` 96-126 parse, validate | `Mount` |
| `provider.go` 128-135, `auth.go` 61-230 | `LoggedIn`, `Denied` |
| `secrets.go` 78-83 | `Hit` |
| `secrets.go` 80-88 | `Miss` |
| `secrets.go` 137-157 | `Respond`, `RequestFails` |
| `secrets.go` 93-104, 177-183 | `Store`, `NotExtractable` |
| `provider.go` 137-169 | `Answer`, `Reply` |
| `provider.go` 306-362 `Run` | `Start`, `Stop`, `Stopped` |
| process, time, OpenBao | `Crash`, `Tick`, `SecretChanges` |

A string (a path, a key, a name) is the sequence of its words with `/` and `:`
between them, as these are what the code looks for in it. `ReadPath` is how
`readFromOpenBao` rewrites a path: `secret/data/` before one that is in neither
`secret/` nor `kv/`, whatever that has behind it. `Location` is where an object is
read: the server and namespace of the mount's attributes, or the provider's own
(`provider.go:188-202`), and that path. `CacheKey` joins path, key and name with `:`
like `secrets.go:228`, so that distinct objects may have one key.

A fetched secret is the version it was read at with what it was fetched for, `of`: the
name, location, key, encoding and mode of the object, which is what the properties
compare. `cache[k].left` is `expiresAt - now`; an entry at its end is dropped (`get`
never returns it; that it stays in the map is the memory it takes, section 6).

Seen in the model: the cache is shared by all mounts, and its key has no server,
namespace, role, encoding, mode or arguments. Two classes that ask for the same path,
key and file name get whichever was fetched first, even if one of them names another
OpenBao server or namespace, another encoding or another mode; and so do two whose
path, key and name differ but are the same when joined (`a:b` and `c`, `a` and `b:c`).
`Sharing` of an object is what all mounts ask for under its joined name, and it is
what a file may be (`AsAsked`): exactly what the mount asked for if no other mount
asks for anything else there, and one of these things otherwise. Roles, tokens and
arguments are not compared: that a mount gets from the cache what its own role could
not read is not a property. `MCRequests` has such a pair for the servers and such a
pair for the joined names. Nothing in the repository says that this is excluded, so
there is no claim to refute.

An object with `secretArgs` is written to `<mount>/data/<path>`, which is a KV path;
the "dynamic secrets (database, pki, etc.)" of the comment at `secrets.go:131` cannot
be reached, since every path is turned into one under `/data/`.

### SecretMounts

The promise of the CSI provider without its cache, logins, requests and processes: a
mount asks (`Ask`), picks for each object in turn a copy that fits it and is current
or was at most `Horizon` ticks ago (`Pick`), and is answered with all of them
(`Succeed`) or none (`Fail`); the provider may go down in between (`Lose`).
`CSIProvider!Promise` maps `picked` to `got`, but a mount of which an object failed has
picked nothing (`Drop`): `fetchSecrets` goes on with the other objects, whose files
nobody will see. Which files fit an object is `AsAsked`, the same as in `AllOrNothing`,
so `SecretMounts` is given the set of pairs, `Fitting`.

### BaoSecretController

One BaoSecret with its API object `live`, the target `secrets`, the caches
(`seen`, `copies`) and the work queue of controller-runtime (`queued`, `timer`),
and the position of the one worker in `Reconcile`:

| Code (`baosecret_controller.go`) | Actions |
|---|---|
| 56-80 `Get`, which branch | `Begin`, `BeginGone` |
| 80-86 `AddFinalizer`, `Update` | `Finalize` |
| 89-97 `suspendSync` | `Suspend` |
| 147-196 `KVRead`, keys, template | `Read`, `SyncFails` |
| 328-341 `replaceAll`, without end | `ReadEndless` |
| 198-264 `CreateOrUpdate` | `Write`, `SyncFails` |
| 118-136 status | `ReportSynced` |
| 105-116 status after an error | `ReportFailed` |
| 268-289 `handleDeletion` | `Unfinalize` |
| an update returns an error | `UpdateFails` |
| 411-415 watches of BaoSecrets and owned Secrets | `Observe`, `ObserveSecret` |
| `cmd/kubebao-operator/main.go` | `Crash` |
| users, garbage collector, OpenBao | `Create`, `Edit`, `Delete`, `Collect`, `Tamper`, `SourceChanges`, `Outage`, `Recovery` |

Resource versions are the objects themselves: an update is accepted if the
updater's copy equals the object. Two versions that agree in all modelled fields
(they may differ in `lastSyncTime`) are one here, so an update that would meet a
conflict may succeed; `UpdateFails` and `SyncFails` may happen in any case and
stand for those conflicts too. `CreateOrUpdate` works on the cached Secret and
makes no call when that already is as wanted, even if the Secret itself is gone:
the first disjunct of `Write`. An owner reference is set but never removed, and
set only for a target in the namespace of the BaoSecret. An operator that starts
while OpenBao refuses its Kubernetes login has no client until it is restarted
(`main.go:100`), although its health probes succeed: `client`. A request that
outlives the operator is not modelled, nor are two operators at once (which takes
a deployment with several replicas and without `-leader-elect`).

`replaceAll` replaces a placeholder in its own output, so it does not end if a value
contains its placeholder and anything else. `Endless` has the pairs of a spec and a
value for which that is so (the code goes through the keys in the order of a map, so
for some it depends on the run; here it does not). The one worker then stays in
"render" until the operator is restarted, and no other BaoSecret is reconciled
either: `ReadEndless` has no successor but `Crash`, and `DeletionCompletes` and
`Converges` assume `NotStuck`.

`Accepted` is the API server's word on an update of the target: it refuses what it does
not validate (`Invalid`), and any change of the type of a Secret, which line 229
nevertheless assigns. After an edit of `target.type`, or if somebody else has made
the target with another type, every update is refused until somebody deletes the
Secret. A target with another controller (`Foreign`) is refused by
`SetControllerReference` just so. `Tamper` makes all of these: it deletes a target, or
makes or changes one to any of `Others`, keeping its type and controller. A restart fills
the caches from lists, which may be as old as the caches were but not older (there
is one API server), each object on its own.

A Secret is controlled only by a BaoSecret that at some generation asked to own it
(`ReferencesWereAsked`). `asked` is the history this needs, as `synced`, what was applied
last, is for the other properties. It need not be the present generation: the
reference of an earlier policy Owner stays under Orphan, which the next module is
about. Nor does Owner always delete the Secret: a target in another namespace has no
reference.

### ControllerClaims

`OrphansAreKept`: under the policy Orphan the Secret stays
(`baosecret_controller.go:237`, 274-276). It is refuted by a BaoSecret that is changed
from Owner to Orphan, synchronised and deleted: `syncSecret` only ever sets an owner
reference, so the garbage collector takes the Secret (`Collect`).

### ForwardSync

The promise of the BaoSecret controller without caches, queue, conflicts and restarts:
an object is created, edited and removed; its generations are applied (`Apply`), not
always the present one, but never one before that which was applied last; `Report`
makes the status name the present generation, and only if that was applied last;
failures and suspension take it back (`Withdraw`). `BaoSecretController!Forward` maps
`applied` to `synced`, and `reported` to the status: `observed` if `ready`, else 0.

### BaoPolicyController

The same API server, cache and queue, and OpenBao's `policies`.

| Code (`baopolicy_controller.go`) | Actions |
|---|---|
| 48-68 | `Begin`, `BeginGone`, `Finalize` |
| 106-124 client, text, hash against the status | `Sync`, `SyncFails` |
| 126-142 | `Write`, `SyncFails` |
| 84-95 | `ReportSynced` |
| 74-80 | `ReportFailed` |
| 148-176 | `Unfinalize` |
| 66, 77, 91, 172 an update returns an error | `UpdateFails` |
| 210-213, `main.go` | `Observe`, `TimerFires`, `Crash` |
| users, others, OpenBao | `Create`, `Edit`, `Delete`, `Tamper`, `Outage`, `Recovery` |

A text (`ToHCL`) is its rules and the order in which the range over
`allowedParameters` happened to put them, and stands for its hash. The history
variables are `past`, `orderly` and `written`. Seen in the model, and excepted by
`orderly` in `ReadyIsInForce`:

* a BaoPolicy that is only renamed is never written under its new name;
* one that goes from rules A to B and back to A keeps B in OpenBao, if the status
  update after the write of B was lost: the hash of A is still in the status;
* a policy that OpenBao has lost is not written again.

Further: the same rules may have another hash the next time, so that a policy with
several parameters is written again and again; the deletion of a BaoPolicy leaves
the policy in OpenBao (160-166). Not in the model is
`lastSyncTime` (85): each new value of it is a status change that wakes the
controller once more.

### Octets, KuznyechikAEAD, KuznyechikCipher

`KuznyechikAEAD` takes the loops of `kuznyechik_mgm.go` apart, an action per
iteration: `CTRBlock` of `gostCTR`, `Copy` of `fillBlock` and `fillBlockPartial`,
`CMACBlock` of `gostCMAC`. `Encrypt` to `Sealed` is `Encrypt`, `Decrypt` to
`Verified` and `CTRDone` is `Decrypt`; `Alter` is what may happen to the data in
between. The size of a block and of a byte are constants; the two block ciphers of
a master key are any permutations (`AEADAssumption`), for which `deriveSubkey`
and `KuznyechikCipher` stand in the code.

`KuznyechikCipher` is `cipher.go` at its real size, on sequences of 16 bytes in
the order of memory. `s` and `is` are copied from `tables.go`; `t`, `it` and `c`
are computed from them and from the linear map of GOST R 34.12-2015, the way these
tables are generated. The 8192 entries of `t` and `it` and the 32 of `c` in
`tables.go` were compared with these formulas outside TLC, and agree.
`CipherSpec` schedules any key and then calls `Encrypt` and `Decrypt` in any
order, a round per action, at most `Depth` of one more than of the other.

## 4. Runs

Passing runs:

| Run | Instance | Shows |
|---|---|---|
| `KMSServerSafe` | 2 processes with 2 and 1 goroutines, one of which may create the record, with and without a record at first, 2 keys, write errors, crashes, fair | in a safe deployment there is one key for ever, in the record, every label names it, and every plugin opens what any of them sealed; every call is answered |
| `KMSServerFaults` | 1 process with its server, 2 goroutines, 4 keys, all of `Env` but "invalidate" | types; nothing is sealed under a key OpenBao did not store; a process opens what it sealed; refinement of `SealingKeys` |
| `KeyRotation` | 2 requests, versions up to 3, plugin crashes, UI restarts, errors, late writes | when the counter follows the record; it never runs ahead |
| `BaoSecret` | 2 lives of the BaoSecret with 2 generations each, 3 specs: Owner and Orphan for a target in the namespace, and a target outside; operator restarts, targets that others delete | only live BaoSecrets are synchronised; a ready status is of the present generation; Secrets keep their owner, and only one that asked to own them; refinement of `ForwardSync` |
| `BaoSecretLive` | 1 life, 2 generations, one target synchronised, or suspended and of another type; 2 values, of which one makes the template endless; fair; outages, restarts with login, others that delete the target or make it one of another type and controller | deletion completes; the target converges; suspension takes hold |
| `Transit` | health loop and 1 gRPC call, 4 settings (login and given token, default key type, no creation, invalid), lease 5, margin 4, timeout 1, fair; outages, lost answers and leases, crashes, a key made by somebody else | no request trusts an expired token; a plugin serves only with a key; calls are answered; lasting outages are reported |
| `CSIProvider` | 2 mounts, 4 requests over 3 objects, one of them on two servers and one with the cache key of another; 1 secret that changes, up to version 2, and is deleted; lifetime and timeout 1, fair; crashes, stops | stale entries expire, files are fresh, mounts deliver all or nothing; refinement of `SecretMounts`; mounts and stops end |
| `BaoPolicy` | 1 life, 3 generations, 2 specs with different names and rules, one with two texts, fair; outages, lost answers, restarts with login, lost policies | types; a ready policy is in force; the status follows the writes; deletion completes; edits converge |
| `Kuznyechik` | blocks of 4 bits, all plaintexts of up to a block and one of each length up to four, 3 IVs, every altered byte and cut; the cipher with 2 keys, 2 blocks, depth 2 | decryption inverts encryption and refuses altered data before it decrypts a block of it; no gamma repeats; the tag is CMAC; the two directions of the cipher undo each other, and it gives the vector of RFC 7801 |

Each module has a type invariant; those of `KeyManager` and `BaoPolicyController` are in
a run, all of them are proved (section 5).

Runs that refute a statement of the repository (KMSClaims and ControllerClaims above):

| Run | Statement | What the code does |
|---|---|---|
| `ClaimOnlyAbsentCreated` | "if there is no key" (`key_manager.go:60`) | any read error leads to a new key that overwrites the old one |
| `ClaimStatusMoves` | the keyID follows a rotation (`docs/ARCHITECTURE.md:450-451`, `server.go:373`); an outage makes the plugin unhealthy (`docs/TESTING.md:100`, `server.go:356`) | with outages and a rotated record seen again and again, a Kuznyechik plugin stays healthy and keeps its keyID |
| `ClaimOrphansAreKept` | under Orphan the Secret stays (`baosecret_controller.go:237`) | the owner reference of an earlier policy Owner stays too, and the Secret is collected |

**Bounds.** Two goroutines are enough for every race on `mu` and the cache; two
processes cover every disagreement about the shared record, one that may create
it and one that may not. Keys: one that is cached, one that a call holds, one in
the record or in a late write; the fourth lets a rotation come in between. When
all keys are referenced, `Fresh` has no witness and `Generate` waits; `KMSServerFaults`
therefore explores a finite prefix of generations, while two keys are enough for
`KMSServerSafe`: without outages a plugin generates only while the record is absent, and
then nothing refers to a key, so that no call ever waits for one. `MaxVersion`
bounds the versions that rotations write; rotation stops there. Symmetry is used in
`KMSServerFaults` only, over all keys, as no initial record mentions one. No run
disables the deadlock check: a call can always arrive, and the source can always
change. `InvalidateCache`, which nothing in the repository calls, is in no run; the
proofs cover it. Malformed records are in `KMSServerFaults`, not in the run with
liveness; that the lock is released after one is part of `LockInv`.
For the BaoSecret controller two lives show what stale copies of the
first do to the second, and two generations what an edit does to a sync under
way; in `BaoSecret` one value is enough, since its properties do not look at the
data, one type and nothing foreign, since these only stop a sync (Secrets without an
owner come from Orphan and from the target outside); `BaoSecretLive` has
two values, for a target that holds an old one and a template that ends for one only, and
a second type and a controller that stand in the way.
`Transit`: two goroutines are enough for a renewal, a login and a `SetToken` to mix
in every order, since each looks at one token and one expiry; three token names are
the most that can be referred to. `Margin` is four timeouts, which
`ClientAssumption` demands: in the code the ratio is 10 (five minutes over 30
seconds). `CSIProvider`: the second mount is the one that fills or replaces the
entry; two versions and deletions of one secret let an older answer be stored over a
newer one, and the other secrets stay, as entries do not depend on each other; a lifetime and a timeout of one tick let an answer be late, an entry expire
and a change come before, between and after. `BaoPolicy`: three generations are an
edit and its reversal; one life, as an object of a second life starts from an empty
status. `Kuznyechik`: with 4-bit blocks half a counter counts four blocks, so it
wraps from three of the four values it can start from; a real message is far shorter
than 2^64 blocks. The parts of a CMAC end at every offset of a block. A tag of four bits
can still not accept a message with one changed byte, since all other blocks of the
chain are the same and the cipher is a permutation; two changes could cancel out, so
`Alter` makes one. The cipher runs with the key and block of RFC 7801 and one other
each.

**Fairness.** `FairServerSpec` has the `CallFairness` of `KeyManager`: the Go scheduler runs every goroutine (weak
fairness of `Step`); waiting for `km.mu` is not overtaken for ever, because a
waiting `Lock` holds back new `RLock`s and `sync.Mutex` hands over to a starving
waiter; the API client's retries are finite, so the write ends (both are the
strong fairness of `Settle`). Nothing is assumed of the environment: OpenBao need not come back.
`Fairness` of the BaoSecret controller: worker, informers, timers and garbage
collector keep running (weak fairness), and a step that is possible again and
again is not hit by a conflict, an error or a restart every time (strong
fairness). OpenBao need not come back and nobody has to delete anything.
What the code itself can make impossible for ever is not assumed away by fairness, but
named in the properties: `NotStuck` (an endless template ends with a restart; nothing
in the code forces one), `Untampered` (from some time on only the controller and the
garbage collector change Secrets) and `Synchronisable` (the template ends, the API
server accepts the Secret, and the target has neither another type nor another
controller). Strong fairness of `Write` asks nothing when the update is refused,
since `Write` is not enabled then.
`HealthFairness`: the ticker fires for ever and its request ends by the client's
timeout. `FairTransitSpec`: goroutines run and requests end by their timeout (weak
fairness of a call's step, and of the loop's, whose ticker fires for ever).
`FairCSISpec`: the same for mounts, and `GracefulStop` returns once no mount is left;
no fairness of `Tick`, changes or kubelet. `PolicyFairness` is that of the BaoSecret
controller without the garbage collector.

## 5. Proofs

The proofs hold for all values of the constants that satisfy the assumption of
their module (`KeyManagerAssumption`, `ServerAssumption`, `ClientAssumption`,
`CSIAssumption`, ...), which TLC evaluates in the runs. None bounds the number of
processes, goroutines, mounts or keys.

The first part of `KMS_proofs`, on the key manager, proves one inductive invariant in layers:

* `TypeOK` with `KeyInv`: the keys that calls hold, processes cache and
  ciphertexts use were stored first. `TypeOK` alone is not inductive, since
  `WriteApplied` stores `key[c]`, which must then be a key and not `NoKey`.
* `LockInv`: the lock and the program counters agree, and a goroutine in the
  critical section has an empty cache. It needs `TypeOK` only.
* `OneKeyInv` (without "invalidate"): a key that was handed out is the one that
  is cached. It needs `LockInv`: only the holder of the lock fills the cache, and
  it was empty.
* `RecordInv` (in safe deployments): caches, calls and ciphertexts, those that a
  Decrypt was given included, all use the key in the record, and whoever is about to write finds it absent or equal to
  what it writes. It needs `LockInv` (one writer in a process) and
  `SafeDeployment` (one process that may create the key).

From it follow `SealedKeysAreStored`, `OwnCiphertextsOpen`,
`CiphertextsAreRecoverable` (the key of every ciphertext is in the record, and a
Decrypt that comes to a key, in any process, comes to that of its ciphertext),
`TheRecordIsPermanent` and the step simulation of
`SealingKeys`, `Refinement`. `OneKeyInv` and the two theorems that rest on it
assume that "invalidate" is not in `Env`: with `InvalidateCache` a call that
holds a key can finish after the process has adopted another one.

Its second part first shows that the KMS server implements `KeyManager!Spec`
(`ServerImplementsKeyManager`), so that everything above holds in it, and adds
`StatusInv` (serving processes are healthy under version 1, labels are 1) and
`VersionInv` (the record has version 1 in safe deployments). From these follow
`ServerTypeCorrect` and `LabelsAreTrue`.

Its third part, on `KeyRotation`, proves types (`RotationTypeCorrect`) and two invariants.
`CounterInv` strengthens `CounterFollowsRecord`: if only the UI writes the record
and while `orderly`, at most one
rotation is under way, and the record has the version of the counter, or of the
one after it if that rotation has been applied but not counted. `CountInv`
strengthens `CounterCountsWrites`: every rotation that is counted or waits for
its answer has stored a key of its own. The rotation module does not implement
`KeyManager`: a write of the UI that times out goes into `late`, where
`KeyManager` has only writes of its own calls.

`BaoSecretController_proofs` proves types (`ControllerTypeCorrect`) and:

* `CopiesInv`: the cache and the copy in `Reconcile` are never ahead of the API
  server, nor the latter of the former; a copy with the finalizer and without a
  deletion is of a BaoSecret that still exists, because only `Unfinalize` removes
  the finalizer, from a current copy that says it is being deleted, and by then
  the cache says so too. A restart fills the cache with what it held before or with the present object, so it
  changes none of this. `SyncsAreOfLiveOnes` follows.
* `ReadyInv`: what is about to be reported is what was written last, and once the
  present generation is reported no older copy is left to be synchronised.
  `ReadyMeansCurrent` follows.
* `OwnersStay` needs no more than types: a write is refused if the cached Secret
  has another owner, and conflicts if the cache is old.
* `AskedInv`: not only what controls a Secret asked to, but also what controls the
  cached copy of it, which a write puts back, and the copies of the BaoSecret that may
  set a reference next. `OnlyAskedReferences` follows.
* `ForwardInv`: no copy of a BaoSecret, in the cache or in `Reconcile`, is of a
  generation before the one applied last. A sync takes its generation from such a copy,
  so it goes forward, and since `CopiesInv` orders the copies a restart does not break
  this. `SyncsGoForward` is the refinement: `ForwardSimulates` maps each action to one
  of `ForwardSync` or a stutter, with `CopiesInv` for `Apply` (only a BaoSecret that
  still exists is applied) and `ReadyInv` for `Report`.

`TransitServer_proofs` proves `TransitTypeCorrect`, `ServingPluginsHaveAKey` and
`RequestsTrustLiveTokens` from `ServerInv`:

* `FormInv`: types, with `HeldInv` (who is in a request holds a token) and `ModeInv`
  (a client with a given token never refreshes; one that logged in knows only tokens
  that end). Types alone are not inductive: a renewal is granted what its token has
  left, which must be a number, and `NewToken` needs a free name, which is a
  counting argument (`NewTokenIsUnused`).
* `TimeInv`: `tokenExpiry` is at most three timeouts ahead of the token the client
  holds (`ExpiryInv`), because a renewal may have been answered late, for a token
  that another goroutine has replaced since by one whose login was answered late, too;
  `Timely` says where each goroutine is in this. A request that finds more than
  `Margin` left therefore has a timeout to reach OpenBao, and needs no more. The argument needs a
  margin of four timeouts. In the code it is five minutes, and nothing compares it
  with `Config.Timeout`.
* `PhaseInv`: past the creation of the key there is one.

`CSIProvider_proofs` proves `CSITypeCorrect`, `StaleEntriesAlwaysExpire`,
`DeliveredFilesAreFresh`, `MountsDeliverAllOrNothing` and `MountsKeepThePromise`:

* `IndexInv`: where a mount is in its list of objects, which types need, since the
  next object must exist to be fetched.
* `LateInv`: the version in an answer under way was replaced no longer ago than the
  answer is late. A late answer is stored with a full lifetime, so the age of an
  entry (`StaleEntriesExpire`) is bounded by lifetime and timeout together.
* `GatherInv`: every cache entry was fetched for some mount's object with its key
  (`CacheInv`), whatever server or encoding that names, a mount has got, in order and as it asked, the objects before its next
  one (`Gathered`), as long as nothing has failed. `Complete` is what `AllOrNothing`
  says, of replies only, and is not inductive by itself.

`MountsKeepThePromise` is the refinement of `SecretMounts`, from all of these: a file is
picked either from the cache, where it is one of the things that mounts with its
joined name ask for (`HitsFit`, from `CacheInv`) and is
young enough (`StaleEntriesExpire`), or from an answer, which fits by construction and is
young enough by `LateInv` (`DeliverPicks`); and a mount is answered when it has gone through its
objects, which is when it has as many files as objects unless one failed (`Gathered`).

`BaoPolicyController_proofs` proves `PolicyTypeCorrect`, `ReadyPoliciesAreInForce`
and `StatusNamesTheLastWrite`:

* `CopiesInv`: as in the BaoSecret controller, the cache is never ahead of the API
  server, nor the copy in `Reconcile` of the cache, and a copy of the same generation
  has the same spec.
* `StatusInv`: what is about to be reported is in the status already or was written
  last (`WriteInv`), and while the edits are orderly and the status names the present
  rules, these are in OpenBao and no copy with older ones is left that could be written
  over them (`InForceInv`). `ReadyIsInForce` alone says nothing of such copies.

`Octets_proofs` has what the next two need of bytes and numbers. `xor` is a group
on bytes that stays below every power of two; this goes by halving both arguments,
like the definition. The library states induction and recursion with operators as
parameters; here they are rebuilt with sets and functions in their place
(`Induction`, `Recursion`, `HalvingInduction`), from the theorem that a set of
numbers that is not empty has a least element.

`KuznyechikAEAD_proofs` proves `GammaNeverRepeatsInvariant`,
`TagIsCMACInvariant` and `OpensToThePlaintextInvariant` for messages of any length
that half a counter can count (2^64 blocks in Go; `AEADAssumption`), any even block
size, bytes of up to 8 bits, and any permutations of the blocks in place of the
cipher. The inductive invariant is `Works`, in layers:

* `Shape`: types, and where the two loops are. `InCall` says which parts of the
  state a call uses; `CTRLen` relates what `gostCTR` still has to do to the counters
  it used, without which nothing bounds them; `MACPosition` relates block, slice and
  offset of `gostCMAC` to one position in IV and ciphertext together.
* `Counting`: the counters used so far are the first ones of the IV. Since the
  half that is incremented repeats only after all its values (`Ahead`), no two are
  equal, wherever it starts and although it wraps.
* `MACWorks`: `cbc` is the CMAC chain up to the present block, and `buf` the
  beginning of the next one, padded in the last. The definition of CMAC takes the
  message as one sequence; that the code splits it over two slices is `MACPosition`.
* `CTRWorks`: `dst` is what the input becomes under the gamma so far, and `src` the
  rest of it. Encrypting twice under one gamma gives the plaintext back.
* `Storing`: what is stored is what `Encrypt` would return, cut or with one byte
  changed if `altered`, and what `Decrypt` takes apart is that. That altered data is
  refused before a block of it is decrypted, as `Decrypt` compares the tags first,
  rests on `ChangedByteChangesTag`: two messages of one length that differ in one byte
  have chains that are equal up to its block, differ in it, and stay different, as the
  cipher is a permutation.

`KuznyechikCipher_proofs` proves `CipherInvertsInvariant` for every key, block and
number of calls. The inductive invariant `CipherInv` says, beside types
and how far the key schedule is (`Scheduling`), that the keys of the two directions
belong together (`RoundKeysMatch`: `drk[1]` is `erk[1]`, the others are the inverse of
L of theirs) and that `block`, within a call too, is what the calls so far make of
`plain` (`BlockFollows`; a call lasts ten actions, so the two ends of it say too
little). A round of the code looks up sixteen entries of a table with the substitution
and L built in, and decryption uses the inverse of L one round early on the keys, so
the argument has to be algebraic: the multiplication of the field is linear in both
arguments and associative, so `l` is linear, `LStep` and `LStepBack` are linear and
undo each other, and so are and do their sixteenfold iterates; an entry of the table
is then L of one byte's part of the block (`LookupIs`), their sum L of all of it
(`LookupsAre`), and L of a sum of block and key the sum of both
(`RoundIs`). `EncryptionIsPermutation` says it of any ten round keys, which is what
`AEADAssumption` asks of the cipher. That the subkeys of `deriveSubkey` are keys of
it is not part of either module.

Only model-checked:

* liveness, which is out of the prover's reach: `CallsAreAnswered`,
  `DeletionCompletes`, `Converges`, `SuspensionHolds`, `TransitCallsAreAnswered`,
  `OutagesAreReported`, `MountsAreAnswered`, `ShutdownEnds`,
  `PolicyDeletionCompletes`, `PolicyConverges`;
* `CipherIsStandard`, one vector of RFC 7801, which is a matter of computing. The
  proof above uses of the tables only that `s` and `is` undo each other, that `c`
  are blocks, and that the last coefficient of `l` is 1; that they are those of the
  standard is for the run.

## 6. Not modelled

Parts that are left out:

* the handlers of the web UI but `RotateKey`: they read and show state, or
  build a manifest for the user to apply, and change nothing (metrics history and
  sessions stay in memory and decide nothing);
* `KVDelete`, `KVList`, `SysStats` and the like in `client.go`, which only the UI
  calls, to show something; `RotateKey`, `UpdateKeyConfig` and `Health` of
  `transit.go`, which nothing calls;
* two operators at once, and requests that outlive an operator;
* Helm charts, manifests, generated code (`zz_generated.deepcopy.go`,
  `service.pb.go`), the front end, gRPC and HTTP plumbing, TLS, logging.

Of the parts that are modelled:

* `keyVersion` of the key manager (it only reaches the log), empty arguments (refused
  before anything happens), counters and statistics, the zeroing of key bytes
  beyond the point where a key is dropped;
* the difference between a graceful stop and a crash without calls, but for the CSI
  provider, whose stop waits for mounts;
* addresses, intervals and file names in configurations, but for the CSI provider's
  address: `ValidOpenBao` omits the check that one is set (`internal/openbao/config.go:107`);
* errors of `rand.Read` (`key_manager.go:114`; the Go version of the module never
  returns one) and of the cipher's constructor and `Encrypt`
  (`kuznyechik_provider.go:44-52`), which only a key of another length causes;
* `Request` reads the expiry and, if no refresh is due, builds the request in one step.
  `Less`, the saturating subtraction of the model's clock, stands for no code;
* roles, arguments and tokens of CSI requests as far as they decide what OpenBao lets a
  mount read: any request may be refused;
* the entries of `t`, `it` and `c` in `tables.go`: the runs and proofs use the formulas,
  so that a wrong entry in the file would not show in them;
* `lastSyncTime` of both controllers;
* the contents of mounted files (versions and fields stand for them), the version and
  rotation settings of the CSI configuration, and expired entries that stay in its
  cache;
* `deriveSubkey`, which is a pair of permutations per master key.
