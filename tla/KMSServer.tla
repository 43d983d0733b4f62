----------------------------- MODULE KMSServer ------------------------------
(***************************************************************************)
(* The KMS plugin as the API server sees it: KeyManager behind the gRPC     *)
(* server of internal/kms/server.go, with the state of its Status answers   *)
(* (PluginStatus) and the keyID that every EncryptResponse carries.         *)
(*                                                                         *)
(* Server.Encrypt reads s.keyID only after the provider has sealed, while   *)
(* the health loop may change it, so a label and the key it stands for are  *)
(* read at different moments.  A graceful stop is a Crash at a moment when  *)
(* no call is in progress; Status reads keyID and healthy and changes       *)
(* nothing.                                                                 *)
(***************************************************************************)
EXTENDS KeyManager

CONSTANTS
    NoVersion,          \* GetKeyInfo failed; the keyID before initialize
    NoProbe             \* the health loop waits for its ticker

ASSUME ServerAssumption == NoVersion \notin Nat /\ NoProbe \notin Nat /\ NoProbe # NoVersion

VARIABLES
    keyID,      \* keyID[p], healthy[p] and probe[p]: see PluginStatus
    healthy,
    probe,
    responses   \* history: the key and the keyID of every EncryptResponse

S == INSTANCE PluginStatus WITH Provider <- "kuznyechik"

status == <<keyID, healthy, probe>>
serverVars == <<vars, status, responses>>

\* parseKeyData takes the version only from a float64, and the API client
\* decodes every JSON number to a json.Number: what is left is the default.
ParsedVersion(r) == 1

\* KuznyechikProvider.GetKeyInfo: an unreadable record and a malformed one are
\* the same error.
Info == IF KeyReadable THEN ParsedVersion(kv) ELSE NoVersion

\* NewServer and Run.
Start(p) ==
    /\ Boot(p)
    /\ S!Initialize(p, Info)
    /\ UNCHANGED responses

Die(p) ==
    /\ Crash(p)
    /\ S!Lose(p)
    /\ UNCHANGED responses

\* One step of a call; the last one of an Encrypt reads the label.
Serve(c) ==
    /\ Step(c)
    /\ responses' = IF pc[c] = "respond"
                      THEN responses \cup {[key |-> key[c], keyID |-> keyID[Host[c]]]}
                      ELSE responses
    /\ UNCHANGED status

Accept(c, x) == Receive(c, x) /\ UNCHANGED <<status, responses>>

HealthRead(p) ==
    /\ up[p]
    /\ S!ReadKeyInfo(p, Info)
    /\ UNCHANGED <<vars, responses>>

HealthApply(p) ==
    /\ S!ApplyFailure(p) \/ S!ApplySuccess(p)
    /\ UNCHANGED <<vars, responses>>

\* What happens outside the processes and does not rotate the key.
Weather ==
    /\ \/ \E p \in Plugins : InvalidateCache(p)
       \/ \E r \in Record : LateWrite(r)
       \/ WriteMalformed \/ Outage \/ Recovery
    /\ UNCHANGED <<status, responses>>

\* The operator rotates the key by hand, under any version.
RotateByHand(k, v) == Rotate(k, v) /\ UNCHANGED <<status, responses>>

ServerInit == Init /\ S!Init /\ responses = {}

ServerStep ==
    \/ \E c \in Calls : Serve(c)
    \/ \E c \in Calls, x \in Keys \cup {NoKey, BadKey} : Accept(c, x)
    \/ \E p \in Plugins : Start(p) \/ Die(p) \/ HealthRead(p) \/ HealthApply(p)
    \/ Weather

ServerNext == ServerStep \/ \E k \in Keys, v \in 1..MaxVersion : RotateByHand(k, v)

ServerSpec == ServerInit /\ [][ServerNext]_serverVars

\* The ticker fires for ever and GetKeyInfo ends by config.Timeout.
HealthFairness(p) == WF_serverVars(HealthRead(p)) /\ WF_serverVars(HealthApply(p))

FairServerSpec ==
    /\ ServerSpec
    /\ \A c \in Calls :
           WF_serverVars(Serve(c)) /\ SF_serverVars(Settle(c) /\ Serve(c))
    /\ \A p \in Plugins : WF_serverVars(Start(p)) /\ HealthFairness(p)

-----------------------------------------------------------------------------
Versions == 1..MaxVersion

ServerTypeOK ==
    /\ keyID \in [Plugins -> Versions \cup {NoVersion}]
    /\ healthy \in [Plugins -> BOOLEAN]
    /\ probe \in [Plugins -> Versions \cup {NoVersion, NoProbe}]
    /\ responses \subseteq [key : Keys, keyID : Versions]

\* A record that is there when the plugins start has version 1.
StartsAtOne == \A r \in InitialRecords : r.key # NoKey => r.version = 1

\* Goroutines run in serving processes only.  A serving process is healthy under
\* version 1, and its health loop never finds another; every label is 1.
StatusInv ==
    /\ \A c \in Calls : pc[c] # "idle" => up[Host[c]]
    /\ \A p \in Plugins : up[p] => healthy[p] /\ keyID[p] = 1
    /\ \A p \in Plugins : probe[p] \in {1, NoVersion, NoProbe}
    /\ \A r \in responses : r.key \in sealed /\ r.keyID = 1

\* In a safe deployment the record never has another version.
VersionInv == SafeDeployment /\ StartsAtOne => (kv.key # NoKey => kv.version = 1)

\* In a safe deployment whose record starts at version 1, or absent, the label
\* of every EncryptResponse names the record that holds the key of its
\* ciphertext, even when initialize had to guess it before the key existed.
LabelsNameTheRecord ==
    SafeDeployment /\ StartsAtOne =>
        \A r \in responses : r.key = kv.key /\ r.keyID = kv.version

=============================================================================
