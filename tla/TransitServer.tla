--------------------------- MODULE TransitServer ---------------------------
(***************************************************************************)
(* The KMS plugin with encryptionProvider "transit": the gRPC server and its *)
(* health loop (internal/kms/server.go) over TransitClient (transit.go) and  *)
(* the shared OpenBao client.  It starts by looking the key up, which it may *)
(* create, in requests that can fail one by one.                             *)
(*                                                                         *)
(* Loop is the goroutine of main, then of the health loop; Calls are the     *)
(* gRPC calls.  PluginStatus holds the keyID and the health flag.            *)
(***************************************************************************)
EXTENDS OpenBaoClient, KMSConfig

CONSTANTS
    Calls,
    Loop,
    Plugin,
    Settings,           \* the environments the plugin is started with
    MaxVersion,         \* bound: versions of the Transit key
    NoVersion,
    NoProbe

ASSUME TransitAssumption ==
    /\ Callers = Calls \cup {Loop} /\ Loop \notin Calls
    /\ MaxVersion \in Nat \ {0}
    /\ NoVersion \notin Nat /\ NoProbe \notin Nat /\ NoVersion # NoProbe

VARIABLES
    phase,      \* "down", "lookup", "create", "again": initialize; "serving"
    config,     \* the settings of this life
    latest,     \* OpenBao: the latest version of the key, 0 without the key
    keyID, healthy, probe

S == INSTANCE PluginStatus WITH
        Plugins <- {Plugin}, Provider <- "transit", Creators <- {}

status == <<keyID, healthy, probe>>
transitVars == <<clientVars, phase, config, latest, status>>

TransitInit ==
    /\ ClientInit
    /\ phase = "down"
    /\ config \in {FromEnvironment(s) : s \in Settings}
    /\ latest = 0
    /\ S!Init

-----------------------------------------------------------------------------
\* What OpenBao makes of the loop's request, CreateKey or GetKeyInfo, if it
\* accepts the token.
Succeeds ==
    /\ Accepted(held[Loop])
    /\ IF phase = "create" THEN config.keyType \in TransitTypes ELSE latest > 0

\* Creating a key that exists changes nothing.
Effect ==
    latest' = IF phase = "create" /\ Succeeds /\ latest = 0 THEN 1 ELSE latest

\* A gRPC call is answered with what OpenBao made of it, or with an error.
SendCall(c) ==
    /\ Finish(c)
    /\ UNCHANGED <<phase, config, latest, status>>

\* A request of the loop ends.  It may have been applied although its answer is
\* lost.
Reply(ok) ==
    /\ Finish(Loop)
    /\ Effect
    /\ ok => Succeeds
    /\ ~ok => ~Succeeds \/ "lostReply" \in Env

\* TransitGetKeyInfo takes latest_version only from a float64, and the API client
\* decodes numbers to json.Number: the version stays 0.
LatestVersion == 0
Info(ok) == IF ok THEN LatestVersion ELSE NoVersion

-----------------------------------------------------------------------------
\* main: the configuration, then NewServer up to initialize.
Start ==
    /\ phase = "down"
    /\ \E s \in Settings :
          /\ config' = FromEnvironment(s)
          /\ Valid(config') /\ config'.encryptionProvider = "transit"
          /\ NewClient(config'.token)
    /\ phase' = "lookup"
    /\ UNCHANGED <<baoUp, callVars, latest, status>>

\* initialize: GetKeyInfo, and once more after CreateKey.
Lookup ==
    /\ phase \in {"lookup", "again"}
    /\ Request(Loop)
    /\ UNCHANGED <<phase, config, latest, status>>

Create ==
    /\ phase = "create"
    /\ Request(Loop)
    /\ UNCHANGED <<phase, config, latest, status>>

InitializedSoftly(ok) ==
    /\ phase \in {"lookup", "again"}
    /\ Reply(ok)
    /\ S!Initialize(Plugin, LatestVersion)
    /\ phase' = "serving"
    /\ UNCHANGED config

Initialized(ok) ==
    /\ phase \in {"lookup", "again"}
    /\ Reply(ok)
    /\ S!Initialize(Plugin, Info(ok))
    /\ phase' = "serving"
    /\ UNCHANGED config

TryCreate ==
    /\ phase = "lookup" /\ config.create
    /\ Reply(FALSE)
    /\ phase' = "create"
    /\ UNCHANGED <<config, status>>

Created ==
    /\ phase = "create"
    /\ Reply(TRUE)
    /\ phase' = "again"
    /\ UNCHANGED <<config, status>>

\* The process ends; the next one starts from nothing.
Exit ==
    /\ LoseClient
    /\ phase' = "down"
    /\ S!Lose(Plugin)
    /\ UNCHANGED <<baoUp, config>>

\* initialize returns an error, if a request failed: os.Exit(1).
GiveUp ==
    /\ cpc[Loop] = "send"
    /\ phase \in (IF config.create THEN {"create", "again"} ELSE {"lookup"})
    /\ ~Succeeds \/ "lostReply" \in Env
    /\ Effect
    /\ Exit

Crash == "crash" \in Env /\ phase # "down" /\ Exit /\ UNCHANGED latest

-----------------------------------------------------------------------------
\* Encrypt and Decrypt are one request each, with the same needs.
Receive(c) ==
    /\ phase = "serving"
    /\ Request(c)
    /\ UNCHANGED <<phase, config, latest, status>>

\* The ticker fires: performHealthCheck.
HealthAsk ==
    /\ phase = "serving" /\ probe[Plugin] = NoProbe
    /\ Request(Loop)
    /\ UNCHANGED <<phase, config, latest, status>>

HealthRead(ok) ==
    /\ phase = "serving"
    /\ Reply(ok)
    /\ S!ReadKeyInfo(Plugin, Info(ok))
    /\ UNCHANGED <<phase, config>>

HealthApply ==
    /\ S!ApplyFailure(Plugin) \/ S!ApplySuccess(Plugin)
    /\ UNCHANGED <<clientVars, phase, config, latest>>

\* The key is rotated, or made, by somebody else.
Rotate ==
    /\ "rotate" \in Env /\ latest < MaxVersion
    /\ latest' = latest + 1
    /\ UNCHANGED <<clientVars, phase, config, status>>

Weather ==
    /\ Tick \/ Outage \/ Recovery
    /\ UNCHANGED <<phase, config, latest, status>>

RefreshStep(c) == Refresh(c) /\ UNCHANGED <<phase, config, latest, status>>

CallStep(c) == RefreshStep(c) \/ SendCall(c)

LoopStep ==
    \/ RefreshStep(Loop)
    \/ Lookup \/ Create \/ TryCreate \/ Created \/ GiveUp
    \/ \E ok \in BOOLEAN : Initialized(ok) \/ HealthRead(ok)
    \/ HealthAsk \/ HealthApply

TransitNext ==
    \/ \E c \in Calls : Receive(c) \/ CallStep(c)
    \/ Start \/ LoopStep \/ Crash \/ Rotate \/ Weather

TransitSpec == TransitInit /\ [][TransitNext]_transitVars

\* Goroutines run, requests end by their timeout and the ticker fires.  OpenBao need
\* not come back, and nobody has to restart the plugin.
FairTransitSpec ==
    /\ TransitSpec
    /\ \A c \in Calls : WF_transitVars(CallStep(c))
    /\ WF_transitVars(LoopStep)

-----------------------------------------------------------------------------
TransitTypeOK ==
    /\ ClientTypeOK
    /\ phase \in {"down", "lookup", "create", "again", "serving"}
    /\ config \in {FromEnvironment(s) : s \in Settings}
    /\ latest \in 0..MaxVersion
    /\ keyID \in [{Plugin} -> {0, NoVersion}]
    /\ healthy \in [{Plugin} -> BOOLEAN]
    /\ probe \in [{Plugin} -> {0, NoVersion, NoProbe}]

\* A plugin serves only once the Transit key exists, whichever of its three
\* requests failed on the way, and whoever made the key.
ServingHasKey == phase = "serving" => latest > 0

\* A gRPC call ends, whatever happens to OpenBao, the token and its refresh.
TransitCallsAreAnswered == \A c \in Calls : cpc[c] # "idle" ~> cpc[c] = "idle"

\* A plugin that cannot reach OpenBao any more ends up reporting itself unhealthy
\* (or not at all): here, unlike with Kuznyechik, no outage stays hidden.
OutagesAreReported == <>[](~baoUp) => <>[](~healthy[Plugin])

=============================================================================
