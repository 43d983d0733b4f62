---------------------------- MODULE PluginStatus ----------------------------
(***************************************************************************)
(* What a KMS plugin tells the API server about itself: the keyID and the   *)
(* healthy flag behind Status (internal/kms/server.go), set by initialize   *)
(* and by the health loop.  The encryption provider is only seen through    *)
(* its GetKeyInfo, whose answer, a version number or NoVersion for an       *)
(* error, comes in as the parameter info; KMSServer supplies it.            *)
(*                                                                         *)
(* performHealthCheck asks the provider before it takes s.mu: the answer    *)
(* can be old when it is applied.  The keyID "name:vN" is modelled by N.    *)
(***************************************************************************)
EXTENDS Naturals

CONSTANTS
    Plugins,
    Provider,           \* config.EncryptionProvider: "kuznyechik" or "transit"
    Creators,           \* the processes with config.CreateKeyIfNotExists
    NoVersion,          \* GetKeyInfo failed; the keyID before initialize
    NoProbe             \* the health loop waits for its ticker

VARIABLES
    keyID,      \* keyID[p]: the version in s.keyID
    healthy,    \* healthy[p]: s.healthy
    probe       \* probe[p]: a GetKeyInfo answer not yet applied, or NoProbe

Init ==
    /\ keyID = [p \in Plugins |-> NoVersion]
    /\ healthy = [p \in Plugins |-> FALSE]
    /\ probe = [p \in Plugins |-> NoProbe]

\* Kuznyechik starts without a key that the first Encrypt may create.
SoftStart(p) == Provider = "kuznyechik" /\ p \in Creators

InitializeBlank(p, info) ==
    /\ info # NoVersion \/ SoftStart(p)
    /\ keyID' = [keyID EXCEPT ![p] = IF info = NoVersion THEN 0 ELSE info]
    /\ healthy' = [healthy EXCEPT ![p] = TRUE]
    /\ UNCHANGED probe

\* initialize; without a key and without a soft start the process gives up.
Initialize(p, info) ==
    /\ info # NoVersion \/ SoftStart(p)
    /\ keyID' = [keyID EXCEPT ![p] = IF info = NoVersion THEN 1 ELSE info]
    /\ healthy' = [healthy EXCEPT ![p] = TRUE]
    /\ UNCHANGED probe

\* A tick of the health loop: performHealthCheck calls GetKeyInfo.
ReadKeyInfo(p, info) ==
    /\ probe[p] = NoProbe
    /\ probe' = [probe EXCEPT ![p] = info]
    /\ UNCHANGED <<keyID, healthy>>

ApplyFailureToNone(p) ==
    /\ probe[p] = NoVersion
    /\ probe' = [probe EXCEPT ![p] = NoProbe]
    /\ UNCHANGED <<keyID, healthy>>

\* The check failed: unhealthy, except for a Kuznyechik that was healthy.
ApplyFailure(p) ==
    /\ probe[p] = NoVersion
    /\ healthy' = IF Provider = "kuznyechik" /\ healthy[p]
                    THEN healthy
                    ELSE [healthy EXCEPT ![p] = FALSE]
    /\ probe' = [probe EXCEPT ![p] = NoProbe]
    /\ UNCHANGED keyID

\* The check succeeded: healthy, under the version it found.
ApplySuccess(p) ==
    /\ probe[p] \notin {NoVersion, NoProbe}
    /\ keyID' = [keyID EXCEPT ![p] = probe[p]]
    /\ healthy' = [healthy EXCEPT ![p] = TRUE]
    /\ probe' = [probe EXCEPT ![p] = NoProbe]

\* The process is gone, and its next life starts from NewServer.
Lose(p) ==
    /\ keyID' = [keyID EXCEPT ![p] = NoVersion]
    /\ healthy' = [healthy EXCEPT ![p] = FALSE]
    /\ probe' = [probe EXCEPT ![p] = NoProbe]

=============================================================================
