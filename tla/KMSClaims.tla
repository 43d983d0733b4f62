----------------------------- MODULE KMSClaims ------------------------------
(***************************************************************************)
(* What the documentation and the comments of the repository say of the KMS *)
(* plugin, as properties of KMSServer.  The code does not do these things:  *)
(* each is refuted by a run of its own.                                     *)
(***************************************************************************)
EXTENDS KMSServer

\* "If there is no key and createIfNotExists, generates": key_manager.go:60.
\* A key that is in the record is not replaced by GetOrCreateKey.
OnlyAbsentKeysAreCreated == [][kv.key \in Keys => kv'.key = kv.key]_vars

\* The health checks of p find the record again and again.
RecordIsFound(p) == []<>(probe[p] \notin {NoVersion, NoProbe})

\* They find an error again and again.
OutagesAreFound(p) == []<>(probe[p] = NoVersion)

(***************************************************************************)
(* Two claims about performHealthCheck.  It resets healthy on errors        *)
(* (server.go:356; docs/TESTING.md:100, NF-R-01, "OpenBao недоступен → KMS  *)
(* health = unhealthy"), and the keyID follows the version that a rotation  *)
(* writes (server.go:373; docs/ARCHITECTURE.md:450-451).  Each of them      *)
(* implies what follows: a plugin whose checks find both outages and a      *)
(* record that was rotated to another version turns unhealthy some time, or *)
(* shows another keyID.  So one behaviour that does not do it refutes both. *)
(***************************************************************************)
StatusMoves ==
    \A p \in Plugins :
        <>[](up[p] /\ kv.version # 1) /\ RecordIsFound(p) /\ OutagesAreFound(p) =>
            <>(up[p] /\ (~healthy[p] \/ keyID[p] # 1))

=============================================================================
