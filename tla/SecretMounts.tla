---------------------------- MODULE SecretMounts ----------------------------
(***************************************************************************)
(* What the CSI provider promises, without its cache, its requests and its  *)
(* logins: each mount picks the secrets it asked for, one after the other,   *)
(* each a copy that is current or was at most Horizon ticks ago, and then   *)
(* delivers all of them or none.                                            *)
(***************************************************************************)
EXTENDS Integers, Sequences

CONSTANTS
    Mounts, Requests, NoRequest, Locations,
    Files,      \* the copies of secrets that can be handed out
    Secrets,    \* the states of a secret
    Fits,       \* <<file, request, object>>: the files an object may be delivered as
    Horizon     \* the age beyond which no copy is handed out

VARIABLES
    kv,         \* the secret at each location
    settled,    \* the ticks since it changed, up to Horizon + 1
    asked,      \* asked[m]: the request m is at, or NoRequest
    picked,     \* picked[m]: the files it has so far
    delivery    \* delivery[m]: the [code, files] of its answer

Pending == [code |-> "none", files |-> <<>>]
Failures == [code : {"InvalidArgument", "PermissionDenied", "Internal"}, files : {<<>>}]

Init ==
    /\ kv \in [Locations -> Secrets]
    /\ settled = [l \in Locations |-> Horizon + 1]
    /\ asked = [m \in Mounts |-> NoRequest]
    /\ picked = [m \in Mounts |-> <<>>]
    /\ delivery = [m \in Mounts |-> Pending]

\* A request may be turned down at once.
Ask(m, r) ==
    /\ asked[m] = NoRequest
    /\ asked' = [asked EXCEPT ![m] = r]
    /\ \E a \in Failures \cup {Pending} : delivery' = [delivery EXCEPT ![m] = a]
    /\ UNCHANGED <<kv, settled, picked>>

Underway(m) == asked[m] # NoRequest /\ delivery[m] = Pending

Stale(file) ==
    \/ file.version # kv[file.of.location].version
    \/ kv[file.of.location].fields = {}

\* The next object gets a file that fits it and is no older than Horizon.
Pick(m) ==
    /\ Underway(m)
    /\ Len(picked[m]) < Len(asked[m].objects)
    /\ \E file \in Files :
           /\ <<file, asked[m], asked[m].objects[Len(picked[m]) + 1]>> \in Fits
           /\ Stale(file) => settled[file.of.location] <= Horizon
           /\ picked' = [picked EXCEPT ![m] = Append(@, file)]
    /\ UNCHANGED <<kv, settled, asked, delivery>>

\* An object cannot be had: the others are given up too.
Drop(m) ==
    /\ Underway(m)
    /\ picked' = [picked EXCEPT ![m] = <<>>]
    /\ UNCHANGED <<kv, settled, asked, delivery>>

Succeed(m) ==
    /\ Underway(m)
    /\ Len(picked[m]) = Len(asked[m].objects)
    /\ delivery' = [delivery EXCEPT ![m] = [code |-> "OK", files |-> picked[m]]]
    /\ picked' = [picked EXCEPT ![m] = <<>>]
    /\ UNCHANGED <<kv, settled, asked>>

Fail(m) ==
    /\ Underway(m)
    /\ \E a \in Failures : delivery' = [delivery EXCEPT ![m] = a]
    /\ picked' = [picked EXCEPT ![m] = <<>>]
    /\ UNCHANGED <<kv, settled, asked>>

Reply(m) ==
    /\ delivery[m] # Pending
    /\ asked' = [asked EXCEPT ![m] = NoRequest]
    /\ delivery' = [delivery EXCEPT ![m] = Pending]
    /\ UNCHANGED <<kv, settled, picked>>

\* The provider goes down: nothing more is delivered of what was under way.
Lose ==
    /\ asked' = [m \in Mounts |-> NoRequest]
    /\ picked' = [m \in Mounts |-> <<>>]
    /\ delivery' = [m \in Mounts |-> Pending]
    /\ UNCHANGED <<kv, settled>>

Tick ==
    /\ settled' = [l \in Locations |-> IF settled[l] > Horizon THEN settled[l]
                                       ELSE settled[l] + 1]
    /\ UNCHANGED <<kv, asked, picked, delivery>>

SecretChanges ==
    /\ \E l \in Locations, s \in Secrets :
           /\ s.version >= kv[l].version
           /\ kv' = [kv EXCEPT ![l] = s]
           /\ settled' = [settled EXCEPT ![l] = 0]
    /\ UNCHANGED <<asked, picked, delivery>>

Next ==
    \/ \E m \in Mounts :
          \/ \E r \in Requests : Ask(m, r)
          \/ Pick(m) \/ Drop(m) \/ Succeed(m) \/ Fail(m) \/ Reply(m)
    \/ Lose \/ Tick \/ SecretChanges

mountsVars == <<kv, settled, asked, picked, delivery>>

Spec == Init /\ [][Next]_mountsVars

=============================================================================
