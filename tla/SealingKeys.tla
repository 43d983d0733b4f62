----------------------------- MODULE SealingKeys -----------------------------
(***************************************************************************)
(* What the key manager promises, without locks, calls or failures: keys    *)
(* accumulate in OpenBao, a process adopts one of them when it has none,    *)
(* keeps it until it restarts, and seals under nothing else.  The module    *)
(* KeyManager implements it (KeyManager!ImplementsSealingKeys).             *)
(***************************************************************************)
CONSTANTS Plugins, Keys, NoKey

VARIABLES
    stored,     \* the keys that have been in OpenBao
    active,     \* active[p]: the key process p works with, or NoKey
    sealed      \* the keys of the ciphertexts that have been returned

vars == <<stored, active, sealed>>

Init ==
    /\ stored \subseteq Keys
    /\ active = [p \in Plugins |-> NoKey]
    /\ sealed = {}

\* A key reaches OpenBao.
Store(k) ==
    /\ k \in Keys
    /\ stored' = stored \cup {k}
    /\ UNCHANGED <<active, sealed>>

\* A process without a key takes a stored one.
Adopt(p, k) ==
    /\ active[p] = NoKey /\ k \in stored
    /\ active' = [active EXCEPT ![p] = k]
    /\ UNCHANGED <<stored, sealed>>

\* A ciphertext leaves the process, under the key it works with.
Issue(p) ==
    /\ active[p] # NoKey
    /\ sealed' = sealed \cup {active[p]}
    /\ UNCHANGED <<stored, active>>

\* The process loses its memory.
Restart(p) ==
    /\ active' = [active EXCEPT ![p] = NoKey]
    /\ UNCHANGED <<stored, sealed>>

Next ==
    \/ \E k \in Keys : Store(k)
    \/ \E p \in Plugins : Issue(p) \/ Restart(p) \/ \E k \in Keys : Adopt(p, k)

Spec == Init /\ [][Next]_vars

=============================================================================
