--------------------------- MODULE OpenBaoClient ---------------------------
(***************************************************************************)
(* The client of internal/openbao/client.go that all goroutines of a        *)
(* process share: its token, the expiry it believes in, and RefreshToken,   *)
(* which every request runs first.  A failed refresh is only logged, and    *)
(* the request is sent all the same.                                        *)
(*                                                                         *)
(* Time is kept as what remains of it: left is tokenExpiry minus now, life  *)
(* what OpenBao knows of a token.  late[c] counts the ticks since c's last   *)
(* contact with OpenBao; the request timeout of the HTTP client keeps it     *)
(* from passing Timeout.  Nothing locks a refresh as a whole: c.mu covers    *)
(* single accesses to tokenExpiry, so refreshes of several goroutines mix.   *)
(***************************************************************************)
EXTENDS Integers, FiniteSets

CONSTANTS
    Callers,            \* goroutines that send requests
    Tokens,             \* names for tokens, reused once nobody refers to one
    Current,            \* the name of whichever token the api.Client holds
    NoToken,
    Lease,              \* lease_duration of a login, in ticks
    Margin,             \* the five minutes of RefreshToken
    Timeout,            \* Config.Timeout
    NoExpiry,           \* tokenExpiry is zero; a token that does not expire
    Revoked,            \* OpenBao has forgotten the token before its time
    Env                 \* what may happen: "outage", "tokenLoss", "lostReply", "crash", "rotate"

ASSUME ClientAssumption ==
    /\ Lease \in Nat /\ Margin \in Nat /\ Timeout \in Nat \ {0}
    /\ Margin >= 4 * Timeout
    /\ Lease > Margin
    /\ NoExpiry \notin Nat /\ Revoked \notin Nat /\ NoExpiry # Revoked
    /\ Current \in Tokens /\ NoToken \notin Tokens
    /\ IsFiniteSet(Callers) /\ IsFiniteSet(Tokens)
    /\ Cardinality(Tokens) > Cardinality(Callers)

VARIABLES
    baoUp,      \* OpenBao answers
    life,       \* life[t]: what OpenBao grants t yet; 0 is over
    left,       \* tokenExpiry - now, not below 0, or NoExpiry: what the client believes
    cpc,        \* where c is in its request
    held,       \* held[c]: the token of c's request in progress
    grant,      \* grant[c]: the lease in the answer c got
    late,       \* late[c]: ticks since c last heard of OpenBao, or began
    trusted     \* history: c's RefreshToken found nothing to do

callVars == <<cpc, held, grant, late, trusted>>
clientVars == <<baoUp, life, left, callVars>>

ClientInit ==
    /\ baoUp = TRUE
    /\ life = [t \in Tokens |-> 0]
    /\ left = NoExpiry
    /\ cpc = [c \in Callers |-> "idle"]
    /\ held = [c \in Callers |-> NoToken]
    /\ grant = [c \in Callers |-> 0]
    /\ late = [c \in Callers |-> 0]
    /\ trusted = [c \in Callers |-> FALSE]

Accepted(t) == baoUp /\ t # NoToken /\ life[t] \notin {0, Revoked}

InUse == {Current} \cup {held[c] : c \in Callers}
NewToken(c) ==
    CHOOSE t \in Tokens : t \notin {Current} \cup {held[d] : d \in Callers \ {c}}

\* Tokens that nobody refers to any more are left out of the picture.
DropUnused == life' = [t \in Tokens |-> IF t \in InUse' THEN life[t] ELSE 0]

-----------------------------------------------------------------------------
\* NewClient: authenticate, which must succeed.  A token from the configuration
\* needs no request; a login answers within the timeout.
NewClient(given) ==
    IF given
         THEN /\ life' = [life EXCEPT ![Current] = NoExpiry]
              /\ left' = NoExpiry
         ELSE /\ baoUp
              /\ \E d \in 0..Timeout : life' = [life EXCEPT ![Current] = Lease - d]
              /\ left' = Lease

StillValid == left = NoExpiry \/ left > 0

\* A method is called; RefreshToken reads tokenExpiry under the read lock.
FreshToken == left = NoExpiry \/ left > Margin

Request(c) ==
    /\ cpc[c] = "idle"
    /\ held' = [held EXCEPT ![c] = Current]
    /\ cpc' = [cpc EXCEPT ![c] = IF FreshToken THEN "send" ELSE "renew"]
    /\ trusted' = [trusted EXCEPT ![c] = FreshToken]
    /\ late' = [late EXCEPT ![c] = 0]
    /\ UNCHANGED <<baoUp, life, left, grant>>

\* OpenBao extends the token of RenewSelf; its maximal life may cut the grant.
RenewAccepted(c) ==
    /\ cpc[c] = "renew" /\ Accepted(held[c])
    /\ \E g \in {life[held[c]], Lease} :
          /\ life' = [life EXCEPT ![held[c]] = g]
          /\ grant' = [grant EXCEPT ![c] = g]
    /\ cpc' = [cpc EXCEPT ![c] = "renewed"]
    /\ late' = [late EXCEPT ![c] = 0]
    /\ UNCHANGED <<baoUp, left, held, trusted>>

\* An error, or an answer that does not arrive in time: authenticate.
RenewFails(c) ==
    /\ \/ cpc[c] = "renew" /\ ~Accepted(held[c])
       \/ cpc[c] = "renewed" /\ "lostReply" \in Env
    /\ cpc' = [cpc EXCEPT ![c] = "login"]
    /\ grant' = [grant EXCEPT ![c] = 0]
    /\ late' = [late EXCEPT ![c] = 0]
    /\ UNCHANGED <<baoUp, life, left, held, trusted>>

SendNext(c) ==
    /\ cpc' = [cpc EXCEPT ![c] = "send"]
    /\ held' = [held EXCEPT ![c] = Current]
    /\ grant' = [grant EXCEPT ![c] = 0]
    /\ DropUnused

\* tokenExpiry = now + lease, whatever token the client holds by now, and even
\* if the lease is 0.
Renewed(c) ==
    /\ cpc[c] = "renewed"
    /\ left' = grant[c]
    /\ SendNext(c)
    /\ UNCHANGED <<baoUp, late, trusted>>

\* authenticateKubernetes: the login is applied by OpenBao.
LoginAccepted(c) ==
    LET t == NewToken(c) IN
    /\ cpc[c] = "login" /\ baoUp
    /\ held' = [held EXCEPT ![c] = t]
    /\ life' = [u \in Tokens |-> IF u = t THEN Lease ELSE IF u \in InUse' THEN life[u] ELSE 0]
    /\ cpc' = [cpc EXCEPT ![c] = "loggedIn"]
    /\ late' = [late EXCEPT ![c] = 0]
    /\ UNCHANGED <<baoUp, left, grant, trusted>>

LoginRetried(c) ==
    /\ \/ cpc[c] = "login" /\ ~baoUp
       \/ cpc[c] = "loggedIn" /\ "lostReply" \in Env
    /\ cpc' = [cpc EXCEPT ![c] = "login"]
    /\ held' = [held EXCEPT ![c] = Current]
    /\ DropUnused
    /\ late' = [late EXCEPT ![c] = 0]
    /\ UNCHANGED <<baoUp, left, grant, trusted>>

\* RefreshToken returns an error, which the caller logs.
LoginFails(c) ==
    /\ \/ cpc[c] = "login" /\ ~baoUp
       \/ cpc[c] = "loggedIn" /\ "lostReply" \in Env
    /\ UNCHANGED left
    /\ SendNext(c)
    /\ late' = [late EXCEPT ![c] = 0]
    /\ UNCHANGED <<baoUp, trusted>>

\* SetToken, and the expiry in a critical section of its own.  The new token becomes
\* Current, and the old one takes its name with those who still hold it.
SetToken(c) ==
    LET Swap(t) == CASE t = held[c] -> Current
                     [] t = Current -> held[c]
                     [] OTHER -> t
    IN
    /\ cpc[c] = "loggedIn"
    /\ held' = [d \in Callers |-> Swap(held[d])]
    /\ life' = [t \in Tokens |-> IF t \in InUse' THEN life[Swap(t)] ELSE 0]
    /\ cpc' = [cpc EXCEPT ![c] = "expiry"]
    /\ UNCHANGED <<baoUp, left, grant, late, trusted>>

SetExpiry(c) ==
    /\ cpc[c] = "expiry"
    /\ left' = IF Lease > 0 THEN Lease ELSE left
    /\ SendNext(c)
    /\ UNCHANGED <<baoUp, late, trusted>>

\* The request has reached OpenBao with the token it was built with, and is over;
\* the module that composes says what it does there.
Finish(c) ==
    /\ cpc[c] = "send"
    /\ cpc' = [cpc EXCEPT ![c] = "idle"]
    /\ held' = [held EXCEPT ![c] = NoToken]
    /\ trusted' = [trusted EXCEPT ![c] = FALSE]
    /\ late' = [late EXCEPT ![c] = 0]
    /\ UNCHANGED <<baoUp, left, grant>>
    /\ DropUnused

Refresh(c) ==
    \/ RenewAccepted(c) \/ RenewFails(c) \/ Renewed(c)
    \/ LoginAccepted(c) \/ LoginFails(c) \/ SetToken(c) \/ SetExpiry(c)

-----------------------------------------------------------------------------
Waits(c) == cpc[c] # "idle"

Less(n) == IF n \in Nat /\ n > 0 THEN n - 1 ELSE n

Tick ==
    /\ \A c \in Callers : Waits(c) => late[c] < Timeout
    /\ life' = [t \in Tokens |-> Less(life[t])]
    /\ left' = Less(left)
    /\ late' = [c \in Callers |-> IF Waits(c) THEN late[c] + 1 ELSE 0]
    /\ UNCHANGED <<baoUp, cpc, held, grant, trusted>>

Outage ==
    /\ "outage" \in Env /\ baoUp
    /\ baoUp' = FALSE
    /\ UNCHANGED <<life, left, callVars>>

\* OpenBao may come back without the leases of its logins.
Recovery ==
    /\ ~baoUp
    /\ baoUp' = TRUE
    /\ life' \in {life} \cup
           (IF "tokenLoss" \in Env
              THEN {[t \in Tokens |-> IF life[t] \in Nat \ {0} THEN Revoked ELSE life[t]]}
              ELSE {})
    /\ UNCHANGED <<left, callVars>>

\* The process ends.
LoseClient ==
    /\ left' = NoExpiry
    /\ life' = [t \in Tokens |-> 0]
    /\ cpc' = [c \in Callers |-> "idle"]
    /\ held' = [c \in Callers |-> NoToken]
    /\ grant' = [c \in Callers |-> 0]
    /\ late' = [c \in Callers |-> 0]
    /\ trusted' = [c \in Callers |-> FALSE]

-----------------------------------------------------------------------------
Lives == 0..Lease \cup {NoExpiry, Revoked}

ClientTypeOK ==
    /\ baoUp \in BOOLEAN
    /\ life \in [Tokens -> Lives]
    /\ left \in 0..Lease \cup {NoExpiry}
    /\ cpc \in [Callers -> {"idle", "renew", "renewed", "login", "loggedIn", "expiry",
                            "send"}]
    /\ held \in [Callers -> Tokens \cup {NoToken}]
    /\ grant \in [Callers -> 0..Lease]
    /\ late \in [Callers -> 0..Timeout]
    /\ trusted \in [Callers -> BOOLEAN]

\* A request that went out without a refresh carries a token that has not
\* expired, although goroutines renew and log in at once, each stores the expiry
\* of its own answer, and answers arrive late.  Only a token that OpenBao revoked
\* or lost can be dead.
TrustedTokensAreLive ==
    \A c \in Callers : cpc[c] = "send" /\ trusted[c] => life[held[c]] # 0

=============================================================================
