------------------------ MODULE TransitServer_proofs ------------------------
(***************************************************************************)
(* Proofs about the Transit plugin and its client of OpenBao: types, that a  *)
(* plugin serves only once the key exists, and that no request trusts a     *)
(* token that has expired, for any number of goroutines and any lease,       *)
(* margin and timeout that ClientAssumption admits.                          *)
(***************************************************************************)
EXTENDS TransitServer, TLAPS, FiniteSetTheorems

USE ClientAssumption

\* There is always a name for the token of a login: fewer goroutines hold tokens
\* than there are names.
LEMMA NewTokenIsUnused ==
    ASSUME held \in [Callers -> Tokens \cup {NoToken}], NEW c \in Callers
    PROVE  /\ NewToken(c) \in Tokens
           /\ NewToken(c) # Current
           /\ \A d \in Callers \ {c} : held[d] # NewToken(c)
<1> DEFINE others == Callers \ {c}
           taken == {held[d] : d \in others}
           holds == [d \in others |-> held[d]]
<1>1. /\ IsFiniteSet(others)
      /\ Cardinality(others) = Cardinality(Callers) - 1
  BY FS_RemoveElement
<1>2. holds \in Surjection(others, taken)
  BY DEF Surjection
<1>3. IsFiniteSet(taken) /\ Cardinality(taken) <= Cardinality(others)
  <2> HIDE DEF others, taken, holds
  <2> QED  BY <1>1, <1>2, FS_Surjection
<1>4. /\ IsFiniteSet(taken \cup {Current})
      /\ Cardinality(taken \cup {Current}) <= Cardinality(taken) + 1
  <2> HIDE DEF taken
  <2>1. Cardinality(taken) \in Nat
    BY <1>3, FS_CardinalityType
  <2>2. /\ IsFiniteSet(taken \cup {Current})
        /\ Cardinality(taken \cup {Current}) =
             IF Current \in taken THEN Cardinality(taken) ELSE Cardinality(taken) + 1
    BY <1>3, FS_AddElement
  <2> QED  BY <2>1, <2>2
<1>5. Cardinality(taken \cup {Current}) < Cardinality(Tokens)
  <2> HIDE DEF others, taken
  <2> QED  BY <1>1, <1>3, <1>4, FS_CardinalityType
<1>6. \E t \in Tokens : t \notin taken \cup {Current}
  <2> HIDE DEF taken
  <2> SUFFICES ASSUME Tokens \subseteq taken \cup {Current}  PROVE FALSE
    OBVIOUS
  <2>1. Cardinality(Tokens) <= Cardinality(taken \cup {Current})
    BY <1>4, FS_Subset
  <2> QED  BY <2>1, <1>4, <1>5, FS_CardinalityType
<1>7. NewToken(c) \in Tokens /\ NewToken(c) \notin {Current} \cup taken
  <2>1. \E t \in Tokens : t \notin {Current} \cup taken
    BY <1>6
  <2> QED  BY <2>1 DEF NewToken
<1> QED
  BY <1>7

-----------------------------------------------------------------------------
\* Whoever is in a request holds a token, and only such a caller does.
HeldInv == \A c \in Callers : held[c] \in Tokens <=> cpc[c] # "idle"

\* A client that was given its token never refreshes it; one that logged in knows of
\* no token without an end.
ModeInv ==
    /\ left = NoExpiry => \A c \in Callers : cpc[c] \in {"idle", "send"}
    /\ left # NoExpiry => \A t \in Tokens : life[t] # NoExpiry

FormInv == ClientTypeOK /\ HeldInv /\ ModeInv

Given == left = NoExpiry => life[Current] = NoExpiry

Gone ==
    /\ left = NoExpiry
    /\ \A t \in Tokens : life[t] = 0
    /\ \A c \in Callers : cpc[c] = "idle"

\* The lives that a clean-up of unused tokens leaves.
LEMMA DropKeepsLives ==
    ASSUME life \in [Tokens -> Lives], DropUnused
    PROVE  /\ life' \in [Tokens -> Lives]
           /\ \A t \in Tokens : life'[t] \in {life[t], 0}
           /\ life'[Current] = life[Current]
           /\ \A c \in Callers : held'[c] \in Tokens => life'[held'[c]] = life[held'[c]]
<1>1. 0 \in Lives
  BY DEF Lives
<1>2. Current \in InUse' /\ \A c \in Callers : held'[c] \in InUse'
  BY DEF InUse
<1> QED
  BY <1>1, <1>2 DEF DropUnused

\* A request begins and ends in its types.
LEMMA RequestForm ==
    ASSUME FormInv, NEW c \in Callers, Request(c) \/ Finish(c)
    PROVE  FormInv' /\ (Given => Given')
<1> USE DEF FormInv
<1>1. CASE Request(c)
  <2>0. FreshToken \in BOOLEAN
    BY DEF FreshToken
  <2>1. trusted' \in [Callers -> BOOLEAN]
    BY <1>1, <2>0 DEF Request, ClientTypeOK
  <2>2. ClientTypeOK'
    BY <1>1, <2>1 DEF Request, ClientTypeOK
  <2>3. HeldInv'
    BY <1>1 DEF Request, ClientTypeOK, HeldInv
  <2>4. ModeInv' /\ (Given => Given')
    BY <1>1 DEF Request, ClientTypeOK, ModeInv, Given, FreshToken
  <2> QED  BY <2>2, <2>3, <2>4
<1>2. CASE Finish(c)
  <2>0. life \in [Tokens -> Lives] /\ DropUnused
    BY <1>2 DEF Finish, ClientTypeOK
  <2>1. trusted' \in [Callers -> BOOLEAN]
    BY <1>2 DEF Finish, ClientTypeOK
  <2>2. ClientTypeOK'
    BY <1>2, <2>0, <2>1, DropKeepsLives DEF Finish, ClientTypeOK
  <2>3. HeldInv'
    BY <1>2 DEF Finish, ClientTypeOK, HeldInv
  <2>4. ModeInv' /\ (Given => Given')
    BY <1>2, <2>0, DropKeepsLives DEF Finish, ClientTypeOK, ModeInv, Given, Lives
  <2> QED  BY <2>2, <2>3, <2>4
<1> QED
  BY <1>1, <1>2

\* What remains of a life or an expiry after a tick.
LEMMA LessFacts ==
    /\ \A n \in Lives : Less(n) \in Lives /\ (Less(n) = NoExpiry <=> n = NoExpiry)
    /\ \A n \in 0..Lease : Less(n) \in 0..Lease
    /\ Less(NoExpiry) = NoExpiry
BY DEF Less, Lives

\* The steps of a refresh keep the types: a goroutine that renews does so with a token
\* that ends, and a login finds an unused name.
LEMMA RefreshForm ==
    ASSUME FormInv, NEW c \in Callers, Refresh(c)
    PROVE  /\ FormInv' /\ (Given => Given')
           /\ left # NoExpiry /\ left' # NoExpiry
<1> USE DEF FormInv
<1>0. cpc[c] \notin {"idle", "send"} /\ held[c] \in Tokens
  BY DEF Refresh, RenewAccepted, RenewFails, Renewed, LoginAccepted, LoginFails, SetToken,
     SetExpiry, HeldInv
<1>1. left \in 0..Lease /\ \A t \in Tokens : life[t] # NoExpiry
  BY <1>0 DEF ModeInv, ClientTypeOK
<1>2. 0 \in Lives /\ Lease \in Lives
  BY DEF Lives
<1>3. CASE RenewAccepted(c)
  <2>1. PICK g \in {life[held[c]], Lease} :
          /\ life' = [life EXCEPT ![held[c]] = g]
          /\ grant' = [grant EXCEPT ![c] = g]
    BY <1>3 DEF RenewAccepted
  <2>2. g \in 0..Lease
    BY <1>0, <1>1, <1>3 DEF RenewAccepted, Accepted, ClientTypeOK, Lives
  <2>3. ClientTypeOK'
    <3>1. life' \in [Tokens -> Lives]
      BY <2>1, <2>2 DEF ClientTypeOK, Lives
    <3>2. grant' \in [Callers -> 0..Lease]
      BY <2>1, <2>2 DEF ClientTypeOK
    <3>3. late' \in [Callers -> 0..Timeout]
      BY <1>3 DEF RenewAccepted, ClientTypeOK
    <3> QED
      BY <1>3, <3>1, <3>2, <3>3 DEF RenewAccepted, ClientTypeOK
  <2> QED
    BY <1>0, <1>1, <1>3, <2>1, <2>2, <2>3 DEF RenewAccepted, ClientTypeOK, HeldInv, ModeInv,
       Given
<1>4. CASE RenewFails(c)
  BY <1>0, <1>1, <1>4 DEF RenewFails, ClientTypeOK, HeldInv, ModeInv, Given
<1>5. CASE Renewed(c) \/ LoginFails(c) \/ SetExpiry(c)
  <2>1. SendNext(c) /\ life \in [Tokens -> Lives] /\ DropUnused
    BY <1>5 DEF Renewed, LoginFails, SetExpiry, SendNext, ClientTypeOK
  <2>2. left' \in 0..Lease /\ UNCHANGED <<baoUp, trusted>> /\ late' \in [Callers -> 0..Timeout]
    BY <1>1, <1>5 DEF Renewed, LoginFails, SetExpiry, ClientTypeOK
  <2>3. ClientTypeOK'
    <3>1. life' \in [Tokens -> Lives]
      BY <2>1, DropKeepsLives
    <3>2. grant' \in [Callers -> 0..Lease]
      BY <2>1 DEF SendNext, ClientTypeOK
    <3>3. held' \in [Callers -> Tokens \cup {NoToken}]
      BY <2>1 DEF SendNext, ClientTypeOK
    <3> QED
      BY <2>1, <2>2, <3>1, <3>2, <3>3 DEF SendNext, ClientTypeOK
  <2>4. HeldInv'
    BY <1>0, <2>1 DEF SendNext, ClientTypeOK, HeldInv
  <2>5. \A t \in Tokens : life'[t] # NoExpiry
    BY <1>1, <2>1, DropKeepsLives
  <2> QED
    BY <1>1, <2>2, <2>3, <2>4, <2>5 DEF ModeInv, Given
<1>6. CASE LoginAccepted(c)
  <2>1. /\ NewToken(c) \in Tokens /\ UNCHANGED <<baoUp, left, grant, trusted>>
        /\ held' = [held EXCEPT ![c] = NewToken(c)]
        /\ cpc' = [cpc EXCEPT ![c] = "loggedIn"]
        /\ late' = [late EXCEPT ![c] = 0]
    BY <1>6, NewTokenIsUnused DEF LoginAccepted, ClientTypeOK
  <2>2. /\ life' \in [Tokens -> Lives]
        /\ \A t \in Tokens : life'[t] \in {life[t], 0, Lease}
    BY <1>2, <1>6 DEF LoginAccepted, ClientTypeOK
  <2>3. ClientTypeOK'
    BY <2>1, <2>2 DEF ClientTypeOK
  <2> QED
    BY <1>0, <1>1, <2>1, <2>2, <2>3 DEF ClientTypeOK, HeldInv, ModeInv, Given
<1>7. CASE SetToken(c)
  <2> DEFINE Swap(t) == CASE t = held[c] -> Current
                          [] t = Current -> held[c]
                          [] OTHER -> t
  <2>1. \A t \in Tokens : Swap(t) \in Tokens
    BY <1>0
  <2>2. Swap(NoToken) = NoToken
    BY <1>0
  <2>3. /\ held' = [d \in Callers |-> Swap(held[d])]
        /\ life' = [t \in Tokens |-> IF t \in InUse' THEN life[Swap(t)] ELSE 0]
        /\ cpc' = [cpc EXCEPT ![c] = "expiry"]
        /\ UNCHANGED <<baoUp, left, grant, late, trusted>>
    BY <1>7 DEF SetToken
  <2> HIDE DEF Swap
  <2>4. /\ life' \in [Tokens -> Lives]
        /\ \A t \in Tokens : life'[t] # NoExpiry
    BY <1>1, <1>2, <2>1, <2>3 DEF ClientTypeOK
  <2>5. held' \in [Callers -> Tokens \cup {NoToken}]
    BY <2>1, <2>2, <2>3 DEF ClientTypeOK
  <2>6. ClientTypeOK'
    BY <2>3, <2>4, <2>5 DEF ClientTypeOK
  <2>7. HeldInv'
    BY <1>0, <2>1, <2>2, <2>3 DEF ClientTypeOK, HeldInv
  <2> QED
    BY <1>1, <2>3, <2>4, <2>6, <2>7 DEF ModeInv, Given
<1> QED
  BY <1>3, <1>4, <1>5, <1>6, <1>7 DEF Refresh

-----------------------------------------------------------------------------
\* Token t lives for n more ticks, or ends only by being revoked.
AtLeast(t, n) == life[t] \in {NoExpiry, Revoked} \/ life[t] >= n

\* The client believes at most three timeouts too much: an answer may be late, another
\* may have been given under an older token, and that token was answered late, too.
ExpiryInv == left # NoExpiry => AtLeast(Current, left - 3 * Timeout)

\* What c knows of the client's token, and of its own, while it refreshes and sends.
Timely(c) ==
    /\ cpc[c] = "renew" /\ held[c] # Current => AtLeast(Current, Lease - Timeout - late[c])
    /\ cpc[c] = "renewed" => AtLeast(Current, grant[c] - 2 * Timeout - late[c])
    /\ cpc[c] = "loggedIn" => AtLeast(held[c], Lease - late[c])
    /\ cpc[c] = "expiry" => AtLeast(Current, Lease - Timeout - late[c])
    /\ cpc[c] = "send" /\ trusted[c] => AtLeast(held[c], Margin - 3 * Timeout + 1 - late[c])
    /\ trusted[c] => cpc[c] = "send"

TimeInv == ExpiryInv /\ \A c \in Callers : Timely(c)

\* The numbers that are compared are numbers.
LEMMA TimeFacts ==
    ASSUME ClientTypeOK
    PROVE  /\ Lease \in Nat /\ Margin \in Nat /\ Timeout \in Nat
           /\ \A c \in Callers :
                 /\ grant[c] \in Nat /\ grant[c] <= Lease
                 /\ late[c] \in Nat /\ late[c] <= Timeout
           /\ left # NoExpiry => left \in Nat /\ left <= Lease
           /\ \A t \in Tokens : life[t] \in {NoExpiry, Revoked} \/ life[t] \in 0..Lease
BY DEF ClientTypeOK, Lives

\* A goroutine that does nothing stays in time, if the lives of its token and of the
\* client's are not cut, or the client has got a token that is newer than its request.
LEMMA OthersStayInTime ==
    ASSUME ClientTypeOK, ClientTypeOK', NEW d \in Callers, Timely(d), HeldInv,
           cpc'[d] = cpc[d], grant'[d] = grant[d], trusted'[d] = trusted[d],
           late'[d] = late[d],
           \/ \A n \in Int : AtLeast(Current, n) => AtLeast(Current, n)'
           \/ AtLeast(Current, Lease - Timeout)',
           held[d] \in Tokens => \A n \in Int : AtLeast(held[d], n) => AtLeast(held[d], n)',
           \/ held[d] = Current => held'[d] = Current
           \/ AtLeast(Current, Lease - Timeout)'
    PROVE  Timely(d)'
<1> USE DEF Timely
<1>1. /\ Lease \in Nat /\ Margin \in Nat /\ Timeout \in Nat
      /\ grant[d] \in Nat /\ grant[d] <= Lease
      /\ late[d] \in Nat /\ late[d] <= Timeout
  BY TimeFacts
<1>2. life'[Current] \in {NoExpiry, Revoked} \/ life'[Current] \in 0..Lease
  BY DEF ClientTypeOK, Lives
<1>3. /\ Lease - Timeout - late[d] \in Int
      /\ grant[d] - 2 * Timeout - late[d] \in Int
      /\ Lease - late[d] \in Int
      /\ Margin - 3 * Timeout + 1 - late[d] \in Int
  BY <1>1
<1>4. AtLeast(Current, Lease - Timeout)' =>
         /\ AtLeast(Current, Lease - Timeout - late[d])'
         /\ AtLeast(Current, grant[d] - 2 * Timeout - late[d])'
  BY <1>1, <1>2 DEF AtLeast
<1>5. cpc[d] \in {"loggedIn", "send"} => held[d] \in Tokens
  BY DEF HeldInv
<1> QED
  BY <1>3, <1>4, <1>5

\* How the life of a token that is in use comes through a refresh or a request of c.
LEMMA LivesAreKept ==
    ASSUME FormInv, NEW c \in Callers, Refresh(c) \/ Request(c) \/ Finish(c), ~SetToken(c)
    PROVE  /\ \A n \in Int : AtLeast(Current, n) => AtLeast(Current, n)'
           /\ \A d \in Callers \ {c} :
                 /\ held'[d] = held[d]
                 /\ held[d] \in Tokens =>
                       \A n \in Int : AtLeast(held[d], n) => AtLeast(held[d], n)'
<1> USE DEF FormInv
<1>0. ClientTypeOK
  OBVIOUS
<1>1. CASE RenewAccepted(c)
  <2>1. PICK g \in {life[held[c]], Lease} : life' = [life EXCEPT ![held[c]] = g]
    BY <1>1 DEF RenewAccepted
  <2>2. life[held[c]] \in 0..Lease /\ held[c] \in Tokens
    <3>1. left # NoExpiry
      BY <1>1, RefreshForm DEF Refresh
    <3> QED
      BY <1>1, <3>1 DEF RenewAccepted, Accepted, ClientTypeOK, ModeInv, Lives
  <2>3. \A t \in Tokens, n \in Int : AtLeast(t, n) =>
           life'[t] \in {NoExpiry, Revoked} \/ life'[t] >= n
    <3> SUFFICES ASSUME NEW t \in Tokens, NEW n \in Int, AtLeast(t, n)
                 PROVE  life'[t] \in {NoExpiry, Revoked} \/ life'[t] >= n
      OBVIOUS
    <3>1. CASE t = held[c]
      <4>1. life'[t] = g /\ g \in Nat /\ g >= life[t]
        BY <2>1, <2>2, <3>1 DEF ClientTypeOK
      <4>2. life[t] >= n
        BY <2>2, <3>1 DEF AtLeast
      <4> QED  BY <2>2, <3>1, <4>1, <4>2
    <3>2. CASE t # held[c]
      BY <2>1, <3>2 DEF ClientTypeOK, AtLeast
    <3> QED  BY <3>1, <3>2
  <2>4. held' = held
    BY <1>1 DEF RenewAccepted
  <2> QED
    BY <2>3, <2>4 DEF AtLeast
<1>2. CASE RenewFails(c) \/ Request(c)
  <2>1. life' = life /\ \A d \in Callers \ {c} : held'[d] = held[d]
    BY <1>2 DEF RenewFails, Request, ClientTypeOK
  <2> QED
    BY <2>1 DEF AtLeast
<1>3. CASE Renewed(c) \/ LoginFails(c) \/ SetExpiry(c) \/ Finish(c)
  <2>1. life \in [Tokens -> Lives] /\ DropUnused
    BY <1>3 DEF Renewed, LoginFails, SetExpiry, Finish, SendNext, ClientTypeOK
  <2>2. \A d \in Callers \ {c} : held'[d] = held[d]
    BY <1>3 DEF Renewed, LoginFails, SetExpiry, Finish, SendNext, ClientTypeOK
  <2>3. /\ life'[Current] = life[Current]
        /\ \A d \in Callers \ {c} : held[d] \in Tokens => life'[held[d]] = life[held[d]]
    BY <2>1, <2>2, DropKeepsLives
  <2> QED
    BY <2>2, <2>3 DEF AtLeast
<1>4. CASE LoginAccepted(c)
  <2>1. /\ NewToken(c) # Current
        /\ \A d \in Callers \ {c} : held[d] # NewToken(c)
    BY NewTokenIsUnused DEF ClientTypeOK
  <2>2. \A d \in Callers \ {c} : held'[d] = held[d]
    BY <1>4 DEF LoginAccepted, ClientTypeOK
  <2>3. Current \in InUse' /\ \A d \in Callers : held'[d] \in InUse'
    BY DEF InUse
  <2>4. /\ life'[Current] = life[Current]
        /\ \A d \in Callers \ {c} : held[d] \in Tokens => life'[held[d]] = life[held[d]]
    BY <1>4, <2>1, <2>2, <2>3 DEF LoginAccepted
  <2> QED
    BY <2>2, <2>4 DEF AtLeast
<1> QED
  BY <1>1, <1>2, <1>3, <1>4 DEF Refresh

-----------------------------------------------------------------------------
\* A request trusts the token only with enough of it left, and forgets that trust when
\* it ends.
LEMMA RequestInTime ==
    ASSUME FormInv, TimeInv, Given, NEW c \in Callers, Request(c) \/ Finish(c)
    PROVE  TimeInv'
<1> USE DEF FormInv
<1>1. ClientTypeOK' /\ Given'
  BY RequestForm
<1>2. /\ \A n \in Int : AtLeast(Current, n) => AtLeast(Current, n)'
      /\ \A d \in Callers \ {c} :
            /\ held'[d] = held[d]
            /\ held[d] \in Tokens =>
                  \A n \in Int : AtLeast(held[d], n) => AtLeast(held[d], n)'
  <2>1. ~SetToken(c)
    BY DEF Request, Finish, SetToken
  <2> QED  BY <2>1, LivesAreKept
<1>3. left' = left /\ (left # NoExpiry => left - 3 * Timeout \in Int)
  BY TimeFacts DEF Request, Finish
<1>4. ExpiryInv'
  BY <1>2, <1>3 DEF TimeInv, ExpiryInv
<1>5. ASSUME NEW d \in Callers \ {c}  PROVE Timely(d)'
  <2>1. /\ cpc'[d] = cpc[d] /\ grant'[d] = grant[d] /\ trusted'[d] = trusted[d]
        /\ late'[d] = late[d]
    BY DEF Request, Finish, ClientTypeOK
  <2>2. HeldInv /\ Timely(d)
    BY DEF TimeInv
  <2> QED  BY <1>1, <1>2, <2>1, <2>2, OthersStayInTime
<1>6. Timely(c)'
  <2>1. CASE Finish(c)
    BY <2>1 DEF Finish, Timely, ClientTypeOK
  <2>2. CASE Request(c) /\ ~FreshToken
    BY <2>2 DEF Request, Timely, ClientTypeOK
  <2>3. CASE Request(c) /\ FreshToken
    <3>1. /\ cpc'[c] = "send" /\ late'[c] = 0 /\ held'[c] = Current /\ life' = life
      BY <2>3 DEF Request, ClientTypeOK
    <3>2. CASE left = NoExpiry
      BY <3>1, <3>2 DEF Given, Timely, AtLeast
    <3>3. CASE left # NoExpiry
      <4>1. left \in Nat /\ left > Margin /\ AtLeast(Current, left - 3 * Timeout)
        BY <2>3, <3>3, TimeFacts DEF FreshToken, TimeInv, ExpiryInv
      <4>2. life[Current] \in {NoExpiry, Revoked} \/ life[Current] \in 0..Lease
        BY TimeFacts
      <4>3. AtLeast(Current, Margin - 3 * Timeout + 1 - 0)
        BY <4>1, <4>2 DEF AtLeast
      <4> QED  BY <3>1, <4>3 DEF Timely, AtLeast
    <3> QED  BY <3>2, <3>3
  <2> QED  BY <2>1, <2>2, <2>3
<1> QED
  BY <1>4, <1>5, <1>6 DEF TimeInv

\* Every step of a refresh but SetToken keeps what the goroutines know of their
\* tokens: the expiry that is stored is at most three timeouts too late.
LEMMA RefreshInTime ==
    ASSUME FormInv, TimeInv, NEW c \in Callers, Refresh(c), ~SetToken(c)
    PROVE  TimeInv'
<1> USE DEF FormInv
<1>1. ClientTypeOK /\ ClientTypeOK' /\ left # NoExpiry /\ left' # NoExpiry /\ Timely(c)
  BY RefreshForm DEF TimeInv
<1>2. /\ \A n \in Int : AtLeast(Current, n) => AtLeast(Current, n)'
      /\ \A d \in Callers \ {c} :
            /\ held'[d] = held[d]
            /\ held[d] \in Tokens =>
                  \A n \in Int : AtLeast(held[d], n) => AtLeast(held[d], n)'
  BY LivesAreKept
<1>3. /\ Lease \in Nat /\ Margin \in Nat /\ Timeout \in Nat \ {0}
      /\ grant[c] \in Nat /\ grant[c] <= Lease
      /\ late[c] \in Nat /\ late[c] <= Timeout
      /\ left \in Nat /\ left <= Lease
      /\ life[Current] \in {NoExpiry, Revoked} \/ life[Current] \in 0..Lease
      /\ life'[Current] \in {NoExpiry, Revoked} \/ life'[Current] \in 0..Lease
  BY <1>1, TimeFacts DEF ClientTypeOK, Lives
<1>4. trusted' = trusted /\ trusted[c] = FALSE
  <2>1. cpc[c] # "send" /\ trusted' = trusted /\ trusted[c] \in BOOLEAN
    BY DEF Refresh, RenewAccepted, RenewFails, Renewed, LoginAccepted, LoginFails,
       SetToken, SetExpiry, ClientTypeOK
  <2> QED  BY <1>1, <2>1 DEF Timely
<1>5. ASSUME NEW d \in Callers \ {c}  PROVE Timely(d)'
  <2>1. cpc'[d] = cpc[d] /\ grant'[d] = grant[d] /\ late'[d] = late[d]
    BY DEF Refresh, RenewAccepted, RenewFails, Renewed, LoginAccepted, LoginFails,
       SetToken, SetExpiry, SendNext, ClientTypeOK
  <2>2. HeldInv /\ Timely(d) /\ trusted'[d] = trusted[d]
    BY <1>4 DEF TimeInv
  <2> QED  BY <1>1, <1>2, <2>1, <2>2, OthersStayInTime
<1>6. left - 3 * Timeout \in Int
  BY <1>3
<1>7. CASE RenewAccepted(c)
  <2>1. ExpiryInv'
    BY <1>1, <1>2, <1>6, <1>7 DEF RenewAccepted, TimeInv, ExpiryInv
  <2>2. PICK g \in {life[held[c]], Lease} :
          /\ life' = [life EXCEPT ![held[c]] = g]
          /\ grant' = [grant EXCEPT ![c] = g]
    BY <1>7 DEF RenewAccepted
  <2>3. /\ cpc'[c] = "renewed" /\ late'[c] = 0 /\ grant'[c] = g /\ held[c] \in Tokens
        /\ cpc[c] = "renew"
    BY <1>7, <2>2 DEF RenewAccepted, HeldInv, ClientTypeOK
  <2>4. g \in Nat /\ g <= Lease
    BY <1>1, <2>3 DEF ClientTypeOK
  <2>5. AtLeast(Current, g - 2 * Timeout - 0)'
    <3>1. CASE held[c] = Current
      <4>1. life'[Current] = g
        BY <2>2, <3>1 DEF ClientTypeOK
      <4> QED  BY <1>3, <2>4, <4>1 DEF AtLeast
    <3>2. CASE held[c] # Current
      <4>1. life'[Current] = life[Current]
        BY <2>2, <3>2 DEF ClientTypeOK
      <4>2. AtLeast(Current, Lease - Timeout - late[c])
        BY <1>1, <2>3, <3>2 DEF Timely
      <4> QED  BY <1>3, <2>4, <4>1, <4>2 DEF AtLeast
    <3> QED  BY <3>1, <3>2
  <2>6. Timely(c)'
    BY <1>4, <2>3, <2>5 DEF Timely
  <2> QED
    BY <1>5, <2>1, <2>6 DEF TimeInv
<1>8. CASE RenewFails(c)
  <2>1. ExpiryInv'
    BY <1>1, <1>2, <1>6, <1>8 DEF RenewFails, TimeInv, ExpiryInv
  <2>2. cpc'[c] = "login"
    BY <1>8 DEF RenewFails, ClientTypeOK
  <2>3. Timely(c)'
    BY <1>4, <2>2 DEF Timely
  <2> QED
    BY <1>5, <2>1, <2>3 DEF TimeInv
<1>9. CASE Renewed(c) \/ LoginFails(c) \/ SetExpiry(c)
  <2>1. cpc'[c] = "send"
    BY <1>9 DEF Renewed, LoginFails, SetExpiry, SendNext, ClientTypeOK
  <2>2. Timely(c)'
    BY <1>4, <2>1 DEF Timely
  <2>3. CASE LoginFails(c)
    <3>1. ExpiryInv'
      BY <1>1, <1>2, <1>6, <2>3 DEF LoginFails, TimeInv, ExpiryInv
    <3> QED  BY <1>5, <2>2, <3>1 DEF TimeInv
  <2>4. life'[Current] = life[Current]
    BY <1>9, DropKeepsLives DEF Renewed, LoginFails, SetExpiry, SendNext, ClientTypeOK
  <2>5. CASE Renewed(c)
    <3>1. left' = grant[c] /\ AtLeast(Current, grant[c] - 2 * Timeout - late[c])
      BY <1>1, <2>5 DEF Renewed, Timely
    <3>2. ExpiryInv'
      BY <1>3, <2>4, <3>1 DEF AtLeast, ExpiryInv
    <3> QED  BY <1>5, <2>2, <3>2 DEF TimeInv
  <2>6. CASE SetExpiry(c)
    <3>1. left' = Lease /\ AtLeast(Current, Lease - Timeout - late[c])
      BY <1>1, <1>3, <2>6 DEF SetExpiry, Timely
    <3>2. ExpiryInv'
      BY <1>3, <2>4, <3>1 DEF AtLeast, ExpiryInv
    <3> QED  BY <1>5, <2>2, <3>2 DEF TimeInv
  <2> QED  BY <1>9, <2>3, <2>5, <2>6
<1>10. CASE LoginAccepted(c)
  <2>1. ExpiryInv'
    BY <1>1, <1>2, <1>6, <1>10 DEF LoginAccepted, TimeInv, ExpiryInv
  <2>2. /\ cpc'[c] = "loggedIn" /\ late'[c] = 0 /\ held'[c] = NewToken(c)
        /\ NewToken(c) \in Tokens
    BY <1>10, NewTokenIsUnused DEF LoginAccepted, ClientTypeOK
  <2>3. life'[held'[c]] = Lease
    BY <1>10, <2>2 DEF LoginAccepted
  <2>4. Timely(c)'
    BY <1>3, <1>4, <2>2, <2>3 DEF Timely, AtLeast
  <2> QED
    BY <1>5, <2>1, <2>4 DEF TimeInv
<1> QED
  BY <1>7, <1>8, <1>9, <1>10 DEF Refresh

\* SetToken gives the client a token that was granted a timeout ago at most, and leaves
\* every goroutine the one it holds.
LEMMA SetTokenInTime ==
    ASSUME FormInv, TimeInv, NEW c \in Callers, SetToken(c)
    PROVE  TimeInv'
<1> USE DEF FormInv
<1> DEFINE Swap(t) == CASE t = held[c] -> Current
                        [] t = Current -> held[c]
                        [] OTHER -> t
<1>1. ClientTypeOK /\ ClientTypeOK' /\ left # NoExpiry /\ left' # NoExpiry /\ HeldInv
  BY RefreshForm DEF Refresh
<1>2. /\ held' = [d \in Callers |-> Swap(held[d])]
      /\ life' = [t \in Tokens |-> IF t \in InUse' THEN life[Swap(t)] ELSE 0]
      /\ cpc[c] = "loggedIn" /\ cpc' = [cpc EXCEPT ![c] = "expiry"]
      /\ left' = left /\ grant' = grant /\ late' = late /\ trusted' = trusted
  BY DEF SetToken
<1>3. held[c] \in Tokens
  BY <1>1, <1>2 DEF HeldInv
<1>4. /\ \A t \in Tokens : Swap(t) \in Tokens /\ Swap(Swap(t)) = t
      /\ Swap(Current) = held[c] /\ Swap(held[c]) = Current
  BY <1>3
<1>5. Current \in InUse' /\ \A d \in Callers : held'[d] \in InUse'
  BY DEF InUse
<1> HIDE DEF Swap
<1>6. life'[Current] = life[held[c]]
  BY <1>2, <1>4, <1>5
<1>7. \A d \in Callers : held[d] \in Tokens =>
         held'[d] \in Tokens /\ life'[held'[d]] = life[held[d]]
  BY <1>2, <1>4, <1>5
<1>8. /\ Lease \in Nat /\ Timeout \in Nat \ {0}
      /\ late[c] \in Nat /\ late[c] <= Timeout
      /\ left \in Nat /\ left <= Lease
      /\ life[held[c]] \in {NoExpiry, Revoked} \/ life[held[c]] \in 0..Lease
  BY <1>1, <1>3, TimeFacts
<1>9. AtLeast(held[c], Lease - late[c]) /\ trusted[c] # TRUE
  BY <1>2 DEF TimeInv, Timely
<1>10. /\ AtLeast(Current, Lease - Timeout)'
       /\ life'[Current] \in {NoExpiry, Revoked} \/ life'[Current] >= Lease - Timeout - late[c]
       /\ life'[Current] \in {NoExpiry, Revoked} \/ life'[Current] >= left - 3 * Timeout
  BY <1>6, <1>8, <1>9 DEF AtLeast
<1>11. ExpiryInv'
  BY <1>2, <1>10 DEF ExpiryInv, AtLeast
<1>12. Timely(c)'
  <2>1. cpc'[c] = "expiry" /\ trusted'[c] # TRUE
    BY <1>1, <1>2, <1>9 DEF ClientTypeOK
  <2>2. trusted'[c] = FALSE
    BY <1>1, <2>1 DEF ClientTypeOK
  <2> QED  BY <1>2, <1>10, <2>1, <2>2 DEF Timely, AtLeast
<1>13. ASSUME NEW d \in Callers \ {c}  PROVE Timely(d)'
  <2>1. cpc'[d] = cpc[d] /\ grant'[d] = grant[d] /\ late'[d] = late[d] /\ trusted'[d] = trusted[d]
    BY <1>1, <1>2 DEF ClientTypeOK
  <2>2. Timely(d) /\ (cpc[d] \in {"loggedIn", "send"} => held[d] \in Tokens)
    BY <1>1 DEF TimeInv, HeldInv
  <2>3. /\ grant[d] \in Nat /\ grant[d] <= Lease
        /\ late[d] \in Nat /\ late[d] <= Timeout
        /\ life'[Current] \in {NoExpiry, Revoked} \/ life'[Current] \in 0..Lease
    BY <1>1, TimeFacts DEF ClientTypeOK, Lives
  <2>4. /\ AtLeast(Current, Lease - Timeout - late[d])'
        /\ AtLeast(Current, grant[d] - 2 * Timeout - late[d])'
    BY <1>2, <1>8, <1>10, <2>3 DEF AtLeast
  <2>5. /\ cpc[d] = "loggedIn" => AtLeast(held[d], Lease - late[d])'
        /\ cpc[d] = "send" /\ trusted[d] => AtLeast(held[d], Margin - 3 * Timeout + 1 - late[d])'
    BY <1>2, <1>7, <2>2 DEF Timely, AtLeast
  <2> QED  BY <2>1, <2>2, <2>4, <2>5 DEF Timely
<1> QED
  BY <1>11, <1>12, <1>13 DEF TimeInv

-----------------------------------------------------------------------------
\* Time, and what happens to OpenBao, keep the client in form and in time: a tick takes
\* one from a life and adds one to how late an answer may still be.
LEMMA WeatherKeeps ==
    ASSUME FormInv, TimeInv, Tick \/ Outage \/ Recovery
    PROVE  FormInv' /\ TimeInv' /\ (Given => Given') /\ (Gone => Gone')
<1> USE DEF FormInv
<1>1. CASE Outage
  <2>1. life' = life /\ left' = left /\ UNCHANGED callVars /\ baoUp' \in BOOLEAN
    BY <1>1 DEF Outage
  <2> QED
    BY <2>1 DEF callVars, ClientTypeOK, HeldInv, ModeInv, TimeInv, ExpiryInv, Timely,
       AtLeast, Given, Gone
<1>2. CASE Recovery
  <2>1. left' = left /\ UNCHANGED callVars /\ baoUp' = TRUE
    BY <1>2 DEF Recovery
  <2>2. /\ life' \in [Tokens -> Lives]
        /\ \A t \in Tokens :
              /\ life'[t] \in {life[t], Revoked}
              /\ life[t] \notin Nat \ {0} => life'[t] = life[t]
    BY <1>2 DEF Recovery, ClientTypeOK, Lives
  <2>3. FormInv'
    BY <2>1, <2>2 DEF callVars, ClientTypeOK, HeldInv, ModeInv
  <2>4. \A t \in Tokens, n \in Int : AtLeast(t, n) =>
           life'[t] \in {NoExpiry, Revoked} \/ life'[t] >= n
    BY <2>2 DEF AtLeast
  <2>5. ExpiryInv'
    BY <2>1, <2>4, TimeFacts DEF TimeInv, ExpiryInv, AtLeast
  <2>6. ASSUME NEW c \in Callers  PROVE Timely(c)'
    <3>1. Timely(c) /\ (cpc[c] \in {"loggedIn", "send"} => held[c] \in Tokens)
      BY DEF TimeInv, HeldInv
    <3>2. Lease \in Nat /\ Margin \in Nat /\ Timeout \in Nat /\ grant[c] \in Nat /\ late[c] \in Nat
      BY TimeFacts
    <3> QED
      BY <2>1, <2>4, <3>1, <3>2 DEF callVars, Timely, AtLeast
  <2>7. (Given => Given') /\ (Gone => Gone')
    BY <2>1, <2>2 DEF Given, Gone, callVars, ClientTypeOK, Lives
  <2> QED
    BY <2>3, <2>5, <2>6, <2>7 DEF TimeInv
<1>3. CASE Tick
  <2>1. /\ life' = [t \in Tokens |-> Less(life[t])]
        /\ left' = Less(left)
        /\ late' = [c \in Callers |-> IF Waits(c) THEN late[c] + 1 ELSE 0]
        /\ UNCHANGED <<baoUp, cpc, held, grant, trusted>>
        /\ \A c \in Callers : Waits(c) => late[c] < Timeout
    BY <1>3 DEF Tick
  <2>2. /\ life' \in [Tokens -> Lives]
        /\ left' \in 0..Lease \cup {NoExpiry}
        /\ left' = NoExpiry <=> left = NoExpiry
        /\ \A t \in Tokens : life'[t] = NoExpiry <=> life[t] = NoExpiry
    <3>1. /\ \A t \in Tokens : life[t] \in Lives
          /\ left \in 0..Lease \/ left = NoExpiry
      BY DEF ClientTypeOK
    <3>2. \A t \in Tokens :
             life'[t] \in Lives /\ (life'[t] = NoExpiry <=> life[t] = NoExpiry)
      BY <2>1, <3>1, LessFacts
    <3>3. life' \in [Tokens -> Lives]
      BY <2>1, <3>2
    <3> QED  BY <2>1, <3>1, <3>2, <3>3, LessFacts
  <2>3. \A c \in Callers : late'[c] \in 0..Timeout
    BY <2>1, TimeFacts DEF ClientTypeOK
  <2>4. FormInv'
    BY <2>1, <2>2, <2>3 DEF ClientTypeOK, HeldInv, ModeInv
  <2>5. \A t \in Tokens, n \in Int : AtLeast(t, n) =>
           life'[t] \in {NoExpiry, Revoked} \/ life'[t] >= n - 1
    <3>1. \A t \in Tokens : life[t] \in {NoExpiry, Revoked} \/ life[t] \in 0..Lease
      BY TimeFacts
    <3>2. \A t \in Tokens : life'[t] = Less(life[t])
      BY <2>1
    <3>3. /\ \A n \in {NoExpiry, Revoked} : Less(n) = n
          /\ \A n \in 0..Lease : Less(n) \in Nat /\ Less(n) >= n - 1
      BY DEF Less
    <3> QED  BY <3>1, <3>2, <3>3 DEF AtLeast
  <2>6. ExpiryInv'
    <3>1. CASE left = NoExpiry
      BY <2>2, <3>1 DEF ExpiryInv
    <3>2. CASE left = 0
      <4>1. left' = 0
        BY <2>1, <3>2 DEF Less
      <4>2. life'[Current] \in {NoExpiry, Revoked} \/ life'[Current] \in Nat
        BY <2>2 DEF Lives
      <4> QED  BY <4>1, <4>2 DEF ExpiryInv, AtLeast
    <3>3. CASE left \in Nat \ {0}
      <4>1. left' = left - 1 /\ AtLeast(Current, left - 3 * Timeout)
        BY <2>1, <3>3 DEF Less, TimeInv, ExpiryInv
      <4>2. life'[Current] \in {NoExpiry, Revoked} \/ life'[Current] >= (left - 3 * Timeout) - 1
        BY <2>5, <3>3, <4>1
      <4>3. life'[Current] \in {NoExpiry, Revoked} \/ life'[Current] \in Nat
        BY <2>2 DEF Lives
      <4> QED  BY <3>3, <4>1, <4>2, <4>3 DEF ExpiryInv, AtLeast
    <3> QED  BY <3>1, <3>2, <3>3, TimeFacts
  <2>7. ASSUME NEW c \in Callers  PROVE Timely(c)'
    <3>1. Timely(c) /\ (cpc[c] \in {"loggedIn", "send"} => held[c] \in Tokens)
      BY DEF TimeInv, HeldInv
    <3>2. Lease \in Nat /\ Margin \in Nat /\ Timeout \in Nat /\ grant[c] \in Nat /\ late[c] \in Nat
      BY TimeFacts
    <3>3. CASE cpc[c] = "idle"
      BY <2>1, <3>1, <3>3 DEF Timely
    <3>4. CASE cpc[c] # "idle"
      <4>1. late'[c] = late[c] + 1
        BY <2>1, <3>4 DEF Waits
      <4>2. ASSUME NEW t \in Tokens, NEW n \in Int, AtLeast(t, n - late[c])
            PROVE  life'[t] \in {NoExpiry, Revoked} \/ life'[t] >= n - late'[c]
        <5>1. n - late[c] \in Int /\ (n - late[c]) - 1 = n - late'[c]
          BY <3>2, <4>1
        <5> QED  BY <2>5, <4>2, <5>1
      <4>3. /\ Lease - Timeout \in Int /\ grant[c] - 2 * Timeout \in Int /\ Lease \in Int
            /\ Margin - 3 * Timeout + 1 \in Int
        BY <3>2
      <4>4. /\ AtLeast(Current, Lease - Timeout - late[c]) =>
                  AtLeast(Current, Lease - Timeout - late[c])'
            /\ AtLeast(Current, grant[c] - 2 * Timeout - late[c]) =>
                  AtLeast(Current, grant[c] - 2 * Timeout - late[c])'
        BY <2>1, <4>2, <4>3 DEF AtLeast
      <4>5. held[c] \in Tokens =>
               /\ AtLeast(held[c], Lease - late[c]) => AtLeast(held[c], Lease - late[c])'
               /\ AtLeast(held[c], Margin - 3 * Timeout + 1 - late[c]) =>
                     AtLeast(held[c], Margin - 3 * Timeout + 1 - late[c])'
        <5>1. SUFFICES ASSUME held[c] \in Tokens
                       PROVE  /\ AtLeast(held[c], Lease - late[c]) =>
                                    AtLeast(held[c], Lease - late[c])'
                              /\ AtLeast(held[c], Margin - 3 * Timeout + 1 - late[c]) =>
                                    AtLeast(held[c], Margin - 3 * Timeout + 1 - late[c])'
          OBVIOUS
        <5>2. ASSUME NEW n \in Int, AtLeast(held[c], n - late[c])
              PROVE  life'[held'[c]] \in {NoExpiry, Revoked} \/ life'[held'[c]] >= n - late'[c]
          BY <2>1, <4>2, <5>1, <5>2
        <5>3. AtLeast(held[c], Lease - late[c]) => AtLeast(held[c], Lease - late[c])'
          BY <4>3, <5>2 DEF AtLeast
        <5>4. AtLeast(held[c], Margin - 3 * Timeout + 1 - late[c]) =>
                 AtLeast(held[c], Margin - 3 * Timeout + 1 - late[c])'
          <6> DEFINE m == Margin - 3 * Timeout + 1
          <6>1. m \in Int
            BY <4>3
          <6> HIDE DEF m
          <6>2. AtLeast(held[c], m - late[c]) =>
                   life'[held'[c]] \in {NoExpiry, Revoked} \/ life'[held'[c]] >= m - late'[c]
            BY <5>2, <6>1
          <6>3. m = Margin - 3 * Timeout + 1
            BY DEF m
          <6>4. late[c] \in Int /\ late'[c] \in Int
            BY <3>2, <4>1
          <6> QED  BY <6>2, <6>3, <6>4 DEF AtLeast
        <5> QED  BY <5>3, <5>4
      <4> QED
        BY <2>1, <3>1, <4>4, <4>5 DEF Timely
    <3> QED  BY <3>3, <3>4
  <2>8. Given => Given'
    BY <2>2 DEF Given
  <2>9. Gone => Gone'
    BY <2>1 DEF Gone, Less
  <2> QED
    BY <2>4, <2>6, <2>7, <2>8, <2>9 DEF TimeInv
<1> QED
  BY <1>1, <1>2, <1>3

\* A process that starts knows how long its token lives, to a timeout.
LEMMA StartKeeps ==
    ASSUME FormInv, TimeInv, Gone, NEW given, NewClient(given), UNCHANGED <<baoUp, callVars>>
    PROVE  FormInv' /\ TimeInv' /\ Given'
<1> USE DEF FormInv
<1>1. CASE given
  <2>1. life' = [life EXCEPT ![Current] = NoExpiry] /\ left' = NoExpiry
    BY <1>1 DEF NewClient
  <2>2. NoExpiry \in Lives
    BY DEF Lives
  <2>3. FormInv'
    BY <2>1, <2>2 DEF Gone, callVars, ClientTypeOK, HeldInv, ModeInv
  <2> QED
    BY <2>1, <2>3 DEF Gone, callVars, ClientTypeOK, Given, TimeInv, ExpiryInv, Timely
<1>2. CASE ~given
  <2>1. left' = Lease /\ \E d \in 0..Timeout : life' = [life EXCEPT ![Current] = Lease - d]
    BY <1>2 DEF NewClient
  <2>2. PICK d \in 0..Timeout : life' = [life EXCEPT ![Current] = Lease - d]
    BY <2>1
  <2>3. Lease - d \in 0..Lease
    OBVIOUS
  <2>4. /\ life' \in [Tokens -> Lives] /\ life'[Current] = Lease - d
        /\ \A t \in Tokens : life'[t] # NoExpiry
    BY <2>2, <2>3 DEF Gone, ClientTypeOK, Lives
  <2>5. FormInv'
    BY <2>1, <2>4 DEF Gone, callVars, ClientTypeOK, HeldInv, ModeInv
  <2>6. ExpiryInv'
    BY <2>1, <2>3, <2>4 DEF ExpiryInv, AtLeast
  <2>7. (\A c \in Callers : Timely(c))' /\ Given'
    <3>1. \A c \in Callers : cpc'[c] = "idle" /\ trusted'[c] = FALSE
      <4>1. \A c \in Callers : trusted[c] \in BOOLEAN /\ (trusted[c] => cpc[c] = "send")
        BY DEF ClientTypeOK, TimeInv, Timely
      <4> QED  BY <4>1 DEF Gone, callVars
    <3> QED  BY <2>1, <3>1 DEF Timely, Given
  <2> QED  BY <2>5, <2>6, <2>7 DEF TimeInv
<1> QED
  BY <1>1, <1>2

\* A process that ends leaves nothing behind.
LEMMA LossKeeps ==
    ASSUME FormInv, LoseClient, UNCHANGED baoUp
    PROVE  FormInv' /\ TimeInv' /\ Gone'
<1>1. 0 \in Lives
  BY DEF Lives
<1> QED
  BY <1>1 DEF FormInv, LoseClient, ClientTypeOK, HeldInv, ModeInv, TimeInv, ExpiryInv,
     Timely, Gone

-----------------------------------------------------------------------------
\* A plugin that is down has no client, any other has one; beyond the creation of the
\* key there is one.
PhaseInv ==
    /\ phase = "down" => Gone
    /\ phase # "down" => Given
    /\ phase \in {"again", "serving"} => latest > 0

ServerInv == TransitTypeOK /\ FormInv /\ TimeInv /\ PhaseInv

\* The plugin starts in these invariants.
LEMMA TransitStarts == TransitInit => ServerInv
<1> SUFFICES ASSUME TransitInit  PROVE ServerInv
  OBVIOUS
<1> USE TransitAssumption
<1>1. ClientTypeOK
  BY DEF TransitInit, ClientInit, ClientTypeOK, Lives
<1>2. FormInv /\ TimeInv /\ PhaseInv
  BY <1>1 DEF TransitInit, ClientInit, FormInv, HeldInv, ModeInv, TimeInv, ExpiryInv, Timely,
     PhaseInv, Gone
<1>3. TransitTypeOK
  BY <1>1 DEF TransitInit, S!Init, TransitTypeOK
<1> QED
  BY <1>2, <1>3 DEF ServerInv

\* A request of the client is over, or goes on; the rest is up to the server.
LEMMA ClientKeeps ==
    ASSUME FormInv, TimeInv, Given, NEW c \in Callers, Request(c) \/ Refresh(c) \/ Finish(c)
    PROVE  FormInv' /\ TimeInv' /\ Given'
<1>1. CASE Request(c) \/ Finish(c)
  BY <1>1, RequestForm, RequestInTime
<1>2. CASE Refresh(c)
  <2>1. FormInv' /\ Given'
    BY <1>2, RefreshForm
  <2> QED  BY <1>2, <2>1, RefreshInTime, SetTokenInTime
<1> QED
  BY <1>1, <1>2

\* A request of the loop that ends leaves a key where there was one, and has found or
\* made one if it succeeds.
LEMMA ReplyEffect ==
    ASSUME latest \in 0..MaxVersion, NEW ok \in BOOLEAN, Effect, ok => Succeeds
    PROVE  latest' \in 0..MaxVersion /\ latest' >= latest /\ (ok => latest' > 0)
BY TransitAssumption DEF Effect, Succeeds

\* A goroutine is in a request only while the plugin is up.
LEMMA BusyMeansUp ==
    ASSUME PhaseInv, NEW c \in Callers, cpc[c] # "idle"
    PROVE  phase # "down"
BY DEF PhaseInv, Gone

\* Every step keeps the invariants of the plugin.
LEMMA TransitStep == ServerInv /\ [TransitNext]_transitVars => ServerInv'
<1> SUFFICES ASSUME ServerInv, [TransitNext]_transitVars  PROVE ServerInv'
  OBVIOUS
<1> USE TransitAssumption DEF ServerInv
<1>0. /\ phase \in {"down", "lookup", "create", "again", "serving"}
      /\ config \in {FromEnvironment(s) : s \in Settings}
      /\ latest \in 0..MaxVersion
      /\ keyID \in [{Plugin} -> {0, NoVersion}]
      /\ healthy \in [{Plugin} -> BOOLEAN]
      /\ probe \in [{Plugin} -> {0, NoVersion, NoProbe}]
      /\ Loop \in Callers /\ \A c \in Calls : c \in Callers
  BY DEF TransitTypeOK
\* What the client does is known; what is left is the server's own part.
<1>1. ASSUME NEW c \in Callers, Request(c) \/ Refresh(c) \/ Finish(c), phase # "down",
             phase' \in {"lookup", "create", "again", "serving"}, config' = config,
             latest' \in 0..MaxVersion, phase' \in {"again", "serving"} => latest' > 0,
             keyID' \in [{Plugin} -> {0, NoVersion}], healthy' \in [{Plugin} -> BOOLEAN],
             probe' \in [{Plugin} -> {0, NoVersion, NoProbe}]
      PROVE  ServerInv'
  <2>1. FormInv' /\ TimeInv' /\ Given'
    BY <1>1, ClientKeeps DEF PhaseInv
  <2>2. TransitTypeOK'
    BY <1>0, <1>1, <2>1 DEF TransitTypeOK, FormInv
  <2> QED  BY <1>1, <2>1, <2>2 DEF PhaseInv
<1>2. ASSUME NEW c \in Callers, Request(c) \/ Refresh(c) \/ Finish(c), phase # "down",
             UNCHANGED <<phase, config, latest, status>>
      PROVE  ServerInv'
  BY <1>0, <1>1, <1>2 DEF PhaseInv, status
<1>3. ASSUME NEW c \in Calls, Receive(c) \/ CallStep(c)  PROVE ServerInv'
  <2>1. CASE Receive(c)
    BY <1>0, <1>2, <2>1 DEF Receive
  <2>2. CASE CallStep(c)
    <3>1. cpc[c] # "idle" /\ (Refresh(c) \/ Finish(c))
      BY <2>2 DEF CallStep, RefreshStep, SendCall, Finish, Refresh, RenewAccepted, RenewFails,
         Renewed, LoginAccepted, LoginFails, SetToken, SetExpiry
    <3>2. phase # "down"
      BY <1>0, <3>1, BusyMeansUp
    <3> QED  BY <1>0, <1>2, <2>2, <3>1, <3>2 DEF CallStep, RefreshStep, SendCall
  <2> QED  BY <1>3, <2>1, <2>2
<1>4. CASE RefreshStep(Loop)
  <2>1. cpc[Loop] # "idle"
    BY <1>4 DEF RefreshStep, Refresh, RenewAccepted, RenewFails, Renewed, LoginAccepted,
       LoginFails, SetToken, SetExpiry
  <2>2. phase # "down"
    BY <1>0, <2>1, BusyMeansUp
  <2> QED  BY <1>0, <1>2, <1>4, <2>2 DEF RefreshStep
<1>5. CASE Lookup \/ Create \/ HealthAsk
  BY <1>0, <1>2, <1>5 DEF Lookup, Create, HealthAsk
<1>6. CASE TryCreate
  BY <1>0, <1>1, <1>6, ReplyEffect DEF TryCreate, Reply, status
<1>7. CASE Created
  BY <1>0, <1>1, <1>7, ReplyEffect DEF Created, Reply, status
<1>8. ASSUME NEW ok \in BOOLEAN, Initialized(ok)  PROVE ServerInv'
  <2>1. /\ Info(ok) # NoVersion /\ ok = TRUE
        /\ Finish(Loop) /\ phase # "down" /\ phase' = "serving" /\ config' = config
        /\ keyID' = [keyID EXCEPT ![Plugin] = Info(ok)] /\ probe' = probe
        /\ healthy' = [healthy EXCEPT ![Plugin] = TRUE]
    BY <1>8 DEF Initialized, Reply, S!Initialize, S!SoftStart, Info
  <2>2. latest' \in 0..MaxVersion /\ latest' > 0
    BY <1>0, <1>8, <2>1, ReplyEffect DEF Initialized, Reply
  <2>3. keyID' \in [{Plugin} -> {0, NoVersion}] /\ healthy' \in [{Plugin} -> BOOLEAN]
    BY <1>0, <2>1 DEF Info, LatestVersion
  <2> QED  BY <1>0, <1>1, <2>1, <2>2, <2>3
<1>9. ASSUME NEW ok \in BOOLEAN, HealthRead(ok)  PROVE ServerInv'
  <2>1. /\ Finish(Loop) /\ phase = "serving" /\ phase' = phase /\ config' = config
        /\ probe' = [probe EXCEPT ![Plugin] = Info(ok)]
        /\ keyID' = keyID /\ healthy' = healthy
    BY <1>9 DEF HealthRead, Reply, S!ReadKeyInfo
  <2>2. latest' \in 0..MaxVersion /\ latest' >= latest
    BY <1>0, <1>9, ReplyEffect DEF HealthRead, Reply
  <2>3. latest > 0
    BY <2>1 DEF PhaseInv
  <2>4. probe' \in [{Plugin} -> {0, NoVersion, NoProbe}]
    BY <1>0, <2>1 DEF Info, LatestVersion
  <2> QED  BY <1>0, <1>1, <2>1, <2>2, <2>3, <2>4
<1>10. CASE HealthApply
  <2>1. /\ UNCHANGED <<clientVars, phase, config, latest>>
        /\ keyID' \in [{Plugin} -> {0, NoVersion}]
        /\ healthy' \in [{Plugin} -> BOOLEAN]
        /\ probe' \in [{Plugin} -> {0, NoVersion, NoProbe}]
    BY <1>0, <1>10 DEF HealthApply, S!ApplyFailure, S!ApplySuccess
  <2> QED
    BY <1>0, <2>1 DEF clientVars, callVars, TransitTypeOK, FormInv, ClientTypeOK, HeldInv,
       ModeInv, TimeInv, ExpiryInv, Timely, AtLeast, PhaseInv, Gone, Given
<1>11. CASE Rotate
  <2>1. /\ UNCHANGED <<clientVars, phase, config, status>>
        /\ latest' \in 0..MaxVersion /\ latest' > 0
    BY <1>0, <1>11 DEF Rotate
  <2> QED
    BY <1>0, <2>1 DEF clientVars, callVars, status, TransitTypeOK, FormInv, ClientTypeOK,
       HeldInv, ModeInv, TimeInv, ExpiryInv, Timely, AtLeast, PhaseInv, Gone, Given
<1>12. CASE Weather
  <2>1. FormInv' /\ TimeInv' /\ (Given => Given') /\ (Gone => Gone')
    BY <1>12, WeatherKeeps DEF Weather
  <2>2. UNCHANGED <<phase, config, latest, status>>
    BY <1>12 DEF Weather
  <2> QED
    BY <1>0, <2>1, <2>2 DEF status, TransitTypeOK, FormInv, PhaseInv
<1>13. CASE Start
  <2>1. /\ Gone /\ phase' = "lookup" /\ UNCHANGED <<baoUp, callVars, latest, status>>
        /\ config' \in {FromEnvironment(s) : s \in Settings}
        /\ NewClient(config'.token)
    BY <1>13 DEF Start, PhaseInv
  <2>2. FormInv' /\ TimeInv' /\ Given'
    BY <2>1, StartKeeps
  <2> QED
    BY <1>0, <2>1, <2>2 DEF status, TransitTypeOK, FormInv, PhaseInv
<1>14. CASE GiveUp \/ Crash
  <2>1. /\ LoseClient /\ phase' = "down" /\ UNCHANGED <<baoUp, config>>
        /\ S!Lose(Plugin)
    BY <1>14 DEF GiveUp, Crash, Exit
  <2>2. latest' \in 0..MaxVersion
    BY <1>0, <1>14 DEF GiveUp, Crash, Effect
  <2>3. FormInv' /\ TimeInv' /\ Gone'
    BY <2>1, LossKeeps
  <2>4. /\ keyID' \in [{Plugin} -> {0, NoVersion}]
        /\ healthy' \in [{Plugin} -> BOOLEAN]
        /\ probe' \in [{Plugin} -> {0, NoVersion, NoProbe}]
    BY <1>0, <2>1 DEF S!Lose
  <2> QED
    BY <1>0, <2>1, <2>2, <2>3, <2>4 DEF TransitTypeOK, FormInv, PhaseInv
<1>15. CASE UNCHANGED transitVars
  BY <1>0, <1>15 DEF transitVars, clientVars, callVars, status, TransitTypeOK, FormInv,
     ClientTypeOK, HeldInv, ModeInv, TimeInv, ExpiryInv, Timely, AtLeast, PhaseInv, Gone, Given
<1> QED
  BY <1>3, <1>4, <1>5, <1>6, <1>7, <1>8, <1>9, <1>10, <1>11, <1>12, <1>13, <1>14, <1>15
     DEF TransitNext, LoopStep

\* The invariants of the plugin always hold.
LEMMA TransitInvariant == TransitSpec => []ServerInv
BY TransitStarts, TransitStep, PTL DEF TransitSpec

\* The variables of the plugin, of its client and of OpenBao keep their types: no
\* refresh is without a token to renew or a name for a new one.
THEOREM TransitTypeCorrect == TransitSpec => []TransitTypeOK
BY TransitInvariant, PTL DEF ServerInv

\* A plugin serves only once the Transit key exists, whichever requests of its start
\* failed or lost their answers.
THEOREM ServingPluginsHaveAKey == TransitSpec => []ServingHasKey
<1>1. ServerInv => ServingHasKey
  BY DEF ServerInv, PhaseInv, ServingHasKey
<1> QED
  BY <1>1, TransitInvariant, PTL

\* No request trusts a token that has expired, for any number of goroutines whose
\* renewals and logins mix in any order.
THEOREM RequestsTrustLiveTokens == TransitSpec => []TrustedTokensAreLive
<1>1. ASSUME ServerInv, NEW c \in Callers, cpc[c] = "send", trusted[c]
      PROVE  life[held[c]] # 0
  <2>1. AtLeast(held[c], Margin - 3 * Timeout + 1 - late[c])
    BY <1>1 DEF ServerInv, TimeInv, Timely
  <2>2. Margin \in Nat /\ Timeout \in Nat \ {0} /\ late[c] \in Nat /\ late[c] <= Timeout
    BY <1>1, TimeFacts DEF ServerInv, FormInv
  <2>3. life[held[c]] = 0 => 0 \notin {NoExpiry, Revoked}
    OBVIOUS
  <2> QED  BY <2>1, <2>2, <2>3 DEF AtLeast
<1>2. ServerInv => TrustedTokensAreLive
  BY <1>1 DEF TrustedTokensAreLive
<1> QED
  BY <1>2, TransitInvariant, PTL

=============================================================================
