------------------------------ MODULE KafkaOAuth ------------------------------
(***************************************************************************)
(* The token cache of the Kafka connections' SASL mechanism                *)
(* (providers/kafka_oauth.go): every dial of a reader or of the writer     *)
(* calls Start, which calls getAccessToken.  The token is fetched over     *)
(* HTTP while the write lock is held.                                      *)
(*                                                                         *)
(* The token endpoint is external: some time between the request and its   *)
(* answer it issues a token that the broker accepts for expires_in.        *)
(***************************************************************************)
EXTENDS Integers

CONSTANTS Callers,       \* dials in progress at once
          Lifetimes,     \* the values of expires_in
          HttpTimeout,   \* httpTimeout (5 s)
          Margin,        \* how long before its end a token is used no more (60 s)
          MaxTime,       \* bound on the clock
          None

ASSUME OAuthAssumption ==
    /\ Lifetimes \subseteq Nat
    /\ {HttpTimeout, Margin, MaxTime} \subseteq Nat
    /\ HttpTimeout <= Margin
    /\ None \notin Callers

VARIABLES now,
          pc,            \* [Callers -> "idle", "check", "lock" or "fetch"]
          holder,        \* who holds the write lock
          began,         \* when the holder sent its request, 0 if there is none
          hasToken,      \* accessToken is not empty
          validUntil,    \* until when the broker accepts accessToken
          expiresAt

cacheVars == <<hasToken, validUntil, expiresAt>>
vars == <<now, pc, holder, began, cacheVars>>

Init ==
    /\ now = 0 /\ began = 0
    /\ pc = [c \in Callers |-> "idle"] /\ holder = None
    /\ hasToken = FALSE /\ validUntil = 0 /\ expiresAt = 0

Goto(c, to) == pc' = [pc EXCEPT ![c] = to]

Start(c) ==
    /\ pc[c] = "idle"
    /\ Goto(c, "check")
    /\ UNCHANGED <<now, holder, began, cacheVars>>

Fresh == hasToken /\ now < expiresAt

\* The check under the read lock: the cached token is returned, or the write lock is
\* asked for after the read lock was given up.
CheckCache(c) ==
    /\ pc[c] = "check" /\ holder = None
    /\ Goto(c, IF Fresh THEN "idle" ELSE "lock")
    /\ UNCHANGED <<now, holder, began, cacheVars>>

\* A getAccessToken without the double check.
LockAndFetch(c) ==
    /\ pc[c] = "lock" /\ holder = None
    /\ Goto(c, "fetch") /\ holder' = c /\ began' = now
    /\ UNCHANGED <<now, cacheVars>>

\* The double check under the write lock, and the request.
Lock(c) ==
    /\ pc[c] = "lock" /\ holder = None
    /\ IF Fresh THEN Goto(c, "idle") /\ UNCHANGED <<holder, began>>
                ELSE Goto(c, "fetch") /\ holder' = c /\ began' = now
    /\ UNCHANGED <<now, cacheVars>>

\* An expiry without the margin.
ExpiryExact(lifetime) == now + lifetime

Expiry(lifetime) == now + lifetime - Margin

\* The endpoint answers 200.  The body may carry no token (the empty string is then
\* stored and returned).
FetchOK(c) ==
    /\ pc[c] = "fetch"
    /\ \E lifetime \in Lifetimes, issued \in began..now :
          /\ validUntil' = issued + lifetime
          /\ expiresAt' = Expiry(lifetime)
    /\ hasToken' \in BOOLEAN
    /\ Goto(c, "idle") /\ holder' = None /\ began' = 0
    /\ UNCHANGED now

\* An early return that leaves the lock behind.
FetchFailedLocked(c) ==
    /\ pc[c] = "fetch"
    /\ Goto(c, "idle")
    /\ UNCHANGED <<now, holder, began, cacheVars>>

\* Timeout, transport error, the dial's context done, another status, a bad body.
FetchFailed(c) ==
    /\ pc[c] = "fetch"
    /\ Goto(c, "idle") /\ holder' = None /\ began' = 0
    /\ UNCHANGED <<now, cacheVars>>

\* Time passes, but a request takes no longer than HttpTimeout.
Tick ==
    /\ now < MaxTime
    /\ holder # None => now < began + HttpTimeout
    /\ now' = now + 1
    /\ UNCHANGED <<pc, holder, began, cacheVars>>

Next ==
    \/ \E c \in Callers : Start(c) \/ CheckCache(c) \/ Lock(c) \/ FetchOK(c) \/ FetchFailed(c)
    \/ Tick

Spec == Init /\ [][Next]_vars

\* A request ends, by its timeout at the latest; sync.RWMutex lets the readers that
\* wait in at every Unlock, and starves no writer.
Fairness ==
    \A c \in Callers : /\ SF_vars(CheckCache(c)) /\ SF_vars(Lock(c))
                       /\ WF_vars(FetchOK(c) \/ FetchFailed(c))

FairSpec == Spec /\ Fairness

(***************************************************************************)
(* Properties.                                                             *)
(***************************************************************************)
\* Types of the state; the write lock is held for a request in progress and only then.
TypeOK ==
    /\ now \in 0..MaxTime /\ began \in 0..now
    /\ pc \in [Callers -> {"idle", "check", "lock", "fetch"}]
    /\ holder \in Callers \cup {None}
    /\ \A c \in Callers : pc[c] = "fetch" <=> holder = c
    /\ hasToken \in BOOLEAN /\ validUntil \in Nat /\ expiresAt \in Int

\* A token from the cache is good for longer than Margin - HttpTimeout, although
\* expires_in counts from when the token was issued and the code counts from when
\* the answer was read, up to HttpTimeout later.
CachedTokenLasts == Fresh => validUntil > now + Margin - HttpTimeout

\* A token is replaced only after it has expired: of the dials that found it expired
\* at the same time, those that get the lock later take the token of the first.
ReplacedOnlyExpired == [][expiresAt' # expiresAt => ~Fresh]_vars

\* Every dial gets its token or an error: no failed request leaves the lock behind.
EveryCallReturns == \A c \in Callers : (pc[c] # "idle") ~> (pc[c] = "idle")
===============================================================================
