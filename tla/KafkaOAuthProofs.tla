--------------------------- MODULE KafkaOAuthProofs ---------------------------
(***************************************************************************)
(* The safety of the token cache, for any number of dials, any lifetimes   *)
(* and any margin that is not below the timeout of a request.              *)
(***************************************************************************)
EXTENDS KafkaOAuth, TLAPS

\* A request in progress is not older than its timeout, and was begun because the
\* cache had expired; nobody else can have filled it since.
RequestOK == holder # None => now <= began + HttpTimeout /\ ~Fresh

\* The cache gives a token up at least Margin - HttpTimeout before the broker does.
CacheOK == hasToken => validUntil >= expiresAt + Margin - HttpTimeout

IndInv == TypeOK /\ RequestOK /\ CacheOK

\* The zero KafkaOAuthMechanism satisfies the invariant.
LEMMA InitIndInv == Init => IndInv
<1> SUFFICES ASSUME Init PROVE IndInv
  OBVIOUS
<1>1. MaxTime \in Nat
  BY OAuthAssumption
<1>2. now \in 0..MaxTime /\ began \in 0..now /\ validUntil \in Nat /\ expiresAt \in Int
  BY <1>1 DEF Init
<1>3. hasToken \in BOOLEAN /\ ~hasToken
  BY Zenon DEF Init
<1>4. /\ pc \in [Callers -> {"idle", "check", "lock", "fetch"}]
      /\ \A c \in Callers : pc[c] # "fetch" /\ holder # c
  BY OAuthAssumption DEF Init
<1> QED
  BY <1>2, <1>3, <1>4 DEF Init, IndInv, TypeOK, RequestOK, CacheOK

\* The answer of a request keeps the invariant: the token was issued after the request
\* began, at most HttpTimeout ago.
LEMMA FetchOKIndInv == ASSUME IndInv, NEW c \in Callers, FetchOK(c) PROVE IndInv'
<1> USE OAuthAssumption DEF IndInv
<1>1. PICK lifetime \in Lifetimes, issued \in began..now :
         /\ validUntil' = issued + lifetime
         /\ expiresAt' = now + lifetime - Margin
  BY DEF FetchOK, Expiry
<1>2. /\ pc[c] = "fetch" /\ holder = c
      /\ pc' = [pc EXCEPT ![c] = "idle"] /\ holder' = None
      /\ now' = now /\ began' = 0 /\ hasToken' \in BOOLEAN
  BY DEF FetchOK, Goto, TypeOK
<1>3. /\ now \in Nat /\ began \in Nat /\ lifetime \in Nat /\ issued \in Nat
      /\ Margin \in Nat /\ HttpTimeout \in Nat /\ now <= began + HttpTimeout
  BY <1>2 DEF TypeOK, RequestOK
<1>4. validUntil' \in Nat /\ expiresAt' \in Int /\ CacheOK'
  BY <1>1, <1>3 DEF CacheOK
<1>5. TypeOK'
  BY <1>2, <1>3, <1>4 DEF TypeOK
<1> QED BY <1>2, <1>4, <1>5 DEF RequestOK

\* The steps that leave the cache alone keep the invariant.
LEMMA OtherIndInv ==
    ASSUME IndInv, NEW c \in Callers, Start(c) \/ CheckCache(c) \/ Lock(c) \/ FetchFailed(c)
    PROVE  IndInv'
<1> USE OAuthAssumption DEF IndInv, TypeOK, RequestOK, CacheOK, Fresh, cacheVars
<1>1. CASE Start(c)
  BY <1>1 DEF Start, Goto
<1>2. CASE CheckCache(c)
  BY <1>2 DEF CheckCache, Goto
<1>3. CASE Lock(c)
  <2>1. CASE Fresh
    BY <1>3, <2>1 DEF Lock, Goto
  <2>2. CASE ~Fresh
    BY <1>3, <2>2 DEF Lock, Goto
  <2> QED BY <2>1, <2>2
<1>4. CASE FetchFailed(c)
  BY <1>4 DEF FetchFailed, Goto
<1> QED BY <1>1, <1>2, <1>3, <1>4

\* Every step keeps the invariant.
LEMMA NextIndInv == IndInv /\ [Next]_vars => IndInv'
<1> SUFFICES ASSUME IndInv, [Next]_vars PROVE IndInv'
  OBVIOUS
<1>1. CASE Tick
  BY <1>1, OAuthAssumption DEF Tick, IndInv, TypeOK, RequestOK, CacheOK, Fresh, cacheVars
<1>2. CASE UNCHANGED vars
  BY <1>2 DEF vars, IndInv, TypeOK, RequestOK, CacheOK, Fresh, cacheVars
<1> QED BY <1>1, <1>2, FetchOKIndInv, OtherIndInv DEF Next

\* A token returned from the cache of getAccessToken is accepted by the broker for
\* longer than Margin - HttpTimeout.
THEOREM TokenLasts == Spec => []CachedTokenLasts
<1>1. IndInv => CachedTokenLasts
  BY OAuthAssumption DEF IndInv, TypeOK, CacheOK, CachedTokenLasts, Fresh
<1> QED BY InitIndInv, NextIndInv, <1>1, PTL DEF Spec

\* The cache and the lock keep their types: the lock is held for a request only.
THEOREM TypeCorrect == Spec => []TypeOK
<1>1. IndInv => TypeOK
  BY DEF IndInv
<1> QED BY InitIndInv, NextIndInv, <1>1, PTL DEF Spec

\* getAccessToken replaces a token only after it has expired, however many dials found
\* it expired at the same time.
THEOREM NoDoubleFetch == Spec => ReplacedOnlyExpired
<1>1. IndInv /\ [Next]_vars => [expiresAt' # expiresAt => ~Fresh]_vars
  <2> SUFFICES ASSUME IndInv, Next, expiresAt' # expiresAt PROVE ~Fresh
    OBVIOUS
  <2>1. PICK c \in Callers : FetchOK(c)
    BY DEF Next, Start, CheckCache, Lock, FetchFailed, Tick, cacheVars
  <2>2. holder = c /\ c # None
    BY <2>1, OAuthAssumption DEF FetchOK, IndInv, TypeOK
  <2> QED BY <2>2 DEF IndInv, RequestOK
<1> QED BY InitIndInv, NextIndInv, <1>1, PTL DEF Spec, ReplacedOnlyExpired
===============================================================================
