----------------------------- MODULE ServerProofs -----------------------------
(***************************************************************************)
(* The tokens of the connection limiter under the server's accept loop and *)
(* handlers, for any finite number of clients and every capacity.          *)
(*                                                                         *)
(* TokenConservation is inductive together with the types.  What the       *)
(* limiter bounds is Held, the handlers that run; that it also bounds the  *)
(* open sockets needs the order of the defers (SocketOK).  Start begins    *)
(* a loop that holds no token, and there is none before it (StartOK).      *)
(***************************************************************************)
EXTENDS Server, FiniteSetTheorems, TLAPS

\* A socket is open only while its handler runs and has not come to its last defer,
\* the one that returns the token.
SocketOK == \A c \in Clients : socket[c] => handler[c] \in Running \ {"release"}

\* The accept loop runs only after Start has made the listener.
StartOK == listener = "nil" => loop = "off"

IndInv == TypeOK /\ TokenConservation /\ SocketOK /\ StartOK

\* The handlers that run are finitely many.
LEMMA HeldFinite == IsFiniteSet(Held) /\ Cardinality(Held) \in Nat
  BY ServerAssumption, FS_Subset, FS_CardinalityType DEF Held

\* A handler that begins adds one to those that run; one that ends takes one away;
\* the steps in between, and a client that queues, leave them as they are.
LEMMA HeldMoves ==
    ASSUME handler \in [Clients -> Outside \cup Running],
           NEW c \in Clients, NEW to \in Outside \cup Running, Goto(c, to)
    PROVE  /\ (handler[c] \in Running <=> to \in Running) => Held' = Held
           /\ handler[c] \in Outside /\ to \in Running =>
                 Cardinality(Held') = Cardinality(Held) + 1
           /\ handler[c] \in Running /\ to \in Outside =>
                 Cardinality(Held') = Cardinality(Held) - 1
<1>1. handler' = [handler EXCEPT ![c] = to]
  BY DEF Goto
<1>2. Outside \cap Running = {}
  BY DEF Outside, Running
<1>3. (handler[c] \in Running <=> to \in Running) => Held' = Held
  BY <1>1 DEF Held
<1>4. ASSUME handler[c] \in Outside, to \in Running
      PROVE  Cardinality(Held') = Cardinality(Held) + 1
  <2>1. Held' = Held \cup {c} /\ c \notin Held
    BY <1>1, <1>2, <1>4 DEF Held
  <2> QED
    BY <2>1, HeldFinite, FS_AddElement
<1>5. ASSUME handler[c] \in Running, to \in Outside
      PROVE  Cardinality(Held') = Cardinality(Held) - 1
  <2>1. Held' = Held \ {c} /\ c \in Held
    BY <1>1, <1>2, <1>5 DEF Held
  <2> QED
    BY <2>1, HeldFinite, FS_RemoveElement
<1> QED
  BY <1>3, <1>4, <1>5

\* Outstanding counts at least nothing, and something while a handler runs or the
\* accept loop holds a token.
LEMMA OutstandingNat ==
    /\ Outstanding \in Nat
    /\ loop = "accept" => Outstanding > 0
    /\ \A c \in Clients : handler[c] \in Running => Outstanding > 0
<1>1. Outstanding \in Nat /\ (loop = "accept" => Outstanding > 0)
  BY HeldFinite DEF Outstanding
<1>2. ASSUME NEW c \in Clients, handler[c] \in Running PROVE Outstanding > 0
  <2>1. Held # {}
    BY <1>2 DEF Held
  <2>2. Cardinality(Held) # 0
    BY <2>1, HeldFinite, FS_EmptySet
  <2> QED
    BY <2>2, HeldFinite DEF Outstanding
<1> QED
  BY <1>1, <1>2

(***************************************************************************)
(* Every step of the server is, for the limiter, an Acquire, a Release     *)
(* that finds room, a Close or nothing.                                    *)
(***************************************************************************)
Takes == /\ tokens > 0 /\ tokens' = tokens - 1
         /\ Outstanding' = Outstanding + 1 /\ limiterClosed' = limiterClosed
Returns == /\ Outstanding > 0 /\ tokens < InitCapacity /\ tokens' = tokens + 1
           /\ Outstanding' = Outstanding - 1 /\ limiterClosed' = limiterClosed
Keeps == tokens' = tokens /\ Outstanding' = Outstanding

\* The steps of the accept loop, as the limiter sees them.
LEMMA LoopOnLimiter ==
    ASSUME TypeOK, TokenConservation, LoopStep
    PROVE  Takes \/ Returns \/ (Keeps /\ limiterClosed' = limiterClosed)
<1> USE ServerAssumption DEF TypeOK
<1>0. Cardinality(Held) \in Nat /\ Outstanding \in Nat
  BY HeldFinite, OutstandingNat
<1>1. CASE LoopCheck
  BY <1>1, <1>0 DEF LoopCheck, Keeps, Outstanding, Held, limiterVars, connVars
<1>2. CASE LoopAcquire
  <2>1. Held' = Held /\ limiterClosed' = limiterClosed
    BY <1>2 DEF LoopAcquire, Held, connVars
  <2>2. CASE tokens > 0
    <3>1. tokens' = tokens - 1 /\ loop' = "accept" /\ loop = "acquire"
      BY <1>2, <2>2 DEF LoopAcquire
    <3> QED BY <2>1, <2>2, <3>1, <1>0 DEF Takes, Outstanding
  <2>3. CASE ~(tokens > 0)
    <3>1. tokens' = tokens /\ loop' = "backoff" /\ loop = "acquire"
      BY <1>2, <2>3 DEF LoopAcquire
    <3> QED BY <2>1, <3>1, <1>0 DEF Keeps, Outstanding
  <2> QED BY <2>2, <2>3
<1>3. CASE LoopWake
  BY <1>3, <1>0 DEF LoopWake, Keeps, Outstanding, Held, limiterVars, connVars
<1>4. CASE AcceptFailed
  <2>1. Held' = Held /\ limiterClosed' = limiterClosed /\ loop = "accept" /\ loop' # "accept"
    BY <1>4 DEF AcceptFailed, Held, connVars
  <2>2. Outstanding > 0 /\ tokens < InitCapacity
    BY <2>1, <1>0, OutstandingNat DEF TokenConservation
  <2>3. tokens' = tokens + 1
    BY <1>4, <2>2 DEF AcceptFailed, PutBack
  <2> QED BY <2>1, <2>2, <2>3, <1>0 DEF Returns, Outstanding
<1>5. ASSUME NEW c \in Clients, LoopAccept(c)
      PROVE  Keeps /\ limiterClosed' = limiterClosed
  <2>1. Cardinality(Held') = Cardinality(Held) + 1
    BY <1>5, HeldMoves DEF LoopAccept, Outside, Running
  <2>2. loop = "accept" /\ loop' = "check" /\ UNCHANGED limiterVars
    BY <1>5 DEF LoopAccept
  <2> QED BY <2>1, <2>2, <1>0 DEF Keeps, Outstanding, limiterVars
<1> QED
  BY <1>1, <1>2, <1>3, <1>4, <1>5 DEF LoopStep

\* The steps of a client and its handler, as the limiter sees them.
LEMMA HandlerOnLimiter ==
    ASSUME TypeOK, TokenConservation, NEW c \in Clients,
           \/ Connect(c) \/ UpgradeOK(c) \/ UpgradeFailed(c)
           \/ OnConnectFailed(c) \/ CloseConn(c) \/ Unwind(c)
    PROVE  Returns \/ (Keeps /\ limiterClosed' = limiterClosed)
<1> USE ServerAssumption DEF TypeOK
<1>0. Cardinality(Held) \in Nat /\ Outstanding \in Nat
  BY HeldFinite, OutstandingNat
<1>1. ASSUME NEW to \in Outside \cup Running, Goto(c, to),
             handler[c] \in Running <=> to \in Running, UNCHANGED <<limiterVars, loop>>
      PROVE  Keeps /\ limiterClosed' = limiterClosed
  <2>1. Held' = Held
    BY <1>1, HeldMoves
  <2> QED BY <1>1, <2>1 DEF Keeps, Outstanding, limiterVars
<1>2. CASE Connect(c)
  BY <1>1, <1>2 DEF Connect, Outside, Running
<1>3. CASE UpgradeOK(c) \/ UpgradeFailed(c) \/ OnConnectFailed(c)
  BY <1>1, <1>3 DEF UpgradeOK, UpgradeFailed, OnConnectFailed, Outside, Running
<1>4. CASE CloseConn(c)
  BY <1>4 DEF CloseConn, Keeps, Outstanding, Held, limiterVars
<1>5. CASE OnConnect(c) \/ Leave(c) \/ NetClose(c)
  BY <1>1, <1>5 DEF OnConnect, Leave, NetClose, Outside, Running
<1>6. CASE OnDisconnect(c) \/ RemoveConn(c)
  BY <1>1, <1>6 DEF OnDisconnect, RemoveConn, CloseDeferred, Outside, Running
<1>7. CASE Release(c)
  <2>1. Cardinality(Held') = Cardinality(Held) - 1
    BY <1>7, HeldMoves DEF Release, Outside, Running
  <2>2. Outstanding > 0 /\ tokens < InitCapacity
    BY <1>7, <1>0, OutstandingNat DEF Release, Running, TokenConservation
  <2>3. tokens' = tokens + 1 /\ limiterClosed' = limiterClosed /\ loop' = loop
    BY <1>7, <2>2 DEF Release, PutBack
  <2> QED BY <2>1, <2>2, <2>3, <1>0 DEF Returns, Outstanding
<1> QED
  BY <1>2, <1>3, <1>4, <1>5, <1>6, <1>7 DEF Unwind

\* Every step of the server, as the limiter sees it.
LEMMA StepOnLimiter ==
    ASSUME TypeOK, TokenConservation, StartOK, [Next]_vars
    PROVE  \/ Takes \/ Returns
           \/ Keeps /\ (limiterClosed' = limiterClosed \/ (~limiterClosed /\ limiterClosed' = TRUE))
<1> DEFINE Goal == \/ Takes \/ Returns
                   \/ Keeps /\ (\/ limiterClosed' = limiterClosed
                                \/ ~limiterClosed /\ limiterClosed' = TRUE)
<1> SUFFICES Goal
  OBVIOUS
<1>1. CASE Start
  <2>1. loop = "off" /\ loop' = "check" /\ UNCHANGED <<limiterVars, connVars>>
    BY <1>1 DEF Start, StartOK
  <2> QED
    BY <2>1 DEF Keeps, Outstanding, Held, limiterVars, connVars
<1>2. CASE LoopStep
  BY <1>2, LoopOnLimiter
<1>3. CASE GracefulFlag
  BY <1>3 DEF GracefulFlag, Keeps, Outstanding, Held, limiterVars, connVars
<1>4. CASE GracefulClose
  <2>1. Held' = Held
    BY <1>4 DEF GracefulClose, Held, Running, TypeOK
  <2> QED
    BY <1>4, <2>1 DEF GracefulClose, Keeps, Outstanding, limiterVars
<1>5. CASE GracefulReturn \/ Shutdown
  <2>1. tokens' = tokens /\ loop' = loop /\ handler' = handler /\ limiterClosed' = TRUE
    BY <1>5 DEF GracefulReturn, Shutdown, Cancel, connVars
  <2>2. Keeps
    BY <2>1 DEF Keeps, Outstanding, Held
  <2>3. limiterClosed \in BOOLEAN
    BY DEF TypeOK
  <2> QED
    BY <2>1, <2>2, <2>3
<1>6. ASSUME NEW c \in Clients,
             \/ Connect(c) \/ UpgradeOK(c) \/ UpgradeFailed(c)
             \/ OnConnectFailed(c) \/ CloseConn(c) \/ Unwind(c)
      PROVE  Goal
  BY <1>6, HandlerOnLimiter
<1>7. CASE UNCHANGED vars
  BY <1>7 DEF vars, Keeps, Outstanding, Held, limiterVars, connVars
<1> HIDE DEF Goal
<1> QED
  BY <1>1, <1>2, <1>3, <1>4, <1>5, <1>6, <1>7 DEF Next, Terminated

(***************************************************************************)
(* The inductive invariant.                                                *)
(***************************************************************************)
\* NewServer establishes the inductive invariant.
LEMMA InitIndInv == Init => IndInv
<1> SUFFICES ASSUME Init PROVE IndInv
  OBVIOUS
<1> USE ServerAssumption DEF Init
<1>1. /\ limiterClosed \in BOOLEAN /\ acceptNewConn \in BOOLEAN /\ ctxDone \in BOOLEAN
      /\ socket \in [Clients -> BOOLEAN] /\ connClosed \in [Clients -> BOOLEAN]
  BY Zenon
<1>2. TypeOK
  BY <1>1 DEF TypeOK, Outside, Running, LoopPCs
<1>3. Held = {}
  BY DEF Held, Running
<1>4. TokenConservation
  BY <1>3, FS_EmptySet DEF TokenConservation, Outstanding
<1> QED
  BY <1>2, <1>4 DEF IndInv, SocketOK, StartOK

\* Every step keeps the types, the order of the defers and that of the start.
LEMMA NextShape == TypeOK /\ SocketOK /\ StartOK /\ [Next]_vars => TypeOK' /\ SocketOK' /\ StartOK'
<1> SUFFICES ASSUME TypeOK, SocketOK, StartOK, [Next]_vars PROVE TypeOK' /\ SocketOK' /\ StartOK'
  OBVIOUS
<1> USE ServerAssumption
    DEF TypeOK, SocketOK, StartOK, Outside, Running, LoopPCs, limiterVars, connVars, stopVars
<1>1. CASE Start
  BY <1>1 DEF Start
<1>2. CASE LoopCheck
  BY <1>2 DEF LoopCheck
<1>3. CASE LoopAcquire
  BY <1>3 DEF LoopAcquire
<1>4. CASE LoopWake
  BY <1>4 DEF LoopWake
<1>5. CASE AcceptFailed
  BY <1>5 DEF AcceptFailed, PutBack
<1>6. CASE GracefulFlag
  BY <1>6 DEF GracefulFlag
<1>7. CASE GracefulClose
  BY <1>7 DEF GracefulClose
<1>8. CASE GracefulReturn
  BY <1>8 DEF GracefulReturn, Cancel
<1>9. CASE Shutdown
  BY <1>9 DEF Shutdown, Cancel
<1>10. ASSUME NEW c \in Clients, LoopAccept(c) PROVE TypeOK' /\ SocketOK' /\ StartOK'
  BY <1>10 DEF LoopAccept, Goto
<1>11. ASSUME NEW c \in Clients, Connect(c) PROVE TypeOK' /\ SocketOK' /\ StartOK'
  BY <1>11 DEF Connect, Goto
<1>12. ASSUME NEW c \in Clients, UpgradeOK(c) PROVE TypeOK' /\ SocketOK' /\ StartOK'
  BY <1>12 DEF UpgradeOK, Goto
<1>13. ASSUME NEW c \in Clients, UpgradeFailed(c) PROVE TypeOK' /\ SocketOK' /\ StartOK'
  BY <1>13 DEF UpgradeFailed, Goto
<1>14. ASSUME NEW c \in Clients, OnConnectFailed(c) PROVE TypeOK' /\ SocketOK' /\ StartOK'
  BY <1>14 DEF OnConnectFailed, Goto
<1>15. ASSUME NEW c \in Clients, CloseConn(c) PROVE TypeOK' /\ SocketOK' /\ StartOK'
  BY <1>15 DEF CloseConn
<1>16. ASSUME NEW c \in Clients, OnConnect(c) PROVE TypeOK' /\ SocketOK' /\ StartOK'
  BY <1>16 DEF OnConnect, Goto
<1>17. ASSUME NEW c \in Clients, Leave(c) PROVE TypeOK' /\ SocketOK' /\ StartOK'
  BY <1>17 DEF Leave, Goto
<1>18. ASSUME NEW c \in Clients, OnDisconnect(c) PROVE TypeOK' /\ SocketOK' /\ StartOK'
  BY <1>18 DEF OnDisconnect, CloseDeferred, Goto
<1>19. ASSUME NEW c \in Clients, RemoveConn(c) PROVE TypeOK' /\ SocketOK' /\ StartOK'
  BY <1>19 DEF RemoveConn, CloseDeferred, Goto
<1>20. ASSUME NEW c \in Clients, NetClose(c) PROVE TypeOK' /\ SocketOK' /\ StartOK'
  BY <1>20 DEF NetClose, Goto
<1>21. ASSUME NEW c \in Clients, Release(c) PROVE TypeOK' /\ SocketOK' /\ StartOK'
  BY <1>21 DEF Release, Goto, PutBack
<1>22. CASE UNCHANGED vars
  BY <1>22 DEF vars
<1> HIDE ServerAssumption DEF TypeOK, SocketOK, StartOK, Outside, Running, LoopPCs, limiterVars, connVars, stopVars
<1> QED
  BY <1>1, <1>2, <1>3, <1>4, <1>5, <1>6, <1>7, <1>8, <1>9, <1>10, <1>11, <1>12, <1>13, <1>14,
     <1>15, <1>16, <1>17, <1>18, <1>19, <1>20, <1>21, <1>22
  DEF Next, LoopStep, Unwind, Terminated

\* The four parts together are inductive.
LEMMA NextIndInv == IndInv /\ [Next]_vars => IndInv'
<1> SUFFICES ASSUME IndInv, [Next]_vars PROVE IndInv'
  OBVIOUS
<1>1. TypeOK' /\ SocketOK' /\ StartOK'
  BY NextShape DEF IndInv
<1>2. TokenConservation'
  <2>1. tokens \in Nat /\ Outstanding \in Nat /\ tokens + Outstanding = InitCapacity
    BY OutstandingNat DEF IndInv, TypeOK, TokenConservation
  <2>2. \/ Takes \/ Returns \/ Keeps
    BY StepOnLimiter DEF IndInv
  <2> QED
    BY <2>1, <2>2, ServerAssumption DEF Takes, Returns, Keeps, TokenConservation
<1> QED
  BY <1>1, <1>2 DEF IndInv

(***************************************************************************)
(* What it gives.                                                          *)
(***************************************************************************)
\* The server's state keeps its types, whatever Accept, Upgrade and OnConnect return
\* and whoever stops it.
THEOREM TypeCorrect == Spec => []TypeOK
<1>1. IndInv => TypeOK
  BY DEF IndInv
<1> QED
  BY InitIndInv, NextIndInv, <1>1, PTL DEF Spec

\* No path through acceptConn and handleConn loses or duplicates a token, for any
\* number of clients and any capacity.
THEOREM TokensConserved == Spec => []TokenConservation
<1>1. IndInv => TokenConservation
  BY DEF IndInv
<1> QED
  BY InitIndInv, NextIndInv, <1>1, PTL DEF Spec

\* The limiter bounds the sockets that are really open, since the token goes back
\* after the socket is closed.
THEOREM SocketsBounded == Spec => []OpenSocketsBounded
<1>1. IndInv => OpenSocketsBounded
  <2> SUFFICES ASSUME IndInv PROVE OpenSocketsBounded
    OBVIOUS
  <2> DEFINE Open == {c \in Clients : socket[c]}
  <2>1. \A c \in Clients : socket[c] => handler[c] \in Running
    BY DEF IndInv, SocketOK
  <2>2. Open \subseteq Held
    BY <2>1 DEF Held
  <2>3. Cardinality(Open) <= Cardinality(Held) /\ IsFiniteSet(Open)
    BY <2>2, HeldFinite, FS_Subset
  <2>4. Cardinality(Open) \in Nat
    BY <2>3, FS_CardinalityType
  <2>5. Cardinality(Held) <= InitCapacity
    <3>1. tokens \in Nat /\ tokens + Outstanding = InitCapacity
      BY DEF IndInv, TypeOK, TokenConservation
    <3> QED
      BY <3>1, HeldFinite, ServerAssumption DEF Outstanding
  <2>6. Cardinality(Open) <= InitCapacity
    BY <2>3, <2>4, <2>5, HeldFinite, ServerAssumption
  <2> QED
    BY <2>1, <2>6 DEF OpenSocketsBounded
<1> QED
  BY InitIndInv, NextIndInv, <1>1, PTL DEF Spec

\* The server implements the specification of the limiter: the accept loop and the
\* handlers take and return tokens as TokenLimiter allows, and never return one
\* that they do not hold.
THEOREM ImplementsLimiter == Spec => UsesLimiter
<1>1. Init => L!Init
  <2> SUFFICES ASSUME Init PROVE L!Init
    OBVIOUS
  <2>1. Held = {}
    BY DEF Init, Held, Running
  <2>2. Outstanding = 0
    BY <2>1, FS_EmptySet DEF Outstanding, Init
  <2> QED
    BY <2>2 DEF Init, L!Init
<1>2. IndInv /\ [Next]_vars => [L!Next]_(L!vars)
  <2> SUFFICES ASSUME IndInv, [Next]_vars PROVE [L!Next]_(L!vars)
    OBVIOUS
  <2>1. \/ Takes \/ Returns
        \/ Keeps /\ (limiterClosed' = limiterClosed \/ (~limiterClosed /\ limiterClosed' = TRUE))
    BY StepOnLimiter DEF IndInv
  <2>2. CASE Takes
    BY <2>2 DEF Takes, L!Next, L!Acquire, L!CanTake
  <2>3. CASE Returns
    BY <2>3 DEF Returns, L!Next, L!Release, L!HasRoom
  <2>4. CASE Keeps /\ ~limiterClosed /\ limiterClosed' = TRUE
    BY <2>4 DEF Keeps, L!Next, L!Close
  <2>5. CASE Keeps /\ limiterClosed' = limiterClosed
    BY <2>5 DEF Keeps, L!vars, L!limiterVars
  <2> QED
    BY <2>1, <2>2, <2>3, <2>4, <2>5
<1> QED
  BY InitIndInv, NextIndInv, <1>1, <1>2, PTL DEF Spec, UsesLimiter, L!Spec
===============================================================================
