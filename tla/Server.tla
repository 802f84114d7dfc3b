------------------------------- MODULE Server ---------------------------------
(***************************************************************************)
(* The WebSocket server (internal/ws/server.go): the accept loop, one      *)
(* handleConn goroutine per accepted socket, and the two ways to stop.     *)
(* Upgrade, the message handlers and the connection are reduced to the     *)
(* outcomes that handleConn reacts to; the limiter is the one of           *)
(* NewServer, whose growing goroutine no code starts.                      *)
(***************************************************************************)
EXTENDS Integers, FiniteSets

CONSTANTS Clients,         \* remote peers, each with at most one socket at a time
          InitCapacity,    \* tokens of the connection limiter
          DirectShutdown   \* whether another owner of the Server calls Shutdown

ASSUME ServerAssumption ==
    /\ IsFiniteSet(Clients)
    /\ InitCapacity \in Nat \ {0}
    /\ DirectShutdown \in BOOLEAN

VARIABLES tokens,          \* connLimiter: tokens in the bucket
          limiterClosed,   \* connLimiter.Close was called
          acceptNewConn,   \* s.acceptNewConn
          listener,        \* s.listener: "nil", "open", "closed"
          loop,            \* pc of acceptConn
          handler,         \* [Clients -> pc of handleConn, or where the client waits]
          socket,          \* [Clients -> whether the server's end of the socket is open]
          connClosed,      \* [Clients -> whether the synp.Conn was closed]
          graceful,        \* pc of GracefulShutdown
          ctxDone          \* s.ctx is cancelled

limiterVars == <<tokens, limiterClosed>>
connVars == <<handler, socket, connClosed>>
stopVars == <<acceptNewConn, graceful, ctxDone>>
vars == <<limiterVars, connVars, stopVars, listener, loop>>

\* A client is away or queued in the listener's backlog; otherwise a handleConn
\* goroutine runs for it, at this point of the function and of its defers.
Outside == {"away", "queued"}
Running == {"upgrade", "onConnect", "serve", "onDisconnect", "remove", "netClose", "release"}
LoopPCs == {"off", "check", "acquire", "backoff", "accept", "done"}

Init ==
    /\ tokens = InitCapacity
    /\ limiterClosed = FALSE
    /\ acceptNewConn = TRUE
    /\ listener = "nil"
    /\ loop = "off"
    /\ handler = [c \in Clients |-> "away"]
    /\ socket = [c \in Clients |-> FALSE]
    /\ connClosed = [c \in Clients |-> FALSE]
    /\ graceful = "idle"
    /\ ctxDone = FALSE

\* TokenLimiter.Release, as acceptConn and handleConn use it.
PutBack == tokens' = IF tokens < InitCapacity THEN tokens + 1 ELSE tokens

Goto(c, pc) == handler' = [handler EXCEPT ![c] = pc]

(***************************************************************************)
(* Start and the accept loop.                                              *)
(***************************************************************************)
Start ==
    /\ listener = "nil"
    /\ graceful = "idle"
    /\ listener' = "open"
    /\ loop' = "check"
    /\ UNCHANGED <<limiterVars, connVars, stopVars>>

LoopCheck ==
    /\ loop = "check"
    /\ loop' = IF acceptNewConn THEN "acquire" ELSE "done"
    /\ UNCHANGED <<limiterVars, connVars, stopVars, listener>>

\* An accept loop that does not look at Acquire's result.
LoopAcquireUnchecked ==
    /\ loop = "acquire"
    /\ tokens' = tokens - 1
    /\ loop' = "accept"
    /\ UNCHANGED <<limiterClosed, connVars, stopVars, listener>>

\* Acquire; without a token the loop sleeps for the next backoff interval.
LoopAcquire ==
    /\ loop = "acquire"
    /\ IF tokens > 0
       THEN tokens' = tokens - 1 /\ loop' = "accept"
       ELSE tokens' = tokens /\ loop' = "backoff"
    /\ UNCHANGED <<limiterClosed, connVars, stopVars, listener>>

LoopWake ==
    /\ loop = "backoff"
    /\ loop' = "check"
    /\ UNCHANGED <<limiterVars, connVars, stopVars, listener>>

\* Accept returns a socket: its handler starts, and owns the token.
LoopAccept(c) ==
    /\ loop = "accept"
    /\ listener = "open"
    /\ handler[c] = "queued"
    /\ Goto(c, "upgrade")
    /\ socket' = [socket EXCEPT ![c] = TRUE]
    /\ connClosed' = [connClosed EXCEPT ![c] = FALSE]
    /\ loop' = "check"
    /\ UNCHANGED <<limiterVars, stopVars, listener>>

\* A loop that goes on when the listener is closed.
AcceptFailedContinues ==
    /\ loop = "accept"
    /\ listener \in {"open", "closed"}
    /\ PutBack
    /\ loop' = "accept"
    /\ UNCHANGED <<limiterClosed, connVars, stopVars, listener>>

\* Accept returns an error: the token goes back; net.ErrClosed ends the loop,
\* any other error (here: one raised while the listener is open) does not.
AcceptFailed ==
    /\ loop = "accept"
    /\ listener \in {"open", "closed"}
    /\ PutBack
    /\ loop' = IF listener = "closed" THEN "done" ELSE "check"
    /\ UNCHANGED <<limiterClosed, connVars, stopVars, listener>>

(***************************************************************************)
(* handleConn, from the upgrade down through its deferred calls, which run *)
(* in the reverse order of their registration.                             *)
(***************************************************************************)
\* Upgrade and NewConn succeed.
UpgradeOK(c) ==
    /\ handler[c] = "upgrade"
    /\ Goto(c, "onConnect")
    /\ UNCHANGED <<limiterVars, stopVars, listener, loop, socket, connClosed>>

\* An early return that forgets the token.
UpgradeFailedLeaks(c) ==
    /\ handler[c] = "upgrade"
    /\ Goto(c, "away")
    /\ socket' = [socket EXCEPT ![c] = FALSE]
    /\ UNCHANGED <<limiterVars, stopVars, listener, loop, connClosed>>

\* Upgrade or NewConn returns an error: only the first two defers are registered.
UpgradeFailed(c) ==
    /\ handler[c] = "upgrade"
    /\ Goto(c, "netClose")
    /\ UNCHANGED <<limiterVars, stopVars, listener, loop, socket, connClosed>>

OnConnect(c) ==
    /\ handler[c] = "onConnect"
    /\ Goto(c, "serve")
    /\ UNCHANGED <<limiterVars, stopVars, listener, loop, socket, connClosed>>

\* OnConnect fails before the defer of OnDisconnect is registered.
OnConnectFailed(c) ==
    /\ handler[c] = "onConnect"
    /\ Goto(c, "remove")
    /\ UNCHANGED <<limiterVars, stopVars, listener, loop, socket, connClosed>>

\* Conn.Close by another party: the connection's own loops after an I/O error
\* or a close frame, or the ConnManager replacing it by a newer one.
CloseConn(c) ==
    /\ handler[c] \in {"onConnect", "serve"}
    /\ ~connClosed[c]
    /\ connClosed' = [connClosed EXCEPT ![c] = TRUE]
    /\ socket' = [socket EXCEPT ![c] = FALSE]
    /\ UNCHANGED <<limiterVars, stopVars, listener, loop, handler>>

\* A receive loop that does not watch the server's context, on a connection
\* whose context does not derive from it.
LeavesOnClose(c) == connClosed[c]

\* The receive loop's ways out: the closed receive channel, ErrConnClosed and
\* Closed() all mean that the connection's context, a child of s.ctx, is done.
Leaves(c) == connClosed[c] \/ ctxDone

Leave(c) ==
    /\ handler[c] = "serve"
    /\ Leaves(c)
    /\ Goto(c, "onDisconnect")
    /\ UNCHANGED <<limiterVars, stopVars, listener, loop, socket, connClosed>>

\* Deferred OnDisconnect, then RemoveConn and Close: each closes the
\* connection and its socket if that has not been done.
CloseDeferred(c, from, to) ==
    /\ handler[c] = from
    /\ Goto(c, to)
    /\ connClosed' = [connClosed EXCEPT ![c] = TRUE]
    /\ socket' = [socket EXCEPT ![c] = FALSE]
    /\ UNCHANGED <<limiterVars, stopVars, listener, loop>>

OnDisconnect(c) == CloseDeferred(c, "onDisconnect", "remove")
RemoveConn(c) == CloseDeferred(c, "remove", "netClose")

\* Defers in the wrong order: the token goes back while the socket is open.
NetCloseLast(c) ==
    /\ handler[c] = "netClose"
    /\ Goto(c, "release")
    /\ UNCHANGED <<limiterVars, stopVars, listener, loop, socket, connClosed>>

NetClose(c) ==
    /\ handler[c] = "netClose"
    /\ Goto(c, "release")
    /\ socket' = [socket EXCEPT ![c] = FALSE]
    /\ UNCHANGED <<limiterVars, stopVars, listener, loop, connClosed>>

Release(c) ==
    /\ handler[c] = "release"
    /\ PutBack
    /\ Goto(c, "away")
    /\ UNCHANGED <<limiterClosed, stopVars, listener, loop, socket, connClosed>>

(***************************************************************************)
(* Stopping.                                                               *)
(***************************************************************************)
\* limiter.Close and cancelFunc; the listener and acceptNewConn stay as they are.
Cancel == limiterClosed' = TRUE /\ ctxDone' = TRUE

Shutdown ==
    /\ DirectShutdown
    /\ ~ctxDone
    /\ Cancel
    /\ UNCHANGED <<tokens, connVars, acceptNewConn, graceful, listener, loop>>

GracefulFlag ==
    /\ graceful = "idle"
    /\ acceptNewConn' = FALSE
    /\ graceful' = "closing"
    /\ UNCHANGED <<limiterVars, connVars, ctxDone, listener, loop>>

\* listener.Close, if Start has made one: the backlog is refused.
GracefulClose ==
    /\ graceful = "closing"
    /\ graceful' = "waiting"
    /\ listener' = IF listener = "open" THEN "closed" ELSE listener
    /\ handler' = [c \in Clients |-> IF handler[c] = "queued" THEN "away" ELSE handler[c]]
    /\ UNCHANGED <<limiterVars, acceptNewConn, ctxDone, loop, socket, connClosed>>

\* <-s.ctx.Done(), then Shutdown.
GracefulReturn ==
    /\ graceful = "waiting"
    /\ ctxDone
    /\ Cancel
    /\ graceful' = "returned"
    /\ UNCHANGED <<tokens, connVars, acceptNewConn, listener, loop>>

(***************************************************************************)
(* Clients (external): they connect while the listener is open.            *)
(***************************************************************************)
Connect(c) ==
    /\ listener = "open"
    /\ handler[c] = "away"
    /\ Goto(c, "queued")
    /\ UNCHANGED <<limiterVars, stopVars, listener, loop, socket, connClosed>>

Terminated ==
    /\ graceful \in {"waiting", "returned"}
    /\ loop \in {"off", "done"}
    /\ \A c \in Clients : handler[c] = "away"
    /\ UNCHANGED vars

LoopStep == LoopCheck \/ LoopAcquire \/ LoopWake \/ AcceptFailed \/ \E c \in Clients : LoopAccept(c)

\* The steps of a handler that wait for nobody.
Unwind(c) == OnConnect(c) \/ Leave(c) \/ OnDisconnect(c) \/ RemoveConn(c) \/ NetClose(c) \/ Release(c)

Next ==
    \/ Start \/ LoopStep
    \/ GracefulFlag \/ GracefulClose \/ GracefulReturn \/ Shutdown
    \/ \E c \in Clients :
          \/ Connect(c) \/ UpgradeOK(c) \/ UpgradeFailed(c)
          \/ OnConnectFailed(c) \/ CloseConn(c) \/ Unwind(c)
    \/ Terminated

Spec == Init /\ [][Next]_vars

\* The Go scheduler runs every goroutine that can run: the accept loop, a
\* handler that waits for nobody and GracefulShutdown.  No fairness
\* for clients, nor for Upgrade, which has no deadline on a silent client,
\* nor for errors of Accept while the listener is open.
Fairness ==
    /\ WF_vars(LoopCheck) /\ WF_vars(LoopAcquire) /\ WF_vars(LoopWake)
    /\ WF_vars(listener = "closed" /\ AcceptFailed)
    /\ WF_vars(GracefulClose) /\ WF_vars(GracefulReturn)
    /\ \A c \in Clients : WF_vars(Unwind(c))

FairSpec == Spec /\ Fairness

(***************************************************************************)
(* Properties.                                                             *)
(***************************************************************************)
TypeOK ==
    /\ tokens \in 0..InitCapacity
    /\ limiterClosed \in BOOLEAN
    /\ acceptNewConn \in BOOLEAN
    /\ listener \in {"nil", "open", "closed"}
    /\ loop \in LoopPCs
    /\ handler \in [Clients -> Outside \cup Running]
    /\ socket \in [Clients -> BOOLEAN]
    /\ connClosed \in [Clients -> BOOLEAN]
    /\ graceful \in {"idle", "closing", "waiting", "returned"}
    /\ ctxDone \in BOOLEAN

Held == {c \in Clients : handler[c] \in Running}

\* Tokens that acceptConn and the handlers hold.
Outstanding == Cardinality(Held) + (IF loop = "accept" THEN 1 ELSE 0)

\* No path through acceptConn and handleConn loses or duplicates a token:
\* the error paths of Accept, Upgrade and OnConnect included.
TokenConservation == tokens + Outstanding = InitCapacity

\* A token goes back only after the socket it admitted is closed, so the
\* limiter bounds the sockets that are really open.
OpenSocketsBounded ==
    /\ \A c \in Clients : socket[c] => handler[c] \in Running
    /\ Cardinality({c \in Clients : socket[c]}) <= InitCapacity

\* After GracefulShutdown has closed the listener the accept loop ends, whether
\* it was about to check the flag, sleeping in its backoff or blocked in Accept.
LoopStops == (graceful = "waiting" /\ listener # "nil") ~> (loop = "done")

\* Once the server's context is cancelled every handler that got past the
\* upgrade runs its defers to the end and returns its token.
HandlersDrain ==
    \A c \in Clients :
        (ctxDone /\ handler[c] \in Running \ {"upgrade"}) ~> (handler[c] = "away")

\* GracefulShutdown, which the application's OnStop hook calls, returns.
GracefulReturns == (graceful = "closing") ~> (graceful = "returned")

\* The server uses the limiter as its specification allows: the accept loop and
\* the handlers never release a token they do not hold.
L == INSTANCE TokenLimiter WITH
        MaxCapacity <- InitCapacity, IncreaseStep <- 1, currCapacity <- InitCapacity,
        grower <- "off", newCap <- 0, left <- 0, innerDone <- limiterClosed,
        outerDone <- FALSE, outstanding <- Outstanding
UsesLimiter == L!Spec
===============================================================================
