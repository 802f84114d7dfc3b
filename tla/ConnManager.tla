----------------------------- MODULE ConnManager ------------------------------
(***************************************************************************)
(* The connection table (internal/ws/conn/conn_manager.go) as handleConn   *)
(* goroutines use it concurrently, with the part of Conn.Close and of the  *)
(* Redis session that it depends on.                                       *)
(*                                                                         *)
(* A handler h is one handleConn goroutine and stands also for the Conn    *)
(* that it creates and for the DeviceConns that its storeConn allocates    *)
(* (used only if LoadOrStore stores it).  A client that reconnects is      *)
(* another handler with the same user and device.  Each step is one access *)
(* to shared memory: a call of the concurrent map, a critical section of   *)
(* DeviceConns, the unlocked len, a phase of Close.                        *)
(***************************************************************************)
EXTENDS Integers, FiniteSets

CONSTANTS Handlers, Users, Devices,
          UserOf,        \* [Handlers -> Users]: the ConnKey (and SessionKey) of the user
          DevOf,         \* [Handlers -> Devices]
          Arrivals,      \* bound: the sets of handlers that run in one behaviour
          None           \* nil

ASSUME ManagerAssumption ==
    /\ UserOf \in [Handlers -> Users]
    /\ DevOf \in [Handlers -> Devices]
    /\ Arrivals \subseteq SUBSET Handlers
    /\ None \notin Handlers

VARIABLES conns,     \* [Users -> Handlers \cup {None}]: m.conns, the stored DeviceConns
          devs,      \* [Handlers -> [Devices -> Handlers \cup {None}]]: dc.conns of each
          pc,        \* [Handlers -> control point of handleConn]
          phase,     \* [Handlers -> who runs RemoveConn: "new" (NewConn) or "exit" (the defer)]
          dc,        \* [Handlers -> the local dc]
          victim,    \* [Handlers -> the Conn that RemoveConn took out, to be closed]
          state,     \* [Handlers -> state of its Conn: "none", "open", "cancelled", "closed"]
          sess,      \* users whose session key exists in Redis
          lost,      \* history: users whose session a failed call left behind
          cleared    \* history: users whose DeviceConns RemoveUserConn emptied

tableVars == <<conns, devs>>
localVars == <<phase, dc, victim>>
sessVars == <<sess, lost>>
vars == <<tableVars, localVars, pc, state, sessVars, cleared>>

\* A key that does not contain the user.
UserAny(h) == CHOOSE u \in Users : TRUE

User(h) == UserOf[h]
Dev(h) == DevOf[h]

\* The client of h connects.
Arrives(h) ==
    /\ pc[h] = "idle"
    /\ \E A \in Arrivals : {g \in Handlers : pc[g] # "idle"} \cup {h} \subseteq A

Init ==
    /\ conns = [u \in Users |-> None]
    /\ devs = [h \in Handlers |-> [d \in Devices |-> None]]
    /\ pc = [h \in Handlers |-> "idle"]
    /\ phase = [h \in Handlers |-> "new"]
    /\ dc = [h \in Handlers |-> None]
    /\ victim = [h \in Handlers |-> None]
    /\ state = [h \in Handlers |-> "none"]
    /\ sess = {}
    /\ lost = {}
    /\ cleared = {}

Goto(h, to) == pc' = [pc EXCEPT ![h] = to]

(***************************************************************************)
(* Upgrade: the token is checked (OnRequest), OnBeforeUpgrade builds (or   *)
(* finds) the session of the user, the handshake is completed.             *)
(***************************************************************************)
Build(u) == sess' = sess \cup {u}

Upgrade(h) ==
    /\ Arrives(h)
    /\ Build(User(h))
    /\ Goto(h, "load")
    /\ UNCHANGED <<tableVars, localVars, state, lost, cleared>>

\* No token, an invalid one, a bad URI, or Redis refuses: no session was made.
UpgradeRejected(h) ==
    /\ Arrives(h)
    /\ Goto(h, "done")
    /\ UNCHANGED <<tableVars, localVars, state, sessVars, cleared>>

\* The answer of Build is lost, or the handshake fails after it: the session stays
\* and nobody destroys it.
UpgradeFailed(h) ==
    /\ Arrives(h)
    /\ Build(User(h))
    /\ lost' = lost \cup {User(h)}
    /\ Goto(h, "done")
    /\ UNCHANGED <<tableVars, localVars, state, cleared>>

(***************************************************************************)
(* NewConn: loadExistingConn, perhaps RemoveConn, NewConn, storeConn.      *)
(***************************************************************************)
Load(h) ==
    /\ pc[h] = "load"
    /\ dc' = [dc EXCEPT ![h] = conns[User(h)]]
    /\ Goto(h, IF conns[User(h)] = None THEN "create" ELSE "find")
    /\ UNCHANGED <<tableVars, phase, victim, state, sessVars, cleared>>

Find(h) ==
    /\ pc[h] = "find"
    /\ dc' = [dc EXCEPT ![h] = None]
    /\ Goto(h, IF devs[dc[h]][Dev(h)] = None THEN "create" ELSE "rmLoad")
    /\ UNCHANGED <<tableVars, phase, victim, state, sessVars, cleared>>

Create(h) ==
    /\ pc[h] = "create"
    /\ state' = [state EXCEPT ![h] = "open"]
    /\ Goto(h, "store")
    /\ UNCHANGED <<tableVars, localVars, sessVars, cleared>>

\* storeConn: LoadOrStore with a new DeviceConns.
Store(h) ==
    /\ pc[h] = "store"
    /\ LET u == User(h) IN
       IF conns[u] = None
       THEN /\ conns' = [conns EXCEPT ![u] = h]
            /\ dc' = [dc EXCEPT ![h] = h]
       ELSE /\ dc' = [dc EXCEPT ![h] = conns[u]]
            /\ UNCHANGED conns
    /\ Goto(h, "add")
    /\ UNCHANGED <<devs, phase, victim, state, sessVars, cleared>>

Add(h) ==
    /\ pc[h] = "add"
    /\ devs' = [devs EXCEPT ![dc[h]][Dev(h)] = h]
    /\ dc' = [dc EXCEPT ![h] = None]
    /\ Goto(h, "serve")
    /\ UNCHANGED <<conns, phase, victim, state, sessVars, cleared>>

(***************************************************************************)
(* RemoveConn(user), called by NewConn (phase "new") and by the deferred   *)
(* cleanup of handleConn (phase "exit").                                   *)
(***************************************************************************)
\* Where RemoveConn returns to.
After(h) == IF phase[h] = "new" THEN "create" ELSE "close"

\* A RemoveConn that does not look at Load's second result.
RmLoadUnchecked(h) ==
    /\ pc[h] = "rmLoad"
    /\ dc' = [dc EXCEPT ![h] = conns[User(h)]]
    /\ Goto(h, "rmTake")
    /\ UNCHANGED <<tableVars, phase, victim, state, sessVars, cleared>>

RmLoad(h) ==
    /\ pc[h] = "rmLoad"
    /\ dc' = [dc EXCEPT ![h] = conns[User(h)]]
    /\ Goto(h, IF conns[User(h)] = None THEN After(h) ELSE "rmTake")
    /\ UNCHANGED <<tableVars, phase, victim, state, sessVars, cleared>>

\* dc.remove.
RmTake(h) ==
    /\ pc[h] = "rmTake"
    /\ LET x == devs[dc[h]][Dev(h)] IN
       IF x = None
       THEN /\ Goto(h, After(h))
            /\ dc' = [dc EXCEPT ![h] = None]
            /\ UNCHANGED <<devs, victim>>
       ELSE /\ devs' = [devs EXCEPT ![dc[h]][Dev(h)] = None]
            /\ victim' = [victim EXCEPT ![h] = x]
            /\ Goto(h, "rmLen")
            /\ UNCHANGED dc
    /\ UNCHANGED <<conns, phase, state, sessVars, cleared>>

\* An emptiness test that is off by one.
EmptyOffByOne(x) == Cardinality({d \in Devices : devs[x][d] # None}) = 1

\* len(dc.conns) == 0, read without dc.mu.
Empty(x) == \A d \in Devices : devs[x][d] = None

RmLen(h) ==
    /\ pc[h] = "rmLen"
    /\ Goto(h, IF Empty(dc[h]) THEN "rmDelete" ELSE "rmClose")
    /\ dc' = [dc EXCEPT ![h] = None]
    /\ UNCHANGED <<tableVars, phase, victim, state, sessVars, cleared>>

\* m.conns.Delete(connKey), whatever is stored there by now.
RmDelete(h) ==
    /\ pc[h] = "rmDelete"
    /\ conns' = [conns EXCEPT ![User(h)] = None]
    /\ Goto(h, "rmClose")
    /\ UNCHANGED <<devs, localVars, state, sessVars, cleared>>

\* The deferred Close of the connection taken out returns.
RmClose(h) ==
    /\ pc[h] = "rmClose"
    /\ state[victim[h]] = "closed"
    /\ victim' = [victim EXCEPT ![h] = None]
    /\ Goto(h, After(h))
    /\ UNCHANGED <<tableVars, phase, dc, state, sessVars, cleared>>

(***************************************************************************)
(* Conn.Close.  The first caller cancels the context, then destroys the    *)
(* session; every caller returns when both are done (sync.Once).           *)
(***************************************************************************)
\* The handler of an open connection h, its own loops (peer gone, I/O error,
\* server context done) or a RemoveConn that took it out may be the first caller.
Cancel(h) ==
    /\ state[h] = "open"
    /\ state' = [state EXCEPT ![h] = "cancelled"]
    /\ UNCHANGED <<tableVars, localVars, pc, sessVars, cleared>>

\* A Close that leaves the session in Redis.
DestroySkipped(h) ==
    /\ state[h] = "cancelled"
    /\ state' = [state EXCEPT ![h] = "closed"]
    /\ UNCHANGED <<tableVars, localVars, pc, sessVars, cleared>>

Destroy(h) ==
    /\ state[h] = "cancelled"
    /\ state' = [state EXCEPT ![h] = "closed"]
    /\ sess' = sess \ {User(h)}
    /\ lost' = lost \ {User(h)}
    /\ UNCHANGED <<tableVars, localVars, pc, cleared>>

\* Redis does not answer within DefaultCloseTimeout: the error is kept, no retry.
DestroyFailed(h) ==
    /\ state[h] = "cancelled"
    /\ state' = [state EXCEPT ![h] = "closed"]
    /\ lost' = lost \cup (sess \cap {User(h)})
    /\ UNCHANGED <<tableVars, localVars, pc, sess, cleared>>

(***************************************************************************)
(* The rest of handleConn: it leaves its loop when the connection's        *)
(* context is done, then OnDisconnect (Close), RemoveConn and Close again. *)
(***************************************************************************)
\* A loop that does not notice that its connection was closed by another party.
LeavesNever(h) == FALSE

Leaves(h) == state[h] \in {"cancelled", "closed"}

Leave(h) ==
    /\ pc[h] = "serve"
    /\ Leaves(h)
    /\ Goto(h, "onDisconnect")
    /\ UNCHANGED <<tableVars, localVars, state, sessVars, cleared>>

\* A handler without the deferred RemoveConn.
OnDisconnectOnly(h) ==
    /\ pc[h] = "onDisconnect"
    /\ state[h] = "closed"
    /\ phase' = [phase EXCEPT ![h] = "exit"]
    /\ Goto(h, "close")
    /\ UNCHANGED <<tableVars, dc, victim, state, sessVars, cleared>>

OnDisconnect(h) ==
    /\ pc[h] = "onDisconnect"
    /\ state[h] = "closed"
    /\ phase' = [phase EXCEPT ![h] = "exit"]
    /\ Goto(h, "rmLoad")
    /\ UNCHANGED <<tableVars, dc, victim, state, sessVars, cleared>>

Close(h) ==
    /\ pc[h] = "close"
    /\ state[h] = "closed"
    /\ Goto(h, "done")
    /\ UNCHANGED <<tableVars, localVars, state, sessVars, cleared>>

(***************************************************************************)
(* RemoveUserConn: part of the interface, called by no code.               *)
(***************************************************************************)
\* The entries are cleared; the DeviceConns stays in the map and no connection is
\* closed.  Load and clear are one step here.
RemoveUserConn(u) ==
    /\ conns[u] # None
    /\ devs' = [devs EXCEPT ![conns[u]] = [d \in Devices |-> None]]
    /\ cleared' = cleared \cup {u}
    /\ UNCHANGED <<conns, localVars, pc, state, sessVars>>

(***************************************************************************)
(* The lookups of the push path: FindConn and FindUserConn.                *)
(***************************************************************************)
FindConn(u, d) == IF conns[u] = None THEN None ELSE devs[conns[u]][d]
FindUserConn(u) == {FindConn(u, d) : d \in Devices} \ {None}

AllDone == \A h \in Handlers : pc[h] \in {"idle", "done"}

\* A step of handler h that waits for nobody but the Close of a connection.
Step(h) ==
    \/ Load(h) \/ Find(h) \/ Create(h) \/ Store(h) \/ Add(h)
    \/ RmLoad(h) \/ RmTake(h) \/ RmLen(h) \/ RmDelete(h) \/ RmClose(h)
    \/ Leave(h) \/ OnDisconnect(h) \/ Close(h)

Next ==
    \/ \E h \in Handlers :
          \/ Upgrade(h) \/ UpgradeRejected(h) \/ UpgradeFailed(h) \/ Step(h)
          \/ Cancel(h) \/ Destroy(h) \/ DestroyFailed(h)
    \/ \E u \in Users : RemoveUserConn(u)
    \/ AllDone /\ UNCHANGED vars

Spec == Init /\ [][Next]_vars

\* A Close that somebody has called: RemoveConn's, after it took the conn out.
CloseCalled(x) == \E h \in Handlers : pc[h] = "rmClose" /\ victim[h] = x

\* As long as some handler can go on, one of them does: a Close in progress ends
\* (the Redis call has a timeout), and a RemoveConn that took a connection out
\* closes it.
Fairness ==
    WF_vars(\E h \in Handlers : \/ Step(h) \/ Destroy(h) \/ DestroyFailed(h)
                                \/ CloseCalled(h) /\ Cancel(h))

FairSpec == Spec /\ Fairness

(***************************************************************************)
(* Properties.                                                             *)
(***************************************************************************)
PCs == {"idle", "load", "find", "create", "store", "add", "serve", "rmLoad", "rmTake",
        "rmLen", "rmDelete", "rmClose", "onDisconnect", "close", "done"}

\* Types of the state; a nil DeviceConns or Conn is never dereferenced.
TypeOK ==
    /\ conns \in [Users -> Handlers \cup {None}]
    /\ devs \in [Handlers -> [Devices -> Handlers \cup {None}]]
    /\ pc \in [Handlers -> PCs]
    /\ phase \in [Handlers -> {"new", "exit"}]
    /\ dc \in [Handlers -> Handlers \cup {None}]
    /\ victim \in [Handlers -> Handlers \cup {None}]
    /\ state \in [Handlers -> {"none", "open", "cancelled", "closed"}]
    /\ sess \subseteq Users
    /\ lost \subseteq Users
    /\ cleared \subseteq Users
    /\ \A h \in Handlers :
          /\ pc[h] \in {"find", "add", "rmTake", "rmLen"} => dc[h] # None
          /\ pc[h] \in {"rmLen", "rmDelete", "rmClose"} => victim[h] # None

\* Connections of different users, or of different devices of one user, never
\* mix, in the stored DeviceConns or in one that a goroutine still holds
\* after it was deleted: a lookup with a stale dc returns connections of that
\* user only, and RemoveConn closes connections of its own user and device only.
Isolation ==
    /\ \A x \in Handlers, d \in Devices :
          devs[x][d] # None => /\ UserOf[devs[x][d]] = UserOf[x]
                               /\ DevOf[devs[x][d]] = d
    /\ \A h \in Handlers :
          victim[h] # None => /\ UserOf[victim[h]] = UserOf[h]
                              /\ DevOf[victim[h]] = DevOf[h]

\* A message is never pushed for good to a dead connection: once a handler has
\* finished, whatever the others were doing with the table meanwhile, no
\* lookup finds its connection.
NoDeadEntry ==
    \A u \in Users : \A x \in FindUserConn(u) : pc[x] # "done"

\* When no handler is running no DeviceConns stays behind in the map, although
\* emptiness is tested without the lock, except one that RemoveUserConn emptied.
NoTableLeak == AllDone => \A u \in Users : conns[u] = None \/ u \in cleared

\* Handlers that will still destroy the session of user u.
Owners(u) == {h \in Handlers : /\ UserOf[h] = u
                               /\ pc[h] \notin {"idle", "done"}
                               /\ state[h] # "closed"}

\* A session in Redis, which has no expiry, always has a handler that will destroy
\* it, unless the failure of a handshake or of a Redis call left it there: the
\* connections of a user that share one key never leave it to nobody.
NoSessionLeak == \A u \in sess \ lost : Owners(u) # {}

\* A connection that was closed, by whomever, makes its handler finish: the
\* handlers that close each other's connections never wait in a circle.
ClosedHandlerEnds ==
    \A h \in Handlers : (state[h] = "cancelled") ~> (pc[h] = "done")

\* NewConn's comment and log: the connection closed for a reconnecting device is
\* the old one.  So a handler's own cleanup takes out only its own connection.
CleanupRemovesOwn ==
    \A h \in Handlers :
        (phase[h] = "exit" /\ pc[h] = "rmClose") => victim[h] = h
===============================================================================
