--------------------------- MODULE ConnManagerProofs --------------------------
(***************************************************************************)
(* Isolation, NoDeadEntry, NoTableLeak and NoSessionLeak of the connection *)
(* table, for any number of handlers, users and devices.                   *)
(*                                                                         *)
(* The argument for NoDeadEntry: a DeviceConns enters the map only when it *)
(* is made, and then it is empty; a connection is added once.  So if the   *)
(* cleanup of a handler finds another DeviceConns in the map than the one  *)
(* its connection is in, that one will never be found again.               *)
(***************************************************************************)
EXTENDS ConnManager, TLAPS

\* The DeviceConns in the map under a key, and the one a goroutine holds, were
\* made for that user.
OwnUser ==
    /\ \A u \in Users : conns[u] # None => User(conns[u]) = u
    /\ \A h \in Handlers : dc[h] # None => User(dc[h]) = User(h)

\* The handler has passed storeConn's LoadOrStore (or will never reach it).
Stored(h) == pc[h] \in {"add", "serve", "onDisconnect", "close", "done"} \/ phase[h] = "exit"

\* The handler has passed storeConn's add (or will never reach it).
Added(h) == Stored(h) /\ pc[h] # "add"

\* Where a handler can be in its two calls of RemoveConn.
PhaseOK ==
    \A h \in Handlers :
        /\ phase[h] = "exit" =>
             pc[h] \in {"rmLoad", "rmTake", "rmLen", "rmDelete", "rmClose", "close", "done"}
        /\ pc[h] = "close" => phase[h] = "exit"

\* A DeviceConns is in the map or in a goroutine's hand only after its maker stored it,
\* and holds nothing before.
MadeBefore ==
    /\ \A u \in Users : conns[u] # None => Stored(conns[u])
    /\ \A h \in Handlers : dc[h] # None => Stored(dc[h])
    /\ \A x \in Handlers, d \in Devices : devs[x][d] # None => Stored(x) /\ Added(devs[x][d])

\* Past its cleanup's dc.remove.
Cleaned(h) ==
    /\ phase[h] = "exit" \/ pc[h] = "done"
    /\ pc[h] \in {"rmLen", "rmDelete", "rmClose", "close", "done"}

\* A cleanup that has loaded its DeviceConns has the only one through which its
\* connection can still be found, and after remove there is none.
CleanupOK ==
    \A h, x \in Handlers, d \in Devices :
        devs[x][d] = h /\ conns[User(h)] = x =>
            /\ phase[h] = "exit" /\ pc[h] = "rmTake" => dc[h] = x
            /\ ~Cleaned(h)

IndInv == TypeOK /\ Isolation /\ OwnUser /\ PhaseOK /\ MadeBefore /\ CleanupOK

\* NewConnManager establishes the inductive invariant.
LEMMA InitIndInv == Init => IndInv
<1> SUFFICES ASSUME Init PROVE IndInv
  OBVIOUS
<1>1. TypeOK
  BY ManagerAssumption DEF Init, TypeOK, PCs
<1>2. Isolation /\ OwnUser /\ PhaseOK /\ MadeBefore /\ CleanupOK
  BY ManagerAssumption
  DEF Init, Isolation, OwnUser, PhaseOK, MadeBefore, CleanupOK
<1> QED
  BY <1>1, <1>2 DEF IndInv

\* Every step keeps the types.
LEMMA NextTypeOK == TypeOK /\ [Next]_vars => TypeOK'
<1> SUFFICES ASSUME TypeOK, [Next]_vars PROVE TypeOK'
  OBVIOUS
<1> USE ManagerAssumption DEF TypeOK, PCs, User, Dev
<1>1. ASSUME NEW h \in Handlers, Upgrade(h) PROVE TypeOK'
  BY <1>1 DEF Upgrade, Arrives, Build, Goto, tableVars, localVars, sessVars
<1>2. ASSUME NEW h \in Handlers, UpgradeRejected(h) \/ UpgradeFailed(h) PROVE TypeOK'
  BY <1>2 DEF Arrives, UpgradeRejected, UpgradeFailed, Build, Goto, tableVars, localVars, sessVars
<1>3. ASSUME NEW h \in Handlers, Load(h) PROVE TypeOK'
  BY <1>3 DEF Load, Goto, tableVars, sessVars
<1>4. ASSUME NEW h \in Handlers, Find(h) PROVE TypeOK'
  BY <1>4 DEF Find, Goto, tableVars, localVars, sessVars
<1>5. ASSUME NEW h \in Handlers, Create(h) PROVE TypeOK'
  BY <1>5 DEF Create, Goto, tableVars, localVars, sessVars
<1>6. ASSUME NEW h \in Handlers, Store(h) PROVE TypeOK'
  <2>1. CASE conns[User(h)] = None
    <3>1. /\ conns' = [conns EXCEPT ![User(h)] = h] /\ dc' = [dc EXCEPT ![h] = h]
          /\ pc' = [pc EXCEPT ![h] = "add"]
          /\ UNCHANGED <<devs, phase, victim, state, sess, lost, cleared>>
      BY <1>6, <2>1 DEF Store, Goto, sessVars
    <3> QED BY <3>1
  <2>2. CASE conns[User(h)] # None
    BY <1>6, <2>2 DEF Store, Goto, sessVars
  <2> QED BY <2>1, <2>2
<1>7. ASSUME NEW h \in Handlers, Add(h) PROVE TypeOK'
  BY <1>7 DEF Add, Goto, localVars, sessVars
<1>8. ASSUME NEW h \in Handlers, RmLoad(h) PROVE TypeOK'
  BY <1>8 DEF RmLoad, After, Goto, tableVars, sessVars
<1>9. ASSUME NEW h \in Handlers, RmTake(h) PROVE TypeOK'
  <2>1. CASE devs[dc[h]][Dev(h)] = None
    <3>1. /\ pc' = [pc EXCEPT ![h] = After(h)] /\ After(h) \in {"create", "close"}
          /\ dc' = [dc EXCEPT ![h] = None]
          /\ UNCHANGED <<conns, devs, phase, victim, state, sess, lost, cleared>>
      BY <1>9, <2>1 DEF RmTake, After, Goto, sessVars
    <3> QED BY <3>1
  <2>2. CASE devs[dc[h]][Dev(h)] # None
    <3>1. /\ pc[h] = "rmTake" /\ dc[h] \in Handlers
          /\ devs[dc[h]][Dev(h)] \in Handlers
      BY <1>9, <2>2 DEF RmTake
    <3>2. /\ devs' = [devs EXCEPT ![dc[h]][Dev(h)] = None]
          /\ victim' = [victim EXCEPT ![h] = devs[dc[h]][Dev(h)]]
          /\ pc' = [pc EXCEPT ![h] = "rmLen"]
          /\ UNCHANGED <<conns, phase, dc, state, sess, lost, cleared>>
      BY <1>9, <2>2 DEF RmTake, Goto, sessVars
    <3> QED BY <3>1, <3>2
  <2> QED BY <2>1, <2>2
<1>10. ASSUME NEW h \in Handlers, RmLen(h) PROVE TypeOK'
  BY <1>10 DEF RmLen, Goto, tableVars, localVars, sessVars
<1>11. ASSUME NEW h \in Handlers, RmDelete(h) PROVE TypeOK'
  BY <1>11 DEF RmDelete, Goto, localVars, sessVars
<1>12. ASSUME NEW h \in Handlers, RmClose(h) PROVE TypeOK'
  BY <1>12 DEF RmClose, After, Goto, tableVars, localVars, sessVars
<1>13. ASSUME NEW h \in Handlers, Cancel(h) PROVE TypeOK'
  BY <1>13 DEF Cancel, tableVars, localVars, sessVars
<1>14. ASSUME NEW h \in Handlers, Destroy(h) PROVE TypeOK'
  BY <1>14 DEF Destroy, tableVars, localVars, sessVars
<1>15. ASSUME NEW h \in Handlers, DestroyFailed(h) PROVE TypeOK'
  BY <1>15 DEF DestroyFailed, tableVars, localVars, sessVars
<1>16. ASSUME NEW h \in Handlers, Leave(h) PROVE TypeOK'
  BY <1>16 DEF Leave, Goto, tableVars, localVars, sessVars
<1>17. ASSUME NEW h \in Handlers, OnDisconnect(h) PROVE TypeOK'
  BY <1>17 DEF OnDisconnect, Goto, tableVars, sessVars
<1>18. ASSUME NEW h \in Handlers, Close(h) PROVE TypeOK'
  BY <1>18 DEF Close, Goto, tableVars, localVars, sessVars
<1>19. ASSUME NEW u \in Users, RemoveUserConn(u) PROVE TypeOK'
  BY <1>19 DEF RemoveUserConn, localVars, sessVars
<1>20. CASE UNCHANGED vars
  BY <1>20 DEF vars, tableVars, localVars, sessVars
<1> QED
  BY <1>1, <1>2, <1>3, <1>4, <1>5, <1>6, <1>7, <1>8, <1>9, <1>10, <1>11, <1>12, <1>13,
     <1>14, <1>15, <1>16, <1>17, <1>18, <1>19, <1>20
  DEF Next, Step

\* Every step keeps users and devices apart.
LEMMA NextIsolation ==
    TypeOK /\ Isolation /\ OwnUser /\ [Next]_vars => Isolation' /\ OwnUser'
<1> SUFFICES ASSUME TypeOK, Isolation, OwnUser, [Next]_vars PROVE Isolation' /\ OwnUser'
  OBVIOUS
<1> USE ManagerAssumption DEF TypeOK, Isolation, OwnUser, User, Dev
<1>1. ASSUME NEW h \in Handlers, Upgrade(h) PROVE Isolation' /\ OwnUser'
  BY <1>1 DEF Upgrade, Arrives, Build, Goto, tableVars, localVars, sessVars
<1>2. ASSUME NEW h \in Handlers, UpgradeRejected(h) \/ UpgradeFailed(h) PROVE Isolation' /\ OwnUser'
  BY <1>2 DEF Arrives, UpgradeRejected, UpgradeFailed, Build, Goto, tableVars, localVars, sessVars
<1>3. ASSUME NEW h \in Handlers, Load(h) PROVE Isolation' /\ OwnUser'
  BY <1>3 DEF Load, Goto, tableVars, sessVars
<1>4. ASSUME NEW h \in Handlers, Find(h) PROVE Isolation' /\ OwnUser'
  BY <1>4 DEF Find, Goto, tableVars, localVars, sessVars
<1>5. ASSUME NEW h \in Handlers, Create(h) PROVE Isolation' /\ OwnUser'
  BY <1>5 DEF Create, Goto, tableVars, localVars, sessVars
<1>6. ASSUME NEW h \in Handlers, Store(h) PROVE Isolation' /\ OwnUser'
  <2>1. CASE conns[User(h)] = None
    <3>1. /\ conns' = [conns EXCEPT ![User(h)] = h]
          /\ dc' = [dc EXCEPT ![h] = h]
          /\ UNCHANGED <<devs, victim>>
      BY <1>6, <2>1 DEF Store
    <3> QED BY <3>1
  <2>2. CASE conns[User(h)] # None
    <3>1. /\ dc' = [dc EXCEPT ![h] = conns[User(h)]]
          /\ UNCHANGED <<conns, devs, victim>>
      BY <1>6, <2>2 DEF Store
    <3> QED BY <3>1
  <2> QED BY <2>1, <2>2
<1>7. ASSUME NEW h \in Handlers, Add(h) PROVE Isolation' /\ OwnUser'
  BY <1>7 DEF Add, Goto, localVars, sessVars
<1>8. ASSUME NEW h \in Handlers, RmLoad(h) PROVE Isolation' /\ OwnUser'
  BY <1>8 DEF RmLoad, After, Goto, tableVars, sessVars
<1>9. ASSUME NEW h \in Handlers, RmTake(h) PROVE Isolation' /\ OwnUser'
  <2>1. CASE devs[dc[h]][Dev(h)] = None
    <3>1. /\ pc' = [pc EXCEPT ![h] = After(h)] /\ After(h) \in {"create", "close"}
          /\ dc' = [dc EXCEPT ![h] = None]
          /\ UNCHANGED <<conns, devs, phase, victim, state, sess, lost, cleared>>
      BY <1>9, <2>1 DEF RmTake, After, Goto, sessVars
    <3> QED BY <3>1
  <2>2. CASE devs[dc[h]][Dev(h)] # None
    <3>1. /\ pc[h] = "rmTake" /\ dc[h] \in Handlers
          /\ devs[dc[h]][Dev(h)] \in Handlers
      BY <1>9, <2>2 DEF RmTake
    <3>2. /\ devs' = [devs EXCEPT ![dc[h]][Dev(h)] = None]
          /\ victim' = [victim EXCEPT ![h] = devs[dc[h]][Dev(h)]]
          /\ pc' = [pc EXCEPT ![h] = "rmLen"]
          /\ UNCHANGED <<conns, phase, dc, state, sess, lost, cleared>>
      BY <1>9, <2>2 DEF RmTake, Goto, sessVars
    <3> QED BY <3>1, <3>2
  <2> QED BY <2>1, <2>2
<1>10. ASSUME NEW h \in Handlers, RmLen(h) PROVE Isolation' /\ OwnUser'
  BY <1>10 DEF RmLen, Goto, tableVars, localVars, sessVars
<1>11. ASSUME NEW h \in Handlers, RmDelete(h) PROVE Isolation' /\ OwnUser'
  BY <1>11 DEF RmDelete, Goto, localVars, sessVars
<1>12. ASSUME NEW h \in Handlers, RmClose(h) PROVE Isolation' /\ OwnUser'
  BY <1>12 DEF RmClose, After, Goto, tableVars, localVars, sessVars
<1>13. ASSUME NEW h \in Handlers, Cancel(h) PROVE Isolation' /\ OwnUser'
  BY <1>13 DEF Cancel, tableVars, localVars, sessVars
<1>14. ASSUME NEW h \in Handlers, Destroy(h) PROVE Isolation' /\ OwnUser'
  BY <1>14 DEF Destroy, tableVars, localVars, sessVars
<1>15. ASSUME NEW h \in Handlers, DestroyFailed(h) PROVE Isolation' /\ OwnUser'
  BY <1>15 DEF DestroyFailed, tableVars, localVars, sessVars
<1>16. ASSUME NEW h \in Handlers, Leave(h) PROVE Isolation' /\ OwnUser'
  BY <1>16 DEF Leave, Goto, tableVars, localVars, sessVars
<1>17. ASSUME NEW h \in Handlers, OnDisconnect(h) PROVE Isolation' /\ OwnUser'
  BY <1>17 DEF OnDisconnect, Goto, tableVars, sessVars
<1>18. ASSUME NEW h \in Handlers, Close(h) PROVE Isolation' /\ OwnUser'
  BY <1>18 DEF Close, Goto, tableVars, localVars, sessVars
<1>19. ASSUME NEW u \in Users, RemoveUserConn(u) PROVE Isolation' /\ OwnUser'
  BY <1>19 DEF RemoveUserConn, localVars, sessVars
<1>20. CASE UNCHANGED vars
  BY <1>20 DEF vars, tableVars, localVars, sessVars
<1> QED
  BY <1>1, <1>2, <1>3, <1>4, <1>5, <1>6, <1>7, <1>8, <1>9, <1>10, <1>11, <1>12, <1>13,
     <1>14, <1>15, <1>16, <1>17, <1>18, <1>19, <1>20
  DEF Next, Step

\* Every step keeps the order of the two calls of RemoveConn.
LEMMA NextPhaseOK == TypeOK /\ PhaseOK /\ [Next]_vars => PhaseOK'
<1> SUFFICES ASSUME TypeOK, PhaseOK, [Next]_vars PROVE PhaseOK'
  OBVIOUS
<1> USE DEF TypeOK, PhaseOK
<1>1. ASSUME NEW h \in Handlers, Upgrade(h) PROVE PhaseOK'
  BY <1>1 DEF Upgrade, Arrives, Build, Goto, tableVars, localVars, sessVars
<1>2. ASSUME NEW h \in Handlers, UpgradeRejected(h) \/ UpgradeFailed(h) PROVE PhaseOK'
  BY <1>2 DEF Arrives, UpgradeRejected, UpgradeFailed, Build, Goto, tableVars, localVars, sessVars
<1>3. ASSUME NEW h \in Handlers, Load(h) PROVE PhaseOK'
  BY <1>3 DEF Load, Goto, tableVars, sessVars
<1>4. ASSUME NEW h \in Handlers, Find(h) PROVE PhaseOK'
  BY <1>4 DEF Find, Goto, tableVars, localVars, sessVars
<1>5. ASSUME NEW h \in Handlers, Create(h) PROVE PhaseOK'
  BY <1>5 DEF Create, Goto, tableVars, localVars, sessVars
<1>6. ASSUME NEW h \in Handlers, Store(h) PROVE PhaseOK'
  BY <1>6 DEF Store, Goto, sessVars
<1>7. ASSUME NEW h \in Handlers, Add(h) PROVE PhaseOK'
  BY <1>7 DEF Add, Goto, localVars, sessVars
<1>8. ASSUME NEW h \in Handlers, RmLoad(h) PROVE PhaseOK'
  BY <1>8 DEF RmLoad, After, Goto, tableVars, sessVars
<1>9. ASSUME NEW h \in Handlers, RmTake(h) PROVE PhaseOK'
  BY <1>9 DEF RmTake, After, Goto, sessVars
<1>10. ASSUME NEW h \in Handlers, RmLen(h) PROVE PhaseOK'
  BY <1>10 DEF RmLen, Goto, tableVars, localVars, sessVars
<1>11. ASSUME NEW h \in Handlers, RmDelete(h) PROVE PhaseOK'
  BY <1>11 DEF RmDelete, Goto, localVars, sessVars
<1>12. ASSUME NEW h \in Handlers, RmClose(h) PROVE PhaseOK'
  BY <1>12 DEF RmClose, After, Goto, tableVars, localVars, sessVars
<1>13. ASSUME NEW h \in Handlers, Cancel(h) PROVE PhaseOK'
  BY <1>13 DEF Cancel, tableVars, localVars, sessVars
<1>14. ASSUME NEW h \in Handlers, Destroy(h) PROVE PhaseOK'
  BY <1>14 DEF Destroy, tableVars, localVars, sessVars
<1>15. ASSUME NEW h \in Handlers, DestroyFailed(h) PROVE PhaseOK'
  BY <1>15 DEF DestroyFailed, tableVars, localVars, sessVars
<1>16. ASSUME NEW h \in Handlers, Leave(h) PROVE PhaseOK'
  BY <1>16 DEF Leave, Goto, tableVars, localVars, sessVars
<1>17. ASSUME NEW h \in Handlers, OnDisconnect(h) PROVE PhaseOK'
  BY <1>17 DEF OnDisconnect, Goto, tableVars, sessVars
<1>18. ASSUME NEW h \in Handlers, Close(h) PROVE PhaseOK'
  BY <1>18 DEF Close, Goto, tableVars, localVars, sessVars
<1>19. ASSUME NEW u \in Users, RemoveUserConn(u) PROVE PhaseOK'
  BY <1>19 DEF RemoveUserConn, localVars, sessVars
<1>20. CASE UNCHANGED vars
  BY <1>20 DEF vars, tableVars, localVars, sessVars
<1> QED
  BY <1>1, <1>2, <1>3, <1>4, <1>5, <1>6, <1>7, <1>8, <1>9, <1>10, <1>11, <1>12, <1>13,
     <1>14, <1>15, <1>16, <1>17, <1>18, <1>19, <1>20
  DEF Next, Step

\* A handler never goes back before storeConn.
LEMMA StoredStays ==
    ASSUME TypeOK, PhaseOK, [Next]_vars, NEW g \in Handlers
    PROVE  (Stored(g) => Stored(g)') /\ (Added(g) => Added(g)')
<1> USE DEF TypeOK, PhaseOK, Stored, Added
<1>1. ASSUME NEW h \in Handlers, Upgrade(h)
      PROVE (Stored(g) => Stored(g)') /\ (Added(g) => Added(g)')
  BY <1>1 DEF Upgrade, Arrives, Build, Goto, tableVars, localVars, sessVars
<1>2. ASSUME NEW h \in Handlers, UpgradeRejected(h) \/ UpgradeFailed(h)
      PROVE (Stored(g) => Stored(g)') /\ (Added(g) => Added(g)')
  BY <1>2 DEF Arrives, UpgradeRejected, UpgradeFailed, Build, Goto, tableVars, localVars, sessVars
<1>3. ASSUME NEW h \in Handlers, Load(h)
      PROVE (Stored(g) => Stored(g)') /\ (Added(g) => Added(g)')
  BY <1>3 DEF Load, Goto, tableVars, sessVars
<1>4. ASSUME NEW h \in Handlers, Find(h)
      PROVE (Stored(g) => Stored(g)') /\ (Added(g) => Added(g)')
  BY <1>4 DEF Find, Goto, tableVars, localVars, sessVars
<1>5. ASSUME NEW h \in Handlers, Create(h)
      PROVE (Stored(g) => Stored(g)') /\ (Added(g) => Added(g)')
  BY <1>5 DEF Create, Goto, tableVars, localVars, sessVars
<1>6. ASSUME NEW h \in Handlers, Store(h)
      PROVE (Stored(g) => Stored(g)') /\ (Added(g) => Added(g)')
  BY <1>6 DEF Store, Goto, sessVars
<1>7. ASSUME NEW h \in Handlers, Add(h)
      PROVE (Stored(g) => Stored(g)') /\ (Added(g) => Added(g)')
  BY <1>7 DEF Add, Goto, localVars, sessVars
<1>8. ASSUME NEW h \in Handlers, RmLoad(h)
      PROVE (Stored(g) => Stored(g)') /\ (Added(g) => Added(g)')
  BY <1>8 DEF RmLoad, After, Goto, tableVars, sessVars
<1>9. ASSUME NEW h \in Handlers, RmTake(h)
      PROVE (Stored(g) => Stored(g)') /\ (Added(g) => Added(g)')
  BY <1>9 DEF RmTake, After, Goto, sessVars
<1>10. ASSUME NEW h \in Handlers, RmLen(h)
       PROVE (Stored(g) => Stored(g)') /\ (Added(g) => Added(g)')
  BY <1>10 DEF RmLen, Goto, tableVars, localVars, sessVars
<1>11. ASSUME NEW h \in Handlers, RmDelete(h)
       PROVE (Stored(g) => Stored(g)') /\ (Added(g) => Added(g)')
  BY <1>11 DEF RmDelete, Goto, localVars, sessVars
<1>12. ASSUME NEW h \in Handlers, RmClose(h)
       PROVE (Stored(g) => Stored(g)') /\ (Added(g) => Added(g)')
  BY <1>12 DEF RmClose, After, Goto, tableVars, localVars, sessVars
<1>13. ASSUME NEW h \in Handlers, Cancel(h)
       PROVE (Stored(g) => Stored(g)') /\ (Added(g) => Added(g)')
  BY <1>13 DEF Cancel, tableVars, localVars, sessVars
<1>14. ASSUME NEW h \in Handlers, Destroy(h)
       PROVE (Stored(g) => Stored(g)') /\ (Added(g) => Added(g)')
  BY <1>14 DEF Destroy, tableVars, localVars, sessVars
<1>15. ASSUME NEW h \in Handlers, DestroyFailed(h)
       PROVE (Stored(g) => Stored(g)') /\ (Added(g) => Added(g)')
  BY <1>15 DEF DestroyFailed, tableVars, localVars, sessVars
<1>16. ASSUME NEW h \in Handlers, Leave(h)
       PROVE (Stored(g) => Stored(g)') /\ (Added(g) => Added(g)')
  BY <1>16 DEF Leave, Goto, tableVars, localVars, sessVars
<1>17. ASSUME NEW h \in Handlers, OnDisconnect(h)
       PROVE (Stored(g) => Stored(g)') /\ (Added(g) => Added(g)')
  BY <1>17 DEF OnDisconnect, Goto, tableVars, sessVars
<1>18. ASSUME NEW h \in Handlers, Close(h)
       PROVE (Stored(g) => Stored(g)') /\ (Added(g) => Added(g)')
  BY <1>18 DEF Close, Goto, tableVars, localVars, sessVars
<1>19. ASSUME NEW u \in Users, RemoveUserConn(u)
       PROVE (Stored(g) => Stored(g)') /\ (Added(g) => Added(g)')
  BY <1>19 DEF RemoveUserConn, localVars, sessVars
<1>20. CASE UNCHANGED vars
  BY <1>20 DEF vars, tableVars, localVars, sessVars
<1> QED
  BY <1>1, <1>2, <1>3, <1>4, <1>5, <1>6, <1>7, <1>8, <1>9, <1>10, <1>11, <1>12, <1>13,
     <1>14, <1>15, <1>16, <1>17, <1>18, <1>19, <1>20
  DEF Next, Step

\* The steps that leave the table alone, and the local dc or drop it.
Aside(h) ==
    \/ Upgrade(h) \/ UpgradeRejected(h) \/ UpgradeFailed(h) \/ Find(h) \/ Create(h)
    \/ RmLen(h) \/ RmClose(h) \/ Cancel(h) \/ Destroy(h) \/ DestroyFailed(h) \/ Leave(h) \/ OnDisconnect(h) \/ Close(h)

DropsAtMost(h) == dc' = dc \/ (dc' = [dc EXCEPT ![h] = None] /\ pc[h] # "rmTake")

\* What the other steps do, one case each.
LEMMA TableSteps ==
    ASSUME TypeOK, [Next]_vars
    PROVE  \/ UNCHANGED <<conns, devs>> /\ \E h \in Handlers : Aside(h) /\ DropsAtMost(h)
           \/ UNCHANGED <<conns, dc, devs, pc, phase>>
           \/ \E h \in Handlers : Load(h) \/ RmLoad(h) \/ Store(h) \/ Add(h) \/ RmTake(h) \/ RmDelete(h)
           \/ \E u \in Users : RemoveUserConn(u)
<1>1. ASSUME NEW h \in Handlers, Aside(h) PROVE UNCHANGED <<conns, devs>> /\ DropsAtMost(h)
  BY <1>1 DEF Aside, Upgrade, Arrives, UpgradeRejected, UpgradeFailed, Find, Create, RmLen, RmClose, Cancel, Destroy,
              DestroyFailed, Leave, OnDisconnect, Close, tableVars, localVars, DropsAtMost
<1>2. CASE UNCHANGED vars
  BY <1>2 DEF vars, tableVars, localVars
<1> QED
  BY <1>1, <1>2 DEF Next, Step, Aside

\* dc.remove of a present entry, spelled out.
LEMMA RmTakeTakes ==
    ASSUME TypeOK, NEW h \in Handlers, RmTake(h), devs[dc[h]][Dev(h)] # None
    PROVE  /\ pc[h] = "rmTake" /\ dc[h] \in Handlers /\ devs[dc[h]][Dev(h)] \in Handlers
           /\ devs' = [devs EXCEPT ![dc[h]][Dev(h)] = None]
           /\ pc' = [pc EXCEPT ![h] = "rmLen"]
           /\ UNCHANGED <<conns, phase, dc>>
<1>1. pc[h] = "rmTake" /\ dc[h] \in Handlers /\ devs[dc[h]][Dev(h)] \in Handlers
  <2>1. pc[h] = "rmTake"
    BY Zenon DEF RmTake
  <2> QED
    BY <2>1, ManagerAssumption DEF TypeOK, Dev
<1>2. /\ devs' = [devs EXCEPT ![dc[h]][Dev(h)] = None]
      /\ pc' = [pc EXCEPT ![h] = "rmLen"]
      /\ UNCHANGED <<conns, phase, dc>>
  BY Zenon DEF RmTake, Goto
<1> QED BY <1>1, <1>2

\* dc.remove that finds nothing.
LEMMA RmTakeFindsNothing ==
    ASSUME TypeOK, NEW h \in Handlers, RmTake(h), devs[dc[h]][Dev(h)] = None
    PROVE  /\ pc[h] = "rmTake" /\ dc[h] \in Handlers
           /\ pc' = [pc EXCEPT ![h] = After(h)]
           /\ dc' = [dc EXCEPT ![h] = None]
           /\ UNCHANGED <<conns, phase, devs>>
  BY ManagerAssumption DEF RmTake, Goto, TypeOK, Dev

\* Every step keeps the order in which a DeviceConns is made, stored and filled.
LEMMA NextMadeBefore == TypeOK /\ PhaseOK /\ MadeBefore /\ [Next]_vars => MadeBefore'
<1> SUFFICES ASSUME TypeOK, PhaseOK, MadeBefore, [Next]_vars PROVE MadeBefore'
  OBVIOUS
<1>0. \A g \in Handlers : (Stored(g) => Stored(g)') /\ (Added(g) => Added(g)')
  BY StoredStays
<1> USE ManagerAssumption, <1>0 DEF TypeOK, MadeBefore, User, Dev
<1>1. ASSUME UNCHANGED <<conns, devs>>, NEW h \in Handlers,
             dc' = dc \/ dc' = [dc EXCEPT ![h] = None]
      PROVE  MadeBefore'
  BY <1>1
<1>2. ASSUME NEW h \in Handlers, Load(h) \/ RmLoad(h) PROVE MadeBefore'
  BY <1>2 DEF Load, RmLoad, tableVars
<1>3. ASSUME NEW h \in Handlers, Store(h) PROVE MadeBefore'
  <2>1. Stored(h)'
    BY <1>3 DEF Store, Goto, Stored
  <2>2. CASE conns[User(h)] = None
    <3>1. /\ conns' = [conns EXCEPT ![User(h)] = h]
          /\ dc' = [dc EXCEPT ![h] = h] /\ UNCHANGED devs
      BY <1>3, <2>2 DEF Store
    <3> QED BY <2>1, <3>1
  <2>3. CASE conns[User(h)] # None
    <3>1. dc' = [dc EXCEPT ![h] = conns[User(h)]] /\ UNCHANGED <<conns, devs>>
      BY <1>3, <2>3 DEF Store
    <3> QED BY <3>1
  <2> QED BY <2>2, <2>3
<1>4. ASSUME NEW h \in Handlers, Add(h) PROVE MadeBefore'
  <2>1. Added(h)' /\ Stored(dc[h])
    BY <1>4 DEF Add, Goto, Added, Stored
  <2> QED BY <1>4, <2>1 DEF Add, localVars
<1>5. ASSUME NEW h \in Handlers, RmTake(h) PROVE MadeBefore'
  <2>1. CASE devs[dc[h]][Dev(h)] = None
    BY <1>1, <1>5, <2>1, RmTakeFindsNothing
  <2>2. CASE devs[dc[h]][Dev(h)] # None
    <3>1. /\ dc[h] \in Handlers /\ devs' = [devs EXCEPT ![dc[h]][Dev(h)] = None]
          /\ UNCHANGED <<conns, dc>>
      BY <1>5, <2>2, RmTakeTakes
    <3> QED BY <3>1
  <2> QED BY <2>1, <2>2
<1>6. ASSUME NEW h \in Handlers, RmDelete(h) PROVE MadeBefore'
  BY <1>6 DEF RmDelete, localVars
<1>7. ASSUME NEW u \in Users, RemoveUserConn(u) PROVE MadeBefore'
  BY <1>7 DEF RemoveUserConn, localVars, sessVars
<1> QED
  BY <1>1, <1>2, <1>3, <1>4, <1>5, <1>6, <1>7, TableSteps DEF DropsAtMost

\* A handler whose connection is in the table neither begins nor ends its life by a
\* step that leaves the table alone.
LEMMA AsideCleanup ==
    ASSUME TypeOK, PhaseOK, NEW g \in Handlers, Added(g), ~Cleaned(g),
           NEW h \in Handlers, Aside(h)
    PROVE  /\ ~Cleaned(g)'
           /\ phase'[g] = "exit" /\ pc'[g] = "rmTake" => phase[g] = "exit" /\ pc[g] = "rmTake"
<1> USE DEF TypeOK, PhaseOK, Added, Stored, Cleaned
<1>1. CASE Upgrade(h) \/ UpgradeRejected(h) \/ UpgradeFailed(h) \/ Find(h) \/ Create(h)
  BY <1>1 DEF Upgrade, Arrives, UpgradeRejected, UpgradeFailed, Find, Create, Goto, localVars, sessVars
<1>2. CASE RmLen(h) \/ RmClose(h)
  BY <1>2 DEF RmLen, RmClose, After, Goto, localVars, sessVars
<1>3. CASE Cancel(h) \/ Destroy(h) \/ DestroyFailed(h)
  BY <1>3 DEF Cancel, Destroy, DestroyFailed, localVars
<1>4. CASE Leave(h) \/ OnDisconnect(h) \/ Close(h)
  BY <1>4 DEF Leave, OnDisconnect, Close, Goto, localVars, sessVars
<1> QED
  BY <1>1, <1>2, <1>3, <1>4 DEF Aside

\* Every step keeps the table consistent with the cleanups in progress.
LEMMA NextCleanupOK ==
    /\ TypeOK /\ Isolation /\ OwnUser /\ PhaseOK /\ MadeBefore /\ CleanupOK /\ [Next]_vars
    => CleanupOK'
<1> SUFFICES ASSUME TypeOK, Isolation, OwnUser, PhaseOK, MadeBefore, CleanupOK, [Next]_vars,
                    NEW g \in Handlers, NEW x \in Handlers, NEW d \in Devices,
                    devs'[x][d] = g, conns'[User(g)] = x
             PROVE  /\ phase'[g] = "exit" /\ pc'[g] = "rmTake" => dc'[g] = x
                    /\ ~Cleaned(g)'
  BY DEF CleanupOK, User
<1> DEFINE Goal == /\ phase'[g] = "exit" /\ pc'[g] = "rmTake" => dc'[g] = x
                   /\ ~Cleaned(g)'
<1>0. /\ User(g) \in Users /\ Dev(g) \in Devices /\ g # None /\ x # None
      /\ devs[x][d] = g => /\ Added(g) /\ Stored(x) /\ Dev(g) = d
      /\ devs[x][d] = g /\ conns[User(g)] = x =>
           ~Cleaned(g) /\ (phase[g] = "exit" /\ pc[g] = "rmTake" => dc[g] = x)
  BY ManagerAssumption DEF MadeBefore, CleanupOK, Isolation, User, Dev
<1>1. ASSUME UNCHANGED <<conns, devs>>, NEW h \in Handlers, Aside(h), DropsAtMost(h) PROVE Goal
  BY <1>0, <1>1, AsideCleanup DEF DropsAtMost, TypeOK
<1>2. ASSUME UNCHANGED <<conns, dc, devs, pc, phase>> PROVE Goal
  BY <1>0, <1>2 DEF Cleaned
<1>3. ASSUME NEW h \in Handlers, Load(h) PROVE Goal
  BY <1>0, <1>3 DEF Load, Goto, tableVars, Cleaned, TypeOK
<1>4. ASSUME NEW h \in Handlers, RmLoad(h) PROVE Goal
  <2>1. /\ devs[x][d] = g /\ conns[User(g)] = x /\ pc[h] = "rmLoad"
        /\ phase' = phase /\ dc' = [dc EXCEPT ![h] = conns[User(h)]]
        /\ pc' = [pc EXCEPT ![h] = IF conns[User(h)] = None THEN After(h) ELSE "rmTake"]
    BY <1>4 DEF RmLoad, Goto, tableVars, sessVars
  <2> QED BY <1>0, <2>1 DEF Cleaned, TypeOK
<1>5. ASSUME NEW h \in Handlers, Store(h) PROVE Goal
  <2>1. ~Stored(h)
    BY <1>5 DEF Store, Stored, PhaseOK
  <2>2. /\ pc' = [pc EXCEPT ![h] = "add"] /\ phase' = phase /\ devs' = devs /\ pc[h] = "store"
        /\ \A k \in Handlers : k # h => dc'[k] = dc[k]
    BY <1>5 DEF Store, Goto, TypeOK
  <2>3. x # h /\ devs[x][d] = g
    BY <1>0, <2>1, <2>2
  <2>4. conns[User(g)] = x
    <3>1. CASE conns[User(h)] = None
      <4>1. conns' = [conns EXCEPT ![User(h)] = h]
        BY <1>5, <3>1 DEF Store
      <4> QED BY <1>0, <2>3, <4>1 DEF TypeOK
    <3>2. CASE conns[User(h)] # None
      BY <1>5, <3>2 DEF Store
    <3> QED BY <3>1, <3>2
  <2> QED BY <1>0, <2>2, <2>3, <2>4 DEF Cleaned, TypeOK
<1>6. ASSUME NEW h \in Handlers, Add(h) PROVE Goal
  <2>1. /\ conns' = conns /\ phase' = phase /\ dc' = [dc EXCEPT ![h] = None] /\ pc[h] = "add"
        /\ pc' = [pc EXCEPT ![h] = "serve"]
        /\ devs' = [devs EXCEPT ![dc[h]][Dev(h)] = h]
    BY <1>6 DEF Add, Goto, localVars, sessVars
  <2>2. CASE g = h
    BY <2>1, <2>2 DEF Cleaned, TypeOK
  <2>3. CASE g # h
    <3>1. devs[x][d] = g
      BY <2>1, <2>3 DEF TypeOK
    <3> QED BY <1>0, <2>1, <2>3, <3>1 DEF Cleaned, TypeOK
  <2> QED BY <2>2, <2>3
<1>7. ASSUME NEW h \in Handlers, RmTake(h) PROVE Goal
  <2>1. CASE devs[dc[h]][Dev(h)] = None
    <3>1. /\ pc[h] = "rmTake" /\ pc' = [pc EXCEPT ![h] = After(h)]
          /\ dc' = [dc EXCEPT ![h] = None] /\ UNCHANGED <<conns, phase, devs>>
      BY <1>7, <2>1, RmTakeFindsNothing
    <3>2. g = h => phase[h] # "exit"
      BY <1>0, <2>1, <3>1
    <3> QED BY <1>0, <3>1, <3>2 DEF Cleaned, TypeOK, After
  <2>2. CASE devs[dc[h]][Dev(h)] # None
    <3>1. /\ pc[h] = "rmTake" /\ dc[h] \in Handlers
          /\ devs' = [devs EXCEPT ![dc[h]][Dev(h)] = None]
          /\ pc' = [pc EXCEPT ![h] = "rmLen"] /\ UNCHANGED <<conns, phase, dc>>
      BY <1>7, <2>2, RmTakeTakes
    <3>2. devs[x][d] = g /\ ~(x = dc[h] /\ d = Dev(h))
      BY <1>0, <3>1 DEF TypeOK
    <3>3. g = h => phase[h] # "exit"
      BY <1>0, <3>1, <3>2
    <3> QED BY <1>0, <3>1, <3>2, <3>3 DEF Cleaned, TypeOK
  <2> QED BY <2>1, <2>2
<1>8. ASSUME NEW h \in Handlers, RmDelete(h) PROVE Goal
  <2>1. /\ devs' = devs /\ phase' = phase /\ dc' = dc /\ pc[h] = "rmDelete"
        /\ pc' = [pc EXCEPT ![h] = "rmClose"] /\ conns' = [conns EXCEPT ![User(h)] = None]
    BY <1>8 DEF RmDelete, Goto, localVars, sessVars
  <2>2. conns[User(g)] = x
    BY <1>0, <2>1 DEF TypeOK
  <2> QED BY <1>0, <2>1, <2>2 DEF Cleaned, TypeOK
<1>9. ASSUME NEW u \in Users, RemoveUserConn(u) PROVE Goal
  <2>1. /\ devs' = [devs EXCEPT ![conns[u]] = [e \in Devices |-> None]]
        /\ UNCHANGED <<conns, phase, dc, pc>>
    BY <1>9 DEF RemoveUserConn, localVars, sessVars
  <2>2. devs[x][d] = g
    BY <1>0, <2>1 DEF TypeOK
  <2> QED BY <1>0, <2>1, <2>2 DEF Cleaned
<1> HIDE DEF Goal
<1>10. Goal
  <2>1. CASE UNCHANGED <<conns, devs>> /\ \E h \in Handlers : Aside(h) /\ DropsAtMost(h)
    BY <1>1, <2>1
  <2>2. CASE \E h \in Handlers : Load(h) \/ RmLoad(h) \/ Store(h) \/ Add(h) \/ RmTake(h) \/ RmDelete(h)
    BY <1>3, <1>4, <1>5, <1>6, <1>7, <1>8, <2>2
  <2> QED
    BY <1>2, <1>9, <2>1, <2>2, TableSteps
<1> QED
  BY <1>10 DEF Goal

\* A handler that has not begun has no connection yet, so the session that its
\* upgrade makes gets an owner.
IdleFresh == \A h \in Handlers : pc[h] = "idle" => state[h] = "none"

\* No step takes the last owner from a session that no failed call left.
LEMMA NextSessions ==
    TypeOK /\ IdleFresh /\ NoSessionLeak /\ [Next]_vars => IdleFresh' /\ NoSessionLeak'
<1> SUFFICES ASSUME TypeOK, IdleFresh, NoSessionLeak, [Next]_vars
             PROVE  IdleFresh' /\ NoSessionLeak'
  OBVIOUS
<1> USE DEF TypeOK, IdleFresh, NoSessionLeak, Owners, User
<1> DEFINE Goal == IdleFresh' /\ NoSessionLeak'
<1>1. ASSUME NEW h \in Handlers, Upgrade(h) PROVE Goal
  <2>1. /\ pc[h] = "idle" /\ pc' = [pc EXCEPT ![h] = "load"] /\ state' = state
        /\ sess' = sess \cup {User(h)} /\ lost' = lost
    BY <1>1 DEF Upgrade, Arrives, Build, Goto
  <2>2. \A u \in Users : Owners(u) \subseteq Owners(u)'
    BY <2>1
  <2>3. h \in Owners(User(h))'
    BY <2>1
  <2> QED BY <2>1, <2>2, <2>3
<1>2. ASSUME NEW h \in Handlers, UpgradeRejected(h) \/ UpgradeFailed(h) PROVE Goal
  <2>1. /\ pc[h] = "idle" /\ pc' = [pc EXCEPT ![h] = "done"] /\ state' = state
        /\ sess' \ lost' \subseteq sess \ lost
    BY <1>2 DEF Arrives, UpgradeRejected, UpgradeFailed, Build, Goto, sessVars
  <2>2. \A u \in Users : Owners(u) \subseteq Owners(u)'
    BY <2>1
  <2> QED BY <2>1, <2>2
<1>3. ASSUME NEW h \in Handlers,
             \/ Load(h) \/ Find(h) \/ Create(h) \/ Store(h) \/ Add(h) \/ RmLoad(h)
             \/ RmTake(h) \/ RmLen(h) \/ RmDelete(h) \/ RmClose(h) \/ Leave(h)
             \/ OnDisconnect(h) \/ Close(h)
      PROVE  Goal
  <2>1. /\ sess' = sess /\ lost' = lost /\ pc[h] # "idle" /\ pc'[h] # "idle"
        /\ pc'[h] = "done" => state[h] = "closed"
        /\ \A g \in Handlers : g # h => pc'[g] = pc[g]
        /\ state' = state \/ state' = [state EXCEPT ![h] = "open"]
    BY <1>3 DEF Load, Find, Create, Store, Add, RmLoad, RmTake, RmLen, RmDelete, RmClose,
                Leave, OnDisconnect, Close, After, Goto, tableVars, localVars, sessVars
  <2>2. \A u \in Users : Owners(u) \subseteq Owners(u)'
    BY <2>1
  <2> QED BY <2>1, <2>2
<1>4. ASSUME NEW h \in Handlers, Cancel(h) PROVE Goal
  <2>1. \A u \in Users : Owners(u) \subseteq Owners(u)'
    BY <1>4 DEF Cancel
  <2> QED BY <1>4, <2>1 DEF Cancel, sessVars
<1>5. ASSUME NEW h \in Handlers, Destroy(h) \/ DestroyFailed(h) PROVE Goal
  <2>1. /\ state[h] = "cancelled" /\ state' = [state EXCEPT ![h] = "closed"] /\ pc' = pc
        /\ sess' \ lost' \subseteq (sess \ lost) \ {User(h)}
    BY <1>5 DEF Destroy, DestroyFailed
  <2>2. \A u \in Users \ {User(h)} : Owners(u) \subseteq Owners(u)'
    BY <2>1
  <2> QED BY <2>1, <2>2
<1>6. ASSUME NEW u \in Users, RemoveUserConn(u) PROVE Goal
  BY <1>6 DEF RemoveUserConn, sessVars
<1>7. ASSUME UNCHANGED vars PROVE Goal
  BY <1>7 DEF vars, sessVars
<1> HIDE DEF Goal, TypeOK, IdleFresh, NoSessionLeak, Owners, User
<1>8. Goal
  <2>1. CASE \E h \in Handlers : Step(h)
    BY <1>3, <2>1 DEF Step
  <2> QED BY <1>1, <1>2, <1>4, <1>5, <1>6, <1>7, <2>1 DEF Next
<1> QED
  BY <1>8 DEF Goal

\* All together are inductive.
LEMMA NextIndInv == IndInv /\ [Next]_vars => IndInv'
  BY NextTypeOK, NextIsolation, NextPhaseOK, NextMadeBefore, NextCleanupOK DEF IndInv

\* Somebody sees to it that the DeviceConns x, in the map for user u, is deleted: it is
\* not empty, a connection is about to be added to it, or a RemoveConn is about to find
\* it empty or to delete it.
Minded(u, x) ==
    \/ ~Empty(x)
    \/ \E h \in Handlers : /\ dc[h] = x
                          /\ pc[h] \in {"add", "rmLen"}
    \/ \E h \in Handlers : User(h) = u /\ pc[h] = "rmDelete"

AllMinded == \A u \in Users \ cleared : conns[u] # None => Minded(u, conns[u])

\* Who minds a DeviceConns goes on to do so if neither its entries nor he changes.
LEMMA MindedStays ==
    ASSUME NEW u, NEW x, Minded(u, x), Empty(x)' => Empty(x),
           \A g \in Handlers : (dc[g] = x /\ pc[g] \in {"add", "rmLen"}) \/ pc[g] = "rmDelete"
                              => dc'[g] = dc[g] /\ pc'[g] = pc[g]
    PROVE  Minded(u, x)'
  BY DEF Minded

\* No step leaves a DeviceConns in the map to nobody, unless RemoveUserConn emptied it.
LEMMA NextAllMinded ==
    TypeOK /\ OwnUser /\ AllMinded /\ [Next]_vars => AllMinded'
<1> SUFFICES ASSUME TypeOK, OwnUser, AllMinded, [Next]_vars,
                    NEW u \in Users, u \notin cleared', NEW x, x = conns'[u], x # None
             PROVE  Minded(u, x)'
  BY DEF AllMinded
<1>1. ASSUME conns[u] = x, cleared \subseteq cleared' PROVE Minded(u, x) /\ x \in Handlers /\ User(x) = u
  BY <1>1 DEF AllMinded, TypeOK, OwnUser
<1>2. ASSUME NEW h \in Handlers,
             \/ Upgrade(h) \/ UpgradeRejected(h) \/ UpgradeFailed(h) \/ Load(h) \/ Find(h)
             \/ Create(h) \/ RmLoad(h) \/ RmClose(h) \/ Leave(h) \/ OnDisconnect(h) \/ Close(h)
      PROVE  Minded(u, x)'
  <2>1. UNCHANGED <<conns, devs, cleared>> /\ pc[h] \notin {"add", "rmLen", "rmDelete"}
    BY <1>2 DEF Upgrade, Arrives, UpgradeRejected, UpgradeFailed, Load, Find, Create, RmLoad, RmClose,
                Leave, OnDisconnect, Close, tableVars
  <2>2. \A g \in Handlers \ {h} : dc'[g] = dc[g] /\ pc'[g] = pc[g]
    BY <1>2 DEF TypeOK, Upgrade, Arrives, UpgradeRejected, UpgradeFailed, Load, Find, Create, RmLoad, RmClose,
                Leave, OnDisconnect, Close, Goto, localVars
  <2> QED
    BY <1>1, <2>1, <2>2, MindedStays DEF Empty
<1>3. ASSUME NEW h \in Handlers, Store(h) PROVE Minded(u, x)'
  <2>1. /\ pc[h] = "store" /\ pc' = [pc EXCEPT ![h] = "add"] /\ UNCHANGED <<devs, cleared>>
        /\ \A g \in Handlers \ {h} : dc'[g] = dc[g] /\ pc'[g] = pc[g]
    BY <1>3 DEF Store, Goto, TypeOK
  <2>2. /\ u = User(h) => x = dc'[h]
        /\ u # User(h) => x = conns[u]
    <3>1. CASE conns[User(h)] = None
      BY <1>3, <3>1 DEF Store, TypeOK
    <3>2. CASE conns[User(h)] # None
      BY <1>3, <3>2 DEF Store, TypeOK
    <3> QED
      BY <3>1, <3>2
  <2>3. CASE u = User(h)
    <3>1. pc'[h] = "add"
      BY <2>1 DEF TypeOK
    <3> QED
      BY <2>2, <2>3, <3>1 DEF Minded
  <2>4. CASE u # User(h)
    BY <1>1, <2>1, <2>2, <2>4, MindedStays DEF Empty
  <2> QED
    BY <2>3, <2>4
<1>4. ASSUME NEW h \in Handlers, Add(h) PROVE Minded(u, x)'
  <2>1. PICK y \in Handlers : y = dc[h]
    BY <1>4 DEF Add, TypeOK
  <2>2. /\ Dev(h) \in Devices /\ h # None /\ pc[h] = "add" /\ UNCHANGED <<conns, cleared>>
        /\ devs' = [devs EXCEPT ![y][Dev(h)] = h]
        /\ \A g \in Handlers \ {h} : dc'[g] = dc[g] /\ pc'[g] = pc[g]
    BY <1>4, <2>1, ManagerAssumption DEF Add, Goto, TypeOK, Dev
  <2>3. CASE x = y
    <3>1. devs'[y][Dev(h)] = h
      BY <2>1, <2>2 DEF TypeOK
    <3> QED
      BY <2>2, <2>3, <3>1 DEF Minded, Empty
  <2>4. CASE x # y
    <3>1. devs'[x] = devs[x]
      BY <1>1, <2>1, <2>2, <2>4 DEF TypeOK
    <3> QED
      BY <1>1, <2>1, <2>2, <2>4, <3>1, MindedStays DEF Empty
  <2> QED
    BY <2>3, <2>4
<1>5. ASSUME NEW h \in Handlers, RmTake(h) PROVE Minded(u, x)'
  <2>1. UNCHANGED <<conns, cleared>> /\ pc[h] = "rmTake"
    BY <1>5 DEF RmTake
  <2>2. CASE devs[dc[h]][Dev(h)] = None
    <3>1. /\ UNCHANGED devs
          /\ \A g \in Handlers \ {h} : dc'[g] = dc[g] /\ pc'[g] = pc[g]
      BY <1>5, <2>2, RmTakeFindsNothing DEF TypeOK
    <3> QED
      BY <1>1, <2>1, <3>1, MindedStays DEF Empty
  <2>3. CASE devs[dc[h]][Dev(h)] # None
    <3>1. PICK y \in Handlers : y = dc[h]
      BY <1>5, <2>3, RmTakeTakes
    <3>2. /\ devs' = [devs EXCEPT ![y][Dev(h)] = None] /\ dc' = dc /\ pc' = [pc EXCEPT ![h] = "rmLen"]
      BY <1>5, <2>3, <3>1, RmTakeTakes
    <3>3. CASE x = y
      <4>1. dc'[h] = x /\ pc'[h] = "rmLen"
        BY <3>1, <3>2, <3>3 DEF TypeOK
      <4> QED
        BY <4>1 DEF Minded
    <3>4. CASE x # y
      <4>1. devs'[x] = devs[x] /\ \A g \in Handlers \ {h} : dc'[g] = dc[g] /\ pc'[g] = pc[g]
        BY <1>1, <2>1, <3>2, <3>4 DEF TypeOK
      <4> QED
        BY <1>1, <2>1, <4>1, MindedStays DEF Empty
    <3> QED
      BY <3>3, <3>4
  <2> QED
    BY <2>2, <2>3
<1>6. ASSUME NEW h \in Handlers, RmLen(h) PROVE Minded(u, x)'
  <2>1. /\ pc[h] = "rmLen" /\ UNCHANGED <<conns, devs, cleared>>
        /\ pc' = [pc EXCEPT ![h] = IF Empty(dc[h]) THEN "rmDelete" ELSE "rmClose"]
        /\ \A g \in Handlers \ {h} : dc'[g] = dc[g] /\ pc'[g] = pc[g]
    BY <1>6 DEF RmLen, Goto, TypeOK, tableVars
  <2>2. CASE dc[h] = x /\ Empty(x)
    <3>1. pc'[h] = "rmDelete"
      BY <2>1, <2>2 DEF TypeOK
    <3>2. User(h) = u
      BY <1>1, <2>1, <2>2 DEF OwnUser
    <3> QED
      BY <3>1, <3>2 DEF Minded, User
  <2>3. CASE ~Empty(x)
    BY <2>1, <2>3 DEF Minded, Empty
  <2>4. CASE dc[h] # x
    BY <1>1, <2>1, <2>4, MindedStays DEF Empty
  <2> QED
    BY <2>2, <2>3, <2>4
<1>7. ASSUME NEW h \in Handlers, RmDelete(h) PROVE Minded(u, x)'
  <2>1. /\ pc[h] = "rmDelete" /\ conns' = [conns EXCEPT ![User(h)] = None]
        /\ UNCHANGED <<devs, dc, cleared>> /\ \A g \in Handlers \ {h} : pc'[g] = pc[g]
    BY <1>7 DEF RmDelete, Goto, TypeOK, localVars
  <2>2. u # User(h) /\ x = conns[u]
    BY <2>1 DEF TypeOK
  <2>3. Minded(u, x)
    BY <1>1, <2>1, <2>2
  <2> QED
    BY <2>1, <2>2, <2>3 DEF Minded, Empty, User
<1>8. ASSUME NEW v \in Users, RemoveUserConn(v) PROVE Minded(u, x)'
  <2>1. /\ conns[v] \in Handlers /\ UNCHANGED <<conns, dc, pc>> /\ cleared' = cleared \cup {v}
        /\ devs' = [devs EXCEPT ![conns[v]] = [d \in Devices |-> None]]
    BY <1>8 DEF RemoveUserConn, localVars, TypeOK
  <2>2. u # v /\ conns[v] # x
    BY <1>1, <2>1, ManagerAssumption DEF OwnUser
  <2>3. devs'[x] = devs[x]
    BY <1>1, <2>1, <2>2 DEF TypeOK
  <2> QED
    BY <1>1, <2>1, <2>3, MindedStays DEF Empty
<1>9. ASSUME UNCHANGED <<conns, devs, dc, pc, cleared>> PROVE Minded(u, x)'
  BY <1>1, <1>9, MindedStays DEF Empty
<1>10. ASSUME NEW h \in Handlers, Cancel(h) \/ Destroy(h) \/ DestroyFailed(h)
       PROVE  UNCHANGED <<conns, devs, dc, pc, cleared>>
  BY <1>10 DEF Cancel, Destroy, DestroyFailed, tableVars, localVars
<1>11. ASSUME UNCHANGED vars PROVE UNCHANGED <<conns, devs, dc, pc, cleared>>
  BY <1>11 DEF vars, tableVars, localVars
<1> QED
  BY <1>2, <1>3, <1>4, <1>5, <1>6, <1>7, <1>8, <1>9, <1>10, <1>11 DEF Next, Step

\* No lookup finds the connection of a handler that has finished.
LEMMA IndInvNoDeadEntry == IndInv => NoDeadEntry
<1> SUFFICES ASSUME IndInv, NEW u \in Users, NEW d \in Devices,
                    FindConn(u, d) # None, pc[FindConn(u, d)] = "done"
             PROVE  FALSE
  BY DEF NoDeadEntry, FindUserConn
<1> DEFINE y == conns[u]
           h == devs[y][d]
<1>1. y \in Handlers /\ h = FindConn(u, d) /\ h \in Handlers /\ h # None
  BY DEF FindConn, IndInv, TypeOK
<1>2. User(h) = u
  BY <1>1, ManagerAssumption DEF IndInv, Isolation, OwnUser, User
<1>3. Cleaned(h)
  BY <1>1 DEF Cleaned
<1> QED
  BY <1>1, <1>2, <1>3 DEF IndInv, CleanupOK

\* The table keeps its type, and no step of RemoveConn or NewConn dereferences a nil
\* DeviceConns or connection.
THEOREM TypeCorrect == Spec => []TypeOK
<1>1. IndInv => TypeOK
  BY DEF IndInv
<1> QED
  BY InitIndInv, NextIndInv, <1>1, PTL DEF Spec

\* Connections of different users or devices never mix, for any number of handlers
\* in any interleaving, stale DeviceConns included.
THEOREM Isolated == Spec => []Isolation
<1>1. IndInv => Isolation
  BY DEF IndInv
<1> QED
  BY InitIndInv, NextIndInv, <1>1, PTL DEF Spec

\* Once a handler has finished, no lookup finds its connection.
THEOREM NoDead == Spec => []NoDeadEntry
  BY InitIndInv, NextIndInv, IndInvNoDeadEntry, PTL DEF Spec

\* A session in Redis always has a handler that will destroy it, unless a failed
\* call left it there, for any number of connections that share its key.
THEOREM SessionsOwned == Spec => []NoSessionLeak
<1>1. Init => TypeOK /\ IdleFresh /\ NoSessionLeak
  BY InitIndInv DEF IndInv, Init, IdleFresh, NoSessionLeak
<1>2. TypeOK /\ IdleFresh /\ NoSessionLeak /\ [Next]_vars => TypeOK' /\ IdleFresh' /\ NoSessionLeak'
  BY NextTypeOK, NextSessions
<1> QED
  BY <1>1, <1>2, PTL DEF Spec

\* When no handler is running the map is empty, but for what RemoveUserConn
\* emptied, for any number of handlers, users and devices.
THEOREM NoneLeft == Spec => []NoTableLeak
<1>1. Init => AllMinded
  BY DEF Init, AllMinded
<1>2. IndInv /\ AllMinded /\ [Next]_vars => AllMinded'
  BY NextAllMinded DEF IndInv
<1>3. IndInv /\ AllMinded => NoTableLeak
  <2> SUFFICES ASSUME IndInv, AllMinded, AllDone, NEW u \in Users \ cleared, conns[u] # None
               PROVE  FALSE
    BY DEF NoTableLeak
  <2>1. Minded(u, conns[u])
    BY DEF AllMinded
  <2>2. ~Empty(conns[u])
    BY <2>1 DEF Minded, AllDone
  <2>3. PICK d \in Devices : devs[conns[u]][d] # None
    BY <2>2 DEF Empty
  <2>4. FindConn(u, d) \in FindUserConn(u) /\ FindConn(u, d) \in Handlers
    BY <2>3 DEF FindConn, FindUserConn, IndInv, TypeOK
  <2>5. Added(FindConn(u, d))
    BY <2>3, <2>4 DEF FindConn, IndInv, TypeOK, MadeBefore
  <2>6. pc[FindConn(u, d)] # "idle"
    BY <2>4, <2>5 DEF Added, Stored, IndInv, PhaseOK
  <2> QED
    BY <2>4, <2>6, IndInvNoDeadEntry DEF NoDeadEntry, AllDone
<1> QED
  BY InitIndInv, NextIndInv, <1>1, <1>2, <1>3, PTL DEF Spec
===============================================================================
