--------------------------- MODULE RetransmitProofs ---------------------------
(***************************************************************************)
(* The bounds on retransmissions and the exact counter, for any number of  *)
(* tasks, keys and stoppers and every maxRetryCnt.                         *)
(*                                                                         *)
(* RetransmitBound alone is not inductive: a push is harmless only because *)
(* the run counted it first and found the count below the limit, and a     *)
(* run begins with a count below the limit only because a task that        *)
(* has reached it has no timer left.                                       *)
(***************************************************************************)
EXTENDS Retransmit, FiniteSetTheorems, TLAPS

\* A task whose start has not armed the timer has done nothing.
Fresh(t) ==
    start[t] \in {"idle", "store", "arm"} => cnt[t] = 0 /\ run[t] = "idle" /\ ~armed[t]

\* A timer is armed only below the limit, and not during the run it triggered.
TimerOK(t) ==
    /\ armed[t] => cnt[t] < MaxRetryCnt
    /\ run[t] \in {"check", "push", "rearm"} => cnt[t] < MaxRetryCnt
    /\ run[t] \in {"check", "push", "rearm", "giveUp"} => ~armed[t]

\* A push is counted before it is made.
Counted(t) ==
    /\ sent[t] <= cnt[t]
    /\ sent[t] < MaxRetryCnt
    /\ run[t] = "push" => sent[t] < cnt[t]

TaskInv == \A t \in Tasks : Fresh(t) /\ TimerOK(t) /\ Counted(t)

IndInv == TypeOK /\ TaskInv

\* A run gives up when it is the last of its task: until stopAndDelete has discounted
\* what it took out there is neither a run nor a timer to begin another one.
GivenUp(t) ==
    /\ run[t] # "idle" => start[t] = "done"
    /\ victim[t] # None => start[t] = "done" /\ run[t] = "idle" /\ ~armed[t]

\* The calls of start that have got past LoadOrStore or returned.
Started == {t \in Tasks : start[t] \notin {"idle", "store"}}

\* Only finitely many calls have been made, also where Tasks or Keys is infinite.
FiniteCalls ==
    /\ IsFiniteSet(Started) /\ IsFiniteSet(Uncounted)
    /\ IsFiniteSet(Present) /\ IsFiniteSet(Undiscounted)

TotalInv == (\A t \in Tasks : GivenUp(t)) /\ FiniteCalls /\ TotalExact

\* After a late push the key is out of the map still, and no run of the task gets past its
\* check to another push.
LateOK(t) == late[t] > 0 => late[t] = 1 /\ Stopped(t) /\ run[t] # "push"

LateInv == \A t \in Tasks : LateOK(t)

\* NewManager establishes the inductive invariant.
LEMMA InitIndInv == Init => IndInv
<1> SUFFICES ASSUME Init PROVE IndInv
  OBVIOUS
<1>1. TypeOK
  <2>1. closed \in BOOLEAN /\ armed \in [Tasks -> BOOLEAN] /\ ptr \in [Tasks -> BOOLEAN]
    BY Zenon DEF Init
  <2> QED
    BY <2>1, RetransmitAssumption DEF Init, TypeOK, SentCap, LateCap
<1>2. TaskInv
  BY RetransmitAssumption DEF Init, TaskInv, Fresh, TimerOK, Counted
<1> QED
  BY <1>1, <1>2 DEF IndInv

\* Every step keeps the types.
LEMMA NextTypeOK == TypeOK /\ TaskInv /\ [Next]_vars => TypeOK'
<1> SUFFICES ASSUME TypeOK, TaskInv, [Next]_vars PROVE TypeOK'
  OBVIOUS
<1> USE RetransmitAssumption DEF TypeOK
<1>1. ASSUME NEW t \in Tasks, StartCheck(t) PROVE TypeOK'
  BY <1>1 DEF StartCheck, StartTo, timerVars, histVars
<1>2. ASSUME NEW t \in Tasks, StartStore(t) PROVE TypeOK'
  BY <1>2 DEF StartStore, StartTo, timerVars, LateCap
<1>3. ASSUME NEW t \in Tasks, StartArm(t) PROVE TypeOK'
  BY <1>3 DEF StartArm, StartTo, histVars
<1>4. ASSUME NEW t \in Tasks, StartCount(t) PROVE TypeOK'
  BY <1>4 DEF StartCount, StartTo, histVars
<1>5. ASSUME NEW t \in Tasks, Fire(t) PROVE TypeOK'
  BY <1>5 DEF Fire, RunTo, histVars
<1>6. ASSUME NEW t \in Tasks, RunCheck(t) PROVE TypeOK'
  BY <1>6 DEF RunCheck, RunTo, Stopped, LimitReached, timerVars, histVars, TaskInv, TimerOK
<1>7. ASSUME NEW t \in Tasks, PushOK(t) PROVE TypeOK'
  BY <1>7 DEF PushOK, RunTo, Bump, SentCap, LateCap, timerVars
<1>8. ASSUME NEW t \in Tasks, PushFailed(t) PROVE TypeOK'
  BY <1>8 DEF PushFailed, RunTo, timerVars, histVars
<1>9. ASSUME NEW t \in Tasks, Rearm(t) PROVE TypeOK'
  BY <1>9 DEF Rearm, RunTo, histVars
<1>10. ASSUME NEW t \in Tasks, SetPtr(t) PROVE TypeOK'
  BY <1>10 DEF SetPtr, RunTo, histVars
<1>11. ASSUME NEW t \in Tasks, GiveUp(t) PROVE TypeOK'
  BY <1>11 DEF GiveUp, TakeOut, RunTo, timerVars, histVars, Actors
<1>12. ASSUME NEW a \in Actors, StopTask(a) PROVE TypeOK'
  BY <1>12 DEF StopTask, histVars
<1>13. ASSUME NEW s \in Stoppers, NEW k \in Keys, Visit(s, k) PROVE TypeOK'
  BY <1>13 DEF Visit, TakeOut, timerVars, histVars, Actors
<1>14. ASSUME NEW s \in Stoppers, NEW k \in Keys, Stop(s, k) PROVE TypeOK'
  BY <1>14 DEF Stop, timerVars, histVars
<1>15. ASSUME NEW s \in Stoppers, NEW c \in Conns, ClearByConn(s, c) PROVE TypeOK'
  BY <1>15 DEF ClearByConn, RangeOver, Present, timerVars, histVars
<1>16. ASSUME NEW s \in Stoppers, Close(s) PROVE TypeOK'
  BY <1>16 DEF Close, RangeOver, Present, timerVars, histVars
<1>17. CASE UNCHANGED vars
  BY <1>17 DEF vars, timerVars, histVars
<1> QED
  BY <1>1, <1>2, <1>3, <1>4, <1>5, <1>6, <1>7, <1>8, <1>9, <1>10, <1>11, <1>12, <1>13, <1>14,
     <1>15, <1>16, <1>17
  DEF Next, StartStep, RunStep, VisitStep

\* Every step keeps the bounds of every task.
LEMMA NextTaskInv == TypeOK /\ TaskInv /\ [Next]_vars => TaskInv'
<1> SUFFICES ASSUME TypeOK, TaskInv, [Next]_vars, NEW u \in Tasks
             PROVE  Fresh(u)' /\ TimerOK(u)' /\ Counted(u)'
  BY DEF TaskInv
<1>0. Fresh(u) /\ TimerOK(u) /\ Counted(u)
  BY DEF TaskInv
<1> USE RetransmitAssumption, <1>0 DEF TypeOK, Fresh, TimerOK, Counted
<1>1. ASSUME NEW t \in Tasks, StartCheck(t) PROVE Fresh(u)' /\ TimerOK(u)' /\ Counted(u)'
  BY <1>1 DEF StartCheck, StartTo, timerVars, histVars
<1>2. ASSUME NEW t \in Tasks, StartStore(t) PROVE Fresh(u)' /\ TimerOK(u)' /\ Counted(u)'
  BY <1>2 DEF StartStore, StartTo, timerVars, histVars
<1>3. ASSUME NEW t \in Tasks, StartArm(t) PROVE Fresh(u)' /\ TimerOK(u)' /\ Counted(u)'
  BY <1>3 DEF StartArm, StartTo, histVars
<1>4. ASSUME NEW t \in Tasks, StartCount(t) PROVE Fresh(u)' /\ TimerOK(u)' /\ Counted(u)'
  BY <1>4 DEF StartCount, StartTo, histVars
<1>5. ASSUME NEW t \in Tasks, Fire(t) PROVE Fresh(u)' /\ TimerOK(u)' /\ Counted(u)'
  BY <1>5 DEF Fire, RunTo, histVars
<1>6. ASSUME NEW t \in Tasks, RunCheck(t) PROVE Fresh(u)' /\ TimerOK(u)' /\ Counted(u)'
  BY <1>6 DEF RunCheck, RunTo, Stopped, LimitReached, timerVars, histVars
<1>7. ASSUME NEW t \in Tasks, PushOK(t) PROVE Fresh(u)' /\ TimerOK(u)' /\ Counted(u)'
  BY <1>7 DEF PushOK, RunTo, Bump, SentCap, timerVars
<1>8. ASSUME NEW t \in Tasks, PushFailed(t) PROVE Fresh(u)' /\ TimerOK(u)' /\ Counted(u)'
  BY <1>8 DEF PushFailed, RunTo, timerVars, histVars
<1>9. ASSUME NEW t \in Tasks, Rearm(t) PROVE Fresh(u)' /\ TimerOK(u)' /\ Counted(u)'
  BY <1>9 DEF Rearm, RunTo, histVars
<1>10. ASSUME NEW t \in Tasks, SetPtr(t) PROVE Fresh(u)' /\ TimerOK(u)' /\ Counted(u)'
  BY <1>10 DEF SetPtr, RunTo, histVars
<1>11. ASSUME NEW t \in Tasks, GiveUp(t) PROVE Fresh(u)' /\ TimerOK(u)' /\ Counted(u)'
  BY <1>11 DEF GiveUp, RunTo, timerVars, histVars
<1>12. ASSUME NEW a \in Actors, StopTask(a) PROVE Fresh(u)' /\ TimerOK(u)' /\ Counted(u)'
  BY <1>12 DEF StopTask, histVars
<1>13. CASE /\ UNCHANGED <<start, run, armed, cnt, sent>>
  BY <1>13
<1>14. ASSUME NEW s \in Stoppers, VisitStep(s) \/ Close(s)
                                  \/ (\E k \in Keys : Stop(s, k))
                                  \/ (\E c \in Conns : ClearByConn(s, c))
       PROVE  UNCHANGED <<start, run, armed, cnt, sent>>
  BY <1>14 DEF VisitStep, Visit, Close, Stop, ClearByConn, timerVars, histVars
<1>15. CASE UNCHANGED vars
  BY <1>13, <1>15 DEF vars, timerVars, histVars
<1> HIDE <1>0
<1> HIDE DEF TypeOK, Fresh, TimerOK, Counted
<1> QED
  BY <1>1, <1>2, <1>3, <1>4, <1>5, <1>6, <1>7, <1>8, <1>9, <1>10, <1>11, <1>12, <1>13, <1>14,
     <1>15
  DEF Next, StartStep, RunStep

\* The two together are inductive.
LEMMA NextIndInv == IndInv /\ [Next]_vars => IndInv'
  BY NextTypeOK, NextTaskInv DEF IndInv

\* The manager's state keeps its type: in particular a key holds only tasks of
\* that key, and no counter passes maxRetryCnt.
THEOREM TypeCorrect == Spec => []TypeOK
<1>1. IndInv => TypeOK
  BY DEF IndInv
<1> QED
  BY InitIndInv, NextIndInv, <1>1, PTL DEF Spec

\* However start, Stop, ClearByConn, Close and the timers of any number of tasks
\* interleave, no task pushes its message again more than maxRetryCnt times.
THEOREM Bounded == Spec => []RetransmitBound
<1>1. IndInv => RetransmitBound
  BY RetransmitAssumption DEF IndInv, TypeOK, SentCap, TaskInv, Counted, RetransmitBound
<1> QED
  BY InitIndInv, NextIndInv, <1>1, PTL DEF Spec

(***************************************************************************)
(* The counter.                                                            *)
(***************************************************************************)
\* A run that gives up is the last of its task.
LEMMA NextGivenUp ==
    ASSUME TypeOK, TaskInv, \A t \in Tasks : GivenUp(t), [Next]_vars, NEW u \in Tasks
    PROVE  GivenUp(u)'
<1>0. GivenUp(u) /\ Fresh(u) /\ TimerOK(u)
  BY DEF TaskInv
<1> USE RetransmitAssumption, <1>0 DEF TypeOK, Fresh, TimerOK, GivenUp, Actors
<1>1. ASSUME NEW t \in Tasks, StartCheck(t) PROVE GivenUp(u)'
  BY <1>1 DEF StartCheck, StartTo, timerVars, histVars
<1>2. ASSUME NEW t \in Tasks, StartStore(t) PROVE GivenUp(u)'
  BY <1>2 DEF StartStore, StartTo, timerVars, histVars
<1>3. ASSUME NEW t \in Tasks, StartArm(t) PROVE GivenUp(u)'
  BY <1>3 DEF StartArm, StartTo, histVars
<1>4. ASSUME NEW t \in Tasks, StartCount(t) PROVE GivenUp(u)'
  BY <1>4 DEF StartCount, StartTo, histVars
<1>5. ASSUME NEW t \in Tasks, Fire(t) PROVE GivenUp(u)'
  BY <1>5 DEF Fire, RunTo, histVars
<1>6. ASSUME NEW t \in Tasks, RunCheck(t) PROVE GivenUp(u)'
  BY <1>6 DEF RunCheck, RunTo, Stopped, LimitReached, timerVars, histVars
<1>7. ASSUME NEW t \in Tasks, PushOK(t) PROVE GivenUp(u)'
  BY <1>7 DEF PushOK, RunTo, timerVars
<1>8. ASSUME NEW t \in Tasks, PushFailed(t) PROVE GivenUp(u)'
  BY <1>8 DEF PushFailed, RunTo, timerVars, histVars
<1>9. ASSUME NEW t \in Tasks, Rearm(t) PROVE GivenUp(u)'
  BY <1>9 DEF Rearm, RunTo, histVars
<1>10. ASSUME NEW t \in Tasks, SetPtr(t) PROVE GivenUp(u)'
  BY <1>10 DEF SetPtr, RunTo, histVars
<1>11. ASSUME NEW t \in Tasks, GiveUp(t) PROVE GivenUp(u)'
  BY <1>11 DEF GiveUp, TakeOut, RunTo, timerVars, histVars
<1>12. ASSUME NEW a \in Actors, StopTask(a) PROVE GivenUp(u)'
  BY <1>12 DEF StopTask, histVars
<1>13. ASSUME NEW s \in Stoppers, NEW k \in Keys, Visit(s, k) PROVE GivenUp(u)'
  BY <1>13 DEF Visit, TakeOut, timerVars, histVars
<1>14. ASSUME NEW s \in Stoppers, Close(s) \/ (\E k \in Keys : Stop(s, k))
                                  \/ (\E c \in Conns : ClearByConn(s, c))
       PROVE  GivenUp(u)'
  BY <1>14 DEF Close, Stop, ClearByConn, timerVars, histVars
<1>15. CASE UNCHANGED vars
  BY <1>15 DEF vars, timerVars, histVars
<1> HIDE <1>0
<1> HIDE DEF TypeOK, Fresh, TimerOK, GivenUp, Actors
<1> QED
  BY <1>1, <1>2, <1>3, <1>4, <1>5, <1>6, <1>7, <1>8, <1>9, <1>10, <1>11, <1>12, <1>13,
     <1>14, <1>15
  DEF Next, StartStep, RunStep, VisitStep

\* LoadAndDelete moves a task from the map to the party that will discount it.
LEMMA TakeOutExact ==
    ASSUME TypeOK, FiniteCalls, TotalExact, NEW a \in Actors, NEW k \in Keys, victim[a] = None,
           TakeOut(a, k), UNCHANGED <<start, total>>
    PROVE  FiniteCalls' /\ TotalExact'
<1>1. Started' = Started /\ Uncounted' = Uncounted
  BY DEF Started, Uncounted
<1>2. CASE tasks[k] = None
  <2>1. Present' = Present /\ Undiscounted' = Undiscounted
    BY <1>2 DEF TakeOut, TypeOK, Present, Undiscounted
  <2> QED
    BY <1>1, <2>1 DEF FiniteCalls, TotalExact
<1>3. CASE tasks[k] # None
  <2>1. Present' = Present \ {k} /\ k \in Present
    BY <1>3 DEF TakeOut, TypeOK, Present
  <2>2. Undiscounted' = Undiscounted \cup {a} /\ a \notin Undiscounted
    BY <1>3 DEF TakeOut, TypeOK, Undiscounted
  <2>3. IsFiniteSet(Present') /\ Cardinality(Present') = Cardinality(Present) - 1
    BY <2>1, FS_RemoveElement DEF FiniteCalls
  <2>4. IsFiniteSet(Undiscounted') /\ Cardinality(Undiscounted') = Cardinality(Undiscounted) + 1
    BY <2>2, FS_AddElement DEF FiniteCalls
  <2>5. Cardinality(Present) \in Nat /\ Cardinality(Undiscounted) \in Nat /\ Cardinality(Uncounted) \in Nat
    BY FS_CardinalityType DEF FiniteCalls
  <2>6. FiniteCalls'
    BY <1>1, <2>3, <2>4 DEF FiniteCalls
  <2>7. TotalExact'
    BY <1>1, <2>3, <2>4, <2>5 DEF TotalExact, TypeOK
  <2> QED
    BY <2>6, <2>7
<1> QED
  BY <1>2, <1>3

\* Every other step that counts changes the counter with one of the two sets, or both sets.
LEMMA NextTotal ==
    ASSUME TypeOK, \A t \in Tasks : GivenUp(t), FiniteCalls, TotalExact, [Next]_vars
    PROVE  FiniteCalls' /\ TotalExact'
<1>0. /\ Cardinality(Present) \in Nat /\ Cardinality(Undiscounted) \in Nat
      /\ Cardinality(Uncounted) \in Nat /\ total \in Int
  BY FS_CardinalityType DEF FiniteCalls, TypeOK
<1>1. ASSUME NEW t \in Tasks, StartCheck(t) PROVE FiniteCalls' /\ TotalExact'
  <2>1. Uncounted' = Uncounted /\ Present' = Present /\ Undiscounted' = Undiscounted /\ total' = total
    BY <1>1 DEF StartCheck, StartTo, TypeOK, Uncounted, Present, Undiscounted
  <2>2. Started' = Started \/ Started' = Started \cup {t}
    <3>1. start' = [start EXCEPT ![t] = "done"] \/ start' = [start EXCEPT ![t] = "store"]
      BY <1>1 DEF StartCheck, StartTo
    <3> QED
      BY <1>1, <3>1 DEF StartCheck, TypeOK, Started
  <2>3. IsFiniteSet(Started')
    BY <2>2, FS_AddElement DEF FiniteCalls
  <2> QED
    BY <2>1, <2>3 DEF FiniteCalls, TotalExact
<1>2. ASSUME NEW t \in Tasks, StartStore(t) PROVE FiniteCalls' /\ TotalExact'
  <2>1. Undiscounted' = Undiscounted /\ total' = total /\ Started' = Started \cup {t}
    BY <1>2 DEF StartStore, StartTo, TypeOK, Undiscounted, Started
  <2>2. IsFiniteSet(Started')
    BY <2>1, FS_AddElement DEF FiniteCalls
  <2>3. CASE tasks[KeyOf[t]] = None
    <3>1. KeyOf[t] \in Keys /\ t # None
      BY RetransmitAssumption
    <3>2. Present' = Present \cup {KeyOf[t]} /\ KeyOf[t] \notin Present
      BY <1>2, <2>3, <3>1 DEF StartStore, TypeOK, Present
    <3>3. Uncounted' = Uncounted \cup {t} /\ t \notin Uncounted
      BY <1>2, <2>3 DEF StartStore, StartTo, TypeOK, Uncounted
    <3>4. IsFiniteSet(Present') /\ Cardinality(Present') = Cardinality(Present) + 1
      BY <3>2, FS_AddElement DEF FiniteCalls
    <3>5. IsFiniteSet(Uncounted') /\ Cardinality(Uncounted') = Cardinality(Uncounted) + 1
      BY <3>3, FS_AddElement DEF FiniteCalls
    <3>6. FiniteCalls'
      BY <2>1, <2>2, <3>4, <3>5 DEF FiniteCalls
    <3>7. TotalExact'
      BY <1>0, <2>1, <3>4, <3>5 DEF TotalExact
    <3> QED
      BY <3>6, <3>7
  <2>4. CASE tasks[KeyOf[t]] # None
    <3>1. Present' = Present /\ Uncounted' = Uncounted
      BY <1>2, <2>4 DEF StartStore, StartTo, TypeOK, Present, Uncounted
    <3> QED
      BY <2>1, <2>2, <3>1 DEF FiniteCalls, TotalExact
  <2> QED
    BY <2>3, <2>4
<1>3. ASSUME NEW t \in Tasks, StartArm(t) PROVE FiniteCalls' /\ TotalExact'
  <2>1. /\ Started' = Started /\ Uncounted' = Uncounted /\ Present' = Present
        /\ Undiscounted' = Undiscounted /\ total' = total
    BY <1>3 DEF StartArm, StartTo, TypeOK, Started, Uncounted, Present, Undiscounted
  <2> QED
    BY <2>1 DEF FiniteCalls, TotalExact
<1>4. ASSUME NEW t \in Tasks, StartCount(t) PROVE FiniteCalls' /\ TotalExact'
  <2>1. /\ Started' = Started /\ Present' = Present /\ Undiscounted' = Undiscounted
        /\ total' = total + 1 /\ Uncounted' = Uncounted \ {t} /\ t \in Uncounted
    BY <1>4 DEF StartCount, StartTo, TypeOK, Started, Uncounted, Present, Undiscounted
  <2>2. IsFiniteSet(Uncounted') /\ Cardinality(Uncounted') = Cardinality(Uncounted) - 1
    BY <2>1, FS_RemoveElement DEF FiniteCalls
  <2>3. FiniteCalls'
    BY <2>1, <2>2 DEF FiniteCalls
  <2>4. TotalExact'
    BY <1>0, <2>1, <2>2 DEF TotalExact
  <2> QED
    BY <2>3, <2>4
<1>5. ASSUME NEW t \in Tasks, GiveUp(t) PROVE FiniteCalls' /\ TotalExact'
  <2>1. t \in Actors /\ KeyOf[t] \in Keys /\ victim[t] = None
    BY <1>5, RetransmitAssumption DEF GiveUp, GivenUp, Actors
  <2> QED
    BY <1>5, <2>1, TakeOutExact DEF GiveUp
<1>6. ASSUME NEW s \in Stoppers, NEW k \in Keys, Visit(s, k) PROVE FiniteCalls' /\ TotalExact'
  <2>1. s \in Actors
    BY DEF Actors
  <2> QED
    BY <1>6, <2>1, TakeOutExact DEF Visit
<1>7. ASSUME NEW a \in Actors, StopTask(a) PROVE FiniteCalls' /\ TotalExact'
  <2>1. /\ Started' = Started /\ Uncounted' = Uncounted /\ Present' = Present /\ total' = total - 1
        /\ Undiscounted' = Undiscounted \ {a} /\ a \in Undiscounted
    BY <1>7 DEF StopTask, TypeOK, Started, Uncounted, Present, Undiscounted
  <2>2. IsFiniteSet(Undiscounted') /\ Cardinality(Undiscounted') = Cardinality(Undiscounted) - 1
    BY <2>1, FS_RemoveElement DEF FiniteCalls
  <2>3. FiniteCalls'
    BY <2>1, <2>2 DEF FiniteCalls
  <2>4. TotalExact'
    BY <1>0, <2>1, <2>2 DEF TotalExact
  <2> QED
    BY <2>3, <2>4
<1>8. ASSUME UNCHANGED <<tasks, total, start, victim>> PROVE FiniteCalls' /\ TotalExact'
  <2>1. /\ Started' = Started /\ Uncounted' = Uncounted /\ Present' = Present
        /\ Undiscounted' = Undiscounted
    BY <1>8 DEF Started, Uncounted, Present, Undiscounted
  <2> QED
    BY <1>8, <2>1 DEF FiniteCalls, TotalExact
<1>9. ASSUME NEW t \in Tasks, RunStep(t), ~GiveUp(t) PROVE UNCHANGED <<tasks, total, start, victim>>
  BY <1>9 DEF RunStep, Fire, RunCheck, PushOK, PushFailed, Rearm, SetPtr
<1>10. ASSUME NEW s \in Stoppers, Close(s) \/ (\E k \in Keys : Stop(s, k))
                                  \/ (\E c \in Conns : ClearByConn(s, c))
       PROVE  UNCHANGED <<tasks, total, start, victim>>
  BY <1>10 DEF Close, Stop, ClearByConn
<1>11. ASSUME UNCHANGED vars PROVE UNCHANGED <<tasks, total, start, victim>>
  BY <1>11 DEF vars
<1> QED
  BY <1>1, <1>2, <1>3, <1>4, <1>5, <1>6, <1>7, <1>8, <1>9, <1>10, <1>11
  DEF Next, StartStep, VisitStep

\* NewManager begins with nothing to count.
LEMMA InitTotalInv == Init => TotalInv
<1> SUFFICES ASSUME Init PROVE TotalInv
  OBVIOUS
<1>1. \A t \in Tasks : GivenUp(t)
  BY DEF Init, GivenUp, Actors
<1>2. Started = {} /\ Uncounted = {} /\ Present = {} /\ Undiscounted = {}
  BY DEF Init, Started, Uncounted, Present, Undiscounted
<1>3. FiniteCalls /\ TotalExact
  BY <1>2, FS_EmptySet DEF Init, FiniteCalls, TotalExact
<1> QED
  BY <1>1, <1>3 DEF TotalInv

LEMMA NextTotalInv == IndInv /\ TotalInv /\ [Next]_vars => TotalInv'
  BY NextGivenUp, NextTotal DEF IndInv, TotalInv

\* The counter is exact up to the operations in progress, for any number of calls.
THEOREM Exact == Spec => []TotalExact
<1>1. TotalInv => TotalExact
  BY DEF TotalInv
<1> QED
  BY InitIndInv, NextIndInv, InitTotalInv, NextTotalInv, <1>1, PTL DEF Spec

(***************************************************************************)
(* Late pushes.                                                            *)
(***************************************************************************)
\* A step that pushes nothing, puts no key into the map and lets no run of a stopped task
\* get to a push.
LEMMA CalmLate ==
    ASSUME NEW u \in Tasks, LateOK(u), late'[u] = late[u],
           ~Stopped(u)' => ~Stopped(u),
           run'[u] = "push" => run[u] = "push" \/ ~Stopped(u)
    PROVE  LateOK(u)'
  BY DEF LateOK

\* Every step keeps the account of the late pushes.
LEMMA NextLate ==
    ASSUME TypeOK, LateInv, [Next]_vars, NEW u \in Tasks
    PROVE  LateOK(u)'
<1>0. LateOK(u) /\ late[u] \in 0..2
  BY DEF LateInv, TypeOK, LateCap
<1>1. ASSUME UNCHANGED <<tasks, run, late>> PROVE LateOK(u)'
  BY <1>0, <1>1, CalmLate DEF Stopped
<1>2. ASSUME NEW t \in Tasks, StartStore(t) PROVE LateOK(u)'
  <2>1. CASE tasks[KeyOf[t]] # None
    BY <1>1, <1>2, <2>1 DEF StartStore
  <2>2. CASE tasks[KeyOf[t]] = None /\ KeyOf[u] = KeyOf[t]
    <3>1. late'[u] = 0
      BY <1>2, <2>2 DEF StartStore
    <3> QED
      BY <3>1 DEF LateOK
  <2>3. CASE tasks[KeyOf[t]] = None /\ KeyOf[u] # KeyOf[t]
    <3>1. late'[u] = late[u] /\ UNCHANGED run
      BY <1>2, <2>3 DEF StartStore
    <3>2. Stopped(u)' = Stopped(u)
      BY <1>2, <2>3, RetransmitAssumption DEF StartStore, Stopped, TypeOK
    <3> QED
      BY <1>0, <3>1, <3>2, CalmLate
  <2> QED
    BY <2>1, <2>2, <2>3
<1>3. ASSUME NEW t \in Tasks, PushOK(t) PROVE LateOK(u)'
  <2>1. /\ run[t] = "push" /\ UNCHANGED tasks /\ run' = [run EXCEPT ![t] = "rearm"]
        /\ late' = [late EXCEPT ![t] = IF tasks[KeyOf[t]] # None THEN @ ELSE Bump(@, LateCap)]
    BY <1>3 DEF PushOK, RunTo
  <2>2. /\ run \in [Tasks -> {"idle", "check", "push", "rearm", "setPtr", "giveUp"}]
        /\ late \in [Tasks -> 0..2]
    BY DEF TypeOK, LateCap
  <2>3. CASE t = u /\ Stopped(u)
    <3>1. late[u] = 0
      BY <1>0, <2>1, <2>3 DEF LateOK
    <3>2. run'[u] = "rearm" /\ late'[u] = 1
      BY <2>1, <2>2, <2>3, <3>1 DEF Stopped, Bump, LateCap
    <3>3. Stopped(u)'
      BY <2>1, <2>3 DEF Stopped
    <3> QED
      BY <3>2, <3>3 DEF LateOK
  <2>4. CASE ~(t = u /\ Stopped(u))
    <3>1. late'[u] = late[u] /\ (run'[u] = "push" => run[u] = "push")
      BY <2>1, <2>2, <2>4 DEF Stopped
    <3> QED
      BY <1>0, <2>1, <3>1, CalmLate DEF Stopped
  <2> QED
    BY <2>3, <2>4
<1>4. ASSUME NEW t \in Tasks, \/ Fire(t) \/ RunCheck(t) \/ PushFailed(t) \/ Rearm(t) \/ SetPtr(t)
                              \/ GiveUp(t)
      PROVE  LateOK(u)'
  <2>1. UNCHANGED late /\ (~Stopped(u)' => ~Stopped(u))
    <3>1. tasks' = tasks \/ tasks' = [tasks EXCEPT ![KeyOf[t]] = None]
      BY <1>4 DEF Fire, RunCheck, PushFailed, Rearm, SetPtr, GiveUp, TakeOut
    <3>2. KeyOf[u] \in Keys /\ tasks \in [Keys -> Tasks \cup {None}]
      BY RetransmitAssumption DEF TypeOK
    <3>3. ~Stopped(u)' => ~Stopped(u)
      BY <3>1, <3>2 DEF Stopped
    <3>4. UNCHANGED late
      BY <1>4 DEF Fire, RunCheck, PushFailed, Rearm, SetPtr, GiveUp, histVars
    <3> QED
      BY <3>3, <3>4
  <2>2. run'[u] = "push" => run[u] = "push" \/ ~Stopped(u)
    BY <1>4 DEF Fire, RunCheck, PushFailed, Rearm, SetPtr, GiveUp, RunTo, TypeOK
  <2> QED
    BY <1>0, <2>1, <2>2, CalmLate
<1>5. ASSUME NEW s \in Stoppers, NEW k \in Keys, Visit(s, k) PROVE LateOK(u)'
  <2>1. UNCHANGED <<run, late>> /\ (~Stopped(u)' => ~Stopped(u))
    BY <1>5 DEF Visit, TakeOut, histVars, Stopped, TypeOK
  <2> QED
    BY <1>0, <2>1, CalmLate
<1>6. ASSUME NEW t \in Tasks, StartCheck(t) \/ StartArm(t) \/ StartCount(t)
      PROVE  UNCHANGED <<tasks, run, late>>
  BY <1>6 DEF StartCheck, StartArm, StartCount, histVars
<1>7. ASSUME NEW a \in Actors, StopTask(a) PROVE UNCHANGED <<tasks, run, late>>
  BY <1>7 DEF StopTask, histVars
<1>8. ASSUME NEW s \in Stoppers, Close(s) \/ (\E k \in Keys : Stop(s, k))
                                  \/ (\E c \in Conns : ClearByConn(s, c))
      PROVE  UNCHANGED <<tasks, run, late>>
  BY <1>8 DEF Close, Stop, ClearByConn, histVars
<1>9. ASSUME UNCHANGED vars PROVE UNCHANGED <<tasks, run, late>>
  BY <1>9 DEF vars, histVars
<1> QED
  BY <1>1, <1>2, <1>3, <1>4, <1>5, <1>6, <1>7, <1>8, <1>9
  DEF Next, StartStep, RunStep, VisitStep

\* Every time the key of a message is taken out, each task of it pushes at most once more
\* before start stores the key again, for any number of tasks, keys and stoppers.
THEOREM FewLate == Spec => []LatePushesBounded
<1>1. Init => LateInv
  BY DEF Init, LateInv, LateOK
<1>2. IndInv /\ LateInv /\ [Next]_vars => LateInv'
  BY NextLate DEF IndInv, LateInv
<1>3. IndInv /\ LateInv => LatePushesBounded
  <2> SUFFICES ASSUME IndInv, LateInv, NEW t \in Tasks PROVE late[t] <= 1
    BY DEF LatePushesBounded
  <2>1. LateOK(t) /\ late[t] \in 0..2
    BY DEF LateInv, IndInv, TypeOK, LateCap
  <2> QED
    BY <2>1 DEF LateOK
<1> QED
  BY InitIndInv, NextIndInv, <1>1, <1>2, <1>3, PTL DEF Spec
===============================================================================
