------------------------------ MODULE Retransmit ------------------------------
(***************************************************************************)
(* The retransmission manager (internal/pkg/retransmit/manager.go).        *)
(*                                                                         *)
(* Every call of start allocates a Task, so a task t stands for that call  *)
(* too; the calls of taskFunc that its timer triggers are its runs.        *)
(* Stoppers are the goroutines that call Stop (a client's ack),            *)
(* ClearByConn and Close.  A step is one access to the concurrent map or   *)
(* to a timer; the change of totalTaskCnt, which no code but TotalTaskCnt  *)
(* reads, is part of the step that stores timerPtr or calls task.stop.     *)
(*                                                                         *)
(* time.AfterFunc arms a timer before its pointer is stored; a timer does  *)
(* not fire within those two statements (retryInterval is seconds).        *)
(***************************************************************************)
EXTENDS Integers, FiniteSets

CONSTANTS Tasks, Stoppers, Keys, Conns,
          KeyOf,          \* [Tasks -> Keys]: taskKey(conn.ID(), MessageId)
          ConnOf,         \* [Keys -> Conns]: the connection id in the key
          MaxRetryCnt,    \* m.maxRetryCnt
          None

ASSUME RetransmitAssumption ==
    /\ KeyOf \in [Tasks -> Keys]
    /\ ConnOf \in [Keys -> Conns]
    /\ MaxRetryCnt \in Nat \ {0}
    /\ Tasks \cap Stoppers = {}
    /\ None \notin Tasks

\* The parties that take a task out of the map: Stoppers, and runs that give up.
Actors == Tasks \cup Stoppers

VARIABLES tasks,     \* [Keys -> Tasks \cup {None}]: m.tasks
          total,     \* m.totalTaskCnt
          closed,    \* m.closed
          start,     \* [Tasks -> pc of start]
          run,       \* [Tasks -> pc of the task's run]
          armed,     \* [Tasks -> whether a timer of the task is running]
          ptr,       \* [Tasks -> whether timerPtr designates that timer]
          cnt,       \* [Tasks -> retransmitCnt]
          todo,      \* [Stoppers -> keys its call has still to visit]
          victim,    \* [Actors -> task taken out of the map, to be stopped]
          sent,      \* history: [Tasks -> successful pushes, up to SentCap]
          late       \* history: [Tasks -> pushes since its key was taken out of the map,
                     \* up to LateCap]

\* The histories saturate one above the bound that a property states.
SentCap == MaxRetryCnt + 1
LateCap == 2
Bump(n, cap) == IF n < cap THEN n + 1 ELSE n

timerVars == <<armed, ptr>>
histVars == <<sent, late>>
vars == <<tasks, total, closed, start, run, timerVars, cnt, todo, victim, histVars>>

Init ==
    /\ tasks = [k \in Keys |-> None]
    /\ total = 0
    /\ closed = FALSE
    /\ start = [t \in Tasks |-> "idle"]
    /\ run = [t \in Tasks |-> "idle"]
    /\ armed = [t \in Tasks |-> FALSE]
    /\ ptr = [t \in Tasks |-> FALSE]
    /\ cnt = [t \in Tasks |-> 0]
    /\ todo = [s \in Stoppers |-> {}]
    /\ victim = [a \in Actors |-> None]
    /\ sent = [t \in Tasks |-> 0]
    /\ late = [t \in Tasks |-> 0]

Present == {k \in Keys : tasks[k] # None}

StartTo(t, to) == start' = [start EXCEPT ![t] = to]
RunTo(t, to) == run' = [run EXCEPT ![t] = to]

(***************************************************************************)
(* start: the closed check, LoadOrStore, AfterFunc, timerPtr and total.    *)
(***************************************************************************)
StartCheck(t) ==
    /\ start[t] = "idle"
    /\ StartTo(t, IF closed THEN "done" ELSE "store")
    /\ UNCHANGED <<tasks, total, closed, run, timerVars, cnt, todo, victim, histVars>>

StartStore(t) ==
    /\ start[t] = "store"
    /\ IF tasks[KeyOf[t]] = None
       THEN /\ tasks' = [tasks EXCEPT ![KeyOf[t]] = t]
            /\ late' = [u \in Tasks |-> IF KeyOf[u] = KeyOf[t] THEN 0 ELSE late[u]]
            /\ StartTo(t, "arm")
       ELSE UNCHANGED <<tasks, late>> /\ StartTo(t, "done")
    /\ UNCHANGED <<total, closed, run, timerVars, cnt, todo, victim, sent>>

StartArm(t) ==
    /\ start[t] = "arm"
    /\ armed' = [armed EXCEPT ![t] = TRUE]
    /\ ptr' = [ptr EXCEPT ![t] = FALSE]
    /\ StartTo(t, "count")
    /\ UNCHANGED <<tasks, total, closed, run, cnt, todo, victim, histVars>>

StartCount(t) ==
    /\ start[t] = "count"
    /\ ptr' = [ptr EXCEPT ![t] = TRUE]
    /\ total' = total + 1
    /\ StartTo(t, "done")
    /\ UNCHANGED <<tasks, closed, run, armed, cnt, todo, victim, histVars>>

(***************************************************************************)
(* run: the timer's function.                                              *)
(***************************************************************************)
Fire(t) ==
    /\ armed[t] /\ run[t] = "idle" /\ start[t] # "count"
    /\ armed' = [armed EXCEPT ![t] = FALSE]
    /\ RunTo(t, "check")
    /\ UNCHANGED <<tasks, total, closed, start, ptr, cnt, todo, victim, histVars>>

\* A limit test that is off by one.
LimitReachedLate(n) == n > MaxRetryCnt

LimitReached(n) == n >= MaxRetryCnt

\* A run that does not ask whether its task was stopped.
StoppedIgnored(t) == FALSE

\* No entry under the task's key: the task was stopped.
Stopped(t) == tasks[KeyOf[t]] = None

\* A run that forgets to count.
RunCheckUncounted(t) ==
    /\ run[t] = "check"
    /\ RunTo(t, IF Stopped(t) THEN "idle" ELSE IF LimitReached(cnt[t]) THEN "giveUp" ELSE "push")
    /\ UNCHANGED <<tasks, total, closed, start, timerVars, cnt, todo, victim, histVars>>

\* Load, count, and test the limit.
RunCheck(t) ==
    /\ run[t] = "check"
    /\ IF Stopped(t)
       THEN RunTo(t, "idle") /\ cnt' = cnt
       ELSE /\ cnt' = [cnt EXCEPT ![t] = @ + 1]
            /\ RunTo(t, IF LimitReached(cnt[t] + 1) THEN "giveUp" ELSE "push")
    /\ UNCHANGED <<tasks, total, closed, start, timerVars, todo, victim, histVars>>

\* taskFunc accepts the message.
PushOK(t) ==
    /\ run[t] = "push"
    /\ sent' = [sent EXCEPT ![t] = Bump(@, SentCap)]
    /\ late' = [late EXCEPT ![t] = IF tasks[KeyOf[t]] # None THEN @ ELSE Bump(@, LateCap)]
    /\ RunTo(t, "rearm")
    /\ UNCHANGED <<tasks, total, closed, start, timerVars, cnt, todo, victim>>

\* taskFunc fails (the connection is closed).
PushFailed(t) ==
    /\ run[t] = "push"
    /\ RunTo(t, "giveUp")
    /\ UNCHANGED <<tasks, total, closed, start, timerVars, cnt, todo, victim, histVars>>

Rearm(t) ==
    /\ run[t] = "rearm"
    /\ armed' = [armed EXCEPT ![t] = TRUE]
    /\ ptr' = [ptr EXCEPT ![t] = FALSE]
    /\ RunTo(t, "setPtr")
    /\ UNCHANGED <<tasks, total, closed, start, cnt, todo, victim, histVars>>

SetPtr(t) ==
    /\ run[t] = "setPtr"
    /\ ptr' = [ptr EXCEPT ![t] = TRUE]
    /\ RunTo(t, "idle")
    /\ UNCHANGED <<tasks, total, closed, start, armed, cnt, todo, victim, histVars>>

(***************************************************************************)
(* stopAndDelete: LoadAndDelete, then task.stop and total - 1.             *)
(***************************************************************************)
TakeOut(a, k) ==
    /\ tasks' = [tasks EXCEPT ![k] = None]
    /\ victim' = [victim EXCEPT ![a] = tasks[k]]

\* A run that ends without deleting its entry.
GiveUpKeeps(t) ==
    /\ run[t] = "giveUp"
    /\ RunTo(t, "idle")
    /\ UNCHANGED <<tasks, total, closed, start, timerVars, cnt, todo, victim, histVars>>

\* The run of t gives up its key.
GiveUp(t) ==
    /\ run[t] = "giveUp"
    /\ TakeOut(t, KeyOf[t])
    /\ RunTo(t, "idle")
    /\ UNCHANGED <<total, closed, start, timerVars, cnt, todo, histVars>>

\* A stop that does not count the task out.
StopTaskUncounted(a) ==
    /\ victim[a] # None
    /\ armed' = [armed EXCEPT ![victim[a]] = @ /\ ~ptr[victim[a]]]
    /\ victim' = [victim EXCEPT ![a] = None]
    /\ UNCHANGED <<tasks, total, closed, start, run, ptr, cnt, todo, histVars>>

\* task.stop stops the timer that timerPtr designates, if any.
StopTask(a) ==
    /\ victim[a] # None
    /\ armed' = [armed EXCEPT ![victim[a]] = @ /\ ~ptr[victim[a]]]
    /\ total' = total - 1
    /\ victim' = [victim EXCEPT ![a] = None]
    /\ UNCHANGED <<tasks, closed, start, run, ptr, cnt, todo, histVars>>

\* The next key that the call of stopper s visits.
Visit(s, k) ==
    /\ victim[s] = None
    /\ k \in todo[s]
    /\ TakeOut(s, k)
    /\ todo' = [todo EXCEPT ![s] = @ \ {k}]
    /\ UNCHANGED <<total, closed, start, run, timerVars, cnt, histVars>>

Ready(s) == todo[s] = {} /\ victim[s] = None

Stop(s, k) ==
    /\ Ready(s)
    /\ tasks[k] # None
    /\ todo' = [todo EXCEPT ![s] = {k}]
    /\ UNCHANGED <<tasks, total, closed, start, run, timerVars, cnt, victim, histVars>>

\* A Range over the concurrent map: every key present throughout is visited,
\* and any key stored meanwhile may be.
RangeOver(s, K) ==
    \E extra \in SUBSET (K \ Present) :
        todo' = [todo EXCEPT ![s] = (K \cap Present) \cup extra]

ClearByConn(s, c) ==
    /\ Ready(s)
    /\ RangeOver(s, {k \in Keys : ConnOf[k] = c})
    /\ UNCHANGED <<tasks, total, closed, start, run, timerVars, cnt, victim, histVars>>

Close(s) ==
    /\ Ready(s)
    /\ ~closed
    /\ closed' = TRUE
    /\ RangeOver(s, Keys)
    /\ UNCHANGED <<tasks, total, start, run, timerVars, cnt, victim, histVars>>

StartStep(t) == StartStore(t) \/ StartArm(t) \/ StartCount(t)
RunStep(t) == Fire(t) \/ RunCheck(t) \/ PushOK(t) \/ PushFailed(t) \/ Rearm(t) \/ SetPtr(t)
                \/ GiveUp(t)
VisitStep(s) == \E k \in Keys : Visit(s, k)

Next ==
    \/ \E t \in Tasks : StartCheck(t) \/ StartStep(t) \/ RunStep(t)
    \/ \E a \in Actors : StopTask(a)
    \/ \E s \in Stoppers :
          \/ VisitStep(s) \/ Close(s)
          \/ \E k \in Keys : Stop(s, k)
          \/ \E c \in Conns : ClearByConn(s, c)

Spec == Init /\ [][Next]_vars

\* A call that has begun goes on, and a timer that stays armed fires.
FairSpec ==
    /\ Spec
    /\ \A t \in Tasks : WF_vars(StartStep(t)) /\ WF_vars(RunStep(t))
    /\ \A a \in Actors : WF_vars(StopTask(a))
    /\ \A s \in Stoppers : WF_vars(VisitStep(s))

(***************************************************************************)
(* Properties.                                                             *)
(***************************************************************************)
\* Types of the state.
TypeOK ==
    /\ tasks \in [Keys -> Tasks \cup {None}]
    /\ \A k \in Keys : tasks[k] # None => KeyOf[tasks[k]] = k
    /\ total \in Int
    /\ closed \in BOOLEAN
    /\ start \in [Tasks -> {"idle", "store", "arm", "count", "done"}]
    /\ run \in [Tasks -> {"idle", "check", "push", "rearm", "setPtr", "giveUp"}]
    /\ armed \in [Tasks -> BOOLEAN]
    /\ ptr \in [Tasks -> BOOLEAN]
    /\ cnt \in [Tasks -> 0..MaxRetryCnt]
    /\ todo \in [Stoppers -> SUBSET Keys]
    /\ victim \in [Actors -> Tasks \cup {None}]
    /\ sent \in [Tasks -> 0..SentCap]
    /\ late \in [Tasks -> 0..LateCap]

\* Whoever stops, gives up or restarts meanwhile, a task pushes its message again at
\* most maxRetryCnt times, the limit that the manager's comments give, also when it
\* goes on beside a later task of its key.
RetransmitBound == \A t \in Tasks : sent[t] <= MaxRetryCnt

\* Tasks in the map that start has not counted yet, and tasks taken out that
\* stopAndDelete has not discounted yet.
Uncounted == {t \in Tasks : start[t] \in {"arm", "count"}}
Undiscounted == {a \in Actors : victim[a] # None}

\* totalTaskCnt is exact up to the operations in progress, although no lock
\* covers the map and the counter: no task is counted twice or forgotten.
TotalExact ==
    total + Cardinality(Uncounted) = Cardinality(Present) + Cardinality(Undiscounted)

\* After a message's key was taken out of the map (ack, close, limit), and until start
\* stores it again, every task of that key pushes at most once more, the push in
\* flight: neither a timer that stop could not see nor an older task that
\* survived beside the one taken out keeps it going.
LatePushesBounded == \A t \in Tasks : late[t] <= 1

\* Every retransmission task ends: by an ack, a failed push or the limit.
TasksDrain == \A k \in Keys : (tasks[k] # None) ~> (tasks[k] = None)

\* No timer goes on for ever: not even one that was armed while its task was
\* being stopped, whose pointer stop could not see.
TimersEnd == \A t \in Tasks : armed[t] ~> (~armed[t] /\ run[t] = "idle")
===============================================================================
