--------------------------- MODULE MessagingProofs ----------------------------
(***************************************************************************)
(* The message paths, for any number of connections, consumers and         *)
(* messages.  The two directions share the acks only, so each has an       *)
(* inductive invariant of its own.                                         *)
(***************************************************************************)
EXTENDS Messaging, FiniteSetTheorems, TLAPS

(***************************************************************************)
(* Backend to client.  CopiesBounded is not inductive: deliveries of one   *)
(* message overlap, and an ack lets a later start begin a new task.  So a  *)
(* delivery is an allowance of one push and MaxRetryCnt retransmissions    *)
(* for every device: what consumers have still to push and to start, and   *)
(* what the task has left, is reserved in it.                              *)
(***************************************************************************)
Works == [msg : Msgs \cup {NoId}, left : SUBSET Conns, start : SUBSET Conns]

DownTypes ==
    /\ deliveries \in [Msgs -> Nat]
    /\ consumer \in [Partitions -> Works]
    /\ \A p \in Partitions : consumer[p] = Idle \/ consumer[p].msg \in Msgs
    /\ task \in [Conns -> [Msgs -> {Absent} \cup 0..(MaxRetryCnt - 1)]]
    /\ copies \in [Conns -> [Msgs -> Nat]]

\* The consumers that have still to push m to c, and to call start for it.
ToPush(c, m) == {p \in Partitions : consumer[p].msg = m /\ c \in consumer[p].left}
ToStart(c, m) == {p \in Partitions : consumer[p].msg = m /\ c \in consumer[p].start}

\* What a task may still retransmit.
Remaining(n) == IF n = Absent THEN 0 ELSE MaxRetryCnt - n

Allowance ==
    \A c \in Conns, m \in Msgs :
        copies[c][m] + Cardinality(ToPush(c, m)) + MaxRetryCnt * Cardinality(ToStart(c, m))
            + Remaining(task[c][m]) <= (1 + MaxRetryCnt) * deliveries[m]

DownInv == DownTypes /\ Allowance

(***************************************************************************)
(* Client to backend.  ForwardedPerKey is not inductive: a key can expire  *)
(* under its handler, and the writer goes on when Produce has failed.  So  *)
(* a life of the key is an allowance of MaxAttempts copies, in which a     *)
(* handler before Produce and the attempts still queued are reserved.      *)
(* AckTruthful needs that a positive result is kept only for what is in    *)
(* the topic.                                                              *)
(***************************************************************************)
AnyFrame == [cmd : {"none", "ack", "upstream", "unknown", "heartbeat", "invalid"},
             id : Msgs \cup Ups \cup {NoId}]

AnyHandler == [pc : {"idle", "handle", "ack"}, frame : AnyFrame, ok : BOOLEAN]

UpTypes ==
    /\ frames \in [Conns -> Seq(AnyFrame)]
    /\ handler \in [Conns -> AnyHandler]
    /\ answer \in [Conns -> [Ups -> {"none", "success", "failure"}]]
    /\ forwarded \in [Ups -> Nat]
    /\ queued \in [Ups -> Nat]
    /\ lives \in [Ups -> Nat]

\* The connections whose handler has u between the key and Produce.
Handlers(u) == {c \in Conns : handler[c].pc = "handle" /\ handler[c].frame.id = u}

ForwardAllowance ==
    \A u \in Ups :
        forwarded[u] + queued[u] + MaxAttempts * Cardinality(Handlers(u)) <= MaxAttempts * lives[u]

ResultTrue ==
    \A c \in Conns, u \in Ups :
        handler[c].pc = "ack" /\ handler[c].ok /\ handler[c].frame.id = u => forwarded[u] > 0

UpInv == UpTypes /\ ForwardAllowance /\ ResultTrue /\ AckTruthful

(***************************************************************************)
(* Counting.                                                               *)
(***************************************************************************)
\* How the size of a subset of a finite set changes with one element.
LEMMA CountStep ==
    ASSUME NEW A, IsFiniteSet(A), NEW S \in SUBSET A, NEW T \in SUBSET A, NEW x
    PROVE  /\ Cardinality(S) \in Nat /\ Cardinality(T) \in Nat
           /\ T \subseteq S => Cardinality(T) <= Cardinality(S)
           /\ T \subseteq S \cup {x} => Cardinality(T) <= Cardinality(S) + 1
           /\ x \in S /\ T \subseteq S \ {x} => Cardinality(T) + 1 <= Cardinality(S)
<1>1. IsFiniteSet(S) /\ IsFiniteSet(T)
  BY FS_Subset
<1>2. Cardinality(S) \in Nat /\ Cardinality(T) \in Nat
  BY <1>1, FS_CardinalityType
<1>3. T \subseteq S => Cardinality(T) <= Cardinality(S)
  BY <1>1, FS_Subset
<1>4. ASSUME T \subseteq S \cup {x} PROVE Cardinality(T) <= Cardinality(S) + 1
  <2>1. IsFiniteSet(S \cup {x}) /\ Cardinality(S \cup {x}) \in {Cardinality(S), Cardinality(S) + 1}
    BY <1>1, FS_AddElement
  <2>2. Cardinality(T) <= Cardinality(S \cup {x})
    BY <1>4, <2>1, FS_Subset
  <2> QED
    BY <1>2, <2>1, <2>2
<1>5. ASSUME x \in S, T \subseteq S \ {x} PROVE Cardinality(T) + 1 <= Cardinality(S)
  <2>1. IsFiniteSet(S \ {x}) /\ Cardinality(S \ {x}) = Cardinality(S) - 1
    BY <1>1, <1>5, FS_RemoveElement
  <2>2. Cardinality(T) <= Cardinality(S \ {x})
    BY <1>5, <2>1, FS_Subset
  <2> QED
    BY <1>2, <2>1, <2>2
<1> QED
  BY <1>2, <1>3, <1>4, <1>5

\* A factor of an allowance, one step up or down.
LEMMA TimesStep ==
    ASSUME NEW a \in Nat, NEW n \in Nat, NEW k \in Nat
    PROVE  /\ a * n \in Nat /\ a * k \in Nat
           /\ n <= k => a * n <= a * k
           /\ n <= k + 1 => a * n <= a * k + a
           /\ n + 1 <= k => a * n + a <= a * k
           /\ n = k + 1 => a * n = a * k + a
<1>1. a * n \in Nat /\ a * k \in Nat
  OBVIOUS
<1>2. ASSUME NEW i \in Nat, NEW j \in Nat, i <= j PROVE a * i <= a * j
  <2>1. j - i \in Nat /\ a * (j - i) \in Nat
    BY <1>2
  <2>2. a * j = a * i + a * (j - i)
    BY <1>2
  <2> QED
    BY <2>1, <2>2
<1>3. a * (k + 1) = a * k + a /\ a * (n + 1) = a * n + a
  OBVIOUS
<1> QED
  BY <1>1, <1>2, <1>3

(***************************************************************************)
(* Proofs: backend to client.                                              *)
(***************************************************************************)
LEMMA InitDownInv == Init => DownInv
<1> SUFFICES ASSUME Init PROVE DownInv
  OBVIOUS
<1>1. DownTypes
  BY MessagingAssumption DEF Init, DownTypes, Works, Idle
<1>2. ASSUME NEW c \in Conns, NEW m \in Msgs
      PROVE  /\ copies[c][m] = 0 /\ ToPush(c, m) = {} /\ ToStart(c, m) = {}
             /\ task[c][m] = Absent /\ deliveries[m] = 0
  BY DEF Init, ToPush, ToStart, Idle
<1>3. Cardinality({}) = 0
  BY FS_EmptySet
<1>4. ASSUME NEW c \in Conns, NEW m \in Msgs
      PROVE  copies[c][m] + Cardinality(ToPush(c, m)) + MaxRetryCnt * Cardinality(ToStart(c, m))
                + Remaining(task[c][m]) <= (1 + MaxRetryCnt) * deliveries[m]
  <2>1. Remaining(Absent) = 0
    BY DEF Remaining
  <2>2. MaxRetryCnt * 0 = 0 /\ (1 + MaxRetryCnt) * 0 = 0
    BY MessagingAssumption
  <2>3. MaxRetryCnt * Cardinality(ToStart(c, m)) = 0 /\ (1 + MaxRetryCnt) * deliveries[m] = 0
    BY <1>2, <1>3, <2>2
  <2>4. copies[c][m] = 0 /\ Cardinality(ToPush(c, m)) = 0 /\ Remaining(task[c][m]) = 0
    BY <1>2, <1>3, <2>1
  <2> QED
    BY <2>3, <2>4
<1> QED
  BY <1>1, <1>4 DEF DownInv, Allowance

\* The change that a step of one device and one message may make: the rest of the
\* allowance is the arithmetic of the step.
LEMMA AllowanceStep ==
    ASSUME DownInv, DownTypes', NEW c \in Conns, NEW m \in Msgs
    PROVE  /\ copies[c][m] \in Nat /\ copies'[c][m] \in Nat
           /\ deliveries[m] \in Nat /\ deliveries'[m] \in Nat
           /\ Remaining(task[c][m]) \in 0..MaxRetryCnt /\ Remaining(task'[c][m]) \in 0..MaxRetryCnt
           /\ Cardinality(ToPush(c, m)) \in Nat /\ Cardinality(ToPush(c, m)') \in Nat
           /\ Cardinality(ToStart(c, m)) \in Nat /\ Cardinality(ToStart(c, m)') \in Nat
           /\ MaxRetryCnt * Cardinality(ToStart(c, m)) \in Nat
           /\ MaxRetryCnt * Cardinality(ToStart(c, m)') \in Nat
           /\ (1 + MaxRetryCnt) * deliveries[m] \in Nat
           /\ copies[c][m] + Cardinality(ToPush(c, m)) + MaxRetryCnt * Cardinality(ToStart(c, m))
                 + Remaining(task[c][m]) <= (1 + MaxRetryCnt) * deliveries[m]
<1>1. /\ copies[c][m] \in Nat /\ copies'[c][m] \in Nat
      /\ deliveries[m] \in Nat /\ deliveries'[m] \in Nat
      /\ task[c][m] \in {Absent} \cup 0..(MaxRetryCnt - 1)
      /\ task'[c][m] \in {Absent} \cup 0..(MaxRetryCnt - 1)
  BY DEF DownInv, DownTypes
<1>2. Remaining(task[c][m]) \in 0..MaxRetryCnt /\ Remaining(task'[c][m]) \in 0..MaxRetryCnt
  BY <1>1, MessagingAssumption DEF Remaining, Absent
<1>3. /\ Cardinality(ToPush(c, m)) \in Nat /\ Cardinality(ToPush(c, m)') \in Nat
      /\ Cardinality(ToStart(c, m)) \in Nat /\ Cardinality(ToStart(c, m)') \in Nat
  <2>1. /\ ToPush(c, m) \in SUBSET Partitions /\ ToPush(c, m)' \in SUBSET Partitions
        /\ ToStart(c, m) \in SUBSET Partitions /\ ToStart(c, m)' \in SUBSET Partitions
    BY DEF ToPush, ToStart
  <2> QED
    BY <2>1, CountStep, MessagingAssumption
<1>4. /\ MaxRetryCnt * Cardinality(ToStart(c, m)) \in Nat
      /\ MaxRetryCnt * Cardinality(ToStart(c, m)') \in Nat
      /\ (1 + MaxRetryCnt) * deliveries[m] \in Nat
  BY <1>1, <1>3, TimesStep, MessagingAssumption
<1> QED
  BY <1>1, <1>2, <1>3, <1>4 DEF DownInv, Allowance

\* A delivery: its push and its start are reserved in the allowance it brings.
LEMMA ConsumeDownInv ==
    ASSUME DownInv, NEW p \in Partitions, NEW m \in Msgs, Consume(p, m)
    PROVE  DownInv'
<1>1. UNCHANGED <<task, copies>> /\ consumer[p] = Idle
      /\ deliveries' = [deliveries EXCEPT ![m] = @ + 1]
  BY DEF Consume
<1>2. PICK found \in SUBSET Conns :
         consumer' = IF found = {} THEN consumer
                     ELSE [consumer EXCEPT ![p] = [msg |-> m, left |-> found, start |-> found]]
  BY DEF Consume
<1>3. DownTypes'
  <2>1. [msg |-> m, left |-> found, start |-> found] \in Works
    BY DEF Works
  <2> QED
    BY <1>1, <1>2, <2>1 DEF DownInv, DownTypes
<1>4. ASSUME NEW c \in Conns, NEW k \in Msgs
      PROVE  /\ ToPush(c, k)' \subseteq ToPush(c, k) \cup {p}
             /\ ToStart(c, k)' \subseteq ToStart(c, k) \cup {p}
             /\ k # m => ToPush(c, k)' \subseteq ToPush(c, k) /\ ToStart(c, k)' \subseteq ToStart(c, k)
  <2>1. \A q \in Partitions : q # p => consumer'[q] = consumer[q]
    BY <1>2 DEF DownInv, DownTypes
  <2>2. consumer'[p] = consumer[p] \/ consumer'[p].msg = m
    BY <1>2 DEF DownInv, DownTypes
  <2> QED
    BY <2>1, <2>2 DEF ToPush, ToStart
<1>5. ASSUME NEW c \in Conns, NEW k \in Msgs
      PROVE  copies'[c][k] + Cardinality(ToPush(c, k)') + MaxRetryCnt * Cardinality(ToStart(c, k)')
                + Remaining(task'[c][k]) <= (1 + MaxRetryCnt) * deliveries'[k]
  <2> DEFINE P == Cardinality(ToPush(c, k))
             Q == Cardinality(ToPush(c, k)')
             S == Cardinality(ToStart(c, k))
             T == Cardinality(ToStart(c, k)')
  <2>1. /\ ToPush(c, k) \in SUBSET Partitions /\ ToPush(c, k)' \in SUBSET Partitions
        /\ ToStart(c, k) \in SUBSET Partitions /\ ToStart(c, k)' \in SUBSET Partitions
    BY DEF ToPush, ToStart
  <2>2. /\ Q <= P + 1 /\ T <= S + 1
        /\ k # m => Q <= P /\ T <= S
    BY <1>4, <2>1, CountStep, MessagingAssumption
  <2>3. /\ P \in Nat /\ Q \in Nat /\ S \in Nat /\ T \in Nat /\ deliveries[k] \in Nat
        /\ copies[c][k] \in Nat /\ Remaining(task[c][k]) \in Nat
        /\ MaxRetryCnt * S \in Nat /\ MaxRetryCnt * T \in Nat /\ (1 + MaxRetryCnt) * deliveries[k] \in Nat
        /\ copies[c][k] + P + MaxRetryCnt * S + Remaining(task[c][k]) <= (1 + MaxRetryCnt) * deliveries[k]
    BY <1>3, AllowanceStep
  <2>4. deliveries'[k] = IF k = m THEN deliveries[k] + 1 ELSE deliveries[k]
    BY <1>1 DEF DownInv, DownTypes
  <2> HIDE DEF P, Q, S, T
  <2>5. MaxRetryCnt * T <= MaxRetryCnt * S + MaxRetryCnt /\ (k # m => MaxRetryCnt * T <= MaxRetryCnt * S)
    BY <2>2, <2>3, TimesStep, MessagingAssumption
  <2>6. (1 + MaxRetryCnt) * (deliveries[k] + 1) = (1 + MaxRetryCnt) * deliveries[k] + 1 + MaxRetryCnt
    BY <2>3, MessagingAssumption
  <2> DEFINE mt == MaxRetryCnt * T
             ms == MaxRetryCnt * S
             md == (1 + MaxRetryCnt) * deliveries[k]
  <2>7. copies[c][k] + Q + mt + Remaining(task[c][k])
           <= IF k = m THEN md + 1 + MaxRetryCnt ELSE md
    <3> HIDE DEF mt, ms, md
    <3> QED
      BY <2>2, <2>3, <2>5, MessagingAssumption DEF mt, ms, md
  <2> QED
    BY <1>1, <2>4, <2>6, <2>7 DEF Q, T
<1> QED
  BY <1>3, <1>5 DEF DownInv, Allowance

\* A step that moves copies, pushes, starts and task within the allowance keeps it.
LEMMA AllowanceKept ==
    ASSUME DownInv, DownTypes', UNCHANGED deliveries,
           \A c \in Conns, m \in Msgs :
              LET used == copies[c][m] + Cardinality(ToPush(c, m)) + Remaining(task[c][m])
                  uses == copies'[c][m] + Cardinality(ToPush(c, m)') + Remaining(task'[c][m])
                  S == Cardinality(ToStart(c, m))
                  T == Cardinality(ToStart(c, m)')
              IN  \/ T <= S /\ uses <= used
                  \/ T + 1 <= S /\ uses <= used + MaxRetryCnt
    PROVE  DownInv'
<1> SUFFICES ASSUME NEW c \in Conns, NEW m \in Msgs
             PROVE  copies'[c][m] + Cardinality(ToPush(c, m)') + MaxRetryCnt * Cardinality(ToStart(c, m)')
                       + Remaining(task'[c][m]) <= (1 + MaxRetryCnt) * deliveries[m]
  BY DEF DownInv, Allowance
<1> DEFINE used == copies[c][m] + Cardinality(ToPush(c, m)) + Remaining(task[c][m])
           uses == copies'[c][m] + Cardinality(ToPush(c, m)') + Remaining(task'[c][m])
           S == Cardinality(ToStart(c, m))
           T == Cardinality(ToStart(c, m)')
           md == (1 + MaxRetryCnt) * deliveries[m]
<1>1. /\ used \in Int /\ uses \in Int /\ S \in Nat /\ T \in Nat /\ md \in Nat
      /\ MaxRetryCnt * S \in Nat /\ MaxRetryCnt * T \in Nat
      /\ used + MaxRetryCnt * S <= md
      /\ uses + MaxRetryCnt * T =
            copies'[c][m] + Cardinality(ToPush(c, m)') + MaxRetryCnt * T + Remaining(task'[c][m])
  <2> HIDE DEF S, T, md
  <2>1. /\ copies[c][m] \in Nat /\ copies'[c][m] \in Nat /\ S \in Nat /\ T \in Nat /\ md \in Nat
        /\ Remaining(task[c][m]) \in Nat /\ Remaining(task'[c][m]) \in Nat
        /\ Cardinality(ToPush(c, m)) \in Nat /\ Cardinality(ToPush(c, m)') \in Nat
        /\ MaxRetryCnt * S \in Nat /\ MaxRetryCnt * T \in Nat
        /\ copies[c][m] + Cardinality(ToPush(c, m)) + MaxRetryCnt * S + Remaining(task[c][m]) <= md
    BY AllowanceStep DEF S, T, md
  <2> DEFINE ms == MaxRetryCnt * S
             mt == MaxRetryCnt * T
  <2> HIDE DEF ms, mt
  <2> QED
    BY <2>1 DEF ms, mt
<1>2. (T <= S /\ uses <= used) \/ (T + 1 <= S /\ uses <= used + MaxRetryCnt)
  OBVIOUS
<1> HIDE DEF used, uses, S, T, md
<1>3. /\ T <= S => MaxRetryCnt * T <= MaxRetryCnt * S
      /\ T + 1 <= S => MaxRetryCnt * T + MaxRetryCnt <= MaxRetryCnt * S
  BY <1>1, TimesStep, MessagingAssumption
<1>4. uses + MaxRetryCnt * T <= md
  <2> DEFINE ms == MaxRetryCnt * S
             mt == MaxRetryCnt * T
  <2> HIDE DEF ms, mt
  <2> QED
    BY <1>1, <1>2, <1>3, MessagingAssumption DEF ms, mt
<1> QED
  BY <1>1, <1>4 DEF T, md

\* The sizes of what is reserved before and after a step of consumer p.
LEMMA ReservedStep ==
    ASSUME NEW p, NEW c, NEW m
    PROVE  LET P == ToPush(c, m)
               S == ToStart(c, m)
           IN  /\ P' \subseteq P => Cardinality(P') <= Cardinality(P)
               /\ p \in P /\ P' \subseteq P \ {p} => Cardinality(P') + 1 <= Cardinality(P)
               /\ S' \subseteq S => Cardinality(S') <= Cardinality(S)
               /\ p \in S /\ S' \subseteq S \ {p} => Cardinality(S') + 1 <= Cardinality(S)
<1>1. /\ ToPush(c, m) \in SUBSET Partitions /\ ToPush(c, m)' \in SUBSET Partitions
      /\ ToStart(c, m) \in SUBSET Partitions /\ ToStart(c, m)' \in SUBSET Partitions
  BY DEF ToPush, ToStart
<1> QED
  BY <1>1, CountStep, MessagingAssumption

\* A push uses its reservation; an early return gives the rest back.
LEMMA PushDownInv ==
    ASSUME DownInv, NEW p \in Partitions, NEW c \in Conns, Push(p, c)
    PROVE  DownInv'
<1> DEFINE m == consumer[p].msg
<1>1. UNCHANGED <<deliveries, task>> /\ c \in consumer[p].left /\ m \in Msgs
  BY DEF Push, DownInv, DownTypes, Idle
<1>2. /\ deliveries \in [Msgs -> Nat] /\ consumer \in [Partitions -> Works]
      /\ \A q \in Partitions : consumer[q] = Idle \/ consumer[q].msg \in Msgs
      /\ task \in [Conns -> [Msgs -> {Absent} \cup 0..(MaxRetryCnt - 1)]]
      /\ copies \in [Conns -> [Msgs -> Nat]]
  BY DEF DownInv, DownTypes
<1>3. PICK left \in SUBSET (consumer[p].left \ {c}) :
         /\ consumer' = [consumer EXCEPT ![p] = [consumer[p] EXCEPT !.left = left]]
         /\ \/ copies' = [copies EXCEPT ![c] = [copies[c] EXCEPT ![m] = copies[c][m] + 1]]
            \/ copies' = copies
  <2>1. CASE open[c]
    BY <1>1, <1>2, <2>1 DEF Push, Receives
  <2>2. CASE ~open[c]
    BY <1>1, <1>2, <2>2 DEF Push, LeavePushLoop
  <2> QED
    BY <2>1, <2>2
<1>4. /\ consumer'[p].msg = m /\ consumer'[p].left = left /\ consumer'[p].start = consumer[p].start
      /\ consumer'[p] \in Works
      /\ \A q \in Partitions \ {p} : consumer'[q] = consumer[q]
  BY <1>2, <1>3 DEF Works
<1>5. /\ copies' \in [Conns -> [Msgs -> Nat]]
      /\ copies'[c][m] <= copies[c][m] + 1
      /\ \A d \in Conns, k \in Msgs : (d # c \/ k # m) => copies'[d][k] = copies[d][k]
  <2>1. [copies[c] EXCEPT ![m] = copies[c][m] + 1] \in [Msgs -> Nat]
    BY <1>1, <1>2
  <2> QED
    BY <1>1, <1>2, <1>3, <2>1
<1>6. DownTypes'
  <2>1. consumer' \in [Partitions -> Works]
    BY <1>2, <1>3, <1>4
  <2> QED
    BY <1>1, <1>2, <1>4, <1>5, <2>1 DEF DownTypes
<1>7. ASSUME NEW d \in Conns, NEW k \in Msgs
      PROVE  /\ Cardinality(ToStart(d, k)') <= Cardinality(ToStart(d, k))
             /\ Remaining(task'[d][k]) = Remaining(task[d][k])
             /\ copies'[d][k] + Cardinality(ToPush(d, k)') + Remaining(task'[d][k])
                   <= copies[d][k] + Cardinality(ToPush(d, k)) + Remaining(task[d][k])
  <2>1. ToStart(d, k)' \subseteq ToStart(d, k) /\ ToPush(d, k)' \subseteq ToPush(d, k)
        /\ (d = c /\ k = m => p \in ToPush(d, k) /\ ToPush(d, k)' \subseteq ToPush(d, k) \ {p})
    BY <1>1, <1>3, <1>4 DEF ToPush, ToStart
  <2>2. Remaining(task'[d][k]) = Remaining(task[d][k])
    BY <1>1
  <2>3. copies'[d][k] + Cardinality(ToPush(d, k)') <= copies[d][k] + Cardinality(ToPush(d, k))
    <3>1. /\ copies[d][k] \in Nat /\ copies'[d][k] \in Nat
          /\ Cardinality(ToPush(d, k)) \in Nat /\ Cardinality(ToPush(d, k)') \in Nat
      BY <1>6, AllowanceStep
    <3>2. /\ Cardinality(ToPush(d, k)') <= Cardinality(ToPush(d, k))
          /\ d = c /\ k = m => Cardinality(ToPush(d, k)') + 1 <= Cardinality(ToPush(d, k))
      BY <2>1, ReservedStep
    <3>3. CASE d = c /\ k = m
      BY <1>5, <3>1, <3>2, <3>3
    <3>4. CASE ~(d = c /\ k = m)
      BY <1>5, <3>1, <3>2, <3>4
    <3> QED
      BY <3>3, <3>4
  <2>4. Cardinality(ToStart(d, k)') <= Cardinality(ToStart(d, k))
    BY <2>1, ReservedStep
  <2>5. /\ copies[d][k] \in Nat /\ copies'[d][k] \in Nat /\ Remaining(task[d][k]) \in Nat
        /\ Cardinality(ToPush(d, k)) \in Nat /\ Cardinality(ToPush(d, k)') \in Nat
    BY <1>6, AllowanceStep
  <2> QED
    BY <2>2, <2>3, <2>4, <2>5
<1> QED
  BY <1>1, <1>6, <1>7, AllowanceKept

\* A start uses its reservation for a task, or gives it back.
LEMMA StartDownInv ==
    ASSUME DownInv, NEW p \in Partitions, NEW c \in Conns, Start(p, c)
    PROVE  DownInv'
<1> DEFINE m == consumer[p].msg
<1>1. UNCHANGED <<deliveries, copies>> /\ c \in consumer[p].start /\ consumer[p].left = {} /\ m \in Msgs
  BY DEF Start, DownInv, DownTypes, Idle
<1>2. /\ deliveries \in [Msgs -> Nat] /\ consumer \in [Partitions -> Works]
      /\ \A q \in Partitions : consumer[q] = Idle \/ consumer[q].msg \in Msgs
      /\ task \in [Conns -> [Msgs -> {Absent} \cup 0..(MaxRetryCnt - 1)]]
      /\ copies \in [Conns -> [Msgs -> Nat]]
  BY DEF DownInv, DownTypes
<1>3. PICK w \in Works :
         /\ consumer' = [consumer EXCEPT ![p] = w]
         /\ w.left = {} /\ c \notin w.start
         /\ \/ w = Idle
            \/ w.msg = m /\ w.start \subseteq consumer[p].start
  <2>1. CASE consumer[p].start = {c}
    <3>1. Idle \in Works /\ Idle.left = {} /\ Idle.start = {}
      BY DEF Works, Idle
    <3>2. consumer' = [consumer EXCEPT ![p] = Idle]
      BY <1>2, <2>1 DEF Start
    <3> QED
      BY <3>1, <3>2
  <2>2. CASE consumer[p].start # {c}
    <3> DEFINE w == [consumer[p] EXCEPT !.start = consumer[p].start \ {c}]
    <3>1. consumer' = [consumer EXCEPT ![p] = w]
      BY <1>2, <2>2 DEF Start
    <3>2. w \in Works /\ w.left = {} /\ w.msg = m /\ w.start = consumer[p].start \ {c}
      BY <1>1, <1>2 DEF Works
    <3> HIDE DEF w
    <3> QED
      BY <3>1, <3>2
  <2> QED
    BY <2>1, <2>2
<1>4. consumer'[p] = w /\ \A q \in Partitions \ {p} : consumer'[q] = consumer[q]
  BY <1>2, <1>3
<1>5. /\ task' \in [Conns -> [Msgs -> {Absent} \cup 0..(MaxRetryCnt - 1)]]
      /\ task'[c][m] = task[c][m] \/ (task[c][m] = Absent /\ task'[c][m] = 0)
      /\ \A d \in Conns, k \in Msgs : (d # c \/ k # m) => task'[d][k] = task[d][k]
  <2>1. CASE mclosed \/ task[c][m] # Absent
    BY <1>2, <2>1 DEF Start
  <2>2. CASE ~mclosed /\ task[c][m] = Absent
    <3>1. task' = [task EXCEPT ![c] = [task[c] EXCEPT ![m] = 0]]
      BY <2>2 DEF Start
    <3>2. 0 \in 0..(MaxRetryCnt - 1)
      BY MessagingAssumption
    <3>3. [task[c] EXCEPT ![m] = 0] \in [Msgs -> {Absent} \cup 0..(MaxRetryCnt - 1)]
      BY <1>1, <1>2, <3>2
    <3> QED
      BY <1>1, <1>2, <2>2, <3>1, <3>3
  <2> QED
    BY <2>1, <2>2
<1>6. DownTypes'
  <2>1. consumer' \in [Partitions -> Works]
    BY <1>2, <1>3
  <2>2. \A q \in Partitions : consumer'[q] = Idle \/ consumer'[q].msg \in Msgs
    BY <1>1, <1>2, <1>3, <1>4
  <2> QED
    BY <1>1, <1>2, <1>5, <2>1, <2>2 DEF DownTypes
<1>7. ASSUME NEW d \in Conns, NEW k \in Msgs
      PROVE  LET used == copies[d][k] + Cardinality(ToPush(d, k)) + Remaining(task[d][k])
                 uses == copies'[d][k] + Cardinality(ToPush(d, k)') + Remaining(task'[d][k])
                 S == Cardinality(ToStart(d, k))
                 T == Cardinality(ToStart(d, k)')
             IN  \/ T <= S /\ uses <= used
                 \/ T + 1 <= S /\ uses <= used + MaxRetryCnt
  <2>1. ToStart(d, k)' \subseteq ToStart(d, k) /\ ToPush(d, k)' \subseteq ToPush(d, k)
        /\ (d = c /\ k = m => p \in ToStart(d, k) /\ ToStart(d, k)' \subseteq ToStart(d, k) \ {p})
    BY <1>1, <1>3, <1>4 DEF ToPush, ToStart, Idle
  <2>2. /\ Cardinality(ToPush(d, k)') <= Cardinality(ToPush(d, k))
        /\ Cardinality(ToStart(d, k)') <= Cardinality(ToStart(d, k))
        /\ d = c /\ k = m => Cardinality(ToStart(d, k)') + 1 <= Cardinality(ToStart(d, k))
    BY <2>1, ReservedStep
  <2>3. /\ copies[d][k] \in Nat /\ copies'[d][k] = copies[d][k]
        /\ Cardinality(ToPush(d, k)) \in Nat /\ Cardinality(ToPush(d, k)') \in Nat
        /\ Remaining(task[d][k]) \in 0..MaxRetryCnt /\ Remaining(task'[d][k]) \in 0..MaxRetryCnt
    BY <1>1, <1>6, AllowanceStep
  <2>4. CASE d = c /\ k = m
    BY <2>2, <2>3, <2>4, MessagingAssumption
  <2>5. CASE ~(d = c /\ k = m)
    <3>1. Remaining(task'[d][k]) = Remaining(task[d][k])
      BY <1>5, <2>5
    <3> QED
      BY <2>2, <2>3, <3>1
  <2> QED
    BY <2>4, <2>5
<1> QED
  BY <1>1, <1>6, <1>7, AllowanceKept

\* The consumers stay: what is reserved for them stays.
LEMMA TaskDownInv ==
    ASSUME DownInv, DownTypes', UNCHANGED <<deliveries, consumer>>,
           \A c \in Conns, m \in Msgs :
              copies'[c][m] + Remaining(task'[c][m]) <= copies[c][m] + Remaining(task[c][m])
    PROVE  DownInv'
<1>1. ASSUME NEW c \in Conns, NEW m \in Msgs
      PROVE  /\ Cardinality(ToStart(c, m)') <= Cardinality(ToStart(c, m))
             /\ copies'[c][m] + Cardinality(ToPush(c, m)') + Remaining(task'[c][m])
                   <= copies[c][m] + Cardinality(ToPush(c, m)) + Remaining(task[c][m])
  <2>1. ToStart(c, m)' = ToStart(c, m) /\ ToPush(c, m)' = ToPush(c, m)
    BY DEF ToPush, ToStart
  <2>2. /\ copies[c][m] \in Nat /\ copies'[c][m] \in Nat
        /\ Cardinality(ToPush(c, m)) \in Nat /\ Cardinality(ToStart(c, m)) \in Nat
        /\ Remaining(task[c][m]) \in 0..MaxRetryCnt /\ Remaining(task'[c][m]) \in 0..MaxRetryCnt
    BY AllowanceStep
  <2> QED
    BY <2>1, <2>2, MessagingAssumption
<1> QED
  BY <1>1, AllowanceKept

\* A run of a task counts its copy or removes the task.
LEMMA RetransmitDownInv ==
    ASSUME DownInv, NEW c \in Conns, NEW m \in Msgs, Retransmit(c, m)
    PROVE  DownInv'
<1> DEFINE n == task[c][m]
<1>1. UNCHANGED <<deliveries, consumer>> /\ n # Absent
  BY DEF Retransmit
<1>2. /\ task \in [Conns -> [Msgs -> {Absent} \cup 0..(MaxRetryCnt - 1)]]
      /\ copies \in [Conns -> [Msgs -> Nat]]
      /\ n \in 0..(MaxRetryCnt - 1)
  BY <1>1 DEF DownInv, DownTypes
<1>3. \/ /\ task' = [task EXCEPT ![c] = [task[c] EXCEPT ![m] = Absent]]
         /\ UNCHANGED copies
      \/ /\ n + 1 \in 0..(MaxRetryCnt - 1)
         /\ task' = [task EXCEPT ![c] = [task[c] EXCEPT ![m] = n + 1]]
         /\ copies' = [copies EXCEPT ![c] = [copies[c] EXCEPT ![m] = copies[c][m] + 1]]
  <2>1. CASE LimitReached(Counted(n)) \/ ~open[c]
    BY <2>1 DEF Retransmit
  <2>2. CASE ~(LimitReached(Counted(n)) \/ ~open[c])
    BY <1>2, <2>2, MessagingAssumption DEF Retransmit, Receives, LimitReached, Counted
  <2> QED
    BY <2>1, <2>2
<1>4. /\ task' \in [Conns -> [Msgs -> {Absent} \cup 0..(MaxRetryCnt - 1)]]
      /\ copies' \in [Conns -> [Msgs -> Nat]]
      /\ \A d \in Conns, k \in Msgs : (d # c \/ k # m) =>
            copies'[d][k] = copies[d][k] /\ task'[d][k] = task[d][k]
      /\ \/ task'[c][m] = Absent /\ copies'[c][m] = copies[c][m]
         \/ task'[c][m] = n + 1 /\ n + 1 \in 0..(MaxRetryCnt - 1) /\ copies'[c][m] = copies[c][m] + 1
  <2> HIDE DEF n
  <2>1. [copies[c] EXCEPT ![m] = copies[c][m] + 1] \in [Msgs -> Nat]
    BY <1>2
  <2>2. [task[c] EXCEPT ![m] = Absent] \in [Msgs -> {Absent} \cup 0..(MaxRetryCnt - 1)]
    BY <1>2
  <2>3. ASSUME n + 1 \in 0..(MaxRetryCnt - 1)
        PROVE  [task[c] EXCEPT ![m] = n + 1] \in [Msgs -> {Absent} \cup 0..(MaxRetryCnt - 1)]
    BY <1>2, <2>3
  <2>4. CASE /\ task' = [task EXCEPT ![c] = [task[c] EXCEPT ![m] = Absent]]
             /\ UNCHANGED copies
    BY <1>2, <2>2, <2>4
  <2>5. CASE /\ n + 1 \in 0..(MaxRetryCnt - 1)
             /\ task' = [task EXCEPT ![c] = [task[c] EXCEPT ![m] = n + 1]]
             /\ copies' = [copies EXCEPT ![c] = [copies[c] EXCEPT ![m] = copies[c][m] + 1]]
    <3>1. task' \in [Conns -> [Msgs -> {Absent} \cup 0..(MaxRetryCnt - 1)]]
      BY <1>2, <2>3, <2>5
    <3>2. copies' \in [Conns -> [Msgs -> Nat]]
      BY <1>2, <2>1, <2>5
    <3>3. task'[c][m] = n + 1 /\ copies'[c][m] = copies[c][m] + 1
      BY <1>2, <2>5
    <3>4. \A d \in Conns, k \in Msgs : (d # c \/ k # m) =>
             copies'[d][k] = copies[d][k] /\ task'[d][k] = task[d][k]
      BY <1>2, <2>5
    <3> QED
      BY <2>5, <3>1, <3>2, <3>3, <3>4
  <2> QED
    BY <1>3, <2>4, <2>5
<1>5. DownTypes'
  BY <1>1, <1>4 DEF DownInv, DownTypes
<1>6. ASSUME NEW d \in Conns, NEW k \in Msgs
      PROVE  copies'[d][k] + Remaining(task'[d][k]) <= copies[d][k] + Remaining(task[d][k])
  <2>1. copies[d][k] \in Nat /\ Remaining(task[d][k]) \in Nat
    BY <1>5, AllowanceStep, MessagingAssumption
  <2>2. CASE d = c /\ k = m
    BY <1>1, <1>2, <1>4, <2>1, <2>2, MessagingAssumption DEF Remaining, Absent
  <2>3. CASE ~(d = c /\ k = m)
    BY <1>4, <2>1, <2>3
  <2> QED
    BY <2>2, <2>3
<1> QED
  BY <1>1, <1>5, <1>6, TaskDownInv

\* A task that is taken out, by an ack or by closing the manager, gives its rest back.
LEMMA RemoveDownInv ==
    ASSUME DownInv, UNCHANGED <<deliveries, consumer, copies>>,
           task' \in [Conns -> [Msgs -> {Absent} \cup 0..(MaxRetryCnt - 1)]],
           \A c \in Conns, m \in Msgs : task'[c][m] \in {task[c][m], Absent}
    PROVE  DownInv'
<1>1. DownTypes'
  BY DEF DownInv, DownTypes
<1>2. ASSUME NEW c \in Conns, NEW m \in Msgs
      PROVE  copies'[c][m] + Remaining(task'[c][m]) <= copies[c][m] + Remaining(task[c][m])
  <2>1. copies[c][m] \in Nat /\ Remaining(task[c][m]) \in Nat
    BY <1>1, AllowanceStep, MessagingAssumption
  <2>2. Remaining(task'[c][m]) \in {Remaining(task[c][m]), 0}
    BY DEF Remaining
  <2> QED
    BY <2>1, <2>2
<1> QED
  BY <1>1, <1>2, TaskDownInv

LEMMA NextDownInv == DownInv /\ [Next]_vars => DownInv'
<1> SUFFICES ASSUME DownInv, [Next]_vars PROVE DownInv'
  OBVIOUS
<1>1. task \in [Conns -> [Msgs -> {Absent} \cup 0..(MaxRetryCnt - 1)]]
  BY DEF DownInv, DownTypes
<1>2. ASSUME NEW c \in Conns, HandleAck(c) PROVE DownInv'
  <2>1. UNCHANGED <<deliveries, consumer, copies>>
        /\ task' = [task EXCEPT ![c] = [task[c] EXCEPT ![handler[c].frame.id] = Absent]]
    BY <1>2 DEF HandleAck
  <2>2. [task[c] EXCEPT ![handler[c].frame.id] = Absent]
           \in [Msgs -> {Absent} \cup 0..(MaxRetryCnt - 1)]
    BY <1>1
  <2>3. task' \in [Conns -> [Msgs -> {Absent} \cup 0..(MaxRetryCnt - 1)]]
        /\ \A d \in Conns, k \in Msgs : task'[d][k] \in {task[d][k], Absent}
    BY <1>1, <2>1, <2>2
  <2> QED
    BY <2>1, <2>3, RemoveDownInv
<1>3. ASSUME CloseManager PROVE DownInv'
  BY <1>3, RemoveDownInv DEF CloseManager
<1>4. ASSUME UNCHANGED downVars PROVE DownInv'
  BY <1>1, <1>4, RemoveDownInv DEF downVars
<1>5. ASSUME NEW c \in Conns, HandlerStep(c), ~HandleAck(c) PROVE UNCHANGED downVars
  BY <1>5 DEF HandlerStep, LeaveLoop, NoIdFrame, Dedup, DedupFailed, HandleUnknown, Forward, SendAck
<1>6. ASSUME NEW c \in Conns,
             \/ CloseConn(c) \/ \E m \in Msgs : ClientAck(c, m)
             \/ \E u \in Ups, cmd \in {"upstream", "unknown"} : ClientSend(c, cmd, u)
             \/ \E cmd \in OtherCmds : ClientOther(c, cmd)
      PROVE  UNCHANGED downVars
  BY <1>6 DEF CloseConn, ClientAck, ClientSend, ClientOther
<1>7. ASSUME \/ \E u \in Ups : WriteLater(u)
             \/ \E id \in Msgs \cup Ups : Expire(id)
             \/ Quiet \/ UNCHANGED vars
      PROVE  UNCHANGED downVars
  BY <1>7 DEF WriteLater, Expire, Quiet, vars
<1> QED
  BY <1>2, <1>3, <1>4, <1>5, <1>6, <1>7, ConsumeDownInv, PushDownInv, StartDownInv,
     RetransmitDownInv
  DEF Next, ConsumerStep

\* For every delivery of a message a device gets at most the push and maxRetryCnt
\* retransmissions: for any number of devices, consumers, messages and overlapping
\* deliveries, and for every maxRetryCnt that NewManager keeps.
THEOREM Bounded == Spec => []CopiesBounded
<1>1. ASSUME DownInv PROVE CopiesBounded
  <2> SUFFICES ASSUME NEW c \in Conns, NEW m \in Msgs
               PROVE  copies[c][m] <= (1 + MaxRetryCnt) * deliveries[m]
    BY DEF CopiesBounded
  <2>1. ToPush(c, m) \in SUBSET Partitions /\ ToStart(c, m) \in SUBSET Partitions
    BY DEF ToPush, ToStart
  <2>2. Cardinality(ToPush(c, m)) \in Nat /\ Cardinality(ToStart(c, m)) \in Nat
    BY <2>1, CountStep, MessagingAssumption
  <2>3. /\ copies[c][m] \in Nat /\ deliveries[m] \in Nat
        /\ task[c][m] \in {Absent} \cup 0..(MaxRetryCnt - 1)
    BY <1>1 DEF DownInv, DownTypes
  <2>4. Remaining(task[c][m]) \in Nat
    BY <2>3, MessagingAssumption DEF Remaining, Absent
  <2> DEFINE md == (1 + MaxRetryCnt) * deliveries[m]
             ms == MaxRetryCnt * Cardinality(ToStart(c, m))
  <2>5. md \in Nat /\ ms \in Nat
    BY <2>2, <2>3, TimesStep, MessagingAssumption
  <2>6. copies[c][m] + Cardinality(ToPush(c, m)) + ms + Remaining(task[c][m]) <= md
    BY <1>1 DEF DownInv, Allowance
  <2>7. copies[c][m] <= md
    <3> HIDE DEF md, ms
    <3> QED
      BY <2>2, <2>3, <2>4, <2>5, <2>6
  <2> QED
    BY <2>7
<1> QED
  BY <1>1, InitDownInv, NextDownInv, PTL DEF Spec

(***************************************************************************)
(* Proofs: client to backend.                                              *)
(***************************************************************************)
LEMMA InitUpInv == Init => UpInv
<1> SUFFICES ASSUME Init PROVE UpInv
  OBVIOUS
<1>1. UpTypes
  BY DEF Init, UpTypes, AnyHandler, AnyFrame, Resting, Frame
<1>2. ForwardAllowance
  <2> SUFFICES ASSUME NEW u \in Ups
               PROVE  forwarded[u] + queued[u] + MaxAttempts * Cardinality(Handlers(u))
                         <= MaxAttempts * lives[u]
    BY DEF ForwardAllowance
  <2>1. Handlers(u) = {} /\ forwarded[u] = 0 /\ queued[u] = 0 /\ lives[u] = 0
    BY DEF Init, Handlers, Resting
  <2>2. Cardinality({}) = 0 /\ MaxAttempts * 0 = 0
    BY FS_EmptySet, MessagingAssumption
  <2>3. MaxAttempts * Cardinality(Handlers(u)) = 0 /\ MaxAttempts * lives[u] = 0
    BY <2>1, <2>2
  <2> QED
    BY <2>1, <2>3
<1>3. ResultTrue /\ AckTruthful
  BY DEF Init, ResultTrue, Resting, AckTruthful
<1> QED
  BY <1>1, <1>2, <1>3 DEF UpInv

\* The queues hold frames: the clients append them and the handlers take them.
FramesOK == frames \in [Conns -> Seq(AnyFrame)]

LEMMA TransmitOK ==
    ASSUME FramesOK, NEW c \in Conns, NEW f \in AnyFrame, Transmit(c, f)
    PROVE  FramesOK'
<1>1. frames' = [frames EXCEPT ![c] = Append(frames[c], f)]
  BY DEF Transmit
<1>2. Append(frames[c], f) \in Seq(AnyFrame)
  BY DEF FramesOK
<1> QED
  BY <1>1, <1>2 DEF FramesOK

LEMMA TakeOK ==
    ASSUME FramesOK, NEW c \in Conns, frames[c] # <<>>
    PROVE  /\ Head(frames[c]) \in AnyFrame
           /\ [frames EXCEPT ![c] = Tail(@)] \in [Conns -> Seq(AnyFrame)]
           /\ [frames EXCEPT ![c] = <<>>] \in [Conns -> Seq(AnyFrame)]
<1>1. frames[c] \in Seq(AnyFrame)
  BY DEF FramesOK
<1>2. Head(frames[c]) \in AnyFrame /\ Tail(frames[c]) \in Seq(AnyFrame) /\ <<>> \in Seq(AnyFrame)
  BY <1>1
<1> QED
  BY <1>2 DEF FramesOK

LEMMA NextFrames ==
    ASSUME FramesOK, [Next]_vars
    PROVE  FramesOK'
<1>1. ASSUME NEW c \in Conns, NEW m \in Msgs, ClientAck(c, m) PROVE FramesOK'
  <2>1. Frame("ack", m) \in AnyFrame
    BY DEF Frame, AnyFrame
  <2> QED
    BY <1>1, <2>1, TransmitOK DEF ClientAck
<1>2. ASSUME NEW c \in Conns, NEW u \in Ups, NEW cmd \in {"upstream", "unknown"},
             ClientSend(c, cmd, u)
      PROVE  FramesOK'
  <2>1. Frame(cmd, u) \in AnyFrame
    BY DEF Frame, AnyFrame
  <2> QED
    BY <1>2, <2>1, TransmitOK DEF ClientSend
<1>3. ASSUME NEW c \in Conns, NEW cmd \in OtherCmds, ClientOther(c, cmd) PROVE FramesOK'
  <2>1. Frame(cmd, NoId) \in AnyFrame
    BY MessagingAssumption DEF Frame, AnyFrame
  <2> QED
    BY <1>3, <2>1, TransmitOK DEF ClientOther
<1>4. ASSUME NEW c \in Conns, LeaveLoop(c) \/ NoIdFrame(c) \/ Dedup(c) \/ DedupFailed(c)
      PROVE  FramesOK'
  <2>1. frames[c] # <<>>
    BY <1>4 DEF LeaveLoop, NoIdFrame, Dedup, DedupFailed, TakeFrame
  <2>2. frames' \in {[frames EXCEPT ![c] = Tail(@)], [frames EXCEPT ![c] = <<>>]}
    BY <1>4 DEF LeaveLoop, NoIdFrame, Dedup, DedupFailed, TakeFrame
  <2> QED
    BY <2>1, <2>2, TakeOK DEF FramesOK
<1>5. ASSUME NEW c \in Conns, SendAck(c) PROVE FramesOK'
  <2>1. frames' \in {frames, [frames EXCEPT ![c] = <<>>]}
    BY <1>5 DEF SendAck
  <2>2. <<>> \in Seq(AnyFrame)
    OBVIOUS
  <2> QED
    BY <2>1, <2>2 DEF FramesOK
<1>6. ASSUME UNCHANGED frames PROVE FramesOK'
  BY <1>6 DEF FramesOK
<1>7. ASSUME NEW c \in Conns, \/ HandleAck(c) \/ HandleUnknown(c) \/ Forward(c) \/ CloseConn(c)
                              \/ \E m \in Msgs : Retransmit(c, m)
      PROVE  UNCHANGED frames
  BY <1>7 DEF HandleAck, HandleUnknown, Forward, CloseConn, Retransmit
<1>8. ASSUME NEW p \in Partitions, ConsumerStep(p) \/ \E m \in Msgs : Consume(p, m)
      PROVE  UNCHANGED frames
  BY <1>8 DEF ConsumerStep, Start, Push, Consume
<1>9. ASSUME \/ CloseManager \/ \E u \in Ups : WriteLater(u)
             \/ \E id \in Msgs \cup Ups : Expire(id)
             \/ Quiet \/ UNCHANGED vars
      PROVE  UNCHANGED frames
  BY <1>9 DEF CloseManager, WriteLater, Expire, Quiet, vars
<1> QED
  BY <1>1, <1>2, <1>3, <1>4, <1>5, <1>6, <1>7, <1>8, <1>9 DEF Next, HandlerStep

\* A step keeps the allowance of u: nobody new has the message, or with a new life of the
\* key one more; the handler that leaves frees what it may write.
LEMMA ForwardStep ==
    ASSUME UpInv, UpTypes', NEW u \in Ups, NEW c,
           LET used == forwarded[u] + queued[u]
               uses == forwarded'[u] + queued'[u]
           IN  \/ /\ Handlers(u)' \subseteq Handlers(u) /\ lives'[u] >= lives[u] /\ uses <= used
               \/ /\ Handlers(u)' \subseteq Handlers(u) \cup {c} /\ lives'[u] = lives[u] + 1 /\ uses <= used
               \/ /\ c \in Handlers(u) /\ Handlers(u)' \subseteq Handlers(u) \ {c}
                  /\ lives'[u] = lives[u] /\ uses <= used + MaxAttempts
    PROVE  forwarded'[u] + queued'[u] + MaxAttempts * Cardinality(Handlers(u)')
              <= MaxAttempts * lives'[u]
<1> DEFINE used == forwarded[u] + queued[u]
           uses == forwarded'[u] + queued'[u]
           H == Cardinality(Handlers(u))
           G == Cardinality(Handlers(u)')
<1>1. Handlers(u) \in SUBSET Conns /\ Handlers(u)' \in SUBSET Conns
  BY DEF Handlers
<1>2. H \in Nat /\ G \in Nat
  BY <1>1, CountStep, MessagingAssumption
<1>3. used \in Nat /\ uses \in Nat /\ lives[u] \in Nat /\ lives'[u] \in Nat
  BY DEF UpInv, UpTypes
<1>4. \/ G <= H /\ lives[u] <= lives'[u] /\ uses <= used
      \/ G <= H + 1 /\ lives'[u] = lives[u] + 1 /\ uses <= used
      \/ G + 1 <= H /\ lives[u] = lives'[u] /\ uses <= used + MaxAttempts
  BY <1>1, <1>3, CountStep, MessagingAssumption
<1>5. used + MaxAttempts * H <= MaxAttempts * lives[u]
  BY DEF UpInv, ForwardAllowance
<1> DEFINE l == lives[u]
           k == lives'[u]
<1> HIDE DEF used, uses, H, G, l, k
<1>6. /\ MaxAttempts * H \in Nat /\ MaxAttempts * G \in Nat
      /\ MaxAttempts * l \in Nat /\ MaxAttempts * k \in Nat
      /\ G <= H => MaxAttempts * G <= MaxAttempts * H
      /\ G <= H + 1 => MaxAttempts * G <= MaxAttempts * H + MaxAttempts
      /\ G + 1 <= H => MaxAttempts * G + MaxAttempts <= MaxAttempts * H
      /\ l <= k => MaxAttempts * l <= MaxAttempts * k
      /\ k = l + 1 => MaxAttempts * k = MaxAttempts * l + MaxAttempts
  BY <1>2, <1>3, TimesStep, MessagingAssumption DEF l, k
<1>7. uses + MaxAttempts * G <= MaxAttempts * k
  <2> DEFINE mh == MaxAttempts * H
             mg == MaxAttempts * G
             ml == MaxAttempts * l
             mk == MaxAttempts * k
  <2>1. /\ mh \in Nat /\ mg \in Nat /\ ml \in Nat /\ mk \in Nat
        /\ used + mh <= ml
        /\ \/ mg <= mh /\ ml <= mk /\ uses <= used
           \/ mg <= mh + MaxAttempts /\ mk = ml + MaxAttempts /\ uses <= used
           \/ mg + MaxAttempts <= mh /\ ml = mk /\ uses <= used + MaxAttempts
    BY <1>4, <1>5, <1>6 DEF l, k
  <2> HIDE DEF mh, mg, ml, mk
  <2>2. uses + mg <= mk
    BY <1>3, <2>1, MessagingAssumption
  <2> QED
    BY <2>2 DEF mg, mk
<1> QED
  BY <1>7 DEF uses, G, k

\* What a step leaves of the invariant when no message is taken up, forwarded or answered:
\* handlers may come to rest and keys may be set.
LEMMA QuietUpInv ==
    ASSUME UpInv, FramesOK', UNCHANGED <<forwarded, queued, answer>>,
           lives' \in [Ups -> Nat], \A u \in Ups : lives'[u] >= lives[u],
           handler' \in [Conns -> AnyHandler],
           \A c \in Conns : handler'[c] = handler[c] \/ handler'[c] = Resting
    PROVE  UpInv'
<1>1. UpTypes'
  BY DEF UpInv, UpTypes, FramesOK
<1>2. \A c \in Conns : handler'[c].pc # "idle" => handler'[c] = handler[c]
  BY DEF Resting
<1>3. ForwardAllowance'
  <2> SUFFICES ASSUME NEW u \in Ups
               PROVE  forwarded'[u] + queued'[u] + MaxAttempts * Cardinality(Handlers(u)')
                         <= MaxAttempts * lives'[u]
    BY DEF ForwardAllowance
  <2>1. Handlers(u)' \subseteq Handlers(u)
    BY <1>2 DEF Handlers
  <2>2. forwarded'[u] + queued'[u] <= forwarded[u] + queued[u]
    BY DEF UpInv, UpTypes
  <2> QED
    BY <1>1, <2>1, <2>2, ForwardStep
<1>4. ResultTrue' /\ AckTruthful'
  BY <1>2 DEF UpInv, ResultTrue, AckTruthful
<1> QED
  BY <1>1, <1>3, <1>4 DEF UpInv

\* A key is set, anew or not.
LEMMA SetKeyLives ==
    ASSUME UpInv, NEW id, SetKey(id)
    PROVE  /\ lives' \in [Ups -> Nat]
           /\ \A u \in Ups : lives'[u] = IF u = id /\ u \notin cache THEN lives[u] + 1 ELSE lives[u]
<1>1. lives \in [Ups -> Nat]
  BY DEF UpInv, UpTypes
<1> QED
  BY <1>1 DEF SetKey

\* SetNX finds no key: with a new life of it the message gets a handler.
LEMMA DedupUpInv ==
    ASSUME UpInv, FramesOK', NEW c \in Conns, Dedup(c)
    PROVE  UpInv'
<1> DEFINE f == Head(frames[c])
           h == [pc |-> "handle", frame |-> f, ok |-> FALSE]
<1>1. FramesOK /\ UNCHANGED <<forwarded, queued, answer>>
  BY DEF Dedup, UpInv, UpTypes, FramesOK, clientVars, topicVars
<1>2. f \in AnyFrame
  BY <1>1, TakeOK DEF Dedup, TakeFrame
<1>3. CASE f.id \in cache
  <2>1. UNCHANGED <<lives, handler>>
    BY <1>3 DEF Dedup, FirstSeen, keyVars
  <2> QED
    BY <1>1, <2>1, QuietUpInv DEF UpInv, UpTypes
<1>4. CASE f.id \notin cache
  <2>1. SetKey(f.id) /\ handler' = [handler EXCEPT ![c] = h]
    BY <1>4 DEF Dedup, FirstSeen
  <2>2. /\ lives' \in [Ups -> Nat]
        /\ \A u \in Ups : lives'[u] = IF u = f.id THEN lives[u] + 1 ELSE lives[u]
    BY <1>4, <2>1, SetKeyLives
  <2>3. UpTypes'
    <3>1. h \in AnyHandler
      BY <1>2 DEF AnyHandler
    <3> HIDE DEF h
    <3> QED
      BY <1>1, <2>1, <2>2, <3>1 DEF UpInv, UpTypes, FramesOK
  <2>4. /\ handler'[c].pc = "handle" /\ handler'[c].frame.id = f.id
        /\ \A d \in Conns \ {c} : handler'[d] = handler[d]
    BY <2>1 DEF UpInv, UpTypes
  <2> HIDE DEF f, h
  <2>5. ForwardAllowance'
    <3> SUFFICES ASSUME NEW u \in Ups
                 PROVE  forwarded'[u] + queued'[u] + MaxAttempts * Cardinality(Handlers(u)')
                           <= MaxAttempts * lives'[u]
      BY DEF ForwardAllowance
    <3>1. /\ Handlers(u)' \subseteq Handlers(u) \cup {c}
          /\ u # f.id => Handlers(u)' \subseteq Handlers(u)
      BY <2>4 DEF Handlers
    <3>2. forwarded'[u] + queued'[u] <= forwarded[u] + queued[u] /\ lives[u] \in Nat
      BY <1>1 DEF UpInv, UpTypes
    <3>3. CASE u = f.id
      BY <2>2, <2>3, <3>1, <3>2, <3>3, ForwardStep
    <3>4. CASE u # f.id
      BY <2>2, <2>3, <3>1, <3>2, <3>4, ForwardStep
    <3> QED
      BY <3>3, <3>4
  <2>6. ResultTrue' /\ AckTruthful'
    BY <1>1, <2>4 DEF UpInv, ResultTrue, AckTruthful
  <2> QED
    BY <2>3, <2>5, <2>6 DEF UpInv
<1> QED
  BY <1>3, <1>4

\* Produce: the handler leaves with the copies written and the attempts to come.
LEMMA ForwardUpInv ==
    ASSUME UpInv, FramesOK', NEW c \in Conns, Forward(c)
    PROVE  UpInv'
<1> DEFINE id == handler[c].frame.id
<1>1. UNCHANGED <<lives, answer>> /\ handler[c].pc = "handle"
  BY DEF Forward, Handling, clientVars, keyVars
<1>2. PICK ok \in BOOLEAN, written \in 0..MaxAttempts, later \in 0..MaxAttempts :
        /\ written + later <= MaxAttempts
        /\ ok => written > 0
        /\ handler' = [handler EXCEPT ![c].pc = "ack", ![c].ok = ok]
        /\ forwarded' = [forwarded EXCEPT ![id] = forwarded[id] + written]
        /\ queued' = [queued EXCEPT ![id] = queued[id] + later]
  BY DEF Forward, AckSuccess
<1>3. /\ handler'[c].pc = "ack" /\ handler'[c].frame.id = id /\ handler'[c].ok = ok
      /\ \A d \in Conns \ {c} : handler'[d] = handler[d]
      /\ handler' \in [Conns -> AnyHandler]
  BY <1>2 DEF UpInv, UpTypes, AnyHandler
<1>4. written \in Nat /\ later \in Nat
  BY <1>2, MessagingAssumption
<1>5. /\ forwarded \in [Ups -> Nat] /\ queued \in [Ups -> Nat]
      /\ forwarded' \in [Ups -> Nat] /\ queued' \in [Ups -> Nat]
      /\ \A u \in Ups : /\ forwarded'[u] = IF u = id THEN forwarded[u] + written ELSE forwarded[u]
                        /\ queued'[u] = IF u = id THEN queued[u] + later ELSE queued[u]
  <2>1. forwarded \in [Ups -> Nat] /\ queued \in [Ups -> Nat]
    BY DEF UpInv, UpTypes
  <2>2. ASSUME NEW g \in [Ups -> Nat], NEW i, NEW n \in Nat
        PROVE  /\ \A u \in Ups : [g EXCEPT ![i] = g[i] + n][u] = IF u = i THEN g[u] + n ELSE g[u]
               /\ [g EXCEPT ![i] = g[i] + n] \in [Ups -> Nat]
    <3>1. \A u \in Ups : [g EXCEPT ![i] = g[i] + n][u] = IF u = i THEN g[u] + n ELSE g[u]
      OBVIOUS
    <3>2. \A u \in Ups : [g EXCEPT ![i] = g[i] + n][u] \in Nat
      BY <3>1
    <3> QED
      BY <3>1, <3>2
  <2> HIDE DEF id
  <2> QED
    BY <1>2, <1>4, <2>1, <2>2
<1>6. UpTypes'
  BY <1>1, <1>3, <1>5 DEF UpInv, UpTypes, FramesOK
<1>7. ForwardAllowance'
  <2> SUFFICES ASSUME NEW u \in Ups
               PROVE  forwarded'[u] + queued'[u] + MaxAttempts * Cardinality(Handlers(u)')
                         <= MaxAttempts * lives'[u]
    BY DEF ForwardAllowance
  <2>1. /\ Handlers(u)' \subseteq Handlers(u) /\ lives'[u] = lives[u] /\ lives[u] \in Nat
        /\ u = id => c \in Handlers(u) /\ Handlers(u)' \subseteq Handlers(u) \ {c}
    BY <1>1, <1>3 DEF Handlers, UpInv, UpTypes
  <2>2. CASE u = id
    <3>1. forwarded'[u] + queued'[u] <= forwarded[u] + queued[u] + MaxAttempts
      BY <1>2, <1>4, <1>5, <2>2, MessagingAssumption
    <3> QED
      BY <1>6, <2>1, <2>2, <3>1, ForwardStep
  <2>3. CASE u # id
    <3>1. forwarded'[u] + queued'[u] <= forwarded[u] + queued[u]
      BY <1>5, <2>3
    <3> QED
      BY <1>6, <2>1, <3>1, ForwardStep
  <2> QED
    BY <2>2, <2>3
<1>8. \A u \in Ups : /\ forwarded[u] > 0 => forwarded'[u] > 0
                     /\ u = id /\ ok => forwarded'[u] > 0
  BY <1>2, <1>4, <1>5
<1>9. ResultTrue' /\ AckTruthful'
  BY <1>1, <1>3, <1>8 DEF UpInv, ResultTrue, AckTruthful
<1> QED
  BY <1>6, <1>7, <1>9 DEF UpInv

\* An attempt after Produce was reserved when Produce returned.
LEMMA WriteLaterUpInv ==
    ASSUME UpInv, FramesOK', NEW v \in Ups, WriteLater(v)
    PROVE  UpInv'
<1>1. UNCHANGED <<lives, handler, answer>>
  BY DEF WriteLater, clientVars, keyVars
<1>2. PICK written \in {0, 1} : forwarded' = [forwarded EXCEPT ![v] = forwarded[v] + written]
  BY DEF WriteLater
<1>3. queued[v] > 0 /\ queued' = [queued EXCEPT ![v] = queued[v] - 1]
  BY DEF WriteLater
<1>4. forwarded \in [Ups -> Nat] /\ queued \in [Ups -> Nat]
  BY DEF UpInv, UpTypes
<1>5. /\ forwarded' \in [Ups -> Nat] /\ queued' \in [Ups -> Nat]
      /\ \A u \in Ups : /\ forwarded'[u] = IF u = v THEN forwarded[u] + written ELSE forwarded[u]
                        /\ queued'[u] = IF u = v THEN queued[u] - 1 ELSE queued[u]
  BY <1>2, <1>3, <1>4
<1>6. UpTypes'
  BY <1>1, <1>5 DEF UpInv, UpTypes, FramesOK
<1>7. ForwardAllowance'
  <2> SUFFICES ASSUME NEW u \in Ups
               PROVE  forwarded'[u] + queued'[u] + MaxAttempts * Cardinality(Handlers(u)')
                         <= MaxAttempts * lives'[u]
    BY DEF ForwardAllowance
  <2>1. Handlers(u)' \subseteq Handlers(u) /\ lives'[u] >= lives[u]
    BY <1>1 DEF Handlers, UpInv, UpTypes
  <2>2. forwarded'[u] + queued'[u] <= forwarded[u] + queued[u]
    BY <1>2, <1>4, <1>5
  <2> QED
    BY <1>6, <2>1, <2>2, ForwardStep
<1>8. \A u \in Ups : forwarded[u] > 0 => forwarded'[u] > 0
  BY <1>2, <1>4, <1>5
<1>9. ResultTrue' /\ AckTruthful'
  BY <1>1, <1>8 DEF UpInv, ResultTrue, AckTruthful
<1> QED
  BY <1>6, <1>7, <1>9 DEF UpInv

\* The ack repeats the result.
LEMMA SendAckUpInv ==
    ASSUME UpInv, FramesOK', NEW c \in Conns, SendAck(c)
    PROVE  UpInv'
<1> DEFINE id == handler[c].frame.id
           word == IF handler[c].ok THEN "success" ELSE "failure"
<1>1. UNCHANGED <<lives, forwarded, queued>> /\ handler[c].pc = "ack"
      /\ handler' = [handler EXCEPT ![c] = Resting]
  BY DEF SendAck, Finish, topicVars, keyVars
<1>2. answer' \in {answer, [answer EXCEPT ![c] = [answer[c] EXCEPT ![id] = word]]}
  BY DEF SendAck
<1>3. /\ answer' \in [Conns -> [Ups -> {"none", "success", "failure"}]]
      /\ \A d \in Conns, u \in Ups :
            answer'[d][u] = answer[d][u] \/ (u = id /\ answer'[d][u] = word)
  <2>1. answer[c] \in [Ups -> {"none", "success", "failure"}]
    BY DEF UpInv, UpTypes
  <2>2. word \in {"success", "failure"}
    OBVIOUS
  <2> HIDE DEF word, id
  <2>3. [answer[c] EXCEPT ![id] = word] \in [Ups -> {"none", "success", "failure"}]
    BY <2>1, <2>2
  <2>4. \A u \in Ups : [answer[c] EXCEPT ![id] = word][u] = IF u = id THEN word ELSE answer[c][u]
    BY <2>1
  <2>5. CASE answer' = answer
    BY <2>5 DEF UpInv, UpTypes
  <2>6. CASE answer' = [answer EXCEPT ![c] = [answer[c] EXCEPT ![id] = word]]
    <3> DEFINE new == [answer[c] EXCEPT ![id] = word]
    <3>1. answer \in [Conns -> [Ups -> {"none", "success", "failure"}]]
      BY DEF UpInv, UpTypes
    <3> HIDE DEF new
    <3>2. answer' = [answer EXCEPT ![c] = new] /\ new \in [Ups -> {"none", "success", "failure"}]
      BY <2>3, <2>6 DEF new
    <3>3. \A u \in Ups : new[u] = answer[c][u] \/ (u = id /\ new[u] = word)
      BY <2>4 DEF new
    <3> QED
      BY <3>1, <3>2, <3>3
  <2> QED
    BY <1>2, <2>5, <2>6
<1>4. \A u \in Ups : u = id /\ word = "success" => forwarded[u] > 0
  BY <1>1 DEF UpInv, ResultTrue
<1>5. UpTypes' /\ \A d \in Conns : handler'[d].pc # "idle" => handler'[d] = handler[d]
  <2>1. Resting \in AnyHandler
    BY DEF Resting, Frame, AnyFrame, AnyHandler
  <2>2. handler' \in [Conns -> AnyHandler]
    BY <1>1, <2>1 DEF UpInv, UpTypes
  <2> QED
    BY <1>1, <1>3, <2>2 DEF UpInv, UpTypes, FramesOK, Resting
<1>6. ForwardAllowance'
  <2> SUFFICES ASSUME NEW u \in Ups
               PROVE  forwarded'[u] + queued'[u] + MaxAttempts * Cardinality(Handlers(u)')
                         <= MaxAttempts * lives'[u]
    BY DEF ForwardAllowance
  <2>1. Handlers(u)' \subseteq Handlers(u)
    BY <1>5 DEF Handlers
  <2>2. forwarded'[u] + queued'[u] <= forwarded[u] + queued[u] /\ lives'[u] >= lives[u]
    BY <1>1 DEF UpInv, UpTypes
  <2> QED
    BY <1>5, <2>1, <2>2, ForwardStep
<1>7. ResultTrue'
  BY <1>1, <1>5 DEF UpInv, ResultTrue
<1>8. AckTruthful'
  <2> HIDE DEF word, id
  <2> QED
    BY <1>1, <1>3, <1>4 DEF UpInv, AckTruthful
<1> QED
  BY <1>5, <1>6, <1>7, <1>8 DEF UpInv

LEMMA NextUpInv == UpInv /\ [Next]_vars => UpInv'
<1> SUFFICES ASSUME UpInv, [Next]_vars PROVE UpInv'
  OBVIOUS
<1>1. FramesOK'
  BY NextFrames DEF UpInv, UpTypes, FramesOK
<1>2. ASSUME UNCHANGED <<lives, handler, forwarded, queued, answer>> PROVE UpInv'
  BY <1>1, <1>2, QuietUpInv DEF UpInv, UpTypes
<1>3. ASSUME NEW c \in Conns, HandleAck(c) \/ HandleUnknown(c) PROVE UpInv'
  <2>1. UNCHANGED <<lives, forwarded, queued, answer>>
        /\ handler' = [handler EXCEPT ![c] = Resting]
    BY <1>3 DEF HandleAck, HandleUnknown, Finish, topicVars, keyVars, clientVars
  <2>2. Resting \in AnyHandler
    BY DEF Resting, Frame, AnyFrame, AnyHandler
  <2>3. /\ handler' \in [Conns -> AnyHandler]
        /\ \A d \in Conns : handler'[d] = handler[d] \/ handler'[d] = Resting
    BY <2>1, <2>2 DEF UpInv, UpTypes
  <2> QED
    BY <1>1, <2>1, <2>3, QuietUpInv DEF UpInv, UpTypes
<1>4. ASSUME NEW c \in Conns, DedupFailed(c) PROVE UpInv'
  <2>1. UNCHANGED <<handler, forwarded, queued, answer>>
        /\ (UNCHANGED lives \/ SetKey(Head(frames[c]).id))
    BY <1>4 DEF DedupFailed, topicVars, keyVars, clientVars
  <2>2. lives' \in [Ups -> Nat] /\ \A u \in Ups : lives'[u] >= lives[u]
    <3>1. lives \in [Ups -> Nat]
      BY DEF UpInv, UpTypes
    <3>2. CASE UNCHANGED lives
      BY <3>1, <3>2
    <3>3. CASE SetKey(Head(frames[c]).id)
      <4>1. /\ lives' \in [Ups -> Nat]
            /\ \A u \in Ups : lives'[u] = lives[u] \/ lives'[u] = lives[u] + 1
        BY <3>3, SetKeyLives
      <4> QED
        BY <3>1, <4>1
    <3> QED
      BY <2>1, <3>2, <3>3
  <2> QED
    BY <1>1, <2>1, <2>2, QuietUpInv DEF UpInv, UpTypes
<1>5. ASSUME NEW c \in Conns, \/ LeaveLoop(c) \/ NoIdFrame(c) \/ CloseConn(c)
                              \/ \E m \in Msgs : Retransmit(c, m) \/ ClientAck(c, m)
                              \/ \E u \in Ups, cmd \in {"upstream", "unknown"} : ClientSend(c, cmd, u)
                              \/ \E cmd \in OtherCmds : ClientOther(c, cmd)
      PROVE  UNCHANGED <<lives, handler, forwarded, queued, answer>>
  BY <1>5 DEF LeaveLoop, NoIdFrame, CloseConn, Retransmit, ClientAck, ClientSend, ClientOther,
              upVars, topicVars, keyVars, clientVars
<1>6. ASSUME NEW p \in Partitions, ConsumerStep(p) \/ \E m \in Msgs : Consume(p, m)
      PROVE  UNCHANGED <<lives, handler, forwarded, queued, answer>>
  BY <1>6 DEF ConsumerStep, Start, Push, Consume, upVars, topicVars, keyVars, clientVars
<1>7. ASSUME CloseManager \/ (\E id \in Msgs \cup Ups : Expire(id)) \/ Quiet \/ UNCHANGED vars
      PROVE  UNCHANGED <<lives, handler, forwarded, queued, answer>>
  BY <1>7 DEF CloseManager, Expire, Quiet, vars, upVars, topicVars, keyVars, clientVars
<1> QED
  BY <1>1, <1>2, <1>3, <1>4, <1>5, <1>6, <1>7, DedupUpInv, ForwardUpInv, WriteLaterUpInv,
     SendAckUpInv
  DEF Next, HandlerStep

\* A message that several devices send, or one device again, is written to the topic at
\* most MaxAttempts times in a life of its de-duplication key, late writes and keys that
\* expire under their handler included: for any number of devices, messages and attempts.
THEOREM OncePerKey == Spec => []ForwardedPerKey
<1>1. ASSUME UpInv PROVE ForwardedPerKey
  <2> SUFFICES ASSUME NEW u \in Ups PROVE forwarded[u] <= MaxAttempts * lives[u]
    BY DEF ForwardedPerKey
  <2>1. Handlers(u) \in SUBSET Conns
    BY DEF Handlers
  <2>2. Cardinality(Handlers(u)) \in Nat
    BY <2>1, CountStep, MessagingAssumption
  <2>3. forwarded[u] \in Nat /\ queued[u] \in Nat /\ lives[u] \in Nat
    BY <1>1 DEF UpInv, UpTypes
  <2> DEFINE mh == MaxAttempts * Cardinality(Handlers(u))
             ml == MaxAttempts * lives[u]
  <2>4. mh \in Nat /\ ml \in Nat
    BY <2>2, <2>3, TimesStep, MessagingAssumption
  <2>5. forwarded[u] + queued[u] + mh <= ml
    BY <1>1 DEF UpInv, ForwardAllowance
  <2>6. forwarded[u] <= ml
    <3> HIDE DEF mh, ml
    <3> QED
      BY <2>3, <2>4, <2>5
  <2> QED
    BY <2>6
<1> QED
  BY <1>1, InitUpInv, NextUpInv, PTL DEF Spec

\* Whatever Redis, Kafka and the connections do, a client that is told "success" finds its
\* message in the backend's topic.
THEOREM Truthful == Spec => []AckTruthful
<1>1. UpInv => AckTruthful
  BY DEF UpInv
<1> QED
  BY <1>1, InitUpInv, NextUpInv, PTL DEF Spec
===============================================================================
