---------------------------- MODULE ConsumerProofs ----------------------------
(***************************************************************************)
(* The gateways' consumer group, for any number of gateways, members,      *)
(* partitions and messages, any channel size and any number of rebalances, *)
(* stops and crashes.                                                      *)
(*                                                                         *)
(* What a member has read (Seen) is what it handled and what it holds, in  *)
(* this order.  It only grows, and only by the message after the position  *)
(* of a partition the member owns.  The properties follow from what Seen   *)
(* says about the positions: everything between the point where reading    *)
(* began with nothing committed and a position was seen by some member     *)
(* (PositionSeen), and a message was seen once per assignment of its       *)
(* partition, once less if the present owner has not come to it yet        *)
(* (SeenPerAssignment).                                                    *)
(***************************************************************************)
EXTENDS Consumer, SequenceTheorems, FiniteSetTheorems, TLAPS

Seen(m) == handled[m] \o Held(m)

TypeOK ==
    /\ end \in [Partitions -> 0..Size] /\ origin \in [Partitions -> 0..Size]
    /\ committed \in [Partitions -> {NoOffset} \cup 0..Size] /\ position \in [Partitions -> 0..Size]
    /\ owner \in [Partitions -> Members \cup {None}]
    /\ assigned \in [Partitions -> Nat]
    /\ rd \in [Members -> {"off", "read", "send", "done"}]
    /\ lp \in [Members -> {"off", "failed", "select", "handle", "done"}]
    /\ cur \in [Members -> Seq(Messages)] /\ chan \in [Members -> Seq(Messages)]
    /\ hand \in [Members -> Seq(Messages)] /\ handled \in [Members -> Seq(Messages)]

\* readMessage has a message only to send it, consume only to handle it, and the
\* channel keeps its capacity.
LocalsOK ==
    \A m \in Members :
        /\ Len(chan[m]) <= ChanSize
        /\ Len(cur[m]) <= 1 /\ (rd[m] \in {"off", "read"} => cur[m] = <<>>)
        /\ Len(hand[m]) <= 1
        /\ IF lp[m] = "handle" THEN Len(hand[m]) = 1 ELSE hand[m] = <<>>

\* What was committed was read, and what was not skipped before reading began was seen by
\* some member.
PositionSeen ==
    \A p \in Partitions :
        /\ committed[p] <= position[p]
        /\ \A i \in 1..position[p] : i <= origin[p] \/ \E m \in Members : <<p, i>> \in Range(Seen(m))

\* The places at which a message stands in what the members have seen.
Places(msg) ==
    UNION {{m} \X {k \in DOMAIN Seen(m) : Seen(m)[k] = msg} : m \in Members}

\* The present owner's reading of the partition has not come to the message.
Ahead(p, i) == assigned[p] > 0 /\ position[p] < i

SeenPerAssignment ==
    /\ \A p \in Partitions : owner[p] # None => assigned[p] > 0
    /\ \A p \in Partitions, i \in 1..Size :
          /\ IsFiniteSet(Places(<<p, i>>))
          /\ Cardinality(Places(<<p, i>>)) <= assigned[p] - (IF Ahead(p, i) THEN 1 ELSE 0)

IndInv == TypeOK /\ LocalsOK /\ PositionSeen /\ SeenPerAssignment

\* Start begins with empty pipelines and nothing committed.
LEMMA InitTypeOK == Init => TypeOK /\ LocalsOK
<1> SUFFICES ASSUME Init PROVE TypeOK /\ LocalsOK
  OBVIOUS
<1>1. <<>> \in Seq(Messages) /\ Len(<<>>) = 0
  BY EmptySeq
<1> QED
  BY <1>1, ConsumerAssumption DEF Init, TypeOK, LocalsOK, NoOffset

\* Every step keeps the types and the locals of the goroutines.
LEMMA NextTypeOK == TypeOK /\ LocalsOK /\ [Next]_vars => TypeOK' /\ LocalsOK'
<1> SUFFICES ASSUME TypeOK, LocalsOK, [Next]_vars PROVE TypeOK' /\ LocalsOK'
  OBVIOUS
<1> USE ConsumerAssumption DEF TypeOK, LocalsOK, kafkaVars, readerVars, loopVars
<1>1. ASSUME NEW p \in Partitions, Commit(p) PROVE TypeOK' /\ LocalsOK'
  BY <1>1 DEF Commit
<1>14. ASSUME NEW p \in Partitions, Produce(p) PROVE TypeOK' /\ LocalsOK'
  BY <1>14 DEF Produce
<1>2. ASSUME NEW p \in Partitions, NEW m \in Members, Assign(p, m) PROVE TypeOK' /\ LocalsOK'
  <2>1. assigned' \in [Partitions -> Nat]
    BY <1>2, SMTT(30) DEF Assign
  <2>2. owner' \in [Partitions -> Members \cup {None}]
    BY <1>2 DEF Assign
  <2>3. position' \in [Partitions -> 0..Size] /\ origin' \in [Partitions -> 0..Size]
    <3>1. FirstOffset(p) \in 0..Size
      BY DEF FirstOffset
    <3>2. CASE committed[p] = NoOffset
      <4>1. position' = [position EXCEPT ![p] = FirstOffset(p)]
            /\ origin' = [origin EXCEPT ![p] = FirstOffset(p)]
        BY <1>2, <3>2, Zenon DEF Assign
      <4> HIDE DEF LocalsOK
      <4> QED
        BY <3>1, <4>1
    <3>3. CASE committed[p] # NoOffset
      BY <1>2, <3>3 DEF Assign
    <3> QED
      BY <3>2, <3>3
  <2>4. UNCHANGED <<end, committed, rd, cur, chan, lp, hand, handled>>
    BY <1>2 DEF Assign
  <2>5. TypeOK'
    BY <2>1, <2>2, <2>3, <2>4
  <2>6. LocalsOK'
    BY <2>4
  <2> QED
    BY <2>5, <2>6
<1>3. ASSUME NEW m \in Members, NewConsumer(m) PROVE TypeOK' /\ LocalsOK'
  BY <1>3 DEF NewConsumer
<1>4. ASSUME NEW m \in Members, ConsumeChan(m) PROVE TypeOK' /\ LocalsOK'
  BY <1>4 DEF ConsumeChan
<1>5. ASSUME NEW m \in Members, ReadMessage(m) PROVE TypeOK' /\ LocalsOK'
  <2>1. PICK p \in Partitions :
          /\ position[p] < end[p]
          /\ position' = [position EXCEPT ![p] = @ + 1]
          /\ cur' = [cur EXCEPT ![m] = <<<<p, position[p] + 1>>>>]
    BY <1>5 DEF ReadMessage
  <2>2. <<p, position[p] + 1>> \in Messages
    BY <2>1 DEF Messages
  <2>3. <<<<p, position[p] + 1>>>> \in Seq(Messages) /\ Len(<<<<p, position[p] + 1>>>>) = 1
    BY <2>2
  <2>4. position' \in [Partitions -> 0..Size]
    BY <2>1
  <2>5. /\ cur' \in [Members -> Seq(Messages)]
        /\ \A k \in Members : Len(cur'[k]) <= 1
        /\ \A k \in Members : k # m => cur'[k] = cur[k]
    BY <2>1, <2>3
  <2>6. rd' = [rd EXCEPT ![m] = "send"]
        /\ UNCHANGED <<end, committed, owner, assigned, origin, chan, lp, hand, handled>>
    BY <1>5 DEF ReadMessage
  <2>7. TypeOK'
    BY <2>4, <2>5, <2>6
  <2> QED
    BY <2>5, <2>6, <2>7
<1>6. ASSUME NEW m \in Members, Send(m) PROVE TypeOK' /\ LocalsOK'
  <2>1. chan[m] \o cur[m] \in Seq(Messages) /\ Len(chan[m] \o cur[m]) = Len(chan[m]) + Len(cur[m])
    BY ConcatProperties
  <2>2. Len(chan[m]) < ChanSize /\ Len(chan[m]) \in Nat /\ Len(cur[m]) \in Nat
    BY <1>6, LenProperties DEF Send, HasRoom
  <2>3. <<>> \in Seq(Messages) /\ Len(<<>>) = 0
    BY EmptySeq
  <2> QED
    BY <1>6, <2>1, <2>2, <2>3 DEF Send
<1>7. ASSUME NEW m \in Members, ReadEnd(m) PROVE TypeOK' /\ LocalsOK'
  BY <1>7 DEF ReadEnd
<1>8. ASSUME NEW m \in Members, Take(m) PROVE TypeOK' /\ LocalsOK'
  <2>1. Head(chan[m]) \in Messages /\ Tail(chan[m]) \in Seq(Messages)
        /\ Len(Tail(chan[m])) = Len(chan[m]) - 1
    BY <1>8, HeadTailProperties DEF Take
  <2>2. <<Head(chan[m])>> \in Seq(Messages) /\ Len(<<Head(chan[m])>>) = 1
    BY <2>1
  <2>3. Len(chan[m]) \in Nat
    BY LenProperties
  <2> QED
    <3>1. hand' = [hand EXCEPT ![m] = <<Head(chan[m])>>] /\ chan' = [chan EXCEPT ![m] = Tail(@)]
          /\ lp' = [lp EXCEPT ![m] = "handle"]
          /\ UNCHANGED <<kafkaVars, rd, cur, handled>>
      BY <1>8, Zenon DEF Take
    <3>2. TypeOK'
      BY <2>1, <2>2, <3>1
    <3>3. LocalsOK'
      BY <2>1, <2>2, <2>3, <3>1
    <3> QED
      BY <3>2, <3>3
<1>9. ASSUME NEW m \in Members, Handle(m) PROVE TypeOK' /\ LocalsOK'
  <2>1. handled[m] \o hand[m] \in Seq(Messages)
    BY ConcatProperties
  <2>2. <<>> \in Seq(Messages) /\ Len(<<>>) = 0
    BY EmptySeq
  <2>3. /\ handled' = [handled EXCEPT ![m] = handled[m] \o hand[m]]
        /\ hand' = [hand EXCEPT ![m] = <<>>]
        /\ lp' = [lp EXCEPT ![m] = "select"]
        /\ UNCHANGED <<kafkaVars, rd, cur, chan>>
    BY <1>9, Zenon DEF Handle, readerVars
  <2>4. TypeOK'
    BY <2>1, <2>2, <2>3
  <2>5. LocalsOK'
    BY <2>2, <2>3
  <2> QED
    BY <2>4, <2>5
<1>10. ASSUME NEW m \in Members, LoopEnd(m) PROVE TypeOK' /\ LocalsOK'
  BY <1>10 DEF LoopEnd
<1>11. ASSUME NEW m \in Members, Close(m) PROVE TypeOK' /\ LocalsOK'
  BY <1>11 DEF Close
<1>12. ASSUME NEW g \in Gateways, Stop(g) \/ Shutdown(g) \/ Crash(g) PROVE TypeOK' /\ LocalsOK'
  BY <1>12 DEF Stop, Shutdown, Crash
<1>13. CASE UNCHANGED vars
  BY <1>13 DEF vars
<1> HIDE ConsumerAssumption DEF TypeOK, LocalsOK, kafkaVars, readerVars, loopVars
<1> QED
  BY <1>1, <1>2, <1>3, <1>4, <1>5, <1>6, <1>7, <1>8, <1>9, <1>10, <1>11, <1>12, <1>13, <1>14
  DEF Next, StartStep, ReaderStep, LoopStep

(***************************************************************************)
(* The pipeline of a member: h was handled, a is in hand, q is in the      *)
(* channel, c was read and is not in the channel yet.                      *)
(***************************************************************************)
Stream(h, a, q, c) == h \o (a \o q \o c)

\* One name for the four types.
Parts(h, a, q, c) ==
    /\ h \in Seq(Messages) /\ a \in Seq(Messages)
    /\ q \in Seq(Messages) /\ c \in Seq(Messages)

Count(h, a, q, c) == Len(h) + Len(a) + Len(q) + Len(c)

LEMMA StreamIsSeq ==
    ASSUME NEW h, NEW a, NEW q, NEW c, Parts(h, a, q, c)
    PROVE  /\ Stream(h, a, q, c) \in Seq(Messages)
           /\ Len(Stream(h, a, q, c)) = Count(h, a, q, c)
           /\ \A i \in 1..Len(h) : Stream(h, a, q, c)[i] = h[i]
<1>0. h \in Seq(Messages) /\ a \in Seq(Messages) /\ q \in Seq(Messages) /\ c \in Seq(Messages)
  BY DEF Parts
<1>1. a \o q \in Seq(Messages) /\ Len(a \o q) = Len(a) + Len(q)
  BY <1>0, ConcatProperties
<1>2. a \o q \o c \in Seq(Messages) /\ Len(a \o q \o c) = Len(a) + Len(q) + Len(c)
  BY <1>0, <1>1, ConcatProperties
<1>3. Len(h) \in Nat /\ Len(a) \in Nat /\ Len(q) \in Nat /\ Len(c) \in Nat
  BY <1>0, LenProperties
<1> QED
  BY <1>0, <1>2, <1>3, ConcatProperties DEF Stream, Count

\* The send into the channel does not change the order.
LEMMA StreamSend ==
    ASSUME NEW h, NEW a, NEW q, NEW c, Parts(h, a, q, c)
    PROVE  Stream(h, a, q \o c, <<>>) = Stream(h, a, q, c)
<1>0. h \in Seq(Messages) /\ a \in Seq(Messages) /\ q \in Seq(Messages) /\ c \in Seq(Messages)
  BY DEF Parts
<1>1. q \o c \in Seq(Messages) /\ a \o (q \o c) \in Seq(Messages)
  BY <1>0, ConcatProperties
<1>2. a \o (q \o c) \o <<>> = a \o (q \o c)
  BY <1>0, <1>1, ConcatEmptySeq
<1>3. a \o q \o c = a \o (q \o c)
  BY <1>0, ConcatAssociative
<1> QED
  BY <1>0, <1>2, <1>3 DEF Stream

\* Nor does taking the head of the channel with empty hands.
LEMMA StreamTake ==
    ASSUME NEW h, NEW q, NEW c, Parts(h, <<>>, q, c), q # <<>>
    PROVE  Stream(h, <<Head(q)>>, Tail(q), c) = Stream(h, <<>>, q, c)
<1>0. h \in Seq(Messages) /\ q \in Seq(Messages) /\ c \in Seq(Messages)
  BY DEF Parts
<1>1. Head(q) \in Messages /\ Tail(q) \in Seq(Messages) /\ <<Head(q)>> \in Seq(Messages)
  BY <1>0, HeadTailProperties
<1>2. <<Head(q)>> \o Tail(q) = q
  BY <1>0, <1>1, HeadTailProperties, ConcatProperties, SeqEqual
<1>3. <<>> \o q = q
  BY <1>0, ConcatEmptySeq
<1> QED
  BY <1>0, <1>2, <1>3 DEF Stream

\* Nor does handling what is in hand.
LEMMA StreamHandle ==
    ASSUME NEW h, NEW a, NEW q, NEW c, Parts(h, a, q, c)
    PROVE  Stream(h \o a, <<>>, q, c) = Stream(h, a, q, c)
<1>0. h \in Seq(Messages) /\ a \in Seq(Messages) /\ q \in Seq(Messages) /\ c \in Seq(Messages)
  BY DEF Parts
<1>1. q \o c \in Seq(Messages)
  BY <1>0, ConcatProperties
<1>2. <<>> \o q = q
  BY <1>0, ConcatEmptySeq
<1>3. a \o q \o c = a \o (q \o c)
  BY <1>0, ConcatAssociative
<1> DEFINE r == q \o c
<1>4. h \o a \o r = h \o (a \o r)
  <2>1. r \in Seq(Messages)
    BY <1>0, <1>1
  <2> HIDE DEF r
  <2> QED
    BY <1>0, <2>1, ConcatAssociative, SMTT(30)
<1>5. Stream(h \o a, <<>>, q, c) = h \o a \o r
  BY <1>2, Zenon DEF Stream
<1>6. Stream(h, a, q, c) = h \o (a \o r)
  BY <1>3, Zenon DEF Stream
<1> QED
  BY <1>4, <1>5, <1>6, Zenon

\* A message read comes last.
LEMMA StreamRead ==
    ASSUME NEW h, NEW a, NEW q, NEW e \in Messages, Parts(h, a, q, <<>>)
    PROVE  Stream(h, a, q, <<e>>) = Append(Stream(h, a, q, <<>>), e)
<1>0. h \in Seq(Messages) /\ a \in Seq(Messages) /\ q \in Seq(Messages)
  BY DEF Parts
<1>1. a \o q \in Seq(Messages) /\ <<e>> \in Seq(Messages) /\ h \o (a \o q) \in Seq(Messages)
  BY <1>0, ConcatProperties
<1>2. a \o q \o <<>> = a \o q
  BY <1>0, <1>1, ConcatEmptySeq
<1>3. Append(h \o (a \o q), e) = h \o (a \o q) \o <<e>>
  BY <1>0, <1>1, AppendIsConcat
<1> DEFINE b == a \o q
<1>4. h \o b \o <<e>> = h \o (b \o <<e>>)
  <2>1. b \in Seq(Messages)
    BY <1>0, <1>1
  <2> HIDE DEF b
  <2> QED
    BY <1>0, <1>1, <2>1, ConcatAssociative, SMTT(30)
<1> QED
  BY <1>0, <1>2, <1>3, <1>4 DEF Stream

\* What is in hand is handled next.
LEMMA StreamNext ==
    ASSUME NEW h, NEW a, NEW q, NEW c, Parts(h, a, q, c), Len(a) = 1
    PROVE  h \o a = Append(h, Stream(h, a, q, c)[Len(h) + 1])
<1>0. h \in Seq(Messages) /\ a \in Seq(Messages) /\ q \in Seq(Messages) /\ c \in Seq(Messages)
  BY DEF Parts
<1>1. PICK e \in Messages : a = <<e>>
  <2>1. 1 \in 1..Len(a)
    BY <1>0
  <2>2. a[1] \in Messages
    BY <1>0, <2>1, ElementOfSeq
  <2>3. <<a[1]>> \in Seq(Messages) /\ Len(<<a[1]>>) = 1 /\ \A i \in 1..1 : <<a[1]>>[i] = a[i]
    BY <1>0, <2>2
  <2>4. a = <<a[1]>>
    BY <1>0, <2>3, SeqEqual
  <2> QED
    BY <1>0, <2>2, <2>4
<1>2. h \o a = Append(h, e)
  BY <1>0, <1>1, AppendIsConcat
<1> DEFINE b == a \o q
<1> DEFINE d == b \o c
<1>3. b \in Seq(Messages) /\ Len(b) = 1 + Len(q) /\ b[1] = e /\ Len(q) \in Nat /\ Len(c) \in Nat
  <2>1. a[1] = e /\ Len(q) \in Nat /\ Len(c) \in Nat
    BY <1>0, <1>1, LenProperties
  <2>2. b \in Seq(Messages) /\ Len(b) = Len(a) + Len(q)
        /\ \A i \in 1..Len(a) + Len(q) : b[i] = IF i <= Len(a) THEN a[i] ELSE q[i - Len(a)]
    BY <1>0, ConcatProperties
  <2>3. 1 \in 1..Len(a) + Len(q)
    BY <1>0, <2>1
  <2> HIDE DEF b
  <2> QED
    BY <1>0, <2>1, <2>2, <2>3
<1> HIDE DEF b
<1>4. d \in Seq(Messages) /\ Len(d) = 1 + Len(q) + Len(c) /\ d[1] = e
  <2>1. d \in Seq(Messages) /\ Len(d) = Len(b) + Len(c)
        /\ \A i \in 1..Len(b) + Len(c) : d[i] = IF i <= Len(b) THEN b[i] ELSE c[i - Len(b)]
    BY <1>0, <1>3, ConcatProperties
  <2>2. 1 \in 1..Len(b) + Len(c)
    BY <1>0, <1>3
  <2> HIDE DEF d
  <2> QED
    BY <1>0, <1>3, <2>1, <2>2
<1> HIDE DEF d
<1>5. Len(h) \in Nat /\ (h \o d)[Len(h) + 1] = e
  BY <1>0, <1>3, <1>4, ConcatProperties, LenProperties
<1>6. Stream(h, a, q, c) = h \o d
  BY DEF Stream, b, d
<1> QED
  BY <1>0, <1>2, <1>5, <1>6

(***************************************************************************)
(* What a step does to what the members have seen.                         *)
(***************************************************************************)
LoopEnded(m) == lp[m] \in {"failed", "done"}

\* Member m reads the next message of partition p.
Reads(m, p) ==
    /\ owner[p] = m /\ position[p] < Size
    /\ position' = [position EXCEPT ![p] = @ + 1]
    /\ Seen(m)' = Append(Seen(m), <<p, position[p] + 1>>)
    /\ Len(Seen(m)) < Len(handled[m]) + ChanSize + 2
    /\ \A k \in Members \ {m} : Seen(k)' = Seen(k)
    /\ UNCHANGED <<committed, owner, assigned, origin, handled, lp>>

\* A message moves on inside member m, or its loop ends.
Moves(m) ==
    /\ \/ UNCHANGED handled[m] /\ (LoopEnded(m) => LoopEnded(m)')
       \/ /\ ~LoopEnded(m) /\ ~LoopEnded(m)' /\ Len(handled[m]) < Len(Seen(m))
          /\ handled[m]' = Append(handled[m], Seen(m)[Len(handled[m]) + 1])
    /\ \A k \in Members \ {m} : UNCHANGED <<handled[k], lp[k]>>
    /\ \A k \in Members : Seen(k)' = Seen(k)
    /\ UNCHANGED kafkaVars

\* Only Kafka, or nobody, takes a step.
Stands ==
    /\ \/ UNCHANGED kafkaVars
       \/ \E p \in Partitions : Produce(p) \/ Commit(p) \/ \E m \in Members : Assign(p, m)
    /\ \A k \in Members : Seen(k)' = Seen(k)
    /\ UNCHANGED <<handled, lp>>

Shape ==
    \/ \E m \in Members, p \in Partitions : Reads(m, p)
    \/ \E m \in Members : Moves(m)
    \/ Stands

\* Seen as a stream, and what is known of its parts.
LEMMA SeenStream ==
    ASSUME TypeOK, LocalsOK, NEW m \in Members
    PROVE  /\ Seen(m) = Stream(handled[m], hand[m], chan[m], cur[m])
           /\ Parts(handled[m], hand[m], chan[m], cur[m])
           /\ Seen(m) \in Seq(Messages)
           /\ Len(Seen(m)) = Len(handled[m]) + Len(hand[m]) + Len(chan[m]) + Len(cur[m])
           /\ Len(handled[m]) \in Nat /\ Len(hand[m]) \in 0..1
           /\ Len(chan[m]) \in 0..ChanSize /\ Len(cur[m]) \in 0..1
           /\ \A i \in 1..Len(handled[m]) : Seen(m)[i] = handled[m][i]
<1>1. Seen(m) = Stream(handled[m], hand[m], chan[m], cur[m])
  BY DEF Seen, Held, Stream
<1>2. handled[m] \in Seq(Messages) /\ hand[m] \in Seq(Messages)
      /\ chan[m] \in Seq(Messages) /\ cur[m] \in Seq(Messages)
  BY DEF TypeOK
<1>3. Len(handled[m]) \in Nat /\ Len(hand[m]) \in Nat /\ Len(chan[m]) \in Nat /\ Len(cur[m]) \in Nat
  BY <1>2, LenProperties
<1>4. Len(hand[m]) <= 1 /\ Len(chan[m]) <= ChanSize /\ Len(cur[m]) <= 1
  BY DEF LocalsOK
<1>5. Parts(handled[m], hand[m], chan[m], cur[m])
  BY <1>2 DEF Parts
<1>6. Seen(m) \in Seq(Messages) /\ Len(Seen(m)) = Count(handled[m], hand[m], chan[m], cur[m])
  BY <1>1, <1>5, StreamIsSeq
<1>7. \A i \in 1..Len(handled[m]) : Seen(m)[i] = handled[m][i]
  BY <1>1, <1>5, StreamIsSeq
<1>8. Len(hand[m]) \in 0..1 /\ Len(chan[m]) \in 0..ChanSize /\ Len(cur[m]) \in 0..1
  <2>1. ChanSize \in Nat
    BY ConsumerAssumption
  <2>2. \A a, b, c \in Nat : a <= 1 /\ b <= ChanSize /\ c <= 1
                             => a \in 0..1 /\ b \in 0..ChanSize /\ c \in 0..1
    BY <2>1
  <2> QED
    BY <1>3, <1>4, <2>2
<1> QED
  BY <1>1, <1>3, <1>5, <1>6, <1>7, <1>8, Zenon DEF Count

\* Every step has one of these shapes.
LEMMA NextShape == TypeOK /\ LocalsOK /\ [Next]_vars => Shape
<1> SUFFICES ASSUME TypeOK, LocalsOK, [Next]_vars PROVE Shape
  OBVIOUS
<1>0. \A k \in Members : /\ Seen(k) = Stream(handled[k], hand[k], chan[k], cur[k])
                         /\ Seen(k)' = Stream(handled'[k], hand'[k], chan'[k], cur'[k])
  BY DEF Seen, Held, Stream
<1>a. UNCHANGED <<handled, hand, chan, cur>> => \A k \in Members : Seen(k)' = Seen(k)
  BY <1>0
<1>b. \A k \in Members : Parts(handled[k], hand[k], chan[k], cur[k])
  BY SeenStream
<1>1. ASSUME NEW p \in Partitions, Commit(p) PROVE Shape
  BY <1>1, <1>a DEF Commit, Shape, Stands, readerVars, loopVars
<1>14. ASSUME NEW p \in Partitions, Produce(p) PROVE Shape
  BY <1>14, <1>a DEF Produce, Shape, Stands, readerVars, loopVars
<1>2. ASSUME NEW p \in Partitions, NEW m \in Members, Assign(p, m) PROVE Shape
  BY <1>2, <1>a DEF Assign, Shape, Stands, readerVars, loopVars
<1>3. ASSUME NEW m \in Members, NewConsumer(m) PROVE Shape
  BY <1>3, <1>a DEF NewConsumer, Shape, Stands, loopVars
<1>4. ASSUME NEW m \in Members, ConsumeChan(m) \/ LoopEnd(m) PROVE Moves(m)
  <2>1. UNCHANGED <<handled, hand, chan, cur, kafkaVars>>
    BY <1>4 DEF ConsumeChan, LoopEnd, readerVars
  <2>2. (LoopEnded(m) => LoopEnded(m)') /\ \A k \in Members \ {m} : lp'[k] = lp[k]
    BY <1>4 DEF ConsumeChan, LoopEnd, LoopEnded, TypeOK
  <2> QED
    BY <1>a, <2>1, <2>2 DEF Moves
<1>5. ASSUME NEW m \in Members, ReadMessage(m) PROVE Shape
  <2>1. PICK p \in Partitions :
          /\ owner[p] = m /\ position[p] < Size
          /\ position' = [position EXCEPT ![p] = @ + 1]
          /\ cur' = [cur EXCEPT ![m] = <<<<p, position[p] + 1>>>>]
    <3>1. \A p \in Partitions : position[p] < end[p] => position[p] < Size
      BY ConsumerAssumption DEF TypeOK
    <3> QED
      BY <1>5, <3>1 DEF ReadMessage
  <2>2. UNCHANGED <<committed, owner, assigned, origin, chan, lp, hand, handled>> /\ cur[m] = <<>>
    BY <1>5 DEF ReadMessage, loopVars, LocalsOK
  <2> DEFINE e == <<p, position[p] + 1>>
  <2>3. e \in Messages /\ cur'[m] = <<e>> /\ \A k \in Members \ {m} : cur'[k] = cur[k]
    BY <2>1, ConsumerAssumption DEF Messages, TypeOK
  <2> HIDE DEF e
  <2>4. Seen(m)' = Append(Seen(m), e)
    <3>1. Parts(handled[m], hand[m], chan[m], <<>>)
      BY <1>b, <2>2
    <3>2. Seen(m) = Stream(handled[m], hand[m], chan[m], <<>>)
      BY <1>0, <2>2
    <3>3. Seen(m)' = Stream(handled[m], hand[m], chan[m], <<e>>)
      BY <1>0, <2>2, <2>3
    <3> QED
      BY <2>3, <3>1, <3>2, <3>3, StreamRead
  <2>5. \A k \in Members \ {m} : Seen(k)' = Seen(k)
    BY <1>0, <2>2, <2>3
  <2>6. Len(Seen(m)) < Len(handled[m]) + ChanSize + 2
    <3>1. Len(cur[m]) = 0
      BY <2>2
    <3>2. /\ Len(Seen(m)) = Len(handled[m]) + Len(hand[m]) + Len(chan[m]) + Len(cur[m])
          /\ Len(handled[m]) \in Nat /\ Len(hand[m]) \in 0..1
          /\ Len(chan[m]) \in 0..ChanSize /\ Len(cur[m]) \in 0..1
      BY SeenStream
    <3>3. ChanSize \in Nat
      BY ConsumerAssumption
    <3>4. \A n \in Nat, a, c \in 0..1, q \in 0..ChanSize : c = 0 => n + a + q + c < n + ChanSize + 2
      BY <3>3
    <3> QED
      BY <3>1, <3>2, <3>4, Zenon
  <2>7. Reads(m, p)
    BY <2>1, <2>2, <2>4, <2>5, <2>6 DEF Reads, e
  <2> QED
    BY <2>7 DEF Shape
<1>6. ASSUME NEW m \in Members, Send(m) PROVE Shape
  <2>1. UNCHANGED <<kafkaVars, lp, hand, handled>>
        /\ chan' = [chan EXCEPT ![m] = @ \o cur[m]] /\ cur' = [cur EXCEPT ![m] = <<>>]
    BY <1>6 DEF Send, loopVars
  <2>2. chan'[m] = chan[m] \o cur[m] /\ cur'[m] = <<>>
        /\ \A k \in Members \ {m} : chan'[k] = chan[k] /\ cur'[k] = cur[k]
    BY <2>1 DEF TypeOK
  <2>3. Seen(m)' = Seen(m)
    <3>1. Seen(m)' = Stream(handled[m], hand[m], chan[m] \o cur[m], <<>>)
      BY <1>0, <2>1, <2>2
    <3> QED
      BY <1>0, <1>b, <3>1, StreamSend
  <2>4. \A k \in Members : Seen(k)' = Seen(k)
    BY <1>0, <2>1, <2>2, <2>3
  <2>5. Stands
    BY <2>1, <2>4 DEF Stands
  <2> QED
    BY <2>5 DEF Shape
<1>7. ASSUME NEW m \in Members, ReadEnd(m) PROVE Shape
  BY <1>7, <1>a DEF ReadEnd, Shape, Stands, loopVars
<1>8. ASSUME NEW m \in Members, Take(m) PROVE Moves(m)
  <2>1. UNCHANGED <<kafkaVars, cur, handled>> /\ chan[m] # <<>> /\ lp[m] = "select"
        /\ hand' = [hand EXCEPT ![m] = <<Head(chan[m])>>]
        /\ chan' = [chan EXCEPT ![m] = Tail(@)] /\ lp' = [lp EXCEPT ![m] = "handle"]
    BY <1>8 DEF Take, readerVars
  <2>2. hand'[m] = <<Head(chan[m])>> /\ chan'[m] = Tail(chan[m])
        /\ \A k \in Members \ {m} : chan'[k] = chan[k] /\ hand'[k] = hand[k] /\ lp'[k] = lp[k]
    BY <2>1 DEF TypeOK
  <2>3. Seen(m)' = Seen(m)
    <3>1. Seen(m)' = Stream(handled[m], <<Head(chan[m])>>, Tail(chan[m]), cur[m])
      BY <1>0, <2>1, <2>2
    <3>2. hand[m] = <<>>
      BY <2>1 DEF LocalsOK
    <3>3. Parts(handled[m], <<>>, chan[m], cur[m])
      BY <1>b, <3>2
    <3>4. Seen(m) = Stream(handled[m], <<>>, chan[m], cur[m])
      BY <1>0, <3>2
    <3> QED
      BY <2>1, <3>1, <3>3, <3>4, StreamTake
  <2>4. \A k \in Members : Seen(k)' = Seen(k)
    BY <1>0, <2>1, <2>2, <2>3
  <2>5. ~LoopEnded(m)
    BY <2>1 DEF LoopEnded
  <2> QED
    BY <2>1, <2>2, <2>4, <2>5 DEF Moves
<1>9. ASSUME NEW m \in Members, Handle(m) PROVE Moves(m)
  <2>1. UNCHANGED <<kafkaVars, cur, chan>> /\ lp[m] = "handle"
        /\ handled' = [handled EXCEPT ![m] = @ \o hand[m]]
        /\ hand' = [hand EXCEPT ![m] = <<>>] /\ lp' = [lp EXCEPT ![m] = "select"]
    BY <1>9 DEF Handle, readerVars
  <2>2. hand'[m] = <<>> /\ handled'[m] = handled[m] \o hand[m] /\ lp'[m] = "select"
        /\ \A k \in Members \ {m} : handled'[k] = handled[k] /\ hand'[k] = hand[k] /\ lp'[k] = lp[k]
    BY <2>1 DEF TypeOK
  <2>3. Seen(m)' = Seen(m)
    <3>1. Seen(m)' = Stream(handled[m] \o hand[m], <<>>, chan[m], cur[m])
      BY <1>0, <2>1, <2>2
    <3> QED
      BY <1>0, <1>b, <3>1, StreamHandle
  <2>4. \A k \in Members : Seen(k)' = Seen(k)
    BY <1>0, <2>1, <2>2, <2>3
  <2>5. Len(hand[m]) = 1
    BY <2>1 DEF LocalsOK
  <2>6. handled'[m] = Append(handled[m], Seen(m)[Len(handled[m]) + 1])
    <3>1. Parts(handled[m], hand[m], chan[m], cur[m])
      BY <1>b
    <3>2. handled[m] \o hand[m] = Append(handled[m],
                 Stream(handled[m], hand[m], chan[m], cur[m])[Len(handled[m]) + 1])
      BY <2>5, <3>1, StreamNext
    <3> QED
      BY <1>0, <2>2, <3>2
  <2>7. Len(handled[m]) < Len(Seen(m))
    <3>1. /\ Len(Seen(m)) = Len(handled[m]) + Len(hand[m]) + Len(chan[m]) + Len(cur[m])
          /\ Len(handled[m]) \in Nat /\ Len(hand[m]) \in 0..1
          /\ Len(chan[m]) \in 0..ChanSize /\ Len(cur[m]) \in 0..1
      BY SeenStream
    <3>2. ChanSize \in Nat
      BY ConsumerAssumption
    <3>3. \A n \in Nat, a, c \in 0..1, q \in 0..ChanSize : a = 1 => n < n + a + q + c
      BY <3>2
    <3> QED
      BY <2>5, <3>1, <3>3, Zenon
  <2>8. ~LoopEnded(m) /\ ~LoopEnded(m)'
    BY <2>1, <2>2 DEF LoopEnded
  <2> QED
    BY <2>1, <2>2, <2>4, <2>6, <2>7, <2>8 DEF Moves
<1>10. ASSUME NEW m \in Members, Close(m) PROVE Shape
  BY <1>10, <1>a DEF Close, Shape, Stands, readerVars, loopVars
<1>11. ASSUME NEW g \in Gateways, Stop(g) \/ Shutdown(g) \/ Crash(g) PROVE Shape
  BY <1>11, <1>a DEF Stop, Shutdown, Crash, Shape, Stands, readerVars, loopVars
<1>12. CASE UNCHANGED vars
  BY <1>12, <1>a DEF vars, Shape, Stands, readerVars, loopVars
<1>13. ASSUME NEW m \in Members, Moves(m) PROVE Shape
  BY <1>13 DEF Shape
<1> QED
  BY <1>1, <1>2, <1>3, <1>4, <1>5, <1>6, <1>7, <1>8, <1>9, <1>10, <1>11, <1>12, <1>13, <1>14
  DEF Next, StartStep, ReaderStep, LoopStep

(***************************************************************************)
(* Everything below a position was skipped or seen.                        *)
(***************************************************************************)
LEMMA RangeAppend ==
    ASSUME NEW S, NEW s \in Seq(S), NEW e \in S
    PROVE  Range(Append(s, e)) = Range(s) \cup {e}
<1>1. Append(s, e) = s \o <<e>> /\ <<e>> \in Seq(S)
  BY AppendIsConcat
<1>0. \A t \in Seq(S) : Range(s \o t) = Range(s) \cup Range(t)
  BY RangeConcatenation, Zenon
<1>2. Range(s \o <<e>>) = Range(s) \cup Range(<<e>>)
  BY <1>0, <1>1
<1>3. Range(<<e>>) = {e}
  BY DEF Range
<1> QED
  BY <1>1, <1>2, <1>3

\* What a member reads is a message of the topic.
LEMMA ReadsOne ==
    ASSUME TypeOK, LocalsOK, NEW m \in Members, NEW p \in Partitions, Reads(m, p)
    PROVE  <<p, position[p] + 1>> \in Messages /\ Seen(m) \in Seq(Messages)
<1>1. position[p] \in 0..Size /\ position[p] < Size /\ Size \in Nat
  BY ConsumerAssumption DEF Reads, TypeOK
<1>2. position[p] + 1 \in 1..Size
  BY <1>1
<1>3. Seen(m) \in Seq(Messages)
  BY SeenStream
<1> QED
  BY <1>2, <1>3 DEF Messages

\* What some member has seen stays seen.
LEMMA SeenGrows ==
    ASSUME TypeOK, LocalsOK, Shape
    PROVE  \A m \in Members : Range(Seen(m)) \subseteq Range(Seen(m)')
<1>1. ASSUME NEW m \in Members, NEW p \in Partitions, Reads(m, p)
      PROVE  \A k \in Members : Range(Seen(k)) \subseteq Range(Seen(k)')
  <2> DEFINE e == <<p, position[p] + 1>>
  <2>1. e \in Messages /\ Seen(m) \in Seq(Messages)
    BY <1>1, ReadsOne
  <2> HIDE DEF e
  <2>2. Range(Append(Seen(m), e)) = Range(Seen(m)) \cup {e}
    BY <2>1, RangeAppend
  <2>3. Seen(m)' = Append(Seen(m), e) /\ \A k \in Members \ {m} : Seen(k)' = Seen(k)
    BY <1>1 DEF Reads, e
  <2> QED
    BY <2>2, <2>3
<1>2. (\A k \in Members : Seen(k)' = Seen(k)) => \A k \in Members : Range(Seen(k)) \subseteq Range(Seen(k)')
  OBVIOUS
<1> QED
  BY <1>1, <1>2 DEF Shape, Moves, Stands

LEMMA NextPositionSeen ==
    ASSUME TypeOK, LocalsOK, PositionSeen, Shape
    PROVE  PositionSeen'
<1> DEFINE S(p, i) == i <= origin[p] \/ \E m \in Members : <<p, i>> \in Range(Seen(m))
           OK(p) == committed[p] <= position[p] /\ \A i \in 1..position[p] : S(p, i)
<1>0. \A p \in Partitions : origin'[p] = origin[p] => \A i : S(p, i) => S(p, i)'
  BY SeenGrows
<1>i. \A p \in Partitions : OK(p)
  BY DEF PositionSeen
<1>ii. SUFFICES \A p \in Partitions : OK(p)'
  BY DEF PositionSeen
<1>iii. \A p \in Partitions : committed[p] \in Int /\ position[p] \in Nat
  BY ConsumerAssumption DEF TypeOK, NoOffset
<1>1. ASSUME NEW m \in Members, NEW q \in Partitions, Reads(m, q)
      PROVE  \A p \in Partitions : OK(p)'
  <2>1. PICK n \in Nat : n = position[q] + 1
    BY <1>iii
  <2> DEFINE e == <<q, n>>
  <2>2. e \in Messages /\ Seen(m) \in Seq(Messages) /\ Seen(m)' = Append(Seen(m), e)
    BY <1>1, <2>1, ReadsOne DEF Reads
  <2>3. e \in Range(Seen(m)')
    <3> HIDE DEF e
    <3>1. Range(Append(Seen(m), e)) = Range(Seen(m)) \cup {e}
      BY <2>2, RangeAppend
    <3> QED
      BY <2>2, <3>1
  <2>4. S(q, n)'
    BY <2>3
  <2>5. UNCHANGED <<committed, origin>> /\ position'[q] = n
        /\ \A p \in Partitions \ {q} : position'[p] = position[p]
    BY <1>1, <2>1 DEF Reads, TypeOK
  <2> HIDE DEF S
  <2> TAKE p \in Partitions
  <2>6. CASE p = q
    <3>1. \A i \in 1..position[p] : S(p, i)'
      BY <1>0, <1>i, <2>5
    <3> QED
      BY <1>i, <1>iii, <2>1, <2>4, <2>5, <2>6, <3>1
  <2>7. CASE p # q
    BY <1>0, <1>i, <1>iii, <2>5, <2>7
  <2> QED
    BY <2>6, <2>7
<1>2. ASSUME UNCHANGED <<committed, position, origin>> PROVE \A p \in Partitions : OK(p)'
  <2> HIDE DEF S
  <2> QED
    BY <1>0, <1>i, <1>2
<1>3. ASSUME Stands PROVE \A p \in Partitions : OK(p)'
  <2>1. CASE UNCHANGED kafkaVars \/ \E q \in Partitions : Produce(q)
    BY <1>2, <2>1 DEF kafkaVars, Produce
  <2>2. ASSUME NEW q \in Partitions, Commit(q) PROVE \A p \in Partitions : OK(p)'
    <3>1. UNCHANGED <<position, origin>>
          /\ \A p \in Partitions : committed'[p] \in {committed[p], position[p]}
      BY <2>2 DEF Commit, TypeOK
    <3> HIDE DEF S
    <3> QED
      BY <1>0, <1>i, <1>iii, <3>1
  <2>3. ASSUME NEW q \in Partitions, NEW m \in Members, Assign(q, m)
        PROVE  \A p \in Partitions : OK(p)'
    <3>1. CASE committed[q] # NoOffset
      <4>1. UNCHANGED <<committed, origin>>
            /\ \A p \in Partitions : position'[p] \in {committed[p], position[p]}
        BY <2>3, <3>1 DEF Assign, TypeOK
      <4> HIDE DEF S
      <4> QED
        BY <1>0, <1>i, <1>iii, <4>1
    <3>2. CASE committed[q] = NoOffset
      <4>1. FirstOffset(q) \in 0..Size
        BY ConsumerAssumption DEF FirstOffset, TypeOK
      <4>2. UNCHANGED committed /\ position'[q] = FirstOffset(q) /\ origin'[q] = FirstOffset(q)
            /\ \A p \in Partitions \ {q} : position'[p] = position[p] /\ origin'[p] = origin[p]
        BY <2>3, <3>2 DEF Assign, TypeOK
      <4>3. OK(q)'
        <5>1. \A i \in 1..position'[q] : i <= origin'[q]
          BY <4>1, <4>2, ConsumerAssumption
        <5>2. committed'[q] <= position'[q]
          BY <3>2, <4>1, <4>2, ConsumerAssumption DEF NoOffset
        <5> QED
          BY <5>1, <5>2
      <4>4. ASSUME NEW p \in Partitions \ {q} PROVE OK(p)'
        <5>1. \A i \in 1..position[p] : S(p, i)'
          BY <1>0, <1>i, <4>2
        <5> HIDE DEF S
        <5> QED
          BY <1>i, <4>2, <5>1
      <4> HIDE DEF OK
      <4> QED
        BY <4>3, <4>4
    <3> QED
      BY <3>1, <3>2
  <2> HIDE DEF S
  <2> QED
    BY <1>3, <2>1, <2>2, <2>3 DEF Stands
<1>4. ASSUME NEW m \in Members, Moves(m) PROVE \A p \in Partitions : OK(p)'
  BY <1>2, <1>4 DEF Moves, kafkaVars
<1> HIDE DEF S, OK
<1> QED
  BY <1>1, <1>3, <1>4 DEF Shape

(***************************************************************************)
(* A message is seen once per assignment of its partition.                 *)
(***************************************************************************)
\* Reading gives one message one more place.
LEMMA PlacesRead ==
    ASSUME TypeOK, LocalsOK, NEW m \in Members, NEW p \in Partitions, Reads(m, p), NEW msg
    PROVE  /\ Places(msg)' \subseteq Places(msg) \cup {<<m, Len(Seen(m)) + 1>>}
           /\ msg # <<p, position[p] + 1>> => Places(msg)' \subseteq Places(msg)
<1> DEFINE e == <<p, position[p] + 1>>
           s == Seen(m)
<1>1. e \in Messages /\ s \in Seq(Messages) /\ Seen(m)' = Append(s, e)
      /\ \A k \in Members \ {m} : Seen(k)' = Seen(k)
  BY ReadsOne DEF Reads
<1> HIDE DEF e, s
<1>2. /\ Len(s) \in Nat /\ DOMAIN s = 1..Len(s)
      /\ DOMAIN Append(s, e) = 1..(Len(s) + 1)
      /\ \A j \in 1..Len(s) : Append(s, e)[j] = s[j]
      /\ Append(s, e)[Len(s) + 1] = e
  BY <1>1, AppendProperties, LenProperties
<1>3. ASSUME NEW x \in Places(msg)'
      PROVE  x \in Places(msg) \/ (x = <<m, Len(s) + 1>> /\ msg = e)
  <2>1. PICK k \in Members : \E j \in DOMAIN Seen(k)' : x = <<k, j>> /\ Seen(k)'[j] = msg
    BY <1>3 DEF Places
  <2>a. PICK j \in DOMAIN Seen(k)' : x = <<k, j>> /\ Seen(k)'[j] = msg
    BY <2>1
  <2>2. CASE k # m
    BY <1>1, <2>a, <2>2 DEF Places
  <2>3. CASE k = m /\ j \in 1..Len(s)
    <3>1. j \in DOMAIN Seen(m) /\ Seen(m)[j] = msg
      BY <1>1, <1>2, <2>a, <2>3 DEF s
    <3> QED
      BY <2>a, <2>3, <3>1 DEF Places
  <2>4. CASE k = m /\ j = Len(s) + 1
    BY <1>1, <1>2, <2>a, <2>4
  <2> QED
    BY <1>1, <1>2, <2>2, <2>3, <2>4
<1> QED
  BY <1>3 DEF e, s

LEMMA NextSeenPerAssignment ==
    ASSUME TypeOK, TypeOK', LocalsOK, SeenPerAssignment, Shape
    PROVE  SeenPerAssignment'
<1> DEFINE Bound(p, i) == /\ IsFiniteSet(Places(<<p, i>>))
                          /\ Cardinality(Places(<<p, i>>)) <= assigned[p] - (IF Ahead(p, i) THEN 1 ELSE 0)
<1>0. /\ \A p \in Partitions : assigned[p] \in Nat /\ position[p] \in 0..Size
      /\ \A p \in Partitions : assigned'[p] \in Nat /\ position'[p] \in 0..Size
      /\ Size \in Nat
  BY ConsumerAssumption DEF TypeOK
<1>i. /\ \A p \in Partitions : owner[p] # None => assigned[p] > 0
      /\ \A p \in Partitions, i \in 1..Size : Bound(p, i)
  BY DEF SeenPerAssignment
<1>ii. \A p \in Partitions, i \in 1..Size : Cardinality(Places(<<p, i>>)) \in Nat
  BY <1>i, FS_CardinalityType
<1>iii. (\A k \in Members : Seen(k)' = Seen(k)) =>
            \A p \in Partitions, i \in 1..Size : Places(<<p, i>>)' = Places(<<p, i>>)
  BY DEF Places
<1>1. ASSUME NEW m \in Members, NEW q \in Partitions, Reads(m, q) PROVE SeenPerAssignment'
  <2>1. /\ UNCHANGED <<owner, assigned>> /\ owner[q] = m
        /\ position'[q] = position[q] + 1
        /\ \A p \in Partitions \ {q} : position'[p] = position[p]
    BY <1>1 DEF Reads, TypeOK
  <2>2. assigned[q] > 0
    BY <1>i, <2>1, ConsumerAssumption
  <2>3. ASSUME NEW p \in Partitions, NEW i \in 1..Size PROVE Bound(p, i)'
    <3>1. CASE <<p, i>> # <<q, position[q] + 1>>
      <4>1. Places(<<p, i>>)' \subseteq Places(<<p, i>>)
        BY <1>1, <3>1, PlacesRead
      <4>2. IsFiniteSet(Places(<<p, i>>)')
            /\ Cardinality(Places(<<p, i>>)') <= Cardinality(Places(<<p, i>>))
            /\ Cardinality(Places(<<p, i>>)') \in Nat
        BY <1>i, <4>1, FS_Subset, FS_CardinalityType
      <4>3. Ahead(p, i)' => Ahead(p, i)
        BY <1>0, <2>1 DEF Ahead
      <4> QED
        BY <1>0, <1>i, <1>ii, <2>1, <4>2, <4>3
    <3>2. CASE <<p, i>> = <<q, position[q] + 1>>
      <4> DEFINE x == <<m, Len(Seen(m)) + 1>>
      <4>1. Places(<<p, i>>)' \subseteq Places(<<p, i>>) \cup {x}
        BY <1>1, PlacesRead
      <4> HIDE DEF x
      <4>2. IsFiniteSet(Places(<<p, i>>) \cup {x})
            /\ Cardinality(Places(<<p, i>>) \cup {x}) <= Cardinality(Places(<<p, i>>)) + 1
            /\ Cardinality(Places(<<p, i>>) \cup {x}) \in Nat
        <5> DEFINE P == Places(<<p, i>>)
        <5>1. IsFiniteSet(P) /\ Cardinality(P) \in Nat
          BY <1>i, <1>ii
        <5> HIDE DEF P
        <5>2. IsFiniteSet(P \cup {x})
              /\ Cardinality(P \cup {x}) \in {Cardinality(P), Cardinality(P) + 1}
          BY <5>1, FS_AddElement
        <5>3. Cardinality(P \cup {x}) \in Nat /\ Cardinality(P \cup {x}) <= Cardinality(P) + 1
          BY <5>1, <5>2
        <5> QED
          BY <5>2, <5>3 DEF P
      <4>3. IsFiniteSet(Places(<<p, i>>)')
            /\ Cardinality(Places(<<p, i>>)') <= Cardinality(Places(<<p, i>>) \cup {x})
            /\ Cardinality(Places(<<p, i>>)') \in Nat
        BY <4>1, <4>2, FS_Subset, FS_CardinalityType
      <4>4. Ahead(p, i) /\ ~Ahead(p, i)'
        BY <1>0, <2>1, <2>2, <3>2 DEF Ahead
      <4>5. Cardinality(Places(<<p, i>>)) <= assigned[p] - 1
        BY <1>i, <4>4
      <4> QED
        BY <1>0, <1>ii, <2>1, <4>2, <4>3, <4>4, <4>5
    <3> QED
      BY <3>1, <3>2
  <2> QED
    BY <1>i, <2>1, <2>3 DEF SeenPerAssignment
<1>2. ASSUME UNCHANGED <<owner, position, assigned>>, \A k \in Members : Seen(k)' = Seen(k)
      PROVE  SeenPerAssignment'
  BY <1>i, <1>iii, <1>2 DEF SeenPerAssignment, Ahead
<1>3. ASSUME NEW m \in Members, Moves(m) PROVE SeenPerAssignment'
  BY <1>2, <1>3 DEF Moves, kafkaVars
<1>4. CASE Stands
  <2>1. CASE UNCHANGED kafkaVars \/ \E p \in Partitions : Produce(p) \/ Commit(p)
    BY <1>2, <1>4, <2>1 DEF Stands, kafkaVars, Produce, Commit
  <2>2. ASSUME NEW q \in Partitions, NEW m \in Members, Assign(q, m) PROVE SeenPerAssignment'
    <3>1. /\ assigned'[q] = assigned[q] + 1
          /\ \A p \in Partitions \ {q} : /\ assigned'[p] = assigned[p]
                                         /\ position'[p] = position[p] /\ owner'[p] = owner[p]
      <4>1. /\ assigned' = [assigned EXCEPT ![q] = assigned[q] + 1]
            /\ owner' = [owner EXCEPT ![q] = m]
            /\ \E o : position' = [position EXCEPT ![q] = o]
        BY <2>2, Zenon DEF Assign
      <4>2. /\ assigned \in [Partitions -> Nat]
            /\ DOMAIN owner = Partitions /\ DOMAIN position = Partitions
        BY DEF TypeOK
      <4> QED
        BY <4>1, <4>2
    <3>2. \A p \in Partitions, i \in 1..Size : Places(<<p, i>>)' = Places(<<p, i>>)
      BY <1>iii, <1>4 DEF Stands
    <3>3. ASSUME NEW p \in Partitions, NEW i \in 1..Size PROVE Bound(p, i)'
      <4>1. CASE p = q
        BY <1>0, <1>i, <1>ii, <3>1, <3>2, <4>1
      <4>2. CASE p # q
        BY <1>i, <3>1, <3>2, <4>2 DEF Ahead
      <4> QED
        BY <4>1, <4>2
    <3>4. \A p \in Partitions : owner'[p] # None => assigned'[p] > 0
      BY <1>0, <1>i, <3>1
    <3> QED
      BY <3>3, <3>4 DEF SeenPerAssignment
  <2> QED
    BY <1>4, <2>1, <2>2 DEF Stands
<1> QED
  BY <1>1, <1>3, <1>4 DEF Shape

(***************************************************************************)
(* Theorems.                                                               *)
(***************************************************************************)
LEMMA InitIndInv == Init => IndInv
<1> SUFFICES ASSUME Init PROVE IndInv
  OBVIOUS
<1>1. \A m \in Members : Seen(m) = <<>>
  BY DEF Init, Seen, Held
<1>2. PositionSeen
  <2>1. \A p \in Partitions : committed[p] = -1 /\ position[p] = 0
    BY DEF Init, NoOffset
  <2> QED
    BY <2>1 DEF PositionSeen
<1>3. \A msg : Places(msg) = {}
  BY <1>1 DEF Places
<1>4. SeenPerAssignment
  <2>1. \A p \in Partitions : assigned[p] = 0 /\ owner[p] = None
    BY DEF Init
  <2>2. \A p \in Partitions, i \in 1..Size : IsFiniteSet(Places(<<p, i>>))
                                             /\ Cardinality(Places(<<p, i>>)) = 0
    BY <1>3, FS_EmptySet
  <2>3. \A p \in Partitions, i \in 1..Size : ~Ahead(p, i)
    BY <2>1 DEF Ahead
  <2> QED
    BY <2>1, <2>2, <2>3 DEF SeenPerAssignment
<1> QED
  BY <1>2, <1>4, InitTypeOK DEF IndInv

LEMMA NextIndInv == IndInv /\ [Next]_vars => IndInv'
  BY NextTypeOK, NextShape, NextPositionSeen, NextSeenPerAssignment DEF IndInv

\* A committed message was handled, is held by some member, or lies before the point where
\* reading began with nothing committed, for both start offsets and every number of
\* rebalances, closes, stops and crashes: the early commit of ReadMessage loses at most
\* what the pipelines of ended members hold.
THEOREM Accounted == Spec => []CommittedAccounted
<1>1. ASSUME IndInv PROVE CommittedAccounted
  <2>1. ASSUME NEW p \in Partitions, NEW i \in 1..committed[p], ~Skipped(<<p, i>>)
        PROVE  <<p, i>> \in Processed \cup UNION {Range(Held(m)) : m \in Members}
    <3>1. committed[p] <= position[p] /\ committed[p] \in Int /\ position[p] \in Nat
      BY <1>1, ConsumerAssumption DEF IndInv, PositionSeen, TypeOK, NoOffset
    <3>2. PICK m \in Members : <<p, i>> \in Range(Seen(m))
      <4>1. i \in 1..position[p]
        BY <3>1
      <4>2. ~(i <= origin[p])
        BY <2>1 DEF Skipped
      <4> QED
        BY <1>1, <4>1, <4>2 DEF IndInv, PositionSeen
    <3>3. handled[m] \in Seq(Messages) /\ Held(m) \in Seq(Messages)
      <4>1. /\ handled[m] \in Seq(Messages) /\ hand[m] \in Seq(Messages)
            /\ chan[m] \in Seq(Messages) /\ cur[m] \in Seq(Messages)
        BY <1>1 DEF IndInv, TypeOK
      <4>2. hand[m] \o chan[m] \in Seq(Messages)
        BY <4>1, ConcatProperties
      <4> QED
        BY <4>1, <4>2, ConcatProperties DEF Held
    <3>4. Range(Seen(m)) = Range(handled[m]) \cup Range(Held(m))
      BY <3>3, RangeConcatenation DEF Seen
    <3> QED
      BY <3>2, <3>4 DEF Processed
  <2> QED
    BY <2>1 DEF CommittedAccounted
<1> QED
  BY <1>1, InitIndInv, NextIndInv, PTL DEF Spec

\* However partitions move and members end, a message is handled at most once per
\* assignment of its partition.
THEOREM OncePerAssignment == Spec => []HandledPerAssignment
<1>1. ASSUME IndInv PROVE HandledPerAssignment
  <2>1. ASSUME NEW msg \in Messages
        PROVE  Cardinality(HandledAt(msg)) <= assigned[msg[1]]
    <3> DEFINE H == HandledAt(msg)
    <3>1. PICK p \in Partitions, i \in 1..Size : msg = <<p, i>>
      BY DEF Messages
    <3>2. H \subseteq Places(msg)
      <4>1. SUFFICES ASSUME NEW mk \in H PROVE mk \in Places(msg)
        OBVIOUS
      <4>2. \E m \in Members : \E k \in DOMAIN handled[m] : mk = <<m, k>> /\ handled[m][k] = msg
        BY DEF HandledAt
      <4>3. PICK m \in Members : \E k \in DOMAIN handled[m] : mk = <<m, k>> /\ handled[m][k] = msg
        BY <4>2
      <4>4. PICK k \in DOMAIN handled[m] : mk = <<m, k>> /\ handled[m][k] = msg
        BY <4>3
      <4>5. /\ Seen(m) \in Seq(Messages) /\ handled[m] \in Seq(Messages)
            /\ Len(handled[m]) <= Len(Seen(m))
            /\ \A j \in 1..Len(handled[m]) : Seen(m)[j] = handled[m][j]
        <5>1. TypeOK /\ LocalsOK
          BY <1>1 DEF IndInv
        <5>2. /\ Len(Seen(m)) = Len(handled[m]) + Len(hand[m]) + Len(chan[m]) + Len(cur[m])
              /\ Len(handled[m]) \in Nat /\ Len(hand[m]) \in 0..1
              /\ Len(chan[m]) \in 0..ChanSize /\ Len(cur[m]) \in 0..1
          BY <5>1, SeenStream
        <5>3. \A n \in Nat, a, c \in 0..1, q \in 0..ChanSize : n <= n + a + q + c
          BY ConsumerAssumption
        <5>4. Len(handled[m]) <= Len(Seen(m))
          BY <5>2, <5>3, Zenon
        <5>5. handled[m] \in Seq(Messages)
          BY <5>1 DEF TypeOK
        <5>6. Seen(m) \in Seq(Messages) /\ \A j \in 1..Len(handled[m]) : Seen(m)[j] = handled[m][j]
          BY <5>1, SeenStream
        <5> QED
          BY <5>4, <5>5, <5>6
      <4>6. k \in DOMAIN Seen(m) /\ Seen(m)[k] = msg
        <5>1. Len(handled[m]) \in Nat /\ Len(Seen(m)) \in Nat
              /\ DOMAIN handled[m] = 1..Len(handled[m]) /\ DOMAIN Seen(m) = 1..Len(Seen(m))
          BY <4>5, LenProperties
        <5> QED
          BY <4>4, <4>5, <5>1
      <4> QED
        BY <4>4, <4>6 DEF Places
    <3>3. IsFiniteSet(Places(msg)) /\ Cardinality(Places(msg)) <= assigned[p]
      <4>1. assigned[p] \in Nat /\ IsFiniteSet(Places(msg))
            /\ Cardinality(Places(msg)) <= assigned[p] - (IF Ahead(p, i) THEN 1 ELSE 0)
        BY <1>1, <3>1 DEF IndInv, SeenPerAssignment, TypeOK
      <4> QED
        BY <4>1, FS_CardinalityType
    <3> HIDE DEF H
    <3>4. Cardinality(H) <= Cardinality(Places(msg)) /\ Cardinality(H) \in Nat
          /\ Cardinality(Places(msg)) \in Nat /\ assigned[p] \in Nat
      BY <1>1, <3>2, <3>3, FS_Subset, FS_CardinalityType DEF IndInv, TypeOK
    <3>5. Cardinality(H) <= assigned[p]
      BY <3>3, <3>4
    <3> QED
      BY <3>1, <3>5 DEF H
  <2> QED
    BY <2>1 DEF HandledPerAssignment
<1> QED
  BY <1>1, InitIndInv, NextIndInv, PTL DEF Spec

\* The pipe of a member in terms of what it has seen.
LEMMA PipeOf ==
    ASSUME NEW m \in Members
    PROVE  /\ Pipe(m)!Init <=> Seen(m) = <<>> /\ handled[m] = <<>> /\ LoopEnded(m) = FALSE
           /\ Pipe(m)!Put <=> /\ Len(Seen(m)) - Len(handled[m]) < ChanSize + 2
                              /\ Len(Seen(m)') = Len(Seen(m)) + 1
                              /\ SubSeq(Seen(m)', 1, Len(Seen(m))) = Seen(m)
                              /\ UNCHANGED <<handled[m], LoopEnded(m)>>
           /\ Pipe(m)!Take <=> /\ ~LoopEnded(m)
                               /\ Len(handled[m]) < Len(Seen(m))
                               /\ handled[m]' = Append(handled[m], Seen(m)[Len(handled[m]) + 1])
                               /\ UNCHANGED <<Seen(m), LoopEnded(m)>>
           /\ Pipe(m)!End <=> LoopEnded(m)' /\ UNCHANGED <<Seen(m), handled[m]>>
           /\ Pipe(m)!pipeVars = <<Seen(m), handled[m], LoopEnded(m)>>
  BY DEF Seen, LoopEnded, Pipe!Init, Pipe!Put, Pipe!Take, Pipe!End, Pipe!pipeVars

\* A message read is put into the pipe of the member that reads it.
LEMMA ReadsPuts ==
    ASSUME IndInv, NEW m \in Members, NEW p \in Partitions, Reads(m, p)
    PROVE  Pipe(m)!Put
<1> DEFINE e == <<p, position[p] + 1>>
           s == Seen(m)
<1>1. e \in Messages /\ s \in Seq(Messages) /\ s' = Append(s, e)
  BY ReadsOne DEF IndInv, Reads
<1> HIDE DEF e, s
<1>2. Append(s, e) \in Seq(Messages) /\ Len(Append(s, e)) = Len(s) + 1 /\ Len(s) \in Nat
      /\ \A i \in 1..Len(s) : Append(s, e)[i] = s[i] /\ s[i] \in Messages
  BY <1>1, AppendProperties, LenProperties, ElementOfSeq
<1>3. /\ SubSeq(Append(s, e), 1, Len(s)) \in Seq(Messages)
      /\ Len(SubSeq(Append(s, e), 1, Len(s))) = Len(s)
      /\ \A i \in 1..Len(s) : SubSeq(Append(s, e), 1, Len(s))[i] = s[i]
  BY <1>2, SubSeqProperties
<1>4. SubSeq(Append(s, e), 1, Len(s)) = s
  BY <1>1, <1>3, SeqEqual
<1>5. Len(s) - Len(handled[m]) < ChanSize + 2
  <2>1. Len(s) < Len(handled[m]) + ChanSize + 2
    BY DEF Reads, s
  <2>2. Len(handled[m]) \in Nat /\ ChanSize \in Nat
    BY SeenStream, ConsumerAssumption DEF IndInv
  <2> QED
    BY <1>2, <2>1, <2>2
<1>6. UNCHANGED <<handled[m], LoopEnded(m)>>
  BY DEF Reads, LoopEnded
<1>7. Len(s') = Len(s) + 1 /\ SubSeq(s', 1, Len(s)) = s
  BY <1>1, <1>2, <1>4
<1> QED
  BY <1>5, <1>6, <1>7, PipeOf DEF s

\* Every step of the group is a step or a stutter of every member's pipe.
LEMMA StepOnPipes ==
    IndInv /\ [Next]_vars => \A m \in Members : [Pipe(m)!Next]_(Pipe(m)!pipeVars)
<1> SUFFICES ASSUME IndInv, [Next]_vars, NEW k \in Members
             PROVE  [Pipe(k)!Next]_(Pipe(k)!pipeVars)
  OBVIOUS
<1>1. Shape
  BY NextShape DEF IndInv
<1>2. ASSUME UNCHANGED <<Seen(k), handled[k]>>, LoopEnded(k) => LoopEnded(k)'
      PROVE  [Pipe(k)!Next]_(Pipe(k)!pipeVars)
  <2>1. CASE LoopEnded(k)'
    BY <1>2, <2>1, PipeOf DEF Pipe!Next
  <2>2. CASE ~LoopEnded(k)'
    <3>1. LoopEnded(k)' = LoopEnded(k)
      BY <1>2, <2>2 DEF LoopEnded
    <3>2. UNCHANGED <<Seen(k), handled[k], LoopEnded(k)>>
      BY <1>2, <3>1
    <3> QED
      BY <3>2 DEF Seen, LoopEnded, Pipe!pipeVars
  <2> QED
    BY <2>1, <2>2
<1>3. ASSUME NEW m \in Members, NEW p \in Partitions, Reads(m, p)
      PROVE  [Pipe(k)!Next]_(Pipe(k)!pipeVars)
  <2>1. CASE k = m
    BY <1>3, <2>1, ReadsPuts DEF Pipe!Next
  <2>2. CASE k # m
    BY <1>2, <1>3, <2>2 DEF Reads, LoopEnded
  <2> QED
    BY <2>1, <2>2
<1>4. ASSUME NEW m \in Members, Moves(m) PROVE [Pipe(k)!Next]_(Pipe(k)!pipeVars)
  <2>1. CASE k # m
    BY <1>2, <1>4, <2>1 DEF Moves, LoopEnded
  <2>2. CASE k = m /\ UNCHANGED handled[m] /\ (LoopEnded(m) => LoopEnded(m)')
    BY <1>2, <1>4, <2>2 DEF Moves
  <2>3. CASE /\ k = m /\ ~LoopEnded(m) /\ ~LoopEnded(m)' /\ Len(handled[m]) < Len(Seen(m))
             /\ handled[m]' = Append(handled[m], Seen(m)[Len(handled[m]) + 1])
    <3>1. UNCHANGED LoopEnded(k)
      BY <2>3 DEF LoopEnded
    <3>2. UNCHANGED Seen(k)
      BY <1>4 DEF Moves
    <3>3. Pipe(k)!Take
      BY <2>3, <3>1, <3>2, PipeOf
    <3> QED
      BY <3>3 DEF Pipe!Next
  <2> QED
    BY <1>4, <2>1, <2>2, <2>3 DEF Moves
<1>5. CASE Stands
  BY <1>2, <1>5 DEF Stands, LoopEnded
<1> QED
  BY <1>1, <1>3, <1>4, <1>5 DEF Shape

\* Each member implements a FIFO of capacity ChanSize + 2 between ReadMessage and
\* consumeFunc: nothing is skipped, repeated or reordered, and what is lost with a member
\* that ends is at most that capacity.
THEOREM ImplementsPipes == Spec => MembersArePipes
<1>1. Init => \A m \in Members : Pipe(m)!Init
  <2>1. ASSUME Init, NEW m \in Members PROVE Pipe(m)!Init
    <3>1. Seen(m) = <<>> /\ handled[m] = <<>>
      BY <2>1 DEF Init, Seen, Held
    <3>2. LoopEnded(m) = FALSE
      BY <2>1 DEF Init, LoopEnded
    <3> QED
      BY <3>1, <3>2, PipeOf
  <2> QED
    BY <2>1
<1> QED
  BY <1>1, InitIndInv, NextIndInv, StepOnPipes, PTL DEF Spec, MembersArePipes
===============================================================================
