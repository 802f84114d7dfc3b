------------------------------ MODULE Consumer --------------------------------
(***************************************************************************)
(* The gateways that consume one Kafka topic as one consumer group:        *)
(* KafkaConsumer (kafka_consumer.go), which reads into a channel, and the  *)
(* gateway's Consumer (gateway/consumer.go), which starts one KafkaConsumer*)
(* per configured partition and one goroutine for each that calls          *)
(* consumeFunc.                                                            *)
(*                                                                         *)
(* Kafka is external.  ReadMessage hands the position of the partition's   *)
(* owner over for commit as soon as it returns a message (CommitInterval:  *)
(* some time later).  A new owner begins at the committed offset and, as   *)
(* long as nothing was committed, where the reader's StartOffset says.     *)
(* The message of partition p with number i is <<p, i>>.                   *)
(***************************************************************************)
EXTENDS Integers, Sequences, FiniteSets, Functions

CONSTANTS Gateways, Members, Partitions,
          GatewayOf,       \* [Members -> Gateways]: the KafkaConsumers of each gateway
          ChanSize,        \* defaultMessageChanSize
          StartOffset,     \* start_offset of kafka.yaml: "newest" (-1) or "oldest" (-2)
          Size,            \* bound on the messages of a partition
          MaxAssigns,      \* bound on the assignments that take a partition from a live member
          MaxEnds,         \* bound on the calls of Close, Stop and Shutdown and the crashes
          None

ASSUME ConsumerAssumption ==
    /\ GatewayOf \in [Members -> Gateways]
    /\ ChanSize \in Nat \ {0}
    /\ StartOffset \in {"newest", "oldest"}
    /\ {Size, MaxAssigns, MaxEnds} \subseteq Nat
    /\ None \notin Members

VARIABLES end,                \* [Partitions -> messages produced]
          committed,          \* [Partitions -> offset committed, or NoOffset]
          owner, position,    \* [Partitions -> member that reads it, messages it has read]
          assigned,           \* [Partitions -> times it was assigned]
          origin,             \* history: [Partitions -> where the last owner began that found
                              \* no offset committed]
          rd, cur, chan,      \* readMessage: pc, message read; messageChan
          lp, hand, handled,  \* consume: pc, message taken; history of consumeFunc's messages
          closed,             \* members whose KafkaConsumer.Close was called
          cancelled,          \* gateways whose server context is done
          stopped,            \* gateways whose Consumer.Stop was called
          down                \* gateways that crashed

kafkaVars == <<end, committed, owner, position, assigned, origin>>
readerVars == <<rd, cur>>
loopVars == <<lp, hand, handled>>
gatewayVars == <<closed, cancelled, stopped, down>>
vars == <<kafkaVars, readerVars, chan, loopVars, gatewayVars>>

NoOffset == -1

Init ==
    /\ end = [p \in Partitions |-> 0] /\ position = end /\ assigned = end /\ origin = end
    /\ committed = [p \in Partitions |-> NoOffset]
    /\ owner = [p \in Partitions |-> None]
    /\ rd = [m \in Members |-> "off"] /\ lp = rd
    /\ cur = [m \in Members |-> <<>>] /\ chan = cur /\ hand = cur /\ handled = cur
    /\ closed = {} /\ cancelled = {} /\ stopped = {} /\ down = {}

Siblings(m) == {k \in Members : GatewayOf[k] = GatewayOf[m]}
Up(m) == GatewayOf[m] \notin down

(***************************************************************************)
(* Kafka: messages arrive, offsets are committed, partitions move.         *)
(***************************************************************************)
InGroup(m) == Up(m) /\ rd[m] \in {"read", "send"}

Produce(p) ==
    /\ end[p] < Size
    /\ end' = [end EXCEPT ![p] = @ + 1]
    /\ UNCHANGED <<committed, owner, position, assigned, origin, readerVars, chan, loopVars,
                   gatewayVars>>

\* Where a reader begins in a partition of which nothing was committed.
FirstOffset(p) == IF StartOffset = "newest" THEN end[p] ELSE 0

\* At the next tick of CommitInterval, or when a closed reader leaves the group.
Commit(p) ==
    /\ owner[p] # None
    /\ Up(owner[p])
    /\ position[p] # (IF committed[p] = NoOffset THEN origin[p] ELSE committed[p])
    /\ committed' = [committed EXCEPT ![p] = position[p]]
    /\ UNCHANGED <<end, owner, position, assigned, origin, readerVars, chan, loopVars, gatewayVars>>

\* A partition without a live reader gets one; or one moves, as members join.
Assign(p, m) ==
    /\ InGroup(m)
    /\ owner[p] # m
    /\ owner[p] # None /\ InGroup(owner[p]) => assigned[p] < MaxAssigns
    /\ assigned' = [assigned EXCEPT ![p] = @ + 1]
    /\ owner' = [owner EXCEPT ![p] = m]
    /\ IF committed[p] = NoOffset
       THEN /\ position' = [position EXCEPT ![p] = FirstOffset(p)]
            /\ origin' = [origin EXCEPT ![p] = FirstOffset(p)]
       ELSE /\ position' = [position EXCEPT ![p] = committed[p]]
            /\ UNCHANGED origin
    /\ UNCHANGED <<end, committed, readerVars, chan, loopVars, gatewayVars>>

(***************************************************************************)
(* Consumer.Start: for each partition NewConsumer, which starts readMessage*)
(* at once, then ConsumeChan, which fails when the context is done.        *)
(***************************************************************************)
NewConsumer(m) ==
    /\ Up(m) /\ rd[m] = "off"
    /\ \A k \in Siblings(m) : rd[k] # "off" => lp[k] \notin {"off", "failed"}
    /\ rd' = [rd EXCEPT ![m] = "read"]
    /\ UNCHANGED <<kafkaVars, cur, chan, loopVars, gatewayVars>>

ConsumeChan(m) ==
    /\ Up(m) /\ rd[m] # "off" /\ lp[m] = "off"
    /\ lp' = [lp EXCEPT ![m] = IF m \in closed \/ GatewayOf[m] \in cancelled
                               THEN "failed" ELSE "select"]
    /\ UNCHANGED <<kafkaVars, readerVars, chan, hand, handled, gatewayVars>>

(***************************************************************************)
(* readMessage.  Other errors than the closing ones are logged and the     *)
(* read is tried again.  A reader that is being closed may still return a  *)
(* message: its select picks at random.                                    *)
(***************************************************************************)
ReadMessage(m) ==
    /\ Up(m) /\ rd[m] = "read"
    /\ \E p \in Partitions :
          /\ owner[p] = m
          /\ position[p] < end[p]
          /\ position' = [position EXCEPT ![p] = @ + 1]
          /\ cur' = [cur EXCEPT ![m] = <<<<p, position[p] + 1>>>>]
    /\ rd' = [rd EXCEPT ![m] = "send"]
    /\ UNCHANGED <<end, committed, owner, assigned, origin, chan, loopVars, gatewayVars>>

HasRoom(m) == Len(chan[m]) < ChanSize

\* A send that does not wait for room.
SendOrDrop(m) ==
    /\ Up(m) /\ rd[m] = "send"
    /\ chan' = [chan EXCEPT ![m] = IF HasRoom(m) THEN @ \o cur[m] ELSE @]
    /\ cur' = [cur EXCEPT ![m] = <<>>]
    /\ rd' = [rd EXCEPT ![m] = "read"]
    /\ UNCHANGED <<kafkaVars, loopVars, gatewayVars>>

Send(m) ==
    /\ Up(m) /\ rd[m] = "send"
    /\ HasRoom(m)
    /\ chan' = [chan EXCEPT ![m] = @ \o cur[m]]
    /\ cur' = [cur EXCEPT ![m] = <<>>]
    /\ rd' = [rd EXCEPT ![m] = "read"]
    /\ UNCHANGED <<kafkaVars, loopVars, gatewayVars>>

\* Close was called: the read fails, or the send is given up with its message (kept
\* here in cur, which is dead).  The channel is closed.
ReadEnd(m) ==
    /\ Up(m) /\ rd[m] \in {"read", "send"} /\ m \in closed
    /\ rd' = [rd EXCEPT ![m] = "done"]
    /\ UNCHANGED <<kafkaVars, cur, chan, loopVars, gatewayVars>>

(***************************************************************************)
(* consume: a select between the two contexts and the channel.             *)
(***************************************************************************)
Take(m) ==
    /\ Up(m) /\ lp[m] = "select" /\ chan[m] # <<>>
    /\ hand' = [hand EXCEPT ![m] = <<Head(chan[m])>>]
    /\ chan' = [chan EXCEPT ![m] = Tail(@)]
    /\ lp' = [lp EXCEPT ![m] = "handle"]
    /\ UNCHANGED <<kafkaVars, readerVars, handled, gatewayVars>>

\* A loop that ends when consumeFunc fails.
HandleOrReturn(m) ==
    /\ Up(m) /\ lp[m] = "handle"
    /\ handled' = [handled EXCEPT ![m] = @ \o hand[m]]
    /\ hand' = [hand EXCEPT ![m] = <<>>]
    /\ \E next \in {"select", "done"} : lp' = [lp EXCEPT ![m] = next]
    /\ UNCHANGED <<kafkaVars, readerVars, chan, gatewayVars>>

\* A loop that tries a message again when consumeFunc fails.
HandleAgain(m) ==
    /\ Up(m) /\ lp[m] = "handle"
    /\ Len(handled[m]) <= Size
    /\ handled' = [handled EXCEPT ![m] = @ \o hand[m]]
    /\ \/ hand' = [hand EXCEPT ![m] = <<>>] /\ lp' = [lp EXCEPT ![m] = "select"]
       \/ UNCHANGED <<hand, lp>>
    /\ UNCHANGED <<kafkaVars, readerVars, chan, gatewayVars>>

\* consumeFunc returns; its error is logged.
Handle(m) ==
    /\ Up(m) /\ lp[m] = "handle"
    /\ handled' = [handled EXCEPT ![m] = @ \o hand[m]]
    /\ hand' = [hand EXCEPT ![m] = <<>>]
    /\ lp' = [lp EXCEPT ![m] = "select"]
    /\ UNCHANGED <<kafkaVars, readerVars, chan, gatewayVars>>

\* A loop that looks at the contexts only.
ChannelEndsNever(m) == FALSE

\* The channel is closed and empty.
ChannelEnds(m) == rd[m] = "done" /\ chan[m] = <<>>

LoopEnd(m) ==
    /\ Up(m) /\ lp[m] = "select"
    /\ ChannelEnds(m) \/ GatewayOf[m] \in cancelled \cup stopped
    /\ lp' = [lp EXCEPT ![m] = "done"]
    /\ UNCHANGED <<kafkaVars, readerVars, chan, hand, handled, gatewayVars>>

(***************************************************************************)
(* What ends them: KafkaConsumer.Close and Consumer.Stop (called by no     *)
(* code), the server's Shutdown, a crash of the process.                   *)
(***************************************************************************)
MayEnd == Cardinality(closed) + Cardinality(cancelled) + Cardinality(stopped) + Cardinality(down) < MaxEnds

Close(m) ==
    /\ MayEnd
    /\ Up(m) /\ rd[m] # "off" /\ m \notin closed
    /\ closed' = closed \cup {m}
    /\ UNCHANGED <<kafkaVars, readerVars, chan, loopVars, cancelled, stopped, down>>

Stop(g) ==
    /\ MayEnd
    /\ g \notin down \cup stopped
    /\ stopped' = stopped \cup {g}
    /\ UNCHANGED <<kafkaVars, readerVars, chan, loopVars, closed, cancelled, down>>

Shutdown(g) ==
    /\ MayEnd
    /\ g \notin down \cup cancelled
    /\ cancelled' = cancelled \cup {g}
    /\ UNCHANGED <<kafkaVars, readerVars, chan, loopVars, closed, stopped, down>>

Crash(g) ==
    /\ MayEnd
    /\ g \notin down
    /\ down' = down \cup {g}
    /\ UNCHANGED <<kafkaVars, readerVars, chan, loopVars, closed, cancelled, stopped>>

StartStep(m) == NewConsumer(m) \/ ConsumeChan(m)
ReaderStep(m) == ReadMessage(m) \/ Send(m) \/ ReadEnd(m)
LoopStep(m) == Take(m) \/ Handle(m) \/ LoopEnd(m)

Next ==
    \/ \E p \in Partitions : Produce(p) \/ Commit(p) \/ \E m \in Members : Assign(p, m)
    \/ \E m \in Members : StartStep(m) \/ ReaderStep(m) \/ LoopStep(m) \/ Close(m)
    \/ \E g \in Gateways : Stop(g) \/ Shutdown(g) \/ Crash(g)

Spec == Init /\ [][Next]_vars

\* Goroutines that can run do run, consumeFunc returns (NothingStuck of Conn), and
\* Kafka gives a partition without a live reader to a live one.
Fairness ==
    /\ \A m \in Members : WF_vars(StartStep(m)) /\ WF_vars(ReaderStep(m)) /\ WF_vars(LoopStep(m))
    /\ \A p \in Partitions : WF_vars(\E m \in Members : Assign(p, m))

FairSpec == Spec /\ Fairness

(***************************************************************************)
(* Properties.                                                             *)
(***************************************************************************)
Messages == Partitions \X (1..Size)

\* What the pipeline of a member holds, oldest first.
Held(m) == hand[m] \o chan[m] \o cur[m]
Processed == UNION {Range(handled[m]) : m \in Members}

\* The message lies before the point where reading began with nothing committed: with
\* StartOffset "newest" nobody has to read it.
Skipped(msg) == msg[2] <= origin[msg[1]]

\* Offsets are committed before their messages are handled, yet a committed message
\* was handled or is held by some member, whatever rebalances, closes or crashes,
\* unless it lies before the point where reading began: what the early commit can
\* lose is what the pipelines of ended members hold.
CommittedAccounted ==
    \A p \in Partitions : \A i \in 1..committed[p] :
        \/ Skipped(<<p, i>>)
        \/ <<p, i>> \in Processed \cup UNION {Range(Held(m)) : m \in Members}

\* The places at which a message stands in what the members have handled.
HandledAt(msg) ==
    UNION {{m} \X {k \in DOMAIN handled[m] : handled[m][k] = msg} : m \in Members}

\* A message is handled again only because its partition was assigned again.
HandledPerAssignment == \A msg \in Messages : Cardinality(HandledAt(msg)) <= assigned[msg[1]]

\* Each member is a FIFO of capacity ChanSize + 2 from ReadMessage to consumeFunc: no
\* message is skipped, repeated or reordered on the way, not even when it is closed or
\* stopped, and no more than that capacity is lost with it.
Pipe(m) == INSTANCE BoundedPipe WITH
    Capacity <- ChanSize + 2,
    in <- handled[m] \o Held(m),
    out <- handled[m],
    ended <- lp[m] \in {"failed", "done"}

MembersArePipes ==
    /\ \A m \in Members : Pipe(m)!Init
    /\ [][\A m \in Members : [Pipe(m)!Next]_(Pipe(m)!pipeVars)]_vars

Ended(m) == GatewayOf[m] \in cancelled \cup stopped \cup down \/ m \in closed

\* Every message of the topic is handled in the end, although members crash and
\* partitions move, unless it was committed by a member that crashed, or reading began
\* behind it while nothing was committed (StartOffset "newest"), or somebody was stopped,
\* or no gateway is left.
EveryMessageHandled ==
    \A msg \in Messages :
        (msg[2] <= end[msg[1]]) ~>
            \/ msg \in Processed \/ Skipped(msg)
            \/ closed # {} \/ cancelled \cup stopped # {} \/ down = Gateways
            \/ /\ msg[2] <= committed[msg[1]]
               /\ \E m \in Members : ~Up(m) /\ msg \in Range(Held(m))

\* A loop ends when its gateway is stopped or shut down or its KafkaConsumer is
\* closed; a closed KafkaConsumer's reader ends even if its channel is full.
WindsDown ==
    \A m \in Members :
        /\ (Ended(m) /\ lp[m] = "select") ~> (lp[m] = "done" \/ ~Up(m))
        /\ (m \in closed) ~> (rd[m] = "done" \/ ~Up(m))
===============================================================================
