------------------------------ MODULE Messaging -------------------------------
(***************************************************************************)
(* The message paths between backend and client, for the connections of    *)
(* one user: the push of a backend message to every device with its        *)
(* retransmission (server.go, backend_msg.handler.go) and the handling of  *)
(* client frames behind the Redis de-duplication (lifecycle/handler.go,    *)
(* frontend_msg_handler.go, downstream_ack_handler.go).                    *)
(*                                                                         *)
(* Conn.Send is taken at its interface: it succeeds while the connection   *)
(* is open and fails with ErrConnClosed afterwards.  A retransmission task *)
(* is its counter, and a run of it, a start and a close of its manager are *)
(* one step each (Retransmit has their interleavings).                     *)
(***************************************************************************)
EXTENDS Integers, Sequences, FiniteSets

CONSTANTS Conns,         \* connections (devices) of the receiving user
          Partitions,    \* a consumer goroutine for each
          Msgs,          \* ids of messages the backend pushes
          Ups,           \* ids of messages the clients send
          OtherCmds,     \* what the clients send besides: heartbeats, invalid frames
          MaxRetryCnt,   \* of the retransmission manager
          MaxAttempts,   \* of the Kafka writer: how often it writes one batch
          MaxDeliveries, \* bound: how often the group consumes one message
          MaxQueue,      \* bound: frames of one client on their way
          MaxSends       \* bound: how often a client sends one message

ASSUME MessagingAssumption ==
    /\ IsFiniteSet(Conns) /\ IsFiniteSet(Partitions)
    /\ MaxRetryCnt \in Nat \ {0}
    /\ MaxAttempts \in Nat \ {0}
    /\ MaxDeliveries \in Nat
    /\ MaxQueue \in Nat \ {0}
    /\ MaxSends \in Nat
    /\ Msgs \cap Ups = {}
    /\ OtherCmds \subseteq {"heartbeat", "invalid"}

VARIABLES open,        \* [Conns -> BOOLEAN]
          deliveries,  \* [Msgs -> how often the message was consumed]
          consumer,    \* [Partitions -> consumePushMessage: the message, the connections
                       \* found that are still to push to, and to call start for]
          mclosed,     \* the retransmission manager is closed
          task,        \* [Conns -> [Msgs -> retransmitCnt, or Absent]]
          copies,      \* history: [Conns -> [Msgs -> copies that Send accepted]]
          unacked,     \* [Conns -> messages received that the client will acknowledge]
          frames,      \* [Conns -> frames on their way to the handler, in order]
          sends,       \* [Conns -> [Ups -> how often the client sent it]]
          cache,       \* ids under the de-duplication keys in Redis
          handler,     \* [Conns -> OnReceiveFromFrontend: pc, frame, forward's result]
          answer,      \* [Conns -> [Ups -> last ack the client got]]
          queued,      \* [Ups -> attempts of the writer after Produce returned]
          forwarded,   \* history: [Ups -> copies in the backend's topic]
          lives        \* history: [Ups -> how often the key was set anew]

clientVars == <<unacked, sends, answer>>
downVars == <<deliveries, consumer, mclosed, task, copies>>
topicVars == <<queued, forwarded>>
keyVars == <<cache, lives>>
upVars == <<keyVars, handler, topicVars>>
vars == <<open, clientVars, downVars, upVars, frames>>

Absent == -1
Frame(cmd, id) == [cmd |-> cmd, id |-> id]
NoId == {}                              \* a heartbeat's or an invalid frame's id
Idle == [msg |-> NoId, left |-> {}, start |-> {}]
Resting == [pc |-> "idle", frame |-> Frame("none", NoId), ok |-> FALSE]

Init ==
    /\ open = [c \in Conns |-> TRUE]
    /\ deliveries = [m \in Msgs |-> 0]
    /\ consumer = [p \in Partitions |-> Idle]
    /\ mclosed = FALSE
    /\ task = [c \in Conns |-> [m \in Msgs |-> Absent]]
    /\ copies = [c \in Conns |-> [m \in Msgs |-> 0]]
    /\ unacked = [c \in Conns |-> {}]
    /\ frames = [c \in Conns |-> <<>>]
    /\ sends = [c \in Conns |-> [u \in Ups |-> 0]]
    /\ cache = {}
    /\ handler = [c \in Conns |-> Resting]
    /\ answer = [c \in Conns |-> [u \in Ups |-> "none"]]
    /\ queued = [u \in Ups |-> 0]
    /\ forwarded = [u \in Ups |-> 0]
    /\ lives = [u \in Ups |-> 0]

(***************************************************************************)
(* Backend to client.                                                      *)
(***************************************************************************)
\* Send succeeded: the client will receive the copy and acknowledge it.
Receives(c, m) ==
    /\ copies' = [copies EXCEPT ![c][m] = @ + 1]
    /\ unacked' = [unacked EXCEPT ![c] = @ \cup {m}]

\* A consumer takes a message, also one that the group has consumed before (Consumer
\* has the redelivery), and looks up the user's connections.  It may find closed ones
\* that are still in the tables, and miss open ones that ConnManager's races took out
\* of them.  Without any, the error is logged and this delivery is over.
Consume(p, m) ==
    /\ consumer[p] = Idle
    /\ deliveries[m] < MaxDeliveries
    /\ deliveries' = [deliveries EXCEPT ![m] = @ + 1]
    /\ \E found \in SUBSET Conns :
          consumer' = IF found = {} THEN consumer
                      ELSE [consumer EXCEPT ![p] = [msg |-> m, left |-> found, start |-> found]]
    /\ UNCHANGED <<open, clientVars, mclosed, task, copies, upVars, frames>>


\* The early return from the loop: the deferred Start still follows.
LeavePushLoop(p) == [consumer[p] EXCEPT !.left = {}]

\* BackendMsgHandler's loop, in the order of a Go map: the first failing push leaves it.
Push(p, c) ==
    /\ c \in consumer[p].left
    /\ IF open[c]
       THEN /\ Receives(c, consumer[p].msg)
            /\ consumer' = [consumer EXCEPT ![p].left = @ \ {c}]
       ELSE /\ consumer' = [consumer EXCEPT ![p] = LeavePushLoop(p)]
            /\ UNCHANGED <<copies, unacked>>
    /\ UNCHANGED <<open, sends, answer, deliveries, mclosed, task, upVars, frames>>

\* One turn of the loop in the deferred Start, for any connection found: nothing in a
\* closed manager, nor beside a task that is there.
Start(p, c) ==
    /\ consumer[p].left = {}
    /\ c \in consumer[p].start
    /\ LET m == consumer[p].msg IN
       task' = IF mclosed \/ task[c][m] # Absent THEN task
               ELSE [task EXCEPT ![c][m] = 0]
    /\ consumer' = IF consumer[p].start = {c} THEN [consumer EXCEPT ![p] = Idle]
                   ELSE [consumer EXCEPT ![p].start = @ \ {c}]
    /\ UNCHANGED <<open, clientVars, deliveries, mclosed, copies, upVars, frames>>

LimitReached(n) == n >= MaxRetryCnt

\* A run that pushes but forgets to count.
CountedNever(n) == n

\* retransmitCnt.Add(1).
Counted(n) == n + 1

\* The run of a task (Task.run).
Retransmit(c, m) ==
    /\ task[c][m] # Absent
    /\ LET n == Counted(task[c][m]) IN
       IF LimitReached(n) \/ ~open[c]
       THEN task' = [task EXCEPT ![c][m] = Absent] /\ UNCHANGED <<copies, unacked>>
       ELSE task' = [task EXCEPT ![c][m] = n] /\ Receives(c, m)
    /\ UNCHANGED <<open, sends, answer, deliveries, consumer, mclosed, upVars, frames>>

\* The hook of the application's stop: Manager.Close takes every task out.
CloseManager ==
    /\ ~mclosed
    /\ mclosed' = TRUE
    /\ task' = [c \in Conns |-> [m \in Msgs |-> Absent]]
    /\ UNCHANGED <<open, clientVars, deliveries, consumer, copies, upVars, frames>>

(***************************************************************************)
(* Clients (external): they acknowledge what they receive, send messages,  *)
(* send a message again that was not acknowledged positively, send a       *)
(* command that the gateway has no handler for, and go away.               *)
(***************************************************************************)
Transmit(c, f) ==
    /\ open[c]
    /\ Len(frames[c]) < MaxQueue
    /\ frames' = [frames EXCEPT ![c] = Append(@, f)]

ClientAck(c, m) ==
    /\ m \in unacked[c]
    /\ Transmit(c, Frame("ack", m))
    /\ unacked' = [unacked EXCEPT ![c] = @ \ {m}]
    /\ UNCHANGED <<open, sends, answer, downVars, upVars>>

ClientSend(c, cmd, u) ==
    /\ sends[c][u] < MaxSends
    /\ answer[c][u] # "success"
    /\ Transmit(c, Frame(cmd, u))
    /\ sends' = [sends EXCEPT ![c][u] = @ + 1]
    /\ UNCHANGED <<open, unacked, answer, downVars, upVars>>

\* A heartbeat, or bytes that do not decode to a message.
ClientOther(c, cmd) ==
    /\ Transmit(c, Frame(cmd, NoId))
    /\ UNCHANGED <<open, clientVars, downVars, upVars>>

\* The connection ends, from either side.
CloseConn(c) ==
    /\ open[c]
    /\ open' = [open EXCEPT ![c] = FALSE]
    /\ UNCHANGED <<clientVars, downVars, upVars, frames>>

(***************************************************************************)
(* Client to backend: OnReceiveFromFrontend.                               *)
(***************************************************************************)
Finish(c) == handler' = [handler EXCEPT ![c] = Resting]

\* handleConn's loop takes the next frame.
TakeFrame(c) ==
    /\ handler[c].pc = "idle"
    /\ frames[c] # <<>>
    /\ frames' = [frames EXCEPT ![c] = Tail(@)]

\* The frame decodes to a message with an id, which goes through the cache.
HasId(f) == f.id # NoId

\* handleConn's loop sees the closed connection: frames still buffered are lost.
LeaveLoop(c) ==
    /\ handler[c].pc = "idle"
    /\ ~open[c] /\ frames[c] # <<>>
    /\ frames' = [frames EXCEPT ![c] = <<>>]
    /\ UNCHANGED <<open, clientVars, downVars, upVars>>

\* decodePayload fails, or a heartbeat, which is not cached, is sent back: on a
\* closed connection the error of that push ends the loop.
NoIdFrame(c) ==
    /\ handler[c].pc = "idle"
    /\ frames[c] # <<>> /\ ~HasId(Head(frames[c]))
    /\ frames' = [frames EXCEPT ![c] =
                     IF Head(@).cmd = "heartbeat" /\ ~open[c] THEN <<>> ELSE Tail(@)]
    /\ UNCHANGED <<open, clientVars, downVars, upVars>>

\* A cacheMessage that sets the key but does not look at SetNX's answer.
FirstSeenStale(id) == TRUE

\* SetNX sets the key: the message was not seen within cacheExpiration.
FirstSeen(id) == id \notin cache

\* The key is in Redis; `lives' counts the times it was not there before.
SetKey(id) ==
    /\ cache' = cache \cup {id}
    /\ lives' = [u \in Ups |-> IF u = id /\ u \notin cache THEN lives[u] + 1 ELSE lives[u]]

\* cacheMessage: a new id goes on; a duplicate is dropped.
Dedup(c) ==
    /\ TakeFrame(c)
    /\ HasId(Head(frames[c]))
    /\ LET f == Head(frames[c]) IN
       IF FirstSeen(f.id)
       THEN /\ SetKey(f.id)
            /\ handler' = [handler EXCEPT ![c] = [pc |-> "handle", frame |-> f, ok |-> FALSE]]
       ELSE UNCHANGED <<keyVars, handler>>
    /\ UNCHANGED <<open, clientVars, downVars, topicVars>>

\* Redis fails: the frame is dropped, with the key set or not.
DedupFailed(c) ==
    /\ TakeFrame(c)
    /\ HasId(Head(frames[c]))
    /\ UNCHANGED keyVars \/ SetKey(Head(frames[c]).id)
    /\ UNCHANGED <<open, clientVars, downVars, handler, topicVars>>

Handling(c, cmd) == handler[c].pc = "handle" /\ handler[c].frame.cmd = cmd

\* DownstreamAckHandler: stop the retransmission on this connection.
HandleAck(c) ==
    /\ Handling(c, "ack")
    /\ task' = [task EXCEPT ![c][handler[c].frame.id] = Absent]
    /\ Finish(c)
    /\ UNCHANGED <<open, clientVars, deliveries, consumer, mclosed, copies, keyVars, topicVars, frames>>

\* No handler for the command: ErrUnknownMessageType, returned at once.
HandleUnknown(c) ==
    /\ Handling(c, "unknown")
    /\ Finish(c)
    /\ UNCHANGED <<open, clientVars, downVars, keyVars, topicVars, frames>>

\* An ack that does not depend on the result of forwardToBackend.
ResultIgnored(ok) == TRUE

\* Success of the ack payload.
AckSuccess(ok) == ok

\* FrontendMsgHandler: the writer writes the batch, again when an answer of the broker is
\* lost, MaxAttempts times at most.  Produce succeeds after `written' copies; or its
\* context ends first, or the attempts are used up, and it fails with any number of
\* copies written and the remaining attempts still to come.
Forward(c) ==
    /\ Handling(c, "upstream")
    /\ \E ok \in BOOLEAN, written, later \in 0..MaxAttempts :
          /\ written + later <= MaxAttempts
          /\ ok => written > 0 /\ later = 0
          /\ handler' = [handler EXCEPT ![c].pc = "ack", ![c].ok = AckSuccess(ok)]
          /\ forwarded' = [forwarded EXCEPT ![handler[c].frame.id] = @ + written]
          /\ queued' = [queued EXCEPT ![handler[c].frame.id] = @ + later]
    /\ UNCHANGED <<open, clientVars, downVars, keyVars, frames>>

\* An attempt of the writer (external) whose Produce has returned: after the failure was
\* acknowledged, or when the key has expired and the message came again.
WriteLater(u) ==
    /\ queued[u] > 0
    /\ queued' = [queued EXCEPT ![u] = @ - 1]
    /\ \E written \in {0, 1} : forwarded' = [forwarded EXCEPT ![u] = @ + written]
    /\ UNCHANGED <<open, clientVars, downVars, keyVars, handler, frames>>

\* The ack is pushed to the client; on a closed connection the error ends the loop.
\* No error of Handle is one that needUncacheMessage knows: the key stays.
SendAck(c) ==
    /\ handler[c].pc = "ack"
    /\ IF open[c]
       THEN /\ answer' = [answer EXCEPT ![c][handler[c].frame.id] =
                             IF handler[c].ok THEN "success" ELSE "failure"]
            /\ frames' = frames
       ELSE /\ frames' = [frames EXCEPT ![c] = <<>>]
            /\ answer' = answer
    /\ Finish(c)
    /\ UNCHANGED <<open, unacked, sends, downVars, keyVars, topicVars>>

\* cacheExpiration passes, also while the message is handled: nothing makes it longer
\* than onReceiveTimeout.
Expire(id) ==
    /\ id \in cache
    /\ cache' = cache \ {id}
    /\ UNCHANGED <<open, clientVars, downVars, lives, handler, topicVars, frames>>

HandlerStep(c) ==
    \/ LeaveLoop(c) \/ NoIdFrame(c) \/ Dedup(c) \/ DedupFailed(c)
    \/ HandleAck(c) \/ HandleUnknown(c) \/ Forward(c) \/ SendAck(c)

ConsumerStep(p) == \E c \in Conns : Push(p, c) \/ Start(p, c)

\* Every connection is closed and nothing is left to do.
Quiet ==
    /\ cache = {}
    /\ \A m \in Msgs : deliveries[m] = MaxDeliveries
    /\ \A u \in Ups : queued[u] = 0
    /\ \A p \in Partitions : consumer[p] = Idle
    /\ \A c \in Conns : /\ ~open[c] /\ frames[c] = <<>> /\ handler[c].pc = "idle"
                        /\ \A m \in Msgs : task[c][m] = Absent
    /\ UNCHANGED vars

Next ==
    \/ \E p \in Partitions : ConsumerStep(p) \/ \E m \in Msgs : Consume(p, m)
    \/ \E c \in Conns :
          \/ HandlerStep(c) \/ CloseConn(c)
          \/ \E m \in Msgs : Retransmit(c, m) \/ ClientAck(c, m)
          \/ \E u \in Ups, cmd \in {"upstream", "unknown"} : ClientSend(c, cmd, u)
          \/ \E cmd \in OtherCmds : ClientOther(c, cmd)
    \/ CloseManager
    \/ \E u \in Ups : WriteLater(u)
    \/ \E id \in Msgs \cup Ups : Expire(id)
    \/ Quiet

Spec == Init /\ [][Next]_vars

\* The consumers and the timers keep going; no handler has to.
FairSpec ==
    /\ Spec
    /\ \A p \in Partitions : WF_vars(ConsumerStep(p))
    /\ \A c \in Conns, m \in Msgs : WF_vars(Retransmit(c, m))

(***************************************************************************)
(* Properties.                                                             *)
(***************************************************************************)
\* However deliveries of a message by several consumers, acks, timers and closing
\* interleave, a device gets for every delivery at most the push and maxRetryCnt
\* retransmissions, whichever delivery's task makes them.
CopiesBounded ==
    \A c \in Conns, m \in Msgs : copies[c][m] <= (1 + MaxRetryCnt) * deliveries[m]

\* Two devices that send the same message at the same time, or one that sends it again,
\* get it into the topic at most as often as the writer attempts it in a life of the
\* de-duplication key: also when the key expires while the message is handled, and
\* counting what is written after Produce has failed.
ForwardedPerKey == \A u \in Ups : forwarded[u] <= MaxAttempts * lives[u]

\* A client is told "success" only for a message that is in the backend's topic,
\* also when its connection, the key or the ack raced with another device's.
AckTruthful == \A c \in Conns, u \in Ups : answer[c][u] = "success" => forwarded[u] > 0

\* Without retransmissions nobody is served behind a push that failed: with maxRetryCnt 1
\* the first run of a task gives up.
CutOff == MaxRetryCnt = 1 /\ \E d \in Conns : ~open[d]


\* The handler of c drops the ack for m as a duplicate.
AckDropped(c, m) ==
    /\ handler[c].pc = "idle" /\ frames[c] # <<>>
    /\ Head(frames[c]) = Frame("ack", m) /\ m \in cache
    /\ frames'[c] = Tail(frames[c]) /\ UNCHANGED <<cache, handler>>

===============================================================================
