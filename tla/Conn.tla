-------------------------------- MODULE Conn ----------------------------------
(***************************************************************************)
(* One WebSocket connection (internal/ws/conn/conn.go): Send, sendLoop     *)
(* with trySend, receiveLoop and Close, together with the handleConn loop  *)
(* that consumes it and answers every frame through Send, as the heartbeat *)
(* handler does.                                                           *)
(*                                                                         *)
(* The socket is external: a write or a read ends with success, a timeout  *)
(* or another error; once the socket is closed only the error is left.     *)
(* wire holds the payloads whose write succeeded.  Delays (rate limiter,   *)
(* backoff, deadlines) are steps that take place some time.                *)
(***************************************************************************)
EXTENDS Integers, Sequences

CONSTANTS Pushers,         \* goroutines that call Send (message push, retransmission)
          Frames,          \* number of frames the client sends at most
          SendBuffer,      \* cap(sendChan)
          ReceiveBuffer,   \* cap(receiveChan)
          MaxRetryCount,   \* maxRetryCount of trySend
          None

ASSUME ConnAssumption ==
    /\ Frames \in Nat
    /\ SendBuffer \in Nat \ {0}
    /\ ReceiveBuffer \in Nat \ {0}
    /\ MaxRetryCount \in Nat
    /\ Pushers \cap (1..Frames) = {}
    /\ None \notin Pushers \cup (1..Frames)

VARIABLES sendChan, receiveChan,   \* contents of the two channels
          receiveClosed,           \* close(receiveChan) was called
          pusher,                  \* [Pushers -> progress of its Send]
          sl, cur, tries,          \* sendLoop: pc, payload of trySend, timeouts so far
          rl, got, nextIn,         \* receiveLoop: pc, frame read, number of the next frame
          hd, frame,               \* handleConn: pc, frame being handled
          parentDone,              \* the server's context is done
          closing,                 \* progress of closeOnce
          accepted, wire, handled  \* histories: payloads sent to sendChan, written
                                   \* to the socket; frames given to the handler

sendVars == <<sendChan, accepted>>
sendLoopVars == <<sl, cur, tries, wire>>
receiveVars == <<rl, got, nextIn>>
handlerVars == <<hd, frame, handled>>
vars == <<sendVars, sendLoopVars, receiveVars, receiveChan, receiveClosed, handlerVars, pusher,
          parentDone, closing>>

\* What Send carries: a pusher's message, or the answer to a frame.
Payloads == Pushers \cup (1..Frames)

Init ==
    /\ sendChan = <<>> /\ receiveChan = <<>> /\ receiveClosed = FALSE
    /\ pusher = [p \in Pushers |-> "idle"]
    /\ sl = "select" /\ cur = None /\ tries = 0
    /\ rl = "check" /\ got = None /\ nextIn = 1
    /\ hd = "select" /\ frame = None
    /\ parentDone = FALSE
    /\ closing = "no"
    /\ accepted = <<>> /\ wire = <<>> /\ handled = <<>>

\* c.ctx: done by Close's cancelFunc or with the server's context.
Done == parentDone \/ closing \in {"cancelled", "netClosed", "done"}
NetOpen == closing \notin {"netClosed", "done"}

(***************************************************************************)
(* Send: a select between the context and room in sendChan; after the      *)
(* channel send the context is looked at again.                            *)
(***************************************************************************)
Enqueue(payload) ==
    /\ Len(sendChan) < SendBuffer
    /\ sendChan' = Append(sendChan, payload)
    /\ accepted' = Append(accepted, payload)

PusherTo(p, to) == pusher' = [pusher EXCEPT ![p] = to]

Send(p) ==
    /\ pusher[p] = "idle"
    /\ PusherTo(p, "sending")
    /\ UNCHANGED <<sendVars, sendLoopVars, receiveVars, receiveChan, receiveClosed, handlerVars,
                   parentDone, closing>>

SendEnqueue(p) ==
    /\ pusher[p] = "sending"
    /\ Enqueue(p)
    /\ PusherTo(p, "enqueued")
    /\ UNCHANGED <<sendLoopVars, receiveVars, receiveChan, receiveClosed, handlerVars,
                   parentDone, closing>>

\* A Send that waits for room only.
SendSeesClose(p) == FALSE

\* The Done branch of the select.
SendAborts(p) == Done

\* Send returns ErrConnClosed without sending, or returns after sending.
SendReturn(p) ==
    /\ \/ pusher[p] = "sending" /\ SendAborts(p) /\ PusherTo(p, "errClosed")
       \/ pusher[p] = "enqueued" /\ PusherTo(p, IF Done THEN "errClosed" ELSE "ok")
    /\ UNCHANGED <<sendVars, sendLoopVars, receiveVars, receiveChan, receiveClosed, handlerVars,
                   parentDone, closing>>

(***************************************************************************)
(* sendLoop and trySend.                                                   *)
(***************************************************************************)
OutsideSendLoop == <<accepted, receiveVars, receiveChan, receiveClosed, handlerVars, pusher,
                     parentDone, closing>>

SendLoopTake ==
    /\ sl = "select"
    /\ sendChan # <<>>
    /\ cur' = Head(sendChan)
    /\ sendChan' = Tail(sendChan)
    /\ tries' = 0
    /\ sl' = "try"
    /\ UNCHANGED <<wire, OutsideSendLoop>>

\* The context is done at one of the selects of sendLoop and trySend.
SendLoopStop ==
    /\ sl \in {"select", "try", "backoff"}
    /\ Done
    /\ sl' = "exit"
    /\ UNCHANGED <<sendChan, cur, tries, wire, OutsideSendLoop>>

TryWrite ==
    /\ sl = "try"
    /\ ~Done
    /\ sl' = "write"
    /\ UNCHANGED <<sendChan, cur, tries, wire, OutsideSendLoop>>

WriteOK ==
    /\ sl = "write"
    /\ NetOpen
    /\ wire' = Append(wire, cur)
    /\ cur' = None
    /\ sl' = "select"
    /\ UNCHANGED <<sendChan, tries, OutsideSendLoop>>

\* A trySend that drops the message, not the connection, at the retry limit.
WriteTimeoutDrops ==
    /\ sl = "write"
    /\ NetOpen
    /\ IF tries < MaxRetryCount
       THEN tries' = tries + 1 /\ sl' = "backoff" /\ cur' = cur
       ELSE tries' = tries /\ sl' = "select" /\ cur' = None
    /\ UNCHANGED <<sendChan, wire, OutsideSendLoop>>

\* A retry limit that is off by one.
WriteTimeoutOnceMore ==
    /\ sl = "write"
    /\ NetOpen
    /\ IF tries <= MaxRetryCount
       THEN tries' = tries + 1 /\ sl' = "backoff"
       ELSE tries' = tries /\ sl' = "exit"
    /\ UNCHANGED <<sendChan, cur, wire, OutsideSendLoop>>

\* A timeout is retried after a backoff, until the strategy gives up.
WriteTimeout ==
    /\ sl = "write"
    /\ NetOpen
    /\ IF tries < MaxRetryCount
       THEN tries' = tries + 1 /\ sl' = "backoff"
       ELSE tries' = tries /\ sl' = "exit"
    /\ UNCHANGED <<sendChan, cur, wire, OutsideSendLoop>>

WriteError ==
    /\ sl = "write"
    /\ sl' = "exit"
    /\ UNCHANGED <<sendChan, cur, tries, wire, OutsideSendLoop>>

Backoff ==
    /\ sl = "backoff"
    /\ sl' = "try"
    /\ UNCHANGED <<sendChan, cur, tries, wire, OutsideSendLoop>>

\* The deferred Close returns.
SendLoopEnd ==
    /\ sl = "exit"
    /\ closing = "done"
    /\ sl' = "done"
    /\ UNCHANGED <<sendChan, cur, tries, wire, OutsideSendLoop>>

(***************************************************************************)
(* receiveLoop.                                                            *)
(***************************************************************************)
OutsideReceiveLoop == <<sendVars, sendLoopVars, handlerVars, pusher, parentDone, closing>>

ReceiveCheck ==
    /\ rl = "check"
    /\ rl' = IF Done THEN "closeChan" ELSE "read"
    /\ UNCHANGED <<got, nextIn, receiveChan, receiveClosed, OutsideReceiveLoop>>

ReadFrame ==
    /\ rl = "read"
    /\ NetOpen
    /\ nextIn <= Frames
    /\ got' = nextIn
    /\ nextIn' = nextIn + 1
    /\ rl' = "deliver"
    /\ UNCHANGED <<receiveChan, receiveClosed, OutsideReceiveLoop>>

\* A timeout does not end the loop.  One in the middle of a frame discards the bytes read
\* so far, which is framing and external: the frames here are those that Read returns.
ReadTimeout ==
    /\ rl = "read"
    /\ NetOpen
    /\ rl' = "check"
    /\ UNCHANGED <<got, nextIn, receiveChan, receiveClosed, OutsideReceiveLoop>>

\* The client's close frame or any other error ends the loop.
ReadError ==
    /\ rl = "read"
    /\ rl' = "closeChan"
    /\ UNCHANGED <<got, nextIn, receiveChan, receiveClosed, OutsideReceiveLoop>>

\* A delivery that drops the frame when the channel is full.
DeliverOrDrop ==
    /\ rl = "deliver"
    /\ receiveChan' = IF Len(receiveChan) < ReceiveBuffer THEN Append(receiveChan, got)
                      ELSE receiveChan
    /\ got' = None
    /\ rl' = "check"
    /\ UNCHANGED <<nextIn, receiveClosed, OutsideReceiveLoop>>

Deliver ==
    /\ rl = "deliver"
    /\ Len(receiveChan) < ReceiveBuffer
    /\ receiveChan' = Append(receiveChan, got)
    /\ got' = None
    /\ rl' = "check"
    /\ UNCHANGED <<nextIn, receiveClosed, OutsideReceiveLoop>>

\* A plain channel send in place of the select.
DeliverStopMissing == rl = "deliver" /\ FALSE /\ UNCHANGED vars

DeliverStop ==
    /\ rl = "deliver"
    /\ Done
    /\ rl' = "closeChan"
    /\ UNCHANGED <<got, nextIn, receiveChan, receiveClosed, OutsideReceiveLoop>>

CloseReceiveChan ==
    /\ rl = "closeChan"
    /\ receiveClosed' = TRUE
    /\ rl' = "exit"
    /\ UNCHANGED <<got, nextIn, receiveChan, OutsideReceiveLoop>>

ReceiveLoopEnd ==
    /\ rl = "exit"
    /\ closing = "done"
    /\ rl' = "done"
    /\ UNCHANGED <<got, nextIn, receiveChan, receiveClosed, OutsideReceiveLoop>>

(***************************************************************************)
(* The loop of handleConn: a frame is answered by Send; the loop ends on   *)
(* the closed channel, a done context or ErrConnClosed, and then closes    *)
(* the connection.                                                         *)
(***************************************************************************)
OutsideHandler == <<sendLoopVars, receiveVars, receiveClosed, pusher, parentDone, closing>>

HandleFrame ==
    /\ hd = "select"
    /\ receiveChan # <<>>
    /\ frame' = Head(receiveChan)
    /\ receiveChan' = Tail(receiveChan)
    /\ handled' = Append(handled, frame')
    /\ hd' = "send"
    /\ UNCHANGED <<sendVars, OutsideHandler>>

HandlerSend ==
    /\ hd = "send"
    /\ Enqueue(frame)
    /\ hd' = "sent"
    /\ UNCHANGED <<receiveChan, frame, handled, OutsideHandler>>

\* Send's result: nil goes on with the next frame, ErrConnClosed leaves.
HandlerSent ==
    /\ \/ hd = "send" /\ Done /\ hd' = "exit"
       \/ hd = "sent" /\ hd' = (IF Done THEN "exit" ELSE "select")
    /\ frame' = None
    /\ UNCHANGED <<sendVars, receiveChan, handled, OutsideHandler>>

HandlerLeave ==
    /\ hd = "select"
    /\ Done \/ (receiveClosed /\ receiveChan = <<>>)
    /\ hd' = "exit"
    /\ UNCHANGED <<sendVars, receiveChan, frame, handled, OutsideHandler>>

HandlerEnd ==
    /\ hd = "exit"
    /\ closing = "done"
    /\ hd' = "done"
    /\ UNCHANGED <<sendVars, receiveChan, frame, handled, OutsideHandler>>

(***************************************************************************)
(* Close: close frame, cancelFunc, netConn.Close, session.Destroy, by the  *)
(* first caller; all callers return when it is done (closeOnce).           *)
(***************************************************************************)
OutsideClose == <<sendVars, sendLoopVars, receiveVars, receiveChan, receiveClosed, handlerVars,
                  pusher, parentDone>>

\* The first call: by one of the loops, by the handler, or, at any time, by the
\* ConnManager.  The close frame is tried first.
CloseBegin ==
    /\ closing = "no"
    /\ closing' = "frame"
    /\ UNCHANGED OutsideClose

CloseCancel == closing = "frame" /\ closing' = "cancelled" /\ UNCHANGED OutsideClose
CloseNet == closing = "cancelled" /\ closing' = "netClosed" /\ UNCHANGED OutsideClose
CloseDestroy == closing = "netClosed" /\ closing' = "done" /\ UNCHANGED OutsideClose

ParentCancel ==
    /\ ~parentDone
    /\ parentDone' = TRUE
    /\ UNCHANGED <<sendVars, sendLoopVars, receiveVars, receiveChan, receiveClosed, handlerVars,
                   pusher, closing>>

SendStep(p) == SendEnqueue(p) \/ SendReturn(p)
SendLoopStep == SendLoopTake \/ SendLoopStop \/ TryWrite \/ WriteOK \/ WriteTimeout \/ WriteError
                  \/ Backoff \/ SendLoopEnd
ReceiveLoopStep == ReceiveCheck \/ ReadFrame \/ ReadTimeout \/ ReadError \/ Deliver \/ DeliverStop
                     \/ CloseReceiveChan \/ ReceiveLoopEnd
HandlerStep == HandleFrame \/ HandlerSend \/ HandlerSent \/ HandlerLeave \/ HandlerEnd
CloseStep == CloseCancel \/ CloseNet \/ CloseDestroy

TornDown == sl = "done" /\ rl = "done" /\ hd = "done" /\ closing = "done" /\ receiveClosed

Next ==
    \/ \E p \in Pushers : Send(p) \/ SendStep(p)
    \/ SendLoopStep \/ ReceiveLoopStep \/ HandlerStep
    \/ CloseBegin \/ CloseStep \/ ParentCancel
    \/ TornDown /\ UNCHANGED vars

Spec == Init /\ [][Next]_vars

\* Goroutines that can run do run, and every read and write ends, by its deadline
\* at the latest.  A Close that one of the goroutines has called begins.
Fairness ==
    /\ \A p \in Pushers : WF_vars(SendStep(p))
    /\ WF_vars(SendLoopStep) /\ WF_vars(ReceiveLoopStep) /\ WF_vars(HandlerStep)
    /\ WF_vars("exit" \in {sl, rl, hd} /\ CloseBegin) /\ WF_vars(CloseStep)

FairSpec == Spec /\ Fairness

(***************************************************************************)
(* Properties.                                                             *)
(***************************************************************************)
\* Types of the state; the channels never exceed their capacity.
TypeOK ==
    /\ sendChan \in Seq(Payloads) /\ Len(sendChan) <= SendBuffer
    /\ receiveChan \in Seq(1..Frames) /\ Len(receiveChan) <= ReceiveBuffer
    /\ receiveClosed \in BOOLEAN
    /\ pusher \in [Pushers -> {"idle", "sending", "enqueued", "ok", "errClosed"}]
    /\ sl \in {"select", "try", "write", "backoff", "exit", "done"}
    /\ cur \in Payloads \cup {None}
    /\ tries \in 0..MaxRetryCount
    /\ rl \in {"check", "read", "deliver", "closeChan", "exit", "done"}
    /\ got \in (1..Frames) \cup {None}
    /\ nextIn \in 1..(Frames + 1)
    /\ hd \in {"select", "send", "sent", "exit", "done"}
    /\ frame \in (1..Frames) \cup {None}
    /\ parentDone \in BOOLEAN
    /\ closing \in {"no", "frame", "cancelled", "netClosed", "done"}
    /\ accepted \in Seq(Payloads)
    /\ wire \in Seq(Payloads)
    /\ handled \in Seq(1..Frames)

InFlight == IF cur = None THEN <<>> ELSE <<cur>>

\* Whatever write times out, is retried or fails, and whoever closes meanwhile, what
\* Send accepted is what was written, what is being written and what is queued,
\* in this order: nothing is skipped, repeated or reordered on the wire.
StreamIntact == accepted = wire \o InFlight \o sendChan

\* From Send to the socket the connection is a FIFO of capacity SendBuffer + 1.
SendPipe == INSTANCE BoundedPipe WITH
    Capacity <- SendBuffer + 1, in <- accepted, out <- wire, ended <- sl \in {"exit", "done"}

\* From the socket to the handler it is a FIFO of capacity ReceiveBuffer + 1.
ReceivePipe == INSTANCE BoundedPipe WITH
    Capacity <- ReceiveBuffer + 1, in <- [i \in 1..(nextIn - 1) |-> i], out <- handled,
    ended <- hd \in {"exit", "done"}

\* Write timeouts, retries, full channels and closing never skip, repeat or reorder a
\* payload that Send accepted or a frame that was read (what a read timeout in the
\* middle of a frame discards was not), and a send loop or handler that has left leaves
\* at most the pipe's capacity behind.
StreamsArePipes == SendPipe!Spec /\ ReceivePipe!Spec

\* Every Send returns, also when sendChan is full and the client reads nothing, and
\* also the handler's own, on which the reading side waits; and nothing stays for
\* ever in a channel of a live connection.
NothingStuck ==
    /\ \A p \in Pushers : (pusher[p] = "sending") ~> (pusher[p] \in {"ok", "errClosed"})
    /\ (hd = "send") ~> (hd # "send")
    /\ SendPipe!Drains /\ ReceivePipe!Drains

\* However the connection ends (client, failed write, replaced, server
\* context), both loops and the handler end, the receive channel is closed and
\* the session destroyed.
TearsDown == (Done \/ closing # "no" \/ sl = "exit" \/ rl = "closeChan") ~> TornDown
===============================================================================
