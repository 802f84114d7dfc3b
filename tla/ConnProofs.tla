------------------------------ MODULE ConnProofs ------------------------------
(***************************************************************************)
(* The two streams of a connection, for any number of pushers and frames,  *)
(* all buffer sizes and every retry limit.                                 *)
(*                                                                         *)
(* StreamIntact is not inductive: a send loop that took the next payload   *)
(* while it still had one would lose it (LocalsOK).  The frames read need  *)
(* the same statement about their own way (FramesIntact).                  *)
(***************************************************************************)
EXTENDS Conn, SequenceTheorems, TLAPS

\* The payload of trySend is there exactly when it is needed, the frame read until
\* it is delivered, and the handler has the frame whose answer it sends.
LocalsOK ==
    /\ sl = "select" => cur = None
    /\ sl \in {"try", "write", "backoff"} => cur # None
    /\ rl \in {"check", "read"} => got = None
    /\ rl = "deliver" => got # None
    /\ hd = "send" => frame # None

\* The frames read so far, and the one that the receive loop has in its hand.
FramesRead == [i \in 1..(nextIn - 1) |-> i]
InHand == IF got = None THEN <<>> ELSE <<got>>

FramesIntact == FramesRead = handled \o receiveChan \o InHand

IndInv == TypeOK /\ LocalsOK /\ StreamIntact /\ FramesIntact

\* NewConn establishes the types.
LEMMA InitTypeOK == Init => TypeOK /\ LocalsOK
<1> SUFFICES ASSUME Init PROVE TypeOK /\ LocalsOK
  OBVIOUS
<1> USE ConnAssumption DEF Init
<1>1. receiveClosed \in BOOLEAN /\ parentDone \in BOOLEAN
  BY Zenon
<1>2. TypeOK
  BY <1>1 DEF TypeOK
<1> QED
  BY <1>2 DEF LocalsOK

\* Every step keeps the types and the locals of the three goroutines.
LEMMA NextTypeOK == TypeOK /\ LocalsOK /\ [Next]_vars => TypeOK' /\ LocalsOK'
<1> SUFFICES ASSUME TypeOK, LocalsOK, [Next]_vars PROVE TypeOK' /\ LocalsOK'
  OBVIOUS
<1> USE ConnAssumption
    DEF TypeOK, LocalsOK, Payloads, sendVars, sendLoopVars, receiveVars, handlerVars,
        OutsideSendLoop, OutsideReceiveLoop, OutsideHandler, OutsideClose
<1>1. ASSUME NEW p \in Pushers, Send(p) PROVE TypeOK' /\ LocalsOK'
  BY <1>1 DEF Send, PusherTo
<1>2. ASSUME NEW p \in Pushers, SendEnqueue(p) PROVE TypeOK' /\ LocalsOK'
  BY <1>2 DEF SendEnqueue, Enqueue, PusherTo
<1>3. ASSUME NEW p \in Pushers, SendReturn(p) PROVE TypeOK' /\ LocalsOK'
  <2>1. PICK to \in {"ok", "errClosed"} : PusherTo(p, to)
    BY <1>3 DEF SendReturn
  <2>2. pusher' \in [Pushers -> {"idle", "sending", "enqueued", "ok", "errClosed"}]
    BY <2>1 DEF PusherTo
  <2> QED
    BY <1>3, <2>2 DEF SendReturn
<1>4. CASE SendLoopTake
  BY <1>4 DEF SendLoopTake
<1>5. CASE SendLoopStop
  BY <1>5 DEF SendLoopStop
<1>6. CASE TryWrite
  BY <1>6 DEF TryWrite
<1>7. CASE WriteOK
  BY <1>7 DEF WriteOK
<1>8. CASE WriteTimeout
  BY <1>8 DEF WriteTimeout
<1>9. CASE WriteError
  BY <1>9 DEF WriteError
<1>10. CASE Backoff
  BY <1>10 DEF Backoff
<1>11. CASE SendLoopEnd
  BY <1>11 DEF SendLoopEnd
<1>12. CASE ReceiveCheck
  BY <1>12 DEF ReceiveCheck
<1>13. CASE ReadFrame
  BY <1>13 DEF ReadFrame
<1>14. CASE ReadTimeout
  BY <1>14 DEF ReadTimeout
<1>15. CASE ReadError
  BY <1>15 DEF ReadError
<1>16. CASE Deliver
  BY <1>16 DEF Deliver
<1>17. CASE DeliverStop
  BY <1>17 DEF DeliverStop
<1>18. CASE CloseReceiveChan
  BY <1>18 DEF CloseReceiveChan
<1>19. CASE ReceiveLoopEnd
  BY <1>19 DEF ReceiveLoopEnd
<1>20. CASE HandleFrame
  <2>1. receiveChan \in Seq(1..Frames) /\ receiveChan # <<>>
    BY <1>20 DEF HandleFrame
  <2>2. /\ Head(receiveChan) \in 1..Frames /\ Tail(receiveChan) \in Seq(1..Frames)
        /\ Len(Tail(receiveChan)) <= ReceiveBuffer
    BY <2>1
  <2>3. receiveChan' \in Seq(1..Frames) /\ Len(receiveChan') <= ReceiveBuffer /\ frame' \in 1..Frames
    BY <1>20, <2>2 DEF HandleFrame
  <2>4. handled' \in Seq(1..Frames)
    BY <1>20, <2>3 DEF HandleFrame
  <2>5. /\ UNCHANGED <<sendChan, accepted, wire, sl, cur, tries, rl, got, nextIn, receiveClosed>>
        /\ UNCHANGED <<pusher, parentDone, closing>> /\ hd' = "send"
    BY <1>20 DEF HandleFrame
  <2>6. TypeOK'
    BY <2>3, <2>4, <2>5
  <2>7. LocalsOK'
    BY <2>3, <2>5
  <2> QED
    BY <2>6, <2>7
<1>21. CASE HandlerSend
  BY <1>21 DEF HandlerSend, Enqueue
<1>22. CASE HandlerSent
  BY <1>22 DEF HandlerSent
<1>23. CASE HandlerLeave
  BY <1>23 DEF HandlerLeave
<1>24. CASE HandlerEnd
  BY <1>24 DEF HandlerEnd
<1>25. CASE CloseBegin
  BY <1>25 DEF CloseBegin
<1>26. CASE CloseCancel
  BY <1>26 DEF CloseCancel
<1>27. CASE CloseNet
  BY <1>27 DEF CloseNet
<1>28. CASE CloseDestroy
  BY <1>28 DEF CloseDestroy
<1>29. CASE ParentCancel
  BY <1>29 DEF ParentCancel
<1>30. CASE UNCHANGED vars
  BY <1>30 DEF vars
<1> HIDE ConnAssumption
    DEF TypeOK, LocalsOK, Payloads, sendVars, sendLoopVars, receiveVars, handlerVars,
        OutsideSendLoop, OutsideReceiveLoop, OutsideHandler, OutsideClose
<1> QED
  BY <1>1, <1>2, <1>3, <1>4, <1>5, <1>6, <1>7, <1>8, <1>9, <1>10, <1>11, <1>12, <1>13,
     <1>14, <1>15, <1>16, <1>17, <1>18, <1>19, <1>20, <1>21, <1>22, <1>23, <1>24, <1>25,
     <1>26, <1>27, <1>28, <1>29, <1>30
  DEF Next, SendStep, SendLoopStep, ReceiveLoopStep, HandlerStep, CloseStep

(***************************************************************************)
(* The two streams as queues: w was taken out, f is in the hand of the     *)
(* goroutine between, q is in the channel.                                 *)
(***************************************************************************)
\* What the goroutine takes from the channel stays in the stream.
LEMMA QueueTake ==
    ASSUME NEW S, NEW w \in Seq(S), NEW q \in Seq(S), q # <<>>
    PROVE  w \o <<>> \o q = w \o <<Head(q)>> \o Tail(q)
<1>1. Head(q) \in S /\ Tail(q) \in Seq(S) /\ <<Head(q)>> \in Seq(S)
  BY HeadTailProperties
<1>2. q = <<Head(q)>> \o Tail(q)
  BY <1>1, HeadTailProperties, ConcatProperties, SeqEqual
<1>3. w \o <<>> = w
  BY ConcatEmptySeq
<1>4. w \o <<Head(q)>> \o Tail(q) = w \o (<<Head(q)>> \o Tail(q))
  BY <1>1, ConcatAssociative
<1> QED
  BY <1>2, <1>3, <1>4

\* What the goroutine hands over is the next element of the output.
LEMMA QueueGive ==
    ASSUME NEW S, NEW w \in Seq(S), NEW q \in Seq(S), NEW e \in S
    PROVE  w \o <<e>> \o q = Append(w, e) \o <<>> \o q
<1>1. Append(w, e) = w \o <<e>> /\ Append(w, e) \in Seq(S)
  BY AppendIsConcat, AppendProperties
<1> QED
  BY <1>1, ConcatEmptySeq

(***************************************************************************)
(* What a step does to the way of the payloads, and to that of the frames. *)
(***************************************************************************)
SendEnded == sl \in {"exit", "done"}

PutsPayload(e) ==
    /\ Len(sendChan) < SendBuffer
    /\ sendChan' = Append(sendChan, e) /\ accepted' = Append(accepted, e)
    /\ UNCHANGED <<sl, cur, wire>>

TakesPayload ==
    /\ cur = None /\ sendChan # <<>>
    /\ cur' = Head(sendChan) /\ sendChan' = Tail(sendChan)
    /\ ~SendEnded /\ ~SendEnded'
    /\ UNCHANGED <<accepted, wire>>

WritesPayload ==
    /\ cur # None
    /\ wire' = Append(wire, cur) /\ cur' = None
    /\ ~SendEnded /\ ~SendEnded'
    /\ UNCHANGED <<sendChan, accepted>>

KeepsPayloads == UNCHANGED <<sendChan, cur, accepted, wire>> /\ (SendEnded => SendEnded')

SendShape == (\E e \in Payloads : PutsPayload(e)) \/ TakesPayload \/ WritesPayload \/ KeepsPayloads

HandlerEnded == hd \in {"exit", "done"}

ReadsFrame ==
    /\ got = None
    /\ got' = nextIn /\ nextIn' = nextIn + 1 /\ nextIn \in 1..Frames
    /\ UNCHANGED <<receiveChan, handled, hd>>

DeliversFrame ==
    /\ got # None /\ Len(receiveChan) < ReceiveBuffer
    /\ receiveChan' = Append(receiveChan, got) /\ got' = None
    /\ UNCHANGED <<nextIn, handled, hd>>

HandlesFrame ==
    /\ receiveChan # <<>>
    /\ handled' = Append(handled, Head(receiveChan)) /\ receiveChan' = Tail(receiveChan)
    /\ ~HandlerEnded /\ ~HandlerEnded'
    /\ UNCHANGED <<got, nextIn>>

KeepsFrames == UNCHANGED <<receiveChan, got, nextIn, handled>> /\ (HandlerEnded => HandlerEnded')

ReceiveShape == ReadsFrame \/ DeliversFrame \/ HandlesFrame \/ KeepsFrames

\* Whatever goroutine takes a step, the payloads' way sees one of four things.
LEMMA NextSendShape == TypeOK /\ LocalsOK /\ [Next]_vars => SendShape
<1> SUFFICES ASSUME TypeOK, LocalsOK, [Next]_vars PROVE SendShape
  OBVIOUS
<1> USE ConnAssumption
    DEF SendShape, SendEnded, PutsPayload, TakesPayload, WritesPayload, KeepsPayloads,
        TypeOK, LocalsOK, Payloads, sendVars, sendLoopVars, receiveVars, handlerVars,
        OutsideSendLoop, OutsideReceiveLoop, OutsideHandler, OutsideClose
<1>1. ASSUME NEW p \in Pushers, Send(p) PROVE SendShape
  BY <1>1 DEF Send, PusherTo
<1>2. ASSUME NEW p \in Pushers, SendEnqueue(p) PROVE SendShape
  BY <1>2 DEF SendEnqueue, Enqueue, PusherTo
<1>3. ASSUME NEW p \in Pushers, SendReturn(p) PROVE SendShape
  BY <1>3 DEF SendReturn, SendAborts, PusherTo
<1>4. CASE SendLoopTake
  BY <1>4 DEF SendLoopTake
<1>5. CASE SendLoopStop
  BY <1>5 DEF SendLoopStop
<1>6. CASE TryWrite
  BY <1>6 DEF TryWrite
<1>7. CASE WriteOK
  BY <1>7 DEF WriteOK
<1>8. CASE WriteTimeout
  BY <1>8 DEF WriteTimeout
<1>9. CASE WriteError
  BY <1>9 DEF WriteError
<1>10. CASE Backoff
  BY <1>10 DEF Backoff
<1>11. CASE SendLoopEnd
  BY <1>11 DEF SendLoopEnd
<1>12. CASE ReceiveCheck
  BY <1>12 DEF ReceiveCheck
<1>13. CASE ReadFrame
  BY <1>13 DEF ReadFrame
<1>14. CASE ReadTimeout
  BY <1>14 DEF ReadTimeout
<1>15. CASE ReadError
  BY <1>15 DEF ReadError
<1>16. CASE Deliver
  BY <1>16 DEF Deliver
<1>17. CASE DeliverStop
  BY <1>17 DEF DeliverStop
<1>18. CASE CloseReceiveChan
  BY <1>18 DEF CloseReceiveChan
<1>19. CASE ReceiveLoopEnd
  BY <1>19 DEF ReceiveLoopEnd
<1>20. CASE HandleFrame
  BY <1>20 DEF HandleFrame
<1>21. CASE HandlerSend
  BY <1>21 DEF HandlerSend, Enqueue
<1>22. CASE HandlerSent
  BY <1>22 DEF HandlerSent
<1>23. CASE HandlerLeave
  BY <1>23 DEF HandlerLeave
<1>24. CASE HandlerEnd
  BY <1>24 DEF HandlerEnd
<1>25. CASE CloseBegin
  BY <1>25 DEF CloseBegin
<1>26. CASE CloseCancel
  BY <1>26 DEF CloseCancel
<1>27. CASE CloseNet
  BY <1>27 DEF CloseNet
<1>28. CASE CloseDestroy
  BY <1>28 DEF CloseDestroy
<1>29. CASE ParentCancel
  BY <1>29 DEF ParentCancel
<1>30. CASE UNCHANGED vars
  BY <1>30 DEF vars
<1> HIDE ConnAssumption
    DEF SendShape, SendEnded, PutsPayload, TakesPayload, WritesPayload, KeepsPayloads,
        TypeOK, LocalsOK, Payloads, sendVars, sendLoopVars, receiveVars, handlerVars,
        OutsideSendLoop, OutsideReceiveLoop, OutsideHandler, OutsideClose
<1> QED
  BY <1>1, <1>2, <1>3, <1>4, <1>5, <1>6, <1>7, <1>8, <1>9, <1>10, <1>11, <1>12,
     <1>13, <1>14, <1>15, <1>16, <1>17, <1>18, <1>19, <1>20, <1>21, <1>22, <1>23,
     <1>24, <1>25, <1>26, <1>27, <1>28, <1>29, <1>30
  DEF Next, SendStep, SendLoopStep, ReceiveLoopStep, HandlerStep, CloseStep

\* And so does the frames' way.
LEMMA NextReceiveShape == TypeOK /\ LocalsOK /\ [Next]_vars => ReceiveShape
<1> SUFFICES ASSUME TypeOK, LocalsOK, [Next]_vars PROVE ReceiveShape
  OBVIOUS
<1> USE ConnAssumption
    DEF ReceiveShape, HandlerEnded, ReadsFrame, DeliversFrame, HandlesFrame, KeepsFrames,
        TypeOK, LocalsOK, Payloads, sendVars, sendLoopVars, receiveVars, handlerVars,
        OutsideSendLoop, OutsideReceiveLoop, OutsideHandler, OutsideClose
<1>1. ASSUME NEW p \in Pushers, Send(p) PROVE ReceiveShape
  BY <1>1 DEF Send, PusherTo
<1>2. ASSUME NEW p \in Pushers, SendEnqueue(p) PROVE ReceiveShape
  BY <1>2 DEF SendEnqueue, Enqueue, PusherTo
<1>3. ASSUME NEW p \in Pushers, SendReturn(p) PROVE ReceiveShape
  BY <1>3 DEF SendReturn, SendAborts, PusherTo
<1>4. CASE SendLoopTake
  BY <1>4 DEF SendLoopTake
<1>5. CASE SendLoopStop
  BY <1>5 DEF SendLoopStop
<1>6. CASE TryWrite
  BY <1>6 DEF TryWrite
<1>7. CASE WriteOK
  BY <1>7 DEF WriteOK
<1>8. CASE WriteTimeout
  BY <1>8 DEF WriteTimeout
<1>9. CASE WriteError
  BY <1>9 DEF WriteError
<1>10. CASE Backoff
  BY <1>10 DEF Backoff
<1>11. CASE SendLoopEnd
  BY <1>11 DEF SendLoopEnd
<1>12. CASE ReceiveCheck
  BY <1>12 DEF ReceiveCheck
<1>13. CASE ReadFrame
  BY <1>13 DEF ReadFrame
<1>14. CASE ReadTimeout
  BY <1>14 DEF ReadTimeout
<1>15. CASE ReadError
  BY <1>15 DEF ReadError
<1>16. CASE Deliver
  BY <1>16 DEF Deliver
<1>17. CASE DeliverStop
  BY <1>17 DEF DeliverStop
<1>18. CASE CloseReceiveChan
  BY <1>18 DEF CloseReceiveChan
<1>19. CASE ReceiveLoopEnd
  BY <1>19 DEF ReceiveLoopEnd
<1>20. CASE HandleFrame
  BY <1>20 DEF HandleFrame
<1>21. CASE HandlerSend
  BY <1>21 DEF HandlerSend, Enqueue
<1>22. CASE HandlerSent
  BY <1>22 DEF HandlerSent
<1>23. CASE HandlerLeave
  BY <1>23 DEF HandlerLeave
<1>24. CASE HandlerEnd
  BY <1>24 DEF HandlerEnd
<1>25. CASE CloseBegin
  BY <1>25 DEF CloseBegin
<1>26. CASE CloseCancel
  BY <1>26 DEF CloseCancel
<1>27. CASE CloseNet
  BY <1>27 DEF CloseNet
<1>28. CASE CloseDestroy
  BY <1>28 DEF CloseDestroy
<1>29. CASE ParentCancel
  BY <1>29 DEF ParentCancel
<1>30. CASE UNCHANGED vars
  BY <1>30 DEF vars
<1> HIDE ConnAssumption
    DEF ReceiveShape, HandlerEnded, ReadsFrame, DeliversFrame, HandlesFrame, KeepsFrames,
        TypeOK, LocalsOK, Payloads, sendVars, sendLoopVars, receiveVars, handlerVars,
        OutsideSendLoop, OutsideReceiveLoop, OutsideHandler, OutsideClose
<1> QED
  BY <1>1, <1>2, <1>3, <1>4, <1>5, <1>6, <1>7, <1>8, <1>9, <1>10, <1>11, <1>12,
     <1>13, <1>14, <1>15, <1>16, <1>17, <1>18, <1>19, <1>20, <1>21, <1>22, <1>23,
     <1>24, <1>25, <1>26, <1>27, <1>28, <1>29, <1>30
  DEF Next, SendStep, SendLoopStep, ReceiveLoopStep, HandlerStep, CloseStep


\* The pipe counts the elements that were put in and not taken out.
LEMMA SendLoad ==
    ASSUME TypeOK, StreamIntact
    PROVE  /\ Len(accepted) = Len(wire) + Len(InFlight) + Len(sendChan)
           /\ Len(InFlight) = IF cur = None THEN 0 ELSE 1
           /\ InFlight \in Seq(Payloads)
<1>1. InFlight \in Seq(Payloads) /\ Len(InFlight) = IF cur = None THEN 0 ELSE 1
  BY DEF TypeOK, InFlight
<1>2. wire \o InFlight \in Seq(Payloads) /\ Len(wire \o InFlight) = Len(wire) + Len(InFlight)
  BY <1>1, ConcatProperties DEF TypeOK
<1>3. Len(wire \o InFlight \o sendChan) = Len(wire \o InFlight) + Len(sendChan)
  BY <1>2, ConcatProperties DEF TypeOK
<1> QED
  BY <1>1, <1>2, <1>3 DEF StreamIntact

LEMMA ReceiveLoad ==
    ASSUME TypeOK, FramesIntact
    PROVE  /\ nextIn - 1 = Len(handled) + Len(receiveChan) + Len(InHand)
           /\ Len(InHand) = IF got = None THEN 0 ELSE 1
           /\ InHand \in Seq(1..Frames)
           /\ FramesRead \in Seq(1..Frames) /\ Len(FramesRead) = nextIn - 1
<1>1. InHand \in Seq(1..Frames) /\ Len(InHand) = IF got = None THEN 0 ELSE 1
  <2> DEFINE F == 1..Frames
  <2>1. got \in F \cup {None}
    BY DEF TypeOK
  <2> HIDE DEF F
  <2>2. InHand \in Seq(F) /\ Len(InHand) = IF got = None THEN 0 ELSE 1
    BY <2>1 DEF InHand
  <2> QED
    BY <2>2 DEF F
<1>2. handled \o receiveChan \in Seq(1..Frames)
      /\ Len(handled \o receiveChan) = Len(handled) + Len(receiveChan)
  BY ConcatProperties DEF TypeOK
<1>3. Len(handled \o receiveChan \o InHand) = Len(handled \o receiveChan) + Len(InHand)
      /\ handled \o receiveChan \o InHand \in Seq(1..Frames)
  BY <1>1, <1>2, ConcatProperties
<1>4. nextIn - 1 \in Nat /\ DOMAIN FramesRead = 1..(nextIn - 1)
  BY ConnAssumption DEF TypeOK, FramesRead
<1>5. Len(FramesRead) = nextIn - 1
  BY <1>3, <1>4, LenProperties DEF FramesIntact
<1> QED
  BY <1>1, <1>2, <1>3, <1>5 DEF FramesIntact

\* A frame read is one more frame of the stream.
LEMMA ReadAppends ==
    ASSUME TypeOK, FramesIntact, ReadsFrame
    PROVE  FramesRead' = Append(FramesRead, nextIn)
<1> DEFINE F == 1..Frames
<1>1. FramesRead \in Seq(F) /\ Len(FramesRead) = nextIn - 1 /\ nextIn - 1 \in Nat
      /\ nextIn \in Int /\ nextIn \in F
  BY ReceiveLoad, ConnAssumption DEF TypeOK, ReadsFrame
<1> HIDE DEF F
<1>2. FramesRead' = [i \in 1..nextIn |-> i]
  BY <1>1 DEF ReadsFrame, FramesRead
<1>3. Append(FramesRead, nextIn) \in Seq(F) /\ Len(Append(FramesRead, nextIn)) = nextIn
  BY <1>1, AppendProperties
<1>4. \A i \in 1..nextIn : Append(FramesRead, nextIn)[i] = i
  BY <1>1, AppendProperties DEF FramesRead
<1> QED
  BY <1>2, <1>3, <1>4, LenProperties

\* A step keeps the payloads in order.
LEMMA NextStreamIntact ==
    ASSUME TypeOK, TypeOK', LocalsOK, StreamIntact, SendShape
    PROVE  StreamIntact'
<1> DEFINE P == Payloads
<1>1. wire \in Seq(P) /\ sendChan \in Seq(P) /\ cur \in P \cup {None} /\ InFlight \in Seq(P)
      /\ None \notin P
  BY SendLoad, ConnAssumption DEF TypeOK, Payloads
<1> HIDE DEF P
<1>2. ASSUME NEW e \in Payloads, PutsPayload(e) PROVE StreamIntact'
  <2>1. InFlight' = InFlight /\ accepted = wire \o InFlight \o sendChan
    BY <1>2 DEF PutsPayload, InFlight, StreamIntact
  <2>2. e \in P
    BY DEF P
  <2>3. Append(accepted, e) = wire \o InFlight \o Append(sendChan, e)
    <3> DEFINE W == wire \o InFlight
    <3>1. W \in Seq(P) /\ <<e>> \in Seq(P) /\ accepted \in Seq(P) /\ accepted = W \o sendChan
      BY <1>1, <2>1, <2>2, ConcatProperties
    <3> HIDE DEF W
    <3>2. Append(accepted, e) = accepted \o <<e>>
      BY <2>2, <3>1, AppendIsConcat
    <3>3. Append(sendChan, e) = sendChan \o <<e>>
      BY <1>1, <2>2, AppendIsConcat
    <3>4. W \o sendChan \o <<e>> = W \o (sendChan \o <<e>>)
      BY <1>1, <3>1, ConcatAssociative
    <3>5. Append(accepted, e) = W \o Append(sendChan, e)
      BY <3>1, <3>2, <3>3, <3>4
    <3> QED
      BY <3>5 DEF W
  <2> QED
    BY <1>2, <2>1, <2>3 DEF PutsPayload, StreamIntact
<1>3. CASE TakesPayload
  <2>1. Head(sendChan) \in P
    BY <1>1, <1>3, HeadTailProperties DEF TakesPayload
  <2>2. InFlight = <<>> /\ InFlight' = <<Head(sendChan)>>
    BY <1>1, <1>3, <2>1 DEF TakesPayload, InFlight
  <2> QED
    BY <1>1, <1>3, <2>2, QueueTake DEF TakesPayload, StreamIntact
<1>4. CASE WritesPayload
  <2>1. InFlight = <<cur>> /\ InFlight' = <<>> /\ cur \in P
    BY <1>1, <1>4 DEF WritesPayload, InFlight
  <2> QED
    BY <1>1, <1>4, <2>1, QueueGive DEF WritesPayload, StreamIntact
<1>5. CASE KeepsPayloads
  BY <1>5 DEF KeepsPayloads, StreamIntact, InFlight
<1> QED
  BY <1>2, <1>3, <1>4, <1>5 DEF SendShape

\* A step keeps the frames in order.
LEMMA NextFramesIntact ==
    ASSUME TypeOK, TypeOK', LocalsOK, FramesIntact, ReceiveShape
    PROVE  FramesIntact'
<1> DEFINE F == 1..Frames
<1>1. handled \in Seq(F) /\ receiveChan \in Seq(F) /\ got \in F \cup {None} /\ None \notin F
      /\ FramesRead \in Seq(F) /\ Len(FramesRead) = nextIn - 1 /\ nextIn - 1 \in Nat
      /\ nextIn \in Int /\ handled \o receiveChan \in Seq(F)
  BY ReceiveLoad, ConnAssumption, ConcatProperties DEF TypeOK
<1> HIDE DEF F
<1>2. CASE ReadsFrame
  <2>1. nextIn \in F
    BY <1>2 DEF ReadsFrame, F
  <2>2. InHand = <<>> /\ InHand' = <<nextIn>>
    BY <1>1, <1>2, <2>1 DEF ReadsFrame, InHand
  <2>3. FramesRead' = Append(FramesRead, nextIn)
    BY <1>2, ReadAppends
  <2>4. FramesRead = handled \o receiveChan
    BY <1>1, <2>2, ConcatEmptySeq DEF FramesIntact
  <2>5. Append(FramesRead, nextIn) = FramesRead \o <<nextIn>>
    BY <1>1, <2>1, AppendIsConcat
  <2> QED
    BY <1>2, <2>2, <2>3, <2>4, <2>5 DEF ReadsFrame, FramesIntact
<1>3. CASE DeliversFrame
  <2>1. InHand = <<got>> /\ InHand' = <<>> /\ got \in F /\ FramesRead' = FramesRead
    BY <1>1, <1>3 DEF DeliversFrame, InHand, FramesRead
  <2>2. <<got>> \in Seq(F) /\ Append(receiveChan, got) \in Seq(F)
        /\ Append(receiveChan, got) = receiveChan \o <<got>>
    BY <1>1, <2>1, AppendProperties, AppendIsConcat
  <2>3. handled \o Append(receiveChan, got) = handled \o receiveChan \o <<got>>
    BY <1>1, <2>2, ConcatAssociative
  <2>4. handled \o Append(receiveChan, got) \o <<>> = handled \o Append(receiveChan, got)
    BY <1>1, <2>2, ConcatProperties, ConcatEmptySeq
  <2> QED
    BY <1>3, <2>1, <2>3, <2>4 DEF DeliversFrame, FramesIntact
<1>4. CASE HandlesFrame
  <2>1. Head(receiveChan) \in F /\ Tail(receiveChan) \in Seq(F)
    BY <1>1, <1>4, HeadTailProperties DEF HandlesFrame
  <2>2. handled \o receiveChan = Append(handled, Head(receiveChan)) \o Tail(receiveChan)
    <3>1. handled \o <<>> \o receiveChan = handled \o <<Head(receiveChan)>> \o Tail(receiveChan)
      BY <1>1, <1>4, QueueTake DEF HandlesFrame
    <3>2. handled \o <<>> = handled
          /\ Append(handled, Head(receiveChan)) = handled \o <<Head(receiveChan)>>
      BY <1>1, <2>1, ConcatEmptySeq, AppendIsConcat
    <3> QED
      BY <3>1, <3>2
  <2>3. InHand' = InHand /\ FramesRead' = FramesRead
    BY <1>4 DEF HandlesFrame, InHand, FramesRead
  <2> QED
    BY <1>4, <2>2, <2>3 DEF HandlesFrame, FramesIntact
<1>5. CASE KeepsFrames
  BY <1>5 DEF KeepsFrames, FramesIntact, InHand, FramesRead
<1> QED
  BY <1>2, <1>3, <1>4, <1>5 DEF ReceiveShape

(***************************************************************************)
(* Theorems.                                                               *)
(***************************************************************************)
LEMMA InitIndInv == Init => IndInv
<1> SUFFICES ASSUME Init PROVE IndInv
  OBVIOUS
<1>1. <<>> \o <<>> \o <<>> = <<>>
  OBVIOUS
<1>2. FramesRead = <<>>
  BY DEF Init, FramesRead
<1> QED
  BY <1>1, <1>2, InitTypeOK
  DEF IndInv, Init, StreamIntact, FramesIntact, InFlight, InHand

LEMMA NextIndInv == IndInv /\ [Next]_vars => IndInv'
  BY NextTypeOK, NextSendShape, NextReceiveShape, NextStreamIntact, NextFramesIntact DEF IndInv

\* Every reachable state has the types and within them the channels their capacity,
\* trySend its retry limit and the frames their numbers.
THEOREM TypeCorrect == Spec => []TypeOK
<1>1. IndInv => TypeOK
  BY DEF IndInv
<1> QED
  BY <1>1, InitIndInv, NextIndInv, PTL DEF Spec

\* What Send accepted is on the wire, in the hand of trySend or in sendChan, in the order
\* of the Sends, whatever times out, fails or closes.
THEOREM Intact == Spec => []StreamIntact
<1>1. IndInv => StreamIntact
  BY DEF IndInv
<1> QED
  BY <1>1, InitIndInv, NextIndInv, PTL DEF Spec

\* A pipe of which the output is the beginning of the input takes the next element.
LEMMA PrefixNext ==
    ASSUME NEW S, NEW w \in Seq(S), NEW q \in Seq(S), NEW e \in S
    PROVE  (w \o <<e>> \o q)[Len(w) + 1] = e
<1>1. <<e>> \in Seq(S) /\ Len(<<e>>) = 1 /\ <<e>>[1] = e /\ Len(w) \in Nat /\ Len(q) \in Nat
  BY LenProperties
<1>2. w \o <<e>> \in Seq(S) /\ Len(w \o <<e>>) = Len(w) + 1 /\ (w \o <<e>>)[Len(w) + 1] = e
  BY <1>1, ConcatProperties
<1> QED
  BY <1>1, <1>2, ConcatProperties

\* Appending keeps what is there.
LEMMA AppendKeeps ==
    ASSUME NEW S, NEW s \in Seq(S), NEW e \in S
    PROVE  SubSeq(Append(s, e), 1, Len(s)) = s /\ Len(Append(s, e)) = Len(s) + 1
<1>1. Append(s, e) \in Seq(S) /\ Len(Append(s, e)) = Len(s) + 1 /\ Len(s) \in Nat
      /\ \A i \in 1..Len(s) : Append(s, e)[i] = s[i] /\ s[i] \in S
  BY AppendProperties, LenProperties, ElementOfSeq
<1>2. /\ SubSeq(Append(s, e), 1, Len(s)) \in Seq(S)
      /\ Len(SubSeq(Append(s, e), 1, Len(s))) = Len(s)
      /\ \A i \in 1..Len(s) : SubSeq(Append(s, e), 1, Len(s))[i] = s[i]
  BY <1>1, SubSeqProperties
<1> QED
  BY <1>1, <1>2, SeqEqual

\* From Send to the socket every step is one of the pipe or none.
LEMMA StepOnSendPipe == IndInv /\ [Next]_vars => [SendPipe!Next]_(SendPipe!pipeVars)
<1> SUFFICES ASSUME IndInv, [Next]_vars PROVE [SendPipe!Next]_(SendPipe!pipeVars)
  OBVIOUS
<1> DEFINE P == Payloads
<1>1. TypeOK /\ StreamIntact /\ SendShape
  BY NextSendShape DEF IndInv
<1>2. wire \in Seq(P) /\ sendChan \in Seq(P) /\ accepted \in Seq(P) /\ cur \in P \cup {None}
      /\ SendBuffer \in Nat /\ Len(sendChan) <= SendBuffer
  BY <1>1, ConnAssumption DEF TypeOK
<1>3. Len(accepted) = Len(wire) + Len(InFlight) + Len(sendChan)
      /\ Len(InFlight) = IF cur = None THEN 0 ELSE 1
  BY <1>1, SendLoad
<1>4. Len(accepted) \in Nat /\ Len(wire) \in Nat /\ Len(sendChan) \in Nat
  BY <1>2, LenProperties
<1> USE DEF SendPipe!pipeVars
<1>5. ASSUME NEW e \in Payloads, PutsPayload(e) PROVE SendPipe!Put
  <2>1. e \in P
    OBVIOUS
  <2> HIDE DEF P
  <2>2. SubSeq(accepted', 1, Len(accepted)) = accepted /\ Len(accepted') = Len(accepted) + 1
    BY <1>2, <1>5, <2>1, AppendKeeps DEF PutsPayload
  <2>3. Len(accepted) - Len(wire) < SendBuffer + 1
    BY <1>2, <1>3, <1>4, <1>5 DEF PutsPayload
  <2> QED
    BY <1>5, <2>2, <2>3, Zenon DEF SendPipe!Put, PutsPayload
<1>6. CASE TakesPayload
  BY <1>6 DEF TakesPayload, SendEnded
<1>7. CASE WritesPayload
  <2> HIDE DEF P
  <2>1. cur \in P /\ InFlight = <<cur>>
    BY <1>2, <1>7 DEF WritesPayload, InFlight
  <2>2. accepted[Len(wire) + 1] = cur
    BY <1>1, <1>2, <2>1, PrefixNext DEF StreamIntact
  <2>3. SendPipe!Take
    BY <1>3, <1>4, <1>7, <2>2 DEF SendPipe!Take, WritesPayload, SendEnded
  <2> QED
    BY <2>3 DEF SendPipe!Next
<1>8. CASE KeepsPayloads
  BY <1>8 DEF KeepsPayloads, SendEnded, SendPipe!Next, SendPipe!End
<1> QED
  BY <1>1, <1>5, <1>6, <1>7, <1>8 DEF SendShape, SendPipe!Next

\* From the socket to the handler every step is one of the pipe or none.
LEMMA StepOnReceivePipe == IndInv /\ [Next]_vars => [ReceivePipe!Next]_(ReceivePipe!pipeVars)
<1> SUFFICES ASSUME IndInv, [Next]_vars PROVE [ReceivePipe!Next]_(ReceivePipe!pipeVars)
  OBVIOUS
<1> DEFINE F == 1..Frames
<1>1. TypeOK /\ LocalsOK /\ FramesIntact /\ ReceiveShape
  BY NextReceiveShape DEF IndInv
<1>2. handled \in Seq(F) /\ receiveChan \in Seq(F) /\ got \in F \cup {None} /\ InHand \in Seq(F)
      /\ FramesRead \in Seq(F) /\ Len(FramesRead) = nextIn - 1 /\ nextIn \in Int
      /\ ReceiveBuffer \in Nat /\ Len(receiveChan) <= ReceiveBuffer
  BY <1>1, ReceiveLoad, ConnAssumption DEF TypeOK
<1>3. nextIn - 1 = Len(handled) + Len(receiveChan) + Len(InHand)
      /\ Len(InHand) = IF got = None THEN 0 ELSE 1
  BY <1>1, ReceiveLoad
<1>4. Len(handled) \in Nat /\ Len(receiveChan) \in Nat
  BY <1>2, LenProperties
<1> USE DEF ReceivePipe!pipeVars
<1>5. CASE ReadsFrame
  <2>1. nextIn \in F
    BY <1>5 DEF ReadsFrame
  <2> HIDE DEF F
  <2>2. FramesRead' = Append(FramesRead, nextIn)
    BY <1>1, <1>5, ReadAppends
  <2>3. SubSeq(FramesRead', 1, Len(FramesRead)) = FramesRead
        /\ Len(FramesRead') = Len(FramesRead) + 1
    BY <1>2, <2>1, <2>2, AppendKeeps
  <2>4. Len(FramesRead) - Len(handled) < ReceiveBuffer + 1
    BY <1>2, <1>3, <1>4, <1>5 DEF ReadsFrame
  <2>5. ReceivePipe!Put
    BY <1>5, <2>3, <2>4 DEF ReceivePipe!Put, ReadsFrame, FramesRead
  <2> QED
    BY <2>5 DEF ReceivePipe!Next
<1>6. CASE DeliversFrame
  BY <1>6 DEF DeliversFrame
<1>7. CASE HandlesFrame
  <2> HIDE DEF F
  <2>1. Head(receiveChan) \in F /\ Tail(receiveChan) \in Seq(F)
    BY <1>2, <1>7, HeadTailProperties DEF HandlesFrame
  <2>2. receiveChan = <<Head(receiveChan)>> \o Tail(receiveChan)
    BY <1>2, <1>7, <2>1, HeadTailProperties, ConcatProperties, SeqEqual DEF HandlesFrame
  <2>3. FramesRead[Len(handled) + 1] = Head(receiveChan)
    <3>1. FramesRead = handled \o <<Head(receiveChan)>> \o (Tail(receiveChan) \o InHand)
      <4>1. <<Head(receiveChan)>> \in Seq(F) /\ Tail(receiveChan) \o InHand \in Seq(F)
        BY <1>2, <2>1, ConcatProperties
      <4>2. handled \o receiveChan \o InHand = handled \o (receiveChan \o InHand)
        BY <1>2, ConcatAssociative
      <4>3. receiveChan \o InHand = <<Head(receiveChan)>> \o (Tail(receiveChan) \o InHand)
        BY <1>2, <2>1, <2>2, <4>1, ConcatAssociative
      <4>4. handled \o (<<Head(receiveChan)>> \o (Tail(receiveChan) \o InHand))
              = handled \o <<Head(receiveChan)>> \o (Tail(receiveChan) \o InHand)
        <5> DEFINE t == <<Head(receiveChan)>>
                   u == Tail(receiveChan) \o InHand
        <5>1. handled \in Seq(F) /\ t \in Seq(F) /\ u \in Seq(F)
          BY <1>2, <4>1
        <5> HIDE DEF t, u
        <5>2. handled \o (t \o u) = handled \o t \o u
          BY <5>1, ConcatAssociative
        <5> QED
          BY <5>2 DEF t, u
      <4> QED
        BY <1>1, <4>2, <4>3, <4>4 DEF FramesIntact
    <3>2. Tail(receiveChan) \o InHand \in Seq(F)
      BY <1>2, <2>1, ConcatProperties
    <3> QED
      BY <1>2, <2>1, <3>1, <3>2, PrefixNext
  <2>4. Len(handled) < Len(FramesRead)
    BY <1>2, <1>3, <1>4, <1>7, EmptySeq DEF HandlesFrame
  <2>5. FramesRead' = FramesRead
    BY <1>7 DEF HandlesFrame, FramesRead
  <2>6. ReceivePipe!Take
    <3>1. handled' = Append(handled, FramesRead[Len(handled) + 1])
      BY <1>7, <2>3 DEF HandlesFrame
    <3>2. ~(hd \in {"exit", "done"}) /\ ~(hd \in {"exit", "done"})'
      BY <1>7 DEF HandlesFrame, HandlerEnded
    <3>3. UNCHANGED (hd \in {"exit", "done"})
      BY <3>2
    <3> QED
      BY <2>4, <2>5, <3>1, <3>2, <3>3, Zenon DEF ReceivePipe!Take, FramesRead
  <2> QED
    BY <2>6 DEF ReceivePipe!Next
<1>8. CASE KeepsFrames
  BY <1>8 DEF KeepsFrames, HandlerEnded, ReceivePipe!Next, ReceivePipe!End
<1> QED
  BY <1>1, <1>5, <1>6, <1>7, <1>8 DEF ReceiveShape

\* The connection implements a bounded FIFO in each direction: nothing is skipped,
\* repeated or reordered, and a send loop or a handler that has left leaves at most
\* the capacity of its pipe behind.
THEOREM ImplementsPipes == Spec => StreamsArePipes
<1>1. Init => SendPipe!Init /\ ReceivePipe!Init
  BY DEF Init, SendPipe!Init, ReceivePipe!Init
<1> QED
  BY <1>1, InitIndInv, NextIndInv, StepOnSendPipe, StepOnReceivePipe, PTL
  DEF Spec, StreamsArePipes, SendPipe!Spec, ReceivePipe!Spec
===============================================================================
