----------------------------- MODULE TokenLimiter -----------------------------
(***************************************************************************)
(* The connection limiter (internal/pkg/limiter/token_limiter.go).         *)
(*                                                                         *)
(* The bucket is a Go channel whose buffer is fixed at InitCapacity when   *)
(* it is made; Start runs a goroutine that raises currCapacity step by     *)
(* step and pushes the new tokens into that same buffer, blocking when it  *)
(* is full.  A client of the limiter is a party that holds a token: the    *)
(* number of tokens held is the history variable outstanding.              *)
(***************************************************************************)
EXTENDS Integers

CONSTANTS InitCapacity,   \* cfg.InitCapacity: initial tokens and buffer size
          MaxCapacity,    \* cfg.MaxCapacity
          IncreaseStep    \* cfg.IncreaseStep

\* What NewConfig accepts.
ASSUME ConfigAssumption ==
    /\ InitCapacity \in Nat \ {0}
    /\ MaxCapacity \in Nat \ {0}
    /\ InitCapacity <= MaxCapacity
    /\ IncreaseStep \in Nat \ {0}

VARIABLES tokens,         \* number of tokens buffered in the channel
          currCapacity,   \* currCapacity
          grower,         \* the goroutine of Start: "off", "wait", "adding", "done"
          newCap,         \* its local newCap, meaningful while "adding"
          left,           \* tokens of this round it has still to push
          innerDone,      \* l.ctx is cancelled
          outerDone,      \* the ctx given to Start is cancelled
          outstanding     \* history: tokens held by the callers of Acquire

limiterVars == <<tokens, currCapacity, grower, newCap, left, innerDone, outerDone>>
vars == <<limiterVars, outstanding>>

Init ==
    /\ tokens = InitCapacity
    /\ currCapacity = InitCapacity
    /\ grower = "off"
    /\ newCap = 0
    /\ left = 0
    /\ innerDone = FALSE
    /\ outerDone = FALSE
    /\ outstanding = 0

(***************************************************************************)
(* The two non-blocking channel operations.                                *)
(***************************************************************************)
CanTake == tokens > 0

\* A release that ignores the size of the buffer.
HasRoomUnbounded == TRUE

HasRoom == tokens < InitCapacity

\* Acquire: take a token if one is buffered, otherwise return false at once.
Acquire ==
    /\ CanTake
    /\ tokens' = tokens - 1
    /\ outstanding' = outstanding + 1
    /\ UNCHANGED <<currCapacity, grower, newCap, left, innerDone, outerDone>>

\* A release whose token vanishes even though the buffer has room for it.
ReleaseLoses ==
    /\ outstanding > 0
    /\ outstanding' = outstanding - 1
    /\ UNCHANGED limiterVars

\* Release by a holder: the token goes back unless the buffer is full; then it
\* is dropped and Release returns false.
Release ==
    /\ outstanding > 0
    /\ outstanding' = outstanding - 1
    /\ tokens' = IF HasRoom THEN tokens + 1 ELSE tokens
    /\ UNCHANGED <<currCapacity, grower, newCap, left, innerDone, outerDone>>

(***************************************************************************)
(* The growing goroutine.                                                  *)
(***************************************************************************)
MinOf(a, b) == IF a <= b THEN a ELSE b

NextCapacity(curr) == MinOf(curr + IncreaseStep, MaxCapacity)

Start ==
    /\ grower = "off"
    /\ grower' = "wait"
    /\ UNCHANGED <<tokens, currCapacity, newCap, left, innerDone, outerDone, outstanding>>

\* A round that pushes IncreaseStep tokens even when the maximum is nearer.
GrowTickFullStep ==
    /\ grower = "wait"
    /\ currCapacity < MaxCapacity
    /\ newCap' = NextCapacity(currCapacity)
    /\ left' = IncreaseStep
    /\ grower' = "adding"
    /\ UNCHANGED <<tokens, currCapacity, innerDone, outerDone, outstanding>>

\* The ticker fires below the maximum: the round is computed.
GrowTick ==
    /\ grower = "wait"
    /\ currCapacity < MaxCapacity
    /\ newCap' = NextCapacity(currCapacity)
    /\ left' = newCap' - currCapacity
    /\ grower' = "adding"
    /\ UNCHANGED <<tokens, currCapacity, innerDone, outerDone, outstanding>>

\* A goroutine that does not return at the maximum.
GrowStopOnCancel ==
    /\ grower = "wait"
    /\ innerDone \/ outerDone
    /\ grower' = "done"
    /\ UNCHANGED <<tokens, currCapacity, newCap, left, innerDone, outerDone, outstanding>>

\* The ticker fires at the maximum, or one of the two contexts is done.  Either
\* is looked at only between two rounds.
GrowStop ==
    /\ grower = "wait"
    /\ currCapacity >= MaxCapacity \/ innerDone \/ outerDone
    /\ grower' = "done"
    /\ UNCHANGED <<tokens, currCapacity, newCap, left, innerDone, outerDone, outstanding>>

\* l.tokens <- struct{}{}: blocks while the buffer is full.
GrowSend ==
    /\ grower = "adding"
    /\ left > 0
    /\ HasRoom
    /\ tokens' = tokens + 1
    /\ left' = left - 1
    /\ UNCHANGED <<currCapacity, grower, newCap, innerDone, outerDone, outstanding>>

\* The round is complete: currCapacity is published.
GrowStore ==
    /\ grower = "adding"
    /\ left = 0
    /\ currCapacity' = newCap
    /\ grower' = "wait"
    /\ newCap' = 0
    /\ UNCHANGED <<tokens, left, innerDone, outerDone, outstanding>>

Close ==
    /\ ~innerDone
    /\ innerDone' = TRUE
    /\ UNCHANGED <<tokens, currCapacity, grower, newCap, left, outerDone, outstanding>>

\* The owner of the context passed to Start cancels it.
CancelOuter ==
    /\ ~outerDone
    /\ outerDone' = TRUE
    /\ UNCHANGED <<tokens, currCapacity, grower, newCap, left, innerDone, outstanding>>

Grow == GrowTick \/ GrowStop \/ GrowSend \/ GrowStore

Next == Acquire \/ Release \/ Start \/ Grow \/ Close \/ CancelOuter

Spec == Init /\ [][Next]_vars

\* Every tick and store of the growing goroutine that stays possible is
\* eventually taken: the ticker keeps ticking and the Go scheduler is fair.  A
\* sender parked on a full channel is woken by the receive that makes room, ahead
\* of any later sender, which makes its push strongly fair.
FairSpec == Spec /\ WF_vars(Grow) /\ SF_vars(GrowSend)

(***************************************************************************)
(* Properties.                                                             *)
(***************************************************************************)
TypeOK ==
    /\ tokens \in 0..InitCapacity
    /\ currCapacity \in InitCapacity..MaxCapacity
    /\ grower \in {"off", "wait", "adding", "done"}
    /\ newCap \in 0..MaxCapacity
    /\ left \in 0..MaxCapacity
    /\ innerDone \in BOOLEAN
    /\ outerDone \in BOOLEAN
    /\ outstanding \in Nat

\* Tokens of the current round that are already in the bucket.
Pushed == IF grower = "adding" THEN newCap - currCapacity - left ELSE 0

\* The round in progress never aims past the maximum, and never has more to
\* push than the step it announced (Start, the min and the range loop).
RoundOK ==
    grower = "adding" =>
        /\ newCap \in (currCapacity + 1)..MaxCapacity
        /\ left \in 0..(newCap - currCapacity)

\* However Acquire, Release and the growing goroutine interleave, tokens in
\* the bucket and tokens held together never exceed the capacity published by
\* currCapacity plus what the current round has already pushed.
CapacityBound == tokens + outstanding <= currCapacity + Pushed

\* The gateway never serves more than MaxCapacity connections, and a token
\* dropped by Release at a full bucket never costs it the capacity it
\* started with: at least InitCapacity tokens stay in circulation.
AdmissionBound ==
    /\ outstanding <= MaxCapacity
    /\ tokens + outstanding >= InitCapacity

\* A round blocked on a full buffer goes on once tokens are taken: as long as
\* demand makes room in the buffer again and again, the started goroutine ends,
\* at MaxCapacity or by cancellation, and never stays parked on the channel.
GrowthUnderDemand ==
    []<>(tokens < InitCapacity) => (grower = "wait" ~> grower = "done")
===============================================================================
