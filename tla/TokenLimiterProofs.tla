-------------------------- MODULE TokenLimiterProofs --------------------------
(***************************************************************************)
(* The limiter's bounds for every configuration that NewConfig accepts.    *)
(*                                                                         *)
(* CapacityBound alone is not inductive: GrowSend adds a token, and only   *)
(* because the round in progress still has that token left to push         *)
(* (RoundOK) does the sum stay below the capacity.                         *)
(***************************************************************************)
EXTENDS TokenLimiter, TLAPS

CapacityFloor == tokens + outstanding >= InitCapacity

IndInv == TypeOK /\ RoundOK /\ CapacityBound /\ CapacityFloor

\* The target of a round lies above the current capacity and not above the
\* maximum (the min of Start).
LEMMA NextCapacityBounds ==
    ASSUME NEW c \in Nat, c < MaxCapacity
    PROVE  /\ NextCapacity(c) \in Int
           /\ NextCapacity(c) \in (c + 1)..MaxCapacity
  BY ConfigAssumption DEF NextCapacity, MinOf

\* What a round has to push lies between zero and the maximum.
LEMMA RoundBounds ==
    ASSUME NEW c \in Nat, NEW n \in Int, n \in (c + 1)..MaxCapacity
    PROVE  n - c \in 0..MaxCapacity /\ n \in 0..MaxCapacity
  BY ConfigAssumption

\* NewTokenLimiter establishes the inductive invariant.
LEMMA InitIndInv == Init => IndInv
<1> SUFFICES ASSUME Init PROVE IndInv
  OBVIOUS
<1>1. innerDone \in BOOLEAN /\ outerDone \in BOOLEAN
  BY Zenon DEF Init
<1>2. TypeOK
  BY <1>1, ConfigAssumption DEF Init, TypeOK
<1>3. RoundOK /\ CapacityBound /\ CapacityFloor
  BY ConfigAssumption DEF Init, RoundOK, CapacityBound, CapacityFloor, Pushed
<1> QED
  BY <1>2, <1>3 DEF IndInv

\* Every operation of the limiter preserves the inductive invariant.
LEMMA NextIndInv == IndInv /\ [Next]_vars => IndInv'
<1> SUFFICES ASSUME IndInv, [Next]_vars PROVE IndInv'
  OBVIOUS
<1> USE ConfigAssumption DEF IndInv, TypeOK, RoundOK, CapacityBound, CapacityFloor, Pushed
<1>1. CASE Acquire
  BY <1>1 DEF Acquire, CanTake
<1>2. CASE Release
  <2>1. CASE HasRoom
    BY <1>2, <2>1 DEF Release, HasRoom
  <2>2. CASE ~HasRoom
    BY <1>2, <2>2 DEF Release, HasRoom
  <2> QED BY <2>1, <2>2
<1>3. CASE Start
  BY <1>3 DEF Start
<1>4. CASE GrowTick
  <2>1. newCap' \in Int /\ newCap' \in (currCapacity + 1)..MaxCapacity
    BY <1>4, NextCapacityBounds DEF GrowTick
  <2>2. PICK n \in Int : n = newCap' /\ n \in (currCapacity + 1)..MaxCapacity
    BY <2>1
  <2>3. newCap' = n /\ left' = n - currCapacity
    BY <1>4, <2>2 DEF GrowTick
  <2>4. n - currCapacity \in 0..MaxCapacity /\ n \in 0..MaxCapacity
    <3>1. currCapacity \in Nat
      OBVIOUS
    <3> HIDE DEF IndInv
    <3> QED BY <3>1, <2>2, RoundBounds
  <2>5. TypeOK'
    BY <1>4, <2>3, <2>4 DEF GrowTick
  <2>6. RoundOK' /\ CapacityBound' /\ CapacityFloor'
    BY <1>4, <2>2, <2>3, <2>4 DEF GrowTick
  <2> QED BY <2>5, <2>6
<1>5. CASE GrowStop
  BY <1>5 DEF GrowStop
<1>6. CASE GrowSend
  BY <1>6 DEF GrowSend, HasRoom
<1>7. CASE GrowStore
  BY <1>7 DEF GrowStore
<1>8. CASE Close
  BY <1>8 DEF Close
<1>9. CASE CancelOuter
  BY <1>9 DEF CancelOuter
<1>10. CASE UNCHANGED vars
  BY <1>10 DEF vars, limiterVars
<1> QED
  BY <1>1, <1>2, <1>3, <1>4, <1>5, <1>6, <1>7, <1>8, <1>9, <1>10 DEF Next, Grow

\* The inductive invariant gives the bounds on admitted connections.
LEMMA IndInvAdmission == IndInv => AdmissionBound
  BY ConfigAssumption
  DEF IndInv, TypeOK, RoundOK, CapacityBound, CapacityFloor, Pushed, AdmissionBound

\* The limiter's state keeps its type for every accepted configuration: in
\* particular the channel never holds more than its buffer.
THEOREM TypeCorrect == Spec => []TypeOK
<1>1. IndInv => TypeOK
  BY DEF IndInv
<1> QED
  BY InitIndInv, NextIndInv, <1>1, PTL DEF Spec

\* Acquire, Release and the growing goroutine, in any interleaving, never put
\* more tokens in circulation than the capacity published plus the round in
\* progress.
THEOREM CapacityBounded == Spec => []CapacityBound
<1>1. IndInv => CapacityBound
  BY DEF IndInv
<1> QED
  BY InitIndInv, NextIndInv, <1>1, PTL DEF Spec

\* At most MaxCapacity connections are admitted at any time, and the tokens
\* that Release drops never take the limiter below its initial capacity.
THEOREM Admission == Spec => []AdmissionBound
  BY InitIndInv, NextIndInv, IndInvAdmission, PTL DEF Spec
===============================================================================
