---------------------------- MODULE GuardProofs ----------------------------
(***************************************************************************)
(* What holds of a Guard for every number of callers and every value of    *)
(* its parameters.  The accounting of HALF_OPEN is proved in three layers: *)
(* types, then the trials recorded by the history variable are calls still *)
(* inside Execute, then the ages of calls admitted before a trip.          *)
(***************************************************************************)
EXTENDS Guard, FiniteSetTheorems, TLAPS

(***************************************************************************)
(* The slots of the bulkhead.  That their count stays a natural number and *)
(* that it counts the calls past the bulkhead go together: the deferred    *)
(* receive finds something to take back only because its call is counted.  *)
(***************************************************************************)

\* The calls past the select of Bulkhead.Execute that have not left it yet.
Holding == {c \in Calls : pc[c] \in
              {"entered", "running", "success", "failure", "leaving"}}

\* The slots taken are those of the calls still inside Execute.
SlotsCounted == slots = Cardinality(Holding)

\* There are finitely many callers.
LEMMA HoldingIsFinite == IsFiniteSet(Holding) /\ Cardinality(Holding) \in Nat
<1>1. IsFiniteSet(Holding)
  BY FS_Subset, GuardAssumption DEF Holding
<1> QED
  BY <1>1, FS_CardinalityType

\* A step keeps the count: one slot more where a call enters, one less where
\* it leaves, and every way out of Execute passes the deferred receive.
LEMMA StepKeepsCount ==
  ASSUME TypeOK, SlotsCounted, [Next]_vars
  PROVE  SlotsCounted'
<1>1. ASSUME NEW c \in Calls, AcquireSlot(c) PROVE SlotsCounted'
  <2>1. c \notin Holding /\ Holding' = Holding \cup {c}
    BY <1>1 DEF AcquireSlot, Goto, Holding, TypeOK
  <2>2. Cardinality(Holding') = Cardinality(Holding) + 1
    BY <2>1, HoldingIsFinite, FS_AddElement
  <2> QED
    BY <1>1, <2>2 DEF AcquireSlot, SlotsCounted
<1>2. ASSUME NEW c \in Calls, ReleaseSlot(c) PROVE SlotsCounted'
  <2>1. c \in Holding /\ Holding' = Holding \ {c}
    BY <1>2 DEF ReleaseSlot, Goto, Holding, TypeOK
  <2>2. Cardinality(Holding') = Cardinality(Holding) - 1
    BY <2>1, HoldingIsFinite, FS_RemoveElement
  <2> QED
    BY <1>2, <2>2 DEF ReleaseSlot, SlotsCounted
<1>3. ASSUME NEW c \in Calls, Begin(c) \/ Execute(c), ~AcquireSlot(c),
             ~ReleaseSlot(c)
      PROVE  SlotsCounted'
  <2>1. Holding' = Holding
    BY <1>3 DEF Holding, TypeOK, Begin, Execute, BulkheadFull, AllowClosed,
         AllowProbe, AllowTrial, Deny, FnReturns, CtxDone, RecordSuccess,
         RecordFailure, Goto
  <2>2. slots' = slots
    BY <1>3 DEF Begin, Execute, BulkheadFull, AllowClosed, AllowProbe,
         AllowTrial, Deny, FnReturns, CtxDone, RecordSuccess, RecordFailure
  <2> QED
    BY <2>1, <2>2 DEF SlotsCounted
<1>4. ASSUME UNCHANGED <<slots, pc>> PROVE SlotsCounted'
  BY <1>4 DEF SlotsCounted, Holding
<1> QED
  BY <1>1, <1>2, <1>3, <1>4 DEF Next, OrphanReturns, Tick, vars

\* A call on its way out is counted, so there is a slot to take back.
LEMMA ReleaseTakesOwn ==
  ASSUME TypeOK, SlotsCounted, NEW c \in Calls, ReleaseSlot(c)
  PROVE  slots' \in Nat
<1>1. c \in Holding
  BY DEF ReleaseSlot, Goto, Holding
<1>2. slots # 0
  BY <1>1, HoldingIsFinite, FS_EmptySet DEF SlotsCounted
<1> QED
  BY <1>2, HoldingIsFinite DEF SlotsCounted, ReleaseSlot

\* A step keeps the types, the slots' as long as they are counted.
LEMMA StepKeepsTypes ==
  ASSUME TypeOK, SlotsCounted, [Next]_vars
  PROVE  TypeOK'
<1> USE GuardAssumption DEF TypeOK, PC, Deadline, Goto, breakerVars,
                            Closed, Open, HalfOpen
<1>1. ASSUME NEW c \in Calls, Begin(c) PROVE TypeOK'
  BY <1>1 DEF Begin
<1>2. ASSUME NEW c \in Calls, AcquireSlot(c) PROVE TypeOK'
  BY <1>2 DEF AcquireSlot
<1>3. ASSUME NEW c \in Calls, BulkheadFull(c) PROVE TypeOK'
  BY <1>3 DEF BulkheadFull
<1>4. ASSUME NEW c \in Calls, AllowClosed(c) PROVE TypeOK'
  BY <1>4 DEF AllowClosed
<1>5. ASSUME NEW c \in Calls, AllowProbe(c) PROVE TypeOK'
  BY <1>5 DEF AllowProbe
<1>6. ASSUME NEW c \in Calls, AllowTrial(c) PROVE TypeOK'
  BY <1>6 DEF AllowTrial, SlotFree
<1>7. ASSUME NEW c \in Calls, Deny(c) PROVE TypeOK'
  BY <1>7 DEF Deny
<1>8. ASSUME NEW c \in Calls, FnReturns(c) PROVE TypeOK'
  BY <1>8 DEF FnReturns
<1>9. ASSUME NEW c \in Calls, CtxDone(c) PROVE TypeOK'
  BY <1>9 DEF CtxDone
<1>10. ASSUME NEW c \in Calls, RecordSuccess(c) PROVE TypeOK'
  BY <1>10 DEF RecordSuccess
<1>11. ASSUME NEW c \in Calls, RecordFailure(c) PROVE TypeOK'
  <2>1. OneMoreFailure \in 0..FailureThreshold
    BY DEF OneMoreFailure
  <2> QED
    BY <1>11, <2>1 DEF RecordFailure
<1>12. ASSUME NEW c \in Calls, ReleaseSlot(c) PROVE TypeOK'
  <2>1. slots' \in Nat
    BY <1>12, ReleaseTakesOwn
  <2> QED
    BY <1>12, <2>1 DEF ReleaseSlot
<1>13. CASE OrphanReturns
  BY <1>13 DEF OrphanReturns
<1>14. CASE Tick
  <2>1. age' \in [Calls -> 0..Deadline]
    BY <1>14 DEF Tick
  <2>2. openAge' \in 0..OpenTimeout
    BY <1>14 DEF Tick, CooledDown
  <2> QED
    BY <1>14, <2>1, <2>2 DEF Tick
<1>15. CASE UNCHANGED vars
  BY <1>15 DEF vars
<1> QED
  BY <1>1, <1>2, <1>3, <1>4, <1>5, <1>6, <1>7, <1>8, <1>9, <1>10, <1>11,
     <1>12, <1>13, <1>14, <1>15 DEF Next, Execute

\* Types and the count of slots, which need each other.
LEMMA CountedTypes == Spec => [](TypeOK /\ SlotsCounted)
<1>1. Init => TypeOK
  BY GuardAssumption DEF Init, TypeOK, Closed, Open, HalfOpen, PC, Deadline
<1>2. Init => SlotsCounted
  <2> SUFFICES ASSUME Init PROVE SlotsCounted
    OBVIOUS
  <2>1. Holding = {}
    BY DEF Init, Holding
  <2> QED
    BY <2>1, FS_EmptySet DEF Init, SlotsCounted
<1>3. TypeOK /\ SlotsCounted /\ [Next]_vars => (TypeOK /\ SlotsCounted)'
  BY StepKeepsTypes, StepKeepsCount
<1> QED
  BY <1>1, <1>2, <1>3, PTL DEF Spec

\* The variables keep their types, for any parameters.
THEOREM TypeCorrect == Spec => []TypeOK
BY CountedTypes, PTL

\* The bulkhead's channel holds one slot for every call still inside Execute
\* and none besides: whichever way a call ends (refused by the breaker, timed
\* out with its fn still running, answered) it gives back the one it took.
THEOREM SlotsHeld == Spec => []SlotsCounted
BY CountedTypes, PTL

-----------------------------------------------------------------------------
(***************************************************************************)
(* The failure count.  TypeOK bounds it by the threshold; it reaches the   *)
(* threshold only together with a step to OPEN, and every step back to     *)
(* CLOSED is a recordSuccess, which resets it.                             *)
(***************************************************************************)

\* CLOSED always has room for one more failure, for any parameters.
THEOREM ClosedHasRoom == Spec => []ClosedBelowThreshold
<1>1. Init => ClosedBelowThreshold
  BY GuardAssumption DEF Init, ClosedBelowThreshold
<1>2. TypeOK /\ ClosedBelowThreshold /\ [Next]_vars => ClosedBelowThreshold'
  <2> SUFFICES ASSUME TypeOK, ClosedBelowThreshold, [Next]_vars
               PROVE  ClosedBelowThreshold'
    OBVIOUS
  <2> USE GuardAssumption DEF ClosedBelowThreshold, Closed, Open, HalfOpen
  <2>1. ASSUME NEW c \in Calls, AllowProbe(c) PROVE ClosedBelowThreshold'
    BY <2>1 DEF AllowProbe
  <2>2. ASSUME NEW c \in Calls, RecordSuccess(c) PROVE ClosedBelowThreshold'
    BY <2>2 DEF RecordSuccess
  <2>3. ASSUME NEW c \in Calls, RecordFailure(c) PROVE ClosedBelowThreshold'
    BY <2>3 DEF RecordFailure, Trips, OneMoreFailure, TypeOK
  <2>4. ASSUME UNCHANGED <<state, consecutiveFail>> PROVE ClosedBelowThreshold'
    BY <2>4
  <2> QED
    BY <2>1, <2>2, <2>3, <2>4 DEF Next, Execute, Begin, AcquireSlot,
       BulkheadFull, AllowClosed, AllowTrial, Deny, FnReturns, CtxDone,
       ReleaseSlot, OrphanReturns, Tick, breakerVars, vars
<1> QED
  BY <1>1, <1>2, TypeCorrect, PTL DEF Spec

-----------------------------------------------------------------------------
(***************************************************************************)
(* HalfOpenAccounting is not inductive alone: when allow starts an episode *)
(* it counts one trial, and that this trial is still inside Execute when   *)
(* its result is recorded needs trials to be admitted calls in every       *)
(* state, CLOSED and OPEN included.                                        *)
(***************************************************************************)

\* A call recorded as a trial is still between allow and its result.
TrialsAdmitted == trials \subseteq Admitted

TrialsInv == TrialsAdmitted /\ HalfOpenAccounting

\* An action of Guard.Call that neither admits a call nor records a result
\* leaves every set the trials are compared with as it is.
LEMMA QuietStep ==
  ASSUME TypeOK, TrialsInv, Admitted' = Admitted,
         UNCHANGED <<state, halfOpenInFlight, trials>>
  PROVE  TrialsInv'
BY DEF TrialsInv, TrialsAdmitted, HalfOpenAccounting

\* The slots counted while HALF_OPEN are those of trials still to report.
THEOREM HalfOpenAccounted == Spec => []HalfOpenAccounting
<1>1. Init => TrialsInv
  BY DEF Init, TrialsInv, TrialsAdmitted, HalfOpenAccounting, Closed, HalfOpen
<1>2. TypeOK /\ TrialsInv /\ [Next]_vars => TrialsInv'
  <2> SUFFICES ASSUME TypeOK, TrialsInv, [Next]_vars PROVE TrialsInv'
    OBVIOUS
  <2> USE DEF Closed, Open, HalfOpen
  <2>1. ASSUME NEW c \in Calls, AllowClosed(c) PROVE TrialsInv'
    <3>1. Admitted' = Admitted \cup {c}
      BY <2>1 DEF AllowClosed, Goto, Admitted, TypeOK
    <3> QED
      BY <2>1, <3>1 DEF AllowClosed, breakerVars, TrialsInv, TrialsAdmitted,
         HalfOpenAccounting
  <2>2. ASSUME NEW c \in Calls, AllowProbe(c) PROVE TrialsInv'
    <3>1. Admitted' = Admitted \cup {c}
      BY <2>2 DEF AllowProbe, Goto, Admitted, TypeOK
    <3>2. Cardinality({c}) = 1
      BY FS_Singleton
    <3> QED
      BY <2>2, <3>1, <3>2 DEF AllowProbe, TrialsInv, TrialsAdmitted,
         HalfOpenAccounting
  <2>3. ASSUME NEW c \in Calls, AllowTrial(c) PROVE TrialsInv'
    <3>1. c \notin Admitted /\ Admitted' = Admitted \cup {c}
      BY <2>3 DEF AllowTrial, Goto, Admitted, TypeOK
    <3>2. IsFiniteSet(trials) /\ c \notin trials
      BY <3>1, FS_Subset, GuardAssumption
         DEF TypeOK, TrialsInv, TrialsAdmitted
    <3>3. Cardinality(trials \cup {c}) = Cardinality(trials) + 1
      BY <3>2, FS_AddElement
    <3> QED
      BY <2>3, <3>1, <3>3 DEF AllowTrial, TrialsInv, TrialsAdmitted,
         HalfOpenAccounting
  <2>4. ASSUME NEW c \in Calls, RecordSuccess(c) \/ RecordFailure(c)
        PROVE  TrialsInv'
    <3>1. Admitted' = Admitted \ {c} /\ trials' = trials \ {c}
      BY <2>4 DEF RecordSuccess, RecordFailure, Goto, Admitted, TypeOK
    <3>2. state' # HalfOpen
      BY <2>4 DEF RecordSuccess, RecordFailure, Trips
    <3> QED
      BY <3>1, <3>2 DEF TrialsInv, TrialsAdmitted, HalfOpenAccounting
  <2>5. ASSUME NEW c \in Calls,
               \/ Begin(c)     \/ AcquireSlot(c) \/ BulkheadFull(c)
               \/ Deny(c)      \/ FnReturns(c)   \/ CtxDone(c)
               \/ ReleaseSlot(c)
        PROVE  TrialsInv'
    <3>1. Admitted' = Admitted
      BY <2>5 DEF Begin, AcquireSlot, BulkheadFull, Deny, FnReturns, CtxDone,
         ReleaseSlot, Goto, Admitted, TypeOK
    <3>2. UNCHANGED <<state, halfOpenInFlight, trials>>
      BY <2>5 DEF Begin, AcquireSlot, BulkheadFull, Deny, FnReturns, CtxDone,
         ReleaseSlot, breakerVars
    <3> QED
      BY <3>1, <3>2, QuietStep
  <2>6. ASSUME OrphanReturns \/ Tick \/ UNCHANGED vars PROVE TrialsInv'
    BY <2>6, QuietStep DEF OrphanReturns, Tick, vars, breakerVars, Admitted
  <2> QED
    BY <2>1, <2>2, <2>3, <2>4, <2>5, <2>6 DEF Next, Execute
<1>3. TrialsInv => HalfOpenAccounting
  BY DEF TrialsInv
<1> QED
  BY <1>1, <1>2, <1>3, TypeCorrect, PTL DEF Spec

-----------------------------------------------------------------------------
(***************************************************************************)
(* That HALF_OPEN sees its own trials only is a matter of time.  While     *)
(* OPEN, every call still inside Execute was admitted before the trip, so  *)
(* it is at least as old as the trip.  Its age is at most Deadline.  Once  *)
(* OPEN has lasted OpenTimeout > Deadline no such call is left, and the    *)
(* probe starts the episode alone.                                         *)
(***************************************************************************)

\* While OPEN, the calls inside Execute are older than the trip.
OlderThanTrip == state = Open => \A c \in Admitted : age[c] >= openAge

EpisodeInv == OlderThanTrip /\ HalfOpenOnlyTrials

\* Calls admitted before a trip never report into HALF_OPEN, provided every
\* call gives up before the cooldown ends.
THEOREM OnlyTrialsReport ==
  ASSUME Deadline < OpenTimeout
  PROVE  Spec => []HalfOpenOnlyTrials
<1> USE GuardAssumption DEF Closed, Open, HalfOpen, Deadline
<1>1. Init => EpisodeInv
  BY DEF Init, EpisodeInv, OlderThanTrip, HalfOpenOnlyTrials
<1>2. TypeOK /\ EpisodeInv /\ [Next]_vars => EpisodeInv'
  <2> SUFFICES ASSUME TypeOK, EpisodeInv, [Next]_vars PROVE EpisodeInv'
    OBVIOUS
  <2> USE DEF EpisodeInv, OlderThanTrip, HalfOpenOnlyTrials
  <2>1. ASSUME NEW c \in Calls, AllowClosed(c) PROVE EpisodeInv'
    BY <2>1 DEF AllowClosed, breakerVars
  <2>2. ASSUME NEW c \in Calls, AllowProbe(c) PROVE EpisodeInv'
    <3>1. Admitted = {}
      BY <2>2 DEF AllowProbe, CooledDown, TypeOK, Admitted
    <3>2. Admitted' \subseteq Admitted \cup {c}
      BY <2>2 DEF AllowProbe, Goto, Admitted, TypeOK
    <3> QED
      BY <2>2, <3>1, <3>2 DEF AllowProbe
  <2>3. ASSUME NEW c \in Calls, AllowTrial(c) PROVE EpisodeInv'
    <3>1. Admitted' \subseteq Admitted \cup {c}
      BY <2>3 DEF AllowTrial, Goto, Admitted, TypeOK
    <3> QED
      BY <2>3, <3>1 DEF AllowTrial
  <2>4. ASSUME NEW c \in Calls, RecordSuccess(c) PROVE EpisodeInv'
    <3>1. Admitted' = Admitted \ {c} /\ \A d \in Admitted' : age'[d] = age[d]
      BY <2>4 DEF RecordSuccess, Goto, Admitted, TypeOK
    <3> QED
      BY <2>4, <3>1 DEF RecordSuccess
  <2>5. ASSUME NEW c \in Calls, RecordFailure(c) PROVE EpisodeInv'
    <3>1. Admitted' = Admitted \ {c} /\ \A d \in Admitted' : age'[d] = age[d]
      BY <2>5 DEF RecordFailure, Goto, Admitted, TypeOK
    <3>2. \A d \in Admitted' : age[d] >= 0
      BY <3>1 DEF TypeOK, Admitted
    <3>3. state' # HalfOpen
      BY <2>5 DEF RecordFailure, Trips
    <3>4. state' = Open => openAge' = 0 \/ (state = Open /\ openAge' = openAge)
      BY <2>5 DEF RecordFailure
    <3> QED
      BY <3>1, <3>2, <3>3, <3>4
  <2>6. ASSUME NEW c \in Calls,
               \/ Begin(c)     \/ AcquireSlot(c) \/ BulkheadFull(c)
               \/ Deny(c)      \/ FnReturns(c)   \/ CtxDone(c)
               \/ ReleaseSlot(c)
        PROVE  EpisodeInv'
    <3>1. Admitted' = Admitted /\ \A d \in Admitted : age'[d] = age[d]
      BY <2>6 DEF Begin, AcquireSlot, BulkheadFull, Deny, FnReturns, CtxDone,
         ReleaseSlot, Goto, Admitted, TypeOK
    <3>2. UNCHANGED <<state, openAge, trials>>
      BY <2>6 DEF Begin, AcquireSlot, BulkheadFull, Deny, FnReturns, CtxDone,
         ReleaseSlot, breakerVars
    <3> QED
      BY <3>1, <3>2
  <2>7. CASE Tick
    <3>1. Admitted' = Admitted /\ Admitted \subseteq Timed
      BY <2>7 DEF Tick, Admitted, Timed
    <3>2. \A d \in Admitted : age'[d] = age[d] + 1
      BY <2>7, <3>1 DEF Tick, Admitted, TypeOK
    <3>3. openAge' \in {openAge, openAge + 1}
      BY <2>7 DEF Tick
    <3>4. \A d \in Admitted : age[d] \in Nat /\ openAge \in Nat
      BY DEF TypeOK, Admitted
    <3>5. UNCHANGED <<state, trials>>
      BY <2>7 DEF Tick
    <3> QED
      BY <3>1, <3>2, <3>3, <3>4, <3>5
  <2>8. CASE OrphanReturns \/ UNCHANGED vars
    BY <2>8 DEF OrphanReturns, vars, breakerVars, Admitted
  <2> QED
    BY <2>1, <2>2, <2>3, <2>4, <2>5, <2>6, <2>7, <2>8 DEF Next, Execute
<1>3. EpisodeInv => HalfOpenOnlyTrials
  BY DEF EpisodeInv
<1> QED
  BY <1>1, <1>2, <1>3, TypeCorrect, PTL DEF Spec

-----------------------------------------------------------------------------
\* OPEN ends in HALF_OPEN, after the cooldown, whatever is recorded meanwhile.
THEOREM OpenHolds == Spec => OpenHoldsForCooldown
<1>1. [Next]_vars => [state = Open /\ state' # Open
                        => CooledDown /\ state' = HalfOpen]_vars
  <2> SUFFICES ASSUME Next, state = Open, state' # Open
               PROVE  CooledDown /\ state' = HalfOpen
    OBVIOUS
  <2> USE DEF Closed, Open, HalfOpen
  <2>1. PICK c \in Calls : Begin(c) \/ Execute(c)
    BY DEF Next, OrphanReturns, Tick, breakerVars
  <2>2. AllowProbe(c)
    BY <2>1 DEF Execute, Begin, AcquireSlot, BulkheadFull, AllowClosed,
       AllowTrial, Deny, FnReturns, CtxDone, RecordSuccess, RecordFailure,
       Trips, ReleaseSlot, breakerVars
  <2> QED
    BY <2>2 DEF AllowProbe
<1> QED
  BY <1>1, PTL DEF Spec, OpenHoldsForCooldown
=============================================================================
