------------------------------- MODULE Guard -------------------------------
(***************************************************************************)
(* internal/resilience: one Guard, i.e. a CircuitBreaker inside a          *)
(* Bulkhead, used concurrently by the goroutines in Calls.                 *)
(*                                                                         *)
(* Go runs allow, recordSuccess and recordFailure under cb.mu, so each is  *)
(* one action.  Everything between them interleaves freely: waiting for a  *)
(* bulkhead slot, the call to the dependency, the choice made by the       *)
(* select of Execute, and the delay until the result is recorded.          *)
(*                                                                         *)
(* Time is discrete.  A call's age is the time since Guard.Call created    *)
(* its context; the context is done from age CallTimeout on.  MaxLag       *)
(* bounds how late the scheduler runs a goroutine whose context is done.   *)
(***************************************************************************)
EXTENDS Naturals, FiniteSets

CONSTANTS
  Calls,             \* the goroutines that may be inside Guard.Call at once
  MaxConcurrent,     \* capacity of the bulkhead
  FailureThreshold,  \* CircuitBreakerConfig.FailureThreshold
  OpenTimeout,       \* CircuitBreakerConfig.OpenTimeout, in ticks
  HalfOpenMaxCalls,  \* CircuitBreakerConfig.HalfOpenMaxCalls
  CallTimeout,       \* the timeout argument of Guard.Call, in ticks
  MaxLag,            \* scheduling delay after a context is done, in ticks
  MaxOrphans         \* bound: abandoned fn goroutines when a call starts

ASSUME GuardAssumption ==
  /\ IsFiniteSet(Calls)
  /\ MaxConcurrent \in Nat \ {0}
  /\ FailureThreshold \in Nat \ {0}
  /\ OpenTimeout \in Nat \ {0}
  /\ HalfOpenMaxCalls \in Nat \ {0}
  /\ CallTimeout \in Nat \ {0}
  /\ MaxLag \in Nat
  /\ MaxOrphans \in Nat \ {0}

VARIABLES
  state,             \* cb.state
  consecutiveFail,   \* cb.consecutiveFail, counted up to the threshold
  openAge,           \* time since cb.openedAt, counted up to OpenTimeout
  halfOpenInFlight,  \* cb.halfOpenInFlight
  slots,             \* len(b.sem): slots of the bulkhead that are taken
  pc,                \* where each goroutine is inside Guard.Call
  age,               \* time since its context was created
  orphans,           \* fn goroutines whose caller has already given up
  trials             \* history: calls admitted by the current HALF_OPEN
                     \* episode whose result is not recorded yet

breakerVars == <<state, consecutiveFail, openAge, halfOpenInFlight>>
vars == <<breakerVars, slots, pc, age, orphans, trials>>

Closed   == "CLOSED"
Open     == "OPEN"
HalfOpen == "HALF_OPEN"

Deadline == CallTimeout + MaxLag

(***************************************************************************)
(* "queued" waits in the select of Bulkhead.Execute; "entered" holds a     *)
(* slot and is about to call allow; "running" is in the select of          *)
(* Execute; "success" and "failure" have chosen a result and are about to  *)
(* record it; "leaving" is about to give the slot back.                    *)
(***************************************************************************)
PC == {"idle", "queued", "entered", "running", "success", "failure", "leaving"}

Admitted == {c \in Calls : pc[c] \in {"running", "success", "failure"}}

Goto(c, from, to) ==
  /\ pc[c] = from
  /\ pc' = [pc EXCEPT ![c] = to]

Init ==
  /\ state = Closed
  /\ consecutiveFail = 0
  /\ openAge = 0
  /\ halfOpenInFlight = 0
  /\ slots = 0
  /\ pc = [c \in Calls |-> "idle"]
  /\ age = [c \in Calls |-> 0]
  /\ orphans = 0
  /\ trials = {}

-----------------------------------------------------------------------------
(* Guard.Call and Bulkhead.Execute *)

Begin(c) ==
  /\ orphans < MaxOrphans
  /\ Goto(c, "idle", "queued")
  /\ UNCHANGED <<slots, breakerVars, age, orphans, trials>>

AcquireSlot(c) ==
  /\ slots < MaxConcurrent
  /\ slots' = slots + 1
  /\ Goto(c, "queued", "entered")
  /\ UNCHANGED <<breakerVars, age, orphans, trials>>

\* No slot before the deadline: ErrBulkheadFull, the breaker is not involved.
BulkheadFull(c) ==
  /\ age[c] >= CallTimeout
  /\ Goto(c, "queued", "idle")
  /\ age' = [age EXCEPT ![c] = 0]
  /\ UNCHANGED <<slots, breakerVars, orphans, trials>>

\* The deferred receive, whichever way Execute of the breaker was left.
ReleaseSlot(c) ==
  /\ Goto(c, "leaving", "idle")
  /\ slots' = slots - 1
  /\ UNCHANGED <<breakerVars, age, orphans, trials>>

-----------------------------------------------------------------------------
(* CircuitBreaker.allow *)

\* Mutant: the cooldown ends one unit of time early.
CooledDownEarly == openAge + 1 >= OpenTimeout
CooledDown == openAge >= OpenTimeout

SlotFree == halfOpenInFlight < HalfOpenMaxCalls

AllowClosed(c) ==
  /\ state = Closed
  /\ Goto(c, "entered", "running")
  /\ UNCHANGED <<slots, breakerVars, age, orphans, trials>>

\* Mutant: halfOpenInFlight is not reset when a HALF_OPEN episode begins.
AllowProbeKeepsCount(c) ==
  /\ state = Open
  /\ CooledDown
  /\ Goto(c, "entered", "running")
  /\ state' = HalfOpen
  /\ halfOpenInFlight' = halfOpenInFlight + 1
  /\ trials' = {c}
  /\ UNCHANGED <<slots, consecutiveFail, openAge, age, orphans>>

\* The first call after the cooldown opens a HALF_OPEN episode and takes
\* the first of its slots.
AllowProbe(c) ==
  /\ state = Open
  /\ CooledDown
  /\ Goto(c, "entered", "running")
  /\ state' = HalfOpen
  /\ halfOpenInFlight' = 1
  /\ trials' = {c}
  /\ UNCHANGED <<slots, consecutiveFail, openAge, age, orphans>>

AllowTrial(c) ==
  /\ state = HalfOpen
  /\ SlotFree
  /\ Goto(c, "entered", "running")
  /\ halfOpenInFlight' = halfOpenInFlight + 1
  /\ trials' = trials \cup {c}
  /\ UNCHANGED <<slots, state, consecutiveFail, openAge, age, orphans>>

\* Mutant: a call the breaker refuses returns without giving its slot back.
DenyKeepsSlot(c) ==
  /\ \/ state = Open /\ ~CooledDown
     \/ state = HalfOpen /\ ~SlotFree
  /\ Goto(c, "entered", "idle")
  /\ age' = [age EXCEPT ![c] = 0]
  /\ UNCHANGED <<slots, breakerVars, orphans, trials>>

\* ErrOpenCircuit: fn is not started.
Deny(c) ==
  /\ \/ state = Open /\ ~CooledDown
     \/ state = HalfOpen /\ ~SlotFree
  /\ Goto(c, "entered", "leaving")
  /\ age' = [age EXCEPT ![c] = 0]
  /\ UNCHANGED <<slots, breakerVars, orphans, trials>>

-----------------------------------------------------------------------------
(* The select of CircuitBreaker.Execute *)

\* fn has returned and its result is picked, possibly after the deadline:
\* select chooses freely among the channels that are ready.
FnReturns(c) ==
  /\ \/ Goto(c, "running", "success")
     \/ Goto(c, "running", "failure")
  /\ UNCHANGED <<slots, breakerVars, age, orphans, trials>>

\* Mutant: Execute waits for fn only.
CtxDoneIgnored(c) ==
  /\ pc[c] = "running" /\ FALSE
  /\ UNCHANGED vars

\* ctx.Done is picked.  fn may have returned as well, or may still be
\* running, in which case nobody waits for its goroutine any more.
CtxDone(c) ==
  /\ age[c] >= CallTimeout
  /\ Goto(c, "running", "failure")
  /\ orphans' \in {orphans, orphans + 1}
  /\ UNCHANGED <<slots, breakerVars, age, trials>>

OrphanReturns ==
  /\ orphans > 0
  /\ orphans' = orphans - 1
  /\ UNCHANGED <<slots, breakerVars, pc, age, trials>>

-----------------------------------------------------------------------------
(* recordSuccess and recordFailure, whoever calls them and however late *)

\* Mutants: consecutiveFail survives a success; a success closes any state.
RecordSuccessKeepsCount(c) ==
  /\ Goto(c, "success", "leaving")
  /\ state' = IF state = HalfOpen THEN Closed ELSE state
  /\ trials' = trials \ {c}
  /\ age' = [age EXCEPT ![c] = 0]
  /\ UNCHANGED <<slots, consecutiveFail, openAge, halfOpenInFlight, orphans>>

RecordSuccessAlwaysCloses(c) ==
  /\ Goto(c, "success", "leaving")
  /\ consecutiveFail' = 0
  /\ state' = Closed
  /\ trials' = trials \ {c}
  /\ age' = [age EXCEPT ![c] = 0]
  /\ UNCHANGED <<slots, openAge, halfOpenInFlight, orphans>>

RecordSuccess(c) ==
  /\ Goto(c, "success", "leaving")
  /\ consecutiveFail' = 0
  /\ state' = IF state = HalfOpen THEN Closed ELSE state
  /\ trials' = trials \ {c}
  /\ age' = [age EXCEPT ![c] = 0]
  /\ UNCHANGED <<slots, openAge, halfOpenInFlight, orphans>>

\* Counting beyond the threshold changes no comparison the code makes.
OneMoreFailure ==
  IF consecutiveFail < FailureThreshold THEN consecutiveFail + 1
                                        ELSE consecutiveFail

\* Mutant: a failed trial does not reopen the circuit.
TripsOnlyWhenClosed == state = Closed /\ OneMoreFailure >= FailureThreshold

Trips == \/ state = HalfOpen
         \/ state = Closed /\ OneMoreFailure >= FailureThreshold

RecordFailure(c) ==
  /\ Goto(c, "failure", "leaving")
  /\ consecutiveFail' = OneMoreFailure
  /\ state' = IF Trips THEN Open ELSE state
  /\ openAge' = IF Trips THEN 0 ELSE openAge
  /\ trials' = trials \ {c}
  /\ age' = [age EXCEPT ![c] = 0]
  /\ UNCHANGED <<slots, halfOpenInFlight, orphans>>

-----------------------------------------------------------------------------
(* Time *)

Timed == {c \in Calls : pc[c] \notin {"idle", "leaving"}}

Tick ==
  /\ \A c \in Timed : age[c] < Deadline
  /\ age' = [c \in Calls |-> IF c \in Timed THEN age[c] + 1 ELSE age[c]]
  /\ openAge' = IF state = Open /\ ~CooledDown THEN openAge + 1 ELSE openAge
  /\ UNCHANGED <<slots, state, consecutiveFail, halfOpenInFlight, pc, orphans,
                 trials>>

Execute(c) ==
  \/ AcquireSlot(c)   \/ BulkheadFull(c)  \/ AllowClosed(c)
  \/ AllowProbe(c)    \/ AllowTrial(c)    \/ Deny(c)
  \/ FnReturns(c)     \/ CtxDone(c)       \/ RecordSuccess(c)
  \/ RecordFailure(c) \/ ReleaseSlot(c)

Next ==
  \/ \E c \in Calls : Begin(c) \/ Execute(c)
  \/ OrphanReturns
  \/ Tick

Spec == Init /\ [][Next]_vars

(***************************************************************************)
(* Goroutines are scheduled and time passes.  Nothing is assumed of the    *)
(* dependency: fn need not return, and no call need ever be made.          *)
(***************************************************************************)
CallProgress(c) ==
  \/ BulkheadFull(c) \/ AllowClosed(c) \/ AllowProbe(c) \/ AllowTrial(c)
  \/ Deny(c) \/ CtxDone(c) \/ RecordSuccess(c) \/ RecordFailure(c)
  \/ ReleaseSlot(c)

Fairness ==
  /\ WF_vars(Tick)
  /\ \A c \in Calls : WF_vars(CallProgress(c))

FairSpec == Spec /\ Fairness

-----------------------------------------------------------------------------
(* Properties *)

\* Every variable keeps its type, and the counter of tryHalfOpenSlot never
\* passes HalfOpenMaxCalls.
TypeOK ==
  /\ state \in {Closed, Open, HalfOpen}
  /\ consecutiveFail \in 0..FailureThreshold
  /\ openAge \in 0..OpenTimeout
  /\ halfOpenInFlight \in 0..HalfOpenMaxCalls
  /\ slots \in Nat
  /\ pc \in [Calls -> PC]
  /\ age \in [Calls -> 0..Deadline]
  /\ orphans \in Nat
  /\ trials \in SUBSET Calls

\* While HALF_OPEN the slots counted by halfOpenInFlight are exactly those of
\* this episode's trials that have yet to report, and there is at least one:
\* a breaker whose count is ahead of its trials refuses every call for good,
\* because only a trial's result ends HALF_OPEN (allow, lines 105-113).
HalfOpenAccounting ==
  state = HalfOpen =>
    /\ trials # {}
    /\ trials \subseteq Admitted
    /\ halfOpenInFlight = Cardinality(trials)

\* Whatever reports a result while HALF_OPEN is one of this episode's trials:
\* no call admitted before the trip can close or reopen the circuit late.
\* The code does not check this; it holds because calls time out well within
\* OpenTimeout (3 s of raiseIntervention against the 10 s of DefaultConfig).
HalfOpenOnlyTrials == state = HalfOpen => Admitted \subseteq trials

\* A CLOSED breaker always has room for one more failure: the count left
\* behind by an OPEN or HALF_OPEN period never leaks into CLOSED, where
\* recordFailure would trip on the first failure.
ClosedBelowThreshold == state = Closed => consecutiveFail < FailureThreshold

\* The circuit leaves OPEN only for HALF_OPEN and only after the cooldown,
\* whatever late results are recorded meanwhile by calls admitted earlier.
OpenHoldsForCooldown ==
  [][state = Open /\ state' # Open => CooledDown /\ state' = HalfOpen]_vars

\* Every Guard.Call returns, even if fn never does (guard.go, lines 32-36).
CallReturns == \A c \in Calls : pc[c] # "idle" ~> pc[c] = "idle"

\* A full bulkhead gets a free slot again, even if fn never returns and however
\* the calls that hold one end: refused by the breaker, timed out or answered.
\* A slot that is not given back is gone for good, and once all are gone every
\* lane degrades with ErrBulkheadFull.
BulkheadRecovers == slots = MaxConcurrent ~> slots < MaxConcurrent

\* HALF_OPEN always resolves to CLOSED or OPEN, even if no trial's fn returns.
HalfOpenResolves == state = HalfOpen ~> state # HalfOpen
=============================================================================
