---------------------------- MODULE LaneManager ----------------------------
(***************************************************************************)
(* cmd/vertex-core with internal/statemachine: the lane machines, the HTTP *)
(* handlers that fire transitions, and what each transition sets off: its  *)
(* event is published or else put in the outbox, and a move to INTERVENTION*)
(* asks for an intervention through the Guard, degrading the lane if that  *)
(* fails.                                                                  *)
(*                                                                         *)
(* Fire and Degrade change a machine under m.mu, so each is one action;    *)
(* listeners run after the unlock and interleave freely.  The outbox is    *)
(* the DurableQueue that Outbox implements, which may spoil an event that  *)
(* it accepts and cut off its end.  Guard.Call either publishes the        *)
(* request or returns an error, in which case the request may have reached *)
(* the bus all the same, or may do so later.  Faults:                      *)
(*   "crash"  the process dies and is restarted                            *)
(*   "late"   Publish reports an error, but the broker has the event       *)
(*   "disk"   Enqueue returns an error                                     *)
(*   "torn"   Enqueue returns nil, but the line merged with a fragment     *)
(*   "scan"   a flush replaces the log after a scan that ended early       *)
(***************************************************************************)
EXTENDS Naturals, SequencesExt

CONSTANTS
  Lanes,           \* lane ids
  Handlers,        \* goroutines serving /lanes/{id}
  Targets,         \* bound: the states POST asks for
  MaxTransitions,  \* bound: POST is not called on a lane with this many
  Faults

LaneState == {"IDLE", "SCANNING", "WEIGHING", "INTERVENTION", "PAYMENT",
              "COMPLETE", "DEGRADED"}

\* The table of statemachine.go.
transitions ==
  [ IDLE         |-> {"SCANNING", "DEGRADED"},
    SCANNING     |-> {"WEIGHING", "INTERVENTION", "PAYMENT", "IDLE",
                      "DEGRADED"},
    WEIGHING     |-> {"SCANNING", "INTERVENTION", "DEGRADED"},
    INTERVENTION |-> {"SCANNING", "WEIGHING", "IDLE", "DEGRADED"},
    PAYMENT      |-> {"COMPLETE", "INTERVENTION", "DEGRADED"},
    COMPLETE     |-> {"IDLE"},
    DEGRADED     |-> {"IDLE", "SCANNING"} ]

ASSUME LaneAssumption ==
  /\ MaxTransitions \in Nat
  /\ Targets \subseteq LaneState
  /\ Faults \subseteq {"crash", "late", "disk", "torn", "scan"}

\* <<l, n>> is the n-th transition of lane l and the event that reports it.
Events     == Lanes \X (Nat \ {0})
Transition == [from : LaneState, to : LaneState]

VARIABLES
  machine,     \* state of each lane's Machine; a lane not seen yet is IDLE
  log,         \* history: the transitions each lane has made
  born,        \* history: length of log when the process started
  pc,          \* what each handler is doing
  job,         \* the event each handler is working on
  queue,       \* the outbox
  delivered,   \* transition events the bus has
  requested,   \* intervention requests the bus has, by transition
  running,     \* requests still being published after Guard.Call gave up
  lost         \* history: events given up by a crash, the disk or the outbox

laneVars    == <<machine, log, born>>
handlerVars == <<pc, job>>
busVars     == <<queue, delivered>>
requestVars == <<requested, running>>
vars == <<laneVars, handlerVars, busVars, requestVars, lost>>

\* onTransition does not look at what Enqueue answers.
Outbox == INSTANCE DurableQueue WITH acked <- {}

PC == {"idle", "publishing", "enqueueing", "raising", "degrading"}

Made(l)  == {l} \X (1..Len(log[l]))
Latest(l) == <<l, Len(log[l])>>
Of(e)    == log[e[1]][e[2]]

\* The transition events a handler has yet to publish or enqueue.
InHand ==
  {job[h] : h \in {k \in Handlers : pc[k] \in {"publishing", "enqueueing"}}}

Init ==
  /\ machine = [l \in Lanes |-> "IDLE"]
  /\ log = [l \in Lanes |-> <<>>]
  /\ born = [l \in Lanes |-> 0]
  /\ pc = [h \in Handlers |-> "idle"]
  /\ job = [h \in Handlers |-> <<>>]
  /\ queue = <<>>
  /\ delivered = {}
  /\ requested = {}
  /\ running = {}
  /\ lost = {}

Goto(h, from, to) ==
  /\ pc[h] = from
  /\ pc' = [pc EXCEPT ![h] = to]

-----------------------------------------------------------------------------
(* Machine.Fire and Machine.Degrade *)

\* Mutant: the event is numbered before the transition is added.
MoveOffByOne(h, l, to) ==
  /\ machine' = [machine EXCEPT ![l] = to]
  /\ log' = [log EXCEPT ![l] = Append(@, [from |-> machine[l], to |-> to])]
  /\ job' = [job EXCEPT ![h] = <<l, Len(log[l])>>]
  /\ UNCHANGED <<born, busVars, requestVars, lost>>

\* Lane l moves; handler h notifies the listener of it.
Move(h, l, to) ==
  /\ machine' = [machine EXCEPT ![l] = to]
  /\ log' = [log EXCEPT ![l] = Append(@, [from |-> machine[l], to |-> to])]
  /\ job' = [job EXCEPT ![h] = <<l, Len(log[l]) + 1>>]
  /\ UNCHANGED <<born, busVars, requestVars, lost>>

\* POST /lanes/{l}?to=...; a move the table does not list changes nothing.
Fire(h, l, to) ==
  /\ Len(log[l]) < MaxTransitions
  /\ to \in transitions[machine[l]]
  /\ Goto(h, "idle", "publishing")
  /\ Move(h, l, to)

\* Mutant: "from" is the state the handler itself left the lane in.
DegradeStaleFrom(h) ==
  LET l == job[h][1] IN
  /\ Goto(h, "degrading", "publishing")
  /\ machine[l] # "DEGRADED"
  /\ machine' = [machine EXCEPT ![l] = "DEGRADED"]
  /\ log' = [log EXCEPT ![l] =
               Append(@, [from |-> "INTERVENTION", to |-> "DEGRADED"])]
  /\ job' = [job EXCEPT ![h] = <<l, Len(log[l]) + 1>>]
  /\ UNCHANGED <<born, busVars, requestVars, lost>>

Degrade(h) ==
  /\ Goto(h, "degrading", "publishing")
  /\ machine[job[h][1]] # "DEGRADED"
  /\ Move(h, job[h][1], "DEGRADED")

AlreadyDegraded(h) ==
  /\ Goto(h, "degrading", "idle")
  /\ machine[job[h][1]] = "DEGRADED"
  /\ UNCHANGED <<laneVars, job, busVars, requestVars, lost>>

-----------------------------------------------------------------------------
(* onTransition *)

\* Mutant: the move that main.go's comment names (lines 92-95) raises only.
AfterEventFromWeighing(h) ==
  IF Of(job[h]) = [from |-> "WEIGHING", to |-> "INTERVENTION"]
  THEN "raising" ELSE "idle"

\* The transition event is dealt with: a move to INTERVENTION goes on to
\* raiseIntervention, from whichever state it came.
AfterEvent(h) == IF Of(job[h]).to = "INTERVENTION" THEN "raising" ELSE "idle"

PublishOk(h) ==
  /\ Goto(h, "publishing", AfterEvent(h))
  /\ delivered' = delivered \cup {job[h]}
  /\ UNCHANGED <<laneVars, job, queue, requestVars, lost>>

\* Mutant: the error of Publish is only logged.
PublishFailsOnlyLogs(h) ==
  /\ Goto(h, "publishing", AfterEvent(h))
  /\ UNCHANGED <<laneVars, job, busVars, requestVars, lost>>

PublishFails(h) ==
  /\ Goto(h, "publishing", "enqueueing")
  /\ \/ UNCHANGED delivered
     \/ "late" \in Faults /\ delivered' = delivered \cup {job[h]}
  /\ UNCHANGED <<laneVars, job, queue, requestVars, lost>>

Enqueue(h) ==
  /\ Goto(h, "enqueueing", AfterEvent(h))
  /\ \/ Outbox!Accept(job[h])
     \/ "torn" \in Faults /\ Outbox!Spoil(job[h])
  /\ UNCHANGED <<laneVars, job, requestVars>>

\* The error of Enqueue is ignored.
EnqueueFails(h) ==
  /\ "disk" \in Faults
  /\ Goto(h, "enqueueing", AfterEvent(h))
  /\ lost' = lost \cup ({job[h]} \ delivered)
  /\ UNCHANGED <<laneVars, job, busVars, requestVars>>

-----------------------------------------------------------------------------
(* raiseIntervention *)

RaiseOk(h) ==
  /\ Goto(h, "raising", "idle")
  /\ requested' = requested \cup {job[h]}
  /\ UNCHANGED <<laneVars, job, busVars, running, lost>>

\* Mutant: the error of Guard.Call is only logged.
RaiseFailsOnlyLogs(h) ==
  /\ Goto(h, "raising", "idle")
  /\ UNCHANGED <<laneVars, job, busVars, requestVars, lost>>

\* Mutant: a call whose time is up is left to finish and the lane to wait for it.
RaiseFailsInTime(h) ==
  \/ /\ Goto(h, "raising", "degrading")
     /\ \/ UNCHANGED requestVars
        \/ requested' = requested \cup {job[h]} /\ UNCHANGED running
     /\ UNCHANGED <<laneVars, job, busVars, lost>>
  \/ /\ Goto(h, "raising", "idle")
     /\ running' = running \cup {job[h]}
     /\ UNCHANGED <<laneVars, job, busVars, requested, lost>>

\* The circuit is open, the bulkhead is full, Publish failed or the three
\* seconds are over; in the last two cases the bus may have the request, in
\* the last it may still be under way.
RaiseFails(h) ==
  /\ Goto(h, "raising", "degrading")
  /\ \/ UNCHANGED requestVars
     \/ requested' = requested \cup {job[h]} /\ UNCHANGED running
     \/ running' = running \cup {job[h]} /\ UNCHANGED requested
  /\ UNCHANGED <<laneVars, job, busVars, lost>>

\* The abandoned goroutine of CircuitBreaker.Execute ends.
AbandonedPublish(e) ==
  /\ running' = running \ {e}
  /\ requested' \in {requested, requested \cup {e}}
  /\ UNCHANGED <<laneVars, handlerVars, busVars, lost>>

-----------------------------------------------------------------------------
(* The replay loop and the environment *)

Replay ==
  /\ \E e \in ToSet(queue) \ delivered : Outbox!Deliver(e)
  /\ UNCHANGED <<laneVars, handlerVars, requestVars>>

Compact ==
  /\ \E n \in 0..Len(queue) :
       /\ n < Len(queue) => "scan" \in Faults
       /\ \E kept \in Outbox!Selections(n) : Outbox!Forget(n, kept)
  /\ UNCHANGED <<laneVars, handlerVars, requestVars>>

\* The process dies and is started again: the machines are in memory only.
Crash ==
  /\ "crash" \in Faults
  /\ machine' = [l \in Lanes |-> "IDLE"]
  /\ born' = [l \in Lanes |-> Len(log[l])]
  /\ pc' = [h \in Handlers |-> "idle"]
  /\ running' = {}
  /\ lost' = lost \cup (InHand \ (delivered \cup ToSet(queue)))
  /\ UNCHANGED <<log, job, busVars, requested>>

HandlerStep(h) ==
  \/ PublishOk(h) \/ PublishFails(h) \/ Enqueue(h) \/ EnqueueFails(h)
  \/ RaiseOk(h)   \/ RaiseFails(h)   \/ Degrade(h) \/ AlreadyDegraded(h)

Next ==
  \/ \E h \in Handlers : \/ \E l \in Lanes, to \in Targets : Fire(h, l, to)
                         \/ HandlerStep(h)
  \/ \E e \in running : AbandonedPublish(e)
  \/ Replay \/ Compact \/ Crash

Spec == Init /\ [][Next]_vars

(***************************************************************************)
(* Publish, Enqueue and Guard.Call return: CallReturns of Guard and        *)
(* EnqueueTerminates of Outbox.                                            *)
(***************************************************************************)
Fairness == \A h \in Handlers : WF_vars(HandlerStep(h))

FairSpec == Spec /\ Fairness

-----------------------------------------------------------------------------
(* Properties *)

\* Types, and that nobody works on a transition that was not made.
TypeOK ==
  /\ machine \in [Lanes -> LaneState]
  /\ log \in [Lanes -> Seq(Transition)]
  /\ born \in [Lanes -> Nat]
  /\ pc \in [Handlers -> PC]
  /\ job \in [Handlers -> Events \cup {<<>>}]
  /\ \A h \in Handlers : pc[h] # "idle" => \E l \in Lanes : job[h] \in Made(l)
  /\ queue \in Seq(Events)
  /\ delivered \in SUBSET Events
  /\ requested \in SUBSET Events
  /\ running \in SUBSET Events
  /\ lost \in SUBSET Events

\* Every transition a lane has made is known to the bus, or queued, or about
\* to be published or queued, unless a crash caught it in between, Enqueue
\* failed, or its line merged with a fragment or was behind the end of a scan.
TransitionAccounted ==
  \A l \in Lanes :
    Made(l) \subseteq delivered \cup ToSet(queue) \cup InHand \cup lost

\* A lane is never left in INTERVENTION with nobody asked to intervene: the
\* request of its latest move is on the bus, or a handler is still to raise it
\* or to degrade the lane.
InterventionAccounted ==
  \A l \in Lanes : machine[l] = "INTERVENTION" =>
    \/ Latest(l) \in requested
    \/ \E h \in Handlers : pc[h] # "idle" /\ job[h] = Latest(l)

\* The events that are no longer in anybody's hands.
DealtWith == delivered \cup ToSet(queue) \cup lost

\* An associate is sent to a lane for a move to INTERVENTION only, and not before
\* the event of that move has been dealt with, however late the request goes
\* out.  No lane waits for a request Guard.Call gave up, which may never arrive:
\* the lane has moved on since, or is about to be degraded.
RequestJustified ==
  /\ \A e \in requested \cup running :
       e \in Made(e[1]) /\ Of(e).to = "INTERVENTION" /\ e \in DealtWith
  /\ \A e \in running :
       \/ Latest(e[1]) # e
       \/ machine[e[1]] # "INTERVENTION"
       \/ \E h \in Handlers : pc[h] = "degrading" /\ job[h] = e

\* Between two crashes the events of a lane form a chain that ends in its
\* state: "from" is the "to" of the event before, also where Degrade forces
\* the machine while other handlers fire transitions.
EventsFormChain ==
  \A l \in Lanes :
    LET Ends(n) == IF n = born[l] THEN "IDLE" ELSE log[l][n].to IN
    /\ \A n \in born[l] + 1..Len(log[l]) : log[l][n].from = Ends(n - 1)
    /\ machine[l] = Ends(Len(log[l]))

\* A lane waiting for an intervention nobody was asked for gets its request
\* out or leaves INTERVENTION ("instead of hanging", main.go, 7-11).
NoStrandedLane ==
  \A l \in Lanes :
    machine[l] = "INTERVENTION" ~>
      machine[l] # "INTERVENTION" \/ Latest(l) \in requested

\* The envelope of an intervention request, were it ever queued.
RequestFor(e) == <<"request", e>>

\* "Every event that fails to publish is durably enqueued and replayed"
\* (docs/ARCHITECTURE.md, 22): an intervention request that could not be
\* published is in the outbox, unless it reached the bus after all.
FailedRequestKept ==
  \A h \in Handlers : pc[h] = "degrading" =>
    \/ job[h] \in requested \cup running
    \/ RequestFor(job[h]) \in ToSet(queue)
=============================================================================
