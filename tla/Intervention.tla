---------------------------- MODULE Intervention ----------------------------
(***************************************************************************)
(* cmd/vertex-weight and cmd/vertex-intervention, joined by the bus: a     *)
(* reading out of tolerance is published as a mismatch and then as a       *)
(* request for intervention; requests become records, which associates     *)
(* resolve over HTTP, and each resolution is published.                    *)
(*                                                                         *)
(* The bus is the Bus that MqttClient implements: an event may be taken    *)
(* although Publish returned an error, be handed over more than once, or   *)
(* be dropped after Publish has returned nil.                              *)
(* Nobody subscribes to the mismatch events; of them only the outcome of   *)
(* Publish matters.                                                        *)
(* A request is named by the delivery of the reading it comes from; a      *)
(* reading delivered twice is two deliveries, as vertex-weight sees it.    *)
(***************************************************************************)
EXTENDS Integers, FiniteSets, Wildcard

CONSTANTS
  Deliveries,   \* readings delivered to vertex-weight
  LaneOf,       \* the lane of each
  Readings,     \* [expected, observed, tolerance], grams and per cent
  Resolvers,    \* calls of /interventions/resolve
  Faults        \* of {"again", "weight", "intervention"}

NoRequest == "no request"

ASSUME InterventionAssumption ==
  /\ NoRequest \notin Deliveries
  /\ IsFiniteSet(Deliveries)
  /\ LaneOf \in [Deliveries -> Seq(STRING)]
  /\ Readings \subseteq [expected : Nat, observed : Nat, tolerance : Nat]
  /\ Faults \subseteq {"again", "weight", "intervention"}

VARIABLES
  weight,      \* progress of each handler of vertex-weight
  reading,     \* what it was delivered
  mismatches,  \* the counter of vertex-weight
  failed,      \* handlers that returned an error
  begun,       \* events whose Publish has been called
  onBus, answer, handed, dropped,   \* the bus
  byID,        \* vertex-intervention: status of the record of each request
  call,        \* progress of each resolve call
  target,      \* the request whose record it found
  restarted    \* history: vertex-intervention was restarted

weightVars  == <<weight, reading, mismatches, failed>>
theBusVars  == <<onBus, answer, handed, dropped>>
serviceVars == <<byID, call, target, restarted>>
vars == <<weightVars, begun, theBusVars, serviceVars>>

Event(type, of) == <<type, of>>
Events == ({"requested"} \X Deliveries) \cup ({"resolved"} \X Resolvers)

TheBus == INSTANCE Bus

\* The subscription of vertex-intervention lets every one-segment lane through.
Subscribed(lane) ==
  topicMatches(Topic("store", <<"+">>, "requested"),
               Topic("store", lane, "requested"))

Init ==
  /\ weight = [d \in Deliveries |-> "new"]
  /\ reading \in [Deliveries -> Readings]
  /\ mismatches = 0 /\ failed = {}
  /\ begun = {}
  /\ TheBus!BusInit
  /\ byID = [d \in Deliveries |-> "none"]
  /\ call = [a \in Resolvers |-> "new"]
  /\ target = [a \in Resolvers |-> NoRequest]
  /\ restarted = FALSE

-----------------------------------------------------------------------------
(* vertex-weight: handleObserved and the handler around it *)

\* Mutant: math.Abs is missing.
ExceedsOneSided(w) ==
  100 * (w.observed - w.expected) > w.expected * w.tolerance

Exceeds(w) ==
  LET delta == IF w.observed >= w.expected THEN w.observed - w.expected
                                           ELSE w.expected - w.observed
  IN 100 * delta > w.expected * w.tolerance

Goto(d, from, to) == weight[d] = from /\ weight' = [weight EXCEPT ![d] = to]

PublishBegins(e) == begun' = begun \cup {e}

Fails(d) == failed' = failed \cup {d}

\* Mutant: true is returned, and the reading counted, in every case.
WithinToleranceCounts(d) ==
  /\ ~Exceeds(reading[d])
  /\ Goto(d, "new", "counting")
  /\ UNCHANGED <<reading, mismatches, failed, begun, theBusVars, serviceVars>>

WithinTolerance(d) ==
  /\ Goto(d, "new", "done")
  /\ ~Exceeds(reading[d])
  /\ UNCHANGED <<reading, mismatches, failed, begun, theBusVars,
                 serviceVars>>

\* Publish of the mismatch returns; an error ends the handler.
PublishMismatch(d) ==
  /\ \/ Goto(d, "new", "request") /\ PublishBegins(Event("requested", d))
        /\ UNCHANGED failed
     \/ Goto(d, "new", "counting") /\ Fails(d) /\ UNCHANGED begun
  /\ Exceeds(reading[d])
  /\ UNCHANGED <<reading, mismatches, theBusVars, serviceVars>>

RequestReturns(d) ==
  /\ Goto(d, "request", "counting")
  /\ TheBus!Return(Event("requested", d))
  /\ IF answer'[Event("requested", d)] = "nil" THEN UNCHANGED failed
                                              ELSE Fails(d)
  /\ UNCHANGED <<reading, mismatches, begun, serviceVars>>

\* mismatches++ without a lock, in the goroutine of each message: the handlers
\* done so far bound what may be read and written back, and no more.
Count(d) ==
  /\ Goto(d, "counting", "done")
  /\ mismatches' \in
       1..(1 + Cardinality({e \in Deliveries :
                              weight[e] = "done" /\ Exceeds(reading[e])}))
  /\ UNCHANGED <<reading, failed, begun, theBusVars, serviceVars>>

\* The bus has acknowledged the readings being handled; they are lost.
WeightCrashes ==
  /\ "weight" \in Faults
  /\ \E missed \in SUBSET {d \in Deliveries : weight[d] = "new"} :
       weight' = [d \in Deliveries |->
                    IF d \in missed \/ weight[d] \in {"request", "counting"}
                    THEN "dead" ELSE weight[d]]
  /\ mismatches' = 0
  /\ UNCHANGED <<reading, failed, begun, theBusVars, serviceVars>>

-----------------------------------------------------------------------------
(* The bus *)

\* Also after Publish has returned an error, or its process has died.
BusTakes(e) ==
  /\ e \in begun \ onBus
  /\ TheBus!Take(e)
  /\ UNCHANGED <<weightVars, begun, dropped, serviceVars>>

\* vertex-intervention has no session, or the node that had it is gone.  To be
\* dropped changes nothing for an event nobody subscribes to, nor for a request
\* that was handed over, except that it does not come again.
BusDrops(d) ==
  /\ Event("requested", d) \notin handed \cup dropped
  /\ TheBus!Drop({Event("requested", d)})
  /\ UNCHANGED <<weightVars, begun, serviceVars>>

-----------------------------------------------------------------------------
(* vertex-intervention *)

\* handleRequested replaces whatever record there is.
Deliver(d) ==
  /\ Event("requested", d) \in handed => "again" \in Faults
  /\ TheBus!HandOver(Event("requested", d))
  /\ Subscribed(LaneOf[d])
  /\ byID' = [byID EXCEPT ![d] = "open"]
  /\ UNCHANGED <<weightVars, begun, call, target, restarted>>

Names(a, d) == call[a] = "new" /\ target' = [target EXCEPT ![a] = d]

\* Mutants: a resolved record is dropped; the second of two calls finds
\* nothing to announce.
ResolveDeletes(a, d) ==
  /\ Names(a, d)
  /\ byID[d] # "none"
  /\ byID' = [byID EXCEPT ![d] = "none"]
  /\ call' = [call EXCEPT ![a] = "marked"]
  /\ UNCHANGED <<weightVars, begun, theBusVars, restarted>>

ResolveSilently(a, d) ==
  /\ Names(a, d)
  /\ byID[d] # "none"
  /\ byID' = [byID EXCEPT ![d] = "resolved"]
  /\ call' = [call EXCEPT ![a] =
                IF \E b \in Resolvers : target[b] = d THEN "done" ELSE "marked"]
  /\ UNCHANGED <<weightVars, begun, theBusVars, restarted>>

\* Under st.mu; a resolved record may be resolved again.
Resolve(a, d) ==
  /\ Names(a, d)
  /\ byID[d] # "none"
  /\ byID' = [byID EXCEPT ![d] = "resolved"]
  /\ call' = [call EXCEPT ![a] = "marked"]
  /\ UNCHANGED <<weightVars, begun, theBusVars, restarted>>

NotFound(a, d) ==
  /\ call[a] = "new" /\ byID[d] = "none"
  /\ call' = [call EXCEPT ![a] = "not found"]
  /\ UNCHANGED <<weightVars, begun, theBusVars, byID, target, restarted>>

Announce(a) ==
  /\ call[a] = "marked"
  /\ call' = [call EXCEPT ![a] = "announcing"]
  /\ PublishBegins(Event("resolved", a))
  /\ UNCHANGED <<weightVars, theBusVars, byID, target, restarted>>

\* The error of Publish is ignored.
ResolveReturns(a) ==
  /\ call[a] = "announcing"
  /\ TheBus!Return(Event("resolved", a))
  /\ call' = [call EXCEPT ![a] = "done"]
  /\ UNCHANGED <<weightVars, begun, byID, target, restarted>>

\* Records are in memory only; a request acknowledged but not yet handled is
\* lost with them.  Bound: once.
InterventionCrashes ==
  /\ "intervention" \in Faults /\ ~restarted
  /\ restarted' = TRUE
  /\ byID' = [d \in Deliveries |-> "none"]
  /\ call' = [a \in Resolvers |-> IF call[a] \in {"marked", "announcing"}
                                  THEN "dead" ELSE call[a]]
  /\ \E missed \in SUBSET (({"requested"} \X Deliveries) \cap (onBus \ dropped)) :
       handed' = handed \cup missed
  /\ UNCHANGED <<weightVars, begun, onBus, answer, dropped, target>>

-----------------------------------------------------------------------------

WeightStep(d) ==
  WithinTolerance(d) \/ PublishMismatch(d) \/ RequestReturns(d) \/ Count(d)

Next ==
  \/ \E d \in Deliveries : WeightStep(d) \/ BusDrops(d) \/ Deliver(d)
  \/ \E e \in Events : BusTakes(e)
  \/ \E a \in Resolvers : \/ \E d \in Deliveries : Resolve(a, d) \/ NotFound(a, d)
                          \/ Announce(a) \/ ResolveReturns(a)
  \/ WeightCrashes \/ InterventionCrashes

Spec == Init /\ [][Next]_vars

(***************************************************************************)
(* Handlers run and Publish returns.  A request that the bus keeps is      *)
(* handed over once: QueuedIsHandedOver of MqttClient, for a connection    *)
(* that is calm sooner or later and a vertex-intervention that subscribes. *)
(* Nothing is assumed of a request that is dropped, and nobody need        *)
(* resolve anything.                                                       *)
(***************************************************************************)
Fairness ==
  \A d \in Deliveries :
    WF_vars(\/ WeightStep(d)
            \/ Event("requested", d) \notin handed /\ Deliver(d))

FairSpec == Spec /\ Fairness

-----------------------------------------------------------------------------
(* Properties *)

\* Types; and the counter, racy as it is, is never ahead of the mismatches.
TypeOK ==
  /\ weight \in [Deliveries -> {"new", "request", "counting", "done", "dead"}]
  /\ reading \in [Deliveries -> Readings]
  /\ mismatches \in 0..Cardinality({d \in Deliveries : Exceeds(reading[d])})
  /\ failed \subseteq Deliveries
  /\ begun \subseteq Events /\ onBus \subseteq begun
  /\ handed \subseteq onBus /\ dropped \subseteq onBus
  /\ answer \in [Events -> {"none", "nil", "error"}]
  /\ byID \in [Deliveries -> {"none", "open", "resolved"}]
  /\ call \in [Resolvers -> {"new", "not found", "marked", "announcing",
                             "done", "dead"}]
  /\ target \in [Resolvers -> Deliveries \cup {NoRequest}]
  /\ restarted \in BOOLEAN

\* A reading the handler is through with has its request on the bus, or the
\* handler returned an error; and a request that was handed over has
\* a record, however often it comes and whoever resolves it.  Records are lost
\* with the process only.
RequestKept ==
  \A d \in Deliveries :
    /\ weight[d] = "done" /\ Exceeds(reading[d]) =>
         Event("requested", d) \in onBus \/ d \in failed
    /\ Event("requested", d) \in handed => byID[d] # "none" \/ restarted

\* Every record that shows as resolved owes it to a call that has published the
\* resolution, is about to, or got an error, whatever deliveries and other
\* calls came in between.
ResolutionAnnounced ==
  \A d \in Deliveries :
    byID[d] = "resolved" =>
      \E a \in Resolvers :
        /\ target[a] = d
        /\ \/ call[a] \in {"marked", "announcing"}
           \/ call[a] = "done" /\ \/ Event("resolved", a) \in onBus
                                  \/ answer[Event("resolved", a)] = "error"

\* Further from the weight expected than the tolerance allows, either way.
OutOfTolerance(w) ==
  \/ 100 * w.observed > (100 + w.tolerance) * w.expected
  \/ 100 * w.observed < (100 - w.tolerance) * w.expected

\* A bag that is too heavy or too light gets a record an associate can see,
\* unless a publish returned an error, a process died or the bus, after it had
\* acknowledged the request, dropped it.
MismatchIsAttended ==
  \A d \in Deliveries :
    reading[d] \in {w \in Readings : OutOfTolerance(w)} ~>
      \/ byID[d] # "none"
      \/ d \in failed \/ weight[d] = "dead" \/ restarted
      \/ Event("requested", d) \in dropped
=============================================================================
