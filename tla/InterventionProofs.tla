------------------------- MODULE InterventionProofs -------------------------
(***************************************************************************)
(* From a reading out of tolerance to a record, and from a resolution to   *)
(* its announcement: for any number of readings, lanes, deliveries and     *)
(* resolve calls, and whatever the bus answers and whichever process dies. *)
(***************************************************************************)
EXTENDS Intervention, FiniteSetTheorems, TLAPS

\* Only a reading out of tolerance is requested and counted.
CountedExceeds ==
  \A d \in Deliveries :
    weight[d] \in {"request", "counting"} => Exceeds(reading[d])

Types == TypeOK /\ CountedExceeds

\* The handlers that may have counted are among the mismatches.
LEMMA CountBound ==
  ASSUME Types, NEW d \in Deliveries, weight[d] = "counting"
  PROVE  1 + Cardinality({e \in Deliveries :
                            weight[e] = "done" /\ Exceeds(reading[e])})
           \in 0..Cardinality({e \in Deliveries : Exceeds(reading[e])})
<1> DEFINE Done == {e \in Deliveries : weight[e] = "done" /\ Exceeds(reading[e])}
<1> DEFINE All  == {e \in Deliveries : Exceeds(reading[e])}
<1>1. IsFiniteSet(All) /\ IsFiniteSet(Done)
  BY InterventionAssumption, FS_Subset
<1>2. d \notin Done /\ Done \cup {d} \subseteq All
  BY DEF Types, CountedExceeds
<1>3. /\ IsFiniteSet(Done \cup {d})
      /\ Cardinality(Done \cup {d}) = Cardinality(Done) + 1
  BY <1>1, <1>2, FS_AddElement
<1>4. Cardinality(Done \cup {d}) <= Cardinality(All)
  BY <1>1, <1>2, FS_Subset
<1>5. Cardinality(Done) \in Nat /\ Cardinality(All) \in Nat
  BY <1>1, FS_CardinalityType
<1> HIDE DEF Done, All
<1>6. 1 + Cardinality(Done) \in 0..Cardinality(All)
  BY <1>3, <1>4, <1>5
<1> QED
  BY <1>6 DEF Done, All

\* What a Publish call that returns does to the answers.
LEMMA ReturnEffect ==
  ASSUME TypeOK, NEW e \in Events, TheBus!Return(e)
  PROVE  /\ answer' \in [Events -> {"none", "nil", "error"}]
         /\ answer'[e] = "error" \/ (answer'[e] = "nil" /\ e \in onBus)
         /\ \A f \in Events \ {e} : answer'[f] = answer[f]
         /\ UNCHANGED <<onBus, handed, dropped>>
BY DEF TheBus!Return, TypeOK

LEMMA EventsOf ==
  /\ \A d \in Deliveries : Event("requested", d) \in Events
  /\ \A a \in Resolvers : Event("resolved", a) \in Events
BY DEF Event, Events

-----------------------------------------------------------------------------
\* A handler of vertex-weight keeps the types.
LEMMA WeightKeepsTypes ==
  ASSUME Types, NEW d \in Deliveries, WeightStep(d)
  PROVE  Types'
<1> USE DEF theBusVars, serviceVars
<1> HIDE DEF Event, Events, Exceeds
<1>1. /\ UNCHANGED <<reading, byID, call, target, restarted>>
      /\ UNCHANGED <<onBus, handed, dropped>>
  BY DEF WeightStep, WithinTolerance, PublishMismatch, RequestReturns, Count,
     TheBus!Return
<1>2. answer' \in [Events -> {"none", "nil", "error"}]
  BY EventsOf, ReturnEffect
     DEF WeightStep, WithinTolerance, PublishMismatch, RequestReturns, Count,
         Types, TypeOK
<1>3. begun \subseteq begun' /\ begun' \subseteq Events
  BY EventsOf DEF WeightStep, WithinTolerance, PublishMismatch, RequestReturns,
     Count, PublishBegins, Types, TypeOK
<1>4. failed' \subseteq Deliveries
  BY DEF WeightStep, WithinTolerance, PublishMismatch, RequestReturns, Count,
     Fails, Types, TypeOK
<1>5. PICK to \in {"request", "counting", "done"} :
        /\ weight' = [weight EXCEPT ![d] = to]
        /\ to \in {"request", "counting"} => Exceeds(reading[d])
  BY DEF WeightStep, WithinTolerance, PublishMismatch, RequestReturns, Count,
     Goto, Types, CountedExceeds
<1>6. /\ weight' \in [Deliveries -> {"new", "request", "counting", "done", "dead"}]
      /\ CountedExceeds'
  <2>1. weight' \in [Deliveries -> {"new", "request", "counting", "done", "dead"}]
    BY <1>5 DEF Types, TypeOK
  <2>2. \A e \in Deliveries : Exceeds(reading[e])' <=> Exceeds(reading[e])
    BY <1>1 DEF Exceeds
  <2> QED
    BY <1>1, <1>5, <2>1, <2>2 DEF Types, TypeOK, CountedExceeds
<1>7. mismatches' \in 0..Cardinality({e \in Deliveries : Exceeds(reading[e])})
  <2>1. CASE Count(d)
    <3> DEFINE done == Cardinality({e \in Deliveries :
                                 weight[e] = "done" /\ Exceeds(reading[e])})
    <3> DEFINE all == Cardinality({e \in Deliveries : Exceeds(reading[e])})
    <3>1. mismatches' \in 1..(1 + done) /\ weight[d] = "counting"
      BY <2>1 DEF Count, Goto
    <3>2. 1 + done \in 0..all
      BY <3>1, CountBound
    <3>3. all \in Nat
      BY InterventionAssumption, FS_Subset, FS_CardinalityType
    <3> HIDE DEF done, all
    <3>4. mismatches' \in 0..all
      BY <3>1, <3>2, <3>3
    <3> QED
      BY <3>4 DEF all
  <2>2. CASE ~Count(d)
    BY <2>2 DEF WeightStep, WithinTolerance, PublishMismatch, RequestReturns,
       Types, TypeOK
  <2> QED
    BY <2>1, <2>2
<1>8. {e \in Deliveries : Exceeds(reading[e])}'
        = {e \in Deliveries : Exceeds(reading[e])}
  BY <1>1 DEF Exceeds
<1> QED
  BY <1>1, <1>2, <1>3, <1>4, <1>6, <1>7, <1>8 DEF Types, TypeOK

\* The variables keep their types, and the counter of mismatches is never ahead
\* of the readings out of tolerance, in whatever order its handlers interleave.
THEOREM TypesCorrect == Spec => []Types
<1>1. Init => Types
  <2> SUFFICES ASSUME Init PROVE Types
    OBVIOUS
  <2>1. Cardinality({d \in Deliveries : Exceeds(reading[d])}) \in Nat
    BY InterventionAssumption, FS_Subset, FS_CardinalityType
  <2> HIDE DEF Exceeds
  <2>2. 0 \in 0..Cardinality({d \in Deliveries : Exceeds(reading[d])})
    BY <2>1
  <2> QED
    BY <2>2 DEF Init, Types, TypeOK, CountedExceeds, TheBus!BusInit
<1>2. Types /\ [Next]_vars => Types'
  <2> SUFFICES ASSUME Types, [Next]_vars PROVE Types'
    OBVIOUS
  <2> DEFINE Bound == Cardinality({d \in Deliveries : Exceeds(reading[d])})
  <2>1. Bound \in Nat
    BY InterventionAssumption, FS_Subset, FS_CardinalityType
  <2> HIDE DEF Bound, Event, Events, Exceeds
  <2>5. ASSUME UNCHANGED <<weightVars, begun, theBusVars>>,
               byID' \in [Deliveries -> {"none", "open", "resolved"}],
               call' \in [Resolvers -> {"new", "not found", "marked",
                                       "announcing", "done", "dead"}],
               target' \in [Resolvers -> Deliveries \cup {NoRequest}],
               restarted' \in BOOLEAN
        PROVE  Types'
    BY <2>5 DEF Types, TypeOK, CountedExceeds, weightVars, theBusVars, Exceeds
  <2>6. ASSUME NEW d \in Deliveries, WeightStep(d) PROVE Types'
    BY <2>6, WeightKeepsTypes
  <2>7. ASSUME NEW d \in Deliveries, Deliver(d) PROVE Types'
    <3>1. /\ handed' = handed \cup {Event("requested", d)}
          /\ handed' \subseteq onBus
          /\ UNCHANGED <<onBus, answer, dropped>>
      BY <2>7 DEF Deliver, TheBus!HandOver, Types, TypeOK
    <3>2. byID' \in [Deliveries -> {"none", "open", "resolved"}]
      BY <2>7 DEF Deliver, Types, TypeOK
    <3> QED
      BY <2>7, <3>1, <3>2
         DEF Deliver, Types, TypeOK, CountedExceeds, weightVars, Exceeds
  <2>8. ASSUME NEW e \in Events, BusTakes(e) PROVE Types'
    <3>1. /\ onBus' = onBus \cup {e} /\ e \in begun
          /\ UNCHANGED <<answer, handed, dropped>>
      BY <2>8 DEF BusTakes, TheBus!Take
    <3> QED
      BY <2>8, <3>1
         DEF BusTakes, Types, TypeOK, CountedExceeds, weightVars, serviceVars,
             Exceeds
  <2>15. ASSUME NEW d \in Deliveries, BusDrops(d) PROVE Types'
    <3>1. /\ dropped' \subseteq onBus
          /\ UNCHANGED <<weightVars, begun, onBus, answer, handed, serviceVars>>
      BY <2>15 DEF BusDrops, TheBus!Drop, Types, TypeOK
    <3> QED
      BY <3>1 DEF Types, TypeOK, CountedExceeds, weightVars, serviceVars, Exceeds
  <2>9. ASSUME NEW a \in Resolvers, NEW d \in Deliveries,
               Resolve(a, d) \/ NotFound(a, d)
        PROVE  Types'
    <3>1. byID' \in [Deliveries -> {"none", "open", "resolved"}]
      BY <2>9 DEF Resolve, NotFound, Types, TypeOK
    <3>2. call' \in [Resolvers -> {"new", "not found", "marked", "announcing",
                                  "done", "dead"}]
      BY <2>9 DEF Resolve, NotFound, Types, TypeOK
    <3>3. target' \in [Resolvers -> Deliveries \cup {NoRequest}]
      BY <2>9 DEF Resolve, NotFound, Names, Types, TypeOK
    <3> QED
      BY <2>5, <2>9, <3>1, <3>2, <3>3 DEF Resolve, NotFound, Types, TypeOK
  <2>10. ASSUME NEW a \in Resolvers, Announce(a) PROVE Types'
    <3>1. begun' = begun \cup {Event("resolved", a)} /\ begun' \subseteq Events
      BY <2>10, EventsOf DEF Announce, PublishBegins, Types, TypeOK
    <3>2. call' \in [Resolvers -> {"new", "not found", "marked", "announcing",
                                  "done", "dead"}]
      BY <2>10 DEF Announce, Types, TypeOK
    <3> QED
      BY <2>10, <3>1, <3>2
         DEF Announce, Types, TypeOK, CountedExceeds, weightVars, theBusVars,
             Exceeds
  <2>11. ASSUME NEW a \in Resolvers, ResolveReturns(a) PROVE Types'
    <3>1. /\ answer' \in [Events -> {"none", "nil", "error"}]
          /\ UNCHANGED <<onBus, handed, dropped>>
      BY <2>11, EventsOf, ReturnEffect DEF ResolveReturns, Types
    <3>2. call' \in [Resolvers -> {"new", "not found", "marked", "announcing",
                                  "done", "dead"}]
      BY <2>11 DEF ResolveReturns, Types, TypeOK
    <3> QED
      BY <2>11, <3>1, <3>2
         DEF ResolveReturns, Types, TypeOK, CountedExceeds, weightVars, Exceeds
  <2>12. CASE WeightCrashes
    <3>1. /\ weight' \in [Deliveries ->
                           {"new", "request", "counting", "done", "dead"}]
          /\ \A d \in Deliveries : weight'[d] \notin {"request", "counting"}
      <4>1. PICK missed \in SUBSET Deliveries :
              weight' = [d \in Deliveries |->
                           IF d \in missed \/ weight[d] \in {"request", "counting"}
                           THEN "dead" ELSE weight[d]]
        BY <2>12 DEF WeightCrashes
      <4>2. weight \in [Deliveries ->
                         {"new", "request", "counting", "done", "dead"}]
        BY DEF Types, TypeOK
      <4> QED
        BY <4>1, <4>2
    <3>2. /\ mismatches' = 0
          /\ UNCHANGED <<reading, failed, begun, theBusVars, serviceVars>>
      BY <2>12 DEF WeightCrashes
    <3>3. mismatches' \in 0..Bound
      BY <2>1, <3>2
    <3>4. TypeOK'
      BY <3>1, <3>2, <3>3
         DEF Types, TypeOK, theBusVars, serviceVars, Bound, Exceeds
    <3> QED
      BY <3>1, <3>4 DEF Types, CountedExceeds
  <2>13. CASE InterventionCrashes
    <3>1. handed' \subseteq onBus
      BY <2>13 DEF InterventionCrashes, Types, TypeOK
    <3>2. byID' \in [Deliveries -> {"none", "open", "resolved"}]
      BY <2>13 DEF InterventionCrashes
    <3>3. call' \in [Resolvers -> {"new", "not found", "marked", "announcing",
                                  "done", "dead"}]
      BY <2>13 DEF InterventionCrashes, Types, TypeOK
    <3> QED
      BY <2>13, <3>1, <3>2, <3>3
         DEF InterventionCrashes, Types, TypeOK, CountedExceeds, weightVars,
             Exceeds
  <2>14. CASE UNCHANGED vars
    BY <2>5, <2>14 DEF vars, serviceVars, Types, TypeOK
  <2> QED
    BY <2>6, <2>7, <2>8, <2>9, <2>10, <2>11, <2>12, <2>13, <2>14,
       <2>15 DEF Next
<1> QED
  BY <1>1, <1>2, PTL DEF Spec

\* The types, and the counter's bound, for every set of readings.
THEOREM TypeCorrect == Spec => []TypeOK
<1>1. Types => TypeOK
  BY DEF Types
<1> QED
  BY <1>1, TypesCorrect, PTL

-----------------------------------------------------------------------------
\* A handler past its request has it on the bus or has failed, also while it
\* is still counting.
Requested(d) ==
  weight[d] \in {"counting", "done"} /\ Exceeds(reading[d]) =>
    Event("requested", d) \in onBus \/ d \in failed

Recorded(d) == Event("requested", d) \in handed => byID[d] # "none" \/ restarted

KeptInv == \A d \in Deliveries : Requested(d) /\ Recorded(d)

\* No mismatch is forgotten on its way to the bus, and no request handed over
\* is without a record, short of a restart.
THEOREM RequestsKept == Spec => []RequestKept
<1>1. Init => KeptInv
  BY DEF Init, KeptInv, Requested, Recorded, TheBus!BusInit
<1>2. Types /\ KeptInv /\ [Next]_vars => KeptInv'
  <2> SUFFICES ASSUME Types, KeptInv, [Next]_vars PROVE KeptInv'
    OBVIOUS
  <2> HIDE DEF Event, Events, Exceeds
  <2>0. reading' = reading =>
          \A d \in Deliveries : Exceeds(reading[d])' <=> Exceeds(reading[d])
    BY DEF Exceeds
  <2>1. ASSUME NEW d \in Deliveries, WeightStep(d) PROVE KeptInv'
    <3>1. UNCHANGED <<reading, onBus, handed, byID, restarted>>
      BY <2>1 DEF WeightStep, WithinTolerance, PublishMismatch, RequestReturns,
         Count, TheBus!Return, theBusVars, serviceVars
    <3>2. failed \subseteq failed'
      BY <2>1 DEF WeightStep, WithinTolerance, PublishMismatch, RequestReturns,
         Count, Fails
    <3>3. \A e \in Deliveries \ {d} : weight'[e] = weight[e]
      BY <2>1 DEF WeightStep, WithinTolerance, PublishMismatch, RequestReturns,
         Count, Goto, Types, TypeOK
    <3>4. /\ weight'[d] \in {"counting", "done"} => \/ ~Exceeds(reading[d])
                                                  \/ weight[d] = "counting"
                                                  \/ d \in failed'
                                                  \/ RequestReturns(d)
      BY <2>1 DEF WeightStep, WithinTolerance, PublishMismatch, Count, Goto,
         Fails, Types, TypeOK
    <3>5. RequestReturns(d) =>
            Event("requested", d) \in onBus \/ d \in failed'
      BY EventsOf, ReturnEffect DEF RequestReturns, Fails, Types
    <3>6. Requested(d)'
      BY <2>0, <3>1, <3>2, <3>4, <3>5 DEF KeptInv, Requested
    <3>7. \A e \in Deliveries \ {d} : Requested(e)'
      BY <2>0, <3>1, <3>2, <3>3 DEF KeptInv, Requested
    <3>8. \A e \in Deliveries : Recorded(e)'
      BY <3>1 DEF KeptInv, Recorded
    <3> QED
      BY <3>6, <3>7, <3>8 DEF KeptInv
  <2>2. ASSUME NEW d \in Deliveries, Deliver(d) PROVE KeptInv'
    <3>1. /\ handed' = handed \cup {Event("requested", d)}
          /\ UNCHANGED <<weight, reading, failed, onBus, restarted>>
      BY <2>2 DEF Deliver, TheBus!HandOver, weightVars
    <3>2. byID'[d] = "open" /\ \A e \in Deliveries \ {d} : byID'[e] = byID[e]
      BY <2>2 DEF Deliver, Types, TypeOK
    <3>3. \A e \in Deliveries \ {d} : Event("requested", e) # Event("requested", d)
      BY DEF Event
    <3>4. \A e \in Deliveries : Requested(e)'
      BY <2>0, <3>1 DEF KeptInv, Requested
    <3>5. \A e \in Deliveries : Recorded(e)'
      BY <3>1, <3>2, <3>3 DEF KeptInv, Recorded
    <3> QED
      BY <3>4, <3>5 DEF KeptInv
  <2>3. ASSUME NEW e \in Events, BusTakes(e) PROVE KeptInv'
    <3>1. /\ onBus \subseteq onBus'
          /\ UNCHANGED <<weight, reading, failed, handed, byID, restarted>>
      BY <2>3 DEF BusTakes, TheBus!Take, weightVars, serviceVars
    <3> QED
      BY <2>0, <3>1 DEF KeptInv, Requested, Recorded
  <2>8. ASSUME NEW d \in Deliveries, BusDrops(d) PROVE KeptInv'
    <3>1. UNCHANGED <<weight, reading, failed, onBus, handed, byID, restarted>>
      BY <2>8 DEF BusDrops, TheBus!Drop, weightVars, serviceVars
    <3> QED
      BY <2>0, <3>1 DEF KeptInv, Requested, Recorded
  <2>4. ASSUME NEW a \in Resolvers,
               \/ \E d \in Deliveries : Resolve(a, d) \/ NotFound(a, d)
               \/ Announce(a) \/ ResolveReturns(a)
        PROVE  KeptInv'
    <3>1. UNCHANGED <<weight, reading, failed, onBus, handed, restarted>>
      BY <2>4 DEF Resolve, NotFound, Announce, ResolveReturns, TheBus!Return,
         weightVars, theBusVars
    <3>2. \A d \in Deliveries : byID'[d] = byID[d] \/ byID'[d] = "resolved"
      BY <2>4 DEF Resolve, NotFound, Announce, ResolveReturns, Types, TypeOK
    <3> QED
      BY <2>0, <3>1, <3>2 DEF KeptInv, Requested, Recorded
  <2>5. CASE WeightCrashes
    <3>1. UNCHANGED <<reading, failed, onBus, handed, byID, restarted>>
      BY <2>5 DEF WeightCrashes, theBusVars, serviceVars
    <3>2. \A d \in Deliveries : weight'[d] = weight[d] \/ weight'[d] = "dead"
      <4>1. PICK missed \in SUBSET Deliveries :
              weight' = [d \in Deliveries |->
                           IF d \in missed \/ weight[d] \in {"request", "counting"}
                           THEN "dead" ELSE weight[d]]
        BY <2>5 DEF WeightCrashes
      <4> QED
        BY <4>1
    <3> QED
      BY <2>0, <3>1, <3>2 DEF KeptInv, Requested, Recorded
  <2>6. CASE InterventionCrashes
    <3>1. UNCHANGED <<weight, reading, failed, onBus>> /\ restarted' = TRUE
      BY <2>6 DEF InterventionCrashes, weightVars
    <3> QED
      BY <2>0, <3>1 DEF KeptInv, Requested, Recorded
  <2>7. CASE UNCHANGED vars
    BY <2>0, <2>7 DEF vars, weightVars, theBusVars, serviceVars, KeptInv,
       Requested, Recorded
  <2> QED
    BY <2>1, <2>2, <2>3, <2>4, <2>5, <2>6, <2>7, <2>8 DEF Next
<1>3. KeptInv => RequestKept
  BY DEF KeptInv, Requested, Recorded, RequestKept
<1> QED
  BY <1>1, <1>2, <1>3, TypesCorrect, PTL DEF Spec

-----------------------------------------------------------------------------
\* Call a has announced its resolution, is about to, or was told of an error.
Announces(a) ==
  \/ call[a] \in {"marked", "announcing"}
  \/ call[a] = "done" /\ \/ Event("resolved", a) \in onBus
                         \/ answer[Event("resolved", a)] = "error"

\* A call that announces goes on to: only its process' death stops it.
LEMMA AnnouncementStays ==
  ASSUME Types, NEW a \in Resolvers, Announces(a), [Next]_vars,
         ~InterventionCrashes
  PROVE  Announces(a)' /\ target'[a] = target[a]
<1> USE DEF weightVars, theBusVars, serviceVars
<1> HIDE DEF Event, Events, Exceeds
<1>1. ASSUME UNCHANGED <<call, target>>, onBus \subseteq onBus',
             answer'[Event("resolved", a)] = answer[Event("resolved", a)]
      PROVE  Announces(a)' /\ target'[a] = target[a]
  BY <1>1 DEF Announces
<1>2. ASSUME NEW d \in Deliveries, WeightStep(d)
      PROVE  Announces(a)' /\ target'[a] = target[a]
  <2>1. Event("requested", d) # Event("resolved", a)
    BY DEF Event
  <2>2. /\ UNCHANGED <<call, target, onBus>>
        /\ UNCHANGED answer \/ TheBus!Return(Event("requested", d))
    BY <1>2 DEF WeightStep, WithinTolerance, PublishMismatch, RequestReturns,
       Count, TheBus!Return
  <2>3. answer'[Event("resolved", a)] = answer[Event("resolved", a)]
    BY <2>1, <2>2, EventsOf, ReturnEffect DEF Types
  <2> QED
    BY <1>1, <2>2, <2>3
<1>3. ASSUME \/ \E d \in Deliveries : BusDrops(d) \/ Deliver(d)
             \/ \E e \in Events : BusTakes(e)
             \/ WeightCrashes \/ UNCHANGED vars
      PROVE  Announces(a)' /\ target'[a] = target[a]
  <2>1. UNCHANGED <<call, target, answer>> /\ onBus \subseteq onBus'
    BY <1>3 DEF Deliver, BusDrops, BusTakes, TheBus!HandOver, TheBus!Drop,
       TheBus!Take, WeightCrashes, vars
  <2> QED
    BY <1>1, <2>1
<1>4. ASSUME NEW b \in Resolvers, NEW d \in Deliveries,
             Resolve(b, d) \/ NotFound(b, d)
      PROVE  Announces(a)' /\ target'[a] = target[a]
  <2>1. b # a
    BY <1>4 DEF Resolve, NotFound, Names, Announces
  <2>2. UNCHANGED <<onBus, answer>>
    BY <1>4 DEF Resolve, NotFound
  <2>3. call'[a] = call[a] /\ target'[a] = target[a]
    BY <1>4, <2>1 DEF Resolve, NotFound, Names, Types, TypeOK
  <2> QED
    BY <2>2, <2>3 DEF Announces
<1>5. ASSUME NEW b \in Resolvers, Announce(b)
      PROVE  Announces(a)' /\ target'[a] = target[a]
  <2>1. call'[a] = call[a] \/ call'[a] = "announcing"
    BY <1>5 DEF Announce, Types, TypeOK
  <2>2. UNCHANGED <<onBus, answer, target>>
    BY <1>5 DEF Announce
  <2> QED
    BY <2>1, <2>2 DEF Announces
<1>6. ASSUME NEW b \in Resolvers, ResolveReturns(b)
      PROVE  Announces(a)' /\ target'[a] = target[a]
  <2>1. UNCHANGED <<onBus, target>>
    BY <1>6 DEF ResolveReturns, TheBus!Return
  <2>2. CASE b = a
    <3>1. /\ call'[a] = "done"
          /\ \/ answer'[Event("resolved", a)] = "error"
             \/ Event("resolved", a) \in onBus
      BY <1>6, <2>2, EventsOf, ReturnEffect DEF ResolveReturns, Types, TypeOK
    <3> QED
      BY <2>1, <3>1 DEF Announces
  <2>3. CASE b # a
    <3>1. Event("resolved", b) # Event("resolved", a)
      BY <2>3 DEF Event
    <3>2. answer'[Event("resolved", a)] = answer[Event("resolved", a)]
      BY <1>6, <3>1, EventsOf, ReturnEffect DEF ResolveReturns, Types
    <3>3. call'[a] = call[a]
      BY <1>6, <2>3 DEF ResolveReturns, Types, TypeOK
    <3> QED
      BY <2>1, <3>2, <3>3 DEF Announces
  <2> QED
    BY <2>2, <2>3
<1> QED
  BY <1>2, <1>3, <1>4, <1>5, <1>6 DEF Next

\* A record that shows as resolved has a call that answers for it, through
\* repeated deliveries, other calls and the death of either process.
THEOREM ResolutionsAnnounced == Spec => []ResolutionAnnounced
<1> DEFINE Owed(d) == \E a \in Resolvers : target[a] = d /\ Announces(a)
<1> DEFINE Inv == \A d \in Deliveries : byID[d] = "resolved" => Owed(d)
<1>1. Init => Inv
  BY DEF Init
<1>2. Types /\ Inv /\ [Next]_vars => Inv'
  <2> SUFFICES ASSUME Types, Inv, [Next]_vars,
                      NEW d \in Deliveries, byID'[d] = "resolved"
               PROVE  Owed(d)'
    OBVIOUS
  <2> USE DEF weightVars, theBusVars, serviceVars
  <2> HIDE DEF Event, Events, Exceeds
  <2>1. CASE InterventionCrashes
    BY <2>1 DEF InterventionCrashes
  <2>2. CASE byID[d] = "resolved" /\ ~InterventionCrashes
    <3>1. PICK a \in Resolvers : target[a] = d /\ Announces(a)
      BY <2>2
    <3> QED
      BY <2>2, <3>1, AnnouncementStays
  <2>3. CASE byID[d] # "resolved" /\ ~InterventionCrashes
    <3>1. PICK a \in Resolvers : Resolve(a, d)
      <4>1. ASSUME NEW e \in Deliveries, WeightStep(e) PROVE byID' = byID
        BY <4>1 DEF WeightStep, WithinTolerance, PublishMismatch,
           RequestReturns, Count
      <4>2. ASSUME NEW e \in Deliveries, Deliver(e) PROVE FALSE
        BY <2>3, <4>2 DEF Deliver, Types, TypeOK
      <4>3. ASSUME \/ \E e \in Events : BusTakes(e)
                   \/ \E e \in Deliveries : BusDrops(e)
                   \/ \E a \in Resolvers :
                        \/ \E e \in Deliveries : NotFound(a, e)
                        \/ Announce(a) \/ ResolveReturns(a)
                   \/ WeightCrashes \/ UNCHANGED vars
            PROVE  byID' = byID
        BY <4>3 DEF BusTakes, BusDrops, NotFound, Announce, ResolveReturns,
           WeightCrashes, vars
      <4>4. ASSUME NEW a \in Resolvers, NEW e \in Deliveries, Resolve(a, e)
            PROVE  e = d
        BY <2>3, <4>4 DEF Resolve, Types, TypeOK
      <4> QED
        BY <2>3, <4>1, <4>2, <4>3, <4>4 DEF Next
    <3>2. target'[a] = d /\ call'[a] = "marked"
      BY <3>1 DEF Resolve, Names, Types, TypeOK
    <3> QED
      BY <3>2 DEF Announces
  <2> QED
    BY <2>1, <2>2, <2>3
<1>3. Inv => ResolutionAnnounced
  BY DEF Announces, ResolutionAnnounced
<1> QED
  BY <1>1, <1>2, <1>3, TypesCorrect, PTL DEF Spec
=============================================================================
