------------------------- MODULE LaneManagerProofs -------------------------
(***************************************************************************)
(* Nothing a lane does goes unreported, and no lane is left waiting for an *)
(* intervention nobody was asked for: for any number of lanes, handlers    *)
(* and transitions, and whatever the bus, the disk and the Guard answer.   *)
(* Between two crashes the events of a lane tell one connected story.      *)
(***************************************************************************)
EXTENDS LaneManager, SequenceLemmas, TLAPS

-----------------------------------------------------------------------------
\* Move adds one transition to lane l and hands its event to h.
LEMMA MoveEffect ==
  ASSUME TypeOK, NEW h \in Handlers, NEW l \in Lanes, NEW to \in LaneState,
         Move(h, l, to)
  PROVE  /\ machine' \in [Lanes -> LaneState]
         /\ machine'[l] = to
         /\ log' \in [Lanes -> Seq(Transition)]
         /\ Len(log[l]) \in Nat
         /\ Len(log'[l]) = Len(log[l]) + 1
         /\ log'[l][Len(log'[l])].to = to
         /\ \A k \in Lanes \ {l} : log'[k] = log[k] /\ machine'[k] = machine[k]
         /\ Made(l)' = Made(l) \cup {job'[h]}
         /\ \A k \in Lanes : Made(k) \subseteq Made(k)'
         /\ \A k \in Lanes \ {l} : Made(k)' = Made(k)
         /\ job' \in [Handlers -> Events \cup {<<>>}]
         /\ job'[h] = <<l, Len(log'[l])>>
         /\ job'[h] \in Events
         /\ \A g \in Handlers \ {h} : job'[g] = job[g]
<1> DEFINE t == [from |-> machine[l], to |-> to]
<1>1. t \in Transition
  BY DEF TypeOK, Transition
<1>2. log[l] \in Seq(Transition) /\ Len(log[l]) \in Nat
  BY LenProperties DEF TypeOK
<1>3. /\ Append(log[l], t) \in Seq(Transition)
      /\ Len(Append(log[l], t)) = Len(log[l]) + 1
      /\ Append(log[l], t)[Len(log[l]) + 1] = t
  BY <1>1, <1>2, AppendProperties
<1>4. log' = [log EXCEPT ![l] = Append(log[l], t)]
  BY DEF Move
<1>5. /\ log'[l] = Append(log[l], t)
      /\ \A k \in Lanes \ {l} : log'[k] = log[k]
      /\ log' \in [Lanes -> Seq(Transition)]
  BY <1>3, <1>4 DEF TypeOK
<1>6. /\ job'[h] = <<l, Len(log[l]) + 1>>
      /\ job'[h] \in Events
      /\ job' \in [Handlers -> Events \cup {<<>>}]
      /\ \A g \in Handlers \ {h} : job'[g] = job[g]
  BY <1>2 DEF Move, TypeOK, Events
<1>7. Made(l)' = Made(l) \cup {job'[h]}
  <2>1. 1..Len(log[l]) + 1 = (1..Len(log[l])) \cup {Len(log[l]) + 1}
    BY <1>2
  <2> QED
    BY <2>1, <1>3, <1>5, <1>6 DEF Made
<1>8. \A k \in Lanes \ {l} : Made(k)' = Made(k)
  BY <1>5 DEF Made
<1>9. /\ machine' \in [Lanes -> LaneState]
      /\ machine'[l] = to
      /\ \A k \in Lanes \ {l} : machine'[k] = machine[k]
  BY DEF Move, TypeOK
<1>10. \A k \in Lanes : Made(k) \subseteq Made(k)'
  BY <1>7, <1>8
<1>11. log'[l][Len(log'[l])].to = to
  <2>1. log'[l][Len(log'[l])] = t
    BY <1>2, <1>3, <1>5
  <2> QED
    BY <2>1
<1>12. Len(log'[l]) = Len(log[l]) + 1
  BY <1>3, <1>5
<1> QED
  BY <1>2, <1>5, <1>6, <1>7, <1>8, <1>9, <1>10, <1>11, <1>12

\* A step that moves no lane keeps the set of transitions made.
LEMMA SameMade ==
  ASSUME log' = log
  PROVE  \A l \in Lanes : Made(l)' = Made(l) /\ Latest(l)' = Latest(l)
BY DEF Made, Latest

\* Enqueue, if it answers nil: the event is in the outbox, or it is lost.
LEMMA EnqueueKeeps ==
  ASSUME TypeOK, NEW h \in Handlers, Enqueue(h), job[h] \in Events
  PROVE  /\ queue' \in Seq(Events)
         /\ delivered' = delivered
         /\ \/ ToSet(queue') = ToSet(queue) \cup {job[h]} /\ lost' = lost
            \/ queue' = queue /\ lost' = lost \cup {job[h]}
<1>1. CASE Outbox!Accept(job[h])
  <2>1. queue' = Append(queue, job[h]) /\ UNCHANGED <<delivered, lost>>
    BY <1>1 DEF Outbox!Accept
  <2>2. /\ Append(queue, job[h]) \in Seq(Events)
        /\ ToSet(Append(queue, job[h])) = ToSet(queue) \cup {job[h]}
    BY ToSetAppend DEF TypeOK
  <2> QED
    BY <2>1, <2>2
<1>2. CASE Outbox!Spoil(job[h])
  BY <1>2 DEF Outbox!Spoil, TypeOK
<1> QED
  BY <1>1, <1>2 DEF Enqueue

\* Compacting the outbox: what it forgets was delivered or is lost.
LEMMA CompactForgets ==
  ASSUME TypeOK, Compact
  PROVE  /\ queue' \in Seq(Events)
         /\ delivered' = delivered
         /\ lost' \in SUBSET Events /\ lost \subseteq lost'
         /\ ToSet(queue) \subseteq ToSet(queue') \cup delivered \cup lost'
<1>1. PICK n \in 0..Len(queue) :
        \E kept \in Outbox!Selections(n) : Outbox!Forget(n, kept)
  BY DEF Compact
<1>2. PICK kept \in Outbox!Selections(n) : Outbox!Forget(n, kept)
  BY <1>1
<1>3. PICK k \in 0..n : kept \in [1..k -> 1..n]
  BY DEF Outbox!Selections
<1>4. Len(queue) \in Nat /\ n \in Nat /\ k \in Nat /\ n <= Len(queue)
  BY LenProperties DEF TypeOK
<1>5. queue' \in Seq(Events)
  <2>1. queue' = [i \in 1..k |-> queue[kept[i]]]
    BY <1>2, <1>3 DEF Outbox!Forget
  <2>2. \A i \in 1..k : kept[i] \in 1..Len(queue)
    BY <1>3, <1>4
  <2>3. \A i \in 1..k : queue[kept[i]] \in Events
    BY <2>2, ElementOfSeq DEF TypeOK
  <2> QED
    BY <1>4, <2>1, <2>3, IsASeq
<1> DEFINE front == SubSeq(queue, 1, n)
           back == SubSeq(queue, n + 1, Len(queue))
<1>6. lost' = lost \cup ToSet(back) /\ ToSet(front) \ ToSet(queue') \subseteq delivered
  BY <1>2 DEF Outbox!Forget, Outbox!ToSet, ToSet
<1>7. back \in Seq(Events) /\ ToSet(queue) = ToSet(front) \cup ToSet(back)
  BY SuffixProperties, CutToSet DEF TypeOK
<1>8. delivered' = delivered
  BY <1>2 DEF Outbox!Forget
<1> HIDE DEF front, back
<1>9. ToSet(back) \subseteq Events
  BY <1>7 DEF ToSet
<1> QED
  BY <1>5, <1>6, <1>7, <1>8, <1>9 DEF TypeOK

-----------------------------------------------------------------------------
\* The variables keep their types, and handlers work on transitions made.
THEOREM TypeCorrect == Spec => []TypeOK
<1>1. Init => TypeOK
  BY EmptySeq DEF Init, TypeOK, LaneState, PC
<1>2. TypeOK /\ [Next]_vars => TypeOK'
  <2> SUFFICES ASSUME TypeOK, [Next]_vars PROVE TypeOK'
    OBVIOUS
  <2> DEFINE Busy == \A h \in Handlers :
                       pc[h] # "idle" => \E l \in Lanes : job[h] \in Made(l)
  <2>1. ASSUME NEW h \in Handlers, NEW l \in Lanes, NEW to \in LaneState,
               Move(h, l, to), pc' = [pc EXCEPT ![h] = "publishing"]
        PROVE  TypeOK'
    <3>1. Busy'
      BY <2>1, MoveEffect DEF TypeOK
    <3>2. pc' \in [Handlers -> PC]
      BY <2>1 DEF TypeOK, PC
    <3>3. UNCHANGED <<born, busVars, requestVars, lost>>
      BY <2>1 DEF Move
    <3> QED
      BY <2>1, <3>1, <3>2, <3>3, MoveEffect DEF TypeOK, busVars, requestVars
  <2>2. ASSUME NEW h \in Handlers, NEW l \in Lanes, NEW to \in Targets,
               Fire(h, l, to)
        PROVE  TypeOK'
    BY <2>1, <2>2, LaneAssumption DEF Fire, Goto
  <2>3. ASSUME NEW h \in Handlers, Degrade(h) PROVE TypeOK'
    <3>1. PICK l \in Lanes : job[h] \in Made(l)
      BY <2>3 DEF Degrade, Goto, TypeOK
    <3>2. job[h][1] = l
      BY <3>1 DEF Made
    <3> QED
      BY <2>1, <2>3, <3>2 DEF Degrade, Goto, LaneState
  <2>4. ASSUME NEW h \in Handlers,
               \/ PublishOk(h) \/ PublishFails(h) \/ Enqueue(h)
               \/ EnqueueFails(h) \/ RaiseOk(h) \/ RaiseFails(h)
               \/ AlreadyDegraded(h)
        PROVE  TypeOK'
    <3>1. UNCHANGED <<laneVars, job>>
      BY <2>4 DEF PublishOk, PublishFails, Enqueue, EnqueueFails, RaiseOk,
         RaiseFails, AlreadyDegraded
    <3>2. pc[h] # "idle" /\ job[h] \in Events
      <4>1. pc[h] # "idle"
        BY <2>4 DEF PublishOk, PublishFails, Enqueue, EnqueueFails, RaiseOk,
           RaiseFails, AlreadyDegraded, Goto
      <4>2. PICK l \in Lanes : job[h] \in Made(l)
        BY <4>1 DEF TypeOK
      <4>3. Made(l) \subseteq Events
        BY LenProperties DEF Made, Events, TypeOK
      <4> QED
        BY <4>1, <4>2, <4>3
    <3>3. PICK q \in PC : pc' = [pc EXCEPT ![h] = q]
      BY <2>4 DEF PublishOk, PublishFails, Enqueue, EnqueueFails, RaiseOk,
         RaiseFails, AlreadyDegraded, Goto, AfterEvent, PC
    <3>4. Busy' /\ pc' \in [Handlers -> PC]
      BY <3>1, <3>2, <3>3, SameMade DEF TypeOK, laneVars
    <3>5. queue' \in Seq(Events)
      <4>1. CASE Enqueue(h)
        BY <4>1, <3>2, EnqueueKeeps
      <4>2. CASE ~Enqueue(h)
        BY <2>4, <4>2 DEF PublishOk, PublishFails, EnqueueFails, RaiseOk,
           RaiseFails, AlreadyDegraded, busVars, TypeOK
      <4> QED
        BY <4>1, <4>2
    <3>6. /\ delivered' \in SUBSET Events
          /\ requested' \in SUBSET Events
          /\ running' \in SUBSET Events
          /\ lost' \in SUBSET Events
      BY <2>4, <3>2 DEF PublishOk, PublishFails, Enqueue, EnqueueFails,
         RaiseOk, RaiseFails, AlreadyDegraded, Outbox!Accept, Outbox!Spoil,
         busVars, requestVars, TypeOK
    <3> QED
      BY <3>1, <3>4, <3>5, <3>6 DEF TypeOK, laneVars
  <2>5. ASSUME NEW e \in running, AbandonedPublish(e) PROVE TypeOK'
    BY <2>5, SameMade
       DEF AbandonedPublish, TypeOK, laneVars, handlerVars, busVars
  <2>6. CASE Replay
    <3>1. PICK e \in ToSet(queue) : Outbox!Deliver(e)
      BY <2>6 DEF Replay
    <3>2. e \in Events
      BY DEF ToSet, TypeOK
    <3>3. delivered' \in SUBSET Events /\ UNCHANGED <<queue, lost>>
      BY <3>1, <3>2 DEF Outbox!Deliver, TypeOK
    <3> QED
      BY <2>6, <3>3, SameMade
         DEF Replay, TypeOK, laneVars, handlerVars, requestVars
  <2>7. CASE Compact
    BY <2>7, CompactForgets, SameMade
       DEF Compact, TypeOK, laneVars, handlerVars, requestVars
  <2>8. CASE Crash
    <3>1. InHand \subseteq Events
      <4>1. \A h \in Handlers : pc[h] # "idle" => job[h] \in Events
        BY LenProperties DEF TypeOK, Made, Events
      <4> QED
        BY <4>1 DEF InHand
    <3>2. born' \in [Lanes -> Nat]
      BY <2>8, LenProperties DEF Crash, TypeOK
    <3> QED
      BY <2>8, <3>1, <3>2 DEF Crash, TypeOK, LaneState, PC, busVars
  <2>9. CASE UNCHANGED vars
    BY <2>9, SameMade
       DEF vars, TypeOK, laneVars, handlerVars, busVars, requestVars
  <2> QED
    BY <2>2, <2>3, <2>4, <2>5, <2>6, <2>7, <2>8, <2>9 DEF Next, HandlerStep
<1> QED
  BY <1>1, <1>2, PTL DEF Spec

-----------------------------------------------------------------------------
\* Every transition made is with the bus, in the outbox, in a handler's hands
\* or given up by a crash, the disk or the outbox.
THEOREM NoTransitionForgotten == Spec => []TransitionAccounted
<1> DEFINE Known == delivered \cup ToSet(queue) \cup InHand \cup lost
<1>1. Init => TransitionAccounted
  BY DEF Init, TransitionAccounted, Made
<1>2. TypeOK /\ TransitionAccounted /\ [Next]_vars => TransitionAccounted'
  <2> SUFFICES ASSUME TypeOK, TransitionAccounted, [Next]_vars
               PROVE  TransitionAccounted'
    OBVIOUS
  <2>1. ASSUME log' = log, Known \subseteq Known' PROVE TransitionAccounted'
    BY <2>1, SameMade DEF TransitionAccounted
  <2>2. ASSUME NEW h \in Handlers, pc[h] \notin {"publishing", "enqueueing"},
               NEW q \in PC, pc' = [pc EXCEPT ![h] = q],
               \A g \in Handlers \ {h} : job'[g] = job[g]
        PROVE  InHand \subseteq InHand'
    BY <2>2 DEF InHand, TypeOK
  <2>3. ASSUME NEW h \in Handlers, NEW q \in PC,
               pc' = [pc EXCEPT ![h] = q], job' = job
        PROVE  InHand \subseteq InHand' \cup {job[h]}
    BY <2>3 DEF InHand, TypeOK
  <2>4. ASSUME NEW h \in Handlers, NEW l \in Lanes, NEW to \in LaneState,
               pc[h] \notin {"publishing", "enqueueing"},
               pc' = [pc EXCEPT ![h] = "publishing"], Move(h, l, to)
        PROVE  TransitionAccounted'
    <3>1. InHand \subseteq InHand'
      BY <2>4, <2>2, MoveEffect DEF PC
    <3>2. job'[h] \in InHand'
      BY <2>4 DEF InHand, TypeOK
    <3>3. UNCHANGED <<delivered, queue, lost>>
      BY <2>4 DEF Move, busVars
    <3>4. \A k \in Lanes : Made(k)' \subseteq Made(k) \cup {job'[h]}
      BY <2>4, MoveEffect
    <3> QED
      BY <3>1, <3>2, <3>3, <3>4 DEF TransitionAccounted
  <2>5. ASSUME NEW h \in Handlers, NEW l \in Lanes, NEW to \in Targets,
               Fire(h, l, to)
        PROVE  TransitionAccounted'
    BY <2>4, <2>5, LaneAssumption DEF Fire, Goto
  <2>6. ASSUME NEW h \in Handlers, Degrade(h) PROVE TransitionAccounted'
    <3>1. PICK l \in Lanes : job[h] \in Made(l)
      BY <2>6 DEF Degrade, Goto, TypeOK
    <3>2. job[h][1] = l
      BY <3>1 DEF Made
    <3> QED
      BY <2>4, <2>6, <3>2 DEF Degrade, Goto, LaneState
  <2>7. ASSUME NEW h \in Handlers, PublishOk(h) PROVE TransitionAccounted'
    <3>1. InHand \subseteq InHand' \cup {job[h]}
      BY <2>7, <2>3 DEF PublishOk, Goto, AfterEvent, PC
    <3> QED
      BY <2>7, <2>1, <3>1 DEF PublishOk, laneVars
  <2>8. ASSUME NEW h \in Handlers, PublishFails(h) PROVE TransitionAccounted'
    <3>1. InHand \subseteq InHand'
      BY <2>8 DEF PublishFails, Goto, InHand, TypeOK
    <3> QED
      BY <2>8, <2>1, <3>1 DEF PublishFails, laneVars
  <2>9. ASSUME NEW h \in Handlers, Enqueue(h) PROVE TransitionAccounted'
    <3>1. InHand \subseteq InHand' \cup {job[h]}
      BY <2>9, <2>3 DEF Enqueue, Goto, AfterEvent, PC
    <3>2. PICK l \in Lanes : job[h] \in Made(l)
      BY <2>9 DEF Enqueue, Goto, TypeOK
    <3>3. job[h] \in Events
      BY <3>2, LenProperties DEF Made, Events, TypeOK
    <3>4. log' = log
      BY <2>9 DEF Enqueue, laneVars
    <3> QED
      BY <2>9, <2>1, <3>1, <3>3, <3>4, EnqueueKeeps
  <2>10. ASSUME NEW h \in Handlers, EnqueueFails(h) PROVE TransitionAccounted'
    <3>1. InHand \subseteq InHand' \cup {job[h]}
      BY <2>10, <2>3 DEF EnqueueFails, Goto, AfterEvent, PC
    <3> QED
      BY <2>10, <2>1, <3>1 DEF EnqueueFails, laneVars, busVars
  <2>11. ASSUME NEW h \in Handlers,
                RaiseOk(h) \/ RaiseFails(h) \/ AlreadyDegraded(h)
         PROVE  TransitionAccounted'
    <3>1. InHand \subseteq InHand'
      BY <2>11, <2>2
         DEF RaiseOk, RaiseFails, AlreadyDegraded, Goto, PC
    <3> QED
      BY <2>11, <2>1, <3>1
         DEF RaiseOk, RaiseFails, AlreadyDegraded, laneVars, busVars
  <2>12. CASE Compact
    BY <2>12, <2>1, CompactForgets DEF Compact, laneVars, handlerVars, InHand
  <2>13. CASE Replay
    BY <2>13, <2>1 DEF Replay, Outbox!Deliver, laneVars, handlerVars, InHand
  <2>14. CASE Crash
    BY <2>14, <2>1 DEF Crash, busVars
  <2>15. ASSUME (\E e \in running : AbandonedPublish(e)) \/ UNCHANGED vars
         PROVE  TransitionAccounted'
    BY <2>15, <2>1
       DEF AbandonedPublish, vars, laneVars, handlerVars, busVars, InHand
  <2> QED
    BY <2>5, <2>6, <2>7, <2>8, <2>9, <2>10, <2>11, <2>12, <2>13, <2>14, <2>15
       DEF Next, HandlerStep
<1> QED
  BY <1>1, <1>2, TypeCorrect, PTL DEF Spec

-----------------------------------------------------------------------------
(***************************************************************************)
(* A handler that works on the latest move of a lane in INTERVENTION goes  *)
(* on to raise it because the latest event still tells the lane's state:   *)
(* that is the strengthening InterventionAccounted needs.                  *)
(***************************************************************************)

\* The latest transition of a lane in INTERVENTION is the one that put it there.
LatestTellsState ==
  \A l \in Lanes : machine[l] = "INTERVENTION" =>
    Len(log[l]) > 0 /\ log[l][Len(log[l])].to = "INTERVENTION"

AskInv == LatestTellsState /\ InterventionAccounted

\* No lane waits in INTERVENTION with nobody asked or about to be asked.
THEOREM NoLaneUnattended == Spec => []InterventionAccounted
<1>1. Init => AskInv
  BY DEF Init, AskInv, LatestTellsState, InterventionAccounted
<1>2. TypeOK /\ AskInv /\ [Next]_vars => AskInv'
  <2> SUFFICES ASSUME TypeOK, AskInv, [Next]_vars PROVE AskInv'
    OBVIOUS
  <2> DEFINE Attended(l) == \/ Latest(l) \in requested
                            \/ \E h \in Handlers :
                                 pc[h] # "idle" /\ job[h] = Latest(l)
  <2>1. ASSUME UNCHANGED <<machine, log>>,
               \A l \in Lanes :
                 machine[l] = "INTERVENTION" /\ Attended(l) => Attended(l)'
        PROVE  AskInv'
    BY <2>1, SameMade DEF AskInv, LatestTellsState, InterventionAccounted
  <2>2. ASSUME NEW h \in Handlers, NEW q \in PC, pc' = [pc EXCEPT ![h] = q],
               q # "idle", job' = job, log' = log,
               requested \subseteq requested',
               NEW l \in Lanes, Attended(l)
        PROVE  Attended(l)'
    BY <2>2, SameMade DEF TypeOK
  <2>3. ASSUME NEW h \in Handlers, NEW l \in Lanes, NEW to \in LaneState,
               pc[h] = "idle" \/ job[h][1] = l,
               pc' = [pc EXCEPT ![h] = "publishing"], Move(h, l, to)
        PROVE  AskInv'
    <3>1. LatestTellsState'
      <4>1. /\ machine'[l] = to
            /\ Len(log'[l]) > 0
            /\ log'[l][Len(log'[l])].to = to
        BY <2>3, MoveEffect
      <4>2. \A k \in Lanes \ {l} : machine'[k] = machine[k] /\ log'[k] = log[k]
        BY <2>3, MoveEffect
      <4> QED
        BY <4>1, <4>2 DEF AskInv, LatestTellsState
    <3>2. Attended(l)'
      BY <2>3, MoveEffect DEF Latest, TypeOK
    <3>3. ASSUME NEW k \in Lanes \ {l}, Attended(k) PROVE Attended(k)'
      <4>1. Latest(k)' = Latest(k)
        BY <2>3, MoveEffect DEF Latest
      <4>2. \A g \in Handlers : pc[g] # "idle" /\ job[g] = Latest(k) => g # h
        BY <2>3 DEF Latest
      <4>3. \A g \in Handlers \ {h} : pc'[g] = pc[g] /\ job'[g] = job[g]
        BY <2>3, MoveEffect DEF TypeOK
      <4>4. requested' = requested
        BY <2>3 DEF Move, requestVars
      <4> QED
        BY <3>3, <4>1, <4>2, <4>3, <4>4
    <3> QED
      BY <2>3, <3>1, <3>2, <3>3, MoveEffect DEF AskInv, InterventionAccounted
  <2>4. ASSUME NEW h \in Handlers, NEW l \in Lanes, NEW to \in Targets,
               Fire(h, l, to)
        PROVE  AskInv'
    BY <2>3, <2>4, LaneAssumption DEF Fire, Goto
  <2>5. ASSUME NEW h \in Handlers, Degrade(h) PROVE AskInv'
    <3>1. PICK l \in Lanes : job[h] \in Made(l)
      BY <2>5 DEF Degrade, Goto, TypeOK
    <3>2. job[h][1] = l
      BY <3>1 DEF Made
    <3> QED
      BY <2>3, <2>5, <3>2 DEF Degrade, Goto, LaneState
  <2>6. ASSUME NEW h \in Handlers,
               PublishOk(h) \/ Enqueue(h) \/ EnqueueFails(h)
        PROVE  AskInv'
    <3>1. UNCHANGED <<laneVars, job, requested>>
      BY <2>6 DEF PublishOk, Enqueue, EnqueueFails, requestVars
    <3>2. pc' = [pc EXCEPT ![h] = AfterEvent(h)]
      BY <2>6 DEF PublishOk, Enqueue, EnqueueFails, Goto
    <3>3. ASSUME NEW l \in Lanes, machine[l] = "INTERVENTION", Attended(l)
          PROVE  Attended(l)'
      <4>1. CASE job[h] = Latest(l)
        <5>1. AfterEvent(h) = "raising"
          BY <3>3, <4>1 DEF AskInv, LatestTellsState, AfterEvent, Of, Latest
        <5> QED
          BY <2>2, <3>1, <3>2, <3>3, <5>1 DEF laneVars, PC
      <4>2. CASE job[h] # Latest(l)
        <5>1. Latest(l)' = Latest(l)
          BY <3>1 DEF laneVars, Latest
        <5> QED
          BY <3>1, <3>2, <3>3, <4>2, <5>1 DEF TypeOK
      <4> QED
        BY <4>1, <4>2
    <3> QED
      BY <2>1, <3>1, <3>3 DEF laneVars
  <2>7. ASSUME NEW h \in Handlers, PublishFails(h) \/ RaiseFails(h)
        PROVE  AskInv'
    <3>1. UNCHANGED <<laneVars, job>> /\ requested \subseteq requested'
      BY <2>7 DEF PublishFails, RaiseFails, requestVars
    <3>2. PICK q \in PC : q # "idle" /\ pc' = [pc EXCEPT ![h] = q]
      BY <2>7 DEF PublishFails, RaiseFails, Goto, PC
    <3> QED
      BY <2>1, <2>2, <3>1, <3>2 DEF laneVars
  <2>8. ASSUME NEW h \in Handlers, RaiseOk(h) \/ AlreadyDegraded(h)
        PROVE  AskInv'
    <3>1. UNCHANGED <<laneVars, job>> /\ requested \subseteq requested'
      BY <2>8 DEF RaiseOk, AlreadyDegraded, requestVars
    <3>2. pc' = [pc EXCEPT ![h] = "idle"]
      BY <2>8 DEF RaiseOk, AlreadyDegraded, Goto
    <3>3. ASSUME NEW l \in Lanes, machine[l] = "INTERVENTION", Attended(l)
          PROVE  Attended(l)'
      <4>1. Latest(l)' = Latest(l)
        BY <3>1 DEF laneVars, Latest
      <4>2. CASE job[h] = Latest(l)
        <5>1. job[h][1] = l
          BY <4>2 DEF Latest
        <5>2. RaiseOk(h)
          BY <2>8, <3>3, <5>1 DEF AlreadyDegraded
        <5> QED
          BY <4>1, <4>2, <5>2 DEF RaiseOk
      <4>3. CASE job[h] # Latest(l)
        BY <3>1, <3>2, <3>3, <4>1, <4>3 DEF TypeOK
      <4> QED
        BY <4>2, <4>3
    <3> QED
      BY <2>1, <3>1, <3>3 DEF laneVars
  <2>9. CASE Crash
    BY <2>9 DEF Crash, AskInv, LatestTellsState, InterventionAccounted
  <2>10. ASSUME \/ \E e \in running : AbandonedPublish(e)
                \/ Replay \/ Compact \/ UNCHANGED vars
         PROVE  AskInv'
    <3>1. UNCHANGED <<laneVars, handlerVars>> /\ requested \subseteq requested'
      BY <2>10 DEF AbandonedPublish, Replay, Compact, vars, requestVars
    <3> QED
      BY <2>1, <3>1, SameMade DEF laneVars, handlerVars
  <2> QED
    BY <2>4, <2>5, <2>6, <2>7, <2>8, <2>9, <2>10 DEF Next, HandlerStep
<1>3. AskInv => InterventionAccounted
  BY DEF AskInv
<1> QED
  BY <1>1, <1>2, <1>3, TypeCorrect, PTL DEF Spec

-----------------------------------------------------------------------------
(***************************************************************************)
(* The events of a lane form a chain since the last start of the process.  *)
(* The chain is only about transitions made since then, so the argument    *)
(* needs that they are a suffix of the log.                                *)
(***************************************************************************)

\* Where the first n transitions of lane l leave it.
EndsAt(l, n) == IF n = born[l] THEN "IDLE" ELSE log[l][n].to

ChainOf(l) ==
  /\ born[l] <= Len(log[l])
  /\ \A n \in born[l] + 1..Len(log[l]) : log[l][n].from = EndsAt(l, n - 1)
  /\ machine[l] = EndsAt(l, Len(log[l]))

ChainInv == \A l \in Lanes : ChainOf(l)

\* A move adds a link to the chain of its lane and touches no other lane's.
LEMMA MoveExtendsChain ==
  ASSUME TypeOK, ChainInv, NEW h \in Handlers, NEW l \in Lanes,
         NEW to \in LaneState, Move(h, l, to)
  PROVE  ChainInv'
<1> DEFINE t == [from |-> machine[l], to |-> to]
<1>1. t \in Transition
  BY DEF TypeOK, Transition
<1>0. PICK N \in Nat : N = Len(log[l])
  BY LenProperties DEF TypeOK
<1>2. log[l] \in Seq(Transition) /\ born[l] \in Nat
  BY DEF TypeOK
<1>3. /\ Len(Append(log[l], t)) = N + 1
      /\ \A i \in 1..N : Append(log[l], t)[i] = log[l][i]
      /\ Append(log[l], t)[N + 1] = t
  BY <1>0, <1>1, <1>2, AppendProperties
<1>4. born' = born
  BY DEF Move
<1>5. /\ log'[l] = Append(log[l], t)
      /\ machine'[l] = to
      /\ \A k \in Lanes \ {l} : log'[k] = log[k] /\ machine'[k] = machine[k]
  BY DEF TypeOK, Move
<1>6. \A k \in Lanes \ {l} : ChainOf(k)'
  BY <1>4, <1>5 DEF ChainInv, ChainOf, EndsAt
<1>7. ChainOf(l)'
  <2>1. /\ born[l] <= N
        /\ \A n \in born[l] + 1..N : log[l][n].from = EndsAt(l, n - 1)
        /\ machine[l] = EndsAt(l, N)
    BY <1>0 DEF ChainInv, ChainOf
  <2>2. ASSUME NEW n \in born[l]..N PROVE EndsAt(l, n)' = EndsAt(l, n)
    <3>1. n = born[l] \/ log'[l][n] = log[l][n]
      BY <1>2, <1>3, <1>5
    <3> QED
      BY <1>4, <3>1 DEF EndsAt
  <2>3. Len(log'[l]) = N + 1 /\ log'[l][N + 1] = t
    BY <1>3, <1>5
  <2>4. ASSUME NEW n \in born[l] + 1..N + 1
        PROVE  log'[l][n].from = EndsAt(l, n - 1)'
    <3>1. n - 1 \in born[l]..N
      BY <1>2, <2>1
    <3>2. EndsAt(l, n - 1)' = EndsAt(l, n - 1)
      BY <2>2, <3>1
    <3>3. CASE n = N + 1
      BY <1>2, <2>1, <2>3, <3>2, <3>3
    <3>4. CASE n # N + 1
      <4>1. n \in born[l] + 1..N /\ n \in 1..N
        BY <1>2, <3>4
      <4> QED
        BY <1>3, <1>5, <2>1, <3>2, <4>1
    <3> QED
      BY <3>3, <3>4
  <2>5. EndsAt(l, N + 1)' = to
    BY <1>2, <1>4, <2>1, <2>3 DEF EndsAt
  <2>6. born'[l] <= Len(log'[l])
    BY <1>2, <1>4, <2>1, <2>3
  <2> QED
    <3>1. \A n \in born'[l] + 1..Len(log'[l]) :
            log'[l][n].from = EndsAt(l, n - 1)'
      BY <1>4, <2>3, <2>4
    <3>2. machine'[l] = EndsAt(l, Len(log[l]))'
      BY <1>5, <2>3, <2>5 DEF EndsAt
    <3> QED
      BY <2>6, <3>1, <3>2 DEF ChainOf
<1> QED
  BY <1>6, <1>7 DEF ChainInv

\* A step that moves no lane keeps the chains.
LEMMA ChainStays ==
  ASSUME ChainInv, UNCHANGED laneVars
  PROVE  ChainInv'
BY DEF laneVars, ChainInv, ChainOf, EndsAt

\* Between two crashes each event of a lane starts where the one before ended,
\* and the lane is where the last one ended.
THEOREM EventsChained == Spec => []EventsFormChain
<1>1. Init => ChainInv
  <2> SUFFICES ASSUME Init, NEW l \in Lanes PROVE ChainOf(l)
    BY DEF ChainInv
  <2>1. machine[l] = "IDLE" /\ log[l] = <<>> /\ born[l] = 0
    BY DEF Init
  <2>2. Len(log[l]) = 0
    BY <2>1
  <2> QED
    BY <2>1, <2>2 DEF ChainOf, EndsAt
<1>2. TypeOK /\ ChainInv /\ [Next]_vars => ChainInv'
  <2> SUFFICES ASSUME TypeOK, ChainInv, [Next]_vars PROVE ChainInv'
    OBVIOUS
  <2>1. ASSUME NEW h \in Handlers, NEW l \in Lanes, NEW to \in Targets,
               Fire(h, l, to)
        PROVE  ChainInv'
    BY <2>1, MoveExtendsChain, LaneAssumption DEF Fire
  <2>2. ASSUME NEW h \in Handlers, Degrade(h) PROVE ChainInv'
    <3>1. PICK l \in Lanes : job[h] \in Made(l)
      BY <2>2 DEF Degrade, Goto, TypeOK
    <3>2. job[h][1] = l
      BY <3>1 DEF Made
    <3> QED
      BY <2>2, <3>2, MoveExtendsChain DEF Degrade, LaneState
  <2>3. CASE Crash
    <3> SUFFICES ASSUME NEW l \in Lanes PROVE ChainOf(l)'
      BY DEF ChainInv
    <3>1. machine'[l] = "IDLE" /\ log' = log /\ born'[l] = Len(log[l])
      BY <2>3 DEF Crash
    <3>2. Len(log[l]) \in Nat
      BY LenProperties DEF TypeOK
    <3> QED
      BY <3>1, <3>2 DEF ChainOf, EndsAt
  <2>4. ASSUME \/ \E h \in Handlers :
                    \/ PublishOk(h) \/ PublishFails(h) \/ Enqueue(h)
                    \/ EnqueueFails(h) \/ RaiseOk(h) \/ RaiseFails(h)
                    \/ AlreadyDegraded(h)
               \/ \E e \in running : AbandonedPublish(e)
               \/ Replay \/ Compact \/ UNCHANGED vars
        PROVE  ChainInv'
    <3>1. UNCHANGED laneVars
      BY <2>4 DEF PublishOk, PublishFails, Enqueue, EnqueueFails, RaiseOk,
         RaiseFails, AlreadyDegraded, AbandonedPublish, Replay, Compact, vars
    <3> QED
      BY <3>1, ChainStays
  <2> QED
    BY <2>1, <2>2, <2>3, <2>4 DEF Next, HandlerStep
<1>3. ChainInv => EventsFormChain
  BY DEF ChainInv, ChainOf, EndsAt, EventsFormChain
<1> QED
  BY <1>1, <1>2, <1>3, TypeCorrect, PTL DEF Spec

-----------------------------------------------------------------------------
(***************************************************************************)
(* Why an associate is asked for.  What a handler that raises knows of its *)
(* job is known of the request it sends, at once or late: that is the      *)
(* strengthening.  A move is never taken back, so it stays known; and a    *)
(* lane that moves on leaves the request it no longer waits for behind.    *)
(***************************************************************************)

\* Event e is of a move to INTERVENTION that has been dealt with.
Asks(e) == /\ e[1] \in Lanes /\ e \in Made(e[1])
           /\ Of(e).to = "INTERVENTION" /\ e \in DealtWith

\* Nobody waits for the abandoned request of e.
GivenUp(e) == \/ Latest(e[1]) # e
              \/ machine[e[1]] # "INTERVENTION"
              \/ \E h \in Handlers : pc[h] = "degrading" /\ job[h] = e

RaisersAsk == \A h \in Handlers :
                pc[h] \in {"raising", "degrading"} => Asks(job[h])
RequestsAsk == \A e \in requested \cup running : Asks(e)

RequestInv == RaisersAsk /\ RequestsAsk /\ \A e \in running : GivenUp(e)

\* A move keeps every transition made before.
LEMMA MoveKeepsMade ==
  ASSUME TypeOK, NEW h \in Handlers, NEW l \in Lanes, NEW to \in LaneState,
         Move(h, l, to)
  PROVE  \A e : Asks(e) => Asks(e)' /\ (e[1] = l => Latest(l)' # e)
<1> SUFFICES ASSUME NEW e, Asks(e)
             PROVE  Asks(e)' /\ (e[1] = l => Latest(l)' # e)
  OBVIOUS
<1> DEFINE k == e[1]
<1>1. PICK n \in 1..Len(log[k]) : e = <<k, n>>
  BY DEF Asks, Made
<1>2. k \in Lanes /\ e[2] = n
  BY <1>1 DEF Asks
<1>3. log[k] \in Seq(Transition) /\ Len(log[k]) \in Nat
  BY <1>2, LenProperties DEF TypeOK
<1>4. \/ log'[k] = log[k]
      \/ k = l /\ log'[k] = Append(log[k], [from |-> machine[l], to |-> to])
  BY <1>2 DEF Move, TypeOK
<1>5. log'[k][n] = log[k][n]
  <2>1. [from |-> machine[l], to |-> to] \in Transition
    BY DEF TypeOK, Transition
  <2> QED
    BY <1>3, <1>4, <2>1, AppendProperties
<1>6. Of(e)' = Of(e)
  BY <1>2, <1>5 DEF Of
<1>7. e \in Made(k)'
  BY <1>2, MoveEffect DEF Asks
<1>8. DealtWith' = DealtWith
  BY DEF Move, busVars, DealtWith
<1>9. k = l => Latest(l)' # e
  BY <1>1, <1>3, MoveEffect DEF Latest
<1> QED
  BY <1>2, <1>6, <1>7, <1>8, <1>9 DEF Asks

\* A step that moves no lane and forgets no event keeps what is known.
LEMMA StillAsks ==
  ASSUME log' = log, DealtWith \subseteq DealtWith'
  PROVE  \A e : Asks(e) => Asks(e)'
BY SameMade DEF Asks, Of

\* Every request, early or late, belongs to a move to INTERVENTION that has been
\* dealt with, and no lane waits for one that Guard.Call gave up.
THEOREM RequestsJustified == Spec => []RequestJustified
<1>1. Init => RequestInv
  BY DEF Init, RequestInv, RaisersAsk, RequestsAsk
<1>2. TypeOK /\ RequestInv /\ [Next]_vars => RequestInv'
  <2> SUFFICES ASSUME TypeOK, RequestInv, [Next]_vars PROVE RequestInv'
    OBVIOUS
  <2>1. ASSUME NEW h \in Handlers, NEW l \in Lanes, NEW to \in LaneState,
               pc[h] = "idle" \/ job[h][1] = l,
               pc' = [pc EXCEPT ![h] = "publishing"], Move(h, l, to)
        PROVE  RequestInv'
    <3>1. \A g \in Handlers \ {h} : pc'[g] = pc[g] /\ job'[g] = job[g]
      BY <2>1, MoveEffect DEF TypeOK
    <3>2. pc'[h] = "publishing" /\ requested' = requested /\ running' = running
      BY <2>1 DEF TypeOK, Move, requestVars
    <3>3. \A e : Asks(e) => Asks(e)' /\ (e[1] = l => Latest(l)' # e)
      BY <2>1, MoveKeepsMade
    <3>4. RaisersAsk' /\ RequestsAsk'
      BY <3>1, <3>2, <3>3 DEF RequestInv, RaisersAsk, RequestsAsk
    <3>5. ASSUME NEW e \in running PROVE GivenUp(e)'
      <4>1. Asks(e) /\ GivenUp(e)
        BY DEF RequestInv, RequestsAsk
      <4>2. CASE e[1] = l
        BY <3>3, <4>1, <4>2 DEF GivenUp
      <4>3. CASE e[1] # l
        <5>1. e[1] \in Lanes \ {l}
          BY <4>1, <4>3 DEF Asks
        <5>2. Latest(e[1])' = Latest(e[1]) /\ machine'[e[1]] = machine[e[1]]
          BY <2>1, <5>1, MoveEffect DEF Latest
        <5>3. ASSUME NEW g \in Handlers, pc[g] = "degrading", job[g] = e
              PROVE  pc'[g] = "degrading" /\ job'[g] = e
          BY <2>1, <3>1, <4>3, <5>3
        <5> QED
          BY <4>1, <5>2, <5>3 DEF GivenUp
      <4> QED
        BY <4>2, <4>3
    <3> QED
      BY <3>2, <3>4, <3>5 DEF RequestInv
  <2>2. ASSUME NEW h \in Handlers, NEW l \in Lanes, NEW to \in Targets,
               Fire(h, l, to)
        PROVE  RequestInv'
    BY <2>1, <2>2, LaneAssumption DEF Fire, Goto
  <2>3. ASSUME NEW h \in Handlers, Degrade(h) PROVE RequestInv'
    <3>1. job[h][1] \in Lanes
      BY <2>3 DEF Degrade, Goto, RequestInv, RaisersAsk, Asks
    <3> QED
      BY <2>1, <2>3, <3>1 DEF Degrade, Goto, LaneState
  \* The steps of a handler that leave the lanes alone.
  <2>4. ASSUME NEW h \in Handlers, UNCHANGED laneVars, job' = job,
               DealtWith \subseteq DealtWith',
               NEW q \in PC, pc' = [pc EXCEPT ![h] = q],
               q \in {"raising", "degrading"} => Asks(job[h])',
               requested' \cup running' \subseteq
                 requested \cup running \cup {job[h]},
               job[h] \in requested' \cup running' =>
                 job[h] \in requested \cup running \/ Asks(job[h])',
               running' \subseteq running \cup {job[h]},
               job[h] \in running' \ running => q = "degrading",
               pc[h] = "degrading" => machine[job[h][1]] # "INTERVENTION"
        PROVE  RequestInv'
    <3>1. \A e : Asks(e) => Asks(e)'
      BY <2>4, StillAsks DEF laneVars
    <3>2. pc'[h] = q /\ \A g \in Handlers \ {h} : pc'[g] = pc[g]
      BY <2>4 DEF TypeOK
    <3>3. RaisersAsk'
      BY <2>4, <3>1, <3>2 DEF RequestInv, RaisersAsk
    <3>4. RequestsAsk'
      BY <2>4, <3>1 DEF RequestInv, RequestsAsk
    <3>5. ASSUME NEW e \in running' PROVE GivenUp(e)'
      <4>1. CASE e \in running
        <5>1. GivenUp(e)
          BY <4>1 DEF RequestInv
        <5>2. Latest(e[1])' = Latest(e[1]) /\ machine' = machine
          BY <2>4 DEF Latest, laneVars
        <5>3. ASSUME NEW g \in Handlers, pc[g] = "degrading", job[g] = e
              PROVE  \/ machine[e[1]] # "INTERVENTION"
                     \/ pc'[g] = "degrading" /\ job'[g] = e
          BY <2>4, <3>2, <5>3
        <5> QED
          BY <5>1, <5>2, <5>3 DEF GivenUp
      <4>2. CASE e \notin running
        BY <2>4, <3>2, <4>2 DEF GivenUp
      <4> QED
        BY <4>1, <4>2
    <3> QED
      BY <3>3, <3>4, <3>5 DEF RequestInv
  <2>5. ASSUME NEW h \in Handlers,
               PublishOk(h) \/ Enqueue(h) \/ EnqueueFails(h)
        PROVE  RequestInv'
    <3>1. UNCHANGED <<laneVars, job, requestVars>>
      BY <2>5 DEF PublishOk, Enqueue, EnqueueFails
    <3>2. /\ pc[h] \in {"publishing", "enqueueing"}
          /\ pc' = [pc EXCEPT ![h] = AfterEvent(h)]
      BY <2>5 DEF PublishOk, Enqueue, EnqueueFails, Goto
    <3>3. PICK l \in Lanes : job[h] \in Made(l)
      BY <3>2 DEF TypeOK
    <3>4. job[h] \in Events /\ job[h][1] = l
      BY <3>3, LenProperties DEF Made, Events, TypeOK
    <3>5. DealtWith \subseteq DealtWith' /\ job[h] \in DealtWith'
      <4>1. CASE Enqueue(h)
        BY <4>1, <3>4, EnqueueKeeps DEF DealtWith
      <4>2. CASE PublishOk(h)
        BY <4>2 DEF PublishOk, DealtWith
      <4>3. CASE EnqueueFails(h)
        BY <4>3 DEF EnqueueFails, busVars, DealtWith
      <4> QED
        BY <2>5, <4>1, <4>2, <4>3
    <3>6. AfterEvent(h) = "raising" => Asks(job[h])'
      <4>1. AfterEvent(h) = "raising" => Of(job[h]).to = "INTERVENTION"
        BY DEF AfterEvent
      <4>2. /\ Of(job[h])' = Of(job[h]) /\ job' = job
            /\ Made(l)' = Made(l)
        BY <3>1, SameMade DEF Of, laneVars
      <4> QED
        BY <3>3, <3>4, <3>5, <4>1, <4>2 DEF Asks
    <3>7. AfterEvent(h) \in {"raising", "idle"}
      BY DEF AfterEvent
    <3> QED
      BY <2>4, <3>1, <3>2, <3>5, <3>6, <3>7 DEF PC, requestVars
  <2>6. ASSUME NEW h \in Handlers, PublishFails(h) PROVE RequestInv'
    <3>1. DealtWith \subseteq DealtWith'
      BY <2>6 DEF PublishFails, DealtWith
    <3> QED
      BY <2>4, <2>6, <3>1 DEF PublishFails, Goto, PC, requestVars
  <2>7. ASSUME NEW h \in Handlers, RaiseOk(h) \/ RaiseFails(h)
        PROVE  RequestInv'
    <3>1. UNCHANGED <<laneVars, job, busVars, lost>>
      BY <2>7 DEF RaiseOk, RaiseFails
    <3>2. DealtWith' = DealtWith
      BY <3>1 DEF busVars, DealtWith
    <3>3. Asks(job[h]) /\ pc[h] = "raising"
      BY <2>7 DEF RaiseOk, RaiseFails, Goto, RequestInv, RaisersAsk
    <3>4. Asks(job[h])'
      BY <3>1, <3>2, <3>3, SameMade DEF Asks, Of, laneVars
    <3>5. CASE RaiseOk(h)
      BY <2>4, <3>1, <3>2, <3>3, <3>4, <3>5 DEF RaiseOk, Goto, PC
    <3>6. CASE RaiseFails(h)
      BY <2>4, <3>1, <3>2, <3>3, <3>4, <3>6 DEF RaiseFails, Goto, PC, requestVars
    <3> QED
      BY <2>7, <3>5, <3>6
  <2>8. ASSUME NEW h \in Handlers, AlreadyDegraded(h) PROVE RequestInv'
    <3>1. UNCHANGED <<laneVars, job, busVars, requestVars, lost>>
      BY <2>8 DEF AlreadyDegraded
    <3>2. DealtWith' = DealtWith
      BY <3>1 DEF busVars, DealtWith
    <3>3. /\ pc' = [pc EXCEPT ![h] = "idle"]
          /\ machine[job[h][1]] # "INTERVENTION"
      BY <2>8 DEF AlreadyDegraded, Goto
    <3> QED
      BY <2>4, <3>1, <3>2, <3>3 DEF PC, requestVars
  \* The steps of nobody who handles a request.
  <2>9. ASSUME UNCHANGED <<laneVars, handlerVars>>,
               DealtWith \subseteq DealtWith',
               requested' \cup running' \subseteq requested \cup running,
               running' \subseteq running
        PROVE  RequestInv'
    <3>1. \A e : Asks(e) => Asks(e)'
      BY <2>9, StillAsks DEF laneVars
    <3>2. \A e : GivenUp(e) => GivenUp(e)'
      BY <2>9 DEF GivenUp, Latest, laneVars, handlerVars
    <3> QED
      BY <2>9, <3>1, <3>2
         DEF RequestInv, RaisersAsk, RequestsAsk, handlerVars
  <2>10. ASSUME NEW e \in running, AbandonedPublish(e) PROVE RequestInv'
    BY <2>9, <2>10 DEF AbandonedPublish, DealtWith, busVars
  <2>11. CASE Replay
    BY <2>9, <2>11 DEF Replay, Outbox!Deliver, DealtWith, requestVars
  <2>12. CASE Compact
    BY <2>9, <2>12, CompactForgets DEF Compact, DealtWith, requestVars
  <2>13. CASE UNCHANGED vars
    BY <2>9, <2>13 DEF vars, DealtWith, busVars, requestVars
  <2>14. CASE Crash
    <3>1. log' = log /\ DealtWith \subseteq DealtWith'
      BY <2>14 DEF Crash, DealtWith, busVars
    <3>2. \A e : Asks(e) => Asks(e)'
      BY <3>1, StillAsks
    <3>3. /\ \A h \in Handlers : pc'[h] = "idle"
          /\ running' = {} /\ requested' = requested
      BY <2>14 DEF Crash
    <3> QED
      BY <3>2, <3>3 DEF RequestInv, RaisersAsk, RequestsAsk
  <2> QED
    BY <2>2, <2>3, <2>5, <2>6, <2>7, <2>8, <2>10, <2>11, <2>12, <2>13, <2>14
       DEF Next, HandlerStep
<1>3. RequestInv => RequestJustified
  BY DEF RequestInv, RequestsAsk, Asks, GivenUp, RequestJustified
<1> QED
  BY <1>1, <1>2, <1>3, TypeCorrect, PTL DEF Spec
=============================================================================
