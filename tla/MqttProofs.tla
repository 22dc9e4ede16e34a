----------------------------- MODULE MqttProofs -----------------------------
(***************************************************************************)
(* What the MQTT client guarantees through cut connections, failovers and  *)
(* restarts, for any number of calls, patterns, messages and packet ids.   *)
(***************************************************************************)
EXTENDS MqttClient, SequenceLemmas, TLAPS

\* The packets under way.
Up   == ToSet(toBroker)
Down == ToSet(toClient)

ToBroker == [type : {"PUBLISH"},   id : Ids,       of : Calls]
      \cup [type : {"SUBSCRIBE"}, id : Ids,       of : Topics]
      \cup [type : {"PUBACK"},    id : {IdSpace}, of : Inbound]
ToClient == [type : {"PUBACK"},  id : Ids,       of : Calls]
      \cup [type : {"PUBLISH"}, id : {IdSpace}, of : Inbound]

WireOK == toBroker \in Seq(ToBroker) /\ toClient \in Seq(ToClient)

Types == TypeOK /\ WireOK

(***************************************************************************)
(* An id leads back to its call, from Publish to the PUBACK: while the     *)
(* call waits and while a packet of its carries the id, nobody else has    *)
(* the entry of pending.                                                   *)
(***************************************************************************)
OwnEntry(m) == pending[id[m]] \in {NoCall, m}

Published(p, m) == p.of = m /\ p.id = id[m] /\ pub[m] # "new" /\ OwnEntry(m)

AckInv ==
  /\ woken \subseteq received
  /\ AckMeansReceived
  /\ \A m \in Calls :
       Waiting(m) => OwnEntry(m) /\ (pending[id[m]] = NoCall => m \in woken)
  /\ \A p \in Up : p.type = "PUBLISH" => Published(p, p.of)
  /\ \A p \in Down :
       p.type = "PUBACK" => Published(p, p.of) /\ p.of \in received

(***************************************************************************)
(* A message was published before it is here, and the session that sent it *)
(* has not ended.  Before a crash the broker never knows of a subscription *)
(* that the client does not, so whatever it sends finds a handler, if it   *)
(* decodes.                                                                *)
(***************************************************************************)
Kept(x) == inbound[x] \in {"owed", "acked"}

DeliveryInv ==
  /\ \A t \in Topics : sub[t] # "new" => t \in subs
  /\ \A p \in Down : p.type = "PUBLISH" => Kept(p.of)
  /\ ~crashed =>
       /\ session \subseteq subs
       /\ \A p \in Up : p.type = "SUBSCRIBE" => p.of \in subs
       /\ \A p \in Up : p.type = "PUBACK" => p.of \in started \cup malformed
       /\ \A p \in Down : p.type = "PUBLISH" => Handling(p.of) # {}
       /\ \A x \in Inbound : inbound[x] = "owed" => Handling(x) # {}
       /\ AckedIsHandedOver

(***************************************************************************)
(* The replay and a Subscribe that sees connected share the topics out.    *)
(***************************************************************************)
InForce(t) ==
  t \in session \/ \E p \in Up : p.type = "SUBSCRIBE" /\ p.of = t

SubscriptionInv ==
  /\ loop \in {"announced", "replay", "reading"} => connected
  /\ loop = "replay" /\ up => \A t \in subs \ todo : InForce(t)
  /\ loop = "reading" /\ up => \A t \in Topics : sub[t] = "done" => InForce(t)

-----------------------------------------------------------------------------
(* What the operations do to the packets under way *)

\* A packet that is written is under way if the connection works.
LEMMA WriteEffect ==
  ASSUME WireOK, NEW p \in ToBroker, Write(p)
  PROVE  /\ toBroker' \in Seq(ToBroker)
         /\ Up' = IF Works THEN Up \cup {p} ELSE Up
         /\ ~Works => toBroker' = toBroker
<1>1. CASE Works
  <2>1. toBroker' = Append(toBroker, p)
    BY <1>1 DEF Write
  <2> QED
    BY <1>1, <2>1, ToSetAppend DEF WireOK, Up
<1>2. CASE ~Works
  BY <1>2 DEF WireOK, Write, Up
<1> QED
  BY <1>1, <1>2

\* What the broker says travels behind what it said before.
LEMMA ReplyEffect ==
  ASSUME WireOK, NEW p \in ToClient, Reply(p)
  PROVE  toClient' \in Seq(ToClient) /\ Down' = Down \cup {p}
BY ToSetAppend DEF WireOK, Reply, Down

\* Taking the first packet leaves the others.
LEMMA TakeEffect ==
  ASSUME WireOK
  PROVE  /\ toBroker # <<>> =>
              /\ Head(toBroker) \in ToBroker
              /\ toBroker' = Tail(toBroker) =>
                   toBroker' \in Seq(ToBroker) /\ Up = {Head(toBroker)} \cup Up'
         /\ toClient # <<>> =>
              /\ Head(toClient) \in ToClient
              /\ toClient' = Tail(toClient) =>
                   toClient' \in Seq(ToClient) /\ Down = {Head(toClient)} \cup Down'
BY ToSetHeadTail DEF WireOK, Up, Down

\* A connection that is gone takes its packets with it.
LEMMA DropEffect ==
  /\ toBroker' = <<>> => toBroker' \in Seq(ToBroker) /\ Up' = {}
  /\ toClient' = <<>> => toClient' \in Seq(ToClient) /\ Down' = {}
<1>1. <<>> \in Seq(ToBroker) /\ <<>> \in Seq(ToClient)
  OBVIOUS
<1>2. toBroker' = <<>> => Up' = {}
  BY ToSetEmpty DEF Up
<1>3. toClient' = <<>> => Down' = {}
  BY ToSetEmpty DEF Down
<1> QED
  BY <1>1, <1>2, <1>3

LEMMA CutEffect ==
  ASSUME WireOK, Cut
  PROVE  /\ toClient' \in Seq(ToClient) /\ Down' \subseteq Down
         /\ toBroker' \in Seq(ToBroker) /\ Up' = {}
<1>1. PICK k \in 0..Len(toClient) : toClient' = SubSeq(toClient, 1, k)
  BY DEF Cut
<1>2. toClient' \in Seq(ToClient) /\ Down' \subseteq Down
  BY <1>1, ToSetPrefix DEF WireOK, Down
<1> QED
  BY <1>2, DropEffect DEF Cut

LEMMA SameWires ==
  /\ UNCHANGED toBroker => UNCHANGED Up
  /\ UNCHANGED toClient => UNCHANGED Down
BY DEF Up, Down

LEMMA PacketTypes ==
  ASSUME WireOK
  PROVE  Up \subseteq ToBroker /\ Down \subseteq ToClient
BY DEF WireOK, Up, Down, ToSet

LEMMA NextIDInIds == TypeOK => NextID \in Ids /\ 0 \in Ids
BY MqttAssumption DEF TypeOK, NextID, Ids

-----------------------------------------------------------------------------
(* Types *)

LEMMA TypesHoldInitially == Init => Types
<1> SUFFICES ASSUME Init PROVE Types
  OBVIOUS
<1>1. 0 \in Ids
  BY MqttAssumption DEF Ids
<1>2. WireOK
  BY DEF Init, WireOK
<1>3. TypeOK
  BY <1>1 DEF Init, TypeOK, NoCall
<1> QED
  BY <1>2, <1>3 DEF Types

LEMMA PublishKeepsTypes ==
  ASSUME Types, NEW m \in Calls, Register(m) \/ PublishStep(m)
  PROVE  Types'
<1> USE DEF Types
<1>1. NextID \in Ids /\ 0 \in Ids
  BY NextIDInIds
<1>2. CASE Register(m)
  BY <1>1, <1>2 DEF Register, TypeOK, WireOK, loopVars, subVars, netVars, brokerVars
<1>3. ASSUME Write(Packet("PUBLISH", id[m], m)), UNCHANGED toClient
      PROVE  WireOK' /\ (~Works => toBroker' = toBroker)
  <2>1. Packet("PUBLISH", id[m], m) \in ToBroker
    BY DEF Packet, ToBroker, TypeOK
  <2> QED
    BY <1>3, <2>1, WriteEffect DEF WireOK
<1>4. CASE Send(m)
  <2>1. WireOK' /\ (~up => toBroker' = <<>>)
    BY <1>3, <1>4 DEF Send, WireOK, Works, TypeOK
  <2> QED
    BY <1>4, <2>1 DEF Send, TypeOK, loopVars, subVars, brokerVars
<1>5. CASE Retry(m)
  <2>1. WireOK' /\ (~up => toBroker' = <<>>)
    BY <1>3, <1>5 DEF Retry, WireOK, Works, TypeOK
  <2> QED
    BY <1>5, <2>1 DEF Retry, TypeOK, loopVars, subVars, brokerVars
<1>6. CASE AckArrives(m)
  BY <1>6 DEF AckArrives, TypeOK, WireOK, loopVars, subVars, netVars, brokerVars
<1>7. CASE GiveUp(m)
  BY <1>7 DEF GiveUp, TypeOK, WireOK, loopVars, subVars, netVars, brokerVars
<1> QED
  BY <1>2, <1>4, <1>5, <1>6, <1>7 DEF PublishStep

LEMMA SubscribeKeepsTypes ==
  ASSUME Types, NEW t \in Topics, Subscribe(t) \/ SubscribeReturns(t) \/ Replay(t)
  PROVE  Types'
<1> USE DEF Types
<1>1. NextID \in Ids
  BY NextIDInIds
<1>2. ASSUME sendSubscribe(t), UNCHANGED <<up, toClient>>
      PROVE  WireOK' /\ nextID' \in Ids /\ (~up' => toBroker' = <<>>)
  <2>1. Packet("SUBSCRIBE", NextID, t) \in ToBroker
    BY <1>1 DEF Packet, ToBroker
  <2>2. toBroker' \in Seq(ToBroker) /\ (~Works => toBroker' = toBroker)
    BY <1>2, <2>1, WriteEffect DEF sendSubscribe
  <2> QED
    BY <1>1, <1>2, <2>2 DEF sendSubscribe, WireOK, Works, TypeOK
<1>3. CASE Subscribe(t)
  BY <1>3 DEF Subscribe, TypeOK, WireOK, loopVars, pubVars, netVars, brokerVars
<1>4. CASE SubscribeReturns(t)
  <2>1. WireOK' /\ nextID' \in Ids /\ (~up' => toBroker' = <<>>)
    BY <1>2, <1>4 DEF SubscribeReturns, WireOK, TypeOK
  <2> QED
    BY <1>4, <2>1 DEF SubscribeReturns, TypeOK, loopVars, pubVars, brokerVars
<1>5. CASE Replay(t)
  <2>1. WireOK' /\ nextID' \in Ids /\ (~up' => toBroker' = <<>>)
    BY <1>2, <1>5 DEF Replay
  <2> QED
    BY <1>5, <2>1 DEF Replay, TypeOK, pubVars, subVars, brokerVars
<1> QED
  BY <1>3, <1>4, <1>5

LEMMA LoopKeepsTypes ==
  ASSUME Types, LoopStep
  PROVE  Types'
<1> USE DEF Types
<1>1. CASE Dial
  BY <1>1 DEF Dial, TypeOK, WireOK, pubVars, subVars, netVars, brokerVars
<1>2. CASE Stop
  BY <1>2 DEF Stop, TypeOK, WireOK, pubVars, subVars, netVars, brokerVars
<1>3. CASE ConnectFails
  BY <1>3 DEF ConnectFails, TypeOK, WireOK, pubVars, subVars, netVars, brokerVars
<1>4. CASE Connect
  <2>1. WireOK'
    BY <1>4, DropEffect DEF Connect, WireOK
  <2>2. session' \subseteq Topics
    BY <1>4 DEF Connect, SessionEnds, TypeOK
  <2>3. inbound' \in [Inbound -> {"new", "owed", "acked", "forgotten"}]
    BY <1>4 DEF Connect, SessionEnds, TypeOK
  <2> QED
    BY <1>4, <2>1, <2>2, <2>3 DEF Connect, TypeOK, pubVars, subVars
<1>5. CASE Attach
  BY <1>5 DEF Attach, TypeOK, WireOK, pubVars, subVars, netVars, brokerVars
<1>6. CASE Announce
  BY <1>6 DEF Announce, TypeOK, WireOK, pubVars, subVars, netVars, brokerVars
<1>7. CASE StartReplay
  BY <1>7 DEF StartReplay, TypeOK, WireOK, pubVars, subVars, netVars, brokerVars
<1>8. CASE \E t \in Topics : Replay(t)
  BY <1>8, SubscribeKeepsTypes
<1>9. CASE EndReplay
  BY <1>9 DEF EndReplay, TypeOK, WireOK, pubVars, subVars, netVars, brokerVars
<1>10. CASE ReadFails
  BY <1>10 DEF ReadFails, TypeOK, WireOK, pubVars, subVars, netVars, brokerVars
<1>11. CASE ReadPuback
  <2>1. Head(toClient) \in ToClient /\ toClient' \in Seq(ToClient)
    BY <1>11, TakeEffect DEF ReadPuback, Reads
  <2>2. Head(toClient).id \in Ids
    BY <1>11, <2>1 DEF ReadPuback, Reads, ToClient
  <2>3. woken' \subseteq Calls /\ pending' \in [Ids -> Calls \cup {NoCall}]
    BY <1>11, <2>2 DEF ReadPuback, TypeOK
  <2> QED
    BY <1>11, <2>1, <2>3
    DEF ReadPuback, TypeOK, WireOK, loopVars, subVars, brokerVars
<1>12. CASE ReadPublish
  <2> DEFINE x == Head(toClient).of
  <2>1. x \in Inbound /\ toClient' \in Seq(ToClient)
    BY <1>12, TakeEffect DEF ReadPublish, Reads, ToClient
  <2>2. Packet("PUBACK", IdSpace, x) \in ToBroker
    BY <2>1 DEF Packet, ToBroker
  <2>3. toBroker' \in Seq(ToBroker) /\ (~Works => toBroker' = toBroker)
    BY <1>12, <2>2, WriteEffect DEF ReadPublish
  <2>4. ~up => toBroker' = <<>>
    BY <2>3 DEF Works, TypeOK
  <2>5. started' \subseteq Inbound
    BY <1>12, <2>1 DEF ReadPublish, TypeOK
  <2> QED
    BY <1>12, <2>1, <2>3, <2>4, <2>5
    DEF ReadPublish, TypeOK, WireOK, loopVars, pubVars, brokerVars
<1> QED
  BY <1>1, <1>2, <1>3, <1>4, <1>5, <1>6, <1>7, <1>8, <1>9, <1>10, <1>11, <1>12
  DEF LoopStep

LEMMA BrokerKeepsTypes ==
  ASSUME Types, BrokerStep \/ \E x \in Inbound : OthersPublish(x)
  PROVE  Types'
<1> USE DEF Types
<1>1. CASE BrokerTakes
  <2> DEFINE p == Head(toBroker)
  <2>1. p \in ToBroker /\ toBroker' \in Seq(ToBroker)
    BY <1>1, TakeEffect DEF BrokerTakes, BrokerReads
  <2>2. p.of \in Calls /\ Packet("PUBACK", p.id, p.of) \in ToClient
    BY <1>1, <2>1 DEF BrokerTakes, BrokerReads, ToBroker, ToClient, Packet
  <2>3. toClient' \in Seq(ToClient)
    BY <1>1, <2>2, ReplyEffect DEF BrokerTakes
  <2> QED
    BY <1>1, <2>1, <2>2, <2>3
    DEF BrokerTakes, BrokerReads, TypeOK, WireOK, loopVars, pubVars, subVars
<1>2. CASE BrokerSubscribes
  <2>1. Head(toBroker) \in ToBroker /\ toBroker' \in Seq(ToBroker)
    BY <1>2, TakeEffect DEF BrokerSubscribes, BrokerReads
  <2>2. Head(toBroker).of \in Topics
    BY <1>2, <2>1 DEF BrokerSubscribes, BrokerReads, ToBroker
  <2> QED
    BY <1>2, <2>1, <2>2
    DEF BrokerSubscribes, BrokerReads, TypeOK, WireOK, loopVars, pubVars, subVars
<1>3. CASE BrokerIsAcked
  <2>1. toBroker' \in Seq(ToBroker)
    BY <1>3, TakeEffect DEF BrokerIsAcked, BrokerReads
  <2> QED
    BY <1>3, <2>1
    DEF BrokerIsAcked, BrokerReads, TypeOK, WireOK, loopVars, pubVars, subVars
<1>4. CASE BrokerRejects
  BY <1>4, DropEffect
  DEF BrokerRejects, TypeOK, WireOK, loopVars, pubVars, subVars, brokerVars
<1>5. CASE \E x \in Inbound : BrokerSends(x)
  <2>1. PICK x \in Inbound : BrokerSends(x)
    BY <1>5
  <2>2. Packet("PUBLISH", IdSpace, x) \in ToClient
    BY DEF Packet, ToClient
  <2>3. toClient' \in Seq(ToClient)
    BY <2>1, <2>2, ReplyEffect DEF BrokerSends
  <2> QED
    BY <2>1, <2>3 DEF BrokerSends, TypeOK, WireOK, loopVars, pubVars, subVars
<1>6. CASE \E x \in Inbound : OthersPublish(x)
  BY <1>6 DEF OthersPublish, TypeOK, WireOK, loopVars, pubVars, subVars, netVars
<1> QED
  BY <1>1, <1>2, <1>3, <1>4, <1>5, <1>6 DEF BrokerStep

LEMMA FaultsKeepTypes ==
  ASSUME Types, Cut \/ Crash \/ Calm \/ Close
  PROVE  Types'
<1> USE DEF Types
<1>1. CASE Cut
  BY <1>1, CutEffect
  DEF Cut, TypeOK, WireOK, loopVars, pubVars, subVars, brokerVars
<1>2. CASE Crash
  <2>1. 0 \in Ids
    BY NextIDInIds
  <2>2. pub' \in [Calls -> {"new", "registered", "sent", "resent", "ok",
                            "failed", "dead"}]
    BY <1>2 DEF Crash, TypeOK
  <2> QED
    BY <1>2, <2>1, <2>2, DropEffect DEF Crash, TypeOK, WireOK, brokerVars
<1>3. CASE Calm
  BY <1>3
  DEF Calm, TypeOK, WireOK, loopVars, pubVars, subVars, netVars, brokerVars
<1>4. CASE Close
  BY <1>4, DropEffect
  DEF Close, TypeOK, WireOK, pubVars, subVars, netVars, brokerVars
<1> QED
  BY <1>1, <1>2, <1>3, <1>4

LEMMA TypesPreserved == Types /\ [Next]_vars => Types'
<1> SUFFICES ASSUME Types, [Next]_vars PROVE Types'
  OBVIOUS
<1>1. CASE UNCHANGED vars
  BY <1>1 DEF Types, TypeOK, WireOK, vars, loopVars, pubVars, subVars, netVars,
              brokerVars
<1>2. CASE Next
  BY <1>2, PublishKeepsTypes, SubscribeKeepsTypes, LoopKeepsTypes,
     BrokerKeepsTypes, FaultsKeepTypes DEF Next
<1> QED
  BY <1>1, <1>2

\* Every variable keeps its type; a connection that is down carries nothing to
\* the broker.
THEOREM TypeCorrect == Spec => []TypeOK
<1>1. Types => TypeOK
  BY DEF Types
<1> QED
  BY <1>1, TypesHoldInitially, TypesPreserved, PTL DEF Spec

-----------------------------------------------------------------------------
(* Acknowledgements *)

\* Whatever does not concern a Publish call adds none of its packets.
LEMMA AckBystanders ==
  ASSUME Types, AckInv, UNCHANGED <<pubVars, received>>,
         \A p \in Up' : p.type = "PUBLISH" => p \in Up,
         \A p \in Down' : p.type = "PUBACK" => p \in Down
  PROVE  AckInv'
BY DEF AckInv, AckMeansReceived, Waiting, OwnEntry, Published, pubVars

LEMMA RegisterKeepsAcks ==
  ASSUME Types, AckInv, NEW m \in Calls, Register(m)
  PROVE  AckInv'
<1>1. /\ NextID \in Ids /\ pub[m] = "new"
      /\ pub' = [pub EXCEPT ![m] = "registered"]
      /\ id' = [id EXCEPT ![m] = NextID]
      /\ pending' = [pending EXCEPT ![NextID] = m]
      /\ UNCHANGED <<woken, received, toBroker, toClient>>
  BY NextIDInIds DEF Types, Register, netVars, brokerVars
<1>2. /\ pub'[m] = "registered" /\ id'[m] = NextID /\ pending'[NextID] = m
      /\ \A k \in Calls \ {m} : pub'[k] = pub[k] /\ id'[k] = id[k]
      /\ \A i \in Ids \ {NextID} : pending'[i] = pending[i]
  BY <1>1 DEF Types, TypeOK
<1>3. UNCHANGED Up /\ UNCHANGED Down
  BY <1>1, SameWires
<1>4. AckMeansReceived'
  BY <1>1, <1>2 DEF AckInv, AckMeansReceived
<1>5. ASSUME NEW k \in Calls, Waiting(k)'
      PROVE  (OwnEntry(k) /\ (pending[id[k]] = NoCall => k \in woken))'
  <2>1. CASE k = m
    BY <1>2, <2>1, MqttAssumption DEF OwnEntry
  <2>2. CASE k # m
    <3>1. Waiting(k) /\ id[k] # NextID
      BY <1>2, <1>5, <2>2 DEF Register, Unused, Waiting
    <3> QED
      BY <1>1, <1>2, <2>2, <3>1 DEF AckInv, OwnEntry, Types, TypeOK
  <2> QED
    BY <2>1, <2>2
<1>6. \A p \in Up \cup Down : p.id # NextID
  BY DEF Register, Unused, Up, Down, ToSet
<1>7. ASSUME NEW p, p \in Up \cup Down, p.of \in Calls, Published(p, p.of)
      PROVE  Published(p, p.of)'
  <2>1. p.of # m /\ id[p.of] # NextID
    BY <1>1, <1>6, <1>7 DEF Published
  <2> QED
    BY <1>2, <1>7, <2>1 DEF Published, OwnEntry, Types, TypeOK
<1>8. /\ \A p \in Up : p.type = "PUBLISH" => p.of \in Calls
      /\ \A p \in Down : p.type = "PUBACK" => p.of \in Calls
  BY DEF Types, WireOK, Up, Down, ToSet, ToBroker, ToClient
<1> QED
  BY <1>1, <1>3, <1>4, <1>5, <1>7, <1>8 DEF AckInv

LEMMA PublishStepKeepsAcks ==
  ASSUME Types, AckInv, NEW m \in Calls, PublishStep(m)
  PROVE  AckInv'
<1> USE DEF Types
<1>1. /\ UNCHANGED <<id, pending, woken, received, toClient>>
      /\ \A k \in Calls \ {m} : pub'[k] = pub[k]
      /\ pub[m] # "new" /\ pub'[m] # "new" /\ Waiting(m)
      /\ pub'[m] = "ok" => m \in woken
  BY DEF PublishStep, Send, AckArrives, Retry, GiveUp, netVars, brokerVars,
         Waiting, TypeOK
<1>2. \A p \in Up' : p \in Up \/ p = Packet("PUBLISH", id[m], m)
  <2>1. Packet("PUBLISH", id[m], m) \in ToBroker
    BY DEF Packet, ToBroker, TypeOK
  <2>2. CASE Write(Packet("PUBLISH", id[m], m))
    BY <2>1, <2>2, WriteEffect
  <2>3. CASE UNCHANGED toBroker
    BY <2>3, SameWires
  <2> QED
    BY <2>2, <2>3
    DEF PublishStep, Send, AckArrives, Retry, GiveUp, netVars
<1>3. UNCHANGED Down
  BY <1>1, SameWires
<1>4. AckMeansReceived'
  BY <1>1 DEF AckInv, AckMeansReceived
<1>5. \A k \in Calls :
        Waiting(k)' => Waiting(k)
  BY <1>1 DEF Waiting
<1>6. \A p : p.of \in Calls /\ Published(p, p.of) => Published(p, p.of)'
  BY <1>1 DEF Published, OwnEntry
<1>7. \A p \in Up' : p.type = "PUBLISH" => Published(p, p.of)'
  <2> SUFFICES ASSUME NEW p \in Up', p.type = "PUBLISH" PROVE Published(p, p.of)'
    OBVIOUS
  <2>1. CASE p \in Up
    BY <1>6, <2>1, PacketTypes DEF AckInv, ToBroker
  <2>2. CASE p = Packet("PUBLISH", id[m], m)
    BY <1>1, <2>2 DEF AckInv, Published, OwnEntry, Packet
  <2> QED
    BY <1>2, <2>1, <2>2
<1>8. \A p \in Down : p.type = "PUBACK" => p.of \in Calls
  BY PacketTypes DEF ToClient
<1>9. \A k \in Calls :
        Waiting(k)' => (OwnEntry(k) /\ (pending[id[k]] = NoCall => k \in woken))'
  BY <1>1, <1>5 DEF AckInv, OwnEntry
<1> QED
  BY <1>1, <1>3, <1>4, <1>6, <1>7, <1>8, <1>9 DEF AckInv

\* The entry that is cleared is of the call the PUBACK is for, or of nobody.
LEMMA PubackFindsCall ==
  ASSUME Types, AckInv, ReadPuback
  PROVE  LET p == Head(toClient)
             m == p.of
         IN /\ m \in Calls /\ m \in received
            /\ p.id = id[m] /\ p.id \in Ids /\ pending[p.id] \in {NoCall, m}
            /\ woken' = IF pending[p.id] = NoCall THEN woken ELSE woken \cup {m}
            /\ pending' = [pending EXCEPT ![p.id] = NoCall]
            /\ Waiting(m) => m \in woken'
            /\ woken' \subseteq woken \cup {m}
<1> DEFINE p == Head(toClient)
<1>1. p \in Down /\ p \in ToClient /\ p.type = "PUBACK"
  BY TakeEffect DEF Types, ReadPuback, Reads
<1>2. p.of \in Calls /\ p.id \in Ids
  BY <1>1 DEF ToClient
<1>3. Published(p, p.of) /\ p.of \in received
  BY <1>1 DEF AckInv
<1>4. Waiting(p.of) /\ pending[id[p.of]] = NoCall => p.of \in woken
  BY <1>2 DEF AckInv
<1> QED
  BY <1>2, <1>3, <1>4 DEF ReadPuback, Published, OwnEntry

LEMMA ReadPubackKeepsAcks ==
  ASSUME Types, AckInv, ReadPuback
  PROVE  AckInv'
<1> DEFINE i == Head(toClient).id
           n == Head(toClient).of
<1>1. /\ n \in Calls /\ n \in received /\ i = id[n] /\ i \in Ids
      /\ pending[i] \in {NoCall, n}
      /\ woken' = IF pending[i] = NoCall THEN woken ELSE woken \cup {n}
      /\ pending' = [pending EXCEPT ![i] = NoCall]
  BY PubackFindsCall
<1> HIDE DEF i, n
<1>2. UNCHANGED <<pub, id, received, toBroker>>
  BY DEF ReadPuback, brokerVars
<1>3. UNCHANGED Up /\ Down' \subseteq Down
  BY <1>2, SameWires, TakeEffect DEF Types, ReadPuback, Reads
<1>4. pending'[i] = NoCall /\ \A j \in Ids \ {i} : pending'[j] = pending[j]
  BY <1>1 DEF Types, TypeOK
<1>5. woken' \subseteq received' /\ woken \subseteq woken'
  BY <1>1, <1>2 DEF AckInv
<1>6. ASSUME NEW k \in Calls, OwnEntry(k)
      PROVE  /\ OwnEntry(k)'
             /\ pending'[id[k]] = NoCall => pending[id[k]] = NoCall \/ k \in woken'
  <2>1. CASE id[k] = i
    BY <1>1, <1>2, <1>4, <1>6, <2>1, MqttAssumption DEF OwnEntry
  <2>2. CASE id[k] # i
    BY <1>2, <1>4, <1>6, <2>2 DEF OwnEntry, Types, TypeOK
  <2> QED
    BY <2>1, <2>2
<1>7. \A k \in Calls :
        Waiting(k)' => (OwnEntry(k) /\ (pending[id[k]] = NoCall => k \in woken))'
  BY <1>2, <1>5, <1>6 DEF AckInv, Waiting
<1>8. \A p \in Up \cup Down :
        p.of \in Calls /\ Published(p, p.of) => Published(p, p.of)'
  BY <1>2, <1>6 DEF Published
<1>9. /\ \A p \in Up : p.type = "PUBLISH" => p.of \in Calls
      /\ \A p \in Down : p.type = "PUBACK" => p.of \in Calls
  BY PacketTypes DEF Types, ToBroker, ToClient
<1>10. AckMeansReceived'
  BY <1>2 DEF AckInv, AckMeansReceived
<1> QED
  BY <1>2, <1>3, <1>5, <1>7, <1>8, <1>9, <1>10 DEF AckInv

LEMMA BrokerTakesKeepsAcks ==
  ASSUME Types, AckInv, BrokerTakes
  PROVE  AckInv'
<1> DEFINE p == Head(toBroker)
           q == Packet("PUBACK", p.id, p.of)
<1>1. /\ p \in Up /\ p \in ToBroker /\ p.type = "PUBLISH"
      /\ Up' \subseteq Up
  BY TakeEffect DEF Types, BrokerTakes, BrokerReads
<1>2. p.of \in Calls /\ q \in ToClient
  BY <1>1 DEF ToBroker, ToClient, Packet
<1>3. Down' = Down \cup {q}
  BY <1>2, ReplyEffect DEF Types, BrokerTakes
<1>4. /\ UNCHANGED <<pub, id, woken, pending>>
      /\ received' = received \cup {p.of}
  BY DEF BrokerTakes, pubVars
<1>5. Published(p, p.of)
  BY <1>1 DEF AckInv
<1>6. Published(q, q.of)
  BY <1>5 DEF Published, Packet
<1>7. \A r : Published(r, r.of) => Published(r, r.of)'
  BY <1>4 DEF Published, OwnEntry
<1>8. \A k \in Calls :
        Waiting(k)' => (OwnEntry(k) /\ (pending[id[k]] = NoCall => k \in woken))'
  BY <1>4 DEF AckInv, Waiting, OwnEntry
<1>9. AckMeansReceived' /\ woken' \subseteq received'
  BY <1>4 DEF AckInv, AckMeansReceived
<1>10. q.of \in received'
  BY <1>4 DEF Packet
<1> HIDE DEF p, q
<1>11. \A r \in Up' : r.type = "PUBLISH" => Published(r, r.of)'
  BY <1>1, <1>7 DEF AckInv
<1>12. \A r \in Down' :
         r.type = "PUBACK" => Published(r, r.of)' /\ r.of \in received'
  BY <1>3, <1>4, <1>6, <1>7, <1>10 DEF AckInv
<1> QED
  BY <1>8, <1>9, <1>11, <1>12 DEF AckInv

LEMMA CrashKeepsAcks ==
  ASSUME Types, AckInv, Crash
  PROVE  AckInv'
<1>1. Up' = {} /\ Down' = {}
  BY DropEffect DEF Crash
<1>2. \A k \in Calls : ~Waiting(k)' /\ (pub'[k] = "ok" => pub[k] = "ok")
  BY DEF Crash, Waiting, Types, TypeOK
<1>3. UNCHANGED <<woken, received>>
  BY DEF Crash, brokerVars
<1> QED
  BY <1>1, <1>2, <1>3 DEF AckInv, AckMeansReceived

\* A SUBSCRIBE is the only packet a subscription adds.
LEMMA SubscribeAdds ==
  ASSUME Types, NEW t \in Topics, Subscribe(t) \/ SubscribeReturns(t) \/ Replay(t)
  PROVE  /\ UNCHANGED <<pubVars, started, up, brokerVars, conn, connected, loop,
                        closed, crashed>>
         /\ Down' = Down
         /\ \/ Up' = Up
            \/ Works /\ Up' = Up \cup {Packet("SUBSCRIBE", NextID, t)}
         /\ Works /\ (Replay(t) \/ (SubscribeReturns(t) /\ connected)) =>
              Up' = Up \cup {Packet("SUBSCRIBE", NextID, t)}
<1>1. Packet("SUBSCRIBE", NextID, t) \in ToBroker
  BY NextIDInIds DEF Types, Packet, ToBroker
<1>2. sendSubscribe(t) =>
        Up' = IF Works THEN Up \cup {Packet("SUBSCRIBE", NextID, t)} ELSE Up
  BY <1>1, WriteEffect DEF Types, sendSubscribe
<1>3. CASE Subscribe(t)
  BY <1>3, SameWires
  DEF Subscribe, Replay, SubscribeReturns, loopVars, netVars
<1>4. CASE SubscribeReturns(t)
  BY <1>2, <1>4, SameWires DEF SubscribeReturns, Replay, loopVars
<1>5. CASE Replay(t)
  BY <1>2, <1>5, SameWires DEF Replay, subVars
<1> QED
  BY <1>3, <1>4, <1>5

\* A PUBACK is the only packet handlePublish adds, and it is for a message that
\* was under way.
LEMMA ReadPublishAdds ==
  ASSUME Types, ReadPublish
  PROVE  LET x == Head(toClient).of IN
         /\ Head(toClient) \in Down /\ Head(toClient).type = "PUBLISH"
         /\ x \in Inbound
         /\ Down' \subseteq Down
         /\ Up' = IF Works THEN Up \cup {Packet("PUBACK", IdSpace, x)} ELSE Up
         /\ started' = IF x \notin malformed /\ Handling(x) # {}
                       THEN started \cup {x} ELSE started
         /\ UNCHANGED <<loopVars, pubVars, subs, sub, up, brokerVars, crashed>>
<1> DEFINE x == Head(toClient).of
<1>1. /\ Head(toClient) \in Down /\ Head(toClient).type = "PUBLISH"
      /\ Head(toClient) \in ToClient /\ Down' \subseteq Down
  BY TakeEffect DEF Types, ReadPublish, Reads
<1>2. x \in Inbound
  BY <1>1 DEF ToClient
<1>3. Packet("PUBACK", IdSpace, x) \in ToBroker
  BY <1>2 DEF Packet, ToBroker
<1>4. Up' = IF Works THEN Up \cup {Packet("PUBACK", IdSpace, x)} ELSE Up
  BY <1>3, WriteEffect DEF Types, ReadPublish
<1> QED
  BY <1>1, <1>2, <1>4 DEF ReadPublish

\* The steps of the loop that touch neither packets nor what the broker knows.
QuietStep ==
  \/ Dial \/ Stop \/ ConnectFails \/ Attach \/ Announce \/ StartReplay
  \/ EndReplay \/ ReadFails \/ Calm

LEMMA QuietStepIsQuiet ==
  ASSUME QuietStep
  PROVE  UNCHANGED <<pubVars, subVars, up, Up, Down, brokerVars, crashed>>
<1>1. UNCHANGED <<pubVars, subVars, netVars, brokerVars, crashed>>
  BY DEF QuietStep, Dial, Stop, ConnectFails, Attach, Announce, StartReplay,
         EndReplay, ReadFails, Calm
<1> QED
  BY <1>1, SameWires DEF netVars

LEMMA OtherStepsKeepAcks ==
  ASSUME Types, AckInv,
         \/ \E t \in Topics : Subscribe(t) \/ SubscribeReturns(t) \/ Replay(t)
         \/ QuietStep \/ Connect \/ ReadPublish \/ Close
         \/ BrokerSubscribes \/ BrokerIsAcked \/ BrokerRejects
         \/ \E x \in Inbound : BrokerSends(x) \/ OthersPublish(x)
         \/ Cut
  PROVE  AckInv'
<1> USE AckBystanders
<1>1. CASE \E t \in Topics : Subscribe(t) \/ SubscribeReturns(t) \/ Replay(t)
  BY <1>1, SubscribeAdds DEF brokerVars, Packet
<1>2. CASE QuietStep
  BY <1>2, QuietStepIsQuiet DEF brokerVars
<1>3. CASE Connect
  BY <1>3, DropEffect DEF Connect
<1>4. CASE ReadPublish
  BY <1>4, ReadPublishAdds DEF brokerVars, Packet
<1>5. CASE Close
  BY <1>5, DropEffect, SameWires DEF Close, netVars, brokerVars
<1>6. CASE BrokerSubscribes
  BY <1>6, TakeEffect, SameWires DEF BrokerSubscribes, BrokerReads, Types
<1>7. CASE BrokerIsAcked
  BY <1>7, TakeEffect, SameWires DEF BrokerIsAcked, BrokerReads, Types
<1>8. CASE BrokerRejects
  BY <1>8, DropEffect, SameWires DEF BrokerRejects, brokerVars
<1>9. CASE \E x \in Inbound : BrokerSends(x)
  <2>1. PICK x \in Inbound : BrokerSends(x)
    BY <1>9
  <2>2. Packet("PUBLISH", IdSpace, x) \in ToClient
    BY DEF Packet, ToClient
  <2>3. Down' = Down \cup {Packet("PUBLISH", IdSpace, x)} /\ UNCHANGED Up
    BY <2>1, <2>2, ReplyEffect, SameWires DEF Types, BrokerSends
  <2> QED
    BY <2>1, <2>3 DEF BrokerSends, Packet
<1>10. CASE \E x \in Inbound : OthersPublish(x)
  BY <1>10, SameWires DEF OthersPublish, netVars
<1>11. CASE Cut
  BY <1>11, CutEffect DEF Types, Cut, brokerVars
<1> QED
  BY <1>1, <1>2, <1>3, <1>4, <1>5, <1>6, <1>7, <1>8, <1>9, <1>10, <1>11

LEMMA AckInvPreserved == Types /\ AckInv /\ [Next]_vars => AckInv'
<1> SUFFICES ASSUME Types, AckInv, [Next]_vars PROVE AckInv'
  OBVIOUS
<1>1. CASE UNCHANGED vars
  BY <1>1, SameWires, AckBystanders DEF vars, netVars, brokerVars
<1>2. CASE Next
  BY <1>2, RegisterKeepsAcks, PublishStepKeepsAcks, ReadPubackKeepsAcks,
     BrokerTakesKeepsAcks, CrashKeepsAcks, OtherStepsKeepAcks
  DEF Next, LoopStep, BrokerStep, QuietStep
<1> QED
  BY <1>1, <1>2

LEMMA AckInvHoldsInitially == Init => AckInv
BY ToSetEmpty DEF Init, AckInv, AckMeansReceived, Waiting, Up, Down

\* Publish returns nil only when the broker has this very message, whatever the
\* network does and however often ids come round again.
THEOREM AcknowledgedIsReceived == Spec => []AckMeansReceived
<1>1. AckInv => AckMeansReceived
  BY DEF AckInv
<1> QED
  BY <1>1, TypesHoldInitially, TypesPreserved, AckInvHoldsInitially,
     AckInvPreserved, PTL DEF Spec

\* A PUBACK that is read wakes the call it answers, and it wakes no other call:
\* also not the one that has taken the place of a call that gave up.
THEOREM AcknowledgementFindsCall == Spec => AckFindsCall
<1>1. Types /\ AckInv /\ [Next]_vars =>
        [ReadPuback => LET m == Head(toClient).of IN
                         /\ Waiting(m) => m \in woken'
                         /\ woken' \subseteq woken \cup {m}]_vars
  BY PubackFindsCall
<1> QED
  BY <1>1, TypesHoldInitially, TypesPreserved, AckInvHoldsInitially,
     AckInvPreserved, PTL DEF Spec, AckFindsCall

-----------------------------------------------------------------------------
(* Delivery *)

\* The client and the broker agree on what a pattern matches, for every filter
\* and every topic (wildcard.go, 5-7).
THEOREM MatchesAsBroker ==
  ASSUME NEW f \in Seq(STRING), NEW t \in Seq(STRING), IsFilter(f)
  PROVE  topicMatches(f, t) <=> BrokerMatches(f, t)
<1> DEFINE Same(i) == i <= Len(t) /\ f[i] \in {"+", t[i]}
           last == Len(f)
<1>1. /\ last \in Nat \ {0} /\ Len(t) \in Nat /\ DOMAIN f = 1..last
      /\ last = Len(f)
      /\ \A i \in 1..(last - 1) : f[i] # "#"
  BY EmptySeq, LenProperties DEF IsFilter
<1> HIDE DEF last
<1>2. topicMatches(f, t) <=>
        \/ \E i \in 1..last : f[i] = "#" /\ \A j \in 1..(i - 1) : Same(j)
        \/ last = Len(t) /\ \A i \in 1..last : Same(i)
  BY <1>1 DEF topicMatches
<1>3. CASE f[last] = "#"
  <2>1. BrokerMatches(f, t) <=>
          Len(t) >= last - 1 /\ \A i \in 1..(last - 1) : f[i] \in {"+", t[i]}
    BY <1>1, <1>3 DEF BrokerMatches
  <2>2. topicMatches(f, t) <=> \A j \in 1..(last - 1) : Same(j)
    <3>1. ASSUME NEW i \in 1..last, f[i] = "#" PROVE i = last
      <4>1. last \in Nat
        BY <1>1
      <4>2. i # last => i \in 1..(last - 1)
        BY <4>1
      <4> QED
        BY <1>1, <3>1, <4>2
    <3>2. last \in 1..last /\ \A j \in 1..(last - 1) : j \in 1..last
      BY <1>1
    <3> HIDE DEF Same
    <3> QED
      BY <1>2, <1>3, <3>1, <3>2
  <2>3. (\A j \in 1..(last - 1) : Same(j)) => Len(t) >= last - 1
    <3>1. CASE last = 1
      BY <1>1, <3>1
    <3>2. CASE last # 1
      <4>1. last - 1 \in 1..(last - 1)
        BY <1>1, <3>2
      <4> QED
        BY <1>1, <4>1
    <3> QED
      BY <3>1, <3>2
  <2> QED
    BY <1>1, <2>1, <2>2, <2>3
<1>4. CASE f[last] # "#"
  <2>1. BrokerMatches(f, t) <=>
          Len(t) = last /\ \A i \in 1..last : f[i] \in {"+", t[i]}
    BY <1>1, <1>4 DEF BrokerMatches
  <2>2. \A i \in 1..last : f[i] # "#"
    BY <1>1, <1>4
  <2> QED
    BY <1>1, <1>2, <2>1, <2>2
<1> QED
  BY <1>3, <1>4

\* A step keeps DeliveryInv if whatever it adds has a handler and a publisher.
LEMMA DeliveryKept ==
  ASSUME Types, DeliveryInv, UNCHANGED crashed,
         subs \subseteq subs', started \subseteq started',
         malformed \subseteq malformed',
         \A t \in Topics : sub'[t] # "new" => sub[t] # "new" \/ t \in subs',
         \A x \in Inbound : Kept(x) => Kept(x)' \/ Down' = {},
         \A p \in Down' : p.type = "PUBLISH" =>
                             p.of \in Inbound /\ (p \in Down \/ Kept(p.of)),
         ~crashed =>
           /\ session' \subseteq session \cup subs'
           /\ \A p \in Up' : p.type = "SUBSCRIBE" => p \in Up \/ p.of \in subs'
           /\ \A p \in Up' : p.type = "PUBACK" =>
                              p \in Up \/ p.of \in started' \cup malformed'
           /\ \A p \in Down' : p.type = "PUBLISH" =>
                                p \in Down \/ Handling(p.of) # {}
           /\ \A x \in Inbound : inbound'[x] = "owed" =>
                                  inbound[x] = "owed" \/ Handling(x) # {}
           /\ \A x \in Inbound : inbound'[x] = "acked" =>
                inbound[x] = "acked" \/ x \in started' \cup malformed'
  PROVE  DeliveryInv'
<1>1. \A x : Handling(x) # {} => Handling(x)' # {}
  BY DEF Handling
<1>2. \A p \in Down' : p.type = "PUBLISH" => Kept(p.of)'
  BY DEF DeliveryInv
<1> QED
  BY <1>1, <1>2 DEF DeliveryInv, AckedIsHandedOver

LEMMA DownIsInbound ==
  Types => \A p \in Down : p.type = "PUBLISH" => p.of \in Inbound
BY PacketTypes DEF Types, ToClient

LEMMA CallsKeepDelivery ==
  ASSUME Types, DeliveryInv, NEW m \in Calls, Register(m) \/ PublishStep(m)
  PROVE  DeliveryInv'
<1>1. UNCHANGED <<subVars, brokerVars, crashed, toClient>>
  BY DEF Register, PublishStep, Send, AckArrives, Retry, GiveUp, netVars
<1>2. \A p \in Up' : p \in Up \/ p.type = "PUBLISH"
  <2>1. Packet("PUBLISH", id[m], m) \in ToBroker
    BY DEF Packet, ToBroker, Types, TypeOK
  <2>2. CASE Write(Packet("PUBLISH", id[m], m))
    BY <2>1, <2>2, WriteEffect DEF Types, Packet
  <2>3. CASE UNCHANGED toBroker
    BY <2>3, SameWires
  <2> QED
    BY <2>2, <2>3
    DEF Register, PublishStep, Send, AckArrives, Retry, GiveUp, netVars
<1>3. UNCHANGED Down
  BY <1>1, SameWires
<1> QED
  BY <1>1, <1>2, <1>3, DownIsInbound, DeliveryKept
DEF Kept, subVars, brokerVars

LEMMA SubscribeKeepsDelivery ==
  ASSUME Types, DeliveryInv, NEW t \in Topics,
         Subscribe(t) \/ SubscribeReturns(t) \/ Replay(t)
  PROVE  DeliveryInv'
<1>1. /\ UNCHANGED <<started, brokerVars, crashed>> /\ Down' = Down
      /\ Up' = Up \/ Up' = Up \cup {Packet("SUBSCRIBE", NextID, t)}
  BY SubscribeAdds
<1>2. /\ subs \subseteq subs'
      /\ \A k \in Topics : sub'[k] # "new" => sub[k] # "new" \/ k \in subs'
      /\ Up' # Up => t \in subs'
  BY <1>1, SameWires DEF Subscribe, SubscribeReturns, Replay, Types, TypeOK, subVars, netVars,
         DeliveryInv
<1>3. \A p \in Up' : p \in Up \/ (p.type = "SUBSCRIBE" /\ p.of \in subs')
  BY <1>1, <1>2 DEF Packet
<1> QED
  BY <1>1, <1>2, <1>3, DownIsInbound, DeliveryKept DEF Kept, brokerVars

LEMMA ReadPublishKeepsDelivery ==
  ASSUME Types, DeliveryInv, ReadPublish
  PROVE  DeliveryInv'
<1> DEFINE x == Head(toClient).of
<1>1. /\ Head(toClient) \in Down /\ Head(toClient).type = "PUBLISH"
      /\ x \in Inbound
      /\ Down' \subseteq Down
      /\ Up' = IF Works THEN Up \cup {Packet("PUBACK", IdSpace, x)} ELSE Up
      /\ started' = IF x \notin malformed /\ Handling(x) # {}
                    THEN started \cup {x} ELSE started
      /\ UNCHANGED <<subs, sub, brokerVars, crashed>>
  BY ReadPublishAdds
<1>2. ~crashed => x \in started' \cup malformed
  BY <1>1 DEF DeliveryInv
<1> HIDE DEF x
<1>3. started \subseteq started'
  BY <1>1
<1>4. \A p \in Up' : p \in Up \/ (p.type = "PUBACK" /\ p.of = x)
  BY <1>1 DEF Packet
<1> QED
  BY <1>1, <1>2, <1>3, <1>4, DownIsInbound, DeliveryKept DEF Kept, brokerVars

LEMMA BrokerKeepsDelivery ==
  ASSUME Types, DeliveryInv, BrokerStep
  PROVE  DeliveryInv'
<1>1. UNCHANGED <<subs, sub, started, malformed, crashed>>
  BY DEF BrokerStep, BrokerTakes, BrokerSubscribes, BrokerIsAcked, BrokerRejects,
         BrokerSends, subVars, brokerVars
<1>3. CASE BrokerTakes
  <2> DEFINE p == Head(toBroker)
  <2>1. p \in ToBroker /\ p.type = "PUBLISH" /\ Up' \subseteq Up
    BY <1>3, TakeEffect DEF Types, BrokerTakes, BrokerReads
  <2>2. Packet("PUBACK", p.id, p.of) \in ToClient
    BY <2>1 DEF ToBroker, ToClient, Packet
  <2>3. Down' = Down \cup {Packet("PUBACK", p.id, p.of)}
    BY <1>3, <2>2, ReplyEffect DEF Types, BrokerTakes
  <2>4. \A q \in Down' : q \in Down \/ q.type = "PUBACK"
    BY <2>3 DEF Packet
  <2>5. UNCHANGED <<session, inbound>>
    BY <1>3 DEF BrokerTakes
  <2> HIDE DEF p
  <2> QED
    BY <1>1, <2>1, <2>4, <2>5, DownIsInbound, DeliveryKept DEF Kept
<1>4. CASE BrokerSubscribes
  <2>1. /\ Head(toBroker) \in Up /\ Head(toBroker).type = "SUBSCRIBE"
        /\ Up' \subseteq Up /\ UNCHANGED <<Down, inbound>>
        /\ session' = session \cup {Head(toBroker).of}
    BY <1>4, TakeEffect, SameWires DEF Types, BrokerSubscribes, BrokerReads
  <2>2. ~crashed => Head(toBroker).of \in subs
    BY <2>1 DEF DeliveryInv
  <2> QED
    BY <1>1, <2>1, <2>2, DownIsInbound, DeliveryKept DEF Kept
<1>5. CASE BrokerIsAcked
  <2> DEFINE x == Head(toBroker).of
  <2>1. /\ Head(toBroker) \in Up /\ Head(toBroker).type = "PUBACK"
        /\ Up' \subseteq Up /\ UNCHANGED <<Down, session>>
        /\ inbound' = [inbound EXCEPT ![x] = IF @ = "owed" THEN "acked" ELSE @]
    BY <1>5, TakeEffect, SameWires DEF Types, BrokerIsAcked, BrokerReads
  <2>2. ~crashed => x \in started \cup malformed
    BY <2>1 DEF DeliveryInv
  <2> HIDE DEF x
  <2>3. \A y \in Inbound :
          \/ inbound'[y] = inbound[y]
          \/ y = x /\ inbound[y] = "owed" /\ inbound'[y] = "acked"
    BY <2>1 DEF Types, TypeOK
  <2>4. \A y \in Inbound : Kept(y) => Kept(y)'
    BY <2>3 DEF Kept
  <2> QED
    BY <1>1, <2>1, <2>2, <2>3, <2>4, DownIsInbound, DeliveryKept DEF Kept
<1>6. CASE BrokerRejects
  <2>1. Up' = {} /\ UNCHANGED <<Down, session, inbound>>
    BY <1>6, DropEffect, SameWires DEF BrokerRejects, brokerVars
  <2> QED
    BY <1>1, <2>1, DownIsInbound, DeliveryKept DEF Kept
<1>7. CASE \E x \in Inbound : BrokerSends(x)
  <2>1. PICK x \in Inbound : BrokerSends(x)
    BY <1>7
  <2>2. Packet("PUBLISH", IdSpace, x) \in ToClient
    BY DEF Packet, ToClient
  <2>3. /\ Down' = Down \cup {Packet("PUBLISH", IdSpace, x)}
        /\ UNCHANGED <<Up, session, inbound>> /\ inbound[x] = "owed"
    BY <2>1, <2>2, ReplyEffect, SameWires DEF Types, BrokerSends
  <2>4. ~crashed => Handling(x) # {}
    BY <2>3 DEF DeliveryInv
  <2>5. \A p \in Down' : p \in Down \/ p.of = x
    BY <2>3 DEF Packet
  <2> QED
    BY <1>1, <2>3, <2>4, <2>5, DownIsInbound, DeliveryKept DEF Kept
<1> QED
  BY <1>3, <1>4, <1>5, <1>6, <1>7 DEF BrokerStep

\* Before a crash, what the broker keeps for the client has a handler there.
LEMMA OthersPublishKeepsDelivery ==
  ASSUME Types, DeliveryInv, NEW x \in Inbound, OthersPublish(x)
  PROVE  DeliveryInv'
<1>1. /\ inbound[x] = "new" /\ inbound'[x] \in {"owed", "forgotten"}
      /\ \A y \in Inbound \ {x} : inbound'[y] = inbound[y]
      /\ malformed \subseteq malformed'
      /\ UNCHANGED <<subs, sub, started, session, crashed, Up, Down>>
  BY SameWires DEF OthersPublish, subVars, netVars, Types, TypeOK
<1>2. ~crashed /\ inbound'[x] = "owed" => Handling(x) # {}
  <2> SUFFICES ASSUME ~crashed, inbound'[x] = "owed" PROVE Handling(x) # {}
    OBVIOUS
  <2>1. PICK t \in session : BrokerMatches(t, TopicOf[x])
    BY DEF OthersPublish, Types, TypeOK
  <2>2. t \in subs /\ t \in Topics
    BY <2>1 DEF DeliveryInv, Types, TypeOK
  <2>3. t \in Seq(STRING) /\ IsFilter(t) /\ TopicOf[x] \in Seq(STRING)
    BY <2>2, MqttAssumption
  <2> QED
    BY <2>1, <2>2, <2>3, MatchesAsBroker DEF Handling
<1>3. \A y \in Inbound : Kept(y) => Kept(y)'
  BY <1>1 DEF Kept
<1> QED
  BY <1>1, <1>2, <1>3, DownIsInbound, DeliveryKept DEF Kept

LEMMA OtherStepsKeepDelivery ==
  ASSUME Types, DeliveryInv,
         QuietStep \/ Connect \/ ReadPuback \/ Close \/ Cut
  PROVE  DeliveryInv'
<1>2. CASE QuietStep
  BY <1>2, QuietStepIsQuiet, DownIsInbound, DeliveryKept
    DEF Kept, subVars, brokerVars
<1>3. CASE Connect
  <2>1. Up' = {} /\ Down' = {} /\ UNCHANGED <<subVars, malformed, crashed>>
    BY <1>3, DropEffect DEF Connect
  <2>2. /\ session' \subseteq session
        /\ \A x \in Inbound : inbound'[x] \in {inbound[x], "forgotten"}
    BY <1>3 DEF Connect, SessionEnds
  <2> QED
    BY <2>1, <2>2, DeliveryKept DEF Kept, subVars
<1>4. CASE ReadPuback
  <2>1. Down' \subseteq Down /\ UNCHANGED <<Up, subVars, brokerVars, crashed>>
    BY <1>4, TakeEffect, SameWires DEF Types, ReadPuback, Reads
  <2> QED
    BY <2>1, DownIsInbound, DeliveryKept
    DEF Kept, subVars, brokerVars
<1>5. CASE Close
  <2>1. /\ Down' \subseteq Down /\ Up' \subseteq Up
        /\ UNCHANGED <<subVars, brokerVars, crashed>>
    BY <1>5, DropEffect, SameWires DEF Close, netVars
  <2> QED
    BY <2>1, DownIsInbound, DeliveryKept
    DEF Kept, subVars, brokerVars
<1>6. CASE Cut
  <2>1. /\ Down' \subseteq Down /\ Up' = {}
        /\ UNCHANGED <<subVars, brokerVars, crashed>>
    BY <1>6, CutEffect DEF Types, Cut
  <2> QED
    BY <2>1, DownIsInbound, DeliveryKept
    DEF Kept, subVars, brokerVars
<1> QED
  BY <1>2, <1>3, <1>4, <1>5, <1>6

LEMMA CrashKeepsDelivery ==
  ASSUME Types, DeliveryInv, Crash
  PROVE  DeliveryInv'
<1>1. /\ crashed' = TRUE /\ Down' = {}
      /\ sub' = [t \in Topics |-> "new"]
  BY DropEffect DEF Crash, brokerVars
<1> QED
  BY <1>1 DEF DeliveryInv

LEMMA DeliveryInvPreserved == Types /\ DeliveryInv /\ [Next]_vars => DeliveryInv'
<1> SUFFICES ASSUME Types, DeliveryInv, [Next]_vars PROVE DeliveryInv'
  OBVIOUS
<1>1. CASE UNCHANGED vars
  BY <1>1, SameWires DEF vars, subVars, netVars, brokerVars, DeliveryInv,
     AckedIsHandedOver, Handling, Kept
<1>2. CASE Next
  BY <1>2, CallsKeepDelivery, SubscribeKeepsDelivery, ReadPublishKeepsDelivery,
     BrokerKeepsDelivery, OthersPublishKeepsDelivery, OtherStepsKeepDelivery,
     CrashKeepsDelivery
  DEF Next, LoopStep, QuietStep
<1> QED
  BY <1>1, <1>2

LEMMA DeliveryInvHoldsInitially == Init => DeliveryInv
BY ToSetEmpty DEF Init, DeliveryInv, AckedIsHandedOver, Up, Down

\* What the broker need not send again has been handed over or does not decode,
\* unless the process died: no cut, failover or half-made subscription makes the
\* client acknowledge a message for which it has no handler.
THEOREM AcknowledgedIsHandedOver == Spec => []AckedIsHandedOver
<1>1. DeliveryInv => AckedIsHandedOver
  BY DEF DeliveryInv, AckedIsHandedOver
<1> QED
  BY <1>1, TypesHoldInitially, TypesPreserved, DeliveryInvHoldsInitially,
     DeliveryInvPreserved, PTL DEF Spec

-----------------------------------------------------------------------------
(* Subscriptions *)

\* Away from a replay and from reading a working connection nothing is claimed.
LEMMA SubscriptionKept ==
  ASSUME SubscriptionInv,
         UNCHANGED <<loop, connected, todo, subs, sub>>, up' => up,
         up' => \A t \in Topics : InForce(t) => InForce(t)',
         subs \subseteq Topics
  PROVE  SubscriptionInv'
BY DEF SubscriptionInv

LEMMA SubscribeKeepsSubscriptions ==
  ASSUME Types, DeliveryInv, SubscriptionInv, NEW t \in Topics,
         Subscribe(t) \/ SubscribeReturns(t) \/ Replay(t)
  PROVE  SubscriptionInv'
<1>1. /\ UNCHANGED <<up, brokerVars, conn, connected, loop>>
      /\ Up' = Up \/ (Works /\ Up' = Up \cup {Packet("SUBSCRIBE", NextID, t)})
      /\ Works /\ (Replay(t) \/ (SubscribeReturns(t) /\ connected)) =>
           Up' = Up \cup {Packet("SUBSCRIBE", NextID, t)}
  BY SubscribeAdds
<1>2. \A k \in Topics : InForce(k) => InForce(k)'
  BY <1>1 DEF InForce, brokerVars
<1>3. /\ Works /\ (Replay(t) \/ (SubscribeReturns(t) /\ connected)) => InForce(t)'
      /\ subs \subseteq Topics
  <2> DEFINE p == Packet("SUBSCRIBE", NextID, t)
  <2>1. p.type = "SUBSCRIBE" /\ p.of = t
    BY DEF Packet
  <2> HIDE DEF p
  <2>2. p \in Up' => InForce(t)'
    BY <2>1 DEF InForce
  <2> QED
    BY <1>1, <2>2 DEF p, Types, TypeOK
<1>4. loop \in {"replay", "reading"} /\ up => Works
  BY DEF Works, Types, TypeOK
<1>5. CASE Subscribe(t)
  <2>1. loop # "replay" /\ \A k \in Topics : sub'[k] = "done" => sub[k] = "done"
    BY <1>5 DEF Subscribe, Types, TypeOK
  <2> QED
    BY <1>1, <1>2, <2>1 DEF SubscriptionInv
<1>6. CASE SubscribeReturns(t)
  <2>1. /\ UNCHANGED <<subs, todo>>
        /\ \A k \in Topics \ {t} : sub'[k] = sub[k]
    BY <1>6 DEF SubscribeReturns, loopVars, Types, TypeOK
  <2> QED
    BY <1>1, <1>2, <1>3, <1>4, <1>6, <2>1 DEF SubscriptionInv
<1>7. CASE Replay(t)
  <2>1. UNCHANGED <<subs, sub>> /\ loop = "replay" /\ todo' = todo \ {t}
    BY <1>7 DEF Replay, subVars
  <2> QED
    BY <1>1, <1>2, <1>3, <1>4, <1>7, <2>1 DEF SubscriptionInv
<1> QED
  BY <1>5, <1>6, <1>7

\* The loop claims nothing until it announces, and what it replayed is all that
\* was subscribed.
LEMMA LoopKeepsSubscriptions ==
  ASSUME Types, DeliveryInv, SubscriptionInv, QuietStep \/ Connect
  PROVE  SubscriptionInv'
<1>1. CASE QuietStep
  <2>1. UNCHANGED <<subVars, up, Up, Down, brokerVars>>
    BY <1>1, QuietStepIsQuiet
  <2>2. /\ UNCHANGED <<subs, sub, up>> /\ subs \subseteq Topics
        /\ \A k \in Topics : InForce(k)' = InForce(k)
    BY <2>1 DEF InForce, subVars, brokerVars, Types, TypeOK
  <2>3. CASE EndReplay
    <3>1. /\ loop = "replay" /\ todo = {} /\ loop' = "reading"
          /\ UNCHANGED connected
      BY <2>3 DEF EndReplay
    <3>2. \A t \in Topics : sub[t] = "done" => t \in subs
      BY DEF DeliveryInv
    <3> QED
      BY <2>2, <3>1, <3>2 DEF SubscriptionInv
  <2>4. CASE StartReplay
    BY <2>2, <2>4 DEF StartReplay, SubscriptionInv
  <2>5. CASE Calm
    BY <2>2, <2>5 DEF Calm, SubscriptionInv, loopVars
  <2>6. CASE Dial \/ Stop \/ ConnectFails \/ Attach \/ Announce \/ ReadFails
    <3>1. /\ loop' \notin {"replay", "reading"}
          /\ loop' = "announced" => connected'
      BY <2>6 DEF Dial, Stop, ConnectFails, Attach, Announce, ReadFails
    <3> QED
      BY <3>1 DEF SubscriptionInv
  <2> QED
    BY <1>1, <2>3, <2>4, <2>5, <2>6 DEF QuietStep
<1>2. CASE Connect
  BY <1>2 DEF Connect, SubscriptionInv
<1> QED
  BY <1>1, <1>2

LEMMA OtherStepsKeepSubscriptions ==
  ASSUME Types, SubscriptionInv,
         \/ \E m \in Calls : Register(m) \/ PublishStep(m)
         \/ ReadPuback \/ ReadPublish \/ Close \/ Cut \/ Crash \/ BrokerStep
         \/ \E x \in Inbound : OthersPublish(x)
  PROVE  SubscriptionInv'
<1> USE SubscriptionKept
<1>1. subs \subseteq Topics
  BY DEF Types, TypeOK
<1>2. CASE \E m \in Calls : Register(m) \/ PublishStep(m)
  <2>1. PICK m \in Calls : Register(m) \/ PublishStep(m)
    BY <1>2
  <2>2. UNCHANGED <<loopVars, subVars, brokerVars, up>>
    BY <2>1 DEF Register, PublishStep, Send, AckArrives, Retry, GiveUp, netVars
  <2>3. Up \subseteq Up'
    <3>1. Packet("PUBLISH", id[m], m) \in ToBroker
      BY DEF Packet, ToBroker, Types, TypeOK
    <3>2. CASE Write(Packet("PUBLISH", id[m], m))
      BY <3>1, <3>2, WriteEffect DEF Types
    <3>3. CASE UNCHANGED toBroker
      BY <3>3, SameWires
    <3> QED
      BY <2>1, <3>2, <3>3
      DEF Register, PublishStep, Send, AckArrives, Retry, GiveUp, netVars
  <2> QED
    BY <1>1, <2>2, <2>3 DEF InForce, loopVars, subVars, brokerVars
<1>3. CASE ReadPuback
  <2>1. UNCHANGED <<loopVars, subVars, brokerVars, up, Up>>
    BY <1>3, SameWires DEF ReadPuback
  <2> QED
    BY <1>1, <2>1 DEF InForce, loopVars, subVars, brokerVars
<1>4. CASE ReadPublish
  <2>1. UNCHANGED <<loopVars, subs, sub, brokerVars, up>> /\ Up \subseteq Up'
    BY <1>4, ReadPublishAdds
  <2> QED
    BY <1>1, <2>1 DEF InForce, loopVars, brokerVars
<1>5. CASE Close
  <2>1. /\ UNCHANGED <<loop, connected, todo, subVars, brokerVars>>
        /\ ~up' \/ UNCHANGED <<up, Up>>
    BY <1>5, SameWires DEF Close, netVars
  <2>2. up' => up
    BY <1>5 DEF Close, netVars
  <2> QED
    BY <1>1, <2>1, <2>2 DEF InForce, subVars, brokerVars
<1>6. CASE Cut
  BY <1>1, <1>6 DEF Cut, loopVars, subVars
<1>7. CASE Crash
  BY <1>7 DEF Crash, SubscriptionInv
<1>8. CASE BrokerStep
  <2>1. UNCHANGED <<loopVars, subs, sub>> /\ (up' => up)
    BY <1>8 DEF BrokerStep, BrokerTakes, BrokerSubscribes, BrokerIsAcked,
                BrokerRejects, BrokerSends, BrokerReads, subVars
  <2>2. ASSUME up', NEW t \in Topics, InForce(t) PROVE InForce(t)'
    <3>1. CASE BrokerTakes \/ BrokerSubscribes \/ BrokerIsAcked
      <4>1. Up = {Head(toBroker)} \cup Up' /\ session \subseteq session'
        BY <3>1, TakeEffect
        DEF Types, BrokerTakes, BrokerSubscribes, BrokerIsAcked, BrokerReads
      <4>2. Head(toBroker).type = "SUBSCRIBE" => Head(toBroker).of \in session'
        BY <3>1 DEF BrokerTakes, BrokerSubscribes, BrokerIsAcked, BrokerReads
      <4> QED
        BY <2>2, <4>1, <4>2 DEF InForce
    <3>2. CASE BrokerRejects
      BY <2>2, <3>2 DEF BrokerRejects
    <3>3. CASE \E x \in Inbound : BrokerSends(x)
      <4>1. UNCHANGED <<session, Up>>
        BY <3>3, SameWires DEF BrokerSends
      <4> QED
        BY <2>2, <4>1 DEF InForce
    <3> QED
      BY <1>8, <3>1, <3>2, <3>3 DEF BrokerStep
  <2> QED
    BY <1>1, <2>1, <2>2 DEF loopVars
<1>9. CASE \E x \in Inbound : OthersPublish(x)
  <2>1. UNCHANGED <<loopVars, subVars, up, Up, session>>
    BY <1>9, SameWires DEF OthersPublish, netVars
  <2> QED
    BY <1>1, <2>1 DEF InForce, loopVars, subVars
<1> QED
  BY <1>2, <1>3, <1>4, <1>5, <1>6, <1>7, <1>8, <1>9

LEMMA SubscriptionInvPreserved ==
  Types /\ DeliveryInv /\ SubscriptionInv /\ [Next]_vars => SubscriptionInv'
<1> SUFFICES ASSUME Types, DeliveryInv, SubscriptionInv, [Next]_vars
             PROVE  SubscriptionInv'
  OBVIOUS
<1>1. CASE UNCHANGED vars
  <2>1. UNCHANGED <<loop, connected, todo, subs, sub, up, session, Up>>
    BY <1>1, SameWires DEF vars, loopVars, subVars, netVars, brokerVars
  <2> QED
    BY <2>1 DEF SubscriptionInv, InForce
<1>2. CASE Next
  BY <1>2, SubscribeKeepsSubscriptions, LoopKeepsSubscriptions,
     OtherStepsKeepSubscriptions
  DEF Next, LoopStep, QuietStep
<1> QED
  BY <1>1, <1>2

LEMMA SubscriptionInvHoldsInitially == Init => SubscriptionInv
BY DEF Init, SubscriptionInv

\* No topic falls between Subscribe, which stores it and then looks whether the
\* client is connected, and connectOnce, which connects and then walks the
\* topics: whenever a working connection is read, every subscription is made or
\* on its way.
THEOREM EverySubscriptionInForce == Spec => []SubscriptionsInForce
<1>1. SubscriptionInv => SubscriptionsInForce
  BY DEF SubscriptionInv, SubscriptionsInForce, InForce, Up, ToSet
<1> QED
  BY <1>1, TypesHoldInitially, TypesPreserved, DeliveryInvHoldsInitially,
     DeliveryInvPreserved, SubscriptionInvHoldsInitially,
     SubscriptionInvPreserved, PTL DEF Spec

-----------------------------------------------------------------------------
(* The client implements Bus *)

OnBus   == received \cup {x \in Inbound : inbound[x] # "new"}
Dropped == {x \in Inbound : inbound[x] = "forgotten"}
Answers == [e \in Calls \cup Inbound |->
              IF e \in Inbound THEN "none"
              ELSE CASE pub[e] = "ok" -> "nil"
                     [] pub[e] = "failed" -> "error"
                     [] OTHER -> "none"]

\* What a step of Bus is here.
LEMMA BusSteps ==
  ASSUME \/ UNCHANGED <<OnBus, Answers, started, Dropped>>
         \/ \E e \in Calls \cup Inbound :
              \/ /\ OnBus' = OnBus \cup {e}
                 /\ Dropped' \in {Dropped, Dropped \cup {e}}
                 /\ UNCHANGED <<Answers, started>>
              \/ /\ Answers[e] = "none"
                 /\ \/ e \in OnBus /\ Answers' = [Answers EXCEPT ![e] = "nil"]
                    \/ Answers' = [Answers EXCEPT ![e] = "error"]
                 /\ UNCHANGED <<OnBus, started, Dropped>>
              \/ /\ e \in OnBus \ Dropped /\ started' = started \cup {e}
                 /\ UNCHANGED <<OnBus, Answers, Dropped>>
         \/ \E events \in SUBSET (Calls \cup Inbound) :
              /\ events \subseteq OnBus /\ Dropped' = Dropped \cup events
              /\ UNCHANGED <<OnBus, Answers, started>>
  PROVE  [TheBus!BusNext]_(TheBus!busVars)
BY DEF TheBus!BusNext, TheBus!busVars, TheBus!Take, TheBus!Return, TheBus!HandOver,
       TheBus!Drop, OnBus, Answers, Dropped

LEMMA BusInitially == Init => TheBus!BusInit
BY MqttAssumption DEF Init, TheBus!BusInit

\* The answer of a call follows its progress.
LEMMA AnswerOf ==
  ASSUME Types, NEW m \in Calls, NEW v, pub' = [pub EXCEPT ![m] = v]
  PROVE  /\ Answers[m] = CASE pub[m] = "ok" -> "nil"
                          [] pub[m] = "failed" -> "error"
                          [] OTHER -> "none"
         /\ v = "ok" => Answers' = [Answers EXCEPT ![m] = "nil"]
         /\ v = "failed" => Answers' = [Answers EXCEPT ![m] = "error"]
         /\ v \notin {"ok", "failed"} /\ pub[m] \notin {"ok", "failed"} =>
              UNCHANGED Answers
<1>1. m \notin Inbound /\ m \in Calls \cup Inbound
  BY MqttAssumption
<1>2. pub'[m] = v /\ \A k \in Calls \ {m} : pub'[k] = pub[k]
  BY DEF Types, TypeOK
<1>3. Answers[m] = CASE pub[m] = "ok" -> "nil"
                     [] pub[m] = "failed" -> "error"
                     [] OTHER -> "none"
  BY <1>1 DEF Answers
<1>4. v = "ok" => Answers' = [Answers EXCEPT ![m] = "nil"]
  BY <1>1, <1>2 DEF Answers
<1>5. v = "failed" => Answers' = [Answers EXCEPT ![m] = "error"]
  BY <1>1, <1>2 DEF Answers
<1>6. v \notin {"ok", "failed"} /\ pub[m] \notin {"ok", "failed"} => UNCHANGED Answers
  BY <1>1, <1>2 DEF Answers
<1> QED
  BY <1>3, <1>4, <1>5, <1>6

LEMMA CallsImplementBus ==
  ASSUME Types, AckInv, NEW m \in Calls, Register(m) \/ PublishStep(m)
  PROVE  [TheBus!BusNext]_(TheBus!busVars)
<1> USE BusSteps
<1>1. UNCHANGED <<OnBus, started, Dropped>>
  BY DEF Register, PublishStep, Send, AckArrives, Retry, GiveUp, brokerVars,
         subVars, OnBus, Dropped
<1>2. CASE Register(m)
  <2>1. pub' = [pub EXCEPT ![m] = "registered"] /\ pub[m] = "new"
    BY <1>2 DEF Register
  <2> QED
    BY <1>1, <2>1, AnswerOf
<1>3. CASE Send(m)
  <2>1. pub[m] = "registered" /\ (\/ pub' = [pub EXCEPT ![m] = "sent"]
                                  \/ pub' = [pub EXCEPT ![m] = "failed"])
    BY <1>3 DEF Send
  <2>2. CASE pub' = [pub EXCEPT ![m] = "sent"]
    BY <1>1, <2>1, <2>2, AnswerOf
  <2>3. CASE pub' = [pub EXCEPT ![m] = "failed"]
    <3>1. Answers[m] = "none" /\ Answers' = [Answers EXCEPT ![m] = "error"]
      BY <2>1, <2>3, AnswerOf
    <3> QED
      BY <1>1, <3>1
  <2> QED
    BY <2>1, <2>2, <2>3
<1>4. CASE AckArrives(m)
  <2>1. /\ pub[m] \in {"sent", "resent"} /\ m \in woken
        /\ pub' = [pub EXCEPT ![m] = "ok"]
    BY <1>4 DEF AckArrives
  <2>2. m \in OnBus
    BY <2>1 DEF AckInv, OnBus
  <2>3. Answers[m] = "none" /\ Answers' = [Answers EXCEPT ![m] = "nil"]
    BY <2>1, AnswerOf
  <2> QED
    BY <1>1, <2>2, <2>3
<1>5. CASE Retry(m)
  <2>1. pub[m] = "sent" /\ pub' = [pub EXCEPT ![m] = "resent"]
    BY <1>5 DEF Retry
  <2> QED
    BY <1>1, <2>1, AnswerOf
<1>6. CASE GiveUp(m)
  <2>1. pub[m] = "resent" /\ pub' = [pub EXCEPT ![m] = "failed"]
    BY <1>6 DEF GiveUp
  <2>2. Answers[m] = "none" /\ Answers' = [Answers EXCEPT ![m] = "error"]
    BY <2>1, AnswerOf
  <2> QED
    BY <1>1, <2>2
<1> QED
  BY <1>2, <1>3, <1>4, <1>5, <1>6 DEF PublishStep

LEMMA BrokerImplementsBus ==
  ASSUME Types, BrokerStep \/ \E x \in Inbound : OthersPublish(x)
  PROVE  [TheBus!BusNext]_(TheBus!busVars)
<1> USE BusSteps
<1>1. UNCHANGED <<Answers, started>>
  BY DEF BrokerStep, BrokerTakes, BrokerSubscribes, BrokerIsAcked, BrokerRejects,
         BrokerSends, OthersPublish, pubVars, subVars, Answers
<1>2. CASE BrokerTakes
  <2>1. Head(toBroker).of \in Calls
    BY <1>2, TakeEffect DEF Types, BrokerTakes, BrokerReads, ToBroker
  <2>2. OnBus' = OnBus \cup {Head(toBroker).of} /\ UNCHANGED Dropped
    BY <1>2 DEF BrokerTakes, OnBus, Dropped
  <2> QED
    BY <1>1, <2>1, <2>2
<1>3. CASE BrokerIsAcked
  <2> DEFINE x == Head(toBroker).of
  <2>1. /\ inbound' = [inbound EXCEPT ![x] = IF @ = "owed" THEN "acked" ELSE @]
        /\ UNCHANGED received
    BY <1>3 DEF BrokerIsAcked
  <2> HIDE DEF x
  <2>2. \A y \in Inbound : /\ inbound'[y] = "new" <=> inbound[y] = "new"
                           /\ inbound'[y] = "forgotten" <=> inbound[y] = "forgotten"
    BY <2>1 DEF Types, TypeOK
  <2>3. UNCHANGED <<OnBus, Dropped>>
    BY <2>1, <2>2 DEF OnBus, Dropped
  <2> QED
    BY <1>1, <2>3
<1>4. CASE \E x \in Inbound : OthersPublish(x)
  <2>1. PICK x \in Inbound : OthersPublish(x)
    BY <1>4
  <2>2. /\ inbound[x] = "new" /\ inbound'[x] \in {"owed", "forgotten"}
        /\ \A y \in Inbound \ {x} : inbound'[y] = inbound[y]
        /\ UNCHANGED received
    BY <2>1 DEF OthersPublish, Types, TypeOK
  <2>3. OnBus' = OnBus \cup {x} /\ Dropped' \in {Dropped, Dropped \cup {x}}
    BY <2>2 DEF OnBus, Dropped
  <2> QED
    BY <1>1, <2>3
<1>5. CASE BrokerSubscribes \/ BrokerRejects \/ \E x \in Inbound : BrokerSends(x)
  BY <1>1, <1>5 DEF BrokerSubscribes, BrokerRejects, BrokerSends, brokerVars, OnBus,
       Dropped
<1> QED
  BY <1>2, <1>3, <1>4, <1>5 DEF BrokerStep

LEMMA ReadPublishImplementsBus ==
  ASSUME Types, DeliveryInv, ReadPublish
  PROVE  [TheBus!BusNext]_(TheBus!busVars)
<1> USE BusSteps
<1>1. /\ Head(toClient) \in Down /\ Head(toClient).type = "PUBLISH"
      /\ Head(toClient).of \in Inbound
      /\ started' \in {started, started \cup {Head(toClient).of}}
      /\ UNCHANGED <<pubVars, brokerVars>>
  BY ReadPublishAdds
<1>2. Head(toClient).of \in OnBus \ Dropped
  BY <1>1 DEF DeliveryInv, Kept, OnBus, Dropped
<1>3. UNCHANGED <<OnBus, Answers, Dropped>>
  BY <1>1 DEF pubVars, brokerVars, OnBus, Answers, Dropped
<1> QED
  BY <1>1, <1>2, <1>3

LEMMA OtherStepsImplementBus ==
  ASSUME Types,
         \/ \E t \in Topics : Subscribe(t) \/ SubscribeReturns(t) \/ Replay(t)
         \/ QuietStep \/ Connect \/ ReadPuback \/ Close \/ Cut \/ Crash
  PROVE  [TheBus!BusNext]_(TheBus!busVars)
<1> USE BusSteps
<1>1. UNCHANGED started
  <2>1. QuietStep => UNCHANGED started
    BY QuietStepIsQuiet DEF subVars
  <2> QED
    BY <2>1 DEF Subscribe, SubscribeReturns, Replay, Connect, ReadPuback, Close,
                Cut, Crash, subVars
<1>2. \/ UNCHANGED <<OnBus, Dropped>>
      \/ /\ UNCHANGED OnBus
         /\ \E events \in SUBSET (Calls \cup Inbound) :
              events \subseteq OnBus /\ Dropped' = Dropped \cup events
  <2>1. CASE Connect /\ SessionEnds
    <3> DEFINE events == {x \in Inbound : inbound[x] = "owed"}
    <3>1. \A x \in Inbound :
            inbound'[x] = IF inbound[x] = "owed" THEN "forgotten" ELSE inbound[x]
      BY <2>1 DEF SessionEnds
    <3>2. UNCHANGED OnBus
      BY <2>1, <3>1 DEF Connect, OnBus
    <3>3. events \subseteq OnBus /\ Dropped' = Dropped \cup events
      BY <3>1 DEF OnBus, Dropped
    <3> QED
      BY <3>2, <3>3
  <2>2. CASE ~(Connect /\ SessionEnds)
    <3>1. UNCHANGED <<received, inbound>>
      BY <2>2, QuietStepIsQuiet
      DEF Subscribe, SubscribeReturns, Replay, Connect, ReadPuback, Close, Cut,
          Crash, brokerVars
    <3> QED
      BY <3>1 DEF OnBus, Dropped
  <2> QED
    BY <2>1, <2>2
<1>3. Answers' = Answers
  <2>1. CASE Crash
    <3>1. \A m \in Calls : pub'[m] = IF Waiting(m) THEN "dead" ELSE pub[m]
      BY <2>1 DEF Crash
    <3> QED
      BY <3>1 DEF Answers, Waiting
  <2>2. CASE ~Crash
    <3>1. UNCHANGED pub
      BY <2>2, QuietStepIsQuiet
      DEF Subscribe, SubscribeReturns, Replay, Connect, ReadPuback, Close, Cut,
          pubVars
    <3> QED
      BY <3>1 DEF Answers
  <2> QED
    BY <2>1, <2>2
<1> QED
  BY <1>1, <1>2, <1>3

LEMMA StepsImplementBus ==
  Types /\ AckInv /\ DeliveryInv /\ [Next]_vars => [TheBus!BusNext]_(TheBus!busVars)
<1> SUFFICES ASSUME Types, AckInv, DeliveryInv, [Next]_vars
             PROVE  [TheBus!BusNext]_(TheBus!busVars)
  OBVIOUS
<1>1. CASE UNCHANGED vars
  BY <1>1, BusSteps
  DEF vars, pubVars, subVars, brokerVars, OnBus, Answers, Dropped
<1>2. CASE Next
  BY <1>2, CallsImplementBus, BrokerImplementsBus, ReadPublishImplementsBus,
     OtherStepsImplementBus
  DEF Next, LoopStep, QuietStep
<1> QED
  BY <1>1, <1>2

\* Whoever uses the client may think of it as a Bus: nil is never returned for
\* an event the bus has not got, and no handler is started with one that was
\* not published.
THEOREM ClientImplementsBus == Spec => ImplementsBus
<1> QED
  BY TypesHoldInitially, TypesPreserved, AckInvHoldsInitially, AckInvPreserved,
     DeliveryInvHoldsInitially, DeliveryInvPreserved, BusInitially,
     StepsImplementBus, PTL DEF Spec, ImplementsBus, TheBus!BusSpec

=============================================================================
