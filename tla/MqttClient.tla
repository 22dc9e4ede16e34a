----------------------------- MODULE MqttClient -----------------------------
(***************************************************************************)
(* internal/eventbus/mqtt.go: one MQTT client (connectionLoop, readLoop,   *)
(* Publish, Subscribe, Close) and, as its environment, a broker with a     *)
(* persistent session and a network that breaks.                           *)
(*                                                                         *)
(* A Publish call stands for its message.  Packets travel in order on one  *)
(* TCP connection; SUBACK, PINGREQ and PINGRESP, which change nothing, are *)
(* left out.  A write to a connection that is down gets lost or fails.     *)
(* Faults names the faults of the run:                                     *)
(*   "cut"      the connection breaks, with what was under way             *)
(*   "refuse"   a dial or a CONNECT fails                                  *)
(*   "failover" the next broker node does not know the session             *)
(*   "crash"    the process dies and is started again                      *)
(*   "close"    the client is closed                                       *)
(*   "garbage"  others publish what is not an Envelope                     *)
(***************************************************************************)
EXTENDS Naturals, Sequences, Wildcard

CONSTANTS
  Calls,      \* Publish calls
  Topics,     \* topic patterns the process subscribes to
  Inbound,    \* messages of other clients
  TopicOf,    \* the topics these are published on
  IdSpace,    \* number of packet ids, 2^16 in the code
  Faults

NoCall == "no call"

ASSUME MqttAssumption ==
  /\ \A t \in Topics : t \in Seq(STRING) /\ IsFilter(t)
  /\ TopicOf \in [Inbound -> Seq(STRING)]
  /\ IdSpace \in Nat \ {0}
  /\ Faults \subseteq {"cut", "refuse", "failover", "crash", "close",
                "garbage"}
  /\ NoCall \notin Calls /\ Calls \cap Inbound = {}

VARIABLES
  loop,        \* where connectionLoop is
  conn,        \* m.conn: nil, the newest connection or one that is gone
  connected,   \* m.connected
  closed,      \* m.closed
  nextID,      \* m.nextID
  pending,     \* m.pending: the call whose channel an id is mapped to
  subs,        \* topics in m.subs
  todo,        \* topics connectOnce has yet to subscribe to
  pub,         \* progress of each Publish call
  id,          \* its packet id
  woken,       \* calls whose channel is closed
  sub,         \* progress of each Subscribe call
  started,     \* history: inbound messages a handler was started with
  up,          \* the newest connection works
  toBroker,    \* packets under way on it
  toClient,
  session,     \* broker: topics the session is subscribed to
  received,    \* broker: published messages it has
  inbound,     \* broker: what became of each message for the session
  sent,        \* broker: messages sent on this connection
  malformed,   \* messages whose payload does not decode
  crashed,     \* history: the process died once
  calm         \* no fault occurs from here on

loopVars   == <<loop, conn, connected, closed, todo>>
pubVars    == <<pub, id, woken, pending>>
subVars    == <<subs, sub, started>>
netVars    == <<up, toBroker, toClient>>
brokerVars == <<session, received, inbound, sent, malformed>>
vars == <<loopVars, nextID, pubVars, subVars, netVars, brokerVars, crashed, calm>>

Ids == 0..(IdSpace - 1)

Packet(type, i, of) == [type |-> type, id |-> i, of |-> of]

May(fault) == ~calm /\ fault \in Faults

Init ==
  /\ loop = "top" /\ conn = "nil" /\ connected = FALSE /\ closed = FALSE
  /\ todo = {}
  /\ nextID = 0
  /\ pub = [m \in Calls |-> "new"] /\ id = [m \in Calls |-> 0] /\ woken = {}
  /\ pending = [i \in Ids |-> NoCall]
  /\ subs = {} /\ sub = [t \in Topics |-> "new"] /\ started = {}
  /\ up = FALSE /\ toBroker = <<>> /\ toClient = <<>>
  /\ session = {} /\ received = {} /\ sent = {} /\ malformed = {}
  /\ inbound = [x \in Inbound |-> "new"]
  /\ crashed = FALSE /\ calm = FALSE

\* A packet written to m.conn is under way only if that connection works.
Works == conn = "newest" /\ up

Write(p) == toBroker' = IF Works THEN Append(toBroker, p) ELSE toBroker

\* Mutant: the counter is wider than a packet id.
NextIDUncut == nextID + 1

NextID == (nextID + 1) % IdSpace

-----------------------------------------------------------------------------
(* Publish *)

Waiting(m) == pub[m] \in {"registered", "sent", "resent"}

(***************************************************************************)
(* Bound on the rate: an id comes round again only when the call that had  *)
(* it has returned and no packet carries it.  In the code 2^16 ids would   *)
(* have to be handed out within the ten seconds a call may take.           *)
(***************************************************************************)
Unused(i) ==
  /\ \A m \in Calls : Waiting(m) => id[m] # i
  /\ \A k \in DOMAIN toBroker : toBroker[k].id # i
  /\ \A k \in DOMAIN toClient : toClient[k].id # i

Register(m) ==
  /\ pub[m] = "new"
  /\ Unused(NextID)
  /\ nextID' = NextID
  /\ id' = [id EXCEPT ![m] = NextID]
  /\ pending' = [pending EXCEPT ![NextID] = m]
  /\ pub' = [pub EXCEPT ![m] = "registered"]
  /\ UNCHANGED <<loopVars, woken, subVars, netVars, brokerVars, crashed, calm>>

Send(m) ==
  /\ pub[m] = "registered"
  /\ \/ conn # "nil" /\ Write(Packet("PUBLISH", id[m], m))
        /\ pub' = [pub EXCEPT ![m] = "sent"]
     \/ ~Works /\ pub' = [pub EXCEPT ![m] = "failed"] /\ UNCHANGED toBroker
  /\ UNCHANGED <<loopVars, nextID, id, woken, pending, subVars, up, toClient,
                 brokerVars, crashed, calm>>

AckArrives(m) ==
  /\ pub[m] \in {"sent", "resent"}
  /\ m \in woken
  /\ pub' = [pub EXCEPT ![m] = "ok"]
  /\ UNCHANGED <<loopVars, nextID, id, woken, pending, subVars, netVars,
                 brokerVars, crashed, calm>>

\* Mutants: the retry takes an id of its own, which is not in pending; Publish
\* returns once the second write has succeeded.
RetryFreshID(m) ==
  /\ pub[m] = "sent" /\ Unused(NextID)
  /\ nextID' = NextID
  /\ Write(Packet("PUBLISH", NextID, m))
  /\ pub' = [pub EXCEPT ![m] = "resent"]
  /\ UNCHANGED <<loopVars, id, woken, pending, subVars, up, toClient,
                 brokerVars, crashed, calm>>

RetryReturnsNil(m) ==
  /\ pub[m] = "sent"
  /\ Write(Packet("PUBLISH", id[m], m))
  /\ pub' = [pub EXCEPT ![m] = "ok"]
  /\ UNCHANGED <<loopVars, nextID, id, woken, pending, subVars, up, toClient,
                 brokerVars, crashed, calm>>

\* PublishTimeout: one retry, with the id and the message of the first try.
Retry(m) ==
  /\ pub[m] = "sent"
  /\ Write(Packet("PUBLISH", id[m], m))
  /\ pub' = [pub EXCEPT ![m] = "resent"]
  /\ UNCHANGED <<loopVars, nextID, id, woken, pending, subVars, up, toClient,
                 brokerVars, crashed, calm>>

\* Mutant: the error of the second timeout is forgotten.
GiveUpReturnsNil(m) ==
  /\ pub[m] = "resent"
  /\ pub' = [pub EXCEPT ![m] = "ok"]
  /\ UNCHANGED <<loopVars, nextID, id, woken, pending, subVars, netVars,
                 brokerVars, crashed, calm>>

\* The second timeout leaves the entry in pending behind.
GiveUp(m) ==
  /\ pub[m] = "resent"
  /\ pub' = [pub EXCEPT ![m] = "failed"]
  /\ UNCHANGED <<loopVars, nextID, id, woken, pending, subVars, netVars,
                 brokerVars, crashed, calm>>

-----------------------------------------------------------------------------
(* Subscribe *)

\* connectOnce holds subsMu while it replays.
Subscribe(t) ==
  /\ sub[t] = "new"
  /\ loop # "replay"
  /\ subs' = subs \cup {t}
  /\ sub' = [sub EXCEPT ![t] = "stored"]
  /\ UNCHANGED <<loopVars, nextID, pubVars, started, netVars, brokerVars,
                 crashed, calm>>

sendSubscribe(t) ==
  /\ nextID' = NextID
  /\ Write(Packet("SUBSCRIBE", NextID, t))

SubscribeReturns(t) ==
  /\ sub[t] = "stored"
  /\ sub' = [sub EXCEPT ![t] = "done"]
  /\ IF connected THEN sendSubscribe(t) ELSE UNCHANGED <<nextID, toBroker>>
  /\ UNCHANGED <<loopVars, pubVars, subs, started, up, toClient, brokerVars,
                 crashed, calm>>

-----------------------------------------------------------------------------
(* connectionLoop and connectOnce *)

Dial ==
  /\ loop = "top" /\ ~closed
  /\ loop' = "dialing"
  /\ UNCHANGED <<conn, connected, closed, todo, nextID, pubVars, subVars,
                 netVars, brokerVars, crashed, calm>>

Stop ==
  /\ loop = "top" /\ closed
  /\ loop' = "stopped"
  /\ UNCHANGED <<conn, connected, closed, todo, nextID, pubVars, subVars,
                 netVars, brokerVars, crashed, calm>>

\* Mutant: the loop returns instead of trying again.
ConnectFailsStops ==
  /\ May("refuse")
  /\ loop = "dialing"
  /\ loop' = "stopped"
  /\ UNCHANGED <<conn, connected, closed, todo, nextID, pubVars, subVars,
                 netVars, brokerVars, crashed, calm>>

ConnectFails ==
  /\ May("refuse")
  /\ loop = "dialing"
  /\ loop' = "top"
  /\ UNCHANGED <<conn, connected, closed, todo, nextID, pubVars, subVars,
                 netVars, brokerVars, crashed, calm>>

\* The broker forgets the subscriptions and what it kept for them.
SessionEnds ==
  /\ session' = {}
  /\ inbound' = [x \in Inbound |->
                   IF inbound[x] = "owed" THEN "forgotten" ELSE inbound[x]]

\* Mutant: CONNECT asks for a clean session.
ConnectClean ==
  /\ loop = "dialing"
  /\ loop' = "connack"
  /\ conn' = IF conn = "nil" THEN "nil" ELSE "gone"
  /\ up' = TRUE /\ toBroker' = <<>> /\ toClient' = <<>>
  /\ sent' = {}
  /\ SessionEnds
  /\ UNCHANGED <<connected, closed, todo, nextID, pubVars, subVars, received,
                 malformed, crashed, calm>>

\* CONNACK: the broker resumes the session and sends again whatever it has
\* no PUBACK for.  A node that does not know the session starts an empty one.
Connect ==
  /\ loop = "dialing"
  /\ loop' = "connack"
  /\ conn' = IF conn = "nil" THEN "nil" ELSE "gone"
  /\ up' = TRUE /\ toBroker' = <<>> /\ toClient' = <<>>
  /\ sent' = {}
  /\ \/ UNCHANGED <<session, inbound>>
     \/ May("failover") /\ SessionEnds
  /\ UNCHANGED <<connected, closed, todo, nextID, pubVars, subVars, received,
                 malformed, crashed, calm>>

Attach ==
  /\ loop = "connack"
  /\ loop' = "attached"
  /\ conn' = "newest"
  /\ UNCHANGED <<connected, closed, todo, nextID, pubVars, subVars, netVars,
                 brokerVars, crashed, calm>>

Announce ==
  /\ loop = "attached"
  /\ loop' = "announced"
  /\ connected' = TRUE
  /\ UNCHANGED <<conn, closed, todo, nextID, pubVars, subVars, netVars,
                 brokerVars, crashed, calm>>

\* Mutant: the persistent session is trusted to know the topics.
StartReplayNothing ==
  /\ loop = "announced"
  /\ loop' = "replay"
  /\ UNCHANGED <<conn, connected, closed, todo, nextID, pubVars, subVars,
                 netVars, brokerVars, crashed, calm>>

StartReplay ==
  /\ loop = "announced"
  /\ loop' = "replay"
  /\ todo' = subs
  /\ UNCHANGED <<conn, connected, closed, nextID, pubVars, subVars, netVars,
                 brokerVars, crashed, calm>>

Replay(t) ==
  /\ loop = "replay"
  /\ t \in todo
  /\ todo' = todo \ {t}
  /\ sendSubscribe(t)
  /\ UNCHANGED <<loop, conn, connected, closed, pubVars, subVars, up, toClient,
                 brokerVars, crashed, calm>>

EndReplay ==
  /\ loop = "replay"
  /\ todo = {}
  /\ loop' = "reading"
  /\ UNCHANGED <<conn, connected, closed, todo, nextID, pubVars, subVars,
                 netVars, brokerVars, crashed, calm>>

-----------------------------------------------------------------------------
(* readLoop *)

Reads(type) ==
  /\ loop = "reading"
  /\ toClient # <<>>
  /\ Head(toClient).type = type
  /\ toClient' = Tail(toClient)

ReadPuback ==
  /\ Reads("PUBACK")
  /\ LET i == Head(toClient).id IN
       /\ woken' = IF pending[i] = NoCall THEN woken ELSE woken \cup {pending[i]}
       /\ pending' = [pending EXCEPT ![i] = NoCall]
  /\ UNCHANGED <<loopVars, nextID, pub, id, subVars, up, toBroker, brokerVars,
                 crashed, calm>>

\* The patterns whose handlers are started with x.
Handling(x) == {t \in subs : topicMatches(t, TopicOf[x])}

\* Mutant: a handler is called only after its Subscribe has returned.
ReadPublishIfSubscribed ==
  /\ Reads("PUBLISH")
  /\ LET x == Head(toClient).of IN
       /\ Write(Packet("PUBACK", IdSpace, x))
       /\ started' = IF /\ x \notin malformed
                        /\ \E t \in Handling(x) : sub[t] = "done"
                     THEN started \cup {x} ELSE started
  /\ UNCHANGED <<loopVars, nextID, pubVars, subs, sub, up, brokerVars, crashed,
                 calm>>

\* handlePublish acknowledges, then decodes, then starts the handlers: what
\* does not decode is acknowledged all the same.
ReadPublish ==
  /\ Reads("PUBLISH")
  /\ LET x == Head(toClient).of IN
       /\ Write(Packet("PUBACK", IdSpace, x))
       /\ started' = IF x \notin malformed /\ Handling(x) # {}
                     THEN started \cup {x} ELSE started
  /\ UNCHANGED <<loopVars, nextID, pubVars, subs, sub, up, brokerVars, crashed,
                 calm>>

\* What had arrived is read before the error is.
ReadFails ==
  /\ loop = "reading"
  /\ ~up /\ toClient = <<>>
  /\ loop' = "top"
  /\ connected' = FALSE
  /\ UNCHANGED <<conn, closed, todo, nextID, pubVars, subVars, netVars,
                 brokerVars, crashed, calm>>

Close ==
  /\ May("close")
  /\ ~closed
  /\ closed' = TRUE
  /\ IF conn = "newest"
     THEN up' = FALSE /\ toBroker' = <<>> /\ toClient' = <<>>
     ELSE UNCHANGED netVars
  /\ UNCHANGED <<loop, conn, connected, todo, nextID, pubVars, subVars,
                 brokerVars, crashed, calm>>

-----------------------------------------------------------------------------
(* The broker: external, as the client uses it *)

Reply(p) == toClient' = Append(toClient, p)

BrokerReads(type) ==
  /\ up
  /\ toBroker # <<>>
  /\ Head(toBroker).type = type
  /\ toBroker' = Tail(toBroker)

BrokerTakes ==
  /\ BrokerReads("PUBLISH")
  /\ LET p == Head(toBroker) IN
       /\ received' = received \cup {p.of}
       /\ Reply(Packet("PUBACK", p.id, p.of))
  /\ UNCHANGED <<loopVars, nextID, pubVars, subVars, up, session, inbound, sent,
                 malformed, crashed, calm>>

BrokerSubscribes ==
  /\ BrokerReads("SUBSCRIBE")
  /\ session' = session \cup {Head(toBroker).of}
  /\ UNCHANGED <<loopVars, nextID, pubVars, subVars, up, toClient, received,
                 inbound, sent, malformed, crashed, calm>>

\* A PUBACK for what the broker does not hold changes nothing.
BrokerIsAcked ==
  /\ BrokerReads("PUBACK")
  /\ inbound' = [inbound EXCEPT ![Head(toBroker).of] =
                   IF @ = "owed" THEN "acked" ELSE @]
  /\ UNCHANGED <<loopVars, nextID, pubVars, subVars, up, toClient, session,
                 received, sent, malformed, crashed, calm>>

\* MQTT forbids packet id 0, which the client uses once in IdSpace packets:
\* a strict broker closes the connection.
BrokerRejects ==
  /\ up
  /\ toBroker # <<>>
  /\ Head(toBroker).id = 0
  /\ up' = FALSE /\ toBroker' = <<>>
  /\ UNCHANGED <<loopVars, nextID, pubVars, subVars, toClient, brokerVars,
                 crashed, calm>>

\* A message the session does not want is kept for nobody.
OthersPublish(x) ==
  /\ inbound[x] = "new"
  /\ inbound' = [inbound EXCEPT ![x] =
                   IF \E t \in session : BrokerMatches(t, TopicOf[x])
                   THEN "owed" ELSE "forgotten"]
  /\ \/ UNCHANGED malformed
     \/ May("garbage") /\ malformed' = malformed \cup {x}
  /\ UNCHANGED <<loopVars, nextID, pubVars, subVars, netVars, session, received,
                 sent, crashed, calm>>

BrokerSends(x) ==
  /\ up
  /\ inbound[x] = "owed" /\ x \notin sent
  /\ sent' = sent \cup {x}
  /\ Reply(Packet("PUBLISH", IdSpace, x))
  /\ UNCHANGED <<loopVars, nextID, pubVars, subVars, up, toBroker, session,
                 received, inbound, malformed, crashed, calm>>

BrokerStep ==
  \/ BrokerTakes \/ BrokerSubscribes \/ BrokerIsAcked \/ BrokerRejects
  \/ \E x \in Inbound : BrokerSends(x)

-----------------------------------------------------------------------------
(* Faults *)

Cut ==
  /\ May("cut")
  /\ up
  /\ up' = FALSE /\ toBroker' = <<>>
  /\ \E k \in 0..Len(toClient) : toClient' = SubSeq(toClient, 1, k)
  /\ UNCHANGED <<loopVars, nextID, pubVars, subVars, brokerVars, crashed, calm>>

\* A new process knows nothing; the broker keeps the session.
Crash ==
  /\ May("crash") /\ ~crashed /\ ~closed
  /\ crashed' = TRUE
  /\ loop' = "top" /\ conn' = "nil" /\ connected' = FALSE /\ todo' = {}
  /\ nextID' = 0
  /\ pub' = [m \in Calls |-> IF Waiting(m) THEN "dead" ELSE pub[m]]
  /\ pending' = [i \in Ids |-> NoCall]
  /\ subs' = {} /\ sub' = [t \in Topics |-> "new"]
  /\ up' = FALSE /\ toBroker' = <<>> /\ toClient' = <<>>
  /\ UNCHANGED <<closed, id, woken, started, brokerVars, calm>>

Calm ==
  /\ ~calm
  /\ calm' = TRUE
  /\ UNCHANGED <<loopVars, nextID, pubVars, subVars, netVars, brokerVars,
                 crashed>>

-----------------------------------------------------------------------------

PublishStep(m) == Send(m) \/ AckArrives(m) \/ Retry(m) \/ GiveUp(m)

LoopStep ==
  \/ Dial \/ Stop \/ ConnectFails \/ Connect \/ Attach \/ Announce
  \/ StartReplay \/ (\E t \in Topics : Replay(t)) \/ EndReplay
  \/ ReadPuback \/ ReadPublish \/ ReadFails

Next ==
  \/ \E m \in Calls : Register(m) \/ PublishStep(m)
  \/ \E t \in Topics : Subscribe(t) \/ SubscribeReturns(t)
  \/ LoopStep \/ Close
  \/ BrokerStep \/ \E x \in Inbound : OthersPublish(x)
  \/ Cut \/ Crash \/ Calm

Spec == Init /\ [][Next]_vars

(***************************************************************************)
(* The goroutines of the client run, its timers fire, a connection that is *)
(* down is noticed (pingLoop keeps writing to it), and the broker reads    *)
(* and sends.  Nobody need publish or subscribe, and faults may go on.     *)
(***************************************************************************)
Fairness ==
  /\ \A m \in Calls : WF_vars(PublishStep(m))
  /\ \A t \in Topics : WF_vars(SubscribeReturns(t))
  /\ WF_vars(LoopStep) /\ WF_vars(BrokerStep)

FairSpec == Spec /\ Fairness

-----------------------------------------------------------------------------
(* Properties *)

TypeOK ==
  /\ loop \in {"top", "dialing", "connack", "attached", "announced", "replay",
               "reading", "stopped"}
  /\ conn \in {"nil", "gone", "newest"}
  /\ loop \in {"attached", "announced", "replay", "reading"} => conn = "newest"
  /\ connected \in BOOLEAN /\ closed \in BOOLEAN /\ crashed \in BOOLEAN
  /\ connected => conn # "nil"
  /\ todo \subseteq subs /\ subs \subseteq Topics
  /\ nextID \in Ids /\ id \in [Calls -> Ids]
  /\ pending \in [Ids -> Calls \cup {NoCall}]
  /\ pub \in [Calls -> {"new", "registered", "sent", "resent", "ok", "failed",
                        "dead"}]
  /\ sub \in [Topics -> {"new", "stored", "done"}]
  /\ woken \subseteq Calls /\ received \subseteq Calls
  /\ started \subseteq Inbound /\ sent \subseteq Inbound
  /\ malformed \subseteq Inbound
  /\ session \subseteq Topics
  /\ inbound \in [Inbound -> {"new", "owed", "acked", "forgotten"}]
  /\ up \in BOOLEAN /\ calm \in BOOLEAN
  /\ ~up => toBroker = <<>>

\* Publish returns nil only when the broker has this very message, through
\* retries, reconnects and ids that come round again (mqtt.go, 22-24).
AckMeansReceived == \A m \in Calls : pub[m] = "ok" => m \in received

\* An acknowledgement that is read wakes the call it answers, if that call is
\* still waiting, and no other call: nothing else has taken its entry in
\* pending, before or after the call gave up.
AckFindsCall ==
  [][ReadPuback =>
       LET m == Head(toClient).of IN
         /\ Waiting(m) => m \in woken'
         /\ woken' \subseteq woken \cup {m}]_vars

\* While the client reads a working connection, every topic whose Subscribe
\* call is over is in force or about to be: Subscribe, which stores and then
\* tests connected, and connectOnce, which sets it and then walks the topics,
\* cannot miss each other.
SubscriptionsInForce ==
  loop = "reading" /\ up =>
    \A t \in Topics :
      sub[t] = "done" =>
        \/ t \in session
        \/ \E k \in DOMAIN toBroker :
             toBroker[k].type = "SUBSCRIBE" /\ toBroker[k].of = t

\* A message the client acknowledged was handed to its handler, whatever
\* happened to connection and session, unless its payload does not decode;
\* only a process that died may have acknowledged in vain, or one that has not
\* subscribed again yet.
AckedIsHandedOver ==
  \A x \in Inbound :
    inbound[x] = "acked" => x \in started \cup malformed \/ crashed

\* A PUBACK for x is on its way to the broker.
Acknowledging(x) ==
  \E k \in DOMAIN toBroker : toBroker[k].type = "PUBACK" /\ toBroker[k].of = x

\* "QoS1 implementations should not ack until Handler returns nil"
\* (eventbus.go, 20-21): the message is with its handler by the time the
\* broker forgets it.
NotAckedUnhandled == \A x \in Inbound : inbound[x] = "acked" => x \in started

\* Once the network has calmed down, a subscribed topic is in force for good,
\* also at a broker that forgot the session or closes on packet id 0.
Resubscribes ==
  \A t \in Topics : t \in subs /\ calm ~> closed \/ [](t \in session)

\* A message the broker keeps for this client gets to its handler once things
\* are calm and the process has a handler for it, unless the payload does not
\* decode: no connection is left half-open or unread, no session is thrown away
\* and nothing is acknowledged and forgotten.  Excluded is only what a restarted
\* process has acknowledged before it subscribed again (NotAckedUnhandled).
QueuedIsHandedOver ==
  \A x \in Inbound :
    inbound[x] = "owed" /\ calm /\ Handling(x) # {} /\ ~Acknowledging(x)
      ~> closed \/ x \in started \cup malformed

\* The client is a Bus.
TheBus == INSTANCE Bus WITH
  Events <- Calls \cup Inbound,
  onBus  <- received \cup {x \in Inbound : inbound[x] # "new"},
  answer <- [e \in Calls \cup Inbound |->
               IF e \in Inbound THEN "none"
               ELSE CASE pub[e] = "ok" -> "nil"
                      [] pub[e] = "failed" -> "error"
                      [] OTHER -> "none"],
  handed <- started,
  dropped <- {x \in Inbound : inbound[x] = "forgotten"}
ImplementsBus == TheBus!BusSpec
=============================================================================
