---------------------------- MODULE MCMqttClient ----------------------------
(* Instances of MqttClient for TLC. *)
EXTENDS MqttClient, Wire, TLC

CONSTANTS m1, m2, x1

\* What vertex-intervention subscribes to, and a pattern that overlaps it.
Requests   == Topic("store", <<"+">>, "requested")
Everything == <<"vertex", "store", "#">>

NoCalls   == {}
TwoCalls  == {m1, m2}
OneTopic  == {Requests}
TwoTopics == {Requests, Everything}
NoInbound  == {}
OneInbound == {x1}
TopicOfOne == x1 :> Topic("store", <<"lane">>, "requested")
NoTopicOf  == <<>>

-----------------------------------------------------------------------------
(* The packets under way as bytes *)

Bytes(n) == [i \in 1..n |-> (i + 60) % 256]

\* Ids over all of 16 bits; topics and payloads at the limits of their fields.
\* With a topic of 2 bytes, 121 and 122 are the payloads around 127 bytes, where
\* the length of a body takes a second byte.
Id16(i)  == (65535 \div IdSpace) * i
Names    == {Bytes(n) : n \in {1, 2, 255, 256}}
Payloads == {Bytes(n) : n \in {0, 1, 121, 122, 200}}

Understood ==
  [i \in 0..IdSpace |-> /\ PublishSurvives({Id16(i)}, Names, Payloads)
                        /\ PubackSurvives(Id16(i))]

\* The id, the topic and the payload of a packet are read as they were written,
\* first try and retry: no acknowledgement answers another call and no message
\* changes its topic because of the bits of an id or the length of a body.
WireIsUnderstood ==
  \A wire \in {toBroker, toClient} :
    \A k \in DOMAIN wire : Understood[wire[k].id]

Raw(kind, flags, body) == [kind |-> kind, flags |-> flags, body |-> body]

AsBytes ==
  [PUBACK    |-> {Raw(PUBACK, 0, buildPuback(258))},
   SUBSCRIBE |-> {Raw(SUBSCRIBE, 2, buildSubscribe(3, Bytes(4), 1))},
   PUBLISH   |-> {LET b == buildPublish(513, Bytes(2), Bytes(n), 1, n = 121)
                  IN Raw(PUBLISH, b.flags, b.body) : n \in {0, 121, 122}}]

Kinds == DOMAIN AsBytes
Unbroken ==
  [a \in Kinds |-> [b \in Kinds |-> NoTornPacket(AsBytes[a], AsBytes[b])]]

\* A connection that breaks anywhere in the bytes of two packets yields the
\* packets that had arrived whole and nothing else, as Cut has it.
CutLeavesWhole ==
  \A wire \in {toBroker, toClient} :
    \A k \in 1..(Len(wire) - 1) : Unbroken[wire[k].type][wire[k + 1].type]

\* Lengths survive up to 128^4 - 1, the longest body there is.
ASSUME LengthsAgree ==
  LengthsSurvive(0..300 \cup {16383, 16384, 2097151, 2097152, 268435455})

\* A CONNECT for client "=>?" is the packet of the MQTT standard: the protocol's
\* name, level 4, a session that is kept, 30 s.
ASSUME ConnectAgrees ==
  writePacket(CONNECT, 0, buildConnect(Bytes(3), 30, FALSE)) =
    <<16, 15, 0, 4, 77, 81, 84, 84, 4, 0, 0, 30, 0, 3, 61, 62, 63>>

\* Calls are interchangeable; used for runs without liveness properties.
AnyCall == Permutations(Calls)
=============================================================================
