-------------------------------- MODULE Wire --------------------------------
(***************************************************************************)
(* internal/eventbus/mqtt_wire.go and the parsing of mqtt.go: packets as   *)
(* sequences of bytes.  A reader takes a sequence, the bytes that are      *)
(* still to come, and returns Failed or what it read and the rest.         *)
(***************************************************************************)
EXTENDS Integers, Sequences, FiniteSetsExt

CONNECT == 1
PUBLISH == 3
PUBACK  == 4
SUBSCRIBE == 8

Failed == [ok |-> FALSE]
Got(value, rest) == [ok |-> TRUE, value |-> value, rest |-> rest]

\* io.ReadFull
ReadFull(r, n) ==
  IF Len(r) < n THEN Failed
  ELSE Got(SubSeq(r, 1, n), SubSeq(r, n + 1, Len(r)))

-----------------------------------------------------------------------------
(* Numbers and strings *)

\* Mutant: the high byte is cut off.
Uint16Low(n) == <<0, n % 256>>

\* byte(n>>8), byte(n)
Uint16(n) == <<(n \div 256) % 256, n % 256>>

FromUint16(b) == 256 * b[1] + b[2]

writeString(buf, s) == buf \o Uint16(Len(s)) \o s

readString(r) ==
  LET l == ReadFull(r, 2)
  IN IF l.ok THEN ReadFull(l.rest, FromUint16(l.value)) ELSE Failed

\* What the k-th byte of a length counts, 128^(k - 1).
Weight == <<1, 128, 16384, 2097152, 268435456>>

Digit(n, k) == (n \div Weight[k]) % 128

\* Bound: lengths have at most five bytes, one more than is ever read.
encodeRemainingLength(n) ==
  LET size == Min({k \in 1..4 : n < Weight[k + 1]} \cup {5})
  IN [k \in 1..size |-> Digit(n, k) + (IF k < size THEN 128 ELSE 0)]

\* A fifth byte would make multiplier greater than 128*128*128.
MaxLengthBytes == 4

decodeRemainingLength(r) ==
  LET last == {k \in DOMAIN r : k <= MaxLengthBytes /\ r[k] < 128}
      size == Min(last)
      Counts(k) == IF k <= size THEN (r[k] % 128) * Weight[k] ELSE 0
  IN IF last = {} THEN Failed
     ELSE Got(Counts(1) + Counts(2) + Counts(3) + Counts(4),
              SubSeq(r, size + 1, Len(r)))

-----------------------------------------------------------------------------
(* Packets *)

writePacket(kind, flags, body) ==
  <<16 * kind + flags>> \o encodeRemainingLength(Len(body)) \o body

\* Mutant: what there is of a body is taken for all of it.
ReadBodyShort(r, n) ==
  IF Len(r) < n THEN Got(r, <<>>) ELSE ReadFull(r, n)

ReadBody(r, n) == ReadFull(r, n)

readPacket(r) ==
  IF r = <<>> THEN Failed
  ELSE LET n == decodeRemainingLength(Tail(r))
           body == IF n.ok THEN ReadBody(n.rest, n.value) ELSE Failed
       IN IF body.ok
          THEN Got([kind |-> r[1] \div 16, flags |-> r[1] % 16,
                    body |-> body.value], body.rest)
          ELSE Failed

buildConnect(clientID, keepAliveSec, cleanSession) ==
  writeString(writeString(<<>>, <<77, 81, 84, 84>>)
                \o <<4, IF cleanSession THEN 2 ELSE 0>> \o Uint16(keepAliveSec),
              clientID)

buildPublish(packetID, topic, payload, qos, dup) ==
  [flags |-> 2 * qos + (IF dup THEN 8 ELSE 0),
   body  |-> writeString(<<>>, topic)
               \o (IF qos > 0 THEN Uint16(packetID) ELSE <<>>) \o payload]

buildPuback(packetID) == Uint16(packetID)

buildSubscribe(packetID, topic, qos) ==
  writeString(Uint16(packetID), topic) \o <<qos>>

-----------------------------------------------------------------------------
(* mqtt.go *)

\* What handlePublish takes a packet for.
parsePublish(pkt) ==
  LET t    == readString(pkt.body)
      qos  == (pkt.flags \div 2) % 4
      acks == IF ~t.ok THEN Failed
              ELSE IF qos > 0 THEN ReadFull(t.rest, 2) ELSE Got(<<0, 0>>, t.rest)
  IN IF acks.ok
     THEN Got([topic |-> t.value, qos |-> qos, id |-> FromUint16(acks.value)],
              acks.rest)
     ELSE Failed

-----------------------------------------------------------------------------
(* Properties, of the inputs given *)

\* A remaining length is read as it was written, and no more bytes are taken,
\* at every length where the encoding grows by a byte.
LengthsSurvive(lengths) ==
  \A n \in lengths :
    decodeRemainingLength(encodeRemainingLength(n) \o <<1>>) = Got(n, <<1>>)

\* handlePublish gets back the topic, id and payload Publish put in, first try
\* and retry, for topics, ids and payloads at the limits of their fields.
PublishSurvives(ids, topics, payloads) ==
  \A i \in ids, t \in topics, y \in payloads, dup \in BOOLEAN :
    LET p == buildPublish(i, t, y, 1, dup)
        r == readPacket(writePacket(PUBLISH, p.flags, p.body))
    IN /\ r.ok /\ r.value.kind = PUBLISH /\ r.rest = <<>>
       /\ parsePublish(r.value) = Got([topic |-> t, qos |-> 1, id |-> i], y)

\* readLoop gets back the id buildPuback put in.
PubackSurvives(i) ==
  LET r == readPacket(writePacket(PUBACK, 0, buildPuback(i)))
  IN r.ok /\ FromUint16(r.value.body) = i

\* Wherever the connection breaks, readLoop gets the packets that had arrived
\* whole, in order, and never one that nobody wrote.
NoTornPacket(firsts, seconds) ==
  \A p \in firsts, q \in seconds :
    LET first  == writePacket(p.kind, p.flags, p.body)
        second == writePacket(q.kind, q.flags, q.body)
        stream == first \o second
    IN \A k \in 0..Len(stream) :
         LET got  == readPacket(SubSeq(stream, 1, k))
             next == readPacket(got.rest)
         IN IF k < Len(first) THEN got = Failed
            ELSE /\ got.ok /\ got.value = p
                 /\ next = IF k < Len(stream) THEN Failed ELSE Got(q, <<>>)
=============================================================================
