------------------------------ MODULE Wildcard ------------------------------
(***************************************************************************)
(* internal/eventbus/wildcard.go and Topic of eventbus.go.  A topic or a   *)
(* pattern is the sequence of its segments, what strings.Split returns.    *)
(***************************************************************************)
EXTENDS Naturals, Sequences

\* The scheme of all topics; a lane id that contains "/" is several segments.
Topic(storeID, laneID, type) ==
  <<"vertex", storeID>> \o (IF laneID = <<"">> THEN <<"_">> ELSE laneID)
                        \o <<type>>

topicMatches(pattern, topic) ==
  LET Same(i) == i <= Len(topic) /\ pattern[i] \in {"+", topic[i]}
  IN \/ \E i \in DOMAIN pattern :
          pattern[i] = "#" /\ \A j \in 1..(i - 1) : Same(j)
     \/ /\ Len(pattern) = Len(topic)
        /\ \A i \in DOMAIN pattern : Same(i)

(***************************************************************************)
(* What the broker does, by the MQTT standard: a filter is a sequence of   *)
(* levels, "#" may only be the last and stands for any number of them.     *)
(***************************************************************************)
IsFilter(f) == f # <<>> /\ \A i \in 1..(Len(f) - 1) : f[i] # "#"

BrokerMatches(filter, topic) ==
  LET last  == Len(filter)
      open  == filter[last] = "#"
      named == IF open THEN last - 1 ELSE last
  IN /\ Len(topic) >= named
     /\ open \/ Len(topic) = named
     /\ \A i \in 1..named : filter[i] \in {"+", topic[i]}
=============================================================================
