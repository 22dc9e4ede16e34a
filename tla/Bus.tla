-------------------------------- MODULE Bus --------------------------------
(***************************************************************************)
(* What eventbus.Bus promises whoever publishes or subscribes: Publish     *)
(* returns nil only for an event the bus has, and a handler only ever sees *)
(* an event that was published.  An event may be taken although Publish    *)
(* returns an error, and an event that was taken may be dropped without    *)
(* anybody being told: no session wants it, or the node that had it in a   *)
(* session is gone.  A dropped event is not handed over from then on.      *)
(***************************************************************************)
CONSTANT Events

VARIABLES
  onBus,     \* events the bus has taken
  answer,    \* what the Publish call of an event has returned
  handed,    \* events some handler has been started with
  dropped    \* events the bus had and hands to nobody any more

busVars == <<onBus, answer, handed, dropped>>

BusInit ==
  /\ onBus = {}
  /\ answer = [e \in Events |-> "none"]
  /\ handed = {}
  /\ dropped = {}

Take(e) ==
  /\ onBus' = onBus \cup {e}
  /\ dropped' \in {dropped, dropped \cup {e}}
  /\ UNCHANGED <<answer, handed>>

Drop(events) ==
  /\ events \subseteq onBus
  /\ dropped' = dropped \cup events
  /\ UNCHANGED <<onBus, answer, handed>>

Return(e) ==
  /\ answer[e] = "none"
  /\ \/ e \in onBus /\ answer' = [answer EXCEPT ![e] = "nil"]
     \/ answer' = [answer EXCEPT ![e] = "error"]
  /\ UNCHANGED <<onBus, handed, dropped>>

HandOver(e) ==
  /\ e \in onBus \ dropped
  /\ handed' = handed \cup {e}
  /\ UNCHANGED <<onBus, answer, dropped>>

BusNext ==
  \/ \E e \in Events : Take(e) \/ Return(e) \/ HandOver(e)
  \/ \E events \in SUBSET Events : Drop(events)

BusSpec == BusInit /\ [][BusNext]_busVars
=============================================================================
