--------------------------- MODULE MCIntervention ---------------------------
(* Instances of Intervention for TLC. *)
EXTENDS Intervention, TLC

CONSTANTS d1, d2, a1, a2

TwoDeliveries == {d1, d2}
TwoCalls      == {a1, a2}

\* A lane, and an envelope without a lane id.
Lanes == d1 :> <<"lane">> @@ d2 :> <<"">>

\* Too light, and just within the tolerance.
SomeReadings ==
  {[expected |-> 500, observed |-> o, tolerance |-> 5] : o \in {474, 525}}
=============================================================================
