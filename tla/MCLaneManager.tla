--------------------------- MODULE MCLaneManager ---------------------------
(* Instances of LaneManager for TLC. *)
EXTENDS LaneManager, TLC

CONSTANTS h1, h2, lane1

TwoHandlers == {h1, h2}
OneLane     == {lane1}

\* Handlers are interchangeable; used for runs without liveness properties.
AnyHandler == Permutations(Handlers)
=============================================================================
