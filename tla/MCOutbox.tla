------------------------------ MODULE MCOutbox ------------------------------
(* Instances of Outbox for TLC. *)
EXTENDS Outbox, TLC

CONSTANTS e1, e2, e3

Two   == {e1, e2}
Three == {e1, e2, e3}
=============================================================================
