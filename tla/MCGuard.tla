------------------------------ MODULE MCGuard ------------------------------
(* Instances of Guard for TLC. *)
EXTENDS Guard

CONSTANTS c1, c2, c3

Three == {c1, c2, c3}

\* No call is still waited for when the cooldown ends, as with the 3 s of
\* raiseIntervention and the 10 s of DefaultConfig.
ASSUME DeadlineBeforeCooldown == Deadline < OpenTimeout
=============================================================================
