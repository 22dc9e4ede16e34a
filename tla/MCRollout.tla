----------------------------- MODULE MCRollout -----------------------------
(* Instances of Rollout for TLC: one store early in the canary order, one  *)
(* late.                                                                   *)
EXTENDS Rollout, TLC

CONSTANTS early, late

Both        == {early, late}
BucketOf    == early :> 10 @@ late :> 80
One         == {early}
BucketOfOne == early :> 10
=============================================================================
