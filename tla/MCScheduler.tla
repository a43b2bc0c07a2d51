---------------------------- MODULE MCScheduler ----------------------------
(* Instances of Scheduler for TLC. *)
EXTENDS Scheduler

CONSTANTS t1, t2, t3

MixedPriorities == (t1 :> 1) @@ (t2 :> 1) @@ (t3 :> 2)
SpreadPriorities == (t1 :> 0) @@ (t2 :> 1) @@ (t3 :> 2)
LateNaps == {-1, 0, 1, 2}
=============================================================================
