------------------------------ MODULE MCSynch ------------------------------
(* Instances of Synch for TLC. *)
EXTENDS Synch

CONSTANTS t1, t2, t3, s1, l1, c1

MixedPriorities == (t1 :> 1) @@ (t2 :> 1) @@ (t3 :> 2)
OneEach == [s \in Sems |-> 0]
OneLock == [c \in Conds |-> l1]
=============================================================================
