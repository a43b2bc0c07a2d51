--------------------------- MODULE SemaphoreSpec ---------------------------
(***************************************************************************)
(* What synch.c promises of its semaphores, without ready lists, waiting   *)
(* lists or priorities: sema_down waits for the value to be positive and   *)
(* then atomically decrements it, sema_up increments it.                   *)
(***************************************************************************)
EXTENDS Naturals

CONSTANTS Threads, Semaphores, InitialValues

VARIABLES
  val,      \* the value of each semaphore
  pending   \* the <<thread, semaphore>> pairs of downs not completed

semaphoreVars == <<val, pending>>

Init == val = InitialValues /\ pending = {}

\* A thread enters sema_down and has to wait.
Wait(t, s) ==
  /\ \A x \in Semaphores : <<t, x>> \notin pending
  /\ val[s] = 0
  /\ pending' = pending \cup {<<t, s>>}
  /\ UNCHANGED val

\* A down succeeds at once, or one that waited does.
Take(s) ==
  /\ val[s] > 0
  /\ val' = [val EXCEPT ![s] = @ - 1]
  /\ UNCHANGED pending

TakeAfterWait(t, s) ==
  /\ <<t, s>> \in pending
  /\ val[s] > 0
  /\ val' = [val EXCEPT ![s] = @ - 1]
  /\ pending' = pending \ {<<t, s>>}

Increment(s) ==
  /\ val' = [val EXCEPT ![s] = @ + 1]
  /\ UNCHANGED pending

Next ==
  \E s \in Semaphores :
    \/ Take(s) \/ Increment(s)
    \/ \E t \in Threads : Wait(t, s) \/ TakeAfterWait(t, s)

Safety == Init /\ [][Next]_semaphoreVars

\* While threads wait for s and its value is positive, one of them gets it,
\* or somebody else takes the value first.
Served(s) ==
  (val[s] > 0 /\ \E t \in Threads : <<t, s>> \in pending)
    ~> (val[s] = 0 \/ \A t \in Threads : <<t, s>> \notin pending)

Promise == Safety /\ \A s \in Semaphores : Served(s)
=============================================================================
