---------------------------- MODULE SynchProofs ----------------------------
(***************************************************************************)
(* Semaphores, locks and condition variables on top of the scheduler are   *)
(* correct for any number of threads, semaphores, locks and conditions, in *)
(* both builds of the kernel, and the semaphores implement SemaphoreSpec.  *)
(***************************************************************************)
EXTENDS Synch, SchedulerProofs

USE SchedulerAssumption, SynchAssumption

\* The places of cond_wait between joining the waiters and being signalled, and
\* those at which arg is a lock the thread does not hold.
InCondWait == {"cond_release", "cond_sleep", "cond_down"}
ForLock == {"lock_down", "hold", "release", "cond_lock"} \cup InCondWait

\* What the call a thread is in is about.
ArgsAgree ==
  \A t \in Threads :
    /\ pc[t] = "down" => arg[t] \in Sems
    /\ pc[t] \in ForLock => arg[t] \in Locks /\ holder[arg[t]] # t
    /\ pc[t] = "broadcast" => arg[t] \in Conds

\* The waiters of a semaphore are the threads blocked in its sema_down, once
\* each and in the order of their priorities; sleepers are blocked elsewhere.
WaitersAgree ==
  /\ \A s \in Semaphores :
       IsLinkedOnce(waiters[s]) /\ IsOrdered(waiters[s], PriorityKey(priority))
  /\ \A t \in Threads : Contains(sleep_list, t) => pc[t] \notin Downing
  /\ \A t \in Threads : BlockedElsewhere(t) => pc[t] \in Downing
  /\ \A t \in Threads, s \in Semaphores :
       Contains(waiters[s], t)
         <=> status[t] = "blocked" /\ pc[t] \in Downing /\ s = Wanted(t)

\* A thread in cond_wait is among the waiters of one condition, or signalled.
Queued(t, c) == Contains(cond_waiters[c], t)
Unqueued(t) == \A c \in Conds : ~Queued(t, c)
Signalled(t) ==
  IF pc[t] \in InCondWait
    THEN \/ /\ value[t] = 0
            /\ \E c \in Conds : Queued(t, c) /\ \A d \in Conds : Queued(t, d) => d = c
         \/ value[t] = 1 /\ Unqueued(t)
    ELSE value[t] = 0 /\ Unqueued(t)
CondWaitersAgree ==
  /\ \A c \in Conds : IsLinkedOnce(cond_waiters[c])
  /\ \A t \in Threads : Signalled(t)

\* The inductive invariant.
SynchInv ==
  /\ CoreInv /\ SynchTypeOK /\ ArgsAgree /\ WaitersAgree
  /\ LockMutex /\ CondWaitersAgree /\ NoLostWakeup

----------------------------------------------------------------------------
\* What the operations of semaphores do to the scheduler.

\* Only the labels, the semaphores and the locks change.
LEMMA CoreFrame ==
  ASSUME CoreInv, Frame, UNCHANGED <<current, status, ready_list, thread_ticks>>
  PROVE  CoreInv'
BY DEF CoreInv, Frame, SchedStateOK, ReadyListAgrees, SleepListAgrees, ListsOrdered,
       WakeLoopDue

\* sema_down finds the value 0 and blocks.
LEMMA BlockStep ==
  ASSUME CoreInv, NEW t \in Threads, Running(t), BlockCPU, Frame
  PROVE  /\ CoreInv'
         /\ \A u \in Threads : status'[u] = "blocked" <=> u = t \/ status[u] = "blocked"
         /\ ~Contains(sleep_list, t) /\ status[t] = "running"
<1>1. /\ SchedStateOK /\ ReadyListAgrees /\ SleepListAgrees
      /\ ListsOrdered /\ WakeLoopDue
  BY DEF CoreInv
<1>2. /\ Switched(priority)
      /\ \A u \in Threads : status'[u] = "blocked" <=> u = t \/ status[u] = "blocked"
  BY <1>1, BlockLemma DEF Running
<1>3. status[t] = "running"
  BY <1>1 DEF ReadyListAgrees, Running, AllThreads
<1>4. SchedStateOK'
  BY <1>1, <1>2 DEF SchedStateOK, Switched, Frame
<1>5. ReadyListAgrees' /\ SleepListAgrees'
  BY <1>1, <1>2 DEF ReadyListAgrees, SleepListAgrees, Switched, Frame
<1>6. ListsOrdered' /\ WakeLoopDue'
  BY <1>1, <1>2 DEF ListsOrdered, WakeLoopDue, Switched, Frame
<1> QED
  BY <1>1, <1>2, <1>3, <1>4, <1>5, <1>6 DEF CoreInv, SleepListAgrees

\* sema_up wakes the first waiter and, in one build, yields.
LEMMA UpStep ==
  ASSUME CoreInv, NEW t \in Threads, Running(t), NEW s \in Semaphores,
         waiters \in [Semaphores -> Seq(Threads)],
         \A u \in Threads : Contains(waiters[s], u) => BlockedElsewhere(u),
         SemaUp(s), Frame
  PROVE  /\ CoreInv'
         /\ \A u \in Threads :
              status'[u] = "blocked"
                <=> status[u] = "blocked" /\ (waiters[s] = <<>> \/ u # Head(waiters[s]))
<1> DEFINE list == waiters[s]
           ready == IF list = <<>> THEN ready_list
                                   ELSE Enqueue(ready_list, Head(list), priority)
           stat == IF list = <<>> THEN status
                                  ELSE [status EXCEPT ![Head(list)] = "ready"]
<1>1. /\ SchedStateOK /\ ReadyListAgrees /\ SleepListAgrees
      /\ ListsOrdered /\ WakeLoopDue
  BY DEF CoreInv
<1>2. /\ current = t /\ isr = "none" /\ t # Idle
      /\ status \in [AllThreads -> {"running", "ready", "blocked"}]
      /\ priority \in [Threads -> 0..PriMax]
      /\ ready_list \in Seq(Threads) /\ IsLinkedOnce(ready_list)
      /\ IsOrdered(ready_list, PriorityKey(priority))
      /\ \A u \in AllThreads : status[u] = "running" <=> current = u
      /\ \A u \in Threads : status[u] = "ready" <=> Contains(ready_list, u)
  BY <1>1 DEF SchedStateOK, ReadyListAgrees, ListsOrdered, Running
<1>3. /\ ready \in Seq(Threads) /\ IsLinkedOnce(ready)
      /\ IsOrdered(ready, PriorityKey(priority))
      /\ stat \in [AllThreads -> {"running", "ready", "blocked"}]
      /\ \A u \in AllThreads : stat[u] = "running" <=> current = u
      /\ \A u \in Threads : stat[u] = "ready" <=> Contains(ready, u)
      /\ \A u \in Threads :
           stat[u] = "blocked" <=> status[u] = "blocked" /\ (list = <<>> \/ u # Head(list))
  <2>1. CASE list = <<>>
    BY <1>2, <2>1
  <2>2. CASE list # <<>>
    <3>1. Head(list) \in Threads /\ BlockedElsewhere(Head(list))
      <4>1. list \in Seq(Threads)
        OBVIOUS
      <4> QED
        BY <2>2, <4>1, PopFront
    <3>2. ~Contains(ready_list, Head(list)) /\ status[Head(list)] = "blocked"
      BY <1>2, <3>1 DEF BlockedElsewhere
    <3>3. /\ Enqueue(ready_list, Head(list), priority) \in Seq(Threads)
          /\ IsLinkedOnce(Enqueue(ready_list, Head(list), priority))
          /\ IsOrdered(Enqueue(ready_list, Head(list), priority), PriorityKey(priority))
          /\ \A u \in Threads : Contains(Enqueue(ready_list, Head(list), priority), u)
                                  <=> u = Head(list) \/ Contains(ready_list, u)
      BY <1>2, <3>1, <3>2, EnqueueLemma
    <3> HIDE DEF list
    <3> QED
      BY <1>2, <2>2, <3>1, <3>2, <3>3 DEF AllThreads
  <2> QED
    BY <2>1, <2>2
<1>4. IF UserProg
        THEN ready_list' = ready /\ status' = stat /\ UNCHANGED <<current, thread_ticks>>
        ELSE Schedule(Enqueue(ready, current, priority), [stat EXCEPT ![current] = "ready"])
  BY DEF SemaUp
<1> HIDE DEF ready, stat
<1>5. /\ current' \in AllThreads
      /\ status' \in [AllThreads -> {"running", "ready", "blocked"}]
      /\ ready_list' \in Seq(Threads) /\ thread_ticks' \in Nat
      /\ IsLinkedOnce(ready_list') /\ IsOrdered(ready_list', PriorityKey(priority))
      /\ \A u \in AllThreads : status'[u] = "running" <=> current' = u
      /\ \A u \in Threads : status'[u] = "ready" <=> Contains(ready_list', u)
      /\ \A u \in Threads : status'[u] = "blocked" <=> stat[u] = "blocked"
  <2>1. CASE UserProg
    BY <1>1, <1>3, <1>4, <2>1 DEF SchedStateOK
  <2>2. CASE ~UserProg
    <3> DEFINE again == Enqueue(ready, current, priority)
               yielded == [stat EXCEPT ![current] = "ready"]
    <3>1. current \in Threads /\ ~Contains(ready, current)
      BY <1>2, <1>3 DEF AllThreads
    <3>2. /\ again \in Seq(Threads) /\ IsLinkedOnce(again)
          /\ IsOrdered(again, PriorityKey(priority))
          /\ \A u \in Threads : Contains(again, u) <=> u = current \/ Contains(ready, u)
      BY <1>2, <1>3, <3>1, EnqueueLemma
    <3>3. /\ yielded \in [AllThreads -> {"running", "ready", "blocked"}]
          /\ \A u \in AllThreads : yielded[u] # "running"
          /\ \A u \in Threads : yielded[u] = "ready" <=> u = current \/ stat[u] = "ready"
          /\ \A u \in Threads : yielded[u] = "blocked" <=> stat[u] = "blocked"
      BY <1>2, <1>3, <3>1 DEF AllThreads
    <3> HIDE DEF again, yielded
    <3>4. Schedule(again, yielded)
      BY <1>4, <2>2 DEF again, yielded
    <3>5. \A u \in Threads : yielded[u] = "ready" <=> Contains(again, u)
      BY <1>3, <3>2, <3>3
    <3> QED
      BY <3>2, <3>3, <3>4, <3>5, ScheduleLemma
  <2> QED
    BY <2>1, <2>2
<1>6. SchedStateOK'
  BY <1>1, <1>5 DEF SchedStateOK, Frame
<1>7. ReadyListAgrees' /\ SleepListAgrees'
  <2>1. \A u \in Threads : Contains(sleep_list, u) => status'[u] = "blocked"
    <3> SUFFICES ASSUME NEW u \in Threads, Contains(sleep_list, u)
                 PROVE  status'[u] = "blocked"
      OBVIOUS
    <3>1. list # <<>> => BlockedElsewhere(Head(list))
      <4>1. list \in Seq(Threads)
        OBVIOUS
      <4> QED
        BY <4>1, PopFront
    <3> QED
      BY <1>1, <1>3, <1>5, <3>1 DEF SleepListAgrees, BlockedElsewhere
  <2> QED
    BY <1>1, <1>5, <2>1 DEF ReadyListAgrees, SleepListAgrees, Frame
<1>8. ListsOrdered' /\ WakeLoopDue'
  BY <1>1, <1>5 DEF ListsOrdered, WakeLoopDue, Frame
<1> QED
  BY <1>3, <1>5, <1>6, <1>7, <1>8 DEF CoreInv

----------------------------------------------------------------------------
\* The three things an operation can do to a semaphore, with what they do to the
\* statuses, and what they do to the waiters and the threads woken.

Takes(t, s, done) ==
  /\ value[s] > 0 /\ value' = [value EXCEPT ![s] = @ - 1]
  /\ UNCHANGED waiters /\ Returned(t, done)
  /\ \A u \in Threads : status'[u] = "blocked" <=> status[u] = "blocked"

Joins(t, s, loop) ==
  /\ value[s] = 0 /\ UNCHANGED value
  /\ waiters' = [waiters EXCEPT ![s] = InsertOrdered(@, t, PriorityKey(priority))]
  /\ Returned(t, loop)
  /\ \A u \in Threads : status'[u] = "blocked" <=> u = t \/ status[u] = "blocked"

Wakes(s) ==
  /\ value' = [value EXCEPT ![s] = @ + 1]
  /\ waiters' = [waiters EXCEPT ![s] = IF @ = <<>> THEN @ ELSE Tail(@)]
  /\ \A u \in Threads :
       status'[u] = "blocked"
         <=> status[u] = "blocked" /\ (waiters[s] = <<>> \/ u # Head(waiters[s]))

\* Only t's argument may change.
ArgOf(t) == \A u \in Threads : u # t => arg'[u] = arg[u]

LEMMA WokenFinite ==
  ASSUME NEW s
  PROVE  IsFiniteSet(Woken(s)) /\ Cardinality(Woken(s)) \in Nat
<1>1. Woken(s) \subseteq Threads
  BY DEF Woken
<1> QED
  BY <1>1, FS_Subset, FS_CardinalityType

\* As long as nobody leaves the woken threads of a semaphore, or its value is 0, its
\* waiters are not forgotten.
LEMMA WokenGrow ==
  ASSUME NEW s, NEW n \in Nat, n <= Cardinality(Woken(s)), Woken(s) \subseteq Woken(s)'
  PROVE  n <= Cardinality(Woken(s)')
<1>1. IsFiniteSet(Woken(s)')
  <2>1. Woken(s)' \subseteq Threads
    BY DEF Woken
  <2> QED
    BY <2>1, FS_Subset
<1>2. Cardinality(Woken(s)) <= Cardinality(Woken(s)')
  BY <1>1, FS_Subset
<1>3. Cardinality(Woken(s)) \in Nat /\ Cardinality(Woken(s)') \in Nat
  BY <1>1, WokenFinite, FS_CardinalityType
<1> QED
  BY <1>2, <1>3

LEMMA WokenLess ==
  ASSUME NEW s, NEW n \in Nat \ {0}, NEW t,
         n <= Cardinality(Woken(s)), Woken(s) \ {t} \subseteq Woken(s)'
  PROVE  n - 1 <= Cardinality(Woken(s)')
<1>1. IsFiniteSet(Woken(s)') /\ Cardinality(Woken(s)') \in Nat
  <2>1. Woken(s)' \subseteq Threads
    BY DEF Woken
  <2> QED
    BY <2>1, FS_Subset, FS_CardinalityType
<1>2. IsFiniteSet(Woken(s)) /\ Cardinality(Woken(s)) \in Nat
  BY WokenFinite
<1>3. /\ IsFiniteSet(Woken(s) \ {t})
      /\ Cardinality(Woken(s) \ {t}) =
           IF t \in Woken(s) THEN Cardinality(Woken(s)) - 1 ELSE Cardinality(Woken(s))
  BY <1>2, FS_RemoveElement
<1>4. Cardinality(Woken(s) \ {t}) <= Cardinality(Woken(s)')
  BY <1>1, FS_Subset
<1> QED
  BY <1>1, <1>2, <1>3, <1>4

LEMMA WokenMore ==
  ASSUME NEW s, NEW n \in Nat, NEW t, n <= Cardinality(Woken(s)), t \notin Woken(s),
         Woken(s) \cup {t} \subseteq Woken(s)'
  PROVE  n + 1 <= Cardinality(Woken(s)')
<1>1. IsFiniteSet(Woken(s)') /\ Cardinality(Woken(s)') \in Nat
  <2>1. Woken(s)' \subseteq Threads
    BY DEF Woken
  <2> QED
    BY <2>1, FS_Subset, FS_CardinalityType
<1>2. IsFiniteSet(Woken(s)) /\ Cardinality(Woken(s)) \in Nat
  BY WokenFinite
<1>3. Cardinality(Woken(s) \cup {t}) = Cardinality(Woken(s)) + 1
  BY <1>2, FS_AddElement
<1>4. Cardinality(Woken(s) \cup {t}) <= Cardinality(Woken(s)')
  BY <1>1, FS_Subset
<1> QED
  BY <1>2, <1>1, <1>3, <1>4

LEMMA TakesKeeps ==
  ASSUME SynchInv, NEW t \in Threads, Running(t), NEW s \in Semaphores, NEW done,
         done \notin Downing, pc[t] \in Downing => Wanted(t) = s,
         Takes(t, s, done), Frame, ArgOf(t)
  PROVE  WaitersAgree' /\ NoLostWakeup'
<1>1. /\ pc \in [AllThreads -> Labels \cup SynchLabels \cup {"hlt", "loop"}]
      /\ value \in [Semaphores -> Nat] /\ waiters \in [Semaphores -> Seq(Threads)]
      /\ WaitersAgree /\ NoLostWakeup
  BY DEF SynchInv, SynchTypeOK
<1>2. t \in AllThreads /\ status[t] = "running"
  BY DEF SynchInv, CoreInv, ReadyListAgrees, Running, AllThreads
<1>3. /\ pc'[t] = done /\ \A u \in Threads : u # t => pc'[u] = pc[u] /\ Wanted(u)' = Wanted(u)
  BY <1>1, <1>2 DEF Takes, Returned, ArgOf, Wanted, AllThreads
<1>4. WaitersAgree'
  <2>1. \A x \in Semaphores : IsLinkedOnce(waiters'[x]) /\ IsOrdered(waiters'[x], PriorityKey(priority'))
    BY <1>1 DEF WaitersAgree, Takes, Frame
  <2>2. \A u \in Threads : BlockedElsewhere(u)' <=> BlockedElsewhere(u)
    BY DEF BlockedElsewhere, Takes, Frame
  <2>3. status'[t] # "blocked" /\ ~Contains(sleep_list, t)
    BY <1>2 DEF Takes, SynchInv, CoreInv, SleepListAgrees
  <2>4. \A u \in Threads : /\ Contains(sleep_list', u) => pc'[u] \notin Downing
                           /\ BlockedElsewhere(u)' => pc'[u] \in Downing
    BY <1>1, <1>2, <1>3, <2>2, <2>3 DEF WaitersAgree, Frame, BlockedElsewhere
  <2>5. \A u \in Threads, x \in Semaphores :
          Contains(waiters'[x], u) <=> status'[u] = "blocked" /\ pc'[u] \in Downing /\ x = Wanted(u)'
    <3> SUFFICES ASSUME NEW u \in Threads, NEW x \in Semaphores
                 PROVE  Contains(waiters'[x], u)
                          <=> status'[u] = "blocked" /\ pc'[u] \in Downing /\ x = Wanted(u)'
      OBVIOUS
    <3>1. waiters' = waiters /\ (status'[u] = "blocked" <=> status[u] = "blocked")
      BY DEF Takes
    <3> QED
      BY <1>1, <1>2, <1>3, <2>3, <3>1 DEF WaitersAgree
  <2> QED
    BY <2>1, <2>4, <2>5 DEF WaitersAgree
<1>5. NoLostWakeup'
  <2> SUFFICES ASSUME NEW x \in Semaphores, waiters'[x] # <<>>
               PROVE  value'[x] <= Cardinality(Woken(x)')
    BY DEF NoLostWakeup
  <2>1. waiters[x] # <<>> /\ value[x] <= Cardinality(Woken(x)) /\ value[x] \in Nat
    BY <1>1 DEF NoLostWakeup, Takes
  <2>2. Woken(x) \ {t} \subseteq Woken(x)'
    BY <1>3 DEF Woken, Takes
  <2>3. CASE x = s
    <3>1. value[x] \in Nat \ {0} /\ value'[x] = value[x] - 1
      BY <1>1, <2>3 DEF Takes
    <3>2. value[x] - 1 <= Cardinality(Woken(x)')
      BY <2>1, <2>2, <3>1, WokenLess
    <3> QED
      BY <3>1, <3>2
  <2>4. CASE x # s
    <3>1. value'[x] = value[x]
      BY <1>1, <2>4 DEF Takes
    <3>2. t \notin Woken(x)
      BY <2>4 DEF Woken
    <3> QED
      BY <2>1, <2>2, <3>1, <3>2, WokenGrow
  <2> QED
    BY <2>3, <2>4
<1> QED
  BY <1>4, <1>5

LEMMA JoinsKeeps ==
  ASSUME SynchInv, NEW t \in Threads, Running(t), NEW s \in Semaphores, NEW loop \in Downing,
         pc[t] \in Downing => Wanted(t) = s,
         Joins(t, s, loop), Frame, ArgOf(t), Wanted(t)' = s
  PROVE  WaitersAgree' /\ NoLostWakeup' /\ waiters' \in [Semaphores -> Seq(Threads)]
<1>1. /\ pc \in [AllThreads -> Labels \cup SynchLabels \cup {"hlt", "loop"}]
      /\ value \in [Semaphores -> Nat] /\ waiters \in [Semaphores -> Seq(Threads)]
      /\ priority \in [Threads -> 0..PriMax]
      /\ WaitersAgree /\ NoLostWakeup
  BY DEF SynchInv, SynchTypeOK, SchedStateOK
<1>2. t \in AllThreads /\ status[t] = "running" /\ ~Contains(sleep_list, t)
  BY DEF SynchInv, CoreInv, ReadyListAgrees, Running, AllThreads, SleepListAgrees
<1>3. /\ pc'[t] = loop /\ \A u \in Threads : u # t => pc'[u] = pc[u] /\ Wanted(u)' = Wanted(u)
  BY <1>1, <1>2 DEF Joins, Returned, ArgOf, Wanted, AllThreads
<1> DEFINE res == InsertOrdered(waiters[s], t, PriorityKey(priority))
<1>4. /\ res \in Seq(Threads) /\ res # <<>>
      /\ \A u \in Threads : Contains(res, u) <=> u = t \/ Contains(waiters[s], u)
      /\ IsLinkedOnce(res) /\ IsOrdered(res, PriorityKey(priority))
  <2>1. /\ waiters[s] \in Seq(Threads) /\ PriorityKey(priority) \in [Threads -> Int]
        /\ IsLinkedOnce(waiters[s]) /\ IsOrdered(waiters[s], PriorityKey(priority))
        /\ ~Contains(waiters[s], t)
    BY <1>1, <1>2, PriorityKeyType DEF WaitersAgree
  <2> HIDE DEF res
  <2> QED
    BY <2>1, InsertOrderedMembers, InsertOrderedLinkedOnce, InsertOrderedOrdered, ZenonT(60) DEF res
<1> HIDE DEF res
<1>5. waiters' = [waiters EXCEPT ![s] = res]
  BY DEF Joins, res
<1>6. waiters' \in [Semaphores -> Seq(Threads)]
  BY <1>1, <1>4, <1>5
<1>7. \A x \in Semaphores : IsLinkedOnce(waiters'[x]) /\ IsOrdered(waiters'[x], PriorityKey(priority'))
  BY <1>1, <1>4, <1>5 DEF WaitersAgree, Frame
<1>8. \A u \in Threads : /\ Contains(sleep_list', u) => pc'[u] \notin Downing
                         /\ BlockedElsewhere(u)' => pc'[u] \in Downing
  BY <1>1, <1>2, <1>3 DEF WaitersAgree, Frame, BlockedElsewhere, Joins
<1>9. \A u \in Threads, x \in Semaphores :
        Contains(waiters'[x], u) <=> status'[u] = "blocked" /\ pc'[u] \in Downing /\ x = Wanted(u)'
  <2> SUFFICES ASSUME NEW u \in Threads, NEW x \in Semaphores
               PROVE  Contains(waiters'[x], u)
                        <=> status'[u] = "blocked" /\ pc'[u] \in Downing /\ x = Wanted(u)'
    OBVIOUS
  <2>1. status'[u] = "blocked" <=> u = t \/ status[u] = "blocked"
    BY DEF Joins
  <2>2. Contains(waiters'[x], u) <=> Contains(waiters[x], u) \/ (u = t /\ x = s)
    BY <1>1, <1>4, <1>5
  <2> QED
    BY <1>1, <1>2, <1>3, <2>1, <2>2 DEF WaitersAgree
<1>10. WaitersAgree'
  BY <1>7, <1>8, <1>9 DEF WaitersAgree
<1>11. NoLostWakeup'
  <2> SUFFICES ASSUME NEW x \in Semaphores, waiters'[x] # <<>>
               PROVE  value'[x] <= Cardinality(Woken(x)')
    BY DEF NoLostWakeup
  <2>1. value'[x] = value[x] /\ value[x] \in Nat
    BY <1>1 DEF Joins
  <2>2. CASE x = s
    <3>1. value'[x] = 0
      BY <2>1, <2>2 DEF Joins
    <3>2. Cardinality(Woken(x)') \in Nat
      <4>1. Woken(x)' \subseteq Threads
        BY DEF Woken
      <4> QED
        BY <4>1, FS_Subset, FS_CardinalityType
    <3> QED
      BY <3>1, <3>2
  <2>3. CASE x # s
    <3>1. waiters[x] # <<>> /\ value[x] <= Cardinality(Woken(x))
      BY <1>1, <1>5, <2>3 DEF NoLostWakeup
    <3>2. Woken(x) \subseteq Woken(x)'
      BY <1>3, <2>3 DEF Woken, Joins
    <3> QED
      BY <2>1, <3>1, <3>2, WokenGrow
  <2> QED
    BY <2>2, <2>3
<1> QED
  BY <1>6, <1>10, <1>11

LEMMA WakesKeeps ==
  ASSUME SynchInv, NEW s \in Semaphores, Wakes(s), Frame,
         \A u \in Threads : /\ pc'[u] \in Downing <=> pc[u] \in Downing
                            /\ pc[u] \in Downing => Wanted(u)' = Wanted(u)
  PROVE  WaitersAgree' /\ NoLostWakeup' /\ waiters' \in [Semaphores -> Seq(Threads)]
<1>1. /\ value \in [Semaphores -> Nat] /\ waiters \in [Semaphores -> Seq(Threads)]
      /\ WaitersAgree /\ NoLostWakeup
  BY DEF SynchInv, SynchTypeOK
<1> DEFINE list == waiters[s]
           res == IF list = <<>> THEN list ELSE Tail(list)
<1>2. waiters' = [waiters EXCEPT ![s] = res]
  BY DEF Wakes
<1>3. /\ res \in Seq(Threads) /\ IsLinkedOnce(res) /\ IsOrdered(res, PriorityKey(priority))
      /\ \A u \in Threads : Contains(res, u) <=> Contains(list, u) /\ (list = <<>> \/ u # Head(list))
      /\ list # <<>> => Head(list) \in Threads /\ Contains(list, Head(list))
  <2>1. list \in Seq(Threads) /\ IsLinkedOnce(list) /\ IsOrdered(list, PriorityKey(priority))
    BY <1>1 DEF WaitersAgree
  <2> HIDE DEF list
  <2>2. CASE list = <<>>
    BY <2>1, <2>2
  <2>3. CASE list # <<>>
    BY <2>1, <2>3, PopFront
  <2> QED
    BY <2>2, <2>3
<1> HIDE DEF list, res
<1>4. waiters' \in [Semaphores -> Seq(Threads)]
  BY <1>1, <1>2, <1>3
<1>5. \A u \in Threads :
        status'[u] = "blocked" <=> status[u] = "blocked" /\ (list = <<>> \/ u # Head(list))
  BY DEF Wakes, list
<1>6. \A x \in Semaphores : IsLinkedOnce(waiters'[x]) /\ IsOrdered(waiters'[x], PriorityKey(priority'))
  BY <1>1, <1>2, <1>3 DEF WaitersAgree, Frame
<1>7. \A u \in Threads : /\ Contains(sleep_list', u) => pc'[u] \notin Downing
                         /\ BlockedElsewhere(u)' => pc'[u] \in Downing
  BY <1>1, <1>5 DEF WaitersAgree, Frame, BlockedElsewhere
<1>8. \A u \in Threads, x \in Semaphores :
        Contains(waiters'[x], u) <=> status'[u] = "blocked" /\ pc'[u] \in Downing /\ x = Wanted(u)'
  <2> SUFFICES ASSUME NEW u \in Threads, NEW x \in Semaphores
               PROVE  Contains(waiters'[x], u)
                        <=> status'[u] = "blocked" /\ pc'[u] \in Downing /\ x = Wanted(u)'
    OBVIOUS
  <2>1. Contains(waiters'[x], u) <=>
          Contains(waiters[x], u) /\ (x = s => list = <<>> \/ u # Head(list))
    BY <1>1, <1>2, <1>3 DEF list
  <2>2. list # <<>> /\ u = Head(list) => pc[u] \in Downing /\ Wanted(u) = s
    BY <1>1, <1>3 DEF WaitersAgree, list
  <2> QED
    BY <1>1, <1>5, <2>1, <2>2 DEF WaitersAgree
<1>9. WaitersAgree'
  BY <1>6, <1>7, <1>8 DEF WaitersAgree
<1>10. NoLostWakeup'
  <2> SUFFICES ASSUME NEW x \in Semaphores, waiters'[x] # <<>>
               PROVE  value'[x] <= Cardinality(Woken(x)')
    BY DEF NoLostWakeup
  <2>1. Woken(x) \subseteq Woken(x)'
    BY <1>5 DEF Woken
  <2>2. CASE x = s
    <3>1. list # <<>> /\ value'[x] = value[x] + 1 /\ value[x] \in Nat
          /\ value[x] <= Cardinality(Woken(x))
      BY <1>1, <1>2, <2>2 DEF NoLostWakeup, Wakes, list, res
    <3>2. Head(list) \in Woken(x)' /\ Head(list) \notin Woken(x)
      BY <1>1, <1>3, <1>5, <2>2, <3>1 DEF Woken, WaitersAgree, list
    <3> QED
      BY <2>1, <3>1, <3>2, WokenMore
  <2>3. CASE x # s
    <3>1. waiters[x] # <<>> /\ value'[x] = value[x] /\ value[x] \in Nat
          /\ value[x] <= Cardinality(Woken(x))
      BY <1>1, <1>2, <2>3 DEF NoLostWakeup, Wakes
    <3> QED
      BY <2>1, <3>1, WokenGrow
  <2> QED
    BY <2>2, <2>3
<1> QED
  BY <1>4, <1>9, <1>10

\* A step that moves t's label and touches neither semaphores nor statuses.
Moves(t, label) ==
  /\ Returned(t, label) /\ UNCHANGED <<semVars, current, status, ready_list, thread_ticks>>

LEMMA MovesKeeps ==
  ASSUME SynchInv, NEW t \in Threads, Running(t), NEW label, label \notin Downing,
         pc[t] \notin Downing, Moves(t, label), Frame, ArgOf(t)
  PROVE  CoreInv' /\ WaitersAgree' /\ NoLostWakeup'
<1>1. /\ pc \in [AllThreads -> Labels \cup SynchLabels \cup {"hlt", "loop"}]
      /\ WaitersAgree /\ NoLostWakeup /\ CoreInv
  BY DEF SynchInv, SynchTypeOK
<1>2. \A u \in Threads : /\ pc'[u] \in Downing <=> pc[u] \in Downing
                         /\ pc[u] \in Downing => Wanted(u)' = Wanted(u)
  BY <1>1 DEF Moves, Returned, ArgOf, Wanted, AllThreads
<1>3. CoreInv'
  BY <1>1, CoreFrame DEF Moves
<1>4. WaitersAgree'
  BY <1>1, <1>2 DEF WaitersAgree, Moves, semVars, Frame, BlockedElsewhere
<1>5. \A s : Woken(s)' = Woken(s)
  BY <1>2 DEF Woken, Moves
<1>6. NoLostWakeup'
  BY <1>1, <1>5 DEF NoLostWakeup, Moves, semVars
<1> QED
  BY <1>3, <1>4, <1>6

\* sema_down, from the call or from its loop.
LEMMA DownKeeps ==
  ASSUME SynchInv, NEW t \in Threads, Running(t), NEW s \in Semaphores,
         NEW loop \in Downing, NEW done, done \notin Downing,
         pc[t] \in Downing => Wanted(t) = s,
         SemaDown(t, s, loop, done), Frame, ArgOf(t),
         s = IF loop = "cond_down" THEN t ELSE arg'[t]
  PROVE  /\ CoreInv' /\ WaitersAgree' /\ NoLostWakeup'
         /\ Takes(t, s, done) \/ Joins(t, s, loop)
         /\ waiters' \in [Semaphores -> Seq(Threads)]
<1>1. CASE value[s] > 0 /\ value' = [value EXCEPT ![s] = @ - 1] /\ Returned(t, done)
           /\ UNCHANGED <<waiters, current, status, ready_list, thread_ticks>>
  <2>1. Takes(t, s, done)
    BY <1>1 DEF Takes
  <2>2. WaitersAgree' /\ NoLostWakeup'
    BY <2>1, TakesKeeps
  <2>3. CoreInv' /\ waiters' \in [Semaphores -> Seq(Threads)]
    BY <1>1, CoreFrame DEF SynchInv, SynchTypeOK
  <2> QED
    BY <2>1, <2>2, <2>3
<1>2. CASE /\ value[s] = 0 /\ Returned(t, loop) /\ BlockCPU /\ UNCHANGED value
           /\ waiters' = [waiters EXCEPT ![s] = InsertOrdered(@, t, PriorityKey(priority))]
  <2>1. CoreInv' /\ \A u \in Threads : status'[u] = "blocked" <=> u = t \/ status[u] = "blocked"
    BY <1>2, BlockStep DEF SynchInv
  <2>2. Joins(t, s, loop)
    BY <1>2, <2>1 DEF Joins
  <2>3. Wanted(t)' = s
    BY <1>2 DEF Returned, Wanted, SynchInv, SynchTypeOK, AllThreads
  <2> QED
    BY <2>1, <2>2, <2>3, JoinsKeeps
<1> QED
  BY <1>1, <1>2 DEF SemaDown

\* sema_up.
LEMMA UpKeeps ==
  ASSUME SynchInv, NEW t \in Threads, Running(t), NEW s \in Semaphores, SemaUp(s), Frame,
         \A u \in Threads : /\ pc'[u] \in Downing <=> pc[u] \in Downing
                            /\ pc[u] \in Downing => Wanted(u)' = Wanted(u)
  PROVE  /\ CoreInv' /\ WaitersAgree' /\ NoLostWakeup' /\ Wakes(s)
         /\ waiters' \in [Semaphores -> Seq(Threads)]
<1>1. /\ waiters \in [Semaphores -> Seq(Threads)] /\ CoreInv
      /\ \A u \in Threads : Contains(waiters[s], u) => BlockedElsewhere(u)
  BY DEF SynchInv, SynchTypeOK, WaitersAgree, BlockedElsewhere
<1>2. CoreInv' /\ \A u \in Threads :
        status'[u] = "blocked"
          <=> status[u] = "blocked" /\ (waiters[s] = <<>> \/ u # Head(waiters[s]))
  BY <1>1, UpStep
<1>3. Wakes(s)
  BY <1>2 DEF Wakes, SemaUp
<1> QED
  BY <1>2, <1>3, WakesKeeps

----------------------------------------------------------------------------
\* What the steps do to the locks and to the conditions' waiters.

LEMMA LocksUntouched ==
  ASSUME LockMutex, \A l \in Locks : value'[l] = value[l],
         \A t \in Threads, l \in Locks : Inside(t, l)' <=> Inside(t, l)
  PROVE  LockMutex'
BY DEF LockMutex

LEMMA LockEntered ==
  ASSUME LockMutex, value \in [Semaphores -> Nat],
         NEW t \in Threads, NEW l \in Locks, value[l] > 0,
         value' = [value EXCEPT ![l] = @ - 1],
         \A u \in Threads, m \in Locks : Inside(u, m)' <=> Inside(u, m) \/ (u = t /\ m = l)
  PROVE  LockMutex'
<1>1. l \in Semaphores /\ value[l] = 1 /\ \A u \in Threads : ~Inside(u, l)
  BY DEF LockMutex, Semaphores
<1>2. value'[l] = 0 /\ \A m \in Locks : m # l => value'[m] = value[m]
  BY <1>1 DEF Semaphores
<1> QED
  BY <1>1, <1>2 DEF LockMutex

LEMMA LockLeft ==
  ASSUME LockMutex, value \in [Semaphores -> Nat],
         NEW t \in Threads, NEW l \in Locks, Inside(t, l),
         value' = [value EXCEPT ![l] = @ + 1],
         \A u \in Threads, m \in Locks : Inside(u, m)' <=> Inside(u, m) /\ ~(u = t /\ m = l)
  PROVE  LockMutex'
<1>1. l \in Semaphores /\ value[l] = 0 /\ \A u \in Threads : Inside(u, l) => u = t
  BY DEF LockMutex, Semaphores
<1>2. value'[l] = 1 /\ \A m \in Locks : m # l => value'[m] = value[m]
  BY <1>1 DEF Semaphores
<1> QED
  BY <1>1, <1>2 DEF LockMutex

LEMMA CondsUntouched ==
  ASSUME CondWaitersAgree, UNCHANGED cond_waiters,
         \A t \in Threads : /\ value'[t] = value[t]
                            /\ pc'[t] \in InCondWait <=> pc[t] \in InCondWait
  PROVE  CondWaitersAgree'
BY DEF CondWaitersAgree, Signalled, Unqueued, Queued

----------------------------------------------------------------------------
\* sema_down of a semaphore of Sems, of a lock's and of cond_wait's own.

LEMMA DownValue ==
  ASSUME value \in [Semaphores -> Nat], NEW t, NEW s \in Semaphores, NEW loop, NEW done,
         Takes(t, s, done) \/ Joins(t, s, loop)
  PROVE  /\ value' \in [Semaphores -> Nat]
         /\ \A x \in Semaphores : x # s => value'[x] = value[x]
<1>1. CASE Takes(t, s, done)
  <2>1. value[s] > 0 /\ value' = [value EXCEPT ![s] = @ - 1]
    BY <1>1 DEF Takes
  <2>2. value[s] - 1 \in Nat
    BY <2>1
  <2> QED
    BY <2>1, <2>2
<1>2. CASE Joins(t, s, loop)
  BY <1>2 DEF Joins
<1> QED
  BY <1>1, <1>2

LEMMA DownSema ==
  ASSUME SynchInv, NEW t \in Threads, Running(t), NEW s \in Sems,
         pc[t] \in {"user", "down"}, pc[t] = "down" => arg[t] = s,
         SemaDown(t, s, "down", "user"), arg' = [arg EXCEPT ![t] = s],
         Frame, UNCHANGED <<holder, cond_waiters>>
  PROVE  SynchInv'
<1>1. /\ SynchTypeOK /\ ArgsAgree /\ LockMutex /\ CondWaitersAgree
      /\ s \in Semaphores /\ s \notin Locks /\ s \notin Threads /\ ArgOf(t)
  BY DEF SynchInv, Semaphores, ArgOf, SynchTypeOK
<1>2. /\ CoreInv' /\ WaitersAgree' /\ NoLostWakeup'
      /\ Takes(t, s, "user") \/ Joins(t, s, "down")
      /\ waiters' \in [Semaphores -> Seq(Threads)]
  <2>1. /\ "down" \in Downing /\ "user" \notin Downing
        /\ pc[t] \in Downing => Wanted(t) = s
    BY DEF Downing, Wanted
  <2>2. s = IF "down" = "cond_down" THEN t ELSE arg'[t]
    BY <1>1 DEF SynchTypeOK
  <2> QED
    BY <1>1, <2>1, <2>2, DownKeeps
<1>3. /\ pc' \in [AllThreads -> Labels \cup SynchLabels \cup {"hlt", "loop"}]
      /\ pc'[t] \in {"user", "down"} /\ \A u \in Threads : u # t => pc'[u] = pc[u]
  <2>1. Returned(t, "user") \/ Returned(t, "down")
    BY <1>2 DEF Takes, Joins
  <2> QED
    BY <1>1, <2>1 DEF SynchTypeOK, Returned, AllThreads, Labels, SynchLabels, Downing
<1>4. /\ value' \in [Semaphores -> Nat]
      /\ \A x \in Semaphores : x # s => value'[x] = value[x]
  BY <1>1, <1>2, DownValue DEF SynchTypeOK
<1>5. SynchTypeOK'
  BY <1>1, <1>2, <1>3, <1>4 DEF SynchTypeOK, CoreInv
<1>6. ArgsAgree'
  BY <1>1, <1>3 DEF ArgsAgree, SynchTypeOK, ForLock, InCondWait
<1>7. LockMutex'
  <2>1. \A l \in Locks : value'[l] = value[l]
    BY <1>1, <1>4 DEF Semaphores
  <2>2. \A u \in Threads, l \in Locks : Inside(u, l)' <=> Inside(u, l)
    BY <1>1, <1>3 DEF Inside, SynchTypeOK
  <2> QED
    BY <1>1, <2>1, <2>2, LocksUntouched
<1>8. CondWaitersAgree'
  <2>1. \A u \in Threads : /\ value'[u] = value[u]
                           /\ pc'[u] \in InCondWait <=> pc[u] \in InCondWait
    BY <1>1, <1>3, <1>4 DEF Semaphores, InCondWait
  <2> QED
    BY <1>1, <2>1, CondsUntouched
<1> QED
  BY <1>2, <1>5, <1>6, <1>7, <1>8 DEF SynchInv

LEMMA DownLock ==
  ASSUME SynchInv, NEW t \in Threads, Running(t), NEW l \in Locks,
         pc[t] \in {"user", "lock_down", "cond_lock"}, holder[l] # t,
         pc[t] = "lock_down" => arg[t] = l,
         SemaDown(t, l, "lock_down", "hold"), arg' = [arg EXCEPT ![t] = l],
         Frame, UNCHANGED <<holder, cond_waiters>>
  PROVE  SynchInv'
<1>1. /\ SynchTypeOK /\ ArgsAgree /\ LockMutex /\ CondWaitersAgree
      /\ l \in Semaphores /\ l \notin Sems /\ l \notin Threads /\ ArgOf(t)
  BY DEF SynchInv, Semaphores, ArgOf, SynchTypeOK
<1>2. /\ CoreInv' /\ WaitersAgree' /\ NoLostWakeup'
      /\ Takes(t, l, "hold") \/ Joins(t, l, "lock_down")
      /\ waiters' \in [Semaphores -> Seq(Threads)]
  <2>1. /\ "lock_down" \in Downing /\ "hold" \notin Downing
        /\ pc[t] \in Downing => Wanted(t) = l
    BY DEF Downing, Wanted
  <2>2. l = IF "lock_down" = "cond_down" THEN t ELSE arg'[t]
    BY <1>1 DEF SynchTypeOK
  <2> QED
    BY <1>1, <2>1, <2>2, DownKeeps
<1>3. /\ pc' \in [AllThreads -> Labels \cup SynchLabels \cup {"hlt", "loop"}]
      /\ pc'[t] \in {"hold", "lock_down"} /\ \A u \in Threads : u # t => pc'[u] = pc[u]
  <2>1. Returned(t, "hold") \/ Returned(t, "lock_down")
    BY <1>2 DEF Takes, Joins
  <2> QED
    BY <1>1, <2>1 DEF SynchTypeOK, Returned, AllThreads, Labels, SynchLabels, Downing
<1>4. /\ value' \in [Semaphores -> Nat]
      /\ \A x \in Semaphores : x # l => value'[x] = value[x]
  BY <1>1, <1>2, DownValue DEF SynchTypeOK
<1>5. SynchTypeOK'
  BY <1>1, <1>2, <1>3, <1>4 DEF SynchTypeOK, CoreInv
<1>6. ArgsAgree'
  BY <1>1, <1>3 DEF ArgsAgree, SynchTypeOK, ForLock, InCondWait
<1>7. LockMutex'
  <2>1. CASE Takes(t, l, "hold")
    <3>1. pc'[t] = "hold" /\ arg'[t] = l /\ value[l] > 0
          /\ value' = [value EXCEPT ![l] = @ - 1]
      BY <1>1, <2>1 DEF Takes, Returned, SynchTypeOK, AllThreads
    <3>2. \A u \in Threads, m \in Locks : Inside(u, m)' <=> Inside(u, m) \/ (u = t /\ m = l)
      BY <1>1, <1>3, <3>1 DEF Inside, SynchTypeOK
    <3> QED
      BY <1>1, <3>1, <3>2, LockEntered, ZenonT(60) DEF SynchTypeOK
  <2>2. CASE Joins(t, l, "lock_down")
    <3>1. pc'[t] = "lock_down" /\ value' = value
      BY <1>1, <2>2 DEF Joins, Returned, SynchTypeOK, AllThreads
    <3>2. \A u \in Threads, m \in Locks : Inside(u, m)' <=> Inside(u, m)
      BY <1>1, <1>3, <3>1 DEF Inside, SynchTypeOK
    <3> QED
      BY <1>1, <3>1, <3>2, LocksUntouched
  <2> QED
    BY <1>2, <2>1, <2>2
<1>8. CondWaitersAgree'
  <2>1. \A u \in Threads : /\ value'[u] = value[u]
                           /\ pc'[u] \in InCondWait <=> pc[u] \in InCondWait
    BY <1>1, <1>3, <1>4 DEF Semaphores, InCondWait
  <2> QED
    BY <1>1, <2>1, CondsUntouched
<1> QED
  BY <1>2, <1>5, <1>6, <1>7, <1>8 DEF SynchInv

LEMMA DownCond ==
  ASSUME SynchInv, NEW t \in Threads, Running(t), pc[t] \in {"cond_sleep", "cond_down"},
         SemaDown(t, t, "cond_down", "cond_lock"),
         Frame, UNCHANGED <<holder, cond_waiters, arg>>
  PROVE  SynchInv'
<1>1. /\ SynchTypeOK /\ ArgsAgree /\ LockMutex /\ CondWaitersAgree
      /\ t \in Semaphores /\ t \notin Sems /\ t \notin Locks /\ ArgOf(t)
  BY DEF SynchInv, Semaphores, ArgOf
<1>2. /\ CoreInv' /\ WaitersAgree' /\ NoLostWakeup'
      /\ Takes(t, t, "cond_lock") \/ Joins(t, t, "cond_down")
      /\ waiters' \in [Semaphores -> Seq(Threads)]
  <2>1. /\ "cond_down" \in Downing /\ "cond_lock" \notin Downing
        /\ pc[t] \in Downing => Wanted(t) = t
    BY DEF Downing, Wanted
  <2>2. t = IF "cond_down" = "cond_down" THEN t ELSE arg'[t]
    BY <1>1 DEF SynchTypeOK
  <2> QED
    BY <1>1, <2>1, <2>2, DownKeeps
<1>3. /\ pc' \in [AllThreads -> Labels \cup SynchLabels \cup {"hlt", "loop"}]
      /\ pc'[t] \in {"cond_lock", "cond_down"}
      /\ \A u \in Threads : u # t => pc'[u] = pc[u]
  <2>1. Returned(t, "cond_lock") \/ Returned(t, "cond_down")
    BY <1>2 DEF Takes, Joins
  <2> QED
    BY <1>1, <2>1 DEF SynchTypeOK, Returned, AllThreads, Labels, SynchLabels, Downing
<1>4. /\ value' \in [Semaphores -> Nat]
      /\ \A x \in Semaphores : x # t => value'[x] = value[x]
  BY <1>1, <1>2, DownValue DEF SynchTypeOK
<1>5. SynchTypeOK'
  BY <1>1, <1>2, <1>3, <1>4 DEF SynchTypeOK, CoreInv
<1>6. ArgsAgree'
  BY <1>1, <1>3 DEF ArgsAgree, SynchTypeOK, ForLock, InCondWait
<1>7. LockMutex'
  <2>1. \A m \in Locks : value'[m] = value[m]
    BY <1>1, <1>4 DEF Semaphores
  <2>2. \A u \in Threads, m \in Locks : Inside(u, m)' <=> Inside(u, m)
    BY <1>1, <1>3 DEF Inside, SynchTypeOK
  <2> QED
    BY <1>1, <2>1, <2>2, LocksUntouched
<1>8. CondWaitersAgree'
  <2>1. CASE Takes(t, t, "cond_lock")
    <3>1. pc'[t] = "cond_lock" /\ value[t] > 0 /\ value'[t] = value[t] - 1
      BY <1>1, <2>1 DEF Takes, Returned, SynchTypeOK, AllThreads
    <3>2. value[t] = 1 /\ Unqueued(t)
      BY <1>1, <3>1 DEF CondWaitersAgree, Signalled, InCondWait
    <3>3. Signalled(t)'
      BY <3>1, <3>2 DEF Signalled, InCondWait, Unqueued, Queued
    <3>4. \A u \in Threads : u # t => Signalled(u)'
      BY <1>1, <1>3, <1>4 DEF CondWaitersAgree, Signalled, Unqueued, Queued, Semaphores
    <3> QED
      BY <1>1, <3>3, <3>4 DEF CondWaitersAgree
  <2>2. CASE Joins(t, t, "cond_down")
    <3>1. pc'[t] = "cond_down" /\ value' = value
      BY <1>1, <2>2 DEF Joins, Returned, SynchTypeOK, AllThreads
    <3>2. \A u \in Threads : /\ value'[u] = value[u]
                             /\ pc'[u] \in InCondWait <=> pc[u] \in InCondWait
      BY <1>3, <3>1 DEF InCondWait
    <3> QED
      BY <1>1, <3>2, CondsUntouched
  <2> QED
    BY <1>2, <2>1, <2>2
<1> QED
  BY <1>2, <1>5, <1>6, <1>7, <1>8 DEF SynchInv

LEMMA UpValue ==
  ASSUME value \in [Semaphores -> Nat], NEW s \in Semaphores, Wakes(s)
  PROVE  /\ value' \in [Semaphores -> Nat] /\ value'[s] = value[s] + 1
         /\ \A x \in Semaphores : x # s => value'[x] = value[x]
<1>1. value' = [value EXCEPT ![s] = @ + 1] /\ value[s] + 1 \in Nat
  BY DEF Wakes
<1> QED
  BY <1>1

\* The calls of a thread, one by one.

LEMMA UpInv ==
  ASSUME SynchInv, NEW t \in Threads, Up(t) PROVE SynchInv'
<1>1. PICK s \in Sems : SemaUp(s)
  BY DEF Up
<1>2. /\ SynchTypeOK /\ ArgsAgree /\ LockMutex /\ CondWaitersAgree
      /\ s \in Semaphores /\ s \notin Locks /\ s \notin Threads
  BY DEF SynchInv, Semaphores
<1>3. Running(t) /\ Frame /\ UNCHANGED <<pc, holder, cond_waiters, arg>>
  BY DEF Up, InUser
<1>4. /\ CoreInv' /\ WaitersAgree' /\ NoLostWakeup' /\ Wakes(s)
      /\ waiters' \in [Semaphores -> Seq(Threads)]
  BY <1>1, <1>2, <1>3, UpKeeps DEF Wanted
<1>5. /\ value' \in [Semaphores -> Nat] /\ \A x \in Semaphores : x # s => value'[x] = value[x]
  BY <1>2, <1>4, UpValue DEF SynchTypeOK
<1>6. SynchTypeOK'
  BY <1>2, <1>3, <1>4, <1>5 DEF SynchTypeOK, CoreInv
<1>7. ArgsAgree'
  BY <1>2, <1>3 DEF ArgsAgree
<1>8. LockMutex'
  <2>1. \A l \in Locks : value'[l] = value[l]
    BY <1>2, <1>5 DEF Semaphores
  <2>2. \A u \in Threads, l \in Locks : Inside(u, l)' <=> Inside(u, l)
    BY <1>3 DEF Inside
  <2> QED
    BY <1>2, <2>1, <2>2, LocksUntouched
<1>9. CondWaitersAgree'
  <2>1. \A u \in Threads : /\ value'[u] = value[u]
                           /\ pc'[u] \in InCondWait <=> pc[u] \in InCondWait
    BY <1>2, <1>3, <1>5 DEF Semaphores
  <2> QED
    BY <1>2, <1>3, <2>1, CondsUntouched
<1> QED
  BY <1>4, <1>6, <1>7, <1>8, <1>9 DEF SynchInv

LEMMA ReleaseUpInv ==
  ASSUME SynchInv, NEW t \in Threads, ReleaseUp(t) PROVE SynchInv'
<1>1. /\ SynchTypeOK /\ ArgsAgree /\ LockMutex /\ CondWaitersAgree
  BY DEF SynchInv
<1>2. /\ Running(t) /\ Frame /\ UNCHANGED <<holder, cond_waiters, arg>> /\ SemaUp(arg[t])
      /\ \/ pc[t] = "release" /\ Returned(t, "user")
         \/ pc[t] = "cond_release" /\ Returned(t, "cond_sleep")
  BY DEF ReleaseUp
<1>3. PICK l \in Locks : l = arg[t] /\ SemaUp(l) /\ holder[l] # t /\ Inside(t, l)
  <2>1. arg[t] \in Locks /\ holder[arg[t]] # t /\ Inside(t, arg[t])
    BY <1>1, <1>2 DEF ArgsAgree, ForLock, InCondWait, Inside
  <2> QED
    BY <1>2, <2>1
<1>4. l \in Semaphores /\ l \notin Threads
  BY <1>3 DEF Semaphores
<1>5. /\ pc' \in [AllThreads -> Labels \cup SynchLabels \cup {"hlt", "loop"}]
      /\ \/ pc[t] = "release" /\ pc'[t] = "user"
         \/ pc[t] = "cond_release" /\ pc'[t] = "cond_sleep"
      /\ \A u \in Threads : u # t => pc'[u] = pc[u]
  BY <1>1, <1>2 DEF SynchTypeOK, Returned, AllThreads, Labels, SynchLabels
<1>6. /\ CoreInv' /\ WaitersAgree' /\ NoLostWakeup' /\ Wakes(l)
      /\ waiters' \in [Semaphores -> Seq(Threads)]
  <2>1. \A u \in Threads : /\ pc'[u] \in Downing <=> pc[u] \in Downing
                           /\ pc[u] \in Downing => Wanted(u)' = Wanted(u)
    BY <1>2, <1>5 DEF Wanted, Downing
  <2> QED
    BY <1>2, <1>3, <1>4, <2>1, UpKeeps
<1>7. /\ value' \in [Semaphores -> Nat] /\ \A x \in Semaphores : x # l => value'[x] = value[x]
      /\ value' = [value EXCEPT ![l] = @ + 1]
  BY <1>1, <1>4, <1>6, UpValue DEF SynchTypeOK, Wakes
<1>8. SynchTypeOK'
  BY <1>1, <1>2, <1>5, <1>6, <1>7 DEF SynchTypeOK, CoreInv
<1>9. ArgsAgree'
  BY <1>1, <1>2, <1>5 DEF ArgsAgree, ForLock, InCondWait
<1>10. LockMutex'
  <2>1. \A u \in Threads, m \in Locks : Inside(u, m)' <=> Inside(u, m) /\ ~(u = t /\ m = l)
    BY <1>2, <1>3, <1>5 DEF Inside
  <2>2. value \in [Semaphores -> Nat] /\ Inside(t, l) /\ value' = [value EXCEPT ![l] = @ + 1]
    BY <1>1, <1>3, <1>7 DEF SynchTypeOK
  <2> QED
    BY <1>1, <2>1, <2>2, LockLeft
<1>11. CondWaitersAgree'
  <2>1. \A u \in Threads : /\ value'[u] = value[u]
                           /\ pc'[u] \in InCondWait <=> pc[u] \in InCondWait
    BY <1>4, <1>5, <1>7 DEF Semaphores, InCondWait
  <2> QED
    BY <1>1, <1>2, <2>1, CondsUntouched
<1> QED
  BY <1>6, <1>8, <1>9, <1>10, <1>11 DEF SynchInv

\* The body of cond_signal, called by t, which is in it or in cond_broadcast.
LEMMA SignalFrontInv ==
  ASSUME SynchInv, NEW t \in Threads, Running(t), NEW c \in Conds, SignalFront(c),
         Frame, UNCHANGED <<pc, holder, arg>>
  PROVE  SynchInv'
<1> DEFINE list == cond_waiters[c]
<1>1. /\ SynchTypeOK /\ ArgsAgree /\ LockMutex /\ CondWaitersAgree
  BY DEF SynchInv
<1>2. /\ list \in Seq(Threads) /\ list # <<>> /\ IsLinkedOnce(list)
      /\ cond_waiters' = [cond_waiters EXCEPT ![c] = Tail(list)] /\ SemaUp(Head(list))
  BY <1>1 DEF SignalFront, SynchTypeOK, CondWaitersAgree
<1>3. PICK h \in Threads :
        /\ h = Head(list) /\ Tail(list) \in Seq(Threads) /\ Contains(list, h)
        /\ \A u : Contains(list, u) <=> u = h \/ Contains(Tail(list), u)
        /\ IsLinkedOnce(Tail(list)) /\ ~Contains(Tail(list), h)
  <2> HIDE DEF list
  <2> QED
    BY <1>2, PopFront
<1>4. h \in Semaphores /\ h \notin Sems /\ h \notin Locks
  BY <1>3 DEF Semaphores
<1>5. Queued(h, c)
  BY <1>3 DEF Queued
<1>6. /\ CoreInv' /\ WaitersAgree' /\ NoLostWakeup' /\ Wakes(h)
      /\ waiters' \in [Semaphores -> Seq(Threads)]
  BY <1>2, <1>3, <1>4, UpKeeps DEF Wanted
<1>7. /\ value' \in [Semaphores -> Nat] /\ value'[h] = value[h] + 1
      /\ \A x \in Semaphores : x # h => value'[x] = value[x]
  BY <1>1, <1>4, <1>6, UpValue DEF SynchTypeOK
<1>8. cond_waiters' \in [Conds -> Seq(Threads)]
  BY <1>1, <1>2, <1>3 DEF SynchTypeOK
<1>9. SynchTypeOK'
  BY <1>1, <1>6, <1>7, <1>8 DEF SynchTypeOK, CoreInv
<1>10. ArgsAgree'
  BY <1>1 DEF ArgsAgree
<1>11. LockMutex'
  <2>1. \A l \in Locks : value'[l] = value[l]
    BY <1>4, <1>7 DEF Semaphores
  <2>2. \A u \in Threads, l \in Locks : Inside(u, l)' <=> Inside(u, l)
    BY DEF Inside
  <2> QED
    BY <1>1, <2>1, <2>2, LocksUntouched
<1>12. CondWaitersAgree'
  <2>1. \A d \in Conds : IsLinkedOnce(cond_waiters'[d])
    BY <1>1, <1>2, <1>3 DEF CondWaitersAgree, SynchTypeOK
  <2>2. \A u \in Threads, d \in Conds : Queued(u, d)' <=> Queued(u, d) /\ ~(u = h /\ d = c)
    <3> SUFFICES ASSUME NEW u \in Threads, NEW d \in Conds
                 PROVE  Queued(u, d)' <=> Queued(u, d) /\ ~(u = h /\ d = c)
      OBVIOUS
    <3>1. d # c => cond_waiters'[d] = cond_waiters[d]
      BY <1>1, <1>2 DEF SynchTypeOK
    <3>2. cond_waiters'[c] = Tail(list)
      BY <1>1, <1>2 DEF SynchTypeOK
    <3>3. Contains(Tail(list), u) <=> Contains(list, u) /\ u # h
      BY <1>3
    <3> QED
      BY <3>1, <3>2, <3>3 DEF Queued
  <2>3. pc[h] \in InCondWait /\ value[h] = 0 /\ \A d \in Conds : Queued(h, d) => d = c
    <3>1. Signalled(h)
      BY <1>1, <1>3 DEF CondWaitersAgree
    <3> QED
      BY <1>5, <3>1 DEF Signalled, Unqueued
  <2>4. Unqueued(h)' /\ value'[h] = 1
    BY <1>3, <1>7, <2>2, <2>3 DEF Unqueued
  <2>5. Signalled(h)'
    BY <2>3, <2>4 DEF Signalled
  <2>6. ASSUME NEW u \in Threads, u # h PROVE Signalled(u)'
    <3>1. Signalled(u) /\ value'[u] = value[u]
      BY <1>1, <1>7, <2>6 DEF CondWaitersAgree, Semaphores
    <3>2. \A d \in Conds : Queued(u, d)' <=> Queued(u, d)
      BY <2>2, <2>6
    <3> QED
      BY <3>1, <3>2 DEF Signalled, Unqueued
  <2> QED
    BY <2>1, <2>5, <2>6 DEF CondWaitersAgree
<1> QED
  BY <1>6, <1>9, <1>10, <1>11, <1>12 DEF SynchInv

\* Joining the end of a list.
LEMMA AppendLemma ==
  ASSUME NEW T, NEW list \in Seq(T), NEW x \in T, ~Contains(list, x), IsLinkedOnce(list)
  PROVE  /\ IsLinkedOnce(Append(list, x))
         /\ \A u : Contains(Append(list, x), u) <=> u = x \/ Contains(list, u)
<1> DEFINE res == Append(list, x)
           n == Len(list)
<1>1. /\ n \in Nat /\ Len(res) = n + 1
      /\ res[n + 1] = x /\ \A i \in 1..n : res[i] = list[i]
      /\ \A i : i \in 1..n + 1 <=> i \in 1..n \/ i = n + 1
  OBVIOUS
<1> HIDE DEF res
<1>2. ASSUME NEW u PROVE Contains(res, u) <=> u = x \/ Contains(list, u)
  BY <1>1 DEF Contains
<1>3. IsLinkedOnce(res)
  BY <1>1 DEF Contains, IsLinkedOnce
<1> QED
  BY <1>2, <1>3 DEF res

\* Nobody waits for a semaphore on the stack of a thread that is not in its
\* sema_down, nor does it have a value: so cond_wait's sema_init changes nothing.
LEMMA OwnSemaphoreUnused ==
  ASSUME SynchInv, NEW t \in Threads, Running(t), pc[t] \notin InCondWait
  PROVE  waiters[t] = <<>> /\ value[t] = 0
<1>1. /\ SynchTypeOK /\ ArgsAgree /\ WaitersAgree /\ CondWaitersAgree
      /\ t \in Semaphores /\ t \notin Sems /\ t \notin Locks
  BY DEF SynchInv, Semaphores
<1>2. status[t] = "running"
  BY DEF SynchInv, CoreInv, ReadyListAgrees, Running, AllThreads
<1>3. ASSUME NEW u \in Threads PROVE ~Contains(waiters[t], u)
  <2>1. SUFFICES ASSUME Contains(waiters[t], u) PROVE FALSE
    OBVIOUS
  <2>2. status[u] = "blocked" /\ pc[u] \in Downing /\ t = Wanted(u)
    BY <1>1, <2>1 DEF WaitersAgree
  <2>3. u # t
    BY <1>2, <2>2
  <2>4. arg[u] = t /\ pc[u] \in {"down", "lock_down"}
    BY <2>2, <2>3 DEF Wanted, Downing
  <2> QED
    BY <1>1, <2>4 DEF ArgsAgree, ForLock
<1>4. waiters[t] = <<>>
  <2>1. waiters[t] \in Seq(Threads)
    BY <1>1 DEF SynchTypeOK
  <2>2. SUFFICES ASSUME waiters[t] # <<>> PROVE FALSE
    OBVIOUS
  <2>3. Head(waiters[t]) \in Threads /\ Contains(waiters[t], Head(waiters[t]))
    BY <2>1, <2>2, PopFront
  <2> QED
    BY <1>3, <2>3
<1> QED
  BY <1>1, <1>4 DEF CondWaitersAgree, Signalled

\* sema_try_down of a semaphore of Sems and of a lock's.
LEMMA TryDownInv ==
  ASSUME SynchInv, NEW t \in Threads, TryDown(t) PROVE SynchInv'
<1>1. PICK s \in Sems : SemaTryDown(t, s, "user")
  BY DEF TryDown
<1>2. /\ SynchTypeOK /\ ArgsAgree /\ LockMutex /\ CondWaitersAgree /\ CoreInv
      /\ s \in Semaphores /\ s \notin Locks /\ s \notin Threads
  BY DEF SynchInv, Semaphores
<1>3. /\ Running(t) /\ pc[t] = "user" /\ Frame /\ UNCHANGED <<holder, cond_waiters, arg>>
      /\ UNCHANGED <<waiters, current, status, ready_list, thread_ticks>>
  BY <1>1 DEF TryDown, InUser, SemaTryDown
<1>4. ArgOf(t) /\ "user" \notin Downing
  BY <1>3 DEF ArgOf, Downing
<1>5. CoreInv'
  BY <1>2, <1>3, CoreFrame
<1>6. pc' = pc
  BY <1>1, <1>2, <1>3 DEF SemaTryDown, Returned, SynchTypeOK
<1>7. /\ WaitersAgree' /\ NoLostWakeup' /\ value' \in [Semaphores -> Nat]
      /\ \A x \in Semaphores : x # s => value'[x] = value[x]
  <2>1. CASE value[s] > 0
    <3>1. Takes(t, s, "user")
      BY <1>1, <1>3, <2>1 DEF SemaTryDown, Takes
    <3> QED
      BY <1>2, <1>3, <1>4, <3>1, TakesKeeps, DownValue DEF SynchTypeOK
  <2>2. CASE ~(value[s] > 0)
    <3>1. Moves(t, "user") /\ value' = value
      BY <1>1, <1>2, <1>3, <2>2 DEF SemaTryDown, Moves, semVars, Returned, SynchTypeOK
    <3> QED
      BY <1>2, <1>3, <1>4, <3>1, MovesKeeps DEF SynchTypeOK
  <2> QED
    BY <2>1, <2>2
<1>8. SynchTypeOK'
  BY <1>2, <1>3, <1>5, <1>6, <1>7 DEF SynchTypeOK, CoreInv
<1>9. ArgsAgree'
  BY <1>2, <1>3, <1>6 DEF ArgsAgree
<1>10. LockMutex'
  <2>1. \A l \in Locks : value'[l] = value[l]
    BY <1>2, <1>7 DEF Semaphores
  <2>2. \A u \in Threads, l \in Locks : Inside(u, l)' <=> Inside(u, l)
    BY <1>3, <1>6 DEF Inside
  <2> QED
    BY <1>2, <2>1, <2>2, LocksUntouched
<1>11. CondWaitersAgree'
  <2>1. \A u \in Threads : /\ value'[u] = value[u]
                           /\ pc'[u] \in InCondWait <=> pc[u] \in InCondWait
    BY <1>2, <1>6, <1>7 DEF Semaphores
  <2> QED
    BY <1>2, <1>3, <2>1, CondsUntouched
<1> QED
  BY <1>5, <1>7, <1>8, <1>9, <1>10, <1>11 DEF SynchInv

LEMMA TryAcquireInv ==
  ASSUME SynchInv, NEW t \in Threads, TryAcquire(t) PROVE SynchInv'
<1>1. PICK l \in Locks : /\ holder[l] # t /\ SemaTryDown(t, l, "hold")
                         /\ arg' = [arg EXCEPT ![t] = l]
  BY DEF TryAcquire
<1>2. /\ SynchTypeOK /\ ArgsAgree /\ LockMutex /\ CondWaitersAgree /\ CoreInv
      /\ l \in Semaphores /\ l \notin Sems /\ l \notin Threads
  BY DEF SynchInv, Semaphores
<1>3. /\ Running(t) /\ pc[t] = "user" /\ Frame /\ UNCHANGED <<holder, cond_waiters>>
      /\ UNCHANGED <<waiters, current, status, ready_list, thread_ticks>>
  BY <1>1 DEF TryAcquire, InUser, SemaTryDown
<1>4. ArgOf(t) /\ "user" \notin Downing /\ "hold" \notin Downing
  BY <1>1, <1>2 DEF ArgOf, Downing, SynchTypeOK
<1>5. CoreInv'
  BY <1>2, <1>3, CoreFrame
<1>6. CASE value[l] > 0
  <2>1. Takes(t, l, "hold")
    BY <1>1, <1>3, <1>6 DEF SemaTryDown, Takes
  <2>2. WaitersAgree' /\ NoLostWakeup'
    BY <1>2, <1>3, <1>4, <2>1, TakesKeeps DEF Downing
  <2>3. /\ value' \in [Semaphores -> Nat] /\ value' = [value EXCEPT ![l] = @ - 1]
        /\ \A x \in Semaphores : x # l => value'[x] = value[x]
    BY <1>2, <2>1, DownValue DEF SynchTypeOK, Takes
  <2>4. /\ pc' \in [AllThreads -> Labels \cup SynchLabels \cup {"hlt", "loop"}]
        /\ pc'[t] = "hold" /\ \A u \in Threads : u # t => pc'[u] = pc[u]
    BY <1>2, <2>1 DEF SynchTypeOK, Takes, Returned, AllThreads, SynchLabels
  <2>5. SynchTypeOK'
    BY <1>1, <1>2, <1>3, <1>5, <2>3, <2>4 DEF SynchTypeOK, CoreInv
  <2>6. ArgsAgree'
    BY <1>1, <1>2, <1>3, <2>4 DEF ArgsAgree, SynchTypeOK, ForLock, InCondWait
  <2>7. LockMutex'
    <3>1. \A u \in Threads, m \in Locks : Inside(u, m)' <=> Inside(u, m) \/ (u = t /\ m = l)
      BY <1>1, <1>2, <1>3, <2>4 DEF Inside, SynchTypeOK
    <3>2. value \in [Semaphores -> Nat]
      BY <1>2 DEF SynchTypeOK
    <3> QED
      BY <1>2, <1>6, <2>3, <3>1, <3>2, LockEntered
  <2>8. CondWaitersAgree'
    <3>1. \A u \in Threads : /\ value'[u] = value[u]
                             /\ pc'[u] \in InCondWait <=> pc[u] \in InCondWait
      BY <1>2, <1>3, <2>3, <2>4 DEF Semaphores, InCondWait
    <3> QED
      BY <1>2, <1>3, <3>1, CondsUntouched
  <2> QED
    BY <1>5, <2>2, <2>5, <2>6, <2>7, <2>8 DEF SynchInv
<1>7. CASE ~(value[l] > 0)
  <2>1. Moves(t, "user") /\ value' = value /\ pc' = pc
    BY <1>1, <1>2, <1>3, <1>7 DEF SemaTryDown, Moves, semVars, Returned, SynchTypeOK
  <2>2. WaitersAgree' /\ NoLostWakeup'
    BY <1>2, <1>3, <1>4, <2>1, MovesKeeps
  <2>3. SynchTypeOK'
    BY <1>1, <1>2, <1>3, <1>5, <2>1 DEF SynchTypeOK, CoreInv
  <2>4. ArgsAgree'
    BY <1>1, <1>2, <1>3, <2>1 DEF ArgsAgree, SynchTypeOK, ForLock, InCondWait
  <2>5. LockMutex'
    <3>1. \A u \in Threads, m \in Locks : Inside(u, m)' <=> Inside(u, m)
      BY <1>1, <1>2, <1>3, <2>1 DEF Inside, SynchTypeOK
    <3> QED
      BY <1>2, <2>1, <3>1, LocksUntouched
  <2>6. CondWaitersAgree'
    BY <1>2, <1>3, <2>1, CondsUntouched
  <2> QED
    BY <1>5, <2>2, <2>3, <2>4, <2>5, <2>6 DEF SynchInv
<1> QED
  BY <1>6, <1>7

\* A step that moves t's label and sets its argument and some lock's holder.
LEMMA MoveTypes ==
  ASSUME SynchInv, NEW t \in Threads, Running(t), pc[t] \notin Downing,
         NEW label \in {"user"} \cup (SynchLabels \ Downing), Moves(t, label), Frame, ArgOf(t),
         arg' \in [Threads -> Sems \cup Locks \cup Conds \cup {Null}],
         holder' \in [Locks -> Threads \cup {Null}],
         cond_waiters' \in [Conds -> Seq(Threads)]
  PROVE  /\ CoreInv' /\ WaitersAgree' /\ NoLostWakeup' /\ SynchTypeOK'
         /\ pc'[t] = label /\ \A u \in Threads : u # t => pc'[u] = pc[u]
         /\ value' = value
<1>1. SynchTypeOK
  BY DEF SynchInv
<1>2. label \notin Downing /\ "user" \notin Downing
  BY DEF Downing
<1>3. CoreInv' /\ WaitersAgree' /\ NoLostWakeup'
  BY <1>2, MovesKeeps
<1>4. /\ pc' \in [AllThreads -> Labels \cup SynchLabels \cup {"hlt", "loop"}]
      /\ pc'[t] = label /\ \A u \in Threads : u # t => pc'[u] = pc[u]
  BY <1>1 DEF SynchTypeOK, Moves, Returned, AllThreads, Labels, SynchLabels
<1>5. value' = value /\ waiters' = waiters
  BY DEF Moves, semVars
<1> QED
  BY <1>1, <1>3, <1>4, <1>5 DEF SynchTypeOK, CoreInv

LEMMA HoldInv ==
  ASSUME SynchInv, NEW t \in Threads, Hold(t) PROVE SynchInv'
<1>1. /\ SynchTypeOK /\ ArgsAgree /\ LockMutex /\ CondWaitersAgree
  BY DEF SynchInv
<1>2. /\ Running(t) /\ pc[t] = "hold" /\ Frame /\ UNCHANGED <<cond_waiters, arg>>
      /\ holder' = [holder EXCEPT ![arg[t]] = t] /\ Moves(t, "user") /\ ArgOf(t)
  BY DEF Hold, Moves, ArgOf
<1>3. PICK l \in Locks : l = arg[t]
  BY <1>1, <1>2 DEF ArgsAgree, ForLock
<1>4. /\ CoreInv' /\ WaitersAgree' /\ NoLostWakeup' /\ SynchTypeOK'
      /\ pc'[t] = "user" /\ \A u \in Threads : u # t => pc'[u] = pc[u]
      /\ value' = value
  <2>1. /\ pc[t] \notin Downing /\ "user" \in {"user"} \cup (SynchLabels \ Downing)
        /\ arg' \in [Threads -> Sems \cup Locks \cup Conds \cup {Null}]
        /\ holder' \in [Locks -> Threads \cup {Null}]
        /\ cond_waiters' \in [Conds -> Seq(Threads)]
    BY <1>1, <1>2 DEF Downing, SynchTypeOK
  <2> QED
    BY <1>2, <2>1, MoveTypes
<1>5. \A u \in Threads : holder[l] # u
  <2>1. \A u \in Threads : holder[l] = u => Inside(u, l) /\ Inside(t, l)
    BY <1>2, <1>3 DEF Inside
  <2> QED
    BY <1>1, <1>2, <1>3, <2>1 DEF LockMutex, ArgsAgree, ForLock
<1>6. ArgsAgree'
  BY <1>1, <1>2, <1>3, <1>4 DEF ArgsAgree, SynchTypeOK, ForLock, InCondWait
<1>7. LockMutex'
  <2>1. \A u \in Threads, m \in Locks : Inside(u, m)' <=> Inside(u, m)
    BY <1>1, <1>2, <1>3, <1>4, <1>5 DEF Inside, SynchTypeOK
  <2> QED
    BY <1>1, <1>4, <2>1, LocksUntouched
<1>8. CondWaitersAgree'
  <2>1. \A u \in Threads : /\ value'[u] = value[u]
                           /\ pc'[u] \in InCondWait <=> pc[u] \in InCondWait
    BY <1>2, <1>4 DEF InCondWait
  <2> QED
    BY <1>1, <1>2, <2>1, CondsUntouched
<1> QED
  BY <1>4, <1>6, <1>7, <1>8 DEF SynchInv

\* lock_release's holder assignment, called directly or by cond_wait.
LEMMA HolderCleared ==
  ASSUME SynchInv, NEW t \in Threads, NEW l \in Locks, holder[l] = t, pc[t] = "user",
         holder' = [holder EXCEPT ![l] = Null], arg' = [arg EXCEPT ![t] = l],
         value' = value, pc'[t] \in {"release", "cond_release"},
         \A u \in Threads : u # t => pc'[u] = pc[u]
  PROVE  ArgsAgree' /\ LockMutex'
<1>1. SynchTypeOK /\ ArgsAgree /\ LockMutex /\ Null \notin Threads
  BY DEF SynchInv, Semaphores
<1>2. /\ arg'[t] = l /\ \A u \in Threads : u # t => arg'[u] = arg[u]
      /\ holder'[l] = Null /\ \A m \in Locks : m # l => holder'[m] = holder[m]
  BY <1>1 DEF SynchTypeOK
<1>3. ArgsAgree'
  BY <1>1, <1>2 DEF ArgsAgree, ForLock, InCondWait
<1>4. \A u \in Threads, m \in Locks : Inside(u, m)' <=> Inside(u, m)
  BY <1>1, <1>2 DEF Inside
<1>5. LockMutex'
  BY <1>1, <1>4, LocksUntouched
<1> QED
  BY <1>3, <1>5

LEMMA ReleaseInv ==
  ASSUME SynchInv, NEW t \in Threads, Release(t) PROVE SynchInv'
<1>1. PICK l \in Locks : /\ holder[l] = t /\ holder' = [holder EXCEPT ![l] = Null]
                         /\ arg' = [arg EXCEPT ![t] = l]
  BY DEF Release
<1>2. /\ Running(t) /\ pc[t] = "user" /\ Frame /\ UNCHANGED cond_waiters
      /\ Moves(t, "release") /\ SynchTypeOK /\ CondWaitersAgree
  BY DEF Release, InUser, Moves, SynchInv
<1>3. /\ CoreInv' /\ WaitersAgree' /\ NoLostWakeup' /\ SynchTypeOK'
      /\ pc'[t] = "release" /\ \A u \in Threads : u # t => pc'[u] = pc[u]
      /\ value' = value
  <2>1. /\ pc[t] \notin Downing /\ "release" \in {"user"} \cup (SynchLabels \ Downing)
        /\ ArgOf(t)
        /\ arg' \in [Threads -> Sems \cup Locks \cup Conds \cup {Null}]
        /\ holder' \in [Locks -> Threads \cup {Null}]
        /\ cond_waiters' \in [Conds -> Seq(Threads)]
    BY <1>1, <1>2 DEF Downing, SynchTypeOK, SynchLabels, ArgOf
  <2> QED
    BY <1>2, <2>1, MoveTypes
<1>4. ArgsAgree' /\ LockMutex'
  BY <1>1, <1>2, <1>3, HolderCleared
<1>5. CondWaitersAgree'
  <2>1. \A u \in Threads : /\ value'[u] = value[u]
                           /\ pc'[u] \in InCondWait <=> pc[u] \in InCondWait
    BY <1>2, <1>3 DEF InCondWait
  <2> QED
    BY <1>2, <2>1, CondsUntouched
<1> QED
  BY <1>3, <1>4, <1>5 DEF SynchInv

LEMMA CondWaitInv ==
  ASSUME SynchInv, NEW t \in Threads, CondWait(t) PROVE SynchInv'
<1>1. PICK c \in Conds :
        /\ holder[CondLock[c]] = t
        /\ value' = [value EXCEPT ![t] = 0] /\ waiters' = [waiters EXCEPT ![t] = <<>>]
        /\ cond_waiters' = [cond_waiters EXCEPT ![c] = Append(@, t)]
        /\ holder' = [holder EXCEPT ![CondLock[c]] = Null]
        /\ arg' = [arg EXCEPT ![t] = CondLock[c]]
  BY DEF CondWait
<1>2. /\ Running(t) /\ pc[t] = "user" /\ Frame /\ Returned(t, "cond_release")
      /\ UNCHANGED <<current, status, ready_list, thread_ticks>>
      /\ SynchTypeOK /\ CondWaitersAgree
      /\ CondLock[c] \in Locks
  BY DEF CondWait, InUser, SynchInv
<1>3. Moves(t, "cond_release") /\ Unqueued(t) /\ value[t] = 0
  <2>1. pc[t] \notin InCondWait
    BY <1>2 DEF InCondWait
  <2>2. waiters[t] = <<>> /\ value[t] = 0
    BY <1>2, <2>1, OwnSemaphoreUnused
  <2>3. waiters' = waiters /\ value' = value
    BY <1>1, <1>2, <2>2 DEF SynchTypeOK, Semaphores
  <2> QED
    BY <1>2, <2>1, <2>2, <2>3 DEF Moves, semVars, CondWaitersAgree, Signalled
<1>4. /\ cond_waiters' \in [Conds -> Seq(Threads)]
      /\ cond_waiters'[c] = Append(cond_waiters[c], t)
      /\ \A d \in Conds : d # c => cond_waiters'[d] = cond_waiters[d]
      /\ cond_waiters[c] \in Seq(Threads)
  BY <1>1, <1>2 DEF SynchTypeOK
<1>5. /\ CoreInv' /\ WaitersAgree' /\ NoLostWakeup' /\ SynchTypeOK'
      /\ pc'[t] = "cond_release" /\ \A u \in Threads : u # t => pc'[u] = pc[u]
      /\ value' = value
  <2>1. /\ pc[t] \notin Downing /\ "cond_release" \in {"user"} \cup (SynchLabels \ Downing)
        /\ ArgOf(t)
        /\ arg' \in [Threads -> Sems \cup Locks \cup Conds \cup {Null}]
        /\ holder' \in [Locks -> Threads \cup {Null}]
    BY <1>1, <1>2 DEF Downing, SynchTypeOK, SynchLabels, ArgOf
  <2> QED
    BY <1>2, <1>3, <1>4, <2>1, MoveTypes
<1>6. ArgsAgree' /\ LockMutex'
  BY <1>1, <1>2, <1>5, HolderCleared
<1>7. CondWaitersAgree'
  <2>1. ~Contains(cond_waiters[c], t)
    BY <1>3 DEF Unqueued, Queued
  <2>2. /\ IsLinkedOnce(Append(cond_waiters[c], t))
        /\ \A u : Contains(Append(cond_waiters[c], t), u) <=> u = t \/ Contains(cond_waiters[c], u)
    <3>1. IsLinkedOnce(cond_waiters[c]) /\ cond_waiters[c] \in Seq(Threads)
      BY <1>2, <1>4 DEF CondWaitersAgree
    <3> QED
      BY <2>1, <3>1, AppendLemma
  <2>3. \A d \in Conds : IsLinkedOnce(cond_waiters'[d])
    BY <1>2, <1>4, <2>2 DEF CondWaitersAgree
  <2>4. \A u \in Threads, d \in Conds : Queued(u, d)' <=> Queued(u, d) \/ (u = t /\ d = c)
    BY <1>4, <2>2 DEF Queued
  <2>5. Signalled(t)'
    BY <1>3, <1>5, <2>4 DEF Signalled, Unqueued, InCondWait
  <2>6. \A u \in Threads : u # t => Signalled(u)'
    BY <1>2, <1>5, <2>4 DEF Signalled, Unqueued, CondWaitersAgree
  <2> QED
    BY <2>3, <2>5, <2>6 DEF CondWaitersAgree
<1> QED
  BY <1>5, <1>6, <1>7 DEF SynchInv

\* A step that moves t from one place outside cond_wait and the locks to another.
LEMMA PlainMove ==
  ASSUME SynchInv, NEW t \in Threads, Running(t), pc[t] \in {"user", "broadcast"},
         NEW label \in {"user", "broadcast"}, Moves(t, label), Frame,
         UNCHANGED <<holder, cond_waiters>>,
         NEW a \in Sems \cup Locks \cup Conds \cup {Null}, arg' = [arg EXCEPT ![t] = a],
         label = "broadcast" => a \in Conds
  PROVE  SynchInv'
<1>1. SynchTypeOK /\ ArgsAgree /\ LockMutex /\ CondWaitersAgree
  BY DEF SynchInv
<1>2. /\ CoreInv' /\ WaitersAgree' /\ NoLostWakeup' /\ SynchTypeOK'
      /\ pc'[t] = label /\ \A u \in Threads : u # t => pc'[u] = pc[u]
      /\ value' = value
  <2>1. /\ pc[t] \notin Downing /\ label \in {"user"} \cup (SynchLabels \ Downing)
        /\ ArgOf(t)
        /\ arg' \in [Threads -> Sems \cup Locks \cup Conds \cup {Null}]
        /\ holder' \in [Locks -> Threads \cup {Null}]
        /\ cond_waiters' \in [Conds -> Seq(Threads)]
    BY <1>1 DEF Downing, SynchTypeOK, SynchLabels, ArgOf
  <2> QED
    BY <2>1, MoveTypes
<1>3. arg'[t] = a /\ \A u \in Threads : u # t => arg'[u] = arg[u]
  BY <1>1 DEF SynchTypeOK
<1>4. ArgsAgree'
  BY <1>1, <1>2, <1>3 DEF ArgsAgree, ForLock, InCondWait
<1>5. LockMutex'
  <2>1. \A u \in Threads, m \in Locks : Inside(u, m)' <=> Inside(u, m)
    BY <1>2, <1>3 DEF Inside
  <2> QED
    BY <1>1, <1>2, <2>1, LocksUntouched
<1>6. CondWaitersAgree'
  <2>1. \A u \in Threads : /\ value'[u] = value[u]
                           /\ pc'[u] \in InCondWait <=> pc[u] \in InCondWait
    BY <1>2 DEF InCondWait
  <2> QED
    BY <1>1, <2>1, CondsUntouched
<1> QED
  BY <1>2, <1>4, <1>5, <1>6 DEF SynchInv

LEMMA BroadcastInv ==
  ASSUME SynchInv, NEW t \in Threads, Broadcast(t) PROVE SynchInv'
<1>1. PICK c \in Conds : arg' = [arg EXCEPT ![t] = c]
  BY DEF Broadcast
<1>2. /\ Running(t) /\ pc[t] = "user" /\ Frame /\ UNCHANGED <<holder, cond_waiters>>
      /\ Moves(t, "broadcast")
  BY DEF Broadcast, InUser, Moves
<1> QED
  BY <1>1, <1>2, PlainMove

LEMMA BroadcastNextInv ==
  ASSUME SynchInv, NEW t \in Threads, BroadcastNext(t) PROVE SynchInv'
<1>1. /\ Running(t) /\ pc[t] = "broadcast" /\ Frame /\ UNCHANGED <<holder, arg>>
      /\ SynchTypeOK /\ ArgsAgree
  BY DEF BroadcastNext, SynchInv
<1>2. PICK c \in Conds : c = arg[t]
  BY <1>1 DEF ArgsAgree
<1>3. CASE SignalFront(c) /\ UNCHANGED pc
  BY <1>1, <1>3, SignalFrontInv
<1>4. CASE Moves(t, "user") /\ UNCHANGED cond_waiters
  <2>1. arg' = [arg EXCEPT ![t] = c]
    BY <1>1, <1>2 DEF SynchTypeOK
  <2> QED
    BY <1>1, <1>4, <2>1, PlainMove
<1> QED
  BY <1>2, <1>3, <1>4 DEF BroadcastNext, Moves

----------------------------------------------------------------------------
\* The scheduler's own steps leave the threads that are in synch.c alone: neither
\* their places, nor the priorities of those that wait, nor the sleep list.
LEMMA SchedulerFrame ==
  ASSUME CoreInv, NEW L, pc \in [AllThreads -> L], SchedNext, NEW t \in Threads
  PROVE  /\ pc'[t] # pc[t] => pc[t] \in Labels /\ pc'[t] \in Labels
         /\ status[t] = "blocked" => priority'[t] = priority[t]
         /\ Contains(sleep_list', t) => Contains(sleep_list, t) \/ pc[t] = "sleep"
<1>1. /\ SchedStateOK /\ ReadyListAgrees /\ SleepListAgrees
      /\ sleep_list \in Seq(Threads) /\ t \in AllThreads /\ t # Idle
      /\ priority \in [Threads -> 0..PriMax] /\ tick \in [Threads -> Int]
  BY DEF CoreInv, SchedStateOK, AllThreads
<1>2. pc'[t] # pc[t] => pc[t] \in Labels /\ pc'[t] \in Labels
  BY <1>1 DEF SchedNext, ThreadStep, TickStep, Yield, SetPriority, PreemptSelf,
     TimerSleep, ThreadSleep, IdleBlock, TimerInterrupt, WakeFront, WakeBreak,
     InterruptReturn, Labels
<1>3. ASSUME status[t] = "blocked" PROVE priority'[t] = priority[t]
  <2>1. current # t /\ ~Contains(ready_list, t)
    BY <1>1, <1>3 DEF ReadyListAgrees
  <2>2. ASSUME NEW u \in Threads, SetPriority(u) PROVE priority'[t] = priority[t]
    BY <1>1, <2>1, <2>2 DEF SetPriority, Running
  <2>3. InterruptReturn => priority'[t] = priority[t]
    BY <1>1, <2>1 DEF InterruptReturn, AgedPriority
  <2> QED
    BY <2>2, <2>3 DEF SchedNext, ThreadStep, TickStep, Yield, PreemptSelf, TimerSleep,
       ThreadSleep, IdleBlock, TimerInterrupt, WakeFront, WakeBreak
<1>4. ASSUME Contains(sleep_list', t) PROVE Contains(sleep_list, t) \/ pc[t] = "sleep"
  <2>1. ASSUME NEW u \in Threads, ThreadSleep(u)
        PROVE  Contains(sleep_list, t) \/ pc[t] = "sleep"
    <3>1. sleep_list' = InsertOrdered(sleep_list, u, tick) /\ pc[u] = "sleep"
      BY <2>1 DEF ThreadSleep
    <3>2. Contains(sleep_list', t) <=> t = u \/ Contains(sleep_list, t)
      BY <1>1, <3>1, InsertOrderedMembers
    <3> QED
      BY <1>4, <3>1, <3>2
  <2>2. ASSUME WakeFront PROVE Contains(sleep_list, t)
    <3>1. sleep_list # <<>> /\ sleep_list' = Tail(sleep_list)
      BY <2>2 DEF WakeFront, CoreInv, ListsOrdered
    <3> QED
      BY <1>1, <1>4, <3>1, PopFront
  <2>3. (\E u \in Threads : ThreadSleep(u)) \/ WakeFront \/ sleep_list' = sleep_list
    BY DEF SchedNext, ThreadStep, TickStep, Yield, SetPriority, PreemptSelf, TimerSleep,
       IdleBlock, TimerInterrupt, WakeBreak, InterruptReturn
  <2> QED
    BY <1>4, <2>1, <2>2, <2>3
<1> QED
  BY <1>2, <1>3, <1>4

LEMMA SchedulerKeeps ==
  ASSUME SynchInv, SchedNext, UNCHANGED synchVars PROVE SynchInv'
<1>1. /\ CoreInv /\ SynchTypeOK /\ ArgsAgree /\ WaitersAgree /\ LockMutex
      /\ CondWaitersAgree /\ NoLostWakeup
      /\ UNCHANGED <<value, waiters, holder, cond_waiters, arg>>
  BY DEF SynchInv, synchVars
<1>2. CoreInv' /\ ElsewhereUnchanged
  BY <1>1, CoreStep
<1>3. pc' \in [AllThreads -> Labels \cup SynchLabels \cup {"hlt", "loop"}]
  BY <1>1, LabelStep DEF SynchTypeOK
<1>4. \A t \in Threads :
        /\ pc'[t] # pc[t] => pc[t] \in Labels /\ pc'[t] \in Labels
        /\ status[t] = "blocked" => priority'[t] = priority[t]
        /\ Contains(sleep_list', t) => Contains(sleep_list, t) \/ pc[t] = "sleep"
  BY <1>1, SchedulerFrame DEF SynchTypeOK
<1>5. SynchTypeOK'
  BY <1>1, <1>2, <1>3 DEF SynchTypeOK, CoreInv
<1>6. ArgsAgree'
  BY <1>1, <1>4 DEF ArgsAgree, ForLock, InCondWait, Labels
<1>7. \A t \in Threads : pc'[t] \in Downing \/ pc[t] \in Downing
                           => pc'[t] = pc[t] /\ Wanted(t)' = Wanted(t)
  BY <1>1, <1>4 DEF Downing, Labels, Wanted
<1>8. \A t \in Threads : Contains(sleep_list', t) => pc'[t] \notin Downing
  BY <1>1, <1>4, <1>7 DEF WaitersAgree, Downing
<1>9. \A t \in Threads : pc[t] \in Downing =>
        (status'[t] = "blocked" <=> status[t] = "blocked")
  <2> SUFFICES ASSUME NEW t \in Threads, pc[t] \in Downing
               PROVE  status'[t] = "blocked" <=> status[t] = "blocked"
    OBVIOUS
  <2>1. ~Contains(sleep_list, t) /\ ~Contains(sleep_list', t)
    BY <1>1, <1>7, <1>8 DEF WaitersAgree
  <2> QED
    BY <1>2, <2>1 DEF ElsewhereUnchanged, BlockedElsewhere
<1>10. WaitersAgree'
  <2>1. ASSUME NEW s \in Semaphores
        PROVE  IsOrdered(waiters[s], PriorityKey(priority'))
    <3>1. /\ waiters[s] \in Seq(Threads) /\ IsOrdered(waiters[s], PriorityKey(priority))
          /\ priority \in [Threads -> 0..PriMax] /\ priority' \in [Threads -> 0..PriMax]
      BY <1>1, <1>5 DEF WaitersAgree, SynchTypeOK, SchedStateOK
    <3>2. \A i \in 1..Len(waiters[s]) :
            /\ waiters[s][i] \in Threads
            /\ priority'[waiters[s][i]] = priority[waiters[s][i]]
      <4> SUFFICES ASSUME NEW i \in 1..Len(waiters[s])
                   PROVE  /\ waiters[s][i] \in Threads
                          /\ priority'[waiters[s][i]] = priority[waiters[s][i]]
        OBVIOUS
      <4>1. waiters[s][i] \in Threads /\ Contains(waiters[s], waiters[s][i])
        BY <3>1 DEF Contains
      <4>2. status[waiters[s][i]] = "blocked"
        BY <1>1, <4>1 DEF WaitersAgree
      <4> QED
        BY <1>4, <4>1, <4>2
    <3>3. \A i \in 1..Len(waiters[s]) :
            PriorityKey(priority')[waiters[s][i]] = PriorityKey(priority)[waiters[s][i]]
      BY <3>1, <3>2 DEF PriorityKey
    <3> QED
      BY <3>1, <3>3 DEF IsOrdered
  <2>2. \A t \in Threads : BlockedElsewhere(t)' => pc'[t] \in Downing
    BY <1>1, <1>2, <1>7 DEF WaitersAgree, ElsewhereUnchanged
  <2>3. \A t \in Threads, s \in Semaphores :
          Contains(waiters'[s], t)
            <=> status'[t] = "blocked" /\ pc'[t] \in Downing /\ s = Wanted(t)'
    BY <1>1, <1>7, <1>9 DEF WaitersAgree
  <2> QED
    BY <1>1, <1>8, <2>1, <2>2, <2>3 DEF WaitersAgree
<1>11. LockMutex'
  <2>1. \A t \in Threads, l \in Locks : Inside(t, l)' <=> Inside(t, l)
    BY <1>1, <1>4 DEF Inside, Labels
  <2> QED
    BY <1>1, <2>1, LocksUntouched
<1>12. CondWaitersAgree'
  <2>1. \A t \in Threads : /\ value'[t] = value[t]
                           /\ pc'[t] \in InCondWait <=> pc[t] \in InCondWait
    BY <1>1, <1>4 DEF InCondWait, Labels
  <2> QED
    BY <1>1, <2>1, CondsUntouched
<1>13. NoLostWakeup'
  <2>1. \A s : Woken(s)' = Woken(s)
    BY <1>7, <1>9 DEF Woken
  <2> QED
    BY <1>1, <2>1 DEF NoLostWakeup
<1> QED
  BY <1>2, <1>5, <1>6, <1>10, <1>11, <1>12, <1>13 DEF SynchInv

LEMMA DownInv ==
  ASSUME SynchInv, NEW t \in Threads, Down(t) PROVE SynchInv'
<1>1. PICK s \in Sems : SemaDown(t, s, "down", "user") /\ arg' = [arg EXCEPT ![t] = s]
  BY DEF Down
<1>2. Running(t) /\ pc[t] = "user" /\ Frame /\ UNCHANGED <<holder, cond_waiters>>
  BY DEF Down, InUser
<1> QED
  BY <1>1, <1>2, DownSema

LEMMA AcquireInv ==
  ASSUME SynchInv, NEW t \in Threads, Acquire(t) PROVE SynchInv'
<1>1. PICK l \in Locks : /\ holder[l] # t /\ SemaDown(t, l, "lock_down", "hold")
                         /\ arg' = [arg EXCEPT ![t] = l]
  BY DEF Acquire
<1>2. Running(t) /\ pc[t] = "user" /\ Frame /\ UNCHANGED <<holder, cond_waiters>>
  BY DEF Acquire, InUser
<1> QED
  BY <1>1, <1>2, DownLock

LEMMA CondLockAgainInv ==
  ASSUME SynchInv, NEW t \in Threads, CondLockAgain(t) PROVE SynchInv'
<1>1. /\ Running(t) /\ pc[t] = "cond_lock" /\ Frame /\ SynchTypeOK
      /\ UNCHANGED <<holder, cond_waiters, arg>>
  BY DEF CondLockAgain, SynchInv
<1>2. PICK l \in Locks : l = arg[t] /\ holder[l] # t
  BY <1>1 DEF SynchInv, ArgsAgree, ForLock
<1>3. SemaDown(t, l, "lock_down", "hold") /\ arg' = [arg EXCEPT ![t] = l]
  BY <1>1, <1>2 DEF CondLockAgain, SynchTypeOK
<1> QED
  BY <1>1, <1>2, <1>3, DownLock

LEMMA DownAgainInv ==
  ASSUME SynchInv, NEW t \in Threads, DownAgain(t) PROVE SynchInv'
<1>1. /\ Running(t) /\ Frame /\ SynchTypeOK /\ ArgsAgree
      /\ UNCHANGED <<holder, cond_waiters, arg>>
  BY DEF DownAgain, SynchInv
<1>2. CASE pc[t] = "down" /\ SemaDown(t, arg[t], "down", "user")
  <2>1. PICK s \in Sems : s = arg[t]
    BY <1>1, <1>2 DEF ArgsAgree
  <2>2. SemaDown(t, s, "down", "user") /\ arg' = [arg EXCEPT ![t] = s]
    BY <1>1, <1>2, <2>1 DEF SynchTypeOK
  <2> QED
    BY <1>1, <1>2, <2>1, <2>2, DownSema
<1>3. CASE pc[t] = "lock_down" /\ SemaDown(t, arg[t], "lock_down", "hold")
  <2>1. PICK l \in Locks : l = arg[t] /\ holder[l] # t
    BY <1>1, <1>3 DEF ArgsAgree, ForLock
  <2>2. SemaDown(t, l, "lock_down", "hold") /\ arg' = [arg EXCEPT ![t] = l]
    BY <1>1, <1>3, <2>1 DEF SynchTypeOK
  <2> QED
    BY <1>1, <1>3, <2>1, <2>2, DownLock
<1>4. CASE pc[t] = "cond_down" /\ SemaDown(t, t, "cond_down", "cond_lock")
  BY <1>1, <1>4, DownCond
<1> QED
  BY <1>2, <1>3, <1>4 DEF DownAgain

LEMMA CondSleepInv ==
  ASSUME SynchInv, NEW t \in Threads, CondSleep(t) PROVE SynchInv'
<1>1. /\ Running(t) /\ pc[t] = "cond_sleep" /\ Frame
      /\ SemaDown(t, t, "cond_down", "cond_lock") /\ UNCHANGED <<holder, cond_waiters, arg>>
  BY DEF CondSleep
<1> QED
  BY <1>1, DownCond

LEMMA SignalInv ==
  ASSUME SynchInv, NEW t \in Threads, Signal(t) PROVE SynchInv'
<1>1. PICK c \in Conds : SignalFront(c)
  BY DEF Signal
<1>2. Running(t) /\ Frame /\ UNCHANGED <<pc, holder, arg>>
  BY DEF Signal, InUser
<1> QED
  BY <1>1, <1>2, SignalFrontInv

LEMMA SynchStepInv ==
  ASSUME SynchInv, [SynchNext]_vars PROVE SynchInv'
<1>1. ASSUME NEW t \in Threads, SynchStep(t) PROVE SynchInv'
  BY <1>1, DownInv, TryDownInv, UpInv, AcquireInv, TryAcquireInv, HoldInv, ReleaseInv,
     ReleaseUpInv, CondWaitInv, CondSleepInv, CondLockAgainInv, SignalInv, BroadcastInv,
     BroadcastNextInv DEF SynchStep
<1>2. CASE Resume
  BY <1>2, DownAgainInv DEF Resume
<1>3. CASE SchedulerStep
  BY <1>3, SchedulerKeeps DEF SchedulerStep, SchedNext
<1>4. CASE SynchTick
  BY <1>4, SchedulerKeeps DEF SynchTick, SchedNext
<1>5. CASE UNCHANGED vars
  <2>1. UNCHANGED <<value, waiters, holder, cond_waiters, arg, pc, status, priority, sleep_list>>
    BY <1>5 DEF vars, synchVars, schedVars
  <2>2. CoreInv' /\ SynchTypeOK'
    BY <1>5 DEF vars, synchVars, schedVars, SynchInv, CoreInv, SynchTypeOK, SchedStateOK,
       ReadyListAgrees, SleepListAgrees, ListsOrdered, WakeLoopDue
  <2>3. ArgsAgree' /\ WaitersAgree'
    BY <2>1 DEF SynchInv, ArgsAgree, WaitersAgree, BlockedElsewhere, Wanted
  <2>4. LockMutex' /\ CondWaitersAgree'
    BY <2>1 DEF SynchInv, LockMutex, Inside, CondWaitersAgree, Signalled, Unqueued, Queued
  <2>5. NoLostWakeup'
    BY <2>1 DEF SynchInv, NoLostWakeup, Woken, Wanted
  <2> QED
    BY <2>2, <2>3, <2>4, <2>5 DEF SynchInv
<1> QED
  BY <1>1, <1>2, <1>3, <1>4, <1>5 DEF SynchNext

LEMMA SynchInitInv == SynchInit => SynchInv
<1> SUFFICES ASSUME SynchInit PROVE SynchInv
  OBVIOUS
<1>1. SchedInv /\ pc = [t \in AllThreads |-> IF t = Idle THEN "hlt" ELSE "user"]
  BY InitInv DEF SynchInit, SchedInit
<1>2. /\ value = [s \in Semaphores |->
                    IF s \in Sems THEN InitValue[s] ELSE IF s \in Locks THEN 1 ELSE 0]
      /\ waiters = [s \in Semaphores |-> <<>>] /\ holder = [l \in Locks |-> Null]
      /\ cond_waiters = [c \in Conds |-> <<>>] /\ arg = [t \in Threads |-> Null]
  BY DEF SynchInit
<1>3. \A t \in Threads : pc[t] = "user"
  BY <1>1 DEF AllThreads
<1>4. /\ \A t : ~Contains(<<>>, t) /\ IsLinkedOnce(<<>>) /\ \A key : IsOrdered(<<>>, key)
      /\ <<>> \in Seq(Threads)
  BY DEF Contains, IsLinkedOnce, IsOrdered
<1>5. SynchTypeOK
  <2>1. value \in [Semaphores -> Nat]
    BY <1>2
  <2>2. pc \in [AllThreads -> Labels \cup SynchLabels \cup {"hlt", "loop"}]
    BY <1>1 DEF Labels
  <2> QED
    BY <1>1, <1>2, <1>4, <2>1, <2>2 DEF SynchTypeOK, SchedInv, SchedTypeOK
<1>6. ArgsAgree
  BY <1>3 DEF ArgsAgree, ForLock, InCondWait
<1>7. WaitersAgree
  BY <1>1, <1>2, <1>3, <1>4 DEF WaitersAgree, Downing, SchedInv
<1>8. LockMutex
  <2>1. \A l \in Locks : value[l] = 1 /\ holder[l] = Null
    BY <1>2 DEF Semaphores
  <2>2. \A t \in Threads, l \in Locks : ~Inside(t, l)
    BY <1>3, <2>1 DEF Inside, Semaphores
  <2> QED
    BY <2>1, <2>2 DEF LockMutex
<1>9. CondWaitersAgree
  BY <1>2, <1>3, <1>4 DEF CondWaitersAgree, Signalled, Unqueued, Queued, InCondWait, Semaphores
<1>10. NoLostWakeup
  BY <1>2 DEF NoLostWakeup
<1> QED
  BY <1>1, <1>5, <1>6, <1>7, <1>8, <1>9, <1>10 DEF SynchInv, SchedInv

LEMMA SynchInvariant == SynchSpec => []SynchInv
BY SynchInitInv, SynchStepInv, PTL DEF SynchSpec

\* A thread is linked by its one list element into at most one of the ready list,
\* the sleep list and the waiters of all semaphores, and into the one its state
\* calls for, whatever calls of thread.c, timer.c and synch.c it makes.
THEOREM ElemIsShared == SynchSpec => []ElemInOneList
<1>1. SynchInv => ElemInOneList
  <2> SUFFICES ASSUME SynchInv PROVE ElemInOneList
    OBVIOUS
  <2>1. /\ SynchTypeOK /\ ReadyListAgrees /\ SleepListAgrees /\ WaitersAgree
    BY DEF SynchInv, CoreInv
  <2>2. \A t \in Threads : Contains(sleep_list, t)
                             <=> status[t] = "blocked" /\ pc[t] \notin Downing
    BY <2>1 DEF SleepListAgrees, WaitersAgree, BlockedElsewhere
  <2> QED
    BY <2>1, <2>2 DEF ElemInOneList, ReadyListAgrees, SleepListAgrees, WaitersAgree
<1> QED
  BY <1>1, SynchInvariant, PTL

\* A lock is free or has exactly one thread between the down that took it and the
\* up that gives it back, wherever lock_acquire, lock_release and cond_wait are
\* preempted.
THEOREM LocksExclude == SynchSpec => []LockMutex
<1>1. SynchInv => LockMutex
  BY DEF SynchInv
<1> QED
  BY <1>1, SynchInvariant, PTL

\* While threads wait for a semaphore, each unit of its value has a thread that
\* sema_up has woken and that has not tested the value yet.
THEOREM WakeupsAreKept == SynchSpec => []NoLostWakeup
<1>1. SynchInv => NoLostWakeup
  BY DEF SynchInv
<1> QED
  BY <1>1, SynchInvariant, PTL

\* A thread in cond_wait is among the waiters of exactly one condition, or has
\* been signalled once; any other thread is neither.
THEOREM SignalsAreKept == SynchSpec => []SignalNotLost
<1>1. SynchInv => SignalNotLost
  <2> SUFFICES ASSUME CondWaitersAgree, NEW t \in Threads
               PROVE  LET queued == {c \in Conds : Contains(cond_waiters[c], t)} IN
                      IF pc[t] \in {"cond_release", "cond_sleep", "cond_down"}
                        THEN \/ value[t] = 0 /\ Cardinality(queued) = 1
                             \/ value[t] = 1 /\ queued = {}
                        ELSE value[t] = 0 /\ queued = {}
    BY DEF SynchInv, SignalNotLost
  <2> DEFINE queued == {c \in Conds : Contains(cond_waiters[c], t)}
  <2>1. Signalled(t)
    BY DEF CondWaitersAgree
  <2>2. Unqueued(t) => queued = {}
    BY DEF Unqueued, Queued
  <2>3. ASSUME NEW c \in Conds, Queued(t, c), \A d \in Conds : Queued(t, d) => d = c
        PROVE  Cardinality(queued) = 1
    <3>1. queued = {c}
      BY <2>3 DEF Queued
    <3> QED
      BY <3>1, FS_Singleton
  <2> HIDE DEF queued
  <2>4. IF pc[t] \in {"cond_release", "cond_sleep", "cond_down"}
          THEN \/ value[t] = 0 /\ Cardinality(queued) = 1
               \/ value[t] = 1 /\ queued = {}
          ELSE value[t] = 0 /\ queued = {}
    BY <2>1, <2>2, <2>3 DEF Signalled, InCondWait
  <2> QED
    BY <2>4 DEF queued
<1> QED
  BY <1>1, SynchInvariant, PTL

----------------------------------------------------------------------------
\* What a step does to the semaphores and to the threads in their sema_down: t
\* passes s, t waits for s, s is upped, or nothing.

Undisturbed(T) ==
  \A u \in T : /\ pc'[u] \in Downing <=> pc[u] \in Downing
               /\ pc[u] \in Downing => Wanted(u)' = Wanted(u)

Passes(t, s) ==
  /\ value[s] > 0 /\ value' = [value EXCEPT ![s] = @ - 1] /\ UNCHANGED waiters
  /\ pc[t] \in Downing => Wanted(t) = s
  /\ pc'[t] \notin Downing /\ Undisturbed(Threads \ {t})

WaitsFor(t, s) ==
  /\ value[s] = 0 /\ UNCHANGED value
  /\ waiters' = [waiters EXCEPT ![s] = InsertOrdered(@, t, PriorityKey(priority))]
  /\ pc[t] \in Downing => Wanted(t) = s
  /\ pc'[t] \in Downing /\ Wanted(t)' = s /\ Undisturbed(Threads \ {t})

Upped(s) ==
  /\ value' = [value EXCEPT ![s] = @ + 1]
  /\ waiters' = [waiters EXCEPT ![s] = IF @ = <<>> THEN @ ELSE Tail(@)]
  /\ Undisturbed(Threads)

StepKind ==
  \/ \E t \in Threads, s \in Semaphores : Passes(t, s) \/ WaitsFor(t, s)
  \/ \E s \in Semaphores : Upped(s)
  \/ UNCHANGED semVars /\ Undisturbed(Threads)

LEMMA DownKind ==
  ASSUME SynchTypeOK, NEW t \in Threads, NEW s \in Semaphores,
         NEW loop \in Downing, NEW done, done \notin Downing,
         pc[t] \in Downing => Wanted(t) = s,
         SemaDown(t, s, loop, done), ArgOf(t),
         s = IF loop = "cond_down" THEN t ELSE arg'[t]
  PROVE  StepKind
<1>1. Returned(t, done) \/ Returned(t, loop) => Undisturbed(Threads \ {t})
  BY DEF Returned, Undisturbed, SynchTypeOK, AllThreads, Wanted, ArgOf
<1>2. Returned(t, done) => pc'[t] = done
  BY DEF Returned, SynchTypeOK, AllThreads
<1>3. Returned(t, loop) => pc'[t] = loop /\ Wanted(t)' = s
  BY DEF Returned, SynchTypeOK, AllThreads, Wanted
<1>4. Passes(t, s) \/ WaitsFor(t, s)
  BY <1>1, <1>2, <1>3 DEF SemaDown, Passes, WaitsFor
<1> QED
  BY <1>4 DEF StepKind

LEMMA UpKind ==
  ASSUME NEW s \in Semaphores, SemaUp(s), Undisturbed(Threads)
  PROVE  StepKind
<1>1. Upped(s)
  BY DEF SemaUp, Upped
<1> QED
  BY <1>1 DEF StepKind

LEMMA StepKinds ==
  ASSUME SynchInv, [SynchNext]_vars PROVE StepKind
<1>1. /\ SynchTypeOK /\ ArgsAgree /\ CoreInv
      /\ \A s \in Sems : s \in Semaphores /\ \A l \in Locks : l \in Semaphores
      /\ \A t \in Threads : t \in Semaphores /\ t \in AllThreads
  BY DEF SynchInv, Semaphores, AllThreads
<1>2. ASSUME NEW t \in Threads, NEW label, Returned(t, label), label \notin Downing,
             pc[t] \notin Downing, ArgOf(t)
      PROVE  Undisturbed(Threads)
  BY <1>1, <1>2 DEF Undisturbed, Returned, SynchTypeOK, ArgOf, Wanted
<1>3. ASSUME pc' = pc, arg' = arg PROVE Undisturbed(Threads)
  BY <1>3 DEF Undisturbed, Wanted
<1>4. ASSUME NEW t \in Threads, Down(t) PROVE StepKind
  <2>1. PICK s \in Sems : SemaDown(t, s, "down", "user") /\ arg' = [arg EXCEPT ![t] = s]
    BY <1>4 DEF Down
  <2>2. /\ pc[t] \notin Downing /\ "down" \in Downing /\ "user" \notin Downing /\ ArgOf(t)
        /\ s = arg'[t]
    BY <1>1, <1>4, <2>1 DEF Down, InUser, Downing, ArgOf, SynchTypeOK
  <2> QED
    BY <1>1, <2>1, <2>2, DownKind
<1>5. ASSUME NEW t \in Threads, Acquire(t) PROVE StepKind
  <2>1. PICK l \in Locks : SemaDown(t, l, "lock_down", "hold") /\ arg' = [arg EXCEPT ![t] = l]
    BY <1>5 DEF Acquire
  <2>2. /\ pc[t] \notin Downing /\ "lock_down" \in Downing /\ "hold" \notin Downing /\ ArgOf(t)
        /\ l = arg'[t]
    BY <1>1, <1>5, <2>1 DEF Acquire, InUser, Downing, ArgOf, SynchTypeOK
  <2>3. l \in Semaphores
    BY DEF Semaphores
  <2> QED
    BY <1>1, <2>1, <2>2, <2>3, DownKind
<1>6. ASSUME NEW t \in Threads, CondSleep(t) PROVE StepKind
  <2>1. /\ SemaDown(t, t, "cond_down", "cond_lock") /\ pc[t] \notin Downing /\ ArgOf(t)
        /\ "cond_down" \in Downing /\ "cond_lock" \notin Downing
    BY <1>6 DEF CondSleep, Downing, ArgOf
  <2> QED
    BY <1>1, <2>1, DownKind
<1>7. ASSUME NEW t \in Threads, CondLockAgain(t) PROVE StepKind
  <2>1. PICK l \in Locks : l = arg[t]
    BY <1>1, <1>7 DEF CondLockAgain, ArgsAgree, ForLock
  <2>2. /\ SemaDown(t, l, "lock_down", "hold") /\ pc[t] \notin Downing /\ ArgOf(t) /\ l = arg'[t]
        /\ "lock_down" \in Downing /\ "hold" \notin Downing
    BY <1>7, <2>1 DEF CondLockAgain, Downing, ArgOf
  <2>3. l \in Semaphores
    BY DEF Semaphores
  <2> QED
    BY <1>1, <2>2, <2>3, DownKind
<1>8. ASSUME NEW t \in Threads, DownAgain(t) PROVE StepKind
  <2>1. PICK s \in Semaphores : s = Wanted(t) /\ pc[t] \in Downing
    <3>1. pc[t] \in {"down", "lock_down", "cond_down"}
      BY <1>8 DEF DownAgain
    <3> QED
      BY <1>1, <3>1 DEF Wanted, ArgsAgree, ForLock, Semaphores, Downing
  <2>2. arg' = arg /\ ArgOf(t)
    BY <1>8 DEF DownAgain, ArgOf
  <2>3. \/ SemaDown(t, s, "down", "user") /\ s = arg'[t]
        \/ SemaDown(t, s, "lock_down", "hold") /\ s = arg'[t]
        \/ SemaDown(t, s, "cond_down", "cond_lock") /\ s = t
    BY <1>8, <2>1, <2>2 DEF DownAgain, Wanted
  <2>4. /\ {"down", "lock_down", "cond_down"} \subseteq Downing
        /\ {"user", "hold", "cond_lock"} \cap Downing = {}
    BY DEF Downing
  <2>5. CASE SemaDown(t, s, "down", "user") /\ s = arg'[t]
    BY <1>1, <2>1, <2>2, <2>4, <2>5, DownKind
  <2>6. CASE SemaDown(t, s, "lock_down", "hold") /\ s = arg'[t]
    BY <1>1, <2>1, <2>2, <2>4, <2>6, DownKind
  <2>7. CASE SemaDown(t, s, "cond_down", "cond_lock") /\ s = t
    <3>1. "cond_down" \in Downing /\ "cond_lock" \notin Downing
      BY <2>4
    <3> QED
      BY <1>1, <2>1, <2>2, <2>7, <3>1, DownKind
  <2> QED
    BY <2>3, <2>5, <2>6, <2>7
<1>9. ASSUME NEW t \in Threads, TryDown(t) PROVE StepKind
  <2>1. PICK s \in Sems : SemaTryDown(t, s, "user")
    BY <1>9 DEF TryDown
  <2>2. /\ pc[t] \notin Downing /\ "user" \notin Downing /\ ArgOf(t) /\ arg' = arg
    BY <1>9 DEF TryDown, InUser, Downing, ArgOf
  <2>3. CASE value[s] > 0
    <3>1. Returned(t, "user") /\ value' = [value EXCEPT ![s] = @ - 1] /\ UNCHANGED waiters
      BY <2>1, <2>3 DEF SemaTryDown
    <3>2. Passes(t, s)
      <4>1. Undisturbed(Threads \ {t})
        BY <1>2, <2>2, <3>1 DEF Undisturbed
      <4> QED
        BY <1>1, <2>2, <2>3, <3>1, <4>1 DEF Passes, Returned, SynchTypeOK
    <3> QED
      BY <1>1, <3>2 DEF StepKind
  <2>4. CASE ~(value[s] > 0)
    BY <1>3, <2>1, <2>2, <2>4 DEF SemaTryDown, StepKind, semVars
  <2> QED
    BY <2>3, <2>4
<1>10. ASSUME NEW t \in Threads, TryAcquire(t) PROVE StepKind
  <2>1. PICK l \in Locks : SemaTryDown(t, l, "hold") /\ arg' = [arg EXCEPT ![t] = l]
    BY <1>10 DEF TryAcquire
  <2>2. /\ pc[t] \notin Downing /\ "hold" \notin Downing /\ ArgOf(t)
    BY <1>1, <1>10, <2>1 DEF TryAcquire, InUser, Downing, ArgOf, SynchTypeOK
  <2>3. CASE value[l] > 0
    <3>1. Returned(t, "hold") /\ value' = [value EXCEPT ![l] = @ - 1] /\ UNCHANGED waiters
      BY <2>1, <2>3 DEF SemaTryDown
    <3>2. Passes(t, l)
      <4>1. Undisturbed(Threads \ {t})
        BY <1>2, <2>2, <3>1 DEF Undisturbed
      <4> QED
        BY <1>1, <2>2, <2>3, <3>1, <4>1 DEF Passes, Returned, SynchTypeOK
    <3>3. l \in Semaphores
      BY DEF Semaphores
    <3> QED
      BY <3>2, <3>3 DEF StepKind
  <2>4. CASE ~(value[l] > 0)
    <3>1. pc' = pc /\ UNCHANGED semVars
      BY <2>1, <2>4 DEF SemaTryDown, semVars
    <3>2. Undisturbed(Threads)
      BY <2>2, <3>1 DEF Undisturbed, ArgOf, Wanted
    <3> QED
      BY <3>1, <3>2 DEF StepKind
  <2> QED
    BY <2>3, <2>4
<1>11. ASSUME NEW t \in Threads, Up(t) PROVE StepKind
  <2>1. PICK s \in Sems : SemaUp(s)
    BY <1>11 DEF Up
  <2>2. pc' = pc /\ arg' = arg
    BY <1>11 DEF Up
  <2> QED
    BY <1>1, <1>3, <2>1, <2>2, UpKind
<1>12. ASSUME NEW t \in Threads, ReleaseUp(t) PROVE StepKind
  <2>1. PICK l \in Locks : l = arg[t]
    BY <1>1, <1>12 DEF ReleaseUp, ArgsAgree, ForLock, InCondWait
  <2>2. /\ SemaUp(l) /\ pc[t] \notin Downing /\ ArgOf(t)
        /\ Returned(t, "user") \/ Returned(t, "cond_sleep")
    BY <1>12, <2>1 DEF ReleaseUp, Downing, ArgOf
  <2>3. "user" \notin Downing /\ "cond_sleep" \notin Downing
    BY DEF Downing
  <2>4. Undisturbed(Threads)
    BY <1>2, <2>2, <2>3
  <2>5. l \in Semaphores
    BY DEF Semaphores
  <2> QED
    BY <2>2, <2>4, <2>5, UpKind
<1>13. ASSUME NEW c \in Conds, SignalFront(c), pc' = pc, arg' = arg PROVE StepKind
  <2>1. PICK h \in Threads : h = Head(cond_waiters[c])
    BY <1>1, <1>13 DEF SignalFront, SynchTypeOK
  <2> QED
    BY <1>1, <1>3, <1>13, <2>1, UpKind DEF SignalFront
<1>14. ASSUME NEW t \in Threads, Signal(t) PROVE StepKind
  BY <1>13, <1>14 DEF Signal
<1>15. ASSUME NEW t \in Threads, NEW label, Moves(t, label), label \notin Downing,
              pc[t] \notin Downing, ArgOf(t)
       PROVE  StepKind
  BY <1>2, <1>15 DEF Moves, StepKind
<1>16. ASSUME NEW t \in Threads, Hold(t) \/ Release(t) \/ Broadcast(t) PROVE StepKind
  <2>1. \/ Moves(t, "user") \/ Moves(t, "release") \/ Moves(t, "broadcast")
    BY <1>16 DEF Hold, Release, Broadcast, Moves
  <2>2. /\ pc[t] \notin Downing /\ "user" \notin Downing /\ "release" \notin Downing
        /\ "broadcast" \notin Downing
    BY <1>16 DEF Hold, Release, Broadcast, InUser, Downing
  <2>3. ArgOf(t)
    BY <1>1, <1>16 DEF Hold, Release, Broadcast, ArgOf, SynchTypeOK
  <2> QED
    BY <1>15, <2>1, <2>2, <2>3
<1>17. ASSUME NEW t \in Threads, BroadcastNext(t) PROVE StepKind
  <2>1. /\ pc[t] = "broadcast" /\ arg' = arg /\ ArgOf(t)
        /\ "user" \notin Downing /\ pc[t] \notin Downing
    BY <1>17 DEF BroadcastNext, ArgOf, Downing
  <2>2. PICK c \in Conds : c = arg[t]
    BY <1>1, <2>1 DEF ArgsAgree
  <2>3. (SignalFront(c) /\ pc' = pc) \/ Moves(t, "user")
    BY <1>17, <2>2 DEF BroadcastNext, Moves
  <2> QED
    BY <1>13, <1>15, <2>1, <2>3
<1>18. ASSUME NEW t \in Threads, CondWait(t) PROVE StepKind
  <2>1. /\ Running(t) /\ pc[t] = "user" /\ Returned(t, "cond_release")
        /\ value' = [value EXCEPT ![t] = 0] /\ waiters' = [waiters EXCEPT ![t] = <<>>]
    BY <1>18 DEF CondWait, InUser
  <2>2. waiters[t] = <<>> /\ value[t] = 0
    BY <2>1, OwnSemaphoreUnused DEF InCondWait
  <2>3. UNCHANGED semVars
    BY <1>1, <2>1, <2>2 DEF SynchTypeOK, semVars
  <2>4. ArgOf(t) /\ "cond_release" \notin Downing /\ pc[t] \notin Downing
    BY <1>1, <1>18, <2>1 DEF CondWait, ArgOf, Downing, SynchTypeOK
  <2> QED
    BY <1>2, <2>1, <2>3, <2>4 DEF StepKind
<1>19. ASSUME SchedNext, UNCHANGED synchVars PROVE StepKind
  <2>1. \A t \in Threads : pc'[t] # pc[t] => pc[t] \in Labels /\ pc'[t] \in Labels
    BY <1>1, <1>19, SchedulerFrame DEF SynchTypeOK
  <2>2. Undisturbed(Threads)
    BY <1>19, <2>1 DEF Undisturbed, Wanted, synchVars, Downing, Labels
  <2> QED
    BY <1>19, <2>2 DEF StepKind, synchVars, semVars
<1>20. CASE UNCHANGED vars
  BY <1>3, <1>20 DEF vars, synchVars, schedVars, semVars, StepKind
<1>21. ASSUME NEW t \in Threads, SynchStep(t) PROVE StepKind
  BY <1>4, <1>5, <1>6, <1>7, <1>9, <1>10, <1>11, <1>12, <1>14, <1>16, <1>17, <1>18,
     <1>21 DEF SynchStep
<1>22. SchedulerStep \/ SynchTick => SchedNext /\ UNCHANGED synchVars
  BY DEF SchedulerStep, SynchTick, SchedNext
<1> QED
  BY <1>8, <1>19, <1>20, <1>21, <1>22 DEF SynchNext, Resume

\* sema_up wakes a waiter that no remaining waiter outranks, however the
\* priorities of others have changed since it joined.
THEOREM UpWakesHighest == SynchSpec => WakesHighestPriority
<1> DEFINE HighestWoken ==
      \A s \in Semaphores : \A t \in Threads :
        Contains(waiters[s], t) /\ ~Contains(waiters'[s], t)
          => \A u \in ToSet(waiters'[s]) : priority[u] <= priority[t]
<1>1. SynchInv /\ [SynchNext]_vars => HighestWoken
  <2> SUFFICES ASSUME SynchInv, [SynchNext]_vars, NEW s \in Semaphores, NEW t \in Threads,
                      Contains(waiters[s], t), ~Contains(waiters'[s], t),
                      NEW u \in ToSet(waiters'[s])
               PROVE  priority[u] <= priority[t]
    BY DEF HighestWoken
  <2>1. /\ waiters \in [Semaphores -> Seq(Threads)] /\ priority \in [Threads -> 0..PriMax]
        /\ IsOrdered(waiters[s], PriorityKey(priority)) /\ waiters[s] \in Seq(Threads)
    BY DEF SynchInv, SynchTypeOK, SchedStateOK, WaitersAgree
  <2>2. StepKind
    BY StepKinds
  <2>3. ASSUME NEW r \in Threads, NEW x \in Semaphores, WaitsFor(r, x) PROVE FALSE
    <3>1. waiters'[s] = waiters[s] \/ waiters'[s] = InsertOrdered(waiters[s], r, PriorityKey(priority))
      BY <2>1, <2>3 DEF WaitsFor
    <3>2. Contains(InsertOrdered(waiters[s], r, PriorityKey(priority)), t)
      BY <2>1, InsertOrderedMembers, PriorityKeyType, ZenonT(60)
    <3> QED
      BY <3>1, <3>2
  <2>4. PICK x \in Semaphores : Upped(x)
    BY <2>2, <2>3 DEF StepKind, Passes, semVars
  <2>5. waiters[s] # <<>> /\ waiters'[s] = Tail(waiters[s])
    BY <2>1, <2>4 DEF Upped
  <2>6. t = Head(waiters[s])
    BY <2>1, <2>5, PopFront
  <2>7. \A i \in 1..Len(Tail(waiters[s])) :
          PriorityKey(priority)[Head(waiters[s])] <= PriorityKey(priority)[Tail(waiters[s])[i]]
    BY <2>1, <2>5, PopFront
  <2>8. PICK i \in 1..Len(Tail(waiters[s])) : Tail(waiters[s])[i] = u
    BY <2>5 DEF ToSet
  <2>9. u \in Threads
    BY <2>1, <2>5, <2>8
  <2>10. PriorityKey(priority)[t] <= PriorityKey(priority)[u]
    BY <2>6, <2>7, <2>8
  <2>11. PriorityKey(priority)[t] = 0 - priority[t] /\ PriorityKey(priority)[u] = 0 - priority[u]
    BY <2>9 DEF PriorityKey
  <2>12. priority[t] \in Int /\ priority[u] \in Int
    BY <2>1, <2>9
  <2> QED
    BY <2>10, <2>11, <2>12
<1> QED
  BY <1>1, SynchInvariant, PTL DEF SynchSpec, WakesHighestPriority, HighestWoken

\* The downs that wait, as SemaphoreSpec sees them.
Pending == {p \in Threads \X Semaphores : pc[p[1]] \in Downing /\ Wanted(p[1]) = p[2]}

LEMMA PendingKept == Undisturbed(Threads) => Pending' = Pending
BY DEF Pending, Undisturbed

LEMMA StepImplements ==
  ASSUME SynchInv, [SynchNext]_vars PROVE [Abstract!Next]_Abstract!semaphoreVars
<1>1. /\ value \in [Semaphores -> Nat] /\ StepKind
  BY StepKinds DEF SynchInv, SynchTypeOK
<1>2. ASSUME NEW t \in Threads, NEW s \in Semaphores, Passes(t, s) PROVE Abstract!Next
  <2>1. value[s] > 0 /\ value' = [value EXCEPT ![s] = @ - 1]
    BY <1>2 DEF Passes
  <2>2. CASE pc[t] \in Downing
    <3>1. <<t, s>> \in Pending
      BY <1>2, <2>2 DEF Passes, Pending
    <3>2. Pending' = Pending \ {<<t, s>>}
      BY <1>2, <2>2 DEF Passes, Pending, Undisturbed
    <3>3. Abstract!TakeAfterWait(t, s)
      BY <2>1, <3>1, <3>2 DEF Abstract!TakeAfterWait, Pending
    <3> QED
      BY <3>3 DEF Abstract!Next
  <2>3. CASE pc[t] \notin Downing
    <3>1. Pending' = Pending
      BY <1>2, <2>3 DEF Passes, Pending, Undisturbed
    <3>2. Abstract!Take(s)
      BY <2>1, <3>1 DEF Abstract!Take, Pending
    <3> QED
      BY <3>2 DEF Abstract!Next
  <2> QED
    BY <2>2, <2>3
<1>3. ASSUME NEW t \in Threads, NEW s \in Semaphores, WaitsFor(t, s)
      PROVE  [Abstract!Next]_Abstract!semaphoreVars
  <2>1. value[s] = 0 /\ value' = value
    BY <1>3 DEF WaitsFor
  <2>2. CASE pc[t] \in Downing
    <3>1. Pending' = Pending
      BY <1>3, <2>2 DEF WaitsFor, Pending, Undisturbed
    <3> QED
      BY <2>1, <3>1 DEF Abstract!semaphoreVars, Pending
  <2>3. CASE pc[t] \notin Downing
    <3>1. \A x \in Semaphores : <<t, x>> \notin Pending
      BY <2>3 DEF Pending
    <3>2. Pending' = Pending \cup {<<t, s>>}
      BY <1>3, <2>3 DEF WaitsFor, Pending, Undisturbed
    <3>3. Abstract!Wait(t, s)
      BY <2>1, <3>1, <3>2 DEF Abstract!Wait, Pending
    <3> QED
      BY <3>3 DEF Abstract!Next
  <2> QED
    BY <2>2, <2>3
<1>4. ASSUME NEW s \in Semaphores, Upped(s) PROVE Abstract!Next
  <2>1. value' = [value EXCEPT ![s] = @ + 1] /\ Pending' = Pending
    BY <1>4, PendingKept DEF Upped
  <2>2. Abstract!Increment(s)
    BY <2>1 DEF Abstract!Increment, Pending
  <2> QED
    BY <2>2 DEF Abstract!Next
<1>5. ASSUME UNCHANGED semVars, Undisturbed(Threads) PROVE UNCHANGED Abstract!semaphoreVars
  BY <1>5, PendingKept DEF semVars, Abstract!semaphoreVars, Pending
<1> QED
  BY <1>1, <1>2, <1>3, <1>4, <1>5 DEF StepKind

\* The semaphores of synch.c implement SemaphoreSpec: whatever happens on the
\* ready list and the waiting lists, a down waits until the value is positive
\* and then decrements it in one step, and an up increments it.
THEOREM SemaphoresRefine == SynchSpec => ImplementsSemaphores
<1>1. SynchInit => Abstract!Init
  <2> SUFFICES ASSUME SynchInit PROVE Abstract!Init
    OBVIOUS
  <2>1. \A t \in Threads : pc[t] = "user"
    BY DEF SynchInit, SchedInit, AllThreads
  <2>2. Pending = {}
    BY <2>1 DEF Pending, Downing
  <2> QED
    BY <2>2 DEF SynchInit, Abstract!Init, Pending
<1>2. SynchInv /\ [SynchNext]_vars => [Abstract!Next]_Abstract!semaphoreVars
  BY StepImplements
<1> QED
  BY <1>1, <1>2, SynchInvariant, PTL DEF SynchSpec, ImplementsSemaphores, Abstract!Safety
=============================================================================
