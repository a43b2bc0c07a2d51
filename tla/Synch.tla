------------------------------- MODULE Synch -------------------------------
(***************************************************************************)
(* Semaphores, locks and condition variables (CSE4070/src/threads/synch.c) *)
(* on top of the scheduler.  A semaphore operation runs with interrupts    *)
(* off; a thread that blocked in sema_down comes back inside its loop,     *)
(* interrupts still off, and tests the value again.                        *)
(***************************************************************************)
EXTENDS Scheduler

CONSTANTS
  Sems,       \* semaphores the threads use directly
  InitValue,  \* their initial values
  Locks, Conds,
  CondLock,   \* the lock each condition variable is used with
  MaxValue,   \* bound: no sema_up on a semaphore of Sems beyond this value
  Null,       \* the holder of a free lock
  UserProg    \* the build defines USERPROG: sema_up does not yield

\* The semaphores: those of Sems, the one in each lock, and the one each
\* thread puts on its stack in cond_wait.
Semaphores == Sems \cup Locks \cup Threads

ASSUME SynchAssumption ==
  /\ Sems \cap Locks = {} /\ (Sems \cup Locks) \cap Threads = {}
  /\ Conds \cap Semaphores = {}
  /\ InitValue \in [Sems -> Nat] /\ MaxValue \in Nat
  /\ CondLock \in [Conds -> Locks]
  /\ Null \notin Semaphores \cup Conds
  /\ UserProg \in BOOLEAN /\ (UserProg => ~Aging)

VARIABLES
  value,         \* struct semaphore's value
  waiters,       \* struct semaphore's waiters
  holder,        \* struct lock's holder
  cond_waiters,  \* struct condition's waiters: the threads whose semaphores
  arg            \* the lock or semaphore each thread's call is about

semVars == <<value, waiters>>
synchVars == <<value, waiters, holder, cond_waiters, arg>>
vars == <<schedVars, synchVars>>

\* In the loop of sema_down, called directly, by lock_acquire, by cond_wait.
Downing == {"down", "lock_down", "cond_down"}

\* "hold": lock_acquire has the semaphore and has not set the holder;
\* "release", "cond_release": lock_release, called directly or by cond_wait, has
\* cleared the holder and not upped the semaphore; "cond_sleep": cond_wait is
\* about to down its semaphore; "cond_lock": it is about to reacquire the lock;
\* "broadcast": cond_broadcast is about to test its loop's condition.
SynchLabels == Downing \cup {"hold", "release", "cond_release", "cond_sleep",
                             "cond_lock", "broadcast"}

\* The semaphore a thread in Downing waits for.
Wanted(t) == IF pc[t] = "cond_down" THEN t ELSE arg[t]

Returned(t, label) == pc' = [pc EXCEPT ![t] = label]

InUser(t) == Running(t) /\ pc[t] = "user"

----------------------------------------------------------------------------
\* Mutants of SemaDown: `if' for `while', so that a woken thread does not test
\* the value again; and list_push_back for list_insert_ordered.
SemaDown_if(t, s, loop, done) ==
  \/ /\ value[s] > 0 \/ pc[t] \in Downing
     /\ value' = [value EXCEPT ![s] = @ - 1]
     /\ Returned(t, done)
     /\ UNCHANGED <<waiters, current, status, ready_list, thread_ticks>>
  \/ /\ value[s] = 0 /\ pc[t] \notin Downing
     /\ waiters' = [waiters EXCEPT
                      ![s] = InsertOrdered(@, t, PriorityKey(priority))]
     /\ Returned(t, loop)
     /\ BlockCPU
     /\ UNCHANGED value
SemaDown_push_back(t, s, loop, done) ==
  \/ /\ value[s] > 0
     /\ value' = [value EXCEPT ![s] = @ - 1]
     /\ Returned(t, done)
     /\ UNCHANGED <<waiters, current, status, ready_list, thread_ticks>>
  \/ /\ value[s] = 0
     /\ waiters' = [waiters EXCEPT ![s] = Append(@, t)]
     /\ Returned(t, loop)
     /\ BlockCPU
     /\ UNCHANGED value

\* sema_down(s) by t, from the call or from inside its loop: `loop' is the
\* label of the loop, `done' where t goes on afterwards.
SemaDown(t, s, loop, done) ==
  \/ /\ value[s] > 0
     /\ value' = [value EXCEPT ![s] = @ - 1]
     /\ Returned(t, done)
     /\ UNCHANGED <<waiters, current, status, ready_list, thread_ticks>>
  \/ /\ value[s] = 0
     /\ waiters' = [waiters EXCEPT
                      ![s] = InsertOrdered(@, t, PriorityKey(priority))]
     /\ Returned(t, loop)
     /\ BlockCPU
     /\ UNCHANGED value

\* sema_try_down(s) by t
SemaTryDown(t, s, done) ==
  /\ IF value[s] > 0
       THEN value' = [value EXCEPT ![s] = @ - 1] /\ Returned(t, done)
       ELSE UNCHANGED <<value, pc>>
  /\ UNCHANGED <<waiters, current, status, ready_list, thread_ticks>>

\* Mutants of SemaUp: the waiter is unblocked and left on the list (list_front
\* for list_pop_front); and nobody is woken.
SemaUp_front(s) ==
  LET list == waiters[s] IN
  /\ value' = [value EXCEPT ![s] = @ + 1]
  /\ ready_list' = IF list = <<>> THEN ready_list
                    ELSE Enqueue(ready_list, Head(list), priority)
  /\ status' = IF list = <<>> THEN status
                ELSE [status EXCEPT ![Head(list)] = "ready"]
  /\ UNCHANGED <<waiters, current, thread_ticks>>
SemaUp_no_wake(s) ==
  /\ value' = [value EXCEPT ![s] = @ + 1]
  /\ UNCHANGED <<waiters, ready_list, status, current, thread_ticks>>

\* sema_up(s) by the running thread: wakes the first waiter and, in the kernel
\* without user programs, yields.
SemaUp(s) ==
  LET list == waiters[s]
      ready == IF list = <<>> THEN ready_list
                              ELSE Enqueue(ready_list, Head(list), priority)
      stat == IF list = <<>> THEN status
                             ELSE [status EXCEPT ![Head(list)] = "ready"]
  IN  /\ value' = [value EXCEPT ![s] = @ + 1]
      /\ waiters' = [waiters EXCEPT ![s] = IF list = <<>> THEN @ ELSE Tail(@)]
      /\ IF UserProg
           THEN /\ ready_list' = ready /\ status' = stat
                /\ UNCHANGED <<current, thread_ticks>>
           ELSE Schedule(Enqueue(ready, current, priority),
                         [stat EXCEPT ![current] = "ready"])

\* What no operation of synch.c changes.
Frame == UNCHANGED <<priority, tick, sleep_list, wakeup_tick, ticks, isr>>

----------------------------------------------------------------------------
\* Calls of a thread, and the steps they go on with.

Down(t) ==
  /\ InUser(t)
  /\ \E s \in Sems : /\ SemaDown(t, s, "down", "user")
                     /\ arg' = [arg EXCEPT ![t] = s]
  /\ Frame /\ UNCHANGED <<holder, cond_waiters>>

TryDown(t) ==
  /\ InUser(t)
  /\ \E s \in Sems : SemaTryDown(t, s, "user")
  /\ Frame /\ UNCHANGED <<holder, cond_waiters, arg>>

Up(t) ==
  /\ InUser(t)
  /\ \E s \in Sems : value[s] < MaxValue /\ SemaUp(s)
  /\ Frame /\ UNCHANGED <<pc, holder, cond_waiters, arg>>

\* lock_acquire(l): asserts that the caller does not hold the lock.
Acquire(t) ==
  /\ InUser(t)
  /\ \E l \in Locks : /\ holder[l] # t
                      /\ SemaDown(t, l, "lock_down", "hold")
                      /\ arg' = [arg EXCEPT ![t] = l]
  /\ Frame /\ UNCHANGED <<holder, cond_waiters>>

TryAcquire(t) ==
  /\ InUser(t)
  /\ \E l \in Locks : /\ holder[l] # t
                      /\ SemaTryDown(t, l, "hold")
                      /\ arg' = [arg EXCEPT ![t] = l]
  /\ Frame /\ UNCHANGED <<holder, cond_waiters>>

\* Back in sema_down's loop, called from wherever it was.
DownAgain(t) ==
  /\ Running(t)
  /\ \/ pc[t] = "down" /\ SemaDown(t, arg[t], "down", "user")
     \/ pc[t] = "lock_down" /\ SemaDown(t, arg[t], "lock_down", "hold")
     \/ pc[t] = "cond_down" /\ SemaDown(t, t, "cond_down", "cond_lock")
  /\ Frame /\ UNCHANGED <<holder, cond_waiters, arg>>

\* lock->holder = thread_current()
Hold(t) ==
  /\ Running(t) /\ pc[t] = "hold"
  /\ holder' = [holder EXCEPT ![arg[t]] = t]
  /\ Returned(t, "user")
  /\ Frame
  /\ UNCHANGED <<semVars, cond_waiters, arg, current, status, ready_list,
                 thread_ticks>>

\* lock_release(l), called directly: lock->holder = NULL
Release(t) ==
  /\ InUser(t)
  /\ \E l \in Locks : /\ holder[l] = t
                      /\ holder' = [holder EXCEPT ![l] = Null]
                      /\ arg' = [arg EXCEPT ![t] = l]
  /\ Returned(t, "release")
  /\ Frame
  /\ UNCHANGED <<semVars, cond_waiters, current, status, ready_list,
                 thread_ticks>>

\* ... and its sema_up, also when cond_wait called it.
ReleaseUp(t) ==
  /\ Running(t)
  /\ \/ pc[t] = "release" /\ Returned(t, "user")
     \/ pc[t] = "cond_release" /\ Returned(t, "cond_sleep")
  /\ SemaUp(arg[t])
  /\ Frame /\ UNCHANGED <<holder, cond_waiters, arg>>

\* cond_wait(c, l) up to lock_release's holder assignment.  A new semaphore,
\* initially 0, joins the end of the waiters; the list is only touched by the
\* holder of the lock, so joining and clearing the holder are one step.
CondWait(t) ==
  /\ InUser(t)
  /\ \E c \in Conds :
       LET l == CondLock[c] IN
       /\ holder[l] = t
       /\ value' = [value EXCEPT ![t] = 0]
       /\ waiters' = [waiters EXCEPT ![t] = <<>>]
       /\ cond_waiters' = [cond_waiters EXCEPT ![c] = Append(@, t)]
       /\ holder' = [holder EXCEPT ![l] = Null]
       /\ arg' = [arg EXCEPT ![t] = l]
  /\ Returned(t, "cond_release")
  /\ Frame /\ UNCHANGED <<current, status, ready_list, thread_ticks>>

\* cond_wait's sema_down(&waiter.semaphore)
CondSleep(t) ==
  /\ Running(t) /\ pc[t] = "cond_sleep"
  /\ SemaDown(t, t, "cond_down", "cond_lock")
  /\ Frame /\ UNCHANGED <<holder, cond_waiters, arg>>

\* cond_wait's lock_acquire(lock)
CondLockAgain(t) ==
  /\ Running(t) /\ pc[t] = "cond_lock"
  /\ SemaDown(t, arg[t], "lock_down", "hold")
  /\ Frame /\ UNCHANGED <<holder, cond_waiters, arg>>

\* Mutant of SignalFront: list_front for list_pop_front.
SignalFront_front(c) ==
  /\ cond_waiters[c] # <<>>
  /\ SemaUp(Head(cond_waiters[c]))
  /\ UNCHANGED cond_waiters

\* The body of cond_signal when there is a waiter: the list and the semaphore
\* found in it are the lock holder's alone until the sema_up.
SignalFront(c) ==
  /\ cond_waiters[c] # <<>>
  /\ cond_waiters' = [cond_waiters EXCEPT ![c] = Tail(@)]
  /\ SemaUp(Head(cond_waiters[c]))

Signal(t) ==
  /\ InUser(t)
  /\ \E c \in Conds : holder[CondLock[c]] = t /\ SignalFront(c)
  /\ Frame /\ UNCHANGED <<pc, holder, arg>>

\* cond_broadcast(c): signals until no waiter is left.
Broadcast(t) ==
  /\ InUser(t)
  /\ \E c \in Conds : /\ holder[CondLock[c]] = t
                      /\ arg' = [arg EXCEPT ![t] = c]
  /\ Returned(t, "broadcast")
  /\ Frame
  /\ UNCHANGED <<semVars, holder, cond_waiters, current, status, ready_list,
                 thread_ticks>>

BroadcastNext(t) ==
  /\ Running(t) /\ pc[t] = "broadcast"
  /\ \/ SignalFront(arg[t]) /\ UNCHANGED pc
     \/ /\ cond_waiters[arg[t]] = <<>>
        /\ Returned(t, "user")
        /\ UNCHANGED <<semVars, cond_waiters, current, status, ready_list,
                       thread_ticks>>
  /\ Frame /\ UNCHANGED <<holder, arg>>

----------------------------------------------------------------------------
SynchInit ==
  /\ SchedInit
  /\ value = [s \in Semaphores |->
                IF s \in Sems THEN InitValue[s] ELSE IF s \in Locks THEN 1 ELSE 0]
  /\ waiters = [s \in Semaphores |-> <<>>]
  /\ holder = [l \in Locks |-> Null]
  /\ cond_waiters = [c \in Conds |-> <<>>]
  /\ arg = [t \in Threads |-> Null]

SynchStep(t) ==
  \/ Down(t) \/ TryDown(t) \/ Up(t)
  \/ Acquire(t) \/ TryAcquire(t) \/ Hold(t) \/ Release(t) \/ ReleaseUp(t)
  \/ CondWait(t) \/ CondSleep(t) \/ CondLockAgain(t)
  \/ Signal(t) \/ Broadcast(t) \/ BroadcastNext(t)

\* A timer interrupt needs interrupts on: not in the loop of sema_down.
SynchTick ==
  /\ pc[current] \notin Downing
  /\ TimerInterrupt
  /\ UNCHANGED synchVars

SchedulerStep ==
  /\ (\E t \in Threads : ThreadStep(t)) \/ IdleBlock \/ TickStep
  /\ UNCHANGED synchVars

Resume == \E t \in Threads : DownAgain(t)

SynchNext ==
  (\E t \in Threads : SynchStep(t)) \/ Resume \/ SchedulerStep \/ SynchTick

\* As for the scheduler; and a thread back in sema_down, which no interrupt can
\* take the CPU from, goes on.
SynchFairness ==
  /\ WF_vars(SynchTick) /\ WF_vars(TickStep /\ UNCHANGED synchVars)
  /\ WF_vars(Resume)

SynchSpec == SynchInit /\ [][SynchNext]_vars
FairSynchSpec == SynchSpec /\ SynchFairness

----------------------------------------------------------------------------
(* Properties *)

\* The refinement mapping: a down is pending from the first time its thread
\* finds the value 0 until it leaves sema_down's loop.
Abstract == INSTANCE SemaphoreSpec WITH
  InitialValues <- [s \in Semaphores |->
    IF s \in Sems THEN InitValue[s] ELSE IF s \in Locks THEN 1 ELSE 0],
  val <- value,
  pending <- {p \in Threads \X Semaphores :
                pc[p[1]] \in Downing /\ Wanted(p[1]) = p[2]}

\* The semaphores of synch.c under the scheduler implement SemaphoreSpec.
ImplementsSemaphores == Abstract!Safety

\* ... and serve their waiters, also when others of higher priority keep taking
\* the value: aging brings the woken waiter to the CPU.
ServesWaiters == \A s \in Semaphores : Abstract!Served(s)

\* The type invariant; in particular no semaphore's value goes below 0.
SynchTypeOK ==
  /\ SchedStateOK
  /\ pc \in [AllThreads -> Labels \cup SynchLabels \cup {"hlt", "loop"}]
  /\ value \in [Semaphores -> Nat]
  /\ waiters \in [Semaphores -> Seq(Threads)]
  /\ holder \in [Locks -> Threads \cup {Null}]
  /\ cond_waiters \in [Conds -> Seq(Threads)]
  /\ arg \in [Threads -> Sems \cup Locks \cup Conds \cup {Null}]

\* A thread is linked by its one elem into at most one of the ready list, the
\* sleep list and the waiters of the semaphores, once, and into the one its
\* status and its place in the code call for (thread.h: elem has a dual purpose
\* only because the lists are mutually exclusive); and the types are right.
ElemInOneList ==
  /\ SynchTypeOK
  /\ IsLinkedOnce(ready_list) /\ IsLinkedOnce(sleep_list)
  /\ \A s \in Semaphores : IsLinkedOnce(waiters[s])
  /\ \A t \in AllThreads : status[t] = "running" <=> current = t
  /\ \A t \in Threads :
       /\ status[t] = "ready" <=> Contains(ready_list, t)
       /\ \A s \in Semaphores :
            Contains(waiters[s], t)
              <=> status[t] = "blocked" /\ pc[t] \in Downing /\ s = Wanted(t)
       /\ Contains(sleep_list, t)
            <=> status[t] = "blocked" /\ pc[t] \notin Downing

\* Inside the critical section of l, from the successful down to the up.
Inside(t, l) ==
  \/ holder[l] = t
  \/ arg[t] = l /\ pc[t] \in {"hold", "release", "cond_release"}

\* A lock is free or has one thread inside, whatever threads are preempted
\* between moving its semaphore and setting its holder (lock_acquire,
\* lock_try_acquire, lock_release, cond_wait).
LockMutex ==
  \A l \in Locks :
    /\ value[l] \in {0, 1}
    /\ value[l] = 1 <=> \A t \in Threads : ~Inside(t, l)
    /\ \A t, u \in Threads : Inside(t, l) /\ Inside(u, l) => t = u

\* The threads that have been woken from s and have not tested its value yet.
Woken(s) ==
  {t \in Threads : pc[t] \in Downing /\ Wanted(t) = s /\ status[t] # "blocked"}

\* No wake-up is lost to a thread that takes the value between sema_up and the
\* woken thread's test: while threads wait for s, every unit of its value has
\* a woken thread on its way to it.
NoLostWakeup ==
  \A s \in Semaphores :
    waiters[s] # <<>> => value[s] <= Cardinality(Woken(s))

\* sema_up wakes a waiter that no remaining waiter outranks.
WakesHighestPriority ==
  [][\A s \in Semaphores : \A t \in Threads :
       Contains(waiters[s], t) /\ ~Contains(waiters'[s], t)
         => \A u \in ToSet(waiters'[s]) : priority[u] <= priority[t]]_vars

\* No signal is lost between cond_wait's release of the lock and its down, and
\* none is taken twice: a thread in cond_wait is either still among the waiters
\* or has been signalled, and only one of the two.
SignalNotLost ==
  \A t \in Threads :
    LET queued == {c \in Conds : Contains(cond_waiters[c], t)} IN
    IF pc[t] \in {"cond_release", "cond_sleep", "cond_down"}
      THEN \/ value[t] = 0 /\ Cardinality(queued) = 1
           \/ value[t] = 1 /\ queued = {}
      ELSE value[t] = 0 /\ queued = {}
=============================================================================
