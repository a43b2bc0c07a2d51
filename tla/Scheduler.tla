----------------------------- MODULE Scheduler -----------------------------
(***************************************************************************)
(* The Pintos thread scheduler and alarm clock: CSE4070/src/threads/       *)
(* thread.c, devices/timer.c and the interrupt return path of threads/     *)
(* interrupt.c.  One CPU; `current' runs with interrupts on between the    *)
(* steps below, so a timer interrupt may come between any two of them.     *)
(* The handler itself runs with interrupts off; it is broken into steps    *)
(* only to follow its loop, and nothing else is enabled until it returns.  *)
(***************************************************************************)
EXTENDS KernelLists, FiniteSets

CONSTANTS
  Threads,        \* every thread except the idle thread
  Idle,           \* the idle thread
  PriMax,         \* PRI_MAX; priorities are 0..PriMax
  InitPriority,   \* the priority each thread was created with
  NewPriorities,  \* the arguments thread_set_priority is called with
  Naps,           \* the arguments timer_sleep is called with
  TimeSlice,      \* TIME_SLICE
  MaxTicks,       \* bound: the tick counter saturates here
  INT64_MAX,      \* the wakeup_tick of an empty sleep list
  Aging           \* the kernel option thread_prior_aging

ASSUME SchedulerAssumption ==
  /\ Idle \notin Threads
  /\ IsFiniteSet(Threads) /\ Threads # {}
  /\ PriMax \in Nat /\ TimeSlice \in Nat \ {0}
  /\ InitPriority \in [Threads -> 0..PriMax]
  /\ NewPriorities \subseteq 0..PriMax
  /\ Naps \subseteq Int
  /\ MaxTicks \in Nat /\ INT64_MAX \in Nat /\ MaxTicks < INT64_MAX
  /\ Aging \in BOOLEAN

VARIABLES
  current,        \* running_thread()
  status,         \* struct thread's status
  priority,       \* struct thread's priority
  tick,           \* struct thread's tick (the time it sleeps until)
  pc,             \* where each thread is: see Labels
  ready_list,
  sleep_list,
  wakeup_tick,
  ticks,          \* the tick count of devices/timer.c
  thread_ticks,   \* ticks since the last switch
  isr             \* where the timer interrupt handler is

schedVars == <<current, status, priority, tick, pc, ready_list, sleep_list,
               wakeup_tick, ticks, thread_ticks, isr>>

AllThreads == Threads \cup {Idle}

\* "user": outside the functions modelled; "preempt": thread_set_priority has
\* stored the priority and has not compared it yet; "sleep": timer_sleep has
\* read the clock and has not called thread_sleep yet.
Labels == {"user", "preempt", "sleep"}

----------------------------------------------------------------------------
\* priority_comp orders by decreasing priority.
PriorityKey(prio) == [t \in Threads |-> 0 - prio[t]]

\* Mutant of Enqueue: list_push_back, as in the kernel before priorities.
Enqueue_push_back(list, t, prio) == Append(list, t)

\* thread_yield and thread_unblock put t on the ready list.
Enqueue(list, t, prio) == InsertOrdered(list, t, PriorityKey(prio))

\* schedule() and thread_schedule_tail(): the front of the ready list runs,
\* the idle thread when the list is empty.  `list' is the ready list and
\* `stat' the statuses when schedule() is called.
Schedule(list, stat) ==
  /\ current' = IF list = <<>> THEN Idle ELSE Head(list)
  /\ ready_list' = IF list = <<>> THEN <<>> ELSE Tail(list)
  /\ status' = [stat EXCEPT ![IF list = <<>> THEN Idle ELSE Head(list)]
                  = "running"]
  /\ thread_ticks' = 0

\* thread_yield(): the idle thread is never put on the ready list.
YieldCPU(prio) ==
  Schedule(IF current = Idle THEN ready_list
                             ELSE Enqueue(ready_list, current, prio),
           [status EXCEPT ![current] = "ready"])

\* Mutant of BlockCPU: the thread yields, so it stays runnable.
BlockCPU_yields == YieldCPU(priority)

\* thread_block()
BlockCPU == Schedule(ready_list, [status EXCEPT ![current] = "blocked"])

Running(t) == current = t /\ isr = "none"

----------------------------------------------------------------------------
\* main has created the other threads, which are ready in priority order.
SchedInit ==
  /\ current \in Threads
  /\ status = [t \in AllThreads |->
                 IF t = Idle THEN "blocked"
                 ELSE IF t = current THEN "running" ELSE "ready"]
  /\ priority = InitPriority
  /\ tick = [t \in Threads |-> 0]
  /\ pc = [t \in AllThreads |-> IF t = Idle THEN "hlt" ELSE "user"]
  /\ ready_list \in SetToSeqs(Threads \ {current})
  /\ ToSet(ready_list) = Threads \ {current}
  /\ IsOrdered(ready_list, PriorityKey(priority))
  /\ sleep_list = <<>>
  /\ wakeup_tick = INT64_MAX
  /\ ticks = 0
  /\ thread_ticks = 0
  /\ isr = "none"

----------------------------------------------------------------------------
\* Calls of the running thread.

\* thread_yield()
Yield(t) ==
  /\ Running(t) /\ pc[t] = "user"
  /\ YieldCPU(priority)
  /\ UNCHANGED <<priority, tick, pc, sleep_list, wakeup_tick, ticks, isr>>

\* thread_set_priority(p), up to the comparison
SetPriority(t) ==
  /\ Running(t) /\ pc[t] = "user"
  /\ \E p \in NewPriorities : priority' = [priority EXCEPT ![t] = p]
  /\ pc' = [pc EXCEPT ![t] = "preempt"]
  /\ UNCHANGED <<current, status, tick, ready_list, sleep_list, wakeup_tick,
                 ticks, thread_ticks, isr>>

\* priority_comp(list_begin(&ready_list), ...): when the ready list is empty
\* list_begin is its tail, and the priority read there is whatever lies before
\* the list in memory, so the outcome of the comparison is arbitrary.
OutrankedByFront(t, outranked) ==
  ready_list # <<>> => outranked = (priority[Head(ready_list)] > priority[t])

\* ... the comparison, and thread_yield() if it says so.
PreemptSelf(t) ==
  /\ Running(t) /\ pc[t] = "preempt"
  /\ pc' = [pc EXCEPT ![t] = "user"]
  /\ \E outranked \in BOOLEAN :
       /\ OutrankedByFront(t, outranked)
       /\ IF outranked
            THEN YieldCPU(priority)
            ELSE UNCHANGED <<current, status, ready_list, thread_ticks>>
  /\ UNCHANGED <<priority, tick, sleep_list, wakeup_tick, ticks, isr>>

\* timer_sleep(n) reads the clock with interrupts on; the sum is kept in tick,
\* the member thread_sleep stores it in.
TimerSleep(t) ==
  /\ Running(t) /\ pc[t] = "user"
  /\ \E n \in Naps : /\ ticks + n <= MaxTicks
                     /\ tick' = [tick EXCEPT ![t] = ticks + n]
  /\ pc' = [pc EXCEPT ![t] = "sleep"]
  /\ UNCHANGED <<current, status, priority, ready_list, sleep_list,
                 wakeup_tick, ticks, thread_ticks, isr>>

\* thread_sleep(tick[t]), with interrupts off
ThreadSleep(t) ==
  /\ Running(t) /\ pc[t] = "sleep"
  /\ pc' = [pc EXCEPT ![t] = "user"]
  /\ wakeup_tick' = IF wakeup_tick > tick[t] THEN tick[t] ELSE wakeup_tick
  /\ sleep_list' = InsertOrdered(sleep_list, t, tick)
  /\ BlockCPU
  /\ UNCHANGED <<priority, tick, ticks, isr>>

\* idle(): after the interrupt that ended hlt, thread_block() again.
IdleBlock ==
  /\ Running(Idle) /\ pc[Idle] = "loop"
  /\ pc' = [pc EXCEPT ![Idle] = "hlt"]
  /\ BlockCPU
  /\ UNCHANGED <<priority, tick, sleep_list, wakeup_tick, ticks, isr>>

----------------------------------------------------------------------------
\* The timer interrupt: timer_interrupt, thread_tick, end of intr_handler.

\* Bound: the last tick stands for all later ones.
NextTick == IF ticks < MaxTicks THEN ticks + 1 ELSE ticks

TimerInterrupt ==
  /\ isr = "none"
  /\ ticks' = NextTick
  /\ thread_ticks' = thread_ticks + 1
  /\ isr' = IF NextTick >= wakeup_tick THEN "wake" ELSE "return"
  /\ UNCHANGED <<current, status, priority, tick, pc, ready_list, sleep_list,
                 wakeup_tick>>

\* Mutant of WakeFront: the loop does not test the sleeper's tick.
WakeFront_untested ==
  /\ isr = "wake"
  /\ ready_list' = Enqueue(ready_list, Head(sleep_list), priority)
  /\ status' = [status EXCEPT ![Head(sleep_list)] = "ready"]
  /\ sleep_list' = Tail(sleep_list)
  /\ IF Tail(sleep_list) = <<>>
       THEN isr' = "return" /\ wakeup_tick' = INT64_MAX
       ELSE UNCHANGED <<isr, wakeup_tick>>
  /\ UNCHANGED <<current, priority, tick, pc, ticks, thread_ticks>>

\* One round of the wake-up loop: the front sleeper is due.
WakeFront ==
  /\ isr = "wake"
  /\ LET t == Head(sleep_list) IN
       /\ tick[t] <= wakeup_tick
       /\ ready_list' = Enqueue(ready_list, t, priority)
       /\ status' = [status EXCEPT ![t] = "ready"]
  /\ sleep_list' = Tail(sleep_list)
  /\ IF Tail(sleep_list) = <<>>
       THEN isr' = "return" /\ wakeup_tick' = INT64_MAX
       ELSE UNCHANGED <<isr, wakeup_tick>>
  /\ UNCHANGED <<current, priority, tick, pc, ticks, thread_ticks>>

\* The loop breaks: the front sleeper is later than wakeup_tick.
WakeBreak ==
  /\ isr = "wake"
  /\ tick[Head(sleep_list)] > wakeup_tick
  /\ wakeup_tick' = tick[Head(sleep_list)]
  /\ isr' = "return"
  /\ UNCHANGED <<current, status, priority, tick, pc, ready_list, sleep_list,
                 ticks, thread_ticks>>

\* Mutant of AgedPriority: it begins again at the limit.
AgedPriority_wraps ==
  [t \in Threads |->
     IF Aging /\ Contains(ready_list, t)
       THEN IF priority[t] = PriMax THEN 0 ELSE priority[t] + 1
       ELSE priority[t]]

\* thread_aging(), when the option is set
AgedPriority ==
  [t \in Threads |->
     IF Aging /\ Contains(ready_list, t) /\ priority[t] # PriMax
       THEN priority[t] + 1 ELSE priority[t]]

\* Mutant of InterruptReturn: intr_yield_on_return is forgotten.
InterruptReturn_no_yield ==
  /\ isr = "return"
  /\ isr' = "none"
  /\ priority' = AgedPriority
  /\ pc' = [pc EXCEPT ![Idle] = IF current = Idle THEN "loop" ELSE @]
  /\ thread_ticks' = IF thread_ticks >= TimeSlice THEN 0 ELSE thread_ticks
  /\ UNCHANGED <<current, status, ready_list, tick, sleep_list, wakeup_tick,
                 ticks>>

\* The rest of thread_tick, and thread_yield() on the way out of intr_handler
\* when the time slice is used up.  The interrupt ends the idle thread's hlt.
InterruptReturn ==
  /\ isr = "return"
  /\ isr' = "none"
  /\ priority' = AgedPriority
  /\ pc' = [pc EXCEPT ![Idle] = IF current = Idle THEN "loop" ELSE @]
  /\ IF thread_ticks >= TimeSlice
       THEN YieldCPU(AgedPriority)
       ELSE UNCHANGED <<current, status, ready_list, thread_ticks>>
  /\ UNCHANGED <<tick, sleep_list, wakeup_tick, ticks>>

TickStep == WakeFront \/ WakeBreak \/ InterruptReturn

----------------------------------------------------------------------------
ThreadStep(t) ==
  Yield(t) \/ SetPriority(t) \/ PreemptSelf(t) \/ TimerSleep(t)
    \/ ThreadSleep(t)

SchedNext ==
  (\E t \in Threads : ThreadStep(t)) \/ IdleBlock \/ TimerInterrupt \/ TickStep

\* The clock never stops, and the handler runs to its end.  Nothing is assumed
\* of the threads: a running thread may compute for ever.
SchedFairness == WF_schedVars(TimerInterrupt) /\ WF_schedVars(TickStep)

SchedSpec == SchedInit /\ [][SchedNext]_schedVars
FairSchedSpec == SchedSpec /\ SchedFairness

----------------------------------------------------------------------------
(* Properties *)

\* All of the scheduler's state but the labels, to which Synch adds its own.
SchedStateOK ==
  /\ current \in AllThreads
  /\ status \in [AllThreads -> {"running", "ready", "blocked"}]
  /\ priority \in [Threads -> 0..PriMax]
  /\ tick \in [Threads -> {n \in Int : n <= MaxTicks}]
  /\ ready_list \in Seq(Threads) /\ sleep_list \in Seq(Threads)
  /\ wakeup_tick \in Int /\ ticks \in 0..MaxTicks /\ thread_ticks \in Nat
  /\ isr \in {"none", "wake", "return"}

\* The type invariant; priorities stay within PRI_MIN and PRI_MAX under
\* thread_aging.
SchedTypeOK ==
  SchedStateOK /\ pc \in [AllThreads -> Labels \cup {"hlt", "loop"}]

\* The one list element a thread has links it into the ready list exactly when
\* it is ready and into the sleep list exactly when it is blocked, never twice
\* (the sharing of struct thread's elem, thread.h).
ElemSharedSafely ==
  /\ IsLinkedOnce(ready_list) /\ IsLinkedOnce(sleep_list)
  /\ \A t \in AllThreads : status[t] = "running" <=> current = t
  /\ \A t \in Threads :
       /\ status[t] = "ready"   <=> Contains(ready_list, t)
       /\ status[t] = "blocked" <=> Contains(sleep_list, t)

\* Both lists stay ordered, although priorities change under the ready list
\* (thread_aging) and ticks are taken before they are inserted; and wakeup_tick
\* is the tick of the first sleeper whenever the handler is to test it, so its
\* loop never takes the front of an empty list.
ListsOrdered ==
  /\ IsOrdered(ready_list, PriorityKey(priority))
  /\ IsOrdered(sleep_list, tick)
  /\ isr # "wake" => wakeup_tick = IF sleep_list = <<>> THEN INT64_MAX
                                   ELSE tick[Head(sleep_list)]
  /\ isr = "wake" => sleep_list # <<>>

\* What every operation of the scheduler finds: the types and the order of the lists.
SchedConsistent == SchedTypeOK /\ ListsOrdered

\* No thread is woken before the tick it sleeps until (timer_sleep).
NoEarlyWakeup ==
  [][\A t \in Threads :
       Contains(sleep_list, t) /\ ~Contains(sleep_list', t)
         => tick[t] <= ticks]_schedVars

\* Whenever the CPU is given to another thread, no ready thread outranks it
\* (thread_create, thread_set_priority, thread_yield: the highest priority
\* thread runs).
HighestPriorityRuns ==
  [][current' # current =>
       /\ ready_list' # <<>> => current' # Idle
       /\ \A t \in ToSet(ready_list') : priority'[t] <= priority'[current']
     ]_schedVars

\* Every sleeper is woken in the end, also one that went to sleep late, its
\* tick already past, and behind sleepers with other ticks.
SleeperWakes ==
  \A t \in Threads : Contains(sleep_list, t) ~> status[t] = "ready"

\* A ready thread gets the CPU in the end, even if no thread ever gives it up:
\* among threads of one priority by the time slice, among any by aging.
NoStarvation ==
  \A t \in Threads : status[t] = "ready" ~> current = t

\* Threads go on: those that sleep wake up, and those that are ready run.
ThreadsGoOn == SleeperWakes /\ NoStarvation

\* What the comment in the wake-up loop says ("Loop must be stopped when lowest
\* tick in sleep_list is greater than current tick"): after the loop every
\* remaining sleeper's tick is in the future.
WakesAllDue ==
  isr = "return" => \A t \in ToSet(sleep_list) : tick[t] > ticks
=============================================================================
