-------------------------- MODULE SchedulerProofs --------------------------
(***************************************************************************)
(* The scheduler's lists and the alarm clock are correct for any number of *)
(* threads, any priorities and any time slice.                             *)
(***************************************************************************)
EXTENDS Scheduler, FiniteSetTheorems, WellFoundedInduction, SequenceTheorems, TLAPS

----------------------------------------------------------------------------
(* What list_insert_ordered and list_pop_front do to a list whose elements *)
(* are in T, stated through membership and order.                          *)

\* A nonempty set of positive numbers has a least element, which Min returns.
LEMMA MinExists ==
  ASSUME NEW S \in SUBSET (Nat \ {0}), S # {}
  PROVE  Min(S) \in S /\ \A x \in S : Min(S) <= x
<1> DEFINE R == {p \in Nat \X Nat : p[1] < p[2]}
<1>1. IsWellFoundedOn(R, Nat)
  BY NatLessThanWellFounded DEF OpToRel
<1>2. \A m, n \in Nat : <<m, n>> \in R <=> m < n
  OBVIOUS
<1>3. S \subseteq Nat
  OBVIOUS
<1> HIDE DEF R
<1>4. PICK n \in S : \A m \in S : ~(<<m, n>> \in R)
  BY <1>1, <1>3, WFMin
<1>5. ASSUME NEW m \in S PROVE n <= m
  <2>1. m \in Nat /\ n \in Nat /\ ~(<<m, n>> \in R)
    BY <1>3, <1>4
  <2> QED
    BY <2>1, <1>2
<1> QED
  BY <1>5 DEF Min

\* Inserting at a position shifts what is at it and behind it.
LEMMA InsertAtElements ==
  ASSUME NEW T, NEW list \in Seq(T), NEW x \in T, NEW p \in 1..Len(list) + 1
  PROVE  /\ InsertAt(list, p, x) \in Seq(T)
         /\ Len(InsertAt(list, p, x)) = Len(list) + 1
         /\ \A i \in 1..Len(list) + 1 :
              InsertAt(list, p, x)[i] =
                IF i < p THEN list[i] ELSE IF i = p THEN x ELSE list[i - 1]
<1> DEFINE front == SubSeq(list, 1, p - 1)
           back == SubSeq(list, p, Len(list))
<1>1. /\ front \in Seq(T) /\ Len(front) = p - 1
      /\ \A i \in 1..p - 1 : front[i] = list[i]
  OBVIOUS
<1>2. /\ back \in Seq(T) /\ Len(back) = Len(list) - p + 1
      /\ \A i \in 1..Len(list) - p + 1 : back[i] = list[p + i - 1]
  OBVIOUS
<1> HIDE DEF front, back
<1>3. /\ front \o <<x>> \in Seq(T) /\ Len(front \o <<x>>) = p
      /\ \A i \in 1..p : (front \o <<x>>)[i] = IF i < p THEN list[i] ELSE x
  BY <1>1
<1> DEFINE half == front \o <<x>>
<1> HIDE DEF half
<1>4. /\ half \in Seq(T) /\ Len(half) = p
      /\ \A i \in 1..p : half[i] = IF i < p THEN list[i] ELSE x
  BY <1>3 DEF half
<1>5. /\ half \o back \in Seq(T) /\ Len(half \o back) = Len(list) + 1
      /\ \A i \in 1..Len(list) + 1 :
           (half \o back)[i] = IF i <= p THEN half[i] ELSE back[i - p]
  <2>1. /\ half \o back \in Seq(T) /\ Len(half \o back) = Len(half) + Len(back)
        /\ \A i \in 1..Len(half) + Len(back) :
             (half \o back)[i] = IF i <= Len(half) THEN half[i]
                                                   ELSE back[i - Len(half)]
    BY <1>2, <1>4, ConcatProperties
  <2>2. Len(half) = p /\ Len(half) + Len(back) = Len(list) + 1
    BY <1>2, <1>4
  <2> QED
    BY <2>1, <2>2
<1>6. InsertAt(list, p, x) = half \o back
  BY DEF InsertAt, half, front, back
<1>7. \A i \in 1..Len(list) + 1 : i > p => back[i - p] = list[i - 1]
  BY <1>2
<1> QED
  BY <1>4, <1>5, <1>6, <1>7

\* res is list with x inserted at p.
InsertedAt(res, list, x, p) ==
  /\ Len(res) = Len(list) + 1
  /\ \A i \in 1..Len(list) + 1 :
       res[i] = IF i < p THEN list[i] ELSE IF i = p THEN x ELSE list[i - 1]

\* x belongs at p: nothing before p is greater and what is at p is.
OrderedAround(list, x, key, p) ==
  /\ \A i \in 1..p - 1 : key[list[i]] <= key[x]
  /\ p <= Len(list) => key[x] < key[list[p]]

\* InsertOrdered inserts at a position that has no greater element before it
\* and, unless it is the end, a greater one at it.
LEMMA InsertOrderedPosition ==
  ASSUME NEW T, NEW list \in Seq(T), NEW x \in T, NEW key \in [T -> Int]
  PROVE  /\ InsertOrdered(list, x, key) \in Seq(T)
         /\ \E p \in 1..Len(list) + 1 :
              /\ InsertedAt(InsertOrdered(list, x, key), list, x, p)
              /\ OrderedAround(list, x, key, p)
<1> DEFINE greater == {i \in 1..Len(list) : key[x] < key[list[i]]}
<1>0. \A i \in 1..Len(list) : key[list[i]] \in Int
  OBVIOUS
<1>1. CASE greater = {}
  <2>1. InsertOrdered(list, x, key) = Append(list, x)
    BY <1>1 DEF InsertOrdered
  <2>2. /\ Append(list, x) \in Seq(T) /\ Len(Append(list, x)) = Len(list) + 1
        /\ \A i \in 1..Len(list) + 1 :
             Append(list, x)[i] = IF i < Len(list) + 1 THEN list[i] ELSE x
    OBVIOUS
  <2>3. \A i \in 1..Len(list) : key[list[i]] <= key[x]
    BY <1>0, <1>1
  <2>4. Len(list) + 1 \in 1..Len(list) + 1
    OBVIOUS
  <2>5. InsertedAt(Append(list, x), list, x, Len(list) + 1)
    BY <2>2 DEF InsertedAt
  <2>6. OrderedAround(list, x, key, Len(list) + 1)
    BY <2>3 DEF OrderedAround
  <2> QED
    BY <2>1, <2>2, <2>4, <2>5, <2>6
<1>2. CASE greater # {}
  <2>1. greater \in SUBSET (Nat \ {0})
    OBVIOUS
  <2>2. InsertOrdered(list, x, key) = InsertAt(list, Min(greater), x)
    BY <1>2 DEF InsertOrdered
  <2>3. PICK p \in greater :
          /\ InsertOrdered(list, x, key) = InsertAt(list, p, x)
          /\ \A i \in greater : p <= i
    BY <1>2, <2>1, <2>2, MinExists
  <2>4. p \in 1..Len(list) /\ key[x] < key[list[p]]
    BY <2>3
  <2>5. \A i \in 1..p - 1 : key[list[i]] <= key[x]
    BY <1>0, <2>3, <2>4
  <2>6. p \in 1..Len(list) + 1
    BY <2>4
  <2>7. /\ InsertAt(list, p, x) \in Seq(T)
        /\ Len(InsertAt(list, p, x)) = Len(list) + 1
        /\ \A i \in 1..Len(list) + 1 :
             InsertAt(list, p, x)[i] =
               IF i < p THEN list[i] ELSE IF i = p THEN x ELSE list[i - 1]
    BY <2>6, InsertAtElements
  <2>8. InsertedAt(InsertAt(list, p, x), list, x, p)
    BY <2>7 DEF InsertedAt
  <2>9. OrderedAround(list, x, key, p)
    BY <2>4, <2>5 DEF OrderedAround
  <2> QED
    BY <2>3, <2>6, <2>7, <2>8, <2>9
<1> QED
  BY <1>1, <1>2

\* InsertOrdered adds x to the list and nothing else.
LEMMA InsertOrderedMembers ==
  ASSUME NEW T, NEW list \in Seq(T), NEW x \in T, NEW key \in [T -> Int]
  PROVE  /\ InsertOrdered(list, x, key) \in Seq(T)
         /\ InsertOrdered(list, x, key) # <<>>
         /\ \A y \in T : Contains(InsertOrdered(list, x, key), y)
                           <=> y = x \/ Contains(list, y)
<1> DEFINE res == InsertOrdered(list, x, key)
<1>0. PICK p \in 1..Len(list) + 1 : InsertedAt(res, list, x, p)
  BY InsertOrderedPosition
<1>0a. res \in Seq(T)
  BY InsertOrderedPosition
<1> HIDE DEF res
<1>1. /\ res \in Seq(T)
      /\ Len(res) = Len(list) + 1
      /\ \A i \in 1..Len(list) + 1 :
           res[i] = IF i < p THEN list[i] ELSE IF i = p THEN x ELSE list[i - 1]
  BY <1>0, <1>0a DEF InsertedAt
<1>2. ASSUME NEW y \in T, Contains(list, y) PROVE Contains(res, y)
  <2>1. PICK i \in 1..Len(list) : list[i] = y
    BY <1>2 DEF Contains
  <2>2. CASE i < p
    BY <1>1, <2>1, <2>2 DEF Contains
  <2>3. CASE ~(i < p)
    <3>1. i + 1 \in 1..Len(list) + 1 /\ res[i + 1] = list[i]
      BY <1>1, <2>3
    <3> QED
      BY <1>1, <2>1, <3>1 DEF Contains
  <2> QED
    BY <2>2, <2>3
<1>3. Contains(res, x)
  BY <1>1 DEF Contains
<1>4. ASSUME NEW y \in T, Contains(res, y) PROVE y = x \/ Contains(list, y)
  <2>0. PICK i \in 1..Len(res) : res[i] = y
    BY <1>4 DEF Contains
  <2>1. i \in 1..Len(list) + 1 /\ res[i] = y
    BY <1>1, <2>0
  <2>2. CASE i < p
    BY <1>1, <2>1, <2>2, SMTT(30) DEF Contains
  <2>3. CASE i > p
    <3>1. i - 1 \in 1..Len(list) /\ list[i - 1] = y
      BY <1>1, <2>1, <2>3
    <3> QED
      BY <3>1 DEF Contains
  <2> QED
    BY <1>1, <2>1, <2>2, <2>3
<1> QED
  BY <1>1, <1>2, <1>3, <1>4 DEF res

\* ... and links it once, if it was not in the list.
LEMMA InsertOrderedLinkedOnce ==
  ASSUME NEW T, NEW list \in Seq(T), NEW x \in T, NEW key \in [T -> Int],
         IsLinkedOnce(list), ~Contains(list, x)
  PROVE  IsLinkedOnce(InsertOrdered(list, x, key))
<1> DEFINE res == InsertOrdered(list, x, key)
<1>0. PICK p \in 1..Len(list) + 1 : InsertedAt(res, list, x, p)
  BY InsertOrderedPosition
<1> HIDE DEF res
<1>1. /\ Len(res) = Len(list) + 1
      /\ \A i \in 1..Len(list) + 1 :
           res[i] = IF i < p THEN list[i] ELSE IF i = p THEN x ELSE list[i - 1]
  BY <1>0 DEF InsertedAt
<1>2. \A i \in 1..Len(list) : list[i] # x
  BY DEF Contains
<1>3. ASSUME NEW i \in 1..Len(list) + 1, NEW j \in 1..Len(list) + 1, i < j
      PROVE  res[i] # res[j]
  <2>1. CASE j < p
    <3>1. i \in 1..Len(list) /\ j \in 1..Len(list) /\ i # j
            /\ res[i] = list[i] /\ res[j] = list[j]
      BY <1>1, <1>3, <2>1
    <3> QED
      BY <3>1 DEF IsLinkedOnce
  <2>2. CASE j = p
    BY <1>1, <1>2, <1>3, <2>2
  <2>3. CASE j > p /\ i < p
    <3>1. i \in 1..Len(list) /\ j - 1 \in 1..Len(list) /\ i # j - 1
            /\ res[i] = list[i] /\ res[j] = list[j - 1]
      BY <1>1, <1>3, <2>3
    <3> QED
      BY <3>1 DEF IsLinkedOnce
  <2>4. CASE j > p /\ i = p
    <3>1. j - 1 \in 1..Len(list) /\ res[i] = x /\ res[j] = list[j - 1]
      BY <1>1, <1>3, <2>4
    <3> QED
      BY <1>2, <3>1
  <2>5. CASE j > p /\ i > p
    <3>1. i - 1 \in 1..Len(list) /\ j - 1 \in 1..Len(list) /\ i - 1 # j - 1
            /\ res[i] = list[i - 1] /\ res[j] = list[j - 1]
      BY <1>1, <1>3, <2>5
    <3> QED
      BY <3>1 DEF IsLinkedOnce
  <2> QED
    BY <1>3, <2>1, <2>2, <2>3, <2>4, <2>5
<1>4. \A i, j \in 1..Len(list) + 1 : i # j => i < j \/ j < i
  OBVIOUS
<1> QED
  BY <1>1, <1>3, <1>4 DEF IsLinkedOnce, res

\* An ordered list stays ordered.
LEMMA InsertOrderedOrdered ==
  ASSUME NEW T, NEW list \in Seq(T), NEW x \in T, NEW key \in [T -> Int],
         IsOrdered(list, key)
  PROVE  IsOrdered(InsertOrdered(list, x, key), key)
<1> DEFINE res == InsertOrdered(list, x, key)
<1>0. PICK p \in 1..Len(list) + 1 :
        InsertedAt(res, list, x, p) /\ OrderedAround(list, x, key, p)
  BY InsertOrderedPosition
<1> HIDE DEF res
<1>1. /\ Len(res) = Len(list) + 1
      /\ \A i \in 1..Len(list) + 1 :
           res[i] = IF i < p THEN list[i] ELSE IF i = p THEN x ELSE list[i - 1]
      /\ \A i \in 1..p - 1 : key[list[i]] <= key[x]
      /\ p <= Len(list) => key[x] < key[list[p]]
  BY <1>0 DEF InsertedAt, OrderedAround
<1>2. /\ key[x] \in Int
      /\ \A i \in 1..Len(list) : key[list[i]] \in Int
  OBVIOUS
<1>3. ASSUME NEW i \in 1..Len(list), i >= p
      PROVE  key[x] <= key[list[i]]
  <2>1. p \in 1..Len(list) /\ key[x] < key[list[p]]
    BY <1>1, <1>3
  <2>2. i = p \/ key[list[p]] <= key[list[i]]
    BY <1>3, <2>1 DEF IsOrdered
  <2> QED
    BY <1>2, <2>1, <2>2
<1>4. ASSUME NEW i \in 1..Len(list) + 1, NEW j \in 1..Len(list) + 1, i < j
      PROVE  key[res[i]] <= key[res[j]]
  <2>1. CASE j < p
    <3>1. i \in 1..Len(list) /\ j \in 1..Len(list)
            /\ res[i] = list[i] /\ res[j] = list[j]
      BY <1>1, <1>4, <2>1
    <3> QED
      BY <1>4, <3>1 DEF IsOrdered
  <2>2. CASE j = p
    BY <1>1, <1>4, <2>2
  <2>3. CASE j > p /\ i < p
    <3>1. res[i] = list[i] /\ res[j] = list[j - 1] /\ i \in 1..Len(list)
            /\ j - 1 \in 1..Len(list) /\ j - 1 >= p
      BY <1>1, <1>4, <2>3
    <3>2. key[list[i]] <= key[x] /\ key[x] <= key[list[j - 1]]
      BY <1>1, <1>3, <2>3, <3>1
    <3> QED
      BY <1>2, <3>1, <3>2
  <2>4. CASE j > p /\ i = p
    <3>1. res[i] = x /\ res[j] = list[j - 1]
            /\ j - 1 \in 1..Len(list) /\ j - 1 >= p
      BY <1>1, <1>4, <2>4
    <3> QED
      BY <1>3, <3>1
  <2>5. CASE j > p /\ i > p
    <3>1. res[i] = list[i - 1] /\ res[j] = list[j - 1]
            /\ i - 1 \in 1..Len(list) /\ j - 1 \in 1..Len(list)
            /\ i - 1 < j - 1
      BY <1>1, <1>4, <2>5
    <3> QED
      BY <3>1 DEF IsOrdered
  <2> QED
    BY <1>4, <2>1, <2>2, <2>3, <2>4, <2>5
<1> QED
  BY <1>1, <1>4 DEF IsOrdered, res

\* list_pop_front: the front goes, the rest keeps its order.
LEMMA PopFront ==
  ASSUME NEW T, NEW list \in Seq(T), list # <<>>
  PROVE  /\ Head(list) \in T /\ Tail(list) \in Seq(T)
         /\ Contains(list, Head(list))
         /\ \A y : Contains(list, y)
                     <=> y = Head(list) \/ Contains(Tail(list), y)
         /\ IsLinkedOnce(list)
              => IsLinkedOnce(Tail(list)) /\ ~Contains(Tail(list), Head(list))
         /\ \A key : IsOrdered(list, key) =>
              /\ IsOrdered(Tail(list), key)
              /\ \A i \in 1..Len(Tail(list)) :
                   key[Head(list)] <= key[Tail(list)[i]]
<1>1. /\ Head(list) = list[1] /\ Head(list) \in T
      /\ Tail(list) \in Seq(T) /\ Len(list) \in Nat /\ Len(list) >= 1
      /\ Len(Tail(list)) = Len(list) - 1
      /\ \A i \in 1..Len(list) - 1 : Tail(list)[i] = list[i + 1]
  OBVIOUS
<1>2. \A i \in 1..Len(list) : i > 1 => /\ i - 1 \in 1..Len(Tail(list))
                                       /\ Tail(list)[i - 1] = list[i]
  BY <1>1
<1>3. ASSUME NEW y
      PROVE  Contains(list, y) <=> y = Head(list) \/ Contains(Tail(list), y)
  <2>1. ASSUME Contains(list, y)
        PROVE  y = Head(list) \/ Contains(Tail(list), y)
    <3>1. PICK i \in 1..Len(list) : list[i] = y
      BY <2>1 DEF Contains
    <3> QED
      BY <1>1, <1>2, <3>1 DEF Contains
  <2>2. ASSUME Contains(Tail(list), y) PROVE Contains(list, y)
    <3>1. PICK i \in 1..Len(list) - 1 : list[i + 1] = y
      BY <1>1, <2>2 DEF Contains
    <3>2. i + 1 \in 1..Len(list)
      BY <1>1
    <3> QED
      BY <3>1, <3>2 DEF Contains
  <2>3. Contains(list, Head(list))
    BY <1>1 DEF Contains
  <2> QED
    BY <2>1, <2>2, <2>3
<1>4. ASSUME IsLinkedOnce(list)
      PROVE  IsLinkedOnce(Tail(list)) /\ ~Contains(Tail(list), Head(list))
  BY <1>1, <1>4 DEF IsLinkedOnce, Contains
<1>5. ASSUME NEW key, IsOrdered(list, key)
      PROVE  /\ IsOrdered(Tail(list), key)
             /\ \A i \in 1..Len(Tail(list)) :
                  key[Head(list)] <= key[Tail(list)[i]]
  BY <1>1, <1>5 DEF IsOrdered
<1> QED
  BY <1>1, <1>3, <1>4, <1>5

----------------------------------------------------------------------------
(* The invariant of the scheduler *)

\* The rest of the inductive invariant: the wake-up loop runs only when
\* wakeup_tick has come.
WakeLoopDue == isr = "wake" => wakeup_tick <= ticks

\* What the ready list and the sleep list have to do with the statuses.  A
\* thread may be blocked elsewhere: on a semaphore, where Synch puts it.
ReadyListAgrees ==
  /\ IsLinkedOnce(ready_list)
  /\ \A t \in AllThreads : status[t] = "running" <=> current = t
  /\ \A t \in Threads : status[t] = "ready" <=> Contains(ready_list, t)

SleepListAgrees ==
  /\ IsLinkedOnce(sleep_list)
  /\ \A t \in Threads : Contains(sleep_list, t) => status[t] = "blocked"

BlockedElsewhere(t) == status[t] = "blocked" /\ ~Contains(sleep_list, t)

\* The part of the inductive invariant that holds with semaphores too.
CoreInv == /\ SchedStateOK /\ ReadyListAgrees /\ SleepListAgrees
           /\ ListsOrdered /\ WakeLoopDue

\* No step of the scheduler moves a thread to or from a semaphore.
ElsewhereUnchanged ==
  \A t \in Threads : BlockedElsewhere(t)' <=> BlockedElsewhere(t)

SchedInv == CoreInv /\ SchedTypeOK /\ \A t \in Threads : ~BlockedElsewhere(t)

USE SchedulerAssumption

\* Ordering by priority is ordering by an integer.
LEMMA PriorityKeyType ==
  ASSUME NEW prio \in [Threads -> 0..PriMax]
  PROVE  /\ PriorityKey(prio) \in [Threads -> Int]
         /\ \A t \in Threads : PriorityKey(prio)[t] = 0 - prio[t]
BY DEF PriorityKey

\* Putting a thread on the ready list, as thread_yield and thread_unblock do.
LEMMA EnqueueLemma ==
  ASSUME NEW list \in Seq(Threads), NEW t \in Threads,
         NEW prio \in [Threads -> 0..PriMax]
  PROVE  /\ Enqueue(list, t, prio) \in Seq(Threads)
         /\ Enqueue(list, t, prio) # <<>>
         /\ \A u \in Threads :
              Contains(Enqueue(list, t, prio), u) <=> u = t \/ Contains(list, u)
         /\ IsLinkedOnce(list) /\ ~Contains(list, t)
              => IsLinkedOnce(Enqueue(list, t, prio))
         /\ IsOrdered(list, PriorityKey(prio))
              => IsOrdered(Enqueue(list, t, prio), PriorityKey(prio))
<1> DEFINE key == PriorityKey(prio)
<1>1. key \in [Threads -> Int]
  BY PriorityKeyType
<1> HIDE DEF key
<1>2. /\ InsertOrdered(list, t, key) \in Seq(Threads)
      /\ InsertOrdered(list, t, key) # <<>>
      /\ \A u \in Threads :
           Contains(InsertOrdered(list, t, key), u) <=> u = t \/ Contains(list, u)
  BY <1>1, InsertOrderedMembers
<1>3. IsLinkedOnce(list) /\ ~Contains(list, t)
        => IsLinkedOnce(InsertOrdered(list, t, key))
  BY <1>1, InsertOrderedLinkedOnce
<1>4. IsOrdered(list, key) => IsOrdered(InsertOrdered(list, t, key), key)
  BY <1>1, InsertOrderedOrdered
<1> QED
  BY <1>2, <1>3, <1>4 DEF Enqueue, key

\* schedule(): if exactly the threads on `list' are ready in `stat' and nobody
\* is running, then afterwards exactly current is running and exactly the
\* threads on the ready list are ready; and the first of an ordered list runs.
LEMMA ScheduleLemma ==
  ASSUME NEW STATE list, NEW STATE stat,
         list \in Seq(Threads), IsLinkedOnce(list),
         stat \in [AllThreads -> {"running", "ready", "blocked"}],
         \A t \in AllThreads : stat[t] # "running",
         \A t \in Threads : stat[t] = "ready" <=> Contains(list, t),
         Schedule(list, stat)
  PROVE  /\ current' \in AllThreads
         /\ status' \in [AllThreads -> {"running", "ready", "blocked"}]
         /\ ready_list' \in Seq(Threads)
         /\ thread_ticks' \in Nat
         /\ IsLinkedOnce(ready_list')
         /\ \A t \in AllThreads : status'[t] = "running" <=> current' = t
         /\ \A t \in Threads :
              /\ status'[t] = "ready" <=> Contains(ready_list', t)
              /\ status'[t] = "blocked" <=> stat[t] = "blocked"
         /\ \A key : IsOrdered(list, key) =>
              /\ IsOrdered(ready_list', key)
              /\ \A i \in 1..Len(ready_list') :
                   key[current'] <= key[ready_list'[i]]
         /\ ready_list' # <<>> => current' # Idle
<1>1. CASE list = <<>>
  <2>1. /\ current' = Idle /\ ready_list' = <<>> /\ thread_ticks' = 0
        /\ status' = [stat EXCEPT ![Idle] = "running"]
    BY <1>1 DEF Schedule
  <2>2. \A t \in Threads : ~Contains(<<>>, t)
    BY DEF Contains
  <2>3. <<>> \in Seq(Threads) /\ Len(<<>>) = 0
    OBVIOUS
  <2> QED
    BY <1>1, <2>1, <2>2, <2>3 DEF AllThreads, IsOrdered, IsLinkedOnce
<1>2. CASE list # <<>>
  <2>1. /\ current' = Head(list) /\ ready_list' = Tail(list)
        /\ thread_ticks' = 0
        /\ status' = [stat EXCEPT ![Head(list)] = "running"]
    BY <1>2 DEF Schedule
  <2>2. /\ Head(list) \in Threads /\ Tail(list) \in Seq(Threads)
        /\ Contains(list, Head(list))
        /\ \A t : Contains(list, t) <=> t = Head(list) \/ Contains(Tail(list), t)
        /\ IsLinkedOnce(Tail(list)) /\ ~Contains(Tail(list), Head(list))
    BY <1>2, PopFront
  <2>3. \A key : IsOrdered(list, key) =>
          /\ IsOrdered(Tail(list), key)
          /\ \A i \in 1..Len(Tail(list)) : key[Head(list)] <= key[Tail(list)[i]]
    BY <1>2, PopFront
  <2>4. /\ current' \in AllThreads /\ current' # Idle
        /\ status' \in [AllThreads -> {"running", "ready", "blocked"}]
        /\ \A t \in AllThreads : status'[t] = "running" <=> current' = t
    BY <2>1, <2>2 DEF AllThreads
  <2>5. \A t \in Threads :
          /\ status'[t] = "ready" <=> Contains(ready_list', t)
          /\ status'[t] = "blocked" <=> stat[t] = "blocked"
    BY <2>1, <2>2 DEF AllThreads
  <2> QED
    BY <2>1, <2>2, <2>3, <2>4, <2>5
<1> QED
  BY <1>1, <1>2

\* What every switch leaves true of the ready list and the statuses; `prio' are
\* the priorities it is ordered by.
Switched(prio) ==
  /\ current' \in AllThreads
  /\ status' \in [AllThreads -> {"running", "ready", "blocked"}]
  /\ ready_list' \in Seq(Threads)
  /\ thread_ticks' \in Nat
  /\ IsLinkedOnce(ready_list')
  /\ \A t \in AllThreads : status'[t] = "running" <=> current' = t
  /\ \A t \in Threads : status'[t] = "ready" <=> Contains(ready_list', t)
  /\ IsOrdered(ready_list', PriorityKey(prio))
  /\ ready_list' # <<>> => current' # Idle
  /\ \A t \in ToSet(ready_list') : prio[t] <= prio[current']

\* The front of an ordered list is not outranked.
LEMMA FrontRanksFirst ==
  ASSUME NEW list \in Seq(Threads), NEW c \in AllThreads,
         NEW prio \in [Threads -> 0..PriMax],
         list # <<>> => c # Idle,
         \A i \in 1..Len(list) : PriorityKey(prio)[c] <= PriorityKey(prio)[list[i]]
  PROVE  \A t \in ToSet(list) : prio[t] <= prio[c]
<1> SUFFICES ASSUME NEW t \in ToSet(list) PROVE prio[t] <= prio[c]
  OBVIOUS
<1>1. PICK i \in 1..Len(list) : list[i] = t
  BY DEF ToSet
<1>2. t \in Threads /\ c \in Threads
  BY <1>1 DEF AllThreads
<1>3. PriorityKey(prio)[c] = 0 - prio[c] /\ PriorityKey(prio)[t] = 0 - prio[t]
  BY <1>2 DEF PriorityKey
<1>4. prio[c] \in Nat /\ prio[t] \in Nat
  BY <1>2
<1> QED
  BY <1>1, <1>3, <1>4

LEMMA YieldLemma ==
  ASSUME SchedStateOK, ReadyListAgrees,
         NEW STATE prio, prio \in [Threads -> 0..PriMax],
         IsOrdered(ready_list, PriorityKey(prio)), YieldCPU(prio)
  PROVE  /\ Switched(prio)
         /\ \A t \in Threads : status'[t] = "blocked" <=> status[t] = "blocked"
<1> DEFINE list == IF current = Idle THEN ready_list
                   ELSE Enqueue(ready_list, current, prio)
           stat == [status EXCEPT ![current] = "ready"]
<1>1. Schedule(list, stat)
  BY DEF YieldCPU
<1>2. /\ current \in AllThreads
      /\ status \in [AllThreads -> {"running", "ready", "blocked"}]
      /\ ready_list \in Seq(Threads) /\ IsLinkedOnce(ready_list)
      /\ \A t \in AllThreads : status[t] = "running" <=> current = t
      /\ \A t \in Threads : status[t] = "ready" <=> Contains(ready_list, t)
  BY DEF SchedStateOK, ReadyListAgrees
<1>3. /\ stat \in [AllThreads -> {"running", "ready", "blocked"}]
      /\ \A t \in AllThreads : stat[t] # "running"
      /\ \A t \in Threads : /\ stat[t] = "ready" <=> t = current \/ status[t] = "ready"
                            /\ stat[t] = "blocked" <=> status[t] = "blocked"
  BY <1>2 DEF AllThreads
<1>4. /\ list \in Seq(Threads) /\ IsLinkedOnce(list)
      /\ IsOrdered(list, PriorityKey(prio))
      /\ \A t \in Threads : Contains(list, t) <=> t = current \/ status[t] = "ready"
  <2>1. CASE current = Idle
    BY <1>2, <2>1
  <2>2. CASE current # Idle
    <3>1. current \in Threads /\ ~Contains(ready_list, current)
      BY <1>2, <2>2 DEF AllThreads
    <3> QED
      BY <1>2, <2>2, <3>1, EnqueueLemma
  <2> QED
    BY <2>1, <2>2
<1> HIDE DEF list, stat
<1>5. \A t \in Threads : stat[t] = "ready" <=> Contains(list, t)
  BY <1>3, <1>4
<1>6. /\ current' \in AllThreads
      /\ status' \in [AllThreads -> {"running", "ready", "blocked"}]
      /\ ready_list' \in Seq(Threads)
      /\ thread_ticks' \in Nat
      /\ IsLinkedOnce(ready_list')
      /\ \A t \in AllThreads : status'[t] = "running" <=> current' = t
      /\ \A t \in Threads :
           /\ status'[t] = "ready" <=> Contains(ready_list', t)
           /\ status'[t] = "blocked" <=> stat[t] = "blocked"
      /\ IsOrdered(ready_list', PriorityKey(prio))
      /\ \A i \in 1..Len(ready_list') :
           PriorityKey(prio)[current'] <= PriorityKey(prio)[ready_list'[i]]
      /\ ready_list' # <<>> => current' # Idle
  BY <1>1, <1>3, <1>4, <1>5, ScheduleLemma
<1>7. \A t \in ToSet(ready_list') : prio[t] <= prio[current']
  BY <1>6, FrontRanksFirst
<1> QED
  BY <1>3, <1>6, <1>7 DEF Switched

LEMMA BlockLemma ==
  ASSUME SchedStateOK, ReadyListAgrees, ListsOrdered, BlockCPU
  PROVE  /\ Switched(priority)
         /\ \A t \in Threads : status'[t] = "blocked"
                                 <=> t = current \/ status[t] = "blocked"
<1> DEFINE stat == [status EXCEPT ![current] = "blocked"]
<1>1. Schedule(ready_list, stat)
  BY DEF BlockCPU
<1>2. /\ current \in AllThreads
      /\ status \in [AllThreads -> {"running", "ready", "blocked"}]
      /\ ready_list \in Seq(Threads) /\ IsLinkedOnce(ready_list)
      /\ IsOrdered(ready_list, PriorityKey(priority))
      /\ priority \in [Threads -> 0..PriMax]
      /\ \A t \in AllThreads : status[t] = "running" <=> current = t
      /\ \A t \in Threads : status[t] = "ready" <=> Contains(ready_list, t)
  BY DEF SchedStateOK, ReadyListAgrees, ListsOrdered
<1>3. /\ stat \in [AllThreads -> {"running", "ready", "blocked"}]
      /\ \A t \in AllThreads : stat[t] # "running"
      /\ \A t \in Threads :
           /\ stat[t] = "ready" <=> Contains(ready_list, t)
           /\ stat[t] = "blocked" <=> t = current \/ status[t] = "blocked"
  BY <1>2 DEF AllThreads
<1> HIDE DEF stat
<1>4. /\ current' \in AllThreads
      /\ status' \in [AllThreads -> {"running", "ready", "blocked"}]
      /\ ready_list' \in Seq(Threads)
      /\ thread_ticks' \in Nat
      /\ IsLinkedOnce(ready_list')
      /\ \A t \in AllThreads : status'[t] = "running" <=> current' = t
      /\ \A t \in Threads :
           /\ status'[t] = "ready" <=> Contains(ready_list', t)
           /\ status'[t] = "blocked" <=> stat[t] = "blocked"
      /\ IsOrdered(ready_list', PriorityKey(priority))
      /\ \A i \in 1..Len(ready_list') :
           PriorityKey(priority)[current'] <= PriorityKey(priority)[ready_list'[i]]
      /\ ready_list' # <<>> => current' # Idle
  BY <1>1, <1>2, <1>3, ScheduleLemma
<1>5. \A t \in ToSet(ready_list') : priority[t] <= priority[current']
  BY <1>2, <1>4, FrontRanksFirst
<1> QED
  BY <1>3, <1>4, <1>5 DEF Switched

\* ---------------------------------------------------------------------------
\* The initial states.
LEMMA InitInv == SchedInit => SchedInv
<1> SUFFICES ASSUME SchedInit PROVE SchedInv
  OBVIOUS
<1>1. ready_list \in Seq(Threads)
  <2>1. Cardinality(Threads \ {current}) \in Nat
    BY FS_CardinalityType, FS_Difference, FS_Singleton
  <2>2. ready_list \in [1..Cardinality(Threads \ {current}) -> Threads]
    BY DEF SchedInit, SetToSeqs
  <2> DEFINE n == Cardinality(Threads \ {current})
  <2> HIDE DEF n
  <2>3. [i \in 1..n |-> ready_list[i]] \in Seq(Threads)
    <3>1. n \in Nat /\ \A i \in 1..n : ready_list[i] \in Threads
      BY <2>1, <2>2 DEF n
    <3> QED
      BY <3>1
  <2>4. ready_list = [i \in 1..n |-> ready_list[i]]
    BY <2>2 DEF n
  <2> QED
    BY <2>3, <2>4
<1>2. \A t \in Threads : Contains(ready_list, t) <=> t # current
  <2>1. ToSet(ready_list) = Threads \ {current}
    BY DEF SchedInit
  <2> QED
    BY <1>1, <2>1 DEF ToSet, Contains
<1>3. IsLinkedOnce(ready_list)
  <2>1. Cardinality(Threads \ {current}) \in Nat
    BY FS_CardinalityType, FS_Difference, FS_Singleton
  <2>2. Len(ready_list) = Cardinality(Threads \ {current})
    <3>1. DOMAIN ready_list = 1..Cardinality(Threads \ {current})
      BY DEF SchedInit, SetToSeqs
    <3> QED
      BY <1>1, <2>1, <3>1
  <2> QED
    BY <2>2 DEF SchedInit, SetToSeqs, IsLinkedOnce
<1>4. /\ \A t \in Threads : ~Contains(<<>>, t)
      /\ IsLinkedOnce(<<>>) /\ \A key : IsOrdered(<<>>, key)
      /\ <<>> \in Seq(Threads)
  BY DEF Contains, IsLinkedOnce, IsOrdered
<1>5. SchedStateOK
  BY <1>1, <1>4 DEF SchedInit, SchedStateOK, AllThreads
<1>6. pc \in [AllThreads -> Labels \cup {"hlt", "loop"}]
  BY DEF SchedInit, AllThreads, Labels
<1>7. ReadyListAgrees
  BY <1>2, <1>3 DEF SchedInit, ReadyListAgrees, AllThreads
<1>8. SleepListAgrees /\ \A t \in Threads : ~BlockedElsewhere(t)
  BY <1>4 DEF SchedInit, SleepListAgrees, BlockedElsewhere, AllThreads
<1>9. ListsOrdered /\ WakeLoopDue
  BY <1>4 DEF SchedInit, ListsOrdered, WakeLoopDue
<1> QED
  BY <1>5, <1>6, <1>7, <1>8, <1>9 DEF SchedInv, CoreInv, SchedTypeOK

\* A step that switches and leaves the sleep list and the alarm clock alone.
LEMMA SwitchKeepsInv ==
  ASSUME CoreInv, NEW STATE prio, prio \in [Threads -> 0..PriMax],
         Switched(prio),
         \A t \in Threads : status'[t] = "blocked" <=> status[t] = "blocked",
         priority' = prio, isr' = "none", isr # "wake",
         UNCHANGED <<tick, sleep_list, wakeup_tick, ticks>>
  PROVE  CoreInv' /\ ElsewhereUnchanged
<1>1. SchedStateOK'
  BY DEF CoreInv, SchedStateOK, Switched
<1>2. ReadyListAgrees' /\ SleepListAgrees'
  BY DEF CoreInv, ReadyListAgrees, SleepListAgrees, Switched
<1>3. ListsOrdered'
  BY DEF CoreInv, ListsOrdered, Switched
<1>4. WakeLoopDue'
  BY DEF WakeLoopDue
<1>5. ElsewhereUnchanged
  BY DEF ElsewhereUnchanged, BlockedElsewhere
<1> QED
  BY <1>1, <1>2, <1>3, <1>4, <1>5 DEF CoreInv

LEMMA YieldInv ==
  ASSUME CoreInv, NEW t \in Threads, Yield(t) PROVE CoreInv' /\ ElsewhereUnchanged
<1>1. /\ SchedStateOK /\ ReadyListAgrees /\ SleepListAgrees
      /\ ListsOrdered /\ WakeLoopDue
  BY DEF CoreInv
<1>2. priority \in [Threads -> 0..PriMax] /\ IsOrdered(ready_list, PriorityKey(priority))
  BY <1>1 DEF SchedStateOK, ListsOrdered
<1>3. /\ YieldCPU(priority) /\ isr = "none"
      /\ UNCHANGED <<priority, tick, sleep_list, wakeup_tick, ticks, isr>>
  BY DEF Yield, Running
<1>4. /\ Switched(priority)
      /\ \A u \in Threads : status'[u] = "blocked" <=> status[u] = "blocked"
  BY <1>1, <1>2, <1>3, YieldLemma
<1> QED
  BY <1>2, <1>3, <1>4, SwitchKeepsInv

\* A step of the running thread that only stores a priority or a tick.
LEMMA SetPriorityInv ==
  ASSUME CoreInv, NEW t \in Threads, SetPriority(t) PROVE CoreInv' /\ ElsewhereUnchanged
<1>1. PICK p \in NewPriorities : priority' = [priority EXCEPT ![t] = p]
  BY DEF SetPriority
<1>2. SchedStateOK'
  BY <1>1 DEF CoreInv, SchedStateOK, SetPriority
<1>3. ReadyListAgrees' /\ SleepListAgrees' /\ ElsewhereUnchanged
  BY DEF CoreInv, SetPriority, ReadyListAgrees, SleepListAgrees,
         ElsewhereUnchanged, BlockedElsewhere
<1>4. ~Contains(ready_list, t)
  BY DEF CoreInv, ReadyListAgrees, SetPriority, Running, AllThreads
<1>5. IsOrdered(ready_list, PriorityKey(priority'))
  <2>1. \A i \in 1..Len(ready_list) : ready_list[i] \in Threads /\ ready_list[i] # t
    BY <1>4, SMTT(30) DEF Contains, CoreInv, SchedStateOK
  <2>2. \A i \in 1..Len(ready_list) :
          PriorityKey(priority')[ready_list[i]] = PriorityKey(priority)[ready_list[i]]
    BY <1>1, <2>1 DEF PriorityKey, CoreInv, SchedStateOK
  <2> QED
    BY <2>2 DEF CoreInv, ListsOrdered, IsOrdered
<1>6. ListsOrdered' /\ WakeLoopDue'
  BY <1>5 DEF CoreInv, SetPriority, ListsOrdered, WakeLoopDue, Running
<1> QED
  BY <1>2, <1>3, <1>6 DEF CoreInv

LEMMA PreemptSelfInv ==
  ASSUME CoreInv, NEW t \in Threads, PreemptSelf(t) PROVE CoreInv' /\ ElsewhereUnchanged
<1>1. /\ SchedStateOK /\ ReadyListAgrees /\ SleepListAgrees
      /\ ListsOrdered /\ WakeLoopDue
  BY DEF CoreInv
<1>2. /\ priority \in [Threads -> 0..PriMax]
      /\ IsOrdered(ready_list, PriorityKey(priority))
  BY <1>1 DEF SchedStateOK, ListsOrdered
<1>3. /\ isr = "none"
      /\ UNCHANGED <<priority, tick, sleep_list, wakeup_tick, ticks, isr>>
  BY DEF PreemptSelf, Running
<1>4. CASE YieldCPU(priority)
  <2>1. /\ Switched(priority)
        /\ \A u \in Threads : status'[u] = "blocked" <=> status[u] = "blocked"
    BY <1>1, <1>2, <1>4, YieldLemma
  <2> QED
    BY <1>2, <1>3, <2>1, SwitchKeepsInv
<1>5. CASE UNCHANGED <<current, status, ready_list, thread_ticks>>
  BY <1>3, <1>5 DEF CoreInv, SchedStateOK, ReadyListAgrees, SleepListAgrees,
     ListsOrdered, WakeLoopDue, ElsewhereUnchanged, BlockedElsewhere
<1> QED
  BY <1>4, <1>5 DEF PreemptSelf

LEMMA TimerSleepInv ==
  ASSUME CoreInv, NEW t \in Threads, TimerSleep(t) PROVE CoreInv' /\ ElsewhereUnchanged
<1>1. PICK n \in Naps : ticks + n <= MaxTicks /\ tick' = [tick EXCEPT ![t] = ticks + n]
  BY DEF TimerSleep
<1>2. ticks + n \in {k \in Int : k <= MaxTicks}
  BY <1>1 DEF CoreInv, SchedStateOK
<1>3. SchedStateOK'
  BY <1>1, <1>2 DEF CoreInv, SchedStateOK, TimerSleep
<1>4. ReadyListAgrees' /\ SleepListAgrees' /\ ElsewhereUnchanged
  BY DEF CoreInv, TimerSleep, ReadyListAgrees, SleepListAgrees,
         ElsewhereUnchanged, BlockedElsewhere
<1>5. \A i \in 1..Len(sleep_list) : sleep_list[i] \in Threads /\ sleep_list[i] # t
  <2>1. ~Contains(sleep_list, t)
    BY DEF CoreInv, ReadyListAgrees, SleepListAgrees, TimerSleep, Running,
           AllThreads
  <2> QED
    BY <2>1, SMTT(30) DEF Contains, CoreInv, SchedStateOK
<1>6. \A i \in 1..Len(sleep_list) : tick'[sleep_list[i]] = tick[sleep_list[i]]
  BY <1>1, <1>5 DEF CoreInv, SchedStateOK
<1>7. IsOrdered(sleep_list, tick')
  BY <1>6 DEF CoreInv, ListsOrdered, IsOrdered
<1>8. sleep_list # <<>> => tick'[Head(sleep_list)] = tick[Head(sleep_list)]
  <2>1. sleep_list \in Seq(Threads)
    BY DEF CoreInv, SchedStateOK
  <2>2. sleep_list # <<>> => Head(sleep_list) = sleep_list[1] /\ 1 \in 1..Len(sleep_list)
    BY <2>1
  <2> QED
    BY <2>2, <1>6
<1>9. ListsOrdered' /\ WakeLoopDue'
  BY <1>7, <1>8 DEF CoreInv, TimerSleep, ListsOrdered, WakeLoopDue, Running
<1> QED
  BY <1>3, <1>4, <1>9 DEF CoreInv

\* The sleeper inserted may become the first: then wakeup_tick is its tick.
LEMMA ThreadSleepInv ==
  ASSUME CoreInv, NEW t \in Threads, ThreadSleep(t) PROVE CoreInv' /\ ElsewhereUnchanged
<1>1. /\ SchedStateOK /\ ReadyListAgrees /\ SleepListAgrees
      /\ ListsOrdered /\ WakeLoopDue
  BY DEF CoreInv
<1>2. /\ t = current /\ isr = "none" /\ BlockCPU
      /\ sleep_list' = InsertOrdered(sleep_list, t, tick)
      /\ wakeup_tick' = IF wakeup_tick > tick[t] THEN tick[t] ELSE wakeup_tick
      /\ UNCHANGED <<priority, tick, ticks, isr>>
  BY DEF ThreadSleep, Running
<1>3. /\ Switched(priority)
      /\ \A u \in Threads : status'[u] = "blocked" <=> u = t \/ status[u] = "blocked"
  BY <1>1, <1>2, BlockLemma
<1>4. /\ sleep_list \in Seq(Threads) /\ tick \in [Threads -> Int]
      /\ tick[t] \in Int /\ tick[t] <= MaxTicks
      /\ IsLinkedOnce(sleep_list) /\ IsOrdered(sleep_list, tick)
      /\ ~Contains(sleep_list, t)
  BY <1>1, <1>2 DEF SchedStateOK, ReadyListAgrees, SleepListAgrees,
                    ListsOrdered, AllThreads
<1>5. /\ sleep_list' \in Seq(Threads) /\ sleep_list' # <<>>
      /\ \A u \in Threads : Contains(sleep_list', u) <=> u = t \/ Contains(sleep_list, u)
  BY <1>2, <1>4, InsertOrderedMembers
<1>6. IsLinkedOnce(sleep_list')
  BY <1>2, <1>4, InsertOrderedLinkedOnce
<1>7. IsOrdered(sleep_list', tick)
  BY <1>2, <1>4, InsertOrderedOrdered
<1>8. wakeup_tick' = tick[Head(sleep_list')]
  <2> DEFINE res == InsertOrdered(sleep_list, t, tick)
  <2>0. PICK p \in 1..Len(sleep_list) + 1 :
          /\ InsertedAt(res, sleep_list, t, p)
          /\ OrderedAround(sleep_list, t, tick, p)
    <3>1. tick \in [Threads -> Int] /\ sleep_list \in Seq(Threads)
      BY <1>4
    <3> QED
      BY <3>1, InsertOrderedPosition
  <2>1. /\ \A i \in 1..Len(sleep_list) + 1 :
             res[i] = IF i < p THEN sleep_list[i]
                      ELSE IF i = p THEN t ELSE sleep_list[i - 1]
        /\ \A i \in 1..p - 1 : tick[sleep_list[i]] <= tick[t]
        /\ p <= Len(sleep_list) => tick[t] < tick[sleep_list[p]]
    BY <2>0 DEF InsertedAt, OrderedAround
  <2> HIDE DEF res
  <2>2. sleep_list' = res
    BY <1>2 DEF res
  <2>3. Head(sleep_list') = sleep_list'[1] /\ Len(sleep_list) \in Nat
    BY <1>4, <1>5
  <2>4. CASE sleep_list = <<>>
    <3>1. wakeup_tick = INT64_MAX /\ wakeup_tick > tick[t]
      BY <1>1, <1>2, <1>4, <2>4 DEF ListsOrdered
    <3>2. sleep_list'[1] = t
      BY <2>2, <2>1, <2>4
    <3> QED
      BY <1>2, <2>3, <3>1, <3>2
  <2>5. CASE sleep_list # <<>>
    <3>1. /\ wakeup_tick = tick[sleep_list[1]] /\ 1 \in 1..Len(sleep_list)
          /\ tick[sleep_list[1]] \in Int
      BY <1>1, <1>2, <1>4, <2>5 DEF ListsOrdered
    <3>2. CASE p = 1
      <4>1. sleep_list'[1] = t /\ tick[t] < tick[sleep_list[1]]
        BY <2>2, <2>1, <3>1, <3>2
      <4> QED
        BY <1>2, <1>4, <2>3, <3>1, <4>1
    <3>3. CASE p # 1
      <4>1. sleep_list'[1] = sleep_list[1] /\ tick[sleep_list[1]] <= tick[t]
        BY <2>2, <2>1, <3>1, <3>3
      <4> QED
        BY <1>2, <1>4, <2>3, <3>1, <4>1
    <3> QED
      BY <3>2, <3>3
  <2> QED
    BY <2>4, <2>5
<1>9. SchedStateOK'
  <2>1. wakeup_tick' \in Int
    BY <1>1, <1>2, <1>4 DEF SchedStateOK
  <2> QED
    BY <1>1, <1>2, <1>3, <1>5, <2>1 DEF SchedStateOK, Switched
<1>10. ReadyListAgrees' /\ SleepListAgrees' /\ ElsewhereUnchanged
  <2>1. t \in Threads /\ status[t] # "blocked"
    BY <1>1, <1>2 DEF ReadyListAgrees, AllThreads
  <2>2. ReadyListAgrees'
    BY <1>3 DEF ReadyListAgrees, Switched
  <2>3. SleepListAgrees'
    BY <1>1, <1>3, <1>5, <1>6 DEF SleepListAgrees
  <2>4. ElsewhereUnchanged
    BY <2>1, <1>3, <1>5 DEF ElsewhereUnchanged, BlockedElsewhere
  <2> QED
    BY <2>2, <2>3, <2>4
<1>11. ListsOrdered' /\ WakeLoopDue'
  BY <1>2, <1>3, <1>5, <1>7, <1>8 DEF ListsOrdered, WakeLoopDue, Switched
<1> QED
  BY <1>9, <1>10, <1>11 DEF CoreInv

LEMMA IdleBlockInv ==
  ASSUME CoreInv, IdleBlock PROVE CoreInv' /\ ElsewhereUnchanged
<1>1. /\ SchedStateOK /\ ReadyListAgrees /\ SleepListAgrees
      /\ ListsOrdered /\ WakeLoopDue
  BY DEF CoreInv
<1>2. /\ current = Idle /\ isr = "none" /\ BlockCPU
      /\ UNCHANGED <<priority, tick, sleep_list, wakeup_tick, ticks, isr>>
  BY DEF IdleBlock, Running
<1>3. /\ Switched(priority)
      /\ \A u \in Threads : status'[u] = "blocked" <=> status[u] = "blocked"
  BY <1>1, <1>2, BlockLemma
<1>4. priority \in [Threads -> 0..PriMax]
  BY <1>1 DEF SchedStateOK
<1> QED
  BY <1>2, <1>3, <1>4, SwitchKeepsInv

LEMMA TimerInterruptInv ==
  ASSUME CoreInv, TimerInterrupt PROVE CoreInv' /\ ElsewhereUnchanged
<1>1. /\ isr = "none" /\ ticks' = NextTick /\ thread_ticks' = thread_ticks + 1
      /\ isr' = IF NextTick >= wakeup_tick THEN "wake" ELSE "return"
      /\ UNCHANGED <<current, status, priority, tick, pc, ready_list,
                     sleep_list, wakeup_tick>>
  BY DEF TimerInterrupt
<1>2. NextTick \in 0..MaxTicks
  BY DEF NextTick, CoreInv, SchedStateOK
<1>3. SchedStateOK'
  BY <1>1, <1>2 DEF CoreInv, SchedStateOK
<1>4. ReadyListAgrees' /\ SleepListAgrees' /\ ElsewhereUnchanged
  BY <1>1 DEF CoreInv, ReadyListAgrees, SleepListAgrees, ElsewhereUnchanged,
              BlockedElsewhere
<1>5. isr' = "wake" => sleep_list # <<>>
  BY <1>1, <1>2 DEF CoreInv, ListsOrdered
<1>6. ListsOrdered' /\ WakeLoopDue'
  BY <1>1, <1>2, <1>5 DEF CoreInv, ListsOrdered, WakeLoopDue
<1> QED
  BY <1>3, <1>4, <1>6 DEF CoreInv

LEMMA WakeFrontInv ==
  ASSUME CoreInv, WakeFront PROVE CoreInv' /\ ElsewhereUnchanged
<1> DEFINE t == Head(sleep_list)
<1>1. /\ isr = "wake" /\ tick[t] <= wakeup_tick
      /\ ready_list' = Enqueue(ready_list, t, priority)
      /\ status' = [status EXCEPT ![t] = "ready"]
      /\ sleep_list' = Tail(sleep_list)
      /\ IF Tail(sleep_list) = <<>>
           THEN isr' = "return" /\ wakeup_tick' = INT64_MAX
           ELSE UNCHANGED <<isr, wakeup_tick>>
      /\ UNCHANGED <<current, priority, tick, pc, ticks, thread_ticks>>
  BY DEF WakeFront
<1>2. /\ sleep_list \in Seq(Threads) /\ sleep_list # <<>>
      /\ IsLinkedOnce(sleep_list) /\ IsOrdered(sleep_list, tick)
      /\ ready_list \in Seq(Threads) /\ IsLinkedOnce(ready_list)
      /\ IsOrdered(ready_list, PriorityKey(priority))
      /\ priority \in [Threads -> 0..PriMax]
  BY <1>1 DEF CoreInv, SchedStateOK, ReadyListAgrees, SleepListAgrees,
              ListsOrdered
<1>3. /\ t \in Threads /\ Tail(sleep_list) \in Seq(Threads)
      /\ \A u \in Threads : Contains(Tail(sleep_list), u)
                              <=> Contains(sleep_list, u) /\ u # t
      /\ Contains(sleep_list, t)
      /\ IsLinkedOnce(Tail(sleep_list)) /\ IsOrdered(Tail(sleep_list), tick)
  BY <1>2, PopFront
<1>4. status[t] = "blocked" /\ ~Contains(ready_list, t) /\ t # current
  BY <1>3 DEF CoreInv, ReadyListAgrees, SleepListAgrees, AllThreads
<1> HIDE DEF t
<1>5. /\ ready_list' \in Seq(Threads) /\ IsLinkedOnce(ready_list')
      /\ IsOrdered(ready_list', PriorityKey(priority))
      /\ \A u \in Threads : Contains(ready_list', u) <=> u = t \/ Contains(ready_list, u)
  BY <1>1, <1>2, <1>3, <1>4, EnqueueLemma
<1>6. SchedStateOK'
  <2>1. isr' \in {"none", "wake", "return"} /\ wakeup_tick' \in Int
    BY <1>1 DEF CoreInv, SchedStateOK
  <2>2. status' \in [AllThreads -> {"running", "ready", "blocked"}]
    BY <1>1, <1>3 DEF CoreInv, SchedStateOK, AllThreads
  <2> QED
    BY <1>1, <1>3, <1>5, <2>1, <2>2 DEF CoreInv, SchedStateOK
<1>7. ReadyListAgrees' /\ SleepListAgrees' /\ ElsewhereUnchanged
  <2>1. status' = [status EXCEPT ![t] = "ready"]
          /\ status \in [AllThreads -> {"running", "ready", "blocked"}]
    BY <1>1 DEF CoreInv, SchedStateOK
  <2>2. \A u \in AllThreads : status'[u] = "running" <=> current' = u
    BY <1>1, <1>3, <1>4, <2>1 DEF CoreInv, ReadyListAgrees, AllThreads
  <2>3. \A u \in Threads :
          /\ status'[u] = "ready" <=> Contains(ready_list', u)
          /\ status'[u] = "blocked" <=> status[u] = "blocked" /\ u # t
    BY <1>1, <1>3, <1>4, <1>5, <2>1 DEF CoreInv, ReadyListAgrees, AllThreads
  <2>4. ReadyListAgrees'
    BY <1>5, <2>2, <2>3 DEF ReadyListAgrees
  <2>5. \A u \in Threads : Contains(sleep_list', u)
                              <=> Contains(sleep_list, u) /\ u # t
    BY <1>1, <1>3
  <2>6. SleepListAgrees' /\ ElsewhereUnchanged
    BY <1>1, <1>3, <2>3, <2>5 DEF CoreInv, SleepListAgrees, ElsewhereUnchanged,
                                  BlockedElsewhere
  <2> QED
    BY <2>4, <2>6
<1>8. ListsOrdered' /\ WakeLoopDue'
  BY <1>1, <1>3, <1>5 DEF CoreInv, ListsOrdered, WakeLoopDue
<1> QED
  BY <1>6, <1>7, <1>8 DEF CoreInv

LEMMA WakeBreakInv ==
  ASSUME CoreInv, WakeBreak PROVE CoreInv' /\ ElsewhereUnchanged
<1>1. sleep_list \in Seq(Threads) /\ sleep_list # <<>>
  BY DEF CoreInv, SchedStateOK, ListsOrdered, WakeBreak
<1>2. Head(sleep_list) \in Threads
  BY <1>1
<1>3. SchedStateOK'
  BY <1>2 DEF CoreInv, SchedStateOK, WakeBreak
<1>4. ListsOrdered' /\ WakeLoopDue'
  BY <1>1 DEF CoreInv, ListsOrdered, WakeLoopDue, WakeBreak
<1>5. ReadyListAgrees' /\ SleepListAgrees' /\ ElsewhereUnchanged
  BY DEF CoreInv, ReadyListAgrees, SleepListAgrees, ElsewhereUnchanged,
         BlockedElsewhere, WakeBreak
<1> QED
  BY <1>3, <1>4, <1>5 DEF CoreInv

\* thread_aging keeps the order of the ready list: it adds one to all its
\* threads but those already at PRI_MAX.
LEMMA AgingKeepsOrder ==
  ASSUME CoreInv
  PROVE  /\ AgedPriority \in [Threads -> 0..PriMax]
         /\ IsOrdered(ready_list, PriorityKey(AgedPriority))
<1>1. /\ priority \in [Threads -> 0..PriMax] /\ ready_list \in Seq(Threads)
      /\ IsOrdered(ready_list, PriorityKey(priority))
  BY DEF CoreInv, SchedStateOK, ListsOrdered
<1>2. AgedPriority \in [Threads -> 0..PriMax]
  BY <1>1 DEF AgedPriority
<1>3. ASSUME NEW i \in 1..Len(ready_list), NEW j \in 1..Len(ready_list), i < j
      PROVE  PriorityKey(AgedPriority)[ready_list[i]]
               <= PriorityKey(AgedPriority)[ready_list[j]]
  <2> DEFINE t == ready_list[i]
             u == ready_list[j]
  <2>1. t \in Threads /\ u \in Threads
    BY <1>1
  <2>2. Contains(ready_list, t) /\ Contains(ready_list, u)
    BY DEF Contains
  <2>3. PriorityKey(priority)[t] <= PriorityKey(priority)[u]
    BY <1>1, <1>3 DEF IsOrdered
  <2> HIDE DEF t, u
  <2>4. priority[u] <= priority[t]
    BY <1>1, <2>1, <2>3 DEF PriorityKey
  <2>5. AgedPriority[u] <= AgedPriority[t]
    BY <1>1, <2>1, <2>2, <2>4 DEF AgedPriority
  <2>6. PriorityKey(AgedPriority)[t] <= PriorityKey(AgedPriority)[u]
    <3>1. AgedPriority[t] \in Nat /\ AgedPriority[u] \in Nat
      BY <1>2, <2>1
    <3>2. /\ PriorityKey(AgedPriority)[t] = 0 - AgedPriority[t]
          /\ PriorityKey(AgedPriority)[u] = 0 - AgedPriority[u]
      BY <1>2, <2>1, PriorityKeyType
    <3> QED
      BY <2>5, <3>1, <3>2
  <2> QED
    BY <2>6 DEF t, u
<1> QED
  BY <1>2, <1>3 DEF IsOrdered

LEMMA InterruptReturnInv ==
  ASSUME CoreInv, InterruptReturn PROVE CoreInv' /\ ElsewhereUnchanged
<1>1. /\ SchedStateOK /\ ReadyListAgrees /\ SleepListAgrees
      /\ ListsOrdered /\ WakeLoopDue
  BY DEF CoreInv
<1>2. /\ isr = "return" /\ isr' = "none" /\ priority' = AgedPriority
      /\ UNCHANGED <<tick, sleep_list, wakeup_tick, ticks>>
  BY DEF InterruptReturn
<1>3. /\ AgedPriority \in [Threads -> 0..PriMax]
      /\ IsOrdered(ready_list, PriorityKey(AgedPriority))
  BY AgingKeepsOrder
<1>4. CASE YieldCPU(AgedPriority)
  <2>1. /\ Switched(AgedPriority)
        /\ \A u \in Threads : status'[u] = "blocked" <=> status[u] = "blocked"
    BY <1>1, <1>3, <1>4, YieldLemma
  <2> QED
    BY <1>2, <1>3, <2>1, SwitchKeepsInv
<1>5. CASE UNCHANGED <<current, status, ready_list, thread_ticks>>
  BY <1>2, <1>3, <1>5 DEF CoreInv, SchedStateOK, ReadyListAgrees,
     SleepListAgrees, ListsOrdered, WakeLoopDue, ElsewhereUnchanged,
     BlockedElsewhere
<1> QED
  BY <1>4, <1>5 DEF InterruptReturn

\* ---------------------------------------------------------------------------
\* The inductive invariant.
LEMMA CoreStep ==
  ASSUME CoreInv, SchedNext PROVE CoreInv' /\ ElsewhereUnchanged
<1>1. ASSUME NEW t \in Threads, ThreadStep(t)
      PROVE  CoreInv' /\ ElsewhereUnchanged
  BY <1>1, YieldInv, SetPriorityInv, PreemptSelfInv, TimerSleepInv,
     ThreadSleepInv DEF ThreadStep
<1>2. CASE IdleBlock
  BY <1>2, IdleBlockInv
<1>3. CASE TimerInterrupt
  BY <1>3, TimerInterruptInv
<1>4. CASE TickStep
  BY <1>4, WakeFrontInv, WakeBreakInv, InterruptReturnInv DEF TickStep
<1> QED
  BY <1>1, <1>2, <1>3, <1>4 DEF SchedNext

\* A step changes at most the label of one thread, within Labels, and the idle
\* thread's.
LEMMA LabelStep ==
  ASSUME NEW L, pc \in [AllThreads -> L], Labels \cup {"hlt", "loop"} \subseteq L,
         SchedNext
  PROVE  pc' \in [AllThreads -> L]
BY DEF SchedNext, ThreadStep, TickStep, Yield, SetPriority, PreemptSelf,
       TimerSleep, ThreadSleep, IdleBlock, TimerInterrupt, WakeFront,
       WakeBreak, InterruptReturn, Labels

LEMMA StepInv == ASSUME SchedInv, [SchedNext]_schedVars PROVE SchedInv'
<1>1. CASE SchedNext
  <2>1. CoreInv' /\ ElsewhereUnchanged
    BY <1>1, CoreStep DEF SchedInv
  <2>2. pc' \in [AllThreads -> Labels \cup {"hlt", "loop"}]
    BY <1>1, LabelStep DEF SchedInv, SchedTypeOK
  <2> QED
    BY <2>1, <2>2 DEF SchedInv, CoreInv, SchedTypeOK, ElsewhereUnchanged
<1>2. CASE UNCHANGED schedVars
  BY <1>2 DEF schedVars, SchedInv, CoreInv, SchedTypeOK, SchedStateOK,
     ReadyListAgrees, SleepListAgrees, ListsOrdered, WakeLoopDue,
     BlockedElsewhere
<1> QED
  BY <1>1, <1>2

LEMMA SchedInvariant == SchedSpec => []SchedInv
<1>1. SchedInit => SchedInv
  BY InitInv
<1>2. SchedInv /\ [SchedNext]_schedVars => SchedInv'
  BY StepInv
<1> QED
  BY <1>1, <1>2, PTL DEF SchedSpec

\* The types of the scheduler's state, for any threads and any bounds.
THEOREM SchedulerTypeCorrect == SchedSpec => []SchedTypeOK
<1>1. SchedInv => SchedTypeOK
  BY DEF SchedInv
<1> QED
  BY <1>1, SchedInvariant, PTL

\* A thread's one list element is never linked into two lists, nor twice into
\* one, and always into the list its status calls for (thread.h).
THEOREM ElemNeverShared == SchedSpec => []ElemSharedSafely
<1>1. SchedInv => ElemSharedSafely
  BY DEF SchedInv, CoreInv, ReadyListAgrees, SleepListAgrees,
         BlockedElsewhere, ElemSharedSafely
<1> QED
  BY <1>1, SchedInvariant, PTL

\* The ready list and the sleep list stay ordered, and wakeup_tick is the first
\* sleeper's.
THEOREM ListsStayOrdered == SchedSpec => []ListsOrdered
<1>1. SchedInv => ListsOrdered
  BY DEF SchedInv, CoreInv
<1> QED
  BY <1>1, SchedInvariant, PTL

\* Whatever the scheduler is interrupted at, it goes on with values in range and with
\* lists in order.
THEOREM SchedulerConsistent == SchedSpec => []SchedConsistent
<1>1. SchedInv => SchedConsistent
  BY DEF SchedInv, CoreInv, SchedConsistent
<1> QED
  BY <1>1, SchedInvariant, PTL

\* No thread leaves the sleep list before its tick.
THEOREM SleepersNeverEarly == SchedSpec => NoEarlyWakeup
<1> DEFINE Late == \A t \in Threads :
             Contains(sleep_list, t) /\ ~Contains(sleep_list', t)
               => tick[t] <= ticks
<1>1. SchedInv /\ [SchedNext]_schedVars => [Late]_schedVars
  <2> SUFFICES ASSUME SchedInv, SchedNext, NEW t \in Threads,
                      Contains(sleep_list, t), ~Contains(sleep_list', t)
               PROVE  tick[t] <= ticks
    OBVIOUS
  <2>1. sleep_list' # sleep_list
    OBVIOUS
  <2>2. CASE WakeFront
    <3>1. /\ sleep_list \in Seq(Threads) /\ sleep_list # <<>>
          /\ ticks \in Int /\ wakeup_tick \in Int /\ tick[t] \in Int
          /\ wakeup_tick <= ticks
          /\ sleep_list' = Tail(sleep_list) /\ tick[Head(sleep_list)] <= wakeup_tick
      BY <2>2 DEF WakeFront, SchedInv, CoreInv, SchedStateOK, ListsOrdered,
                       WakeLoopDue
    <3>2. t = Head(sleep_list)
      BY <3>1, PopFront
    <3> QED
      BY <3>1, <3>2
  <2>3. ASSUME NEW u \in Threads, ThreadSleep(u) PROVE FALSE
    <3>1. /\ sleep_list' = InsertOrdered(sleep_list, u, tick)
          /\ sleep_list \in Seq(Threads) /\ tick \in [Threads -> Int]
      BY <2>3 DEF ThreadSleep, SchedInv, CoreInv, SchedStateOK
    <3>2. Contains(sleep_list', t)
      BY <3>1, InsertOrderedMembers
    <3> QED
      BY <3>2
  <2> QED
    BY <2>1, <2>2, <2>3 DEF SchedNext, ThreadStep, TickStep, Yield, SetPriority,
       PreemptSelf, TimerSleep, IdleBlock, TimerInterrupt, WakeBreak,
       InterruptReturn
<1> QED
  BY <1>1, SchedInvariant, PTL DEF SchedSpec, NoEarlyWakeup

\* A switch never gives the CPU to a thread that a ready thread outranks, nor
\* to the idle thread while a thread is ready.
THEOREM SwitchesToHighest == SchedSpec => HighestPriorityRuns
<1> DEFINE Highest ==
      current' # current =>
        /\ ready_list' # <<>> => current' # Idle
        /\ \A t \in ToSet(ready_list') : priority'[t] <= priority'[current']
<1>1. SchedInv /\ [SchedNext]_schedVars => [Highest]_schedVars
  <2> SUFFICES ASSUME SchedInv, SchedNext, current' # current
               PROVE  /\ ready_list' # <<>> => current' # Idle
                      /\ \A t \in ToSet(ready_list') :
                           priority'[t] <= priority'[current']
    OBVIOUS
  <2>1. /\ CoreInv /\ SchedStateOK /\ ReadyListAgrees /\ ListsOrdered
        /\ priority \in [Threads -> 0..PriMax]
        /\ IsOrdered(ready_list, PriorityKey(priority))
    BY DEF SchedInv, CoreInv, SchedStateOK, ListsOrdered
  <2>2. CASE YieldCPU(priority) /\ priority' = priority
    <3>1. Switched(priority)
      BY <2>1, <2>2, YieldLemma
    <3> QED
      BY <2>2, <3>1 DEF Switched
  <2>3. CASE BlockCPU /\ priority' = priority
    <3>1. Switched(priority)
      BY <2>1, <2>3, BlockLemma
    <3> QED
      BY <2>3, <3>1 DEF Switched
  <2>4. CASE YieldCPU(AgedPriority) /\ priority' = AgedPriority
    <3>1. /\ AgedPriority \in [Threads -> 0..PriMax]
          /\ IsOrdered(ready_list, PriorityKey(AgedPriority))
      BY <2>1, AgingKeepsOrder
    <3>2. Switched(AgedPriority)
      BY <2>1, <2>4, <3>1, YieldLemma
    <3> QED
      BY <2>4, <3>2 DEF Switched
  <2> QED
    BY <2>2, <2>3, <2>4 DEF SchedNext, ThreadStep, TickStep, Yield, SetPriority,
       PreemptSelf, TimerSleep, ThreadSleep, IdleBlock, TimerInterrupt,
       WakeFront, WakeBreak, InterruptReturn
<1> QED
  BY <1>1, SchedInvariant, PTL DEF SchedSpec, HighestPriorityRuns
=============================================================================
