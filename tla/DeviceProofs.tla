----------------------------- MODULE DeviceProofs -----------------------------
(***************************************************************************)
(* Proofs about Terminal and Disk, for any number of threads, any size of  *)
(* the queues and of the disks and any partition table: no byte is lost,   *)
(* doubled or overtaken and nothing gets stuck in the character devices;   *)
(* a disk request that is done has its data, although interrupts may be    *)
(* early or lost, and stays inside its partition.                          *)
(***************************************************************************)
EXTENDS Terminal, Disk, SequenceTheorems, TLAPS

----------------------------------------------------------------------------
(* The ring of an interrupt queue (intq.c) *)

Places == 0..(INTQ_BUFSIZE - 1)
Intq == [buf : [Places -> Nat], head : Places, tail : Places, lock : {0, 1},
         lockers : Seq(Readers), waiter : Readers \cup Writers \cup {NoThread}]

\* Where a thread can be.
Labels == {"user", "printing", "waiting", "woken", "locking", "locked"}

\* The number of bytes in a queue, and where the i-th is.
Filled(q) == (q.head - q.tail + INTQ_BUFSIZE) % INTQ_BUFSIZE
PlaceOf(q, i) == (q.tail + i - 1) % INTQ_BUFSIZE

\* The bytes from + 1 to to, in order.
Holds(q, from, to) ==
  /\ to - from = Filled(q)
  /\ \A i \in 1..Filled(q) : q.buf[PlaceOf(q, i)] = from + i

LEMMA BufferSize == INTQ_BUFSIZE \in Nat /\ INTQ_BUFSIZE > 1
  BY TerminalAssumption

\* Arithmetic modulo the size of the buffer.
LEMMA Small == \A x \in Places : x % INTQ_BUFSIZE = x
  BY BufferSize, SMTT(30) DEF Places
LEMMA Wrapped == \A x \in Places : (x + INTQ_BUFSIZE) % INTQ_BUFSIZE = x
  BY BufferSize, SMTT(30) DEF Places
LEMMA NextIs ==
  \A x \in Places : NextPos(x) = (IF x = INTQ_BUFSIZE - 1 THEN 0 ELSE x + 1)
                    /\ NextPos(x) \in Places
  BY BufferSize, SMTT(30) DEF Places, NextPos

LEMMA FilledIs ==
  ASSUME NEW q, q.head \in Places, q.tail \in Places
  PROVE  /\ Filled(q) = IF q.head >= q.tail THEN q.head - q.tail
                                            ELSE q.head - q.tail + INTQ_BUFSIZE
         /\ Filled(q) \in Places
         /\ intq_empty(q) <=> Filled(q) = 0
         /\ intq_full(q) <=> Filled(q) = INTQ_BUFSIZE - 1
<1>1. CASE q.head >= q.tail
  <2>1. q.head - q.tail \in Places
    BY <1>1, BufferSize DEF Places
  <2>2. (q.head - q.tail + INTQ_BUFSIZE) % INTQ_BUFSIZE = q.head - q.tail
    BY <2>1, Wrapped
  <2> QED
    BY <1>1, <2>1, <2>2, BufferSize, NextIs DEF Filled, intq_empty, intq_full, Places
<1>2. CASE q.head < q.tail
  <2>1. q.head - q.tail + INTQ_BUFSIZE \in Places
    BY <1>2, BufferSize DEF Places
  <2>2. Filled(q) = q.head - q.tail + INTQ_BUFSIZE
    BY <2>1, Small DEF Filled
  <2> QED
    BY <1>2, <2>1, <2>2, BufferSize, NextIs DEF intq_empty, intq_full, Places
<1> QED
  BY <1>1, <1>2, BufferSize DEF Places

LEMMA PlaceIs ==
  ASSUME NEW q, q.tail \in Places, NEW i \in 1..INTQ_BUFSIZE
  PROVE  /\ PlaceOf(q, i) = IF q.tail + i - 1 < INTQ_BUFSIZE THEN q.tail + i - 1
                            ELSE q.tail + i - 1 - INTQ_BUFSIZE
         /\ PlaceOf(q, i) \in Places
<1>1. CASE q.tail + i - 1 < INTQ_BUFSIZE
  <2>1. q.tail + i - 1 \in Places
    BY <1>1, BufferSize DEF Places
  <2> QED
    BY <1>1, <2>1, Small DEF PlaceOf
<1>2. CASE q.tail + i - 1 >= INTQ_BUFSIZE
  <2>1. PICK x \in Places : x = q.tail + i - 1 - INTQ_BUFSIZE
    BY <1>2, BufferSize DEF Places
  <2>2. (x + INTQ_BUFSIZE) % INTQ_BUFSIZE = x
    BY Wrapped
  <2>3. x + INTQ_BUFSIZE = q.tail + i - 1
    BY <2>1, BufferSize DEF Places
  <2>4. PlaceOf(q, i) = x
    BY <2>2, <2>3 DEF PlaceOf
  <2> QED
    BY <1>2, <2>1, <2>4, BufferSize DEF Places
<1> QED
  BY <1>1, <1>2, BufferSize DEF Places

\* intq_putc, into a queue that is not full.
LEMMA PutcPuts ==
  ASSUME NEW q \in Intq, NEW from \in Nat, NEW to \in Nat, Holds(q, from, to), ~intq_full(q)
  PROVE  /\ Putc(q, to + 1) \in Intq /\ Holds(Putc(q, to + 1), from, to + 1)
         /\ ~intq_empty(Putc(q, to + 1))
<1> DEFINE p == Putc(q, to + 1)
<1>1. /\ q.head \in Places /\ q.tail \in Places /\ q.buf \in [Places -> Nat]
  BY DEF Intq
<1>2. /\ p \in Intq /\ p.tail = q.tail /\ p.head = NextPos(q.head)
      /\ p.buf = [q.buf EXCEPT ![q.head] = to + 1]
  <2>1. NextPos(q.head) \in Places /\ to + 1 \in Nat
    BY <1>1, NextIs
  <2> QED
    BY <1>1, <2>1 DEF Putc, Intq
<1> HIDE DEF p
<1>3. p.head \in Places /\ p.tail \in Places
  BY <1>1, <1>2, NextIs
<1>4. Filled(p) = Filled(q) + 1 /\ Filled(q) \in Nat /\ Filled(q) < INTQ_BUFSIZE - 1
  <2>1. /\ Filled(q) = IF q.head >= q.tail THEN q.head - q.tail
                                           ELSE q.head - q.tail + INTQ_BUFSIZE
        /\ Filled(q) \in Places /\ Filled(q) # INTQ_BUFSIZE - 1
    BY <1>1, FilledIs
  <2>2. Filled(p) = IF p.head >= p.tail THEN p.head - p.tail
                                        ELSE p.head - p.tail + INTQ_BUFSIZE
    BY <1>3, FilledIs
  <2>3. p.head = (IF q.head = INTQ_BUFSIZE - 1 THEN 0 ELSE q.head + 1) /\ p.tail = q.tail
    BY <1>1, <1>2, NextIs
  <2>4. /\ q.head \in Nat /\ q.head < INTQ_BUFSIZE /\ q.tail \in Nat /\ q.tail < INTQ_BUFSIZE
        /\ Filled(q) \in Nat /\ Filled(q) < INTQ_BUFSIZE - 1
    BY <1>1, <2>1, BufferSize DEF Places
  <2> QED
    BY <2>1, <2>2, <2>3, <2>4, BufferSize
<1>5. PlaceOf(q, Filled(q) + 1) = q.head
  <2>1. Filled(q) + 1 \in 1..INTQ_BUFSIZE
    BY <1>4, BufferSize
  <2>2. PlaceOf(q, Filled(q) + 1) =
          IF q.tail + (Filled(q) + 1) - 1 < INTQ_BUFSIZE THEN q.tail + (Filled(q) + 1) - 1
          ELSE q.tail + (Filled(q) + 1) - 1 - INTQ_BUFSIZE
    BY <1>1, <2>1, PlaceIs
  <2>3. Filled(q) = IF q.head >= q.tail THEN q.head - q.tail
                                        ELSE q.head - q.tail + INTQ_BUFSIZE
    BY <1>1, FilledIs
  <2> QED
    BY <1>1, <2>2, <2>3, BufferSize DEF Places
<1>6. ASSUME NEW i \in 1..Filled(p) PROVE p.buf[PlaceOf(p, i)] = from + i
  <2>1. PlaceOf(p, i) = PlaceOf(q, i) /\ i \in 1..INTQ_BUFSIZE /\ PlaceOf(q, i) \in Places
    BY <1>1, <1>2, <1>4, PlaceIs, BufferSize DEF PlaceOf
  <2>2. CASE i = Filled(p)
    BY <1>1, <1>2, <1>4, <1>5, <2>1, <2>2 DEF Holds
  <2>3. CASE i # Filled(p)
    <3>1. i \in 1..Filled(q)
      BY <1>4, <2>3
    <3>2. PlaceOf(q, i) # q.head
      <4>1. PlaceOf(q, i) = IF q.tail + i - 1 < INTQ_BUFSIZE THEN q.tail + i - 1
                            ELSE q.tail + i - 1 - INTQ_BUFSIZE
        BY <1>1, <2>1, PlaceIs
      <4>2. Filled(q) = IF q.head >= q.tail THEN q.head - q.tail
                                            ELSE q.head - q.tail + INTQ_BUFSIZE
        BY <1>1, FilledIs
      <4> QED
        BY <1>1, <1>4, <3>1, <4>1, <4>2, BufferSize, SMTT(30) DEF Places
    <3> QED
      BY <1>1, <1>2, <2>1, <3>1, <3>2 DEF Holds
  <2> QED
    BY <2>2, <2>3
<1>7. to + 1 - from = Filled(p)
  BY <1>4 DEF Holds
<1>8. Holds(p, from, to + 1) /\ ~intq_empty(p)
  BY <1>3, <1>4, <1>6, <1>7, FilledIs DEF Holds
<1> QED
  BY <1>2, <1>8 DEF p

\* intq_getc, from a queue that is not empty.
LEMMA GetcTakes ==
  ASSUME NEW q \in Intq, NEW from \in Nat, NEW to \in Nat, Holds(q, from, to), ~intq_empty(q)
  PROVE  /\ Getc(q) \in Intq /\ Holds(Getc(q), from + 1, to) /\ ~intq_full(Getc(q))
         /\ q.buf[q.tail] = from + 1
<1> DEFINE p == Getc(q)
<1>1. /\ q.head \in Places /\ q.tail \in Places /\ q.buf \in [Places -> Nat]
  BY DEF Intq
<1>2. p \in Intq /\ p.tail = NextPos(q.tail) /\ p.head = q.head /\ p.buf = q.buf
  <2>1. NextPos(q.tail) \in Places
    BY <1>1, NextIs
  <2> QED
    BY <1>1, <2>1 DEF Getc, Intq
<1> HIDE DEF p
<1>3. p.head \in Places /\ p.tail \in Places
  BY <1>1, <1>2, NextIs
<1>4. Filled(p) = Filled(q) - 1 /\ Filled(q) \in Nat /\ Filled(q) > 0
      /\ Filled(q) <= INTQ_BUFSIZE - 1
  <2>1. /\ Filled(q) = IF q.head >= q.tail THEN q.head - q.tail
                                           ELSE q.head - q.tail + INTQ_BUFSIZE
        /\ Filled(q) \in Places /\ Filled(q) # 0
    BY <1>1, FilledIs
  <2>2. Filled(p) = IF p.head >= p.tail THEN p.head - p.tail
                                        ELSE p.head - p.tail + INTQ_BUFSIZE
    BY <1>3, FilledIs
  <2>3. p.tail = (IF q.tail = INTQ_BUFSIZE - 1 THEN 0 ELSE q.tail + 1) /\ p.head = q.head
    BY <1>1, <1>2, NextIs
  <2>4. /\ q.head \in Nat /\ q.head < INTQ_BUFSIZE /\ q.tail \in Nat /\ q.tail < INTQ_BUFSIZE
        /\ Filled(q) \in Nat /\ Filled(q) > 0 /\ Filled(q) <= INTQ_BUFSIZE - 1
    BY <1>1, <2>1, BufferSize DEF Places
  <2> QED
    BY <2>1, <2>2, <2>3, <2>4, BufferSize
<1>5. ASSUME NEW i \in 1..Filled(p) PROVE p.buf[PlaceOf(p, i)] = from + 1 + i
  <2>1. i \in 1..INTQ_BUFSIZE /\ i + 1 \in 1..INTQ_BUFSIZE /\ i + 1 \in 1..Filled(q)
    BY <1>4, BufferSize
  <2>2. PlaceOf(p, i) = PlaceOf(q, i + 1)
    <3>1. PlaceOf(p, i) = IF p.tail + i - 1 < INTQ_BUFSIZE THEN p.tail + i - 1
                          ELSE p.tail + i - 1 - INTQ_BUFSIZE
      BY <1>3, <2>1, PlaceIs
    <3>2. PlaceOf(q, i + 1) =
            IF q.tail + (i + 1) - 1 < INTQ_BUFSIZE THEN q.tail + (i + 1) - 1
            ELSE q.tail + (i + 1) - 1 - INTQ_BUFSIZE
      BY <1>1, <2>1, PlaceIs
    <3>3. p.tail = IF q.tail = INTQ_BUFSIZE - 1 THEN 0 ELSE q.tail + 1
      BY <1>1, <1>2, NextIs
    <3>4. i \in Nat /\ q.tail + i - 1 <= 2 * INTQ_BUFSIZE - 2 /\ i < INTQ_BUFSIZE
      BY <1>1, <2>1, BufferSize DEF Places
    <3> QED
      BY <1>1, <3>1, <3>2, <3>3, <3>4, BufferSize DEF Places
  <2>3. q.buf[PlaceOf(q, i + 1)] = from + (i + 1)
    BY <2>1 DEF Holds
  <2> QED
    BY <1>2, <2>2, <2>3
<1>6. PlaceOf(q, 1) = q.tail /\ 1 \in 1..Filled(q)
  BY <1>1, <1>4, PlaceIs, BufferSize, SMTT(30) DEF Places
<1>7. to - (from + 1) = Filled(p)
  BY <1>4 DEF Holds
<1>8. Holds(p, from + 1, to) /\ ~intq_full(p)
  BY <1>3, <1>4, <1>5, <1>7, FilledIs DEF Holds
<1> QED
  BY <1>2, <1>6, <1>8 DEF p, Holds

----------------------------------------------------------------------------
(* What holds of the character devices *)

\* The threads at the input buffer: who waits in wait has the buffer's lock and
\* will be woken, who waits for the lock is on its list once, and a free lock that
\* somebody waits for has been passed on.
ReadersOK(q, where) ==
  /\ \A t \in Readers : where[t] \in {"user", "waiting", "woken", "locking", "locked"}
  /\ q.waiter \in Readers \cup {NoThread}
  /\ \A t \in Readers : where[t] = "waiting" <=> q.waiter = t
  /\ q.waiter # NoThread => intq_empty(q)
  /\ \A t \in Readers : where[t] \in {"waiting", "woken"} => q.lock = 0
  /\ \A t, u \in Readers :
       where[t] \in {"waiting", "woken"} /\ where[u] \in {"waiting", "woken"} => t = u
  /\ \A i \in 1..Len(q.lockers) : where[q.lockers[i]] = "locking"
  /\ \A i, j \in 1..Len(q.lockers) : i # j => q.lockers[i] # q.lockers[j]
  /\ q.lockers # <<>> /\ q.lock = 1 => \E t \in Readers : where[t] = "locked"

\* The threads at the transmit queue: all but the holder of the console are away.
WritersOK(q, where, holder) ==
  /\ \A t \in Writers : where[t] \in {"user", "printing", "waiting", "woken"}
  /\ \A t \in Writers : where[t] # "user" => holder = t
  /\ q.waiter \in Writers \cup {NoThread}
  /\ \A t \in Writers : where[t] = "waiting" <=> q.waiter = t
  /\ q.waiter # NoThread => intq_full(q)
  /\ q.lockers = <<>>
  /\ q.lock = 0 => \E t \in Writers : where[t] \in {"waiting", "woken"}

PortOK == IF mode = "QUEUE" THEN ier = write_ier(input, txq) ELSE intq_empty(txq)

TerminalTypeOK ==
  /\ input \in Intq /\ txq \in Intq /\ at \in [Readers \cup Writers -> Labels]
  /\ came \in Nat /\ got \in Nat /\ put \in Nat /\ sent \in Nat

QueuesHold == Holds(input, got, came) /\ Holds(txq, sent, put)

ThreadsOK == ReadersOK(input, at) /\ WritersOK(txq, at, console_lock)

TerminalInv ==
  /\ TerminalTypeOK /\ QueuesHold
  /\ halted = "no" => ThreadsOK /\ PortOK

\* The same bytes, and other threads.
SameRing(p, q) == p.buf = q.buf /\ p.head = q.head /\ p.tail = q.tail

LEMMA RingsAgree ==
  ASSUME NEW p, NEW q, SameRing(p, q)
  PROVE  /\ intq_empty(p) = intq_empty(q) /\ intq_full(p) = intq_full(q)
         /\ \A from, to \in Nat : Holds(q, from, to) => Holds(p, from, to)
<1>1. Filled(p) = Filled(q) /\ \A i \in 1..Filled(q) : PlaceOf(p, i) = PlaceOf(q, i)
  BY DEF SameRing, Filled, PlaceOf
<1>2. intq_empty(p) = intq_empty(q) /\ intq_full(p) = intq_full(q)
  BY DEF SameRing, intq_empty, intq_full
<1> QED
  BY <1>1, <1>2 DEF SameRing, Holds

LEMMA SleepingRing ==
  ASSUME NEW q \in Intq, NEW t \in Readers \cup Writers, q.lock = 1 \/ t \in Readers
  PROVE  Sleeping(q, t) \in Intq /\ SameRing(Sleeping(q, t), q)
<1>1. CASE q.lock = 1
  BY <1>1 DEF Sleeping, Intq, SameRing
<1>2. CASE q.lock # 1
  <2>1. Append(q.lockers, t) \in Seq(Readers)
    BY <1>2, AppendProperties DEF Intq
  <2> QED
    BY <1>2, <2>1 DEF Sleeping, Intq, SameRing
<1> QED
  BY <1>1, <1>2

LEMMA UnlockedRing ==
  ASSUME NEW q \in Intq
  PROVE  Unlocked(q) \in Intq /\ SameRing(Unlocked(q), q)
<1>1. (IF q.lockers = <<>> THEN q.lockers ELSE Tail(q.lockers)) \in Seq(Readers)
  BY HeadTailProperties DEF Intq
<1> QED
  BY <1>1 DEF Unlocked, Intq, SameRing

\* What changes only the writers changes nothing for the readers.
LEMMA ReadersSame ==
  ASSUME NEW q \in Intq, NEW where, NEW now, ReadersOK(q, where),
         \A t \in Readers : now[t] = where[t]
  PROVE  ReadersOK(q, now)
<1>1. \A i \in 1..Len(q.lockers) : q.lockers[i] \in Readers
  BY DEF Intq
<1> QED
  BY <1>1 DEF ReadersOK

LEMMA WritersSame ==
  ASSUME NEW q, NEW where, NEW now, NEW holder, WritersOK(q, where, holder),
         \A t \in Writers : now[t] = where[t]
  PROVE  WritersOK(q, now, holder)
  BY DEF WritersOK

Moved(where, t, label) == [where EXCEPT ![t] = label]

\* A reader starts to wait for a byte, or for the lock.
LEMMA ReaderSleeps ==
  ASSUME NEW q \in Intq, NEW where \in [Readers \cup Writers -> Labels], ReadersOK(q, where),
         NEW t \in Readers, where[t] \in {"user", "locked"}, q.lock = 1 => intq_empty(q),
         where[t] = "locked" => q.lock = 0 \/ intq_empty(q)
  PROVE  ReadersOK(Sleeping(q, t), Moved(where, t, SleepsAt(q)))
<1> DEFINE p == Sleeping(q, t)
           now == Moved(where, t, SleepsAt(q))
<1>1. \A u \in Readers : now[u] = IF u = t THEN SleepsAt(q) ELSE where[u]
  BY DEF Moved
<1>2. q.lockers \in Seq(Readers) /\ q.lock \in {0, 1} /\ t # NoThread
  BY TerminalAssumption DEF Intq
<1>3. intq_empty(p) = intq_empty(q)
  BY SleepingRing, RingsAgree
<1>4. CASE q.lock = 1
  <2>1. /\ p.lock = 0 /\ p.waiter = t /\ p.lockers = q.lockers /\ SleepsAt(q) = "waiting"
    BY <1>4 DEF Sleeping, SleepsAt, Intq
  <2>2. \A u \in Readers : where[u] \notin {"waiting", "woken"}
    BY <1>4 DEF ReadersOK
  <2>3. \A i \in 1..Len(q.lockers) : q.lockers[i] \in Readers /\ q.lockers[i] # t
    BY <1>2 DEF ReadersOK
  <2> HIDE DEF p, now
  <2>4. ReadersOK(p, now)
    BY <1>1, <1>2, <1>3, <1>4, <2>1, <2>2, <2>3 DEF ReadersOK
  <2> QED
    BY <2>4 DEF p, now
<1>5. CASE q.lock = 0
  <2>1. /\ p.lock = 0 /\ p.waiter = q.waiter /\ p.lockers = Append(q.lockers, t)
        /\ SleepsAt(q) = "locking"
    BY <1>5 DEF Sleeping, SleepsAt, Intq
  <2>2. /\ Len(p.lockers) = Len(q.lockers) + 1 /\ p.lockers[Len(q.lockers) + 1] = t
        /\ Len(q.lockers) \in Nat
        /\ \A i \in 1..Len(q.lockers) : /\ p.lockers[i] = q.lockers[i]
                                        /\ q.lockers[i] \in Readers /\ q.lockers[i] # t
    <3>1. \A i \in 1..Len(q.lockers) : q.lockers[i] \in Readers /\ q.lockers[i] # t
      BY <1>2 DEF ReadersOK
    <3> QED
      BY <1>2, <2>1, <3>1, AppendProperties
  <2> HIDE DEF p, now
  <2>3. \A i \in 1..Len(p.lockers) : now[p.lockers[i]] = "locking"
    BY <1>1, <2>1, <2>2 DEF ReadersOK
  <2>4. \A i, j \in 1..Len(p.lockers) : i # j => p.lockers[i] # p.lockers[j]
    <3>1. PICK n \in Nat : n = Len(q.lockers)
      BY <2>2
    <3>2. \A i, j \in 1..n : i # j => q.lockers[i] # q.lockers[j]
      BY <3>1 DEF ReadersOK
    <3>3. /\ Len(p.lockers) = n + 1 /\ p.lockers[n + 1] = t
          /\ \A i \in 1..n : p.lockers[i] = q.lockers[i] /\ q.lockers[i] # t
      BY <2>2, <3>1
    <3>4. \A i \in 1..(n + 1) : i \in 1..n \/ i = n + 1
      OBVIOUS
    <3> QED
      BY <3>2, <3>3, <3>4
  <2>5. ReadersOK(p, now)
    BY <1>1, <1>2, <1>3, <1>5, <2>1, <2>3, <2>4 DEF ReadersOK
  <2> QED
    BY <2>5 DEF p, now
<1> QED
  BY <1>2, <1>4, <1>5

\* A woken reader lets go of the lock, which goes to the first on the list.
LEMMA ReaderUnlocks ==
  ASSUME NEW q \in Intq, NEW where \in [Readers \cup Writers -> Labels], ReadersOK(q, where),
         NEW t \in Readers, where[t] = "woken"
  PROVE  /\ ReadersOK(Unlocked(q), Moved(UnlockedAt(q, where), t, "user"))
         /\ UnlockedAt(q, where) \in [Readers \cup Writers -> Labels]
         /\ Unlocked(q).lock = 1
         /\ \A u \in Writers : UnlockedAt(q, where)[u] = where[u]
<1> DEFINE p == Unlocked(q)
           now == Moved(UnlockedAt(q, where), t, "user")
<1>1. /\ q.lockers \in Seq(Readers) /\ q.waiter = NoThread
      /\ \A u \in Readers : where[u] \in {"waiting", "woken"} => u = t
  BY TerminalAssumption DEF ReadersOK, Intq
<1>2. /\ p.lock = 1 /\ p.waiter = q.waiter
      /\ p.lockers = IF q.lockers = <<>> THEN q.lockers ELSE Tail(q.lockers)
  BY DEF Unlocked, Intq
<1>3. CASE q.lockers = <<>>
  <2>1. UnlockedAt(q, where) = where /\ p.lockers = <<>>
    BY <1>2, <1>3 DEF UnlockedAt
  <2>2. \A u \in Readers : now[u] = IF u = t THEN "user" ELSE where[u]
    BY <2>1 DEF Moved
  <2>3. 1..Len(p.lockers) = {}
    BY <2>1, EmptySeq
  <2> HIDE DEF p, now
  <2>4. ReadersOK(p, now)
    BY <1>1, <1>2, <2>1, <2>2, <2>3, TerminalAssumption DEF ReadersOK
  <2> QED
    BY <1>2, <2>1, <2>4 DEF p, now
<1>4. CASE q.lockers # <<>>
  <2> DEFINE h == Head(q.lockers)
  <2>1. /\ h = q.lockers[1] /\ h \in Readers /\ Len(q.lockers) \in Nat /\ 1 \in 1..Len(q.lockers)
        /\ p.lockers = Tail(q.lockers) /\ Len(p.lockers) = Len(q.lockers) - 1
        /\ \A i \in 1..Len(p.lockers) : /\ i + 1 \in 1..Len(q.lockers)
                                        /\ p.lockers[i] = q.lockers[i + 1]
    BY <1>1, <1>2, <1>4, HeadTailProperties
  <2>2. UnlockedAt(q, where) = [where EXCEPT ![h] = "locked"] /\ where[h] = "locking" /\ h # t
    BY <1>4, <2>1 DEF UnlockedAt, ReadersOK
  <2>3. \A u \in Readers : now[u] = IF u = t THEN "user" ELSE IF u = h THEN "locked" ELSE where[u]
    BY <2>1, <2>2 DEF Moved
  <2>4. \A u \in Writers : UnlockedAt(q, where)[u] = where[u]
    BY <2>1, <2>2, TerminalAssumption
  <2>5. UnlockedAt(q, where) \in [Readers \cup Writers -> Labels]
    BY <2>1, <2>2 DEF Labels
  <2> HIDE DEF p, now, h
  <2>6. \A i \in 1..Len(p.lockers) : /\ p.lockers[i] \in Readers /\ p.lockers[i] # h
                                     /\ p.lockers[i] # t /\ now[p.lockers[i]] = "locking"
    <3> TAKE i \in 1..Len(p.lockers)
    <3>1. i + 1 \in 1..Len(q.lockers) /\ i + 1 # 1 /\ p.lockers[i] = q.lockers[i + 1]
      BY <2>1
    <3>2. q.lockers[i + 1] \in Readers /\ where[q.lockers[i + 1]] = "locking"
          /\ q.lockers[i + 1] # h
      BY <1>1, <2>1, <3>1 DEF ReadersOK
    <3> QED
      BY <2>3, <3>1, <3>2
  <2>7. \A i, j \in 1..Len(p.lockers) : i # j => p.lockers[i] # p.lockers[j]
    BY <2>1 DEF ReadersOK
  <2>8. now[h] = "locked"
    BY <2>1, <2>2, <2>3
  <2>9. ReadersOK(p, now)
    <3>1. \A u \in Readers : now[u] \in {"user", "locking", "locked"}
      BY <1>1, <2>3 DEF ReadersOK
    <3>2. p.waiter = NoThread /\ NoThread \notin Readers /\ h \in Readers
      BY <1>1, <1>2, <2>1, TerminalAssumption
    <3> QED
      BY <2>6, <2>7, <2>8, <3>1, <3>2 DEF ReadersOK
  <2> QED
    BY <1>2, <2>4, <2>5, <2>9 DEF p, now
<1> QED
  BY <1>3, <1>4

\* A reader takes a byte: nobody waits for one.
LEMMA ReaderTakes ==
  ASSUME NEW q \in Intq, NEW where \in [Readers \cup Writers -> Labels], ReadersOK(q, where),
         NEW t \in Readers, where[t] = "user", ~intq_empty(q)
  PROVE  ReadersOK(Getc(q), where)
<1> DEFINE p == Getc(q)
<1>1. p.waiter = NoThread /\ q.waiter = NoThread /\ p.lock = q.lock /\ p.lockers = q.lockers
  BY DEF Getc, Intq, ReadersOK
<1> HIDE DEF p
<1>2. ReadersOK(p, where)
  BY <1>1 DEF ReadersOK
<1> QED
  BY <1>2 DEF p

\* A byte wakes the reader that waits for one.
LEMMA ByteArrives ==
  ASSUME NEW q \in Intq, NEW where \in [Readers \cup Writers -> Labels], ReadersOK(q, where),
         NEW byte
  PROVE  /\ ReadersOK(Putc(q, byte), Signal(q, where))
         /\ Signal(q, where) \in [Readers \cup Writers -> Labels]
         /\ \A u \in Writers : Signal(q, where)[u] = where[u]
<1> DEFINE p == Putc(q, byte)
           now == Signal(q, where)
<1>1. p.waiter = NoThread /\ p.lock = q.lock /\ p.lockers = q.lockers /\ NoThread \notin Readers
  BY TerminalAssumption DEF Putc, Intq
<1>2. q.lockers \in Seq(Readers)
  BY DEF Intq
<1>3. CASE q.waiter = NoThread
  <2>1. now = where
    BY <1>3 DEF Signal
  <2> HIDE DEF p
  <2>2. ReadersOK(p, where)
    BY <1>1, <1>3 DEF ReadersOK
  <2> QED
    BY <2>1, <2>2 DEF p
<1>4. CASE q.waiter # NoThread
  <2>1. PICK w \in Readers : w = q.waiter /\ where[w] = "waiting" /\ w \notin Writers
    BY <1>4, TerminalAssumption DEF ReadersOK
  <2>2. now = [where EXCEPT ![w] = "woken"]
    BY <1>4, <2>1 DEF Signal
  <2>3. now \in [Readers \cup Writers -> Labels] /\ \A u \in Writers : now[u] = where[u]
    BY <2>1, <2>2 DEF Labels
  <2>4. \A u \in Readers : now[u] = IF u = w THEN "woken" ELSE where[u]
    BY <2>2
  <2>5. \A i \in 1..Len(q.lockers) : q.lockers[i] \in Readers /\ q.lockers[i] # w
    BY <1>2, <2>1 DEF ReadersOK
  <2>6. \A u \in Readers : now[u] # "waiting"
    BY <2>1, <2>4 DEF ReadersOK
  <2>7. \A u \in Readers : now[u] = "locked" <=> where[u] = "locked"
    BY <2>1, <2>4
  <2>8. \A u \in Readers : now[u] \in {"waiting", "woken"} => where[u] \in {"waiting", "woken"}
    BY <2>1, <2>4
  <2> HIDE DEF p, now
  <2>9. ReadersOK(p, now)
    BY <1>1, <2>4, <2>5, <2>6, <2>7, <2>8 DEF ReadersOK
  <2> QED
    BY <2>3, <2>9 DEF p, now
<1> QED
  BY <1>3, <1>4

\* Room in the transmit queue wakes the writer that waits for it.
LEMMA RoomMade ==
  ASSUME NEW q \in Intq, NEW where \in [Readers \cup Writers -> Labels], NEW holder,
         WritersOK(q, where, holder)
  PROVE  /\ WritersOK(Getc(q), Signal(q, where), holder)
         /\ Signal(q, where) \in [Readers \cup Writers -> Labels]
         /\ \A u \in Readers : Signal(q, where)[u] = where[u]
<1> DEFINE p == Getc(q)
           now == Signal(q, where)
<1>1. p.waiter = NoThread /\ p.lock = q.lock /\ p.lockers = q.lockers /\ NoThread \notin Writers
  BY TerminalAssumption DEF Getc, Intq
<1>2. CASE q.waiter = NoThread
  <2>1. now = where
    BY <1>2 DEF Signal
  <2> HIDE DEF p
  <2>2. WritersOK(p, where, holder)
    BY <1>1, <1>2 DEF WritersOK
  <2> QED
    BY <2>1, <2>2 DEF p
<1>3. CASE q.waiter # NoThread
  <2>1. PICK w \in Writers : w = q.waiter /\ where[w] = "waiting" /\ w \notin Readers
    BY <1>3, TerminalAssumption DEF WritersOK
  <2>2. now = [where EXCEPT ![w] = "woken"]
    BY <1>3, <2>1 DEF Signal
  <2>3. now \in [Readers \cup Writers -> Labels] /\ \A u \in Readers : now[u] = where[u]
    BY <2>1, <2>2 DEF Labels
  <2>4. \A u \in Writers : now[u] = IF u = w THEN "woken" ELSE where[u]
    BY <2>2
  <2>5. \A u \in Writers : now[u] # "waiting" /\ (now[u] = "user" <=> where[u] = "user")
    BY <2>1, <2>4 DEF WritersOK
  <2> HIDE DEF p, now
  <2>6. WritersOK(p, now, holder)
    BY <1>1, <2>1, <2>4, <2>5 DEF WritersOK
  <2> QED
    BY <2>3, <2>6 DEF p, now
<1> QED
  BY <1>2, <1>3

\* The holder of the console waits for room: it finds the queue's lock free.
LEMMA WriterSleeps ==
  ASSUME NEW q \in Intq, NEW where \in [Readers \cup Writers -> Labels], NEW holder,
         WritersOK(q, where, holder), NEW t \in Writers, where[t] = "printing", intq_full(q)
  PROVE  /\ q.lock = 1
         /\ WritersOK(Sleeping(q, t), Moved(where, t, SleepsAt(q)), holder)
<1> DEFINE p == Sleeping(q, t)
           now == Moved(where, t, SleepsAt(q))
<1>1. q.lock = 1 /\ \A u \in Writers : u # t => where[u] = "user"
  BY DEF WritersOK, Intq
<1>2. p.lock = 0 /\ p.waiter = t /\ p.lockers = q.lockers /\ SleepsAt(q) = "waiting"
  BY <1>1 DEF Sleeping, SleepsAt, Intq
<1>3. intq_full(p)
  BY <1>1, SleepingRing, RingsAgree
<1>4. \A u \in Writers : now[u] = IF u = t THEN "waiting" ELSE where[u]
  BY <1>2 DEF Moved
<1> HIDE DEF p, now
<1>5. WritersOK(p, now, holder)
  BY <1>1, <1>2, <1>3, <1>4 DEF WritersOK
<1> QED
  BY <1>1, <1>5 DEF p, now

LEMMA WriterUnlocks ==
  ASSUME NEW q \in Intq, NEW where \in [Readers \cup Writers -> Labels], NEW holder,
         WritersOK(q, where, holder), NEW t \in Writers, where[t] = "woken"
  PROVE  WritersOK(Unlocked(q), Moved(where, t, "printing"), holder)
<1> DEFINE p == Unlocked(q)
           now == Moved(where, t, "printing")
<1>1. \A u \in Writers : u # t => where[u] = "user"
  BY DEF WritersOK
<1>2. p.lock = 1 /\ p.waiter = q.waiter /\ p.lockers = <<>> /\ q.waiter = NoThread
  BY <1>1 DEF Unlocked, WritersOK, Intq
<1>3. \A u \in Writers : now[u] = IF u = t THEN "printing" ELSE where[u]
  BY DEF Moved
<1> HIDE DEF p, now
<1>4. WritersOK(p, now, holder)
  BY <1>1, <1>2, <1>3, TerminalAssumption DEF WritersOK
<1> QED
  BY <1>4 DEF p, now

LEMMA WriterPuts ==
  ASSUME NEW q \in Intq, NEW where \in [Readers \cup Writers -> Labels], NEW holder,
         WritersOK(q, where, holder), NEW t \in Writers, where[t] = "printing", NEW byte
  PROVE  WritersOK(Putc(q, byte), where, holder)
<1> DEFINE p == Putc(q, byte)
<1>1. q.waiter = NoThread /\ \A u \in Writers : u # t => where[u] = "user"
  BY DEF WritersOK
<1>2. p.lock = q.lock /\ p.waiter = NoThread /\ p.lockers = q.lockers
  BY DEF Putc, Intq
<1> HIDE DEF p
<1>3. WritersOK(p, where, holder)
  BY <1>1, <1>2 DEF WritersOK
<1> QED
  BY <1>3 DEF p

\* A byte put where nobody waits for room.
LEMMA HandlerPuts ==
  ASSUME NEW q \in Intq, NEW where, NEW holder, WritersOK(q, where, holder), ~intq_full(q),
         NEW byte
  PROVE  WritersOK(Putc(q, byte), where, holder)
<1> DEFINE p == Putc(q, byte)
<1>1. q.waiter = NoThread
  BY DEF WritersOK
<1>2. p.lock = q.lock /\ p.waiter = NoThread /\ p.lockers = q.lockers
  BY DEF Putc, Intq
<1> HIDE DEF p
<1>3. WritersOK(p, where, holder)
  BY <1>1, <1>2 DEF WritersOK
<1> QED
  BY <1>3 DEF p

----------------------------------------------------------------------------
(* Each action of the character devices keeps the invariant *)

\* The port's register after a change of the input buffer.
LEMMA PortKept ==
  ASSUME PortOK, UNCHANGED <<txq, mode>>,
         \/ ier' = ier /\ intq_full(input') = intq_full(input)
         \/ ier' = serial_notify(input')
  PROVE  PortOK'
  BY DEF PortOK, serial_notify, write_ier

\* The loop of intq_getc, with the queue and the threads as they are there.
LEMMA GetLoopKeeps ==
  ASSUME TerminalInv, halted = "no", NEW t \in Readers, NEW q \in Intq, SameRing(q, input),
         NEW where \in [Readers \cup Writers -> Labels],
         ReadersOK(q, Moved(where, t, "user")),
         \A u \in Writers : where[u] = at[u],
         GetLoop(t, q, where),
         UNCHANGED <<txq, mode, console_lock, came, put, sent, halted>>
  PROVE  TerminalInv'
<1>1. TerminalTypeOK /\ QueuesHold /\ ThreadsOK /\ PortOK
  BY DEF TerminalInv
<1>2. PICK here \in [Readers \cup Writers -> Labels] :
        here = Moved(where, t, "user") /\ here[t] = "user"
  <2>1. t \in Readers \cup Writers /\ "user" \in Labels
    BY DEF Labels
  <2>2. /\ Moved(where, t, "user") \in [Readers \cup Writers -> Labels]
        /\ Moved(where, t, "user")[t] = "user"
    BY <2>1 DEF Moved
  <2> QED
    BY <2>2
<1>3. here[t] = "user" /\ t \notin Writers /\ ReadersOK(q, here)
  BY <1>2, TerminalAssumption
<1>4. /\ intq_empty(q) = intq_empty(input) /\ intq_full(q) = intq_full(input)
      /\ Holds(q, got, came)
  BY <1>1, RingsAgree DEF TerminalTypeOK, QueuesHold
<1>5. CASE intq_empty(q)
  <2>1. /\ input' = Sleeping(q, t) /\ at' = [where EXCEPT ![t] = SleepsAt(q)]
        /\ ier' = ier /\ got' = got
    BY <1>5 DEF GetLoop
  <2>2. input' \in Intq /\ SameRing(input', q)
    BY <2>1, SleepingRing
  <2>3. intq_full(input') = intq_full(q) /\ Holds(input', got', came')
    BY <1>1, <1>4, <2>1, <2>2, RingsAgree DEF TerminalTypeOK
  <2>4. SleepsAt(q) \in Labels /\ at' = Moved(here, t, SleepsAt(q))
    BY <1>2, <2>1 DEF SleepsAt, Labels, Moved
  <2>5. ReadersOK(input', at')
    BY <1>3, <1>5, <2>1, <2>4, ReaderSleeps
  <2>6. at' \in [Readers \cup Writers -> Labels] /\ \A u \in Writers : at'[u] = at[u]
    BY <1>2, <1>3, <2>4 DEF Moved
  <2>7. WritersOK(txq', at', console_lock')
    BY <1>1, <2>6, WritersSame DEF ThreadsOK
  <2>8. PortOK'
    BY <1>1, <1>4, <2>1, <2>3, PortKept
  <2> QED
    BY <1>1, <2>1, <2>2, <2>3, <2>5, <2>6, <2>7, <2>8
    DEF TerminalInv, TerminalTypeOK, QueuesHold, ThreadsOK
<1>6. CASE ~intq_empty(q)
  <2>1. /\ input' = Getc(q) /\ got' = got + 1 /\ ier' = serial_notify(input')
        /\ at' = [where EXCEPT ![t] = "user"]
    BY <1>6 DEF GetLoop
  <2>2. input' \in Intq /\ Holds(input', got', came') /\ got' \in Nat
    BY <1>1, <1>4, <1>6, <2>1, GetcTakes DEF TerminalTypeOK
  <2>3. at' = here
    BY <1>2, <2>1 DEF Moved
  <2>4. ReadersOK(input', at')
    BY <1>3, <1>6, <2>1, <2>3, ReaderTakes
  <2>5. at' \in [Readers \cup Writers -> Labels] /\ \A u \in Writers : at'[u] = at[u]
    BY <1>2, <1>3, <2>3 DEF Moved
  <2>6. WritersOK(txq', at', console_lock')
    BY <1>1, <2>5, WritersSame DEF ThreadsOK
  <2>7. PortOK'
    BY <1>1, <2>1, PortKept
  <2> QED
    BY <1>1, <2>1, <2>2, <2>4, <2>5, <2>6, <2>7
    DEF TerminalInv, TerminalTypeOK, QueuesHold, ThreadsOK
<1> QED
  BY <1>5, <1>6

LEMMA GetcKeeps ==
  ASSUME TerminalInv, halted = "no", NEW t \in Readers, input_getc(t)
  PROVE  TerminalInv'
<1>1. TerminalTypeOK /\ ReadersOK(input, at)
  BY DEF TerminalInv, ThreadsOK
<1>2. PICK q \in Intq, where \in [Readers \cup Writers -> Labels] : q = input /\ where = at
  BY <1>1 DEF TerminalTypeOK
<1>3. Moved(where, t, "user") = where /\ GetLoop(t, q, where) /\ SameRing(q, input)
  BY <1>2 DEF input_getc, SameRing, Moved
<1>4. UNCHANGED <<txq, mode, console_lock, came, put, sent, halted>>
  BY DEF input_getc
<1> QED
  BY <1>1, <1>2, <1>3, <1>4, GetLoopKeeps

LEMMA WokenKeeps ==
  ASSUME TerminalInv, halted = "no", NEW t \in Readers, ReaderWoken(t)
  PROVE  TerminalInv'
<1>1. TerminalTypeOK /\ ReadersOK(input, at) /\ at[t] = "woken"
  BY DEF TerminalInv, ThreadsOK, ReaderWoken
<1>2. PICK q \in Intq : q = Unlocked(input) /\ SameRing(q, input)
  BY <1>1, UnlockedRing DEF TerminalTypeOK
<1>3. PICK where \in [Readers \cup Writers -> Labels] :
        /\ where = UnlockedAt(input, at) /\ \A u \in Writers : where[u] = at[u]
        /\ ReadersOK(q, Moved(where, t, "user"))
  BY <1>1, <1>2, ReaderUnlocks DEF TerminalTypeOK
<1>4. GetLoop(t, q, where) /\ UNCHANGED <<txq, mode, console_lock, came, put, sent, halted>>
  BY <1>2, <1>3 DEF ReaderWoken
<1> QED
  BY <1>2, <1>3, <1>4, GetLoopKeeps

\* The kernel stops in the assertion of wait, or the reader waits again.
LEMMA LocksKeeps ==
  ASSUME TerminalInv, halted = "no", NEW t \in Readers, ReaderLocks(t)
  PROVE  TerminalInv'
<1>1. TerminalTypeOK /\ QueuesHold /\ ThreadsOK /\ PortOK /\ at[t] = "locked"
  BY DEF TerminalInv, ReaderLocks
<1>2. UNCHANGED <<mode, ier, console_lock, came, got, put>>
  BY DEF ReaderLocks
<1>3. PICK q \in Intq, where \in [Readers \cup Writers -> Labels] : q = input /\ where = at
  BY <1>1 DEF TerminalTypeOK
<1>4. CASE input.lock = 1 /\ ~intq_empty(input)
  <2>1. /\ halted' = "panic" /\ txq' = [txq EXCEPT !.tail = txq.head] /\ sent' = put
        /\ input' = input /\ at' = at
    BY <1>4 DEF ReaderLocks, Panic
  <2>2. txq' \in Intq /\ txq'.head = txq'.tail
    BY <1>1, <2>1 DEF TerminalTypeOK, Intq
  <2>3. Filled(txq') = 0
    <3>1. txq'.head \in Places /\ txq'.tail \in Places
      BY <2>2 DEF Intq
    <3> QED
      BY <2>2, <3>1, FilledIs DEF intq_empty
  <2>4. Holds(txq', sent', put')
    BY <1>1, <1>2, <2>1, <2>3 DEF Holds, TerminalTypeOK
  <2> QED
    BY <1>1, <1>2, <2>1, <2>2, <2>4 DEF TerminalInv, TerminalTypeOK, QueuesHold
<1>5. CASE ~(input.lock = 1 /\ ~intq_empty(input))
  <2>1. /\ input' = Sleeping(q, t) /\ at' = Moved(where, t, SleepsAt(q))
        /\ UNCHANGED <<txq, sent, halted>>
    BY <1>3, <1>5 DEF ReaderLocks, Moved
  <2>2. input' \in Intq /\ SameRing(input', q)
    BY <2>1, SleepingRing
  <2>3. intq_full(input') = intq_full(input) /\ Holds(input', got', came')
    BY <1>1, <1>2, <1>3, <2>2, RingsAgree DEF TerminalTypeOK, QueuesHold
  <2>4. ReadersOK(input', at')
    <3>1. q.lock = 0 \/ intq_empty(q)
      BY <1>3, <1>5 DEF Intq
    <3>2. ReadersOK(q, where) /\ where[t] = "locked"
      BY <1>1, <1>3 DEF ThreadsOK
    <3>3. q.lock = 1 => intq_empty(q)
      BY <3>1
    <3> QED
      BY <2>1, <3>1, <3>2, <3>3, ReaderSleeps
  <2>5. at' \in [Readers \cup Writers -> Labels] /\ \A u \in Writers : at'[u] = at[u]
    <3>1. SleepsAt(q) \in Labels /\ t \notin Writers
      BY TerminalAssumption DEF SleepsAt, Labels
    <3> QED
      BY <1>3, <2>1, <3>1 DEF Moved
  <2>6. WritersOK(txq', at', console_lock')
    BY <1>1, <1>2, <2>1, <2>5, WritersSame DEF ThreadsOK
  <2>7. PortOK'
    BY <1>1, <1>2, <2>1, <2>3, PortKept
  <2> QED
    BY <1>1, <1>2, <2>1, <2>2, <2>3, <2>4, <2>5, <2>6, <2>7
    DEF TerminalInv, TerminalTypeOK, QueuesHold, ThreadsOK
<1> QED
  BY <1>4, <1>5

\* The console's lock is taken and released.
LEMMA ConsoleKeeps ==
  ASSUME TerminalInv, halted = "no", NEW t \in Writers, putbuf(t) \/ release_console(t)
  PROVE  TerminalInv'
<1>1. TerminalTypeOK /\ QueuesHold /\ ThreadsOK /\ PortOK
  BY DEF TerminalInv
<1>2. UNCHANGED <<input, txq, mode, ier, came, got, put, sent, halted>>
  BY DEF putbuf, release_console
<1>3. PICK label \in {"user", "printing"} : at' = [at EXCEPT ![t] = label]
  BY DEF putbuf, release_console
<1>4. at' \in [Readers \cup Writers -> Labels] /\ \A u \in Readers : at'[u] = at[u]
  BY <1>1, <1>3, TerminalAssumption DEF TerminalTypeOK, Labels
<1>5. ReadersOK(input', at')
  BY <1>1, <1>2, <1>4, ReadersSame DEF ThreadsOK, TerminalTypeOK
<1>6. WritersOK(txq', at', console_lock')
  <2>1. \A u \in Writers : at'[u] = IF u = t THEN label ELSE at[u]
    BY <1>1, <1>3 DEF TerminalTypeOK
  <2>2. \A u \in Writers : u # t => at[u] = "user"
    BY <1>1, TerminalAssumption DEF ThreadsOK, WritersOK, putbuf, release_console
  <2>3. at[t] \in {"user", "printing"} /\ (label # "user" => console_lock' = t)
    BY <1>1, <1>3 DEF putbuf, release_console, TerminalTypeOK
  <2> QED
    BY <1>1, <1>2, <2>1, <2>2, <2>3 DEF ThreadsOK, WritersOK
<1>7. PortOK'
  BY <1>1, <1>2 DEF PortOK
<1> QED
  BY <1>1, <1>2, <1>4, <1>5, <1>6, <1>7
  DEF TerminalInv, TerminalTypeOK, QueuesHold, ThreadsOK

\* The loop of intq_putc.
LEMMA PutLoopKeeps ==
  ASSUME TerminalInv, halted = "no", NEW t \in Writers, NEW q \in Intq, SameRing(q, txq),
         NEW where \in [Readers \cup Writers -> Labels], where = Moved(at, t, "printing"),
         WritersOK(q, where, console_lock), PutLoop(t, q), mode = "QUEUE",
         UNCHANGED <<input, mode, console_lock, came, got, sent, halted>>
  PROVE  TerminalInv'
<1>1. TerminalTypeOK /\ QueuesHold /\ ThreadsOK /\ PortOK
  BY DEF TerminalInv
<1>2. intq_empty(q) = intq_empty(txq) /\ intq_full(q) = intq_full(txq) /\ Holds(q, sent, put)
  BY <1>1, RingsAgree DEF TerminalTypeOK, QueuesHold
<1>3. where[t] = "printing" /\ t \notin Readers
  BY <1>1, TerminalAssumption DEF Moved, TerminalTypeOK
<1>4. ier = write_ier(input, txq)
  BY <1>1 DEF PortOK
<1>5. CASE intq_full(q)
  <2>1. /\ txq' = Sleeping(q, t) /\ at' = Moved(where, t, SleepsAt(q))
        /\ ier' = ier /\ put' = put
    BY <1>5 DEF PutLoop, Moved
  <2>2. q.lock = 1 /\ WritersOK(txq', at', console_lock')
    BY <1>3, <1>5, <2>1, WriterSleeps
  <2>3. txq' \in Intq /\ SameRing(txq', q)
    BY <2>1, <2>2, SleepingRing
  <2>4. intq_empty(txq') = intq_empty(txq) /\ Holds(txq', sent', put')
    BY <1>1, <1>2, <2>1, <2>3, RingsAgree DEF TerminalTypeOK
  <2>5. at' \in [Readers \cup Writers -> Labels] /\ \A u \in Readers : at'[u] = at[u]
    <3>1. SleepsAt(q) \in Labels
      BY DEF SleepsAt, Labels
    <3> QED
      BY <1>1, <1>3, <2>1, <3>1 DEF Moved, TerminalTypeOK
  <2>6. ReadersOK(input', at')
    BY <1>1, <2>5, ReadersSame DEF ThreadsOK, TerminalTypeOK
  <2>7. PortOK'
    BY <1>4, <2>1, <2>4 DEF PortOK, write_ier
  <2> QED
    BY <1>1, <2>1, <2>2, <2>3, <2>4, <2>5, <2>6, <2>7
    DEF TerminalInv, TerminalTypeOK, QueuesHold, ThreadsOK
<1>6. CASE ~intq_full(q)
  <2>1. /\ txq' = Putc(q, put + 1) /\ put' = put + 1 /\ ier' = write_ier(input, txq')
        /\ at' = where
    BY <1>6 DEF PutLoop, Moved
  <2>2. txq' \in Intq /\ Holds(txq', sent', put') /\ put' \in Nat
    BY <1>1, <1>2, <1>6, <2>1, PutcPuts DEF TerminalTypeOK
  <2>3. WritersOK(txq', at', console_lock')
    BY <1>3, <2>1, WriterPuts
  <2>4. at' \in [Readers \cup Writers -> Labels] /\ \A u \in Readers : at'[u] = at[u]
    BY <1>1, <1>3, <2>1 DEF Moved, TerminalTypeOK
  <2>5. ReadersOK(input', at')
    BY <1>1, <2>4, ReadersSame DEF ThreadsOK, TerminalTypeOK
  <2>6. PortOK'
    BY <2>1 DEF PortOK
  <2> QED
    BY <1>1, <2>1, <2>2, <2>3, <2>4, <2>5, <2>6
    DEF TerminalInv, TerminalTypeOK, QueuesHold, ThreadsOK
<1> QED
  BY <1>5, <1>6

LEMMA PutcKeeps ==
  ASSUME TerminalInv, halted = "no", NEW t \in Writers, serial_putc(t)
  PROVE  TerminalInv'
<1>1. TerminalTypeOK /\ WritersOK(txq, at, console_lock)
  BY DEF TerminalInv, ThreadsOK
<1>2. PICK where \in [Readers \cup Writers -> Labels] : where = Moved(at, t, "printing")
  BY <1>1 DEF TerminalTypeOK, Moved, Labels
<1>3. mode = "QUEUE" /\ UNCHANGED <<input, mode, console_lock, came, got, sent, halted>>
  BY DEF serial_putc
<1>4. CASE at[t] = "printing" /\ PutLoop(t, txq)
  <2>1. PICK q \in Intq : q = txq /\ SameRing(q, txq)
    BY <1>1 DEF TerminalTypeOK, SameRing
  <2>2. where = at
    BY <1>1, <1>2, <1>4 DEF Moved, TerminalTypeOK
  <2> QED
    BY <1>1, <1>2, <1>3, <1>4, <2>1, <2>2, PutLoopKeeps
<1>5. CASE at[t] = "woken" /\ PutLoop(t, Unlocked(txq))
  <2>1. PICK q \in Intq : q = Unlocked(txq) /\ SameRing(q, txq)
    BY <1>1, UnlockedRing DEF TerminalTypeOK
  <2>2. WritersOK(q, where, console_lock)
    BY <1>1, <1>2, <1>5, <2>1, WriterUnlocks DEF TerminalTypeOK
  <2> QED
    BY <1>2, <1>3, <1>5, <2>1, <2>2, PutLoopKeeps
<1> QED
  BY <1>4, <1>5 DEF serial_putc

\* An interrupt handler prints: a full queue loses its oldest byte to the port.
LEMMA HandlerKeeps ==
  ASSUME TerminalInv, halted = "no", HandlerPrints
  PROVE  TerminalInv'
<1>1. TerminalTypeOK /\ QueuesHold /\ ThreadsOK
  BY DEF TerminalInv
<1>2. /\ put' = put + 1 /\ ier' = write_ier(input, txq') /\ mode = "QUEUE"
      /\ UNCHANGED <<input, mode, console_lock, came, got, halted>>
  BY DEF HandlerPrints
<1>3. PortOK'
  BY <1>2 DEF PortOK
<1>4. CASE intq_full(txq)
  <2>1. sent' = sent + 1 /\ at' = Signal(txq, at) /\ txq' = Putc(Getc(txq), put + 1)
    BY <1>4 DEF HandlerPrints
  <2>2. ~intq_empty(txq)
    <3>1. txq.head \in Places /\ txq.tail \in Places
      BY <1>1 DEF TerminalTypeOK, Intq
    <3> QED
      BY <1>4, <3>1, FilledIs, BufferSize
  <2>3. PICK q \in Intq : q = Getc(txq) /\ Holds(q, sent + 1, put) /\ ~intq_full(q)
    BY <1>1, <2>2, GetcTakes DEF TerminalTypeOK, QueuesHold
  <2>4. txq' \in Intq /\ Holds(txq', sent', put') /\ put' \in Nat /\ sent' \in Nat
    BY <1>1, <1>2, <2>1, <2>3, PutcPuts DEF TerminalTypeOK
  <2>5. /\ WritersOK(q, at', console_lock) /\ at' \in [Readers \cup Writers -> Labels]
        /\ \A u \in Readers : at'[u] = at[u]
    BY <1>1, <2>1, <2>3, RoomMade DEF TerminalTypeOK, ThreadsOK
  <2>6. WritersOK(txq', at', console_lock')
    BY <1>2, <2>1, <2>3, <2>5, HandlerPuts
  <2>7. ReadersOK(input', at')
    BY <1>1, <1>2, <2>5, ReadersSame DEF ThreadsOK, TerminalTypeOK
  <2> QED
    BY <1>1, <1>2, <1>3, <2>4, <2>5, <2>6, <2>7
    DEF TerminalInv, TerminalTypeOK, QueuesHold, ThreadsOK
<1>5. CASE ~intq_full(txq)
  <2>1. sent' = sent /\ at' = at /\ txq' = Putc(txq, put + 1)
    BY <1>5 DEF HandlerPrints
  <2>2. txq' \in Intq /\ Holds(txq', sent', put') /\ put' \in Nat
    BY <1>1, <1>2, <1>5, <2>1, PutcPuts DEF TerminalTypeOK, QueuesHold
  <2>3. WritersOK(txq', at', console_lock')
    BY <1>1, <1>2, <1>5, <2>1, HandlerPuts DEF TerminalTypeOK, ThreadsOK
  <2> QED
    BY <1>1, <1>2, <1>3, <2>1, <2>2, <2>3
    DEF TerminalInv, TerminalTypeOK, QueuesHold, ThreadsOK
<1> QED
  BY <1>4, <1>5

\* A byte from the keyboard or the serial port goes into the input buffer, which has room.
LEMMA ByteComes ==
  ASSUME TerminalTypeOK, Holds(input, got, came), ThreadsOK, ~intq_full(input),
         NEW q, q = Putc(input, came + 1), NEW where, where = Signal(input, at)
  PROVE  /\ q \in Intq /\ Holds(q, got, came + 1) /\ came + 1 \in Nat
         /\ where \in [Readers \cup Writers -> Labels]
         /\ ReadersOK(q, where) /\ WritersOK(txq, where, console_lock)
<1>1. q \in Intq /\ Holds(q, got, came + 1) /\ came + 1 \in Nat
  BY PutcPuts DEF TerminalTypeOK
<1>2. /\ where \in [Readers \cup Writers -> Labels] /\ ReadersOK(q, where)
      /\ \A u \in Writers : where[u] = at[u]
  BY ByteArrives DEF TerminalTypeOK, ThreadsOK
<1>3. WritersOK(txq, where, console_lock)
  BY <1>2, WritersSame DEF ThreadsOK
<1> QED
  BY <1>1, <1>2, <1>3

LEMMA KeyKeeps ==
  ASSUME TerminalInv, halted = "no", Key
  PROVE  TerminalInv'
<1>1. TerminalTypeOK /\ QueuesHold /\ ThreadsOK /\ PortOK
  BY DEF TerminalInv
<1>2. /\ ~intq_full(input) /\ input' = Putc(input, came + 1) /\ at' = Signal(input, at)
      /\ came' = came + 1 /\ ier' = serial_notify(input')
      /\ UNCHANGED <<txq, mode, console_lock, got, put, sent, halted>>
  BY DEF Key, KeyStays
<1>3. /\ input' \in Intq /\ Holds(input', got, came + 1) /\ came + 1 \in Nat
      /\ at' \in [Readers \cup Writers -> Labels]
      /\ ReadersOK(input', at') /\ WritersOK(txq, at', console_lock)
  BY <1>1, <1>2, ByteComes DEF QueuesHold
<1>4. PortOK'
  BY <1>1, <1>2, PortKept
<1> QED
  BY <1>1, <1>2, <1>3, <1>4 DEF TerminalInv, TerminalTypeOK, QueuesHold, ThreadsOK

\* One interrupt receives a byte, sends one, or both.
LEMMA InterruptKeeps ==
  ASSUME TerminalInv, halted = "no", serial_interrupt
  PROVE  TerminalInv'
<1>1. TerminalTypeOK /\ QueuesHold /\ ThreadsOK /\ PortOK
  BY DEF TerminalInv
<1> DEFINE receive == ~intq_full(input) /\ rbr
           transmit == ~intq_empty(txq) /\ thr
<1>2. PICK where : where = IF receive THEN Signal(input, at) ELSE at
  OBVIOUS
<1>3. /\ input' = IF receive THEN Putc(input, came + 1) ELSE input
      /\ came' = IF receive THEN came + 1 ELSE came
      /\ txq' = IF transmit THEN Getc(txq) ELSE txq
      /\ at' = IF transmit THEN Signal(txq, where) ELSE where
      /\ sent' = IF transmit THEN sent + 1 ELSE sent
      /\ ier' = write_ier(input', txq')
      /\ UNCHANGED <<mode, console_lock, got, put, halted>>
  BY <1>2 DEF serial_interrupt
<1>4. /\ input' \in Intq /\ Holds(input', got, came') /\ came' \in Nat
      /\ where \in [Readers \cup Writers -> Labels]
      /\ ReadersOK(input', where) /\ WritersOK(txq, where, console_lock)
  <2>1. CASE receive
    BY <1>1, <1>2, <1>3, <2>1, ByteComes DEF QueuesHold
  <2>2. CASE ~receive
    BY <1>1, <1>2, <1>3, <2>2 DEF QueuesHold, TerminalTypeOK, ThreadsOK
  <2> QED
    BY <2>1, <2>2
<1>5. /\ txq' \in Intq /\ Holds(txq', sent', put) /\ sent' \in Nat
      /\ at' \in [Readers \cup Writers -> Labels]
      /\ ReadersOK(input', at') /\ WritersOK(txq', at', console_lock)
  <2>1. CASE transmit
    <3>1. txq' \in Intq /\ Holds(txq', sent', put) /\ sent' \in Nat
      BY <1>1, <1>3, <2>1, GetcTakes DEF QueuesHold, TerminalTypeOK
    <3>2. /\ at' \in [Readers \cup Writers -> Labels] /\ \A u \in Readers : at'[u] = where[u]
          /\ WritersOK(txq', at', console_lock)
      BY <1>1, <1>3, <1>4, <2>1, RoomMade DEF TerminalTypeOK
    <3>3. ReadersOK(input', at')
      BY <1>4, <3>2, ReadersSame
    <3> QED
      BY <3>1, <3>2, <3>3
  <2>2. CASE ~transmit
    BY <1>1, <1>3, <1>4, <2>2 DEF QueuesHold, TerminalTypeOK
  <2> QED
    BY <2>1, <2>2
<1>6. PortOK'
  <2>1. mode # "QUEUE" => intq_empty(txq) /\ txq' = txq
    BY <1>1, <1>3 DEF PortOK
  <2> QED
    BY <1>3, <2>1 DEF PortOK
<1> QED
  BY <1>1, <1>3, <1>4, <1>5, <1>6 DEF TerminalInv, TerminalTypeOK, QueuesHold, ThreadsOK

\* What is left: the port is set up or polled, and keys that put no byte.
LEMMA OthersKeep ==
  ASSUME TerminalInv, halted = "no",
         \/ serial_init_queue \/ Arrives \/ Sent \/ ShiftKey \/ CtrlAltDel
         \/ \E t \in Writers : PutcPoll(t)
  PROVE  TerminalInv'
<1>1. TerminalTypeOK /\ QueuesHold /\ ThreadsOK /\ PortOK
  BY DEF TerminalInv
<1>2. UNCHANGED <<input, txq, at, console_lock, came, got>>
  BY DEF serial_init_queue, Arrives, Sent, ShiftKey, CtrlAltDel, PutcPoll, KeyStays
<1>3. CASE UNCHANGED <<put, sent>>
  <2>1. PortOK'
    BY <1>1, <1>2 DEF PortOK, serial_init_queue, Arrives, Sent, ShiftKey, CtrlAltDel, PutcPoll,
         KeyStays
  <2> QED
    BY <1>1, <1>2, <1>3, <2>1 DEF TerminalInv, TerminalTypeOK, QueuesHold, ThreadsOK
<1>4. CASE ~UNCHANGED <<put, sent>>
  <2>1. PICK t \in Writers : PutcPoll(t)
    BY <1>4 DEF serial_init_queue, Arrives, Sent, ShiftKey, CtrlAltDel, KeyStays
  <2>2. /\ intq_empty(txq) /\ put' = put + 1 /\ sent' = sent + 1
        /\ mode' = "POLL"
    BY <1>1, <2>1 DEF PutcPoll, PortOK
  <2>3. Filled(txq) = 0
    <3>1. txq.head \in Places /\ txq.tail \in Places
      BY <1>1 DEF TerminalTypeOK, Intq
    <3> QED
      BY <2>2, <3>1, FilledIs
  <2>4. Holds(txq, sent', put')
    BY <1>1, <2>2, <2>3 DEF Holds, QueuesHold, TerminalTypeOK
  <2>5. PortOK'
    BY <1>2, <2>2 DEF PortOK
  <2> QED
    BY <1>1, <1>2, <2>2, <2>4, <2>5 DEF TerminalInv, TerminalTypeOK, QueuesHold, ThreadsOK
<1> QED
  BY <1>3, <1>4

LEMMA TerminalSteps ==
  ASSUME TerminalInv, [TerminalNext]_terminalVars
  PROVE  TerminalInv'
<1>1. CASE TerminalNext
  <2>1. halted = "no"
    BY <1>1 DEF TerminalNext
  <2>2. ASSUME NEW t \in Readers, ReaderStep(t) PROVE TerminalInv'
    BY <2>1, <2>2, GetcKeeps, WokenKeeps, LocksKeeps DEF ReaderStep
  <2>3. ASSUME NEW t \in Writers, WriterStep(t) PROVE TerminalInv'
    BY <2>1, <2>3, ConsoleKeeps, PutcKeeps, OthersKeep DEF WriterStep
  <2>4. CASE Interrupts
    BY <2>1, <2>4, InterruptKeeps, KeyKeeps, HandlerKeeps, OthersKeep DEF Interrupts
  <2>5. CASE serial_init_queue \/ Arrives \/ Sent
    BY <2>1, <2>5, OthersKeep
  <2> QED
    BY <1>1, <2>2, <2>3, <2>4, <2>5 DEF TerminalNext
<1>2. CASE UNCHANGED terminalVars
  <2>1. UNCHANGED <<input, txq, mode, ier, console_lock, at, came, got, put, sent, halted>>
    BY <1>2 DEF terminalVars
  <2> QED
    BY <2>1 DEF TerminalInv, TerminalTypeOK, QueuesHold, ThreadsOK, PortOK
<1> QED
  BY <1>1, <1>2

LEMMA TerminalStarts == TerminalInit => TerminalInv
<1> SUFFICES ASSUME TerminalInit PROVE TerminalInv
  OBVIOUS
<1>1. /\ input = EmptyIntq /\ txq = EmptyIntq /\ mode = "UNINIT" /\ console_lock = NoThread
      /\ at = [t \in Readers \cup Writers |-> "user"]
      /\ came = 0 /\ got = 0 /\ put = 0 /\ sent = 0
  BY DEF TerminalInit
<1> DEFINE q == EmptyIntq
<1>2. /\ q \in Intq /\ q.head = 0 /\ q.tail = 0 /\ q.lock = 1 /\ q.lockers = <<>>
      /\ q.waiter = NoThread
  <2>1. <<>> \in Seq(Readers) /\ 0 \in Places
    BY EmptySeq, BufferSize DEF Places
  <2> QED
    BY <2>1 DEF EmptyIntq, Intq, Places
<1> HIDE DEF q
<1>3. intq_empty(q) /\ Filled(q) = 0 /\ Holds(q, 0, 0)
  <2>1. q.head \in Places /\ q.tail \in Places /\ intq_empty(q)
    BY <1>2 DEF Intq, intq_empty
  <2>2. Filled(q) = 0
    BY <2>1, FilledIs
  <2> QED
    BY <2>1, <2>2 DEF Holds
<1>4. 1..Len(q.lockers) = {}
  BY <1>2, EmptySeq
<1>5. ReadersOK(q, at) /\ WritersOK(q, at, console_lock)
  BY <1>1, <1>2, <1>4, TerminalAssumption DEF ReadersOK, WritersOK
<1>6. at \in [Readers \cup Writers -> Labels]
  BY <1>1 DEF Labels
<1> QED
  BY <1>1, <1>2, <1>3, <1>5, <1>6
  DEF q, TerminalInv, TerminalTypeOK, QueuesHold, ThreadsOK, PortOK

LEMMA TerminalInvariant == TerminalSpec => []TerminalInv
  BY TerminalStarts, TerminalSteps, PTL DEF TerminalSpec

\* No byte is lost, doubled or overtaken on its way through the input buffer or the
\* transmit queue (intq_getc, intq_putc, serial_putc, serial_interrupt).
THEOREM BytesKeepOrder == TerminalSpec => []BytesInOrder
<1>1. ASSUME NEW q, q.tail \in Places, q.head \in Places, NEW from \in Nat, NEW to \in Nat,
             Holds(q, from, to)
      PROVE  Bytes(q) = [i \in 1..(to - from) |-> from + i]
  <2>1. Bytes(q) = [i \in 1..Filled(q) |-> q.buf[PlaceOf(q, i)]]
    BY DEF Bytes, Filled, PlaceOf
  <2> QED
    BY <1>1, <2>1 DEF Holds
<1>2. TerminalInv => BytesInOrder
  <2> SUFFICES ASSUME TerminalInv PROVE BytesInOrder
    OBVIOUS
  <2>1. /\ input.tail \in Places /\ input.head \in Places /\ txq.tail \in Places
        /\ txq.head \in Places /\ Holds(input, got, came) /\ Holds(txq, sent, put)
        /\ got \in Nat /\ came \in Nat /\ put \in Nat /\ sent \in Nat
    BY DEF TerminalInv, TerminalTypeOK, QueuesHold, Intq
  <2> QED
    BY <1>1, <2>1 DEF BytesInOrder
<1> QED
  BY <1>2, TerminalInvariant, PTL

\* The port interrupts when it should, a sleeping thread is the one its queue will
\* wake, and a free lock that somebody waits for has been passed on (write_ier,
\* serial_notify, intq.c's wait and signal).
THEOREM NothingSticks == TerminalSpec => []NothingStuck
<1>1. TerminalInv => NothingStuck
  <2> SUFFICES ASSUME TerminalInv, halted = "no"
               PROVE  /\ mode = "QUEUE" => ier = write_ier(input, txq)
                      /\ \A t \in Readers : at[t] = "waiting" => input.waiter = t /\ intq_empty(input)
                      /\ \A t \in Writers : at[t] = "waiting" => txq.waiter = t /\ intq_full(txq)
                      /\ input.lockers # <<>> /\ input.lock = 1 =>
                           \E t \in Readers : at[t] = "locked"
    BY DEF NothingStuck
  <2>1. ReadersOK(input, at) /\ WritersOK(txq, at, console_lock) /\ PortOK
    BY DEF TerminalInv, ThreadsOK
  <2>2. NoThread \notin Readers /\ NoThread \notin Writers
    BY TerminalAssumption
  <2> QED
    BY <2>1, <2>2 DEF ReadersOK, WritersOK, PortOK
<1> QED
  BY <1>1, TerminalInvariant, PTL

----------------------------------------------------------------------------
(* What holds of the disks *)

Frame == [sector : Nat, primary : Nat, i : Nat \ {0}]
Extents == [dev : Devices, type : {"raw", "filesys", "foreign"}, start : Nat, size : Nat]
IoRequest == [at : {"lock", "select", "issue", "down", "busy", "done"}, op : {"read", "write"},
              dev : Devices, part : Extents, sector : DiskSectors, value : Contents]
Drive == [dev : Devices, sector : DiskSectors,
          state : {"idle", "reading", "data_in", "asking", "data_out"}]
         \cup [dev : Devices, sector : DiskSectors, state : {"writing"}, data : Contents]
Media == [Devices -> [DiskSectors -> Contents]]

DiskTypeOK ==
  /\ table \in Seq(PartitionEntry) /\ scan \in Seq(Frame)
  /\ partitions \subseteq [type : {"filesys", "foreign"}, start : Nat, size : Nat]
  /\ media \in Media /\ written \in Media /\ drive \in Drive
  /\ completion \in Nat /\ irq \in BOOLEAN /\ expecting_interrupt \in BOOLEAN
  /\ io \in [DiskThreads -> IoRequest \cup {IoOut}]

PartitionsFit == \A p \in partitions : p.start + p.size <= DiskSize
Confined(r) == r.sector \in r.part.start .. (r.part.start + r.part.size - 1)

\* What was asked to be written is on the disk, or on its way there.
DiskAgrees ==
  \A d \in Devices, s \in DiskSectors :
    written[d][s] = IF drive.state = "writing" /\ drive.dev = d /\ drive.sector = s
                    THEN drive.data ELSE media[d][s]

\* How far the disk is with the request r of the channel's holder.
Served(r) ==
  /\ r.at = "issue" => drive.state = "idle"
  /\ r.at \in {"issue", "down", "busy", "done"} =>
       drive.dev = r.dev /\ drive.sector = r.sector
  /\ r.at \in {"down", "busy"} => expecting_interrupt
  /\ r.at \in {"down", "busy"} /\ r.op = "read" => drive.state \in {"reading", "data_in"}
  /\ r.at = "busy" /\ r.op = "write" => drive.state \in {"asking", "data_out"}
  /\ r.at = "down" /\ r.op = "write" =>
       drive.state \in {"writing", "idle"} /\ written[r.dev][r.sector] = r.value
  /\ r.at = "down" => completion > 0 \/ irq \/ drive.state \in {"reading", "writing"}
  /\ r.at = "done" => written[r.dev][r.sector] = r.value

Away == {"out", "lock"}
HoldersOnly == \A t \in DiskThreads : io[t].at \notin Away => chan_lock = t
AllServed == \A t \in DiskThreads : Served(io[t]) /\ (io[t].at # "out" => Confined(io[t]))
DriveFree ==
  (\A t \in DiskThreads : io[t].at \in Away \cup {"select", "done"}) =>
    drive.state \in {"idle", "writing"}

DiskInv ==
  DiskTypeOK /\ PartitionsFit /\ DiskAgrees /\ HoldersOnly /\ AllServed /\ DriveFree

\* The block_sector_t's sum, and found_partition's check of it.
LEMMA WrapIs ==
  ASSUME NEW n \in Nat
  PROVE  /\ Wrap(n) \in 0..(SectorNos - 1)
         /\ n < SectorNos => Wrap(n) = n
         /\ n >= SectorNos /\ n < 2 * SectorNos => Wrap(n) = n - SectorNos
<1>1. SectorNos \in Nat /\ SectorNos > 0
  BY DiskAssumption
<1>2. n % SectorNos \in 0..(SectorNos - 1)
  BY <1>1, SMTT(30)
<1>3. n < SectorNos => n % SectorNos = n
  BY <1>1, SMTT(30)
<1>4. n >= SectorNos /\ n < 2 * SectorNos => n % SectorNos = n - SectorNos
  BY <1>1, SMTT(30)
<1> QED
  BY <1>2, <1>3, <1>4 DEF Wrap

LEMMA InDeviceFits ==
  ASSUME NEW start \in 0..(SectorNos - 1), NEW size \in 0..(SectorNos - 1), InDevice(start, size)
  PROVE  start + size <= DiskSize
<1>1. /\ SectorNos \in Nat /\ DiskSize \in Nat /\ start \in Nat /\ size \in Nat
      /\ start < SectorNos /\ size < SectorNos /\ start + size \in Nat
  BY DiskAssumption
<1>2. Wrap(start + size) >= start /\ Wrap(start + size) <= DiskSize
  BY DEF InDevice
<1>3. start + size < SectorNos
  <2>1. start + size >= SectorNos => Wrap(start + size) = start + size - SectorNos
    BY <1>1, WrapIs
  <2> QED
    BY <1>1, <1>2, <2>1
<1>4. Wrap(start + size) = start + size
  BY <1>1, <1>3, WrapIs
<1> QED
  BY <1>2, <1>4

\* The scan touches its own frames and the partitions alone.
LEMMA ScanKeeps ==
  ASSUME DiskInv, UNCHANGED scanVars, scan' \in Seq(Frame),
         partitions' \subseteq [type : {"filesys", "foreign"}, start : Nat, size : Nat],
         PartitionsFit'
  PROVE  DiskInv'
<1>1. /\ table' = table /\ media' = media /\ drive' = drive /\ irq' = irq
      /\ expecting_interrupt' = expecting_interrupt /\ completion' = completion
      /\ chan_lock' = chan_lock /\ io' = io /\ written' = written
  BY DEF scanVars
<1>2. DiskTypeOK'
  BY <1>1 DEF DiskInv, DiskTypeOK
<1>3. DiskAgrees' /\ HoldersOnly' /\ DriveFree'
  BY <1>1 DEF DiskInv, DiskAgrees, HoldersOnly, DriveFree
<1>4. AllServed'
  BY <1>1 DEF DiskInv, AllServed, Served
<1> QED
  BY <1>2, <1>3, <1>4 DEF DiskInv

LEMMA ScanFrames ==
  ASSUME DiskTypeOK, scan # <<>>
  PROVE  /\ Len(scan) \in 1..Len(scan) /\ Call \in Frame
         /\ Called \in Seq(Frame) /\ Len(Called) = Len(scan)
         /\ SubSeq(scan, 1, Len(scan) - 1) \in Seq(Frame)
<1>1. scan \in Seq(Frame) /\ Len(scan) \in Nat /\ Len(scan) > 0
  BY DEF DiskTypeOK
<1>2. Call \in Frame
  BY <1>1 DEF Call
<1>3. [scan[Len(scan)] EXCEPT !.i = @ + 1] \in Frame
  BY <1>2 DEF Call, Frame
<1>4. Called = [scan EXCEPT ![Len(scan)] = [scan[Len(scan)] EXCEPT !.i = @ + 1]]
  BY DEF Called
<1>5. Called \in Seq(Frame) /\ Len(Called) = Len(scan)
  BY <1>1, <1>3, <1>4
<1> QED
  BY <1>1, <1>2, <1>5

LEMMA AtEntryIs ==
  ASSUME DiskTypeOK, AtEntry
  PROVE  ScanEntry \in PartitionEntry
<1>1. scan # <<>> /\ Call.i <= Len(table)
  BY DEF AtEntry
<1>2. Call \in Frame
  BY <1>1, ScanFrames
<1>3. Call.i \in 1..Len(table) /\ table \in Seq(PartitionEntry)
  BY <1>1, <1>2 DEF Frame, DiskTypeOK
<1> QED
  BY <1>3 DEF ScanEntry

LEMMA ScanningKeeps ==
  ASSUME DiskInv, Scanning
  PROVE  DiskInv'
<1> USE DEF DiskInv
<1>1. /\ scan \in Seq(Frame) /\ PartitionsFit
      /\ partitions \subseteq [type : {"filesys", "foreign"}, start : Nat, size : Nat]
      /\ SectorNos \in Nat /\ DiskSize \in Nat \ {0} /\ SectorNos >= DiskSize
  BY DiskAssumption DEF DiskTypeOK
<1>2. CASE ScanReturns
  <2>1. scan' \in Seq(Frame) /\ partitions' = partitions /\ UNCHANGED scanVars
    BY <1>2, ScanFrames DEF ScanReturns
  <2>2. PartitionsFit'
    BY <1>1, <2>1 DEF PartitionsFit
  <2> QED
    BY <1>1, <2>1, <2>2, ScanKeeps
<1>3. CASE ScanUnused
  <2>1. scan' \in Seq(Frame) /\ partitions' = partitions /\ UNCHANGED scanVars
    BY <1>3, ScanFrames DEF ScanUnused, AtEntry
  <2>2. PartitionsFit'
    BY <1>1, <2>1 DEF PartitionsFit
  <2> QED
    BY <1>1, <2>1, <2>2, ScanKeeps
<1>4. CASE ScanExtended
  <2>1. AtEntry /\ scan # <<>> /\ partitions' = partitions /\ UNCHANGED scanVars
    BY <1>4 DEF ScanExtended, AtEntry
  <2>2. ScanEntry \in PartitionEntry /\ Call \in Frame /\ Called \in Seq(Frame)
    BY <2>1, ScanFrames, AtEntryIs
  <2> DEFINE top == Call.sector = 0
             call == [sector |-> IF top THEN ScanEntry.offset
                                 ELSE Wrap(ScanEntry.offset + Call.primary),
                      primary |-> IF top THEN ScanEntry.offset ELSE Call.primary, i |-> 1]
  <2>3. scan' = Append(Called, call)
    BY <1>4 DEF ScanExtended
  <2>4. ScanEntry.offset \in Nat /\ Call.primary \in Nat
    BY <2>2 DEF PartitionEntry, Frame
  <2>5. ScanEntry.offset + Call.primary \in Nat
    BY <2>4
  <2>6. Wrap(ScanEntry.offset + Call.primary) \in Nat
    BY <1>1, <2>5, WrapIs
  <2>7. call \in Frame
    BY <2>4, <2>6 DEF Frame
  <2> HIDE DEF call
  <2>8. scan' \in Seq(Frame)
    BY <2>2, <2>3, <2>7
  <2>9. PartitionsFit'
    BY <1>1, <2>1 DEF PartitionsFit
  <2> QED
    BY <1>1, <2>1, <2>8, <2>9, ScanKeeps
<1>5. CASE FoundPartition
  <2> DEFINE e == ScanEntry
             start == Wrap(e.offset + Call.sector)
             found == [type |-> e.type, start |-> start, size |-> e.size]
  <2>1. /\ AtEntry /\ scan # <<>> /\ scan' = Called /\ UNCHANGED scanVars
        /\ e.type # "unused" /\ e.type # "extended"
        /\ partitions' = IF InDevice(start, e.size) THEN partitions \cup {found} ELSE partitions
    BY <1>5 DEF FoundPartition, AtEntry, Unused
  <2>2. e \in PartitionEntry /\ Call \in Frame /\ Called \in Seq(Frame)
    BY <2>1, ScanFrames, AtEntryIs
  <2>3. /\ e.offset \in Nat /\ Call.sector \in Nat /\ e.size \in 0..(SectorNos - 1)
        /\ e.type \in {"filesys", "foreign"}
    BY <2>1, <2>2 DEF PartitionEntry, Frame
  <2>4. e.offset + Call.sector \in Nat
    BY <2>3
  <2>5. start \in 0..(SectorNos - 1)
    BY <2>4, WrapIs
  <2>6. InDevice(start, e.size) => start + e.size <= DiskSize
    BY <2>3, <2>5, InDeviceFits
  <2>7. found \in [type : {"filesys", "foreign"}, start : Nat, size : Nat]
    BY <1>1, <2>3, <2>5
  <2>8. found.start = start /\ found.size = e.size
    OBVIOUS
  <2> HIDE DEF start, found, e
  <2>9. PartitionsFit'
    BY <1>1, <2>1, <2>6, <2>8 DEF PartitionsFit
  <2>10. partitions' \subseteq [type : {"filesys", "foreign"}, start : Nat, size : Nat]
    BY <1>1, <2>1, <2>7
  <2>11. scan' \in Seq(Frame) /\ UNCHANGED scanVars
    BY <2>1, <2>2
  <2> QED
    BY <2>9, <2>10, <2>11, ScanKeeps
<1> QED
  BY <1>2, <1>3, <1>4, <1>5 DEF Scanning

\* A step of the channel's holder, or of the thread that gets the lock.
LEMMA HolderMoves ==
  ASSUME DiskInv, NEW t \in DiskThreads, NEW r \in IoRequest \cup {IoOut},
         io' = [io EXCEPT ![t] = r], chan_lock \in {t, NoIo},
         r.at \notin Away => chan_lock' = t,
         table' = table, scan' = scan, partitions' = partitions,
         media' \in Media, written' \in Media, drive' \in Drive, completion' \in Nat,
         irq' \in BOOLEAN, expecting_interrupt' \in BOOLEAN,
         DiskAgrees', Served(r)', r.at # "out" => Confined(r),
         r.at \in Away \cup {"select", "done"} => drive'.state \in {"idle", "writing"}
  PROVE  DiskInv'
<1> USE DEF DiskInv
<1>1. /\ io \in [DiskThreads -> IoRequest \cup {IoOut}]
      /\ NoIo \notin DiskThreads
  BY DiskAssumption DEF DiskTypeOK
<1>2. io'[t] = r /\ \A u \in DiskThreads \ {t} : io'[u] = io[u]
  BY <1>1
<1>3. \A u \in DiskThreads \ {t} : io[u].at \in Away
  BY <1>1 DEF HoldersOnly
<1>4. DiskTypeOK'
  BY <1>1 DEF DiskTypeOK
<1>5. HoldersOnly'
  BY <1>2, <1>3 DEF HoldersOnly
<1>6. AllServed'
  <2>1. ASSUME NEW u \in DiskThreads \ {t}
        PROVE  Served(io[u])' /\ (io'[u].at # "out" => Confined(io'[u]))
    BY <1>2, <1>3, <2>1 DEF Served, Away, AllServed
  <2>2. Served(io[t])' /\ (io'[t].at # "out" => Confined(io'[t]))
    BY <1>2 DEF Served
  <2> QED
    BY <2>1, <2>2 DEF AllServed
<1>7. DriveFree'
  BY <1>2 DEF DriveFree
<1>8. PartitionsFit'
  BY DEF PartitionsFit
<1> QED
  BY <1>4, <1>5, <1>6, <1>7, <1>8

\* A request that block.c refuses panics; one it admits waits for the channel.
LEMMA RequestKeeps ==
  ASSUME DiskInv, NEW t \in DiskThreads, Request(t)
  PROVE  DiskInv'
<1> USE DEF DiskInv
<1>1. /\ io \in [DiskThreads -> IoRequest \cup {IoOut}] /\ io[t].at = "out"
      /\ table' = table /\ scan' = scan /\ partitions' = partitions /\ media' = media
      /\ drive' = drive /\ irq' = irq /\ expecting_interrupt' = expecting_interrupt
      /\ completion' = completion /\ chan_lock' = chan_lock /\ written' = written
  BY DEF Request, DiskTypeOK, IsAt
<1>2. PICK b \in {[dev |-> d, type |-> "raw", start |-> 0, size |-> DiskSize] : d \in Devices}
                  \cup {[dev |-> 0, type |-> p.type, start |-> p.start, size |-> p.size] :
                          p \in partitions},
           sec_no \in 0..DiskSize, op \in {"read", "write"}, v \in Contents :
        IF \/ sec_no >= b.size \/ b.start + sec_no >= DiskSize
           \/ op = "write" /\ b.type = "foreign"
        THEN disk_panic' = TRUE /\ UNCHANGED io
        ELSE /\ Io(t, [at |-> "lock", op |-> op, dev |-> b.dev, part |-> b,
                       sector |-> b.start + sec_no, value |-> v])
             /\ UNCHANGED disk_panic
  BY DEF Request
<1>3. PartitionsFit' /\ DiskAgrees'
  BY <1>1 DEF PartitionsFit, DiskAgrees
<1>4. CASE io' = io
  <2>1. DiskTypeOK' /\ HoldersOnly' /\ DriveFree'
    BY <1>1, <1>4 DEF DiskTypeOK, HoldersOnly, DriveFree
  <2>2. AllServed'
    BY <1>1, <1>4 DEF AllServed, Served
  <2> QED
    BY <1>3, <2>1, <2>2
<1>5. CASE io' # io
  <2> DEFINE r == [at |-> "lock", op |-> op, dev |-> b.dev, part |-> b,
                   sector |-> b.start + sec_no, value |-> v]
  <2>1. /\ io' = [io EXCEPT ![t] = r]
        /\ sec_no < b.size /\ b.start + sec_no < DiskSize
    <3>1. ~(sec_no >= b.size) /\ ~(b.start + sec_no >= DiskSize) /\ Io(t, r)
      BY <1>2, <1>5
    <3>2. b.size \in Nat /\ b.start \in Nat /\ DiskSize \in Nat
      BY DiskAssumption DEF DiskTypeOK
    <3> QED
      BY <3>1, <3>2 DEF Io
  <2>2. b \in Extents
    <3>1. CASE b \in {[dev |-> d, type |-> "raw", start |-> 0, size |-> DiskSize] : d \in Devices}
      BY <3>1, DiskAssumption DEF Extents
    <3>2. ASSUME NEW p \in partitions,
                 b = [dev |-> 0, type |-> p.type, start |-> p.start, size |-> p.size]
          PROVE  b \in Extents
      <4>1. /\ p.type \in {"filesys", "foreign"} /\ p.start \in Nat /\ p.size \in Nat
            /\ 0 \in Devices
        BY DiskAssumption DEF DiskTypeOK
      <4> QED
        BY <3>2, <4>1 DEF Extents
    <3> QED
      BY <3>1, <3>2
  <2>3. b.start \in Nat /\ b.size \in Nat /\ b.dev \in Devices /\ sec_no \in Nat
    BY <2>2, DiskAssumption DEF Extents
  <2>4. b.start + sec_no \in DiskSectors
    BY <2>1, <2>3, DiskAssumption DEF DiskSectors
  <2>5. r \in IoRequest /\ r.at = "lock"
    BY <2>2, <2>3, <2>4 DEF IoRequest
  <2>6. Confined(r)
    BY <2>1, <2>3 DEF Confined
  <2> HIDE DEF r
  <2>7. io'[t] = r /\ \A u \in DiskThreads \ {t} : io'[u] = io[u]
    BY <1>1, <2>1
  <2>8. DiskTypeOK'
    BY <1>1, <2>1, <2>5 DEF DiskTypeOK
  <2>9. HoldersOnly'
    BY <1>1, <2>5, <2>7 DEF HoldersOnly, Away
  <2>10. DriveFree'
    BY <1>1, <2>5, <2>7 DEF DriveFree, Away
  <2>11. AllServed'
    <3>1. Served(io[t])' /\ Confined(io'[t])
      BY <2>5, <2>6, <2>7 DEF Served
    <3>2. ASSUME NEW u \in DiskThreads \ {t}
          PROVE  Served(io[u])' /\ (io'[u].at # "out" => Confined(io'[u]))
      BY <1>1, <2>7, <3>2 DEF AllServed, Served
    <3> QED
      BY <3>1, <3>2 DEF AllServed
  <2> QED
    BY <1>3, <2>8, <2>9, <2>10, <2>11
<1> QED
  BY <1>4, <1>5

\* A step that moves no thread.
LEMMA NoThreadMoves ==
  ASSUME DiskInv, io' = io, chan_lock' = chan_lock, table' = table, scan' = scan,
         partitions' = partitions, media' \in Media, written' \in Media, drive' \in Drive,
         completion' \in Nat, irq' \in BOOLEAN, expecting_interrupt' \in BOOLEAN,
         DiskAgrees', \A t \in DiskThreads : Served(io[t])',
         drive.state \in {"idle", "writing"} => drive'.state \in {"idle", "writing"}
  PROVE  DiskInv'
<1> USE DEF DiskInv
<1>1. DiskTypeOK' /\ HoldersOnly' /\ DriveFree'
  BY DEF DiskTypeOK, HoldersOnly, DriveFree
<1>2. AllServed'
  BY DEF AllServed
<1>3. PartitionsFit'
  BY DEF PartitionsFit
<1> QED
  BY <1>1, <1>2, <1>3

LEMMA InterruptsKeep ==
  ASSUME DiskInv, StrayInterrupt \/ InterruptHandler
  PROVE  DiskInv'
<1> USE DEF DiskInv
<1>1. /\ io' = io /\ chan_lock' = chan_lock /\ table' = table /\ scan' = scan
      /\ partitions' = partitions /\ media' = media /\ written' = written /\ drive' = drive
      /\ expecting_interrupt' = expecting_interrupt
  BY DEF StrayInterrupt, InterruptHandler, Rest
<1>2. /\ media' \in Media /\ written' \in Media /\ drive' \in Drive
      /\ expecting_interrupt' \in BOOLEAN /\ completion \in Nat
  BY <1>1 DEF DiskTypeOK
<1>3. completion' \in Nat /\ irq' \in BOOLEAN
  <2>1. irq' \in BOOLEAN
    BY DEF StrayInterrupt, InterruptHandler
  <2>2. completion' = completion \/ completion' = completion + 1
    BY DEF StrayInterrupt, InterruptHandler
  <2>3. completion' \in Nat
    BY <1>2, <2>2
  <2> QED
    BY <2>1, <2>3
<1>4. DiskAgrees'
  BY <1>1 DEF DiskAgrees
<1>5. ASSUME NEW t \in DiskThreads PROVE Served(io[t])'
  <2>1. Served(io[t]) /\ io'[t] = io[t]
    BY <1>1 DEF AllServed
  <2>2. completion > 0 => completion' > 0
    BY <1>2 DEF StrayInterrupt, InterruptHandler
  <2>3. irq /\ expecting_interrupt => irq' \/ completion' > 0
    BY <1>2 DEF StrayInterrupt, InterruptHandler
  <2> QED
    BY <1>1, <2>1, <2>2, <2>3 DEF Served
<1> QED
  BY <1>1, <1>2, <1>3, <1>4, <1>5, NoThreadMoves

\* The drive's registers, whatever it is doing.
LEMMA DriveIs ==
  ASSUME drive \in Drive
  PROVE  /\ drive.dev \in Devices /\ drive.sector \in DiskSectors
         /\ drive.state = "writing" => drive.data \in Contents
         /\ drive.state # "writing" =>
              drive = [dev |-> drive.dev, sector |-> drive.sector, state |-> drive.state]
<1>1. CASE drive \in [dev : Devices, sector : DiskSectors,
                      state : {"idle", "reading", "data_in", "asking", "data_out"}]
  BY <1>1
<1>2. CASE drive \in [dev : Devices, sector : DiskSectors, state : {"writing"}, data : Contents]
  BY <1>2
<1> QED
  BY <1>1, <1>2 DEF Drive

\* The state of a drive that is not writing can be changed alone, and so its sector.
LEMMA DriveGoes ==
  ASSUME drive \in Drive, drive.state # "writing",
         NEW s \in {"idle", "reading", "data_in", "asking", "data_out"}
  PROVE  /\ [drive EXCEPT !.state = s] \in Drive
         /\ [drive EXCEPT !.state = s].state = s
         /\ [drive EXCEPT !.state = s].dev = drive.dev
         /\ [drive EXCEPT !.state = s].sector = drive.sector
<1>1. drive \in [dev : Devices, sector : DiskSectors,
                 state : {"idle", "reading", "data_in", "asking", "data_out"}]
  BY DEF Drive
<1>2. [drive EXCEPT !.state = s] \in [dev : Devices, sector : DiskSectors,
                 state : {"idle", "reading", "data_in", "asking", "data_out"}]
  BY <1>1
<1> QED
  BY <1>1, <1>2 DEF Drive

LEMMA DriveTurns ==
  ASSUME drive \in Drive, drive.state # "writing", NEW d \in Devices, NEW n \in DiskSectors
  PROVE  /\ [drive EXCEPT !.dev = d, !.sector = n] \in Drive
         /\ [drive EXCEPT !.dev = d, !.sector = n].state = drive.state
         /\ [drive EXCEPT !.dev = d, !.sector = n].dev = d
         /\ [drive EXCEPT !.dev = d, !.sector = n].sector = n
<1>1. drive \in [dev : Devices, sector : DiskSectors,
                 state : {"idle", "reading", "data_in", "asking", "data_out"}]
  BY DEF Drive
<1>2. [drive EXCEPT !.dev = d, !.sector = n] \in [dev : Devices, sector : DiskSectors,
                 state : {"idle", "reading", "data_in", "asking", "data_out"}]
  BY <1>1
<1> QED
  BY <1>1, <1>2 DEF Drive

LEMMA DriveStepKeeps ==
  ASSUME DiskInv, DriveStep
  PROVE  DiskInv'
<1> USE DEF DiskInv
<1>1. /\ io' = io /\ chan_lock' = chan_lock /\ table' = table /\ scan' = scan
      /\ partitions' = partitions /\ written' = written /\ completion' = completion
      /\ expecting_interrupt' = expecting_interrupt
  BY DEF DriveStep, Rest
<1>2. /\ media \in Media /\ written' \in Media /\ completion' \in Nat /\ drive \in Drive
      /\ expecting_interrupt' \in BOOLEAN
  BY <1>1 DEF DiskTypeOK
<1>3. /\ drive.dev \in Devices /\ drive.sector \in DiskSectors
      /\ drive.state = "writing" => drive.data \in Contents
  BY <1>2, DriveIs
<1>4. irq' \in BOOLEAN
  BY DEF DriveStep, DiskTypeOK
<1>5. CASE drive.state = "reading"
  <2>1. /\ drive' \in Drive /\ drive'.state = "data_in"
        /\ drive'.dev = drive.dev /\ drive'.sector = drive.sector
    <3>1. drive' = [drive EXCEPT !.state = "data_in"]
      BY <1>5 DEF DriveStep
    <3> QED
      BY <1>2, <1>5, <3>1, DriveGoes
  <2>2. media' = media /\ irq'
    BY <1>5 DEF DriveStep
  <2>3. DiskAgrees'
    BY <1>1, <1>5, <2>1, <2>2 DEF DiskAgrees
  <2>4. ASSUME NEW t \in DiskThreads PROVE Served(io[t])'
    BY <1>1, <1>5, <2>1, <2>2 DEF AllServed, Served
  <2> QED
    BY <1>1, <1>2, <1>4, <1>5, <2>1, <2>2, <2>3, <2>4, NoThreadMoves
<1>6. CASE drive.state = "asking"
  <2>1. /\ drive' \in Drive /\ drive'.state = "data_out"
        /\ drive'.dev = drive.dev /\ drive'.sector = drive.sector
    <3>1. drive' = [drive EXCEPT !.state = "data_out"]
      BY <1>6 DEF DriveStep
    <3> QED
      BY <1>2, <1>6, <3>1, DriveGoes
  <2>2. media' = media /\ irq' = irq
    BY <1>6 DEF DriveStep
  <2>3. DiskAgrees'
    BY <1>1, <1>6, <2>1, <2>2 DEF DiskAgrees
  <2>4. ASSUME NEW t \in DiskThreads PROVE Served(io[t])'
    BY <1>1, <1>6, <2>1, <2>2 DEF AllServed, Served
  <2> QED
    BY <1>1, <1>2, <1>4, <1>6, <2>1, <2>2, <2>3, <2>4, NoThreadMoves
<1>7. CASE drive.state = "writing"
  <2>1. /\ drive' = [dev |-> drive.dev, sector |-> drive.sector, state |-> "idle"]
        /\ media' = [media EXCEPT ![drive.dev][drive.sector] = drive.data] /\ irq'
    BY <1>7 DEF DriveStep
  <2>2. drive' \in Drive
    BY <1>3, <2>1 DEF Drive
  <2>3. media' \in Media
    BY <1>2, <1>3, <1>7, <2>1 DEF Media
  <2>4. DiskAgrees'
    BY <1>1, <1>2, <1>3, <1>7, <2>1 DEF DiskAgrees, Media
  <2>5. ASSUME NEW t \in DiskThreads PROVE Served(io[t])'
    BY <1>1, <1>7, <2>1 DEF AllServed, Served
  <2> QED
    BY <1>1, <1>2, <1>4, <1>7, <2>1, <2>2, <2>3, <2>4, <2>5, NoThreadMoves
<1> QED
  BY <1>5, <1>6, <1>7 DEF DriveStep

\* What every step of a thread at work starts from.
LEMMA AtWork ==
  ASSUME DiskInv, NEW t \in DiskThreads, io[t].at \in {"lock", "select", "issue", "down", "busy", "done"}
  PROVE  /\ io \in [DiskThreads -> IoRequest \cup {IoOut}] /\ io[t] \in IoRequest
         /\ io[t].dev \in Devices /\ io[t].sector \in DiskSectors /\ io[t].value \in Contents
         /\ io[t].op \in {"read", "write"}
         /\ Served(io[t]) /\ Confined(io[t])
         /\ io[t].at # "lock" => chan_lock = t
<1>1. io \in [DiskThreads -> IoRequest \cup {IoOut}] /\ io[t] \in IoRequest \cup {IoOut}
  BY DEF DiskInv, DiskTypeOK
<1>2. io[t] # IoOut
  BY DEF IoOut
<1>3. Served(io[t]) /\ Confined(io[t]) /\ (io[t].at # "lock" => chan_lock = t)
  BY DEF DiskInv, AllServed, HoldersOnly, Away
<1>4. io[t] \in IoRequest
  BY <1>1, <1>2
<1>5. /\ io[t].dev \in Devices /\ io[t].sector \in DiskSectors /\ io[t].value \in Contents
      /\ io[t].op \in {"read", "write"}
  BY <1>4 DEF IoRequest
<1> QED
  BY <1>1, <1>3, <1>4, <1>5

\* The thread goes on to the next label with its request unchanged.
LEMMA StepIs ==
  ASSUME DiskInv, NEW t \in DiskThreads, io[t].at \in {"lock", "select", "issue", "down", "busy", "done"},
         NEW label \in {"lock", "select", "issue", "down", "busy", "done"}, Step(t, label)
  PROVE  \E r \in IoRequest :
           /\ io' = [io EXCEPT ![t] = r] /\ r.at = label
           /\ r.op = io[t].op /\ r.dev = io[t].dev /\ r.sector = io[t].sector
           /\ r.value = io[t].value /\ r.part = io[t].part /\ Confined(r)
<1>1. io[t] \in IoRequest /\ Confined(io[t])
  BY AtWork
<1> DEFINE r == [io[t] EXCEPT !.at = label]
<1>2. /\ r \in IoRequest /\ r.at = label
      /\ r.op = io[t].op /\ r.dev = io[t].dev /\ r.sector = io[t].sector
      /\ r.value = io[t].value /\ r.part = io[t].part
  BY <1>1 DEF IoRequest
<1>3. io' = [io EXCEPT ![t] = r]
  BY DEF Step, Io
<1> HIDE DEF r
<1>4. Confined(r)
  BY <1>1, <1>2 DEF Confined
<1> QED
  BY <1>2, <1>3, <1>4

LEMMA ChannelLockKeeps ==
  ASSUME DiskInv, NEW t \in DiskThreads, ChannelLock(t)
  PROVE  DiskInv'
<1>1. io[t].at = "lock" /\ Step(t, "select") /\ chan_lock = NoIo /\ chan_lock' = t
  BY DEF ChannelLock, IsAt
<1>2. PICK r \in IoRequest :
        /\ io' = [io EXCEPT ![t] = r] /\ r.at = "select" /\ Confined(r)
  BY <1>1, StepIs
<1>3. /\ table' = table /\ scan' = scan /\ partitions' = partitions
      /\ media' = media /\ drive' = drive /\ written' = written /\ irq' = irq
      /\ completion' = completion /\ expecting_interrupt' = expecting_interrupt
  BY DEF ChannelLock, Rest
<1>4. /\ media' \in Media /\ written' \in Media /\ completion' \in Nat /\ drive' \in Drive
      /\ expecting_interrupt' \in BOOLEAN /\ irq' \in BOOLEAN
  BY <1>3 DEF DiskInv, DiskTypeOK
<1>5. DiskAgrees'
  BY <1>3 DEF DiskInv, DiskAgrees
<1>6. Served(r)'
  BY <1>2 DEF Served
<1>7. drive'.state \in {"idle", "writing"}
  <2>1. \A u \in DiskThreads : io[u].at \in Away
    BY <1>1, DiskAssumption DEF DiskInv, HoldersOnly
  <2> QED
    BY <1>3, <2>1 DEF DiskInv, DriveFree
<1> QED
  BY <1>1, <1>2, <1>3, <1>4, <1>5, <1>6, <1>7, HolderMoves DEF Away

\* While the holder has not issued its command, and once it is done, the disk is free.
LEMMA FreeForHolder ==
  ASSUME DiskInv, NEW t \in DiskThreads, io[t].at \in {"select", "done"}
  PROVE  drive.state \in {"idle", "writing"}
<1>1. chan_lock = t
  BY AtWork
<1>2. \A u \in DiskThreads : u # t => io[u].at \in Away
  BY <1>1 DEF DiskInv, HoldersOnly
<1> QED
  BY <1>2 DEF DiskInv, DriveFree

LEMMA SelectSectorKeeps ==
  ASSUME DiskInv, NEW t \in DiskThreads, SelectSector(t)
  PROVE  DiskInv'
<1>1. io[t].at = "select" /\ Step(t, "issue") /\ drive.state = "idle" /\ irq' = FALSE
  BY DEF SelectSector, IsAt, wait_until_idle
<1>2. PICK r \in IoRequest :
        /\ io' = [io EXCEPT ![t] = r] /\ r.at = "issue" /\ Confined(r)
        /\ r.dev = io[t].dev /\ r.sector = io[t].sector
  BY <1>1, StepIs
<1>3. /\ table' = table /\ scan' = scan /\ partitions' = partitions
      /\ media' = media /\ written' = written /\ chan_lock' = chan_lock
      /\ completion' = completion /\ expecting_interrupt' = expecting_interrupt
  BY DEF SelectSector, Rest
<1>4. /\ io[t].dev \in Devices /\ io[t].sector \in DiskSectors /\ chan_lock = t
      /\ drive \in Drive
  BY <1>1, AtWork DEF DiskInv, DiskTypeOK
<1>5. /\ drive' \in Drive /\ drive'.state = "idle"
      /\ drive'.dev = r.dev /\ drive'.sector = r.sector
  <2>1. drive' = [drive EXCEPT !.dev = io[t].dev, !.sector = io[t].sector]
    BY DEF SelectSector
  <2> QED
    BY <1>1, <1>2, <1>4, <2>1, DriveTurns
<1>6. /\ media' \in Media /\ written' \in Media /\ completion' \in Nat
      /\ expecting_interrupt' \in BOOLEAN
  BY <1>3 DEF DiskInv, DiskTypeOK
<1>7. DiskAgrees'
  BY <1>1, <1>3, <1>5 DEF DiskInv, DiskAgrees
<1>8. Served(r)'
  BY <1>2, <1>5 DEF Served
<1>9. irq' \in BOOLEAN
  BY <1>1
<1> QED
  BY <1>2, <1>3, <1>4, <1>5, <1>6, <1>7, <1>8, <1>9, HolderMoves DEF Away

LEMMA IssueKeeps ==
  ASSUME DiskInv, NEW t \in DiskThreads, IssuePioCommand(t)
  PROVE  DiskInv'
<1> DEFINE label == IF io[t].op = "read" THEN "down" ELSE "busy"
           state == IF io[t].op = "read" THEN "reading" ELSE "asking"
<1>1. io[t].at = "issue" /\ Step(t, label) /\ drive' = [drive EXCEPT !.state = state]
      /\ expecting_interrupt' = TRUE
  BY DEF IssuePioCommand, IsAt
<1>2. PICK r \in IoRequest :
        /\ io' = [io EXCEPT ![t] = r] /\ r.at = label /\ Confined(r)
        /\ r.dev = io[t].dev /\ r.sector = io[t].sector /\ r.op = io[t].op
  BY <1>1, StepIs
<1>3. /\ table' = table /\ scan' = scan /\ partitions' = partitions /\ irq' = irq
      /\ media' = media /\ written' = written /\ chan_lock' = chan_lock
      /\ completion' = completion
  BY DEF IssuePioCommand, Rest
<1>4. /\ chan_lock = t /\ Served(io[t]) /\ io[t].op \in {"read", "write"} /\ drive \in Drive
  BY <1>1, AtWork DEF DiskInv, DiskTypeOK
<1>5. drive.state = "idle" /\ drive.dev = r.dev /\ drive.sector = r.sector
  BY <1>1, <1>2, <1>4 DEF Served
<1>6. /\ drive' \in Drive /\ drive'.state = state
      /\ drive'.dev = r.dev /\ drive'.sector = r.sector
  BY <1>1, <1>4, <1>5, DriveGoes
<1>7. /\ media' \in Media /\ written' \in Media /\ completion' \in Nat /\ irq' \in BOOLEAN
  BY <1>3 DEF DiskInv, DiskTypeOK
<1>8. DiskAgrees'
  BY <1>3, <1>5, <1>6 DEF DiskInv, DiskAgrees
<1>9. Served(r)'
  BY <1>1, <1>2, <1>4, <1>6 DEF Served
<1>10. expecting_interrupt' \in BOOLEAN
  BY <1>1
<1> QED
  BY <1>2, <1>3, <1>4, <1>6, <1>7, <1>8, <1>9, <1>10, HolderMoves DEF Away

LEMMA CompletedKeeps ==
  ASSUME DiskInv, NEW t \in DiskThreads, Completed(t)
  PROVE  DiskInv'
<1> DEFINE label == IF io[t].op = "read" THEN "busy" ELSE "done"
<1>1. io[t].at = "down" /\ Step(t, label) /\ completion > 0 /\ completion' = completion - 1
  BY DEF Completed, IsAt
<1>2. PICK r \in IoRequest :
        /\ io' = [io EXCEPT ![t] = r] /\ r.at = label /\ Confined(r)
        /\ r.dev = io[t].dev /\ r.sector = io[t].sector /\ r.op = io[t].op
        /\ r.value = io[t].value
  BY <1>1, StepIs
<1>3. /\ table' = table /\ scan' = scan /\ partitions' = partitions /\ irq' = irq
      /\ media' = media /\ written' = written /\ chan_lock' = chan_lock
      /\ drive' = drive /\ expecting_interrupt' = expecting_interrupt
  BY DEF Completed, Rest
<1>4. /\ chan_lock = t /\ Served(io[t]) /\ io[t].op \in {"read", "write"}
  BY <1>1, AtWork
<1>5. /\ media' \in Media /\ written' \in Media /\ irq' \in BOOLEAN
      /\ drive' \in Drive /\ expecting_interrupt' \in BOOLEAN /\ completion \in Nat
  BY <1>3 DEF DiskInv, DiskTypeOK
<1>6. completion' \in Nat
  BY <1>1, <1>5
<1>7. DiskAgrees'
  BY <1>3 DEF DiskInv, DiskAgrees
<1>8. Served(r)'
  BY <1>1, <1>2, <1>3, <1>4 DEF Served
<1>9. r.at = "done" => drive'.state \in {"idle", "writing"}
  BY <1>1, <1>2, <1>3, <1>4 DEF Served
<1>10. r.at \in {"busy", "done"}
  BY <1>2
<1> QED
  BY <1>2, <1>3, <1>4, <1>5, <1>6, <1>7, <1>8, <1>9, <1>10, HolderMoves DEF Away

LEMMA InputSectorKeeps ==
  ASSUME DiskInv, NEW t \in DiskThreads, InputSector(t)
  PROVE  DiskInv'
<1> DEFINE moved == [io[t] EXCEPT !.at = "done", !.value = media[drive.dev][drive.sector]]
<1>1. /\ io[t].at = "busy" /\ io[t].op = "read" /\ drive.state = "data_in"
      /\ io' = [io EXCEPT ![t] = moved] /\ drive' = [drive EXCEPT !.state = "idle"]
  BY DEF InputSector, IsAt, wait_while_busy, Io
<1>2. /\ chan_lock = t /\ Served(io[t]) /\ Confined(io[t]) /\ io[t] \in IoRequest
      /\ drive \in Drive /\ media \in Media
  BY <1>1, AtWork DEF DiskInv, DiskTypeOK
<1>3. /\ drive.dev = io[t].dev /\ drive.sector = io[t].sector
      /\ io[t].dev \in Devices /\ io[t].sector \in DiskSectors
  BY <1>1, <1>2, AtWork DEF Served
<1>4. PICK r \in IoRequest :
        /\ io' = [io EXCEPT ![t] = r] /\ r.at = "done" /\ Confined(r)
        /\ r.dev = io[t].dev /\ r.sector = io[t].sector /\ r.op = "read"
        /\ r.value = media[drive.dev][drive.sector]
  <2>1. media[drive.dev][drive.sector] \in Contents
    BY <1>2, <1>3 DEF Media
  <2>2. /\ moved \in IoRequest /\ moved.at = "done" /\ moved.part = io[t].part
        /\ moved.dev = io[t].dev /\ moved.sector = io[t].sector /\ moved.op = "read"
        /\ moved.value = media[drive.dev][drive.sector]
    BY <1>1, <1>2, <2>1 DEF IoRequest
  <2> HIDE DEF moved
  <2>3. Confined(moved)
    BY <1>2, <2>2 DEF Confined
  <2> QED
    BY <1>1, <2>2, <2>3
<1>5. /\ table' = table /\ scan' = scan /\ partitions' = partitions /\ irq' = irq
      /\ media' = media /\ written' = written /\ chan_lock' = chan_lock
      /\ completion' = completion /\ expecting_interrupt' = expecting_interrupt
  BY DEF InputSector, Rest
<1>6. /\ media' \in Media /\ written' \in Media /\ irq' \in BOOLEAN
      /\ expecting_interrupt' \in BOOLEAN /\ completion' \in Nat
  BY <1>5 DEF DiskInv, DiskTypeOK
<1>7. /\ drive' \in Drive /\ drive'.state = "idle"
      /\ drive'.dev = drive.dev /\ drive'.sector = drive.sector
  BY <1>1, <1>2, DriveGoes
<1>8. DiskAgrees'
  BY <1>1, <1>5, <1>7 DEF DiskInv, DiskAgrees
<1>9. Served(r)'
  <2>1. written[io[t].dev][io[t].sector] = media[io[t].dev][io[t].sector]
    BY <1>1, <1>3 DEF DiskInv, DiskAgrees
  <2> QED
    BY <1>3, <1>4, <1>5, <1>7, <2>1 DEF Served
<1> QED
  BY <1>2, <1>4, <1>5, <1>6, <1>7, <1>8, <1>9, HolderMoves DEF Away

LEMMA OutputSectorKeeps ==
  ASSUME DiskInv, NEW t \in DiskThreads, OutputSector(t)
  PROVE  DiskInv'
<1>1. /\ io[t].at = "busy" /\ io[t].op = "write" /\ drive.state = "data_out" /\ Step(t, "down")
      /\ drive' = [dev |-> drive.dev, sector |-> drive.sector, state |-> "writing",
                   data |-> io[t].value]
      /\ written' = [written EXCEPT ![io[t].dev][io[t].sector] = io[t].value]
  BY DEF OutputSector, IsAt, wait_while_busy
<1>2. PICK r \in IoRequest :
        /\ io' = [io EXCEPT ![t] = r] /\ r.at = "down" /\ Confined(r)
        /\ r.dev = io[t].dev /\ r.sector = io[t].sector /\ r.op = io[t].op
        /\ r.value = io[t].value
  BY <1>1, StepIs
<1>3. /\ chan_lock = t /\ Served(io[t]) /\ io[t].dev \in Devices /\ io[t].sector \in DiskSectors
      /\ io[t].value \in Contents
  BY <1>1, AtWork
<1>4. /\ table' = table /\ scan' = scan /\ partitions' = partitions /\ irq' = irq
      /\ media' = media /\ chan_lock' = chan_lock
      /\ completion' = completion /\ expecting_interrupt' = expecting_interrupt
  BY DEF OutputSector, Rest
<1>5. /\ media' \in Media /\ written \in Media /\ irq' \in BOOLEAN
      /\ expecting_interrupt' \in BOOLEAN /\ completion' \in Nat
  BY <1>4 DEF DiskInv, DiskTypeOK
<1>6. drive.dev = io[t].dev /\ drive.sector = io[t].sector /\ expecting_interrupt
  BY <1>1, <1>3 DEF Served
<1>7. drive' \in Drive /\ written' \in Media
  BY <1>1, <1>3, <1>5, <1>6 DEF Drive, Media
<1>8. DiskAgrees'
  BY <1>1, <1>3, <1>4, <1>5, <1>6 DEF DiskInv, DiskAgrees, Media
<1>9. Served(r)'
  <2>1. written'[r.dev][r.sector] = r.value
    BY <1>1, <1>2, <1>3, <1>5 DEF Media
  <2> QED
    BY <1>1, <1>2, <1>4, <1>6, <2>1 DEF Served
<1> QED
  BY <1>2, <1>3, <1>4, <1>5, <1>7, <1>8, <1>9, HolderMoves DEF Away

LEMMA IoDoneKeeps ==
  ASSUME DiskInv, NEW t \in DiskThreads, IoDone(t)
  PROVE  DiskInv'
<1>1. io[t].at = "done" /\ io' = [io EXCEPT ![t] = IoOut] /\ IoOut.at = "out"
  BY DEF IoDone, IsAt, Io, IoOut
<1>2. chan_lock = t /\ drive.state \in {"idle", "writing"}
  BY <1>1, AtWork, FreeForHolder
<1>3. /\ table' = table /\ scan' = scan /\ partitions' = partitions /\ irq' = irq
      /\ media' = media /\ written' = written /\ drive' = drive
      /\ completion' = completion /\ expecting_interrupt' = expecting_interrupt
  BY DEF IoDone, Rest
<1>4. /\ media' \in Media /\ written' \in Media /\ irq' \in BOOLEAN /\ drive' \in Drive
      /\ expecting_interrupt' \in BOOLEAN /\ completion' \in Nat
  BY <1>3 DEF DiskInv, DiskTypeOK
<1>5. DiskAgrees'
  BY <1>3 DEF DiskInv, DiskAgrees
<1>6. Served(IoOut)'
  BY <1>1 DEF Served
<1> QED
  BY <1>1, <1>2, <1>3, <1>4, <1>5, <1>6, HolderMoves DEF Away

LEMMA DiskStarts == DiskInit => DiskInv
<1> SUFFICES ASSUME DiskInit
             PROVE  DiskInv
  OBVIOUS
<1>1. (CHOOSE v \in Contents : TRUE) \in Contents
  BY DiskAssumption
<1>2. /\ media \in Media /\ written \in Media /\ written = media
      /\ drive = [dev |-> 0, sector |-> 0, state |-> "idle"]
      /\ io = [t \in DiskThreads |-> IoOut] /\ partitions = {}
  BY <1>1 DEF DiskInit, Media
<1>3. 0 \in DiskSectors /\ 0 \in Devices
  BY DiskAssumption DEF DiskSectors
<1>4. DiskTypeOK
  <2>1. table \in Seq(PartitionEntry)
    BY DiskAssumption DEF DiskInit
  <2>2. scan \in Seq(Frame)
    BY DEF DiskInit, Frame
  <2>3. drive \in Drive
    BY <1>2, <1>3 DEF Drive
  <2>4. completion \in Nat /\ irq \in BOOLEAN /\ expecting_interrupt \in BOOLEAN
    BY DEF DiskInit
  <2>5. io \in [DiskThreads -> IoRequest \cup {IoOut}]
    BY <1>2
  <2> QED
    BY <1>2, <2>1, <2>2, <2>3, <2>4, <2>5 DEF DiskTypeOK
<1>5. PartitionsFit /\ DiskAgrees
  BY <1>2 DEF PartitionsFit, DiskAgrees
<1>6. \A t \in DiskThreads : io[t].at = "out"
  BY <1>2 DEF IoOut
<1>7. HoldersOnly /\ AllServed /\ DriveFree
  BY <1>2, <1>6 DEF HoldersOnly, AllServed, DriveFree, Served, Away
<1> QED
  BY <1>4, <1>5, <1>7 DEF DiskInv

LEMMA DiskInvariant == DiskSpec => []DiskInv
<1>1. DiskInit => DiskInv
  BY DiskStarts
<1>2. DiskInv /\ [DiskNext]_diskVars => DiskInv'
  <2> SUFFICES ASSUME DiskInv, [DiskNext]_diskVars
               PROVE  DiskInv'
    OBVIOUS
  <2>1. CASE Scanning
    BY <2>1, ScanningKeeps
  <2>2. CASE DriveStep
    BY <2>2, DriveStepKeeps
  <2>3. CASE StrayInterrupt \/ InterruptHandler
    BY <2>3, InterruptsKeep
  <2>4. ASSUME NEW t \in DiskThreads, IoStep(t)
        PROVE  DiskInv'
    BY <2>4, RequestKeeps, ChannelLockKeeps, SelectSectorKeeps, IssueKeeps, CompletedKeeps,
       InputSectorKeeps, OutputSectorKeeps, IoDoneKeeps DEF IoStep
  <2>5. CASE UNCHANGED diskVars
    <3>1. /\ table' = table /\ scan' = scan /\ partitions' = partitions /\ irq' = irq
          /\ media' = media /\ written' = written /\ drive' = drive /\ io' = io
          /\ completion' = completion /\ expecting_interrupt' = expecting_interrupt
          /\ chan_lock' = chan_lock
      BY <2>5 DEF diskVars
    <3>2. DiskTypeOK' /\ PartitionsFit' /\ DiskAgrees' /\ HoldersOnly' /\ DriveFree'
      BY <3>1 DEF DiskInv, DiskTypeOK, PartitionsFit, DiskAgrees, HoldersOnly, DriveFree
    <3>3. AllServed'
      BY <3>1 DEF DiskInv, AllServed, Served
    <3> QED
      BY <3>2, <3>3 DEF DiskInv
  <2> QED
    BY <2>1, <2>2, <2>3, <2>4, <2>5 DEF DiskNext
<1> QED
  BY <1>1, <1>2, PTL DEF DiskSpec

\* Although an interrupt nobody expected leaves the semaphore one ahead, a request
\* that is done has its data, and one that waits will be woken (ide_read, ide_write,
\* interrupt_handler).
THEOREM RequestsExact == DiskSpec => []IoExact
<1>1. DiskInv => IoExact
  <2> SUFFICES ASSUME DiskInv, NEW t \in DiskThreads
               PROVE
    /\ io[t].at = "done" =>
         IF io[t].op = "read" THEN io[t].value = written[io[t].dev][io[t].sector]
         ELSE media[io[t].dev][io[t].sector] = io[t].value \/ drive.state = "writing"
    /\ io[t].at = "down" => completion > 0 \/ irq \/ drive.state \in {"reading", "writing"}
    BY DEF IoExact
  <2>1. Served(io[t])
    BY DEF DiskInv, AllServed
  <2>2. CASE io[t].at = "done"
    <3>1. io[t].dev \in Devices /\ io[t].sector \in DiskSectors
      BY <2>2, AtWork
    <3>2. drive.state = "writing" \/
          written[io[t].dev][io[t].sector] = media[io[t].dev][io[t].sector]
      BY <3>1 DEF DiskInv, DiskAgrees
    <3> QED
      BY <2>1, <2>2, <3>2 DEF Served
  <2> QED
    BY <2>1, <2>2 DEF Served
<1> QED
  BY <1>1, DiskInvariant, PTL

\* Every partition registered lies in its disk, however the table's sums wrap, and
\* no request reaches a sector outside the partition it was made for
\* (found_partition, block_read, block_write).
THEOREM RequestsConfined == DiskSpec => []IoConfined
<1>1. DiskInv => IoConfined
  BY DEF DiskInv, PartitionsFit, AllServed, Confined, IoConfined
<1> QED
  BY <1>1, DiskInvariant, PTL
=============================================================================
