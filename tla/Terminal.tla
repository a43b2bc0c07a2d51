------------------------------ MODULE Terminal ------------------------------
(***************************************************************************)
(* The character devices: the serial port (devices/serial.c) with its      *)
(* transmit queue, the keyboard (devices/kbd.c), the input buffer both     *)
(* fill (devices/input.c), the interrupt queues (devices/intq.c) and the   *)
(* console (lib/kernel/console.c).  Threads run these calls with           *)
(* interrupts off, so a call is one step up to where it blocks.  Bytes     *)
(* are numbered in the order in which they are put into their queue.       *)
(***************************************************************************)
EXTENDS Integers, Sequences, FiniteSets

CONSTANTS
  Readers,        \* threads that read the standard input
  Writers,        \* threads that print, some bytes per call of putbuf
  INTQ_BUFSIZE,   \* 64 in the code
  ShiftKeys,      \* Ctrl and Alt keys of the keyboard
  MaxIn, MaxOut,  \* bytes that come in, bytes that are printed
  NoThread

ASSUME TerminalAssumption ==
  /\ INTQ_BUFSIZE \in Nat \ {0, 1} /\ Readers \cap Writers = {}
  /\ ShiftKeys \subseteq {"left_ctrl", "right_ctrl", "left_alt", "right_alt"}
  /\ NoThread \notin Readers \cup Writers

VARIABLES
  input,         \* input.c's buffer
  txq,           \* serial.c's queue of bytes to transmit
  mode,          \* of the serial port
  ier,           \* its interrupt enable register
  rbr, thr,      \* a byte is in the receiver buffer; the transmitter is empty
  pressed,       \* the shift keys the driver believes pressed
  console_lock,
  at, left,      \* where each thread is; bytes it has left to print
  came, got,     \* bytes put into the input buffer, and read from it
  put, sent,     \* bytes given to serial_putc, and sent
  halted         \* "no", or why the kernel has stopped

terminalVars == <<input, txq, mode, ier, rbr, thr, pressed, console_lock, at, left,
                  came, got, put, sent, halted>>

----------------------------------------------------------------------------
\* intq.c.  Only readers ever wait on the input buffer, for it to be not empty,
\* and only printing threads on txq, for it to be not full: one waiter each, and none
\* on the input buffer when a byte leaves it.

EmptyIntq == [buf |-> [i \in 0..(INTQ_BUFSIZE - 1) |-> 0], head |-> 0, tail |-> 0,
              lock |-> 1, lockers |-> <<>>, waiter |-> NoThread]
NextPos(pos) == (pos + 1) % INTQ_BUFSIZE
intq_empty(q) == q.head = q.tail
intq_full(q) == NextPos(q.head) = q.tail
Getc(q) == [q EXCEPT !.tail = NextPos(@), !.waiter = NoThread]
Putc(q, byte) == [q EXCEPT !.buf[q.head] = byte, !.head = NextPos(@), !.waiter = NoThread]
\* signal: the waiter can run again.
Signal(q, where) ==
  IF q.waiter = NoThread THEN where ELSE [where EXCEPT ![q.waiter] = "woken"]
\* lock_acquire and wait in the loop of intq_getc or intq_putc.
Sleeping(q, t) == IF q.lock = 1 THEN [q EXCEPT !.lock = 0, !.waiter = t]
                                ELSE [q EXCEPT !.lockers = Append(@, t)]
SleepsAt(q) == IF q.lock = 1 THEN "waiting" ELSE "locking"
\* lock_release after wait.
Unlocked(q) == [q EXCEPT !.lock = 1,
                         !.lockers = IF @ = <<>> THEN @ ELSE Tail(@)]
UnlockedAt(q, where) ==
  IF q.lockers = <<>> THEN where ELSE [where EXCEPT ![Head(q.lockers)] = "locked"]

\* The bytes of a queue, the oldest first.
Bytes(q) == [i \in 1..((q.head - q.tail + INTQ_BUFSIZE) % INTQ_BUFSIZE) |->
               q.buf[(q.tail + i - 1) % INTQ_BUFSIZE]]

----------------------------------------------------------------------------
\* serial.c and input.c

write_ier(in, out) == (IF intq_empty(out) THEN {} ELSE {"xmit"})
                      \cup (IF intq_full(in) THEN {} ELSE {"recv"})
serial_notify(in) == IF mode = "QUEUE" THEN write_ier(in, txq) ELSE ier

TerminalInit ==
  /\ input = EmptyIntq /\ txq = EmptyIntq
  /\ mode = "UNINIT" /\ ier = {} /\ rbr = FALSE /\ thr = TRUE
  /\ pressed = {} /\ console_lock = NoThread
  /\ at = [t \in Readers \cup Writers |-> "user"]
  /\ left = [w \in Writers |-> 0]
  /\ came = 0 /\ got = 0 /\ put = 0 /\ sent = 0
  /\ halted = "no"

serial_init_queue ==
  /\ mode # "QUEUE"
  /\ mode' = "QUEUE" /\ ier' = write_ier(input, txq)
  /\ UNCHANGED <<input, txq, rbr, thr, pressed, console_lock, at, left, came, got,
                 put, sent, halted>>

\* debug_panic: the queued output and the message go out by polling.
Panic ==
  /\ halted' = "panic"
  /\ txq' = [txq EXCEPT !.tail = txq.head] /\ sent' = put /\ thr' = FALSE

\* input_getc, from the test of intq_getc's loop on: the queue is q, and the
\* threads are at where.
GetLoop(t, q, where) ==
  IF intq_empty(q)
  THEN /\ input' = Sleeping(q, t)
       /\ at' = [where EXCEPT ![t] = SleepsAt(q)]
       /\ UNCHANGED <<ier, got>>
  ELSE /\ input' = Getc(q)
       /\ got' = got + 1
       /\ ier' = serial_notify(Getc(q))
       /\ at' = [where EXCEPT ![t] = "user"]

\* Mutant of input_getc: the serial port is not told of the room.
input_getc_silent(t) ==
  /\ at[t] = "user"
  /\ IF intq_empty(input) THEN GetLoop(t, input, at)
     ELSE /\ input' = Getc(input) /\ got' = got + 1
          /\ UNCHANGED <<ier, at>>
  /\ UNCHANGED <<txq, mode, rbr, thr, pressed, console_lock, left, came, put, sent, halted>>

input_getc(t) ==
  /\ at[t] = "user"
  /\ GetLoop(t, input, at)
  /\ UNCHANGED <<txq, mode, rbr, thr, pressed, console_lock, left, came, put, sent, halted>>

ReaderWoken(t) ==
  /\ at[t] = "woken"
  /\ GetLoop(t, Unlocked(input), UnlockedAt(input, at))
  /\ UNCHANGED <<txq, mode, rbr, thr, pressed, console_lock, left, came, put, sent, halted>>

\* lock_acquire goes on: another thread may have taken the lock meanwhile.  With
\* the lock, wait asserts that the queue is empty, which it need not be any more.
ReaderLocks(t) ==
  /\ at[t] = "locked"
  /\ IF input.lock = 1 /\ ~intq_empty(input)
     THEN Panic /\ UNCHANGED <<input, at>>
     ELSE /\ input' = Sleeping(input, t)
          /\ at' = [at EXCEPT ![t] = SleepsAt(input)]
          /\ UNCHANGED <<txq, sent, thr, halted>>
  /\ UNCHANGED <<mode, ier, rbr, pressed, console_lock, left, came, got, put>>

\* putbuf of some bytes, with the console lock from the first to the last.
putbuf(t) ==
  /\ at[t] = "user" /\ console_lock = NoThread
  /\ console_lock' = t
  /\ at' = [at EXCEPT ![t] = "printing"]
  /\ \E n \in 1..(MaxOut - put) : left' = [left EXCEPT ![t] = n]
  /\ UNCHANGED <<input, txq, mode, ier, rbr, thr, pressed, came, got, put, sent, halted>>

release_console(t) ==
  /\ at[t] = "printing" /\ left[t] = 0
  /\ console_lock' = NoThread
  /\ at' = [at EXCEPT ![t] = "user"]
  /\ UNCHANGED <<input, txq, mode, ier, rbr, thr, pressed, left, came, got, put, sent, halted>>

\* serial_putc before interrupts are used: busy waiting for the transmitter.
PutcPoll(t) ==
  /\ mode # "QUEUE" /\ at[t] = "printing" /\ left[t] > 0 /\ thr /\ put < MaxOut
  /\ mode' = "POLL"
  /\ put' = put + 1 /\ sent' = sent + 1 /\ thr' = FALSE
  /\ left' = [left EXCEPT ![t] = @ - 1]
  /\ UNCHANGED <<input, txq, ier, rbr, pressed, console_lock, at, came, got, halted>>

\* serial_putc from the loop of intq_putc on; holding the console's lock, the
\* thread finds the queue's own lock free.
PutLoop(t, q) ==
  IF intq_full(q)
  THEN /\ txq' = Sleeping(q, t)
       /\ at' = [at EXCEPT ![t] = SleepsAt(q)]
       /\ UNCHANGED <<ier, put, left>>
  ELSE /\ txq' = Putc(q, put + 1)
       /\ put' = put + 1
       /\ left' = [left EXCEPT ![t] = @ - 1]
       /\ ier' = write_ier(input, Putc(q, put + 1))
       /\ at' = [at EXCEPT ![t] = "printing"]

serial_putc(t) ==
  /\ mode = "QUEUE" /\ put < MaxOut
  /\ \/ at[t] = "printing" /\ left[t] > 0 /\ PutLoop(t, txq)
     \/ at[t] = "woken" /\ PutLoop(t, Unlocked(txq))
  /\ UNCHANGED <<input, mode, rbr, thr, pressed, console_lock, came, got, sent, halted>>

\* Mutant of HandlerPrints: the new byte is polled out, not the oldest one.
HandlerPrints_newest ==
  /\ mode = "QUEUE" /\ put < MaxOut
  /\ IF intq_full(txq)
     THEN thr /\ thr' = FALSE /\ sent' = sent + 1 /\ UNCHANGED <<txq, at>>
     ELSE txq' = Putc(txq, put + 1) /\ UNCHANGED <<thr, sent, at>>
  /\ put' = put + 1
  /\ ier' = write_ier(input, txq')
  /\ UNCHANGED <<input, mode, rbr, pressed, console_lock, left, came, got, halted>>

\* A line printed by an interrupt handler, without the console's lock: when the
\* queue is full the oldest byte is polled out.
HandlerPrints ==
  /\ mode = "QUEUE" /\ put < MaxOut
  /\ IF intq_full(txq)
     THEN /\ thr /\ thr' = FALSE /\ sent' = sent + 1
          /\ at' = Signal(txq, at)
          /\ txq' = Putc(Getc(txq), put + 1)
     ELSE txq' = Putc(txq, put + 1) /\ UNCHANGED <<thr, sent, at>>
  /\ put' = put + 1
  /\ ier' = write_ier(input, txq')
  /\ UNCHANGED <<input, mode, rbr, pressed, console_lock, left, came, got, halted>>

\* The port itself: a byte arrives, a byte has been sent.
Arrives ==
  /\ ~rbr /\ came < MaxIn
  /\ rbr' = TRUE
  /\ UNCHANGED <<input, txq, mode, ier, thr, pressed, console_lock, at, left, came, got,
                 put, sent, halted>>
Sent ==
  /\ ~thr
  /\ thr' = TRUE
  /\ UNCHANGED <<input, txq, mode, ier, rbr, pressed, console_lock, at, left, came, got,
                 put, sent, halted>>

serial_interrupt ==
  /\ ("recv" \in ier /\ rbr) \/ ("xmit" \in ier /\ thr)
  /\ LET receive == ~intq_full(input) /\ rbr
         transmit == ~intq_empty(txq) /\ thr
         where == IF receive THEN Signal(input, at) ELSE at
     IN /\ input' = IF receive THEN Putc(input, came + 1) ELSE input
        /\ txq' = IF transmit THEN Getc(txq) ELSE txq
        /\ at' = IF transmit THEN Signal(txq, where) ELSE where
        /\ rbr' = (rbr /\ ~receive) /\ thr' = (thr /\ ~transmit)
        /\ came' = IF receive THEN came + 1 ELSE came
        /\ sent' = IF transmit THEN sent + 1 ELSE sent
  /\ ier' = write_ier(input', txq')
  /\ UNCHANGED <<mode, pressed, console_lock, left, got, put, halted>>

----------------------------------------------------------------------------
\* kbd.c

KeyStays == UNCHANGED <<txq, mode, rbr, thr, console_lock, left, got, put, sent>>

\* A shift key goes down or up.
ShiftKey ==
  /\ \E k \in ShiftKeys : pressed' = IF k \in pressed THEN pressed \ {k} ELSE pressed \cup {k}
  /\ KeyStays /\ UNCHANGED <<input, ier, at, came, halted>>

Ctrl == {"left_ctrl", "right_ctrl"} \cap pressed # {}
Alt == {"left_alt", "right_alt"} \cap pressed # {}

\* An ordinary key: dropped when there is no room.
Key ==
  /\ came < MaxIn /\ ~intq_full(input)
  /\ at' = Signal(input, at)
  /\ input' = Putc(input, came + 1)
  /\ came' = came + 1
  /\ ier' = serial_notify(input')
  /\ KeyStays /\ UNCHANGED <<pressed, halted>>

CtrlAltDel ==
  /\ Ctrl /\ Alt
  /\ halted' = "reboot"
  /\ KeyStays /\ UNCHANGED <<input, ier, at, came, pressed>>

ReaderStep(t) == input_getc(t) \/ ReaderWoken(t) \/ ReaderLocks(t)
WriterStep(t) == putbuf(t) \/ release_console(t) \/ PutcPoll(t) \/ serial_putc(t)
Interrupts == serial_interrupt \/ ShiftKey \/ Key \/ CtrlAltDel \/ HandlerPrints

TerminalNext ==
  /\ halted = "no"
  /\ \/ serial_init_queue \/ Arrives \/ Sent \/ Interrupts
     \/ \E t \in Readers : ReaderStep(t)
     \/ \E t \in Writers : WriterStep(t)
TerminalSpec == TerminalInit /\ [][TerminalNext]_terminalVars

----------------------------------------------------------------------------
\* Properties

\* Nothing gets stuck: the port interrupts when there is a byte to send and when
\* there is room for one that arrives, whoever changed the queues (serial.c:143,
\* 183 and 188), a thread that sleeps in wait is the one its queue will wake, on a
\* condition that still holds, and one that sleeps for a queue's lock will get it
\* (intq.c:91 and 106).
NothingStuck == halted = "no" =>
  /\ mode = "QUEUE" => ier = write_ier(input, txq)
  /\ \A t \in Readers : at[t] = "waiting" => input.waiter = t /\ intq_empty(input)
  /\ \A t \in Writers : at[t] = "waiting" => txq.waiter = t /\ intq_full(txq)
  /\ input.lockers # <<>> /\ input.lock = 1 => \E t \in Readers : at[t] = "locked"

\* The bytes in a queue are exactly those put and not yet taken, in order: none is
\* lost, doubled or overtaken, whatever threads, handlers and polling do to the
\* ring (intq.c:31, serial.c:115).
BytesInOrder ==
  /\ Bytes(input) = [i \in 1..(came - got) |-> got + i]
  /\ Bytes(txq) = [i \in 1..(put - sent) |-> sent + i]

\* The assertion of intq.c:91: a thread that starts to wait finds its condition
\* true.
WaitAsserted == halted # "panic"
=============================================================================
