# TLA+ models of the programs in sogang-cse-projects

This directory holds TLA+ modules that model the programs of the repository, the
TLC configurations that check them on small instances, and proofs, checked by
TLAPS, that the safety properties of the kernel, of the board application and of
the exchange hold for every value of the constants: any number of threads,
processes, sectors, pages or bytes.

The repository collects six unrelated course projects. The largest, and the only
one with real concurrency everywhere, is the Pintos kernel in `CSE4070/src`; it
has most of the modules and of the theorems. The others have modules of their
own. A scanner specification and the test programs are not modelled.

## 1. The system

### 1.1 The Pintos kernel (CSE4070/src)

One CPU. A thread runs with interrupts on, except in short sections that disable
them; the timer interrupt may come between any two instructions outside those
sections, and may switch to another thread on its way out. The kernel is built
with or without `USERPROG`; the build with it runs user processes, one kernel
thread each.

| Component | State | Operations | Interacts with |
|---|---|---|---|
| Scheduler (`threads/thread.c`) | `ready_list`, `sleep_list`, `wakeup_tick`, `all_list`, each thread's `status`, `priority`, `tick` and its one `elem` | `thread_yield`, `thread_block`, `thread_unblock`, `thread_set_priority`, `thread_sleep`, `thread_tick`, `thread_aging`, `idle`, `schedule`, `thread_create`, `thread_exit` | timer interrupt, semaphores |
| Alarm clock (`devices/timer.c`) | `ticks` | `timer_sleep`, `timer_interrupt` | scheduler |
| Semaphores, locks, conditions (`threads/synch.c`) | `value`, `waiters`, `holder`, the condition's `waiters` | `sema_down`, `sema_try_down`, `sema_up`, `lock_acquire`, `lock_try_acquire`, `lock_release`, `cond_wait`, `cond_signal`, `cond_broadcast` | scheduler (block, unblock, yield) |
| Processes (`userprog/process.c`, `syscall.c`, `exception.c`) | `parent`, `childList`, `exit_status`, the semaphores `load`, `exec` and `wait` of each thread | `process_execute`, `start_process`, `process_wait`, `syscall_exit`, `kill`, `thread_create`, `thread_exit` | semaphores, file system, allocators |
| Descriptors (`userprog/syscall.c`, `filesys/file.c`) | `fdTable`, `fd`, the global `fLock` | open, close, read, write, seek, tell, filesize | file system, page faults |
| File system (`filesys/`) | open inodes with `open_cnt`, `deny_write_cnt`, `removed`; root directory; free map | create, open, remove, close, read, write | block device, `malloc` |
| Allocators (`threads/palloc.c`, `malloc.c`) | used maps of two pools; arenas and free lists | get and free pages, `malloc`, `free` | locks |
| Address spaces (`userprog/process.c`, `pagedir.c`, `exception.c`) | page directories and tables, the active one, frames | `load`, `process_activate`, stack growth, `process_exit` | page allocator, context switch |
| Character devices (`devices/intq.c`, `input.c`, `serial.c`, `kbd.c`, `lib/kernel/console.c`) | the rings with one waiter of each kind, the port's enabled interrupts, the shift keys | `input_getc`, `serial_putc`, `putbuf`, the two interrupt handlers | scheduler (block, unblock) |
| Disk (`devices/ide.c`, `block.c`, `partition.c`) | partitions, the channel's lock, `expecting_interrupt`, `completion_wait` | reading and writing a sector, the partition scan, the interrupt handler | semaphores |
| Kernel data structures (`lib/kernel/`) | lists, hash tables, bitmaps | | all of the above |

What is hard here: preemption between any two steps; one list element per thread
for three kinds of list; priorities that change under sorted lists; a wake-up
that another thread can overtake; parents and children that refer to each
other's `struct thread`, which is freed on exit; failures (no memory, a failed
load, an exception) in the middle of a conversation of two threads.

What makes it correct: list elements in exactly one list and sorted; no sleeper
early and none forgotten; the highest priority runs, and with aging everything
runs; mutual exclusion; no lost wake-up or signal; one status per child,
delivered to its parent, once; no use of a freed thread; at most one thread in
the file system, which has no locks of its own.

### 1.2 The other projects

* `CSE4116/1`, a board application: `main`, `input` and `output` processes share
  one System V message queue, and a SIGALRM handler sends messages in the middle
  of `main`. State: the queue, the mode and its variables in `main`, what the
  devices show. Hard: a queue full of input blocks `main`; termination removes the
  queue while `output` may still need it; the handler changes what `main` is
  changing. Correct: the board ends clear, no change of a number is lost, `main`
  comes back for the next key.
* `CSE4177`, PixcelCoin, a Django coin exchange: each request reads a wallet,
  changes it and saves it. State: accounts, wallets, pixels, sessions. Hard:
  concurrent requests lose updates; an account is created in two requests; a
  request may fail between two saves; costs are truncated, and nothing refuses a
  negative number. Correct: no trade makes money but what rounding and negative
  numbers give.
* `CSE4100`, a SIC/XE shell with an assembler, a linking loader and a simulator:
  one process, but four programs that meet in object files and in memory. Hard:
  whether an address computed by the first is still right for the last. Correct:
  an instruction finds its operand, linking adds each address once.
* `CSE3081`, sorting, maximum sums, subset sums, shortest paths, triangulations:
  pure algorithms, to be compared with what they should compute.
* `CSE4120`, scanner rules for flex: the scanner is generated; not modelled.

## 2. The modules

    KernelLists            sequences as struct list: list_insert_ordered
      Scheduler            thread.c, timer.c, interrupt return
        Synch              synch.c, on top of Scheduler
          (implements)     SemaphoreSpec, what a semaphore promises
    Process                exec, wait, exit; semaphores as counters
      (implements)         ProgramCalls, programs nested like procedure calls
    FileSystem             syscall.c, file.c, inode.c, directory.c, free-map.c
      (implements)         FileStore, what the file system promises
    Memory                 palloc.c, malloc.c
    Terminal               intq.c, input.c, serial.c, kbd.c, console.c
    Disk                   ide.c, block.c, partition.c
    AddressSpace           load, pagedir.c, stack growth, process_exit
    SchedulerProofs        lemmas about KernelLists, theorems about Scheduler
      SynchProofs          theorems about Synch
    ProcessProofs          theorems about Process
    FileSystemProofs       theorems about FileSystem
    MemoryProofs           theorems about Memory and AddressSpace
    DeviceProofs           theorems about Terminal and Disk

    Board                  CSE4116/1
    Exchange               CSE4177
    Assembler              CSE4100/sp20151623_proj3/assemble.c
      LinkingLoader        linkingloader.c
        Simulator          run.c
          SicShell         20151623.c, commands.c: the commands over all of them
    ApplicationProofs      theorems about Exchange, Board and DagPath
    Sorting, MaxSum, SubsetSum, DagPath, Polygon        CSE3081/HW1 to HW4
      AssignmentProofs     theorems about Sorting, MaxSum, SubsetSum, Polygon

    MCScheduler, MCSynch, MCProcess, MCTerminal, MCBoard, MCSicShell,
    MCAssignments          values of the constants for TLC
    MCKernel               FileSystem, Memory, MCTerminal, Disk, AddressSpace
    MCApplications         MCBoard, Exchange, MCSicShell, MCAssignments

The parts of `MCKernel` and of `MCApplications` share no state: a behaviour of
them is one of one part, which `part` or `program` names, and the others stay as
they were. Where the kernel's parts do interact, each models what it needs of the
other: Process shows that one program at a time is in the file system, and
FileSystem relies on it; Synch shows locks and semaphores to be what the others
use them as.

### 2.1 Scheduler

The variables are the code's: `ready_list`, `sleep_list`, `wakeup_tick`, `ticks`,
`thread_ticks`, and per thread `status`, `priority`, `tick`. `pc` says where a
thread is between two steps: `preempt` is inside `thread_set_priority` after the
assignment, `sleep` inside `timer_sleep` after the clock was read; both are
places where the code has interrupts on. `isr` says where the interrupt handler
is; it runs with interrupts off, so nothing else is enabled while it does, and
its steps follow the wake-up loop of `thread_tick`.

`Schedule` is `schedule()` with `thread_schedule_tail()`; `YieldCPU` and
`BlockCPU` are `thread_yield()` and `thread_block()`; `Enqueue` is the
`list_insert_ordered` that `thread_yield` and `thread_unblock` do. The idle
thread is never on the ready list, as in the code. The comparison of
`thread_set_priority` with the front of an empty ready list reads memory before
the list head; its outcome is arbitrary in `OutrankedByFront`.

Threads do not exit, and none is created after the start: `Process` has that
part for user processes. `thread_mlfqs` is off.

### 2.2 Synch and SemaphoreSpec

Synch extends Scheduler: a semaphore operation runs with interrupts off and is
one step up to `thread_block`; a thread that is switched to again inside
`sema_down` tests the value before any interrupt (`DownAgain`, and the guard of
`SynchTick`). Each lock has a semaphore of its own, and each thread the one
`cond_wait` keeps on its stack. The places of `pc` are those where a preemption
can come between two assignments: `hold` (the semaphore is down and the holder
not set), `release` (the reverse), `cond_sleep`, `cond_lock` and `broadcast`.

`UserProg` says which build it is: only the kernel without user programs yields
at the end of `sema_up`, and only that one has `thread_aging`. In the lists a
waiter's position is decided when it joins, by `list_insert_ordered`.

The guards of `Acquire`, `Release`, `CondWait`, `Signal` and `Broadcast` are the
code's assertions about the holder. `MaxValue` bounds how often a semaphore is
upped. Joining the condition's waiters and clearing the holder is one step of
`CondWait`: in between the list is only read by the holder of the lock, which is
this thread.

`SemaphoreSpec` has values and pending downs, without threads' states or lists.
`ImplementsSemaphores` maps `pending` to the threads in `sema_down`'s loop.

### 2.3 Process and ProgramCalls

Each `struct thread` has three semaphores: a parent waits on `load` until its
child has loaded, a child on `exec` until its parent calls `process_wait`, a
parent on `wait` until its child has exited. They are counters here, with the
atomic operations that Synch shows semaphores to have. Every thread step between
two semaphore operations, or between two accesses to another thread's data, is a
step of its own, and threads interleave freely.

Failures are part of the model and switched by constants: `ThreadsFail` (no page
for the command line, no page for the thread, no descriptor table),
`LoadsFail` (`load` returns false) and `Killed` (an exception other than a page
fault; page faults end in `syscall_exit(-1)`, which is `Exit` with status -1).

The initial thread runs tasks: `process_wait (process_execute (task))`. It
always has the idle thread as a child, so its `childList` is never empty in the
code; that is the meaning of `p # Main` in `IsLastChild`. For any other thread
with no children, `process_execute` reads a tid before its `struct thread`, and
the model leaves the outcome of the comparison open. Threads are their tids, and a
new one has the least that is unused (`NextTid`), as in `allocate_tid`.

With everything that can fail switched on, two kinds of call never return, and the
properties name them. `process_execute` that created no child waits for `load` all
the same (`process.c:56`). `process_wait` waits for ever for a child that never gets
to `syscall_exit`: a program that goes on for ever, one that was killed, one that
was never started, or one whose load failed and that was still listed when its
parent looked (`process.c:95`; the parent ups its `exec`, but the child has unlinked
itself and left). `ParentsGoOn` says that there is no other: exec returns when it
has a child, and whoever is in `process_wait` for good waits for a `NeverExits`
child. In the same way `NoUseAfterFree` excepts the two uses of a freed thread that
follow a failed load, and both happen in the run: the child that leaves the list of
a parent that is gone, and the parent that ups a child that is gone. The walk of
`process_wait` along `childList` is one step here, where the code can be preempted
at each element.

`ProgramCalls` says what this amounts to: a loaded program waits to be called,
`process_wait` calls it, its exit returns. `ImplementsCalls` maps the programs
that are ready or active to it, and holds with failed allocations, failed loads and
kills (run `Process`).

### 2.4 FileSystem and FileStore

What is on the disk (`diskMap`, `diskInode`, `diskDir`, `diskData`) is kept apart
from what is in memory (`free_map`, `open_inodes`, each process's `fdTable` and
executable, `fLock`). `op` is the call under way, one at a time, because
`OneInFilesys` of Process is proved. Each step ends at a block write, and
`Restart`, a power failure or a kernel panic followed by a boot, may come between
any two: it keeps the disk and loses the memory. So a creation is
`CreateAllocData`, the writes of the inode and the zeros, the entry, and on
failure the release, each with the failures that can end it (no sector, no room).
An empty file has no data sectors to ask for (`CreateNoData`). Removal keeps the sectors until the last `inode_close`.

`Fault` is a bad pointer inside `read` or `write`: it ends the process with
`fLock` held, as in the code. A process that is killed or whose load fails is
`gone` with its files still open, as nobody closes them. An operation that the
code asserts about (seek, tell and filesize of a closed descriptor) is a
panic, hence `Restart`. `fsutil.c`'s extraction, listing and removal are
`FsutilActions`. `InodeDisk`, `DirEntry`, `Inode` and `OpenFile` are the structs
of the same names; the constant `Null`, a pointer to nothing, is none of them.

Sizes count sectors. A block write is atomic, so is the free map, which fits in
one sector, and so is a directory entry, which lies in one. A directory read cut
short for lack of a bounce buffer is not modelled, and no descriptor beyond
`MaxFd` is handed out, where the code would write past its table after 126.

FileStore has names, bodies and who holds a file open. `ImplementsFileStore`
says that no call changes the body of a file other than its own, that a removed
file lives as long as it is held, and that a restart keeps the named ones.
`InodesCounted` and `ProgramsKept` relate the counts in an inode to the
descriptors in all tables, and writes to the executables that run.

### 2.5 Memory

`used_map` and `arenas` are the pool and the headers in its pages; `free_list` is
the descriptor's; `run` is where a thread is between two lock operations or two
bits. `palloc_get_multiple` scans and flips under `pool_lock`, while
`palloc_free_multiple` clears bit after bit without it: that is why a step is a
bit. `malloc` and `free` hold `desc_lock`, and take the pool's inside it. A
`free` that makes an arena whole takes its blocks off the free list one after the
other (`FreeLocked`, `ListRemove`) before it returns the page (`FreeArena`). Large
requests are page groups with an arena header.

### 2.6 Terminal

A byte is its place in the order in which bytes entered their queue. `input` and
`txq` are two instances of `intq`: a ring, a lock with its queue, and the one
waiter. A call is a step up to where it blocks, for interrupts are off; the
reader's places `waiting`, `woken`, `locking` and `locked` are those where
`intq_getc` sleeps or goes on. `Interrupts` are the serial interrupt, the keys
(shift keys kept in `pressed`, Ctrl-Alt-Del) and a handler that prints. The codes
of keys and the caps lock are abstracted. A byte that arrives while the receiver
is full is lost by the hardware and is not in the model.

### 2.7 Disk

`scan` is the recursion of `read_partition_table`, which reads sector 0 whatever
sector it is called for, as the code does; `MaxDepth` ends a chain that the code
follows for ever. A request goes through the partition's and the disk's bounds
check, with sector numbers that wrap at `SectorNos`, then through the channel.
`drive` is the external device; a channel has two of them at most, as the code's
`devices[2]`, and there is always the first. `expecting_interrupt` is set by the first command
and never reset, so an interrupt without reason leaves `completion_wait` one
ahead; `IoExact` says that this does no harm. `Spurious` bounds such interrupts.
Identification, reset and time-outs are not modelled: a drive that is busy for longer
than the 10 ms that `wait_until_idle` looks at it (`ide.c:445`) is waited for, where the
code goes on.

### 2.8 AddressSpace

`tables` and `ptes` are the page directories and tables, `cr3` the active one.
`SwitchTo` is a context switch, which activates the thread's directory, between
any two accesses. `load` creates a directory, activates it, maps the segments page
by page and sets up the stack, and may fail at every allocation; `process_exit`
clears `pagedir` before it switches to the initial directory and destroys the old
one, in the order that its comment asks for. The checks of the ELF file are a
choice between success and failure. Where `load` fails before `fn_copy` is set the code frees
an uninitialised pointer, and `pd_panic` is one of the outcomes. `lost` are the
pages that nobody refers to any more: stack growth forgets a page when mapping it
fails. `Roles` are the places that can refer to a page (a directory, the one a
process is destroying, a local variable, the copy of the command line, a table's
slot, a frame's), and `SpacesDisjoint` counts the roles that hold each page.

### 2.9 Board

`mem` is what `main` and its handler share. A key or a press becomes the list
`todo` of statements (assignments, `control_*` calls, sends); the handler may come
between any two, and between the update of an array, its copy into a message and
the sending (`stage`, `copy`). `msgq` holds messages of both types up to `QueueLen`,
then `msgsnd` waits; the handler interrupts that wait and the message is lost, as
EINTR is not looked at. `Removed` is the queue after `msgctl`; `spin` and `lost`
are what becomes of an output process that receives from it or creates a queue
anew. Devices show something or nothing. Failing forks are not modelled.

### 2.10 Exchange

A request is a few steps: it reads rows, decides, and saves whole rows one after
the other, and other requests of the same owner come in between, or it fails.
`JoinUser` and `JoinPixel` are the two steps of joining; the anonymous user
has a wallet too. There is one price for all coins and all times, an integer as in
the code.

Amounts are counted in parts of a coin, `PerCoin` of them (10^8 for the eight decimals
of the forms), and are of either sign, as no form refuses a negative number. `Costs`
are the whole KRW that `int(float(price) * float(amount))` gives: the fraction is
dropped, and a product that is whole may come out one less when its factor has no
exact double. So a small purchase is free and its coins can be sold; a negative
purchase gives money for coins that the owner need not have; and pixels of negative
area are paid to the buyer.

Lost updates happen in the model too. `NothingGained` says what is left:
a wallet is worth (`Worth`: its KRW and its coins, whose `Units` are the sum over the
kinds) no more than a new one, one KRW for each trade its owner has asked for, and the
price of the negative areas (`allowance`); and it is not overdrawn, in KRW or any
coin, unless its owner has asked for a negative amount (`negative`). `allowance` and
`negative` are history variables: no action reads them. Pixels are not counted, since
a request that fails after its first save has them without paying (`views.py:635`).
Amounts so large that a double is off by more than a part (products from 4 * 10^7 KRW
on) are outside the model.

### 2.11 Assembler, LinkingLoader, Simulator, SicShell

Each extends the one before. A source line, an object record and an instruction
are one step each; a line's text is a record of label, operation and operand.
Memory is a function from addresses to bytes, and instructions are encoded into
and decoded from bytes with their widths, because that is what the properties are
about. `TargetsReached` says that the address the simulator computes for an operand is
where the assembler put the operand's symbol, moved by where the loader put the
program: for operands relative to the program counter always, for those relative to a
base less than 2048 below them where B holds what an LDB of that base has loaded
(`Bases`; an LDB in format 4 loads an address that is not moved), for those of format 4
in a program loaded at 0, and for none after a blank line. The run's sources have all
of these cases and the excepted ones. Without the last exception it is false
(`EveryTargetReached`, run `BlankLine`). `LinkedSum` says the same of the words that M
records change, in object files that refer to each other's symbols. The
commands of the shell run between them, and edit, fill and copy files and memory.
`proj1` and `proj2` are earlier versions of the same files and have no modules.

Deviations that the model shares with the code: a blank source line ends no line of the
intermediate file, so the next statement yields no object code and those after it are
assembled for other locations (`assemble.c:123`, source `Blank` of MCSicShell);
a relocation record carries neither sign nor symbol, so the loader subtracts the
program's address where it should add it (`assemble.c:667`,
`linkingloader.c:171`), so that format 4 operands are right at address 0 only;
base-relative displacements of 2048 and more are sign-extended (`run.c:11`, source `Near`); B is
taken to be 0 before `BASE`; a hexadecimal constant after a reservation is
written unassembled (`assemble.c:708`); an object file without an E record is
read for ever, and a source without END leaves `programLen` uninitialised
(`Garbage`); `bpLast` outlives the loading of another program; running on
overwrites L; an unknown instruction loops for ever; `copy a a` empties the file.
Sources without START, odd hexadecimal digits and addresses beyond 2^20 are not
modelled, nor are floating point instructions, which the program skips.

### 2.12 Sorting, MaxSum, SubsetSum, DagPath, Polygon

The sorts are state machines over the ranges that are left to sort, because their
order of recursion is what differs between them: a step is a call, a round of the
iterative sort, or a range popped from the stack. The loops inside a step
(partition, insertion, the two scans of `qsort_final` and the swaps after them) are
folds over the numbers of their rounds. The shortest path is a state machine too:
`search` holds the calls of `dfs` with the edge each is at (a step is one edge, or the end
of one call with what its caller does after it), `shortest` the distances while the nodes
are popped from the stack, an edge at a time, and then the node the path is traced back
to. The other programs are one step from an
input to an answer, with the tables and recursions of the code as folds and recursive
functions (the rows, lists and selections of SubsetSum, the triangulation). All have
a property that compares the answer with a
definition by enumeration. In MaxSum two nested loops that keep the greatest sum are the greatest
of what every round of the outer one finds (`BestOfRanges`), and the calls of
`Algorithm2_recur` are a function on where a part starts and how long it is (`Recur`).

`MaxSumAssumption` says which inputs the sentinels of main.c allow: every sum exceeds
the `-10000000` that `Algorithm2_recur` starts from, and no sum of an array or a
rectangle is the least integer, which the other programs start from; with such a sum
the answer is never set. `SubsetSumAssumption` asks for sets of natural numbers with at
least one element, as both programs read them, and at most 31, as many bits as the int
mask of `4_2.cpp` has; for numbers and limits within an int, so that the unsigned sums
do not wrap; and for an epsilon of at most 1:
above it the trimming may lose more than epsilon. The table of `3_2.c` is asked only
for numbers it has columns for (`LastColumn`). `PolygonAssumption` asks for three
vertices and for lengths that are not negative; natural numbers stand for the doubles,
whose rounding is left out. `find_pairs` and `dist` read a global n that is always 0
(`GlobalN`): main keeps the number of points in a local one. No side is counted in
spite of it, since the whole polygon never asks for the one between its first and last
vertex. `qsort` is any order in which `cmp` finds no pair wrong. `DagPathAssumption` asks
for nodes numbered from 0, edges between them, and costs that are natural numbers, for the
doubles of `4_1.cpp`: a path that costs `1e+9` or more counts as none there (`FarAway`), and
`PathFound` says so. The code reads negative costs as well; with one, the test of
`4_1.cpp:106` against `1e+9` takes a node for reached that no path leads to, and no
property holds of them.

What the models show the code to get wrong, and the properties leave out:
`qsort_final` with a pivot that is the least of a range from 0 pushes a range that
ends at `SIZE_MAX` and reads in front of the array (`outside`,
`my_quick_sorts.cpp:210`); the median sort looks for its pivot from another end
than it uses it, and still sorts; `Algorithm2` of HW1 leaves out the ranges
that end at the middle, and may give indices of another call; `4_1.cpp` lists the
nodes in front of a cycle with it, and reads vectors it has cleared; in `3_1.c` a
local `n` hides the global one, which two functions read as 0, without harm.
Keys and sums are unbounded integers, so the subtraction in HW2's comparison does
not overflow here; the doubles of 4_2 are exact fractions.

## 3. The runs

| Run | Instance | Result |
|---|---|---|
| `Sched` | 3 threads, priorities 0..2, aging, naps 0 and 2, 3 ticks, time slice 2; fair clock | all properties of Scheduler hold |
| `SynchSema` | 3 threads, 1 semaphore up to 2, kernel without user programs, aging; fair clock | no lost wake-up, waking by priority, refinement of SemaphoreSpec and `ServesWaiters` |
| `SynchCond` | 3 threads, 1 lock, 1 condition, kernel with user programs, naps | types and one list per thread (`ElemInOneList`), mutual exclusion, no lost signal |
| `Process` | the initial thread and 3 processes, statuses -1 and 0, failed allocations, failed loads and kills; fair kernel steps | nesting, exclusion and status delivery hold; no use of freed threads and no wait in vain but those that 2.3 names |
| `Kernel` | the five parts below the processes, see 3.1 | on-disk safety at every power failure, counts of open files, refinement of FileStore, one owner per page and block, no stuck or reordered byte, disk contents, disjoint address spaces |
| `Applications` | the board, the exchange, the SIC/XE programs, the assignments | the board ends clear, no shared number, no gain but by rounding and negative numbers, addresses preserved from source to execution, arrays sorted, greatest sums, subset sums, shortest paths and least triangulations found |
| `SchedDue` | 3 threads, naps -1..2 | `WakesAllDue` is violated |
| `WaitKilled` | as Process with kills | `KilledIsReported` is violated |
| `ExecMissing` | as Process with failed loads | `FailedLoadReported` is violated |
| `BlankLine` | a source with a blank line, assembled and loaded | `EveryTargetReached` is violated |
| `BoardJam` | a queue of one message, one press; fair processes | `MainReturns` is violated |
| `Keys` | two readers, one writer, rings of 3 | `WaitAsserted` is violated |

### 3.1 Why the bounds are enough

*Three threads* are the fewest with which one can run, one be woken and a third
overtake it, or two wait in an order while the third signals. *Three priorities*
give a strict order with equal elements. *Three ticks and naps up to two* let a
sleeper be late, be woken with others, and find the list empty or not; the last
tick stands for all later ones, so the clock never stops. Naps are not negative
in `Sched`: with a saturated clock a thread sleeping until a past tick again and
again would stay ahead of all others, which a clock that grows does not allow.
Sleepers are late there as well, because the timer interrupt comes between
`timer_sleep` and `thread_sleep`. *Time slice 2* separates the interrupts that
yield from those that do not.

*Three processes* give a parent with two children, and a chain of three; each
runs once. Their tids tell them apart, so no symmetry is used, which liveness would
not allow. *Two statuses* distinguish a child's own status from another's; -1 is
what the kernel passes.

*Kernel.* Files: two processes share or contend for two names; two directory
slots can be full, and of eight sectors four hold the free map and the directory,
so that two files fill the disk; one descriptor per process is
enough for one file to be open twice and be removed meanwhile. Memory: two
threads; three pages let a group of two not fit beside one; two blocks per arena
let an arena be part free. Terminal: a ring of 3 bytes holds two, wraps, and is
empty and full within four bytes. Disk: two sectors and sector numbers modulo 8
let an end wrap around to a small number; three requests and one stray interrupt
let a command be one interrupt ahead and the next one catch up, also on the other
disk. Address spaces: two processes, four pages of each kind, or two of the user's
when others hold the rest, so that `load` fails at each allocation; four virtual
pages in two tables; two programs started one after the other.

*Applications.* A queue of two messages, which a press of two keys fills; two
presses, one alarm. Two browsers are the fewest that lose an update, and two
trades the fewest of which one is lost. A coin has four parts here and costs 6 KRW, so
that a part has a cost that is truncated, two parts a whole one that a double may miss,
and minus two parts and an area of -1 the ones that give money. Sources that use each addressing mode,
format and directive, and several with errors; two object files that refer to
each other, loaded in both orders; four command lines, so that a program is assembled,
loaded, run up to a breakpoint and run on; records of 30 columns where the code
has 68, so that records are split; thirty instructions. Arrays of 9 and 10
elements, because `qsort_final` partitions from 9 on and the iterative sort from 8
on (`InsertBelow` stands for 20); all graphs of three nodes and all without loops
of four; polygons up to six corners.

### 3.2 Fairness

The scheduler's liveness assumes that timer interrupts keep coming and that the
handler runs to its end; nothing is assumed of threads, which may compute for
ever. `Synch` adds that a thread back in `sema_down` goes on: interrupts are off
there, so nothing can take the CPU from it. `Process` assumes that each thread's
kernel code makes progress when it is not blocked: all processes have
`PRI_DEFAULT`, and for threads of one priority `NoStarvation` and
`ServesWaiters` justify it: the kernel with user programs does not age threads,
but neither does aging act in the states of `Sched` and `SynchSema` in which all
threads have reached the highest priority, and starting from those the two
properties speak of the time slice alone. No fairness is assumed of what programs choose to do.

The board's processes run: weak fairness for output, for a pending send of input
and for the handler. `main` has strong fairness because an alarm disables its step
and alarms are seconds apart. With that `main` still need not come back
(`BoardJam`). No fairness is assumed of who presses keys. The other runs check
safety.

### 3.3 What the code does against its documentation

* `SchedDue`: the wake-up loop of `thread_tick` compares a sleeper with
  `wakeup_tick`, not with the current tick, so late sleepers are woken one
  interrupt after another. They are woken (`SleeperWakes`, in `ThreadsGoOn`).
* `WaitKilled`: `kill` ends a process without telling its parent, so
  `process_wait` never returns, where its comment promises -1.
* `ExecMissing`: the parent is told that loading has ended before the child whose
  load failed leaves `childList`, so `exec` may return its tid instead of -1.
* `BoardJam`: `main` sends to a queue that input messages may have filled, and is
  itself the only receiver of those.
* `BlankLine`: pass 2 of the assembler pairs the lines of the intermediate file with
  those of the location file, which a blank line puts out of step; the operands after
  it are not where the program looks for them.
* `Keys`: `intq_getc` may sleep for the queue's lock between its test and `wait`,
  whose assertion then fails. Two processes that read the keyboard are enough.

Other disagreements met while modelling, for which there is no run of their own:
`process_execute` waits for `load` even if `thread_create` failed, and never
returns; `process_wait` never returns for a failed child that it still found listed
(the exceptions of `ParentsGoOn`, see 2.3); a loaded program does
not start until its parent waits for it, where the comment of `process_execute`
says it may run and exit before; `cond_signal` wakes the longest waiter and not
the one with the highest priority; there is no priority donation;
with failed loads a child may unlink itself from the list of a parent that has
been freed, and a parent may up a child that has (the exceptions of
`NoUseAfterFree`).

Of the file system and below: `create` keeps the data sectors when the directory
entry fails (`filesys.c:54`, the sectors are allocated for good); a process that is
killed, or fails to load, keeps its files open; a fault in `read` or `write` keeps
`fLock`; the comment of `wait_until_idle` promises 10 seconds and the code waits
10 ms; an extended partition is scanned again from sector 0 (`partition.c:91`
against the comment at line 36); a page fault far below the stack pointer is
neither stack nor kill. Of the board: a snapshot may be sent after a
newer one and stay shown; `wait` may return for the killed input process, and
`output` then meets the removed queue. Of the exchange: a pixel is bought without
being paid when the request fails between its two saves.

## 4. The proofs

TLAPS proves the following for every value of the constants that satisfies the
assumption of the module: any finite set of threads, any priorities, any time
slice, any semaphores, locks and conditions; any set of processes, with any
failures; any number of sectors, slots and descriptors; any ring size, disk size,
number of pages and arena size; any users, prices, amounts and browsers; any presses; any
arrays of integers. The assumptions only say what kind of thing a constant is (a finite set, a positive
number, a number that fits in an int, names that differ); TLC evaluates them on the instances of section 3.

| Module | Theorem | States |
|---|---|---|
| Scheduler | `SchedulerTypeCorrect` | `SchedTypeOK`: in particular priorities stay in range under aging |
| | `ElemNeverShared` | `ElemSharedSafely` |
| | `ListsStayOrdered` | `ListsOrdered` |
| | `SchedulerConsistent` | `SchedConsistent`: both of `SchedTypeOK` and `ListsOrdered`, which `Sched` checks |
| | `SleepersNeverEarly` | `NoEarlyWakeup` (action property) |
| | `SwitchesToHighest` | `HighestPriorityRuns` (action property) |
| Synch | `ElemIsShared` | `ElemInOneList`: a thread's `elem` is in the ready, the sleep or one waiting list |
| | `LocksExclude` | `LockMutex` |
| | `WakeupsAreKept` | `NoLostWakeup` |
| | `SignalsAreKept` | `SignalNotLost` |
| | `UpWakesHighest` | `WakesHighestPriority` (action property) |
| | `SemaphoresRefine` | `ImplementsSemaphores`: Synch implements SemaphoreSpec |
| Process | `ProcessTypeCorrect` | `ProcessTypeOK` |
| | `FilesysExclusive` | `OneInFilesys` |
| | `WaitStatusCorrect` | `WaitReturnsStatus` |
| | `FreedNotSearched` | `FreedUnreachable` |
| | `NoFreedThreadUsed` | `NoUseAfterFree`, whatever fails |
| | `CallsRefine` | `ImplementsCalls`: Process implements ProgramCalls |
| FileSystem | `FilesSurvive` | `MountSafe`: what a boot finds on the disk after any power failure |
| | `OpensAreCounted` | `InodesCounted` |
| | `ProgramsStay` | `ProgramsKept` (action property) |
| | `FilesRefine` | `ImplementsFileStore`: FileSystem implements FileStore |
| Memory | `PagesUsedOnce` | `PagesOwnedOnce` |
| | `BlocksUsedOnce` | `BlocksOwnedOnce` |
| AddressSpace | `DirectoriesLive` | `DirectoryAlive` |
| | `PagesAreApart` | `SpacesDisjoint` |
| Terminal | `BytesKeepOrder` | `BytesInOrder` |
| | `NothingSticks` | `NothingStuck` |
| Disk | `RequestsExact` | `IoExact` |
| | `RequestsConfined` | `IoConfined` |
| Exchange | `TradesGainNothing` | `NothingGained` |
| Board | `NumberNotShared` | `FndNotShared` |
| | `BoardLeftClear` | `BoardClearedAtEnd` |
| Sorting | `SortsSort` | `SortsCorrectly` |
| MaxSum | `BestSumsAreFound` | `BestSumsFound` |
| SubsetSum | `SubsetsAreFound` | `SubsetsFound` |
| Polygon | `TriangulationIsLeast` | `LeastTriangulation` |
| DagPath | `PathsAreFound` | `PathFound` |

Each safety theorem rests on an inductive invariant: it holds initially, every
step of the module keeps it, and it implies the property. The proof that a step
keeps it has one lemma per action, or per kind of step, and lemmas before them say
what the operators do.

### 4.1 Scheduler

The first part of `SchedulerProofs` proves what `InsertOrdered` and popping the
front do: which elements the list has afterwards, that none is linked twice, that it
stays ordered. The next lifts that to `Schedule`, `YieldCPU` and `BlockCPU`.

The inductive invariant `SchedInv` joins the types, the agreement of the two
lists with the statuses, the order of both lists and `WakeLoopDue`: in the
wake-up loop `wakeup_tick` has come. That last part is needed for
`NoEarlyWakeup`, because the loop does not look at the clock: a sleeper whose
tick is at most `wakeup_tick` is due only since `wakeup_tick` is. Most of it is
stated as `CoreInv`, in which a thread may also be blocked on something other
than the sleep list, so that the steps can be reused for Synch.

### 4.2 Process

The properties are not inductive: that one thread is in the file system depends
on who has been handed the right to go on. `ProcessProofs` makes that right a
token. `Holds(x)` says that x can go on without any other thread's doing: it is
running, loading, or another thread has upped the semaphore it waits on. The
invariant `ProcessInv` says that at most one thread holds the token
(`OneHolder`); that the parent of a process that loads waits on `load`, and the
parent of one that runs waits on `wait`, each for this very child
(`ParentsWait`); that an upped semaphore has its owner waiting for it, and the
child that upped `wait` has reported its status (`UpsAreForWaiters`); that lists
of children hold children (`ChildrenListed`); and that the status of a process
that is exiting is not overwritten (`StatusKept`). Every action keeps the token,
drops it (a failed call, a kill) or hands it to one other thread
(`TokenPassed`). All places of `InFilesys` are places of a holder.

`FreedUnreachable` needs `LinksInv`, which adds that a list of children has each
child once (`ListedOnce`) and that a process that was killed, and so is never taken
off its parent's list, has that parent waiting for it, for ever
(`KilledAwaited`). For `NoUseAfterFree` the invariant also says that the
child which `process_wait` has just found is still linked when its semaphore is
upped, unless its load failed, when it has unlinked itself and called no exit
(`AwaitedLinked`), and that a process that has not been started has not called exit
(`NotStarted`). The refinement of ProgramCalls maps each step by what it
does to the set of programs that are ready or active.

### 4.3 Synch

`SynchInv` is `CoreInv` of Scheduler, types, and how the parts agree.
`ArgsAgree`: the call a thread is in is about a semaphore, or about a lock that it
does not hold. `WaitersAgree`: the waiters of a semaphore are exactly the threads
that are blocked inside its `sema_down`, each once, ordered by priority. This is
what makes the single `elem` of a thread safe. `CondWaitersAgree`: a thread in
`cond_wait` is either queued on exactly one condition and its own semaphore is 0,
or on none and the semaphore is 1; every other thread's semaphore is 0.
`LockMutex` and `NoLostWakeup` are themselves inductive, given these.
`SemaphoresRefine` maps every step of Synch to an up, to the start or the end of a
down, or to a stuttering step of SemaphoreSpec.

### 4.4 FileSystem

`FileInv` is true after every block write, so that a power failure may come after
any. `OwnersApart`: the sectors of every file, those of the call under way, and
the free map's and the directory's are pairwise disjoint, marked in the free map
in memory and on the disk. `DataApart`: no inode lies in its own data.
`NamesApart`: entries and files correspond one to one, and an open inode is that
on the disk. `AllCounted`: an inode's `open_cnt` is the number of files open on it
(and of the removal under way), its `deny_write_cnt` the number of those that deny
writing. `ExecutablesDenied`: a running program is among the latter. A file is kept
while one of the two, its entry or a handle, refers to it; `Exists` says so, and
`FilesRefine` maps exactly those files to FileStore's.

### 4.5 Memory and AddressSpace

`MemInv` says who has which page and which block. Its core is `Apart`: claims (a
thread's group of pages, pages being cleared, an arena) partition `used_map`, and
keepers (threads, a `free` under way, the free list, a removal under way) partition
the blocks of all arenas. `LocksKept`, `ScansOK` and `RequestsOK` say what a thread
may rely on at each step: the bits it has tested stay clear, because only a holder of
`pool_lock` sets bits, and clearing them without the lock only makes more free.
`RemovalsOK` and `CountsOK` (an arena's count is the number of its blocks that no
thread has) show that an arena is given back only when all its blocks are on the
list.

`SpaceInv` says that each page of both pools is free, lost, or held by exactly one
role (`PagesHeld`), that no stale entry is left in a page that was given back
(`Clean`), that the page the fault handler installs is still missing (`Missing`),
and which directory is active at each step of `load` and `process_exit`
(`Activated`). `DirectoryAlive` follows from the last and the first.

### 4.6 Terminal and Disk

`TerminalInv`: the bytes in a ring are consecutive, from the one last taken to the
one last put (`QueuesHold`; `Holds` counts places modulo the size of the ring); and
until the machine is reset, a reader that waits has the ring's lock, the ring is
empty, and a released lock that others want has been passed to one of them
(`ReadersOK`); writers hold the console's lock, so that one at a time is in `txq`
(`WritersOK`); the port's interrupts are on when there is something to send or room
to receive (`PortOK`).

`DiskInv` follows one request: only the holder of the channel's lock is past
`lock` (`HoldersOnly`); how far the drive is at each of its places (`AllServed`),
also when `completion_wait` is one interrupt ahead; and a free channel has an
idle drive, or one that still writes what it was given (`DriveFree`, `DiskAgrees`).
`PartitionsFit` gives `IoConfined`.

### 4.7 Exchange and Board

`ExchangeInv`: every stored wallet is fair to its owner (`StoredFair`: worth no more
than a new one and the allowance, and not overdrawn unless the owner has asked for a
negative amount), and so is every wallet that a request has read, changed and not yet
saved (`PendingFair`). That is why a lost update cannot make money: what is
saved late is still a wallet that one trade made of a fair one, and the history only
grows (`HistoryGrows`). `CostIs` bounds what truncation does to a cost of either
sign: it is at most one KRW off, and for an amount that is not negative never more
than the exact product, so that a purchase the guard admits leaves KRW.

`BoardInv` says that main is working or leaving. `Working`: what is left to do is made of
the code's statements, in an order in which the alarm flag that lets the handler
change the number is cleared before main changes it, and set only after
(`TodoInOrder`), and no termination is in the queue. `Leaving(k)`:
steps k to 10 of `Leave` are left; from the third on the alarm is off and no
handler's work is left; each device that was reset will be clear once the messages in
the queue have been shown; and the termination message is the last one for output.

### 4.8 The assignments

*Sorting.* `SortInv`: a sort has not begun, or it is `Going`. Then the array is a rearrangement of
what was given (`Rearrangement`: there is a permutation of the indices); the ranges
left to sort lie in the array and no two of them overlap (`Separate`); and any two keys
in the wrong order have both their places in the same one of those ranges (`Within`).
So when no range is left nothing is in the wrong order. `Within` alone would not be
kept: it needs ranges that do not overlap, because sorting one must not undo another.
A range of `qsort_final` that ends at `SIZE_MAX` (`Wraps`) exists only where a key is
given twice, which is what `SortsCorrectly` says of reading outside. The invariant
holds in all states of the run `Applications` too.

Every step replaces the first range by others inside it, and rearranges only what is
in it. `PartsReplace` says when that keeps `Within`: the new ranges and the places
between them are such that everything left of the pivot's place is not above it and
everything right of it not below (`Parted`, `Covering`). What a step does to the array is
proved per loop: `PartitionSplits`, `InsertionSorts`, `SplitFinalSplits` (of the scans
`ScanInv` says that what lies left of I is not above the pivot, what lies right of J
not below, and that both ends hold keys equal to it), and `NintherIs`: the pivot is
not the least of its range unless another key equals it.

These loops are folds, and the library's induction theorems cannot be used. The
first lemmas therefore prove induction over the natural numbers for a set
(`Induct`, from the well-foundedness of <), that the recursive function inside `FoldLeft`
exists (`Runs`), and so that a fold is the last value of a run: a function z on
0..n with z[0] the start and z[i] one round applied to z[i - 1]. A loop invariant is
then proved for every z[i] by `Induct`.

*Greatest sums.* A behaviour of MaxSum is one step, so the invariant only says which
program ran of which input (`MaxSumRan`); the work is in what each program computes.
A sum over a set is defined in the library by choosing an element after the other.
`SumsExist` and `SumsAgree` show that the function behind it exists and does not depend
on the set it is defined for, `SumAdds` that any element may be taken away first,
and `SumUnion` that sums over disjoint sets add up. From these come the facts about
ranges (`SumSplits`), the prefix sums of `Algorithm4` (`AreaIs`: four of them give the
rectangle) and the sums of rows of `Algorithm5` (`RowSumsAre`). What a loop keeps is
the first greatest sum (`FirstBest`). The loop invariants are `PassInv`, that the current
sum is the greatest one ending there, and `NegInv`, the same with the empty range,
where the best sum is unset as long as every range has a negative sum. Of the
program that halves, `Bounded` is proved by induction on the length, after
`RecursExists`: its answer is no less than any element and no more than some range's
sum. That it is the greatest sum is false (two ones).

*Subset sums.* The recursive functions of SubsetSum are shown to exist in the same way
(`TableRuns`, `SelectRuns`, `MergeRuns`, `TrimRuns`, `ListsRuns`). Row i of the table holds
the sums that the elements up to i reach (`RowIs`), and while elements are selected
from the last one back, what is left remains a sum that the elements in front reach
(`LeftInv`); in front of the first one only 0 is. Of the lists, `MergeIs` and `TrimIs` say that
merging two ascending lists gives an ascending one with the pairs of both, and that
every pair `trim` drops has a pair kept at most delta below it. `ListInv` puts
them together: after i elements the list is ascending, each pair has the sum of its
mask and is within the limit, and for every sum s of those elements within the limit
there is a pair of sum z <= s with s n b <= z (n b + i a), where epsilon is a / b. `NearNear` is the
step: one more trim adds a to i a, where i a <= n b is needed, and so an epsilon of
at most 1. After n elements this is the bound s b <= z (b + a), and
without trimming (a = 0) z = s.

*Triangulations.* `tri` and `find_pairs` recurse on smaller parts of the polygon, so
the functions exist (`CutRuns`, `PairRuns`). A triangle on the side between the first
and the last vertex of a part cuts it into two smaller parts and at most two chords,
and no two of these pieces share a chord (`PiecesApart`, `FourPieces`). `NoneCheaper`
says that no set of chords of a part that do not cross, as many as a triangulation has,
costs less than `tri` returns: `TriangleLeft` takes the last vertex that has a chord
with the first one as the third of the triangle, every other chord then lies in one
piece, and since no piece can hold more chords than a triangulation of it has, each has
exactly as many. `PairsTriangulate` says that `find_pairs` lists such a set, each chord
once, that costs what `tri` returned, and `QsortSorts` that an order qsort may choose
exists.

*Shortest paths* (in `ApplicationProofs`). The inductive invariant `DagPathInv` has a part
for each phase. While `dfs` searches, either no cycle is found (`Unfound`): the nodes of
the calls, each in one call, are those on the way, the others seen are on s, every edge of
a node on s leads to one below it (`Backward`), and the edges a call has read lead
to nodes on s, but the last one, which leads to the next call. Or one is (`Found`): the calls and
the stack `cycle` are one path and its end leads back into it; that the callers in front
of the cycle join it as well does no harm to this. When all nodes are on s, `Backward`
excludes cycles (`OrderedAcyclic`: the lowest node of one would lead below itself). While
distances are relaxed, `IsTree` says that d of a node with a predecessor x is d of x and
the cost of an edge from x, and that x is no longer below the top of s, so that its
distance does not change any more: an edge of the top leads below it. `AllTight` says that the edges of
the nodes popped are relaxed, `SomeTight` the same of those of the top that are
done. At the end all are, so no path costs less than d (`NoPathBelow`, by induction on the
number of edges), and the path traced back costs exactly d (`TraceKeeps`, `AnswerIs`).

### 4.9 Model-checked only

Liveness under fairness is out of the prover's reach: the two parts of
`ThreadsGoOn`, `ServesWaiters` and the two parts of `ParentsGoOn` are checked on
the instances of section 3 only, as are the six refuted statements. So are
`TargetsReached` and `LinkedSum`: the prover does not work where a recursive operator is
in reach, and `Bitwise`, with which the simulator decodes, is made of those.

## 5. Not modelled, and the plan

Not yet modelled, in the order of the plan: `all_list` with thread creation and
exit in Scheduler, and the feedback queue's arithmetic; `calloc` and `realloc`;
hash tables and bitmaps. Two hazards have no property for that reason: changes of
`all_list` with interrupts on (`thread.c:630`), and the overflow of the feedback
queue's fixed-point numbers (`thread.c:210`).

Every safety property of the kernel, the board, the exchange, the sorts, the
greatest sums, the subset sums, the triangulations and the shortest paths that a run
checks is proved. Theorems that remain: types of the SIC/XE modules (memory stays bytes,
the locations that the assembler assigns stay ordered).

Not planned: boot code, descriptors of the processor, identification of drives and
other port I/O, the screen, the clocks, formatting and string handling, `vm/`
(declarations and stubs that nothing calls), the test programs and tools, the
earlier SIC/XE projects, the web pages that only read, the crawler of prices, the
generated scanner.
