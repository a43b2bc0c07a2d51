------------------------------ MODULE Process ------------------------------
(***************************************************************************)
(* The life of a user process in the USERPROG kernel: process_execute,     *)
(* start_process and process_wait (userprog/process.c), syscall_exit       *)
(* (userprog/syscall.c), kill (userprog/exception.c), thread_create and    *)
(* thread_exit as far as they concern it.  Threads are preempted between   *)
(* any two steps; the semaphores are those of SemaphoreSpec, which Synch   *)
(* implements.                                                             *)
(***************************************************************************)
EXTENDS Integers, Sequences, SequencesExt

CONSTANTS
  Main,          \* the initial thread, which runs the tasks of the command line
  Procs,         \* the threads of user processes, by tid; bound: each runs once
  Codes,         \* the statuses programs pass to exit; -1 is among them
  TID_ERROR,     \* what process_execute returns when it fails
  Null,
  ThreadsFail,   \* memory may run out in process_execute and thread_create
  LoadsFail,     \* load may fail
  Killed         \* programs may cause exceptions other than page faults

All == Procs \cup {Main}

ASSUME ProcessAssumption ==
  /\ Procs \subseteq Nat /\ Main \notin Procs
  /\ -1 \in Codes /\ Codes \subseteq Int
  /\ Null \notin All \cup Codes /\ TID_ERROR \notin All \cup Codes \cup {Null}
  /\ ThreadsFail \in BOOLEAN /\ LoadsFail \in BOOLEAN /\ Killed \in BOOLEAN

VARIABLES
  pc,            \* where each thread is: see Labels
  parent,        \* struct thread's parent
  childList,     \* struct thread's childList
  load,          \* the values of struct thread's three semaphores
  exec,
  wait,
  exit_status,   \* struct thread's exit_status
  child,         \* the child process_execute or process_wait is about
  code,          \* the status each process exits with, once it has called exit
  eax            \* what the last exec or wait of each thread returned

vars == <<pc, parent, childList, load, exec, wait, exit_status, child, code,
          eax>>

\* "main", "main_wait": the initial thread between two tasks, and about to wait
\* for its task.  In process_execute: "exec_down", "exec_tid".  In process_wait:
\* "wait_up", "wait_down", "wait_status".  In start_process: "load", then
\* "loaded" or "failed" (about to up the parent's load), then "ready" (about to
\* down exec) or "remove".  "user": in the user program or a system call that
\* touches no other process.  In syscall_exit: "exit_remove", "exit_close",
\* "exit_up"; then thread_exit: "exit", and "dead" once its page is freed.
\* "unborn": created without a file descriptor table, and never unblocked.
Labels ==
  {"unused", "main", "main_wait", "exec_down", "exec_tid", "wait_up",
   "wait_down", "wait_status", "load", "loaded", "failed", "ready", "remove",
   "user", "exit_remove", "exit_close", "exit_up", "exit", "dead", "unborn"}

At(p, label) == pc[p] = label
Goto(p, label) == pc' = [pc EXCEPT ![p] = label]

\* Where p goes on after process_execute or process_wait.
Caller(p) == IF p = Main THEN "main" ELSE "user"

ProcessInit ==
  /\ pc = [p \in All |-> IF p = Main THEN "main" ELSE "unused"]
  /\ parent = [p \in Procs |-> Null]
  /\ childList = [p \in All |-> <<>>]
  /\ load = [p \in All |-> 0]
  /\ exec = [p \in Procs |-> 0]
  /\ wait = [p \in All |-> 0]
  /\ exit_status = [p \in All |-> 0]
  /\ child = [p \in All |-> Null]
  /\ code = [p \in Procs |-> Null]
  /\ eax = [p \in All |-> 0]

----------------------------------------------------------------------------
\* process_execute

\* No page for a copy of the command line.
ExecNoPage(p) ==
  /\ ThreadsFail /\ At(p, Caller(p))
  /\ eax' = [eax EXCEPT ![p] = TID_ERROR]
  /\ UNCHANGED <<pc, parent, childList, load, exec, wait, exit_status, child,
                 code>>

\* thread_create finds no page for the thread.
ExecNoThread(p) ==
  /\ ThreadsFail /\ At(p, Caller(p))
  /\ child' = [child EXCEPT ![p] = Null]
  /\ Goto(p, "exec_down")
  /\ UNCHANGED <<parent, childList, load, exec, wait, exit_status, code, eax>>

\* allocate_tid: tids are given in increasing order.
NextTid(c) == \A d \in Procs : At(d, "unused") => c <= d

\* thread_create, and its failure to allocate the file descriptor table, after
\* the new thread has joined its parent's children.
Create(p, c, label, tid) ==
  /\ At(p, Caller(p)) /\ At(c, "unused")
  /\ pc' = [pc EXCEPT ![p] = "exec_down", ![c] = label]
  /\ parent' = [parent EXCEPT ![c] = p]
  /\ childList' = [childList EXCEPT ![p] = Append(@, c)]
  /\ child' = [child EXCEPT ![p] = tid]
  /\ UNCHANGED <<load, exec, wait, exit_status, code, eax>>

ExecNoTable(p) ==
  ThreadsFail /\ \E c \in Procs : NextTid(c) /\ Create(p, c, "unborn", Null)

Exec(p) == \E c \in Procs : NextTid(c) /\ Create(p, c, "load", c)

\* sema_down(&load): also when there is no child to up it.
ExecDown(p) ==
  /\ At(p, "exec_down") /\ load[p] > 0
  /\ load' = [load EXCEPT ![p] = @ - 1]
  /\ Goto(p, "exec_tid")
  /\ UNCHANGED <<parent, childList, exec, wait, exit_status, child, code, eax>>

\* The tid at list_rbegin(&childList).  An empty list gives its head, and the
\* tid read there is whatever lies before the struct thread in memory; the
\* initial thread always has the idle thread as a child.
IsLastChild(p, c) ==
  IF childList[p] = <<>> THEN p # Main ELSE Last(childList[p]) = c

ExecReturn(p) ==
  /\ At(p, "exec_tid")
  /\ \/ IsLastChild(p, child[p]) /\ eax' = [eax EXCEPT ![p] = child[p]]
     \/ /\ childList[p] # <<>> => ~IsLastChild(p, child[p])
        /\ eax' = [eax EXCEPT ![p] = TID_ERROR]
  /\ Goto(p, IF p = Main THEN "main_wait" ELSE "user")
  /\ UNCHANGED <<parent, childList, load, exec, wait, exit_status, child, code>>

----------------------------------------------------------------------------
\* start_process

Load(c) ==
  /\ At(c, "load")
  /\ \E success \in {TRUE, ~LoadsFail} :
       Goto(c, IF success THEN "loaded" ELSE "failed")
  /\ UNCHANGED <<parent, childList, load, exec, wait, exit_status, child, code,
                 eax>>

\* sema_up(&parent->load): the kernel with user programs does not yield here.
LoadUp(c) ==
  /\ \/ At(c, "loaded") /\ Goto(c, "ready")
     \/ At(c, "failed") /\ Goto(c, "remove")
  /\ load' = [load EXCEPT ![parent[c]] = @ + 1]
  /\ UNCHANGED <<parent, childList, exec, wait, exit_status, child, code, eax>>

\* list_remove(&childElem), on a list that is there and that c is in.
Unlink(c) ==
  /\ ~At(parent[c], "dead")
  /\ \E i \in DOMAIN childList[parent[c]] :
       /\ childList[parent[c]][i] = c
       /\ childList' = [childList EXCEPT ![parent[c]] = RemoveAt(@, i)]

FailRemove(c) ==
  /\ At(c, "remove")
  /\ Unlink(c)
  /\ Goto(c, "exit")
  /\ UNCHANGED <<parent, load, exec, wait, exit_status, child, code, eax>>

\* Mutant of Start: the program starts without waiting for process_wait.
Start_at_once(c) ==
  /\ At(c, "ready")
  /\ exec' = exec
  /\ Goto(c, "user")
  /\ UNCHANGED <<parent, childList, load, wait, exit_status, child, code, eax>>

\* sema_down(&exec), and into the user program.
Start(c) ==
  /\ At(c, "ready") /\ exec[c] > 0
  /\ exec' = [exec EXCEPT ![c] = @ - 1]
  /\ Goto(c, "user")
  /\ UNCHANGED <<parent, childList, load, wait, exit_status, child, code, eax>>

----------------------------------------------------------------------------
\* process_wait

\* The tid p passes: a program passes any, the initial thread what
\* process_execute returned.
MayAwait(p, c) ==
  \/ p \in Procs /\ At(p, "user")
  \/ p = Main /\ At(p, "main_wait") /\ eax[p] = c

\* The search of childList.
Wait(p) ==
  \E c \in Procs \cup {TID_ERROR} :
    /\ MayAwait(p, c)
    /\ IF Contains(childList[p], c)
         THEN /\ child' = [child EXCEPT ![p] = c]
              /\ Goto(p, "wait_up")
              /\ UNCHANGED eax
         ELSE /\ eax' = [eax EXCEPT ![p] = -1]
              /\ Goto(p, Caller(p))
              /\ UNCHANGED child
    /\ UNCHANGED <<parent, childList, load, exec, wait, exit_status, code>>

\* sema_up(&t->exec), of a thread that is there.
WaitUp(p) ==
  /\ At(p, "wait_up") /\ ~At(child[p], "dead")
  /\ exec' = [exec EXCEPT ![child[p]] = @ + 1]
  /\ Goto(p, "wait_down")
  /\ UNCHANGED <<parent, childList, load, wait, exit_status, child, code, eax>>

\* Mutant of WaitDown: process_wait does not wait.
WaitDown_skipped(p) ==
  /\ At(p, "wait_down")
  /\ wait' = wait
  /\ Goto(p, "wait_status")
  /\ UNCHANGED <<parent, childList, load, exec, exit_status, child, code, eax>>

\* sema_down(&wait)
WaitDown(p) ==
  /\ At(p, "wait_down") /\ wait[p] > 0
  /\ wait' = [wait EXCEPT ![p] = @ - 1]
  /\ Goto(p, "wait_status")
  /\ UNCHANGED <<parent, childList, load, exec, exit_status, child, code, eax>>

\* return cur->exit_status
WaitReturn(p) ==
  /\ At(p, "wait_status")
  /\ eax' = [eax EXCEPT ![p] = exit_status[p]]
  /\ Goto(p, Caller(p))
  /\ UNCHANGED <<parent, childList, load, exec, wait, exit_status, child, code>>

----------------------------------------------------------------------------
\* syscall_exit, called by the program or, with status -1, by the kernel for a
\* bad pointer or a page fault.

Exit(p) ==
  /\ p \in Procs /\ At(p, "user")
  /\ \E status \in Codes :
       /\ exit_status' = [exit_status EXCEPT ![parent[p]] = status]
       /\ code' = [code EXCEPT ![p] = status]
  /\ Goto(p, "exit_remove")
  /\ UNCHANGED <<parent, childList, load, exec, wait, child, eax>>

\* Mutant of ExitRemove: the process stays linked into its parent's list.
ExitRemove_stays(p) ==
  /\ At(p, "exit_remove")
  /\ Goto(p, "exit_close")
  /\ UNCHANGED <<childList, parent, load, exec, wait, exit_status, child, code,
                 eax>>

ExitRemove(p) ==
  /\ At(p, "exit_remove")
  /\ Unlink(p)
  /\ Goto(p, "exit_close")
  /\ UNCHANGED <<parent, load, exec, wait, exit_status, child, code, eax>>

\* The open files, the table, the executable.
ExitClose(p) ==
  /\ At(p, "exit_close")
  /\ Goto(p, "exit_up")
  /\ UNCHANGED <<parent, childList, load, exec, wait, exit_status, child, code,
                 eax>>

\* Mutant of ExitUp: the parent is not told.
ExitUp_forgotten(p) ==
  /\ At(p, "exit_up")
  /\ Goto(p, "exit")
  /\ UNCHANGED <<parent, childList, load, exec, wait, exit_status, child, code,
                 eax>>

\* sema_up(&parent->wait)
ExitUp(p) ==
  /\ At(p, "exit_up")
  /\ wait' = [wait EXCEPT ![parent[p]] = @ + 1]
  /\ Goto(p, "exit")
  /\ UNCHANGED <<parent, childList, load, exec, exit_status, child, code, eax>>

\* kill(): thread_exit, and nothing else.
Kill(p) ==
  /\ Killed /\ p \in Procs /\ At(p, "user")
  /\ Goto(p, "exit")
  /\ UNCHANGED <<parent, childList, load, exec, wait, exit_status, child, code,
                 eax>>

\* thread_exit; the thread that runs next frees the page before anything else.
ThreadExit(p) ==
  /\ At(p, "exit")
  /\ Goto(p, "dead")
  /\ UNCHANGED <<parent, childList, load, exec, wait, exit_status, child, code,
                 eax>>

----------------------------------------------------------------------------
\* What the program, or the command line, decides to do.
Choice(p) ==
  \/ ExecNoPage(p) \/ ExecNoThread(p) \/ ExecNoTable(p) \/ Exec(p)
  \/ Wait(p) \/ Exit(p) \/ Kill(p)

\* What the kernel does next for p, once it has the CPU.
KernelStep(p) ==
  \/ ExecDown(p) \/ ExecReturn(p) \/ Load(p) \/ LoadUp(p) \/ FailRemove(p)
  \/ Start(p) \/ WaitUp(p) \/ WaitDown(p) \/ WaitReturn(p)
  \/ ExitRemove(p) \/ ExitClose(p) \/ ExitUp(p) \/ ThreadExit(p)

ProcessNext == \E p \in All : Choice(p) \/ KernelStep(p)

\* Every thread has PRI_DEFAULT, so each that is ready gets the CPU (Scheduler's
\* NoStarvation), and a thread woken from a semaphore gets it (Synch's
\* ServesWaiters).  Programs need not make system calls.
ProcessSpec == ProcessInit /\ [][ProcessNext]_vars
FairProcessSpec == ProcessSpec /\ \A p \in All : WF_vars(KernelStep(p))

----------------------------------------------------------------------------
(* Properties *)

\* The refinement mapping: a program is active from its start until it ups its
\* parent's wait; one that was killed, and so is still linked, remains so.
Active(c) ==
  \/ pc[c] \in {"user", "exec_down", "exec_tid", "wait_up", "wait_down",
                "wait_status", "exit_remove", "exit_close", "exit_up"}
  \/ pc[c] \in {"exit", "dead"} /\ Contains(childList[parent[c]], c)

Nested == INSTANCE ProgramCalls WITH
  None <- Null,
  loaded <- {c \in Procs : At(c, "ready")},
  active <- {c \in Procs : Active(c)} \cup {Main},
  caller <- [c \in Procs |->
               IF At(c, "ready") \/ Active(c) THEN parent[c] ELSE Null]

\* Programs are called by process_wait and return by exit, nested as in
\* ProgramCalls, whatever fails.
ImplementsCalls == Nested!Calls

\* The type invariant; the three semaphores of a thread are 0 or 1.
ProcessTypeOK ==
  /\ pc \in [All -> Labels]
  /\ parent \in [Procs -> All \cup {Null}]
  /\ childList \in [All -> Seq(Procs)]
  /\ load \in [All -> 0..1] /\ exec \in [Procs -> 0..1] /\ wait \in [All -> 0..1]
  /\ exit_status \in [All -> Codes \cup {0}]
  /\ child \in [All -> Procs \cup {Null}]
  /\ code \in [Procs -> Codes \cup {Null}]
  /\ eax \in [All -> Procs \cup Codes \cup {0, TID_ERROR}]

\* Where a thread may be inside the file system, which has no locks of its own:
\* loading, in a system call of the program, closing its files, or (the initial
\* thread) in an action of the command line.
InFilesys(p) == pc[p] \in {"load", "user", "exit_close", "main"}

\* At most one thread at a time can be inside the file system: a program never
\* runs beside its parent, nor beside a child it has not waited for.
OneInFilesys == \A p, q \in All : InFilesys(p) /\ InFilesys(q) => p = q

\* process_wait returns the status its own child passed to exit, after that
\* child has closed its files, whatever other children there are.
WaitReturnsStatus ==
  \A p \in All : At(p, "wait_status") =>
    /\ pc[child[p]] \in {"exit", "dead"}
    /\ exit_status[p] = code[child[p]]

\* A freed thread is linked in no list that process_execute or process_wait may
\* still search: kill leaves its victim linked, but in a list whose owner never
\* leaves process_wait.
FreedUnreachable ==
  \A p \in All : \A c \in ToSet(childList[p]) :
    At(c, "dead") /\ ~At(p, "dead") => At(p, "wait_down") /\ child[p] = c

\* No step uses a thread whose page has been freed: neither the parent a child
\* reports to, nor the child process_wait is about to up.  The exceptions, both
\* after a failed load: the child may leave the list of a parent that is gone
\* (process.c:100), and may itself be gone when process_wait, which still found
\* it listed, ups it (process.c:139).
NoUseAfterFree ==
  /\ \A c \in Procs :
       pc[c] \in {"load", "loaded", "failed", "user", "exit_remove",
                  "exit_close", "exit_up"} => ~At(parent[c], "dead")
  /\ \A c \in Procs : At(c, "remove") /\ At(parent[c], "dead") => LoadsFail
  /\ \A p \in All :
       At(p, "wait_up") /\ At(child[p], "dead") => LoadsFail /\ code[child[p]] = Null

\* process_execute returns, unless it created no child (process.c:56 waits for
\* one all the same) and so nobody ups load.
ExecReturns ==
  \A p \in All : At(p, "exec_down") /\ child[p] # Null ~> ~At(p, "exec_down")

InWait(p, c) == pc[p] \in {"wait_up", "wait_down"} /\ child[p] = c

\* c does not get to syscall_exit: it is in its program for good, or has ended
\* without it (killed, or its load failed), or was never unblocked.
NeverExits(c) ==
  /\ code[c] = Null
  /\ pc[c] \in {"user", "exec_down", "exec_tid", "wait_up", "wait_down",
                "wait_status", "remove", "exit", "dead", "unborn"}

\* process_wait that waits for ever waits for a child that never calls exit: one
\* that goes on for ever, was killed, failed to load or was never started.
WaitReturns ==
  \A p \in All, c \in Procs : <>[]InWait(p, c) => <>[]NeverExits(c)

\* process_execute returns when there is a child, whether it loads or not, and
\* process_wait when its child calls exit, whatever other threads and failed
\* creations, loads and kills there are in between.
ParentsGoOn == ExecReturns /\ WaitReturns

\* process_wait's comment: "If it was terminated by the kernel (i.e. killed due
\* to an exception), returns -1": it returns for a child that has died.
KilledIsReported ==
  \A p \in All :
    At(p, "wait_down") /\ At(child[p], "dead") ~> ~At(p, "wait_down")

\* The test exec-missing: exec of a program that cannot be loaded returns -1.
FailedLoadReported ==
  [][\A p \in All :
       At(p, "exec_tid") /\ eax'[p] \in Procs
         => pc[eax'[p]] \notin {"remove", "exit", "dead"}]_vars
=============================================================================
