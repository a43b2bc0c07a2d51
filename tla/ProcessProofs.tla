--------------------------- MODULE ProcessProofs ---------------------------
(***************************************************************************)
(* Proofs about Process, for any number of processes.  The argument is     *)
(* that of a token: at most one thread can be running, loading or about to *)
(* take a value out of a semaphore another thread has put there for it,    *)
(* and every step either keeps the token or hands it to one thread.        *)
(***************************************************************************)
EXTENDS Process, TLAPS

\* c is being loaded; or runs, or waits for a process it has called.
Loading(c) == pc[c] \in {"load", "loaded", "failed"}

Running(c) ==
  pc[c] \in {"user", "exec_down", "exec_tid", "wait_up", "wait_down",
             "wait_status", "exit_remove", "exit_close", "exit_up"}

\* x can go on without any other thread's doing.
Holds(x) ==
  \/ pc[x] \in {"main", "main_wait", "exec_tid", "wait_up", "wait_status",
                "load", "loaded", "failed", "user", "exit_remove",
                "exit_close", "exit_up"}
  \/ pc[x] = "exec_down" /\ load[x] > 0
  \/ pc[x] = "wait_down" /\ wait[x] > 0
  \/ x \in Procs /\ pc[x] = "ready" /\ exec[x] > 0

OneHolder == \A x, y \in All : Holds(x) /\ Holds(y) => x = y

\* The parent of a process that loads waits on load, and the parent of one that
\* has been called waits on wait, each for this very child.
ParentsWait ==
  \A c \in Procs :
    /\ pc[c] # "unused" => parent[c] \in All
    /\ Loading(c) => pc[parent[c]] = "exec_down" /\ child[parent[c]] = c
    /\ Running(c) =>
         pc[parent[c]] = "wait_down" /\ child[parent[c]] = c /\ exec[c] = 0
    /\ exec[c] > 0 =>
         /\ parent[c] \in All
         /\ pc[parent[c]] = "wait_down" /\ child[parent[c]] = c

\* A semaphore that has been upped is one its owner is waiting on, and a parent's
\* wait is upped by the child it waits for, which has reported its status.
UpsAreForWaiters ==
  \A p \in All :
    /\ load[p] > 0 => pc[p] = "exec_down" /\ child[p] \in Procs
    /\ pc[p] = "exec_tid" => child[p] \in Procs
    /\ pc[p] = "wait_up" => child[p] \in Procs /\ parent[child[p]] = p
    /\ wait[p] > 0 => pc[p] = "wait_down"
    /\ wait[p] > 0 \/ pc[p] = "wait_status" =>
         /\ child[p] \in Procs /\ parent[child[p]] = p
         /\ pc[child[p]] \in {"exit", "dead"} /\ exec[child[p]] = 0
         /\ exit_status[p] = code[child[p]]

\* Children are linked into the list of their parent.
ChildrenListed ==
  /\ \A p \in All : \A i \in 1..Len(childList[p]) : parent[childList[p][i]] = p
  /\ \A c \in Procs : pc[c] = "unused" => parent[c] = Null

\* The status of an exiting process is not overwritten before it is read.
StatusKept ==
  \A c \in Procs :
    pc[c] \in {"exit_remove", "exit_close", "exit_up"} =>
      exit_status[parent[c]] = code[c]

MainAlive ==
  pc[Main] \in {"main", "main_wait", "exec_down", "exec_tid", "wait_up",
                "wait_down", "wait_status"}

ProcessInv ==
  /\ ProcessTypeOK
  /\ OneHolder
  /\ ParentsWait
  /\ UpsAreForWaiters
  /\ ChildrenListed
  /\ StatusKept
  /\ MainAlive

----------------------------------------------------------------------------
\* What the proofs use of the constants.
LEMMA Constants ==
  /\ \A c \in Procs : c \in All /\ c # Main
  /\ \A x \in All : x = Main \/ x \in Procs
  /\ Main \in All /\ Null \notin All /\ TID_ERROR \notin All
  /\ Null \notin Codes /\ Codes \subseteq Int
  BY ProcessAssumption DEF All

USE Constants

\* The token passes from p to q, or stays where it is if p = q: it is enough
\* that every holder after the step is q, or held it before and is not p.
LEMMA TokenPassed ==
  ASSUME OneHolder, NEW p \in All, NEW q \in All, Holds(p),
         \A x \in All : Holds(x)' => x = q \/ (x # p /\ Holds(x))
  PROVE  OneHolder'
  BY DEF OneHolder

\* Removing an element from a list of children leaves a list of children.
LEMMA ChildRemoved ==
  ASSUME NEW list \in Seq(Procs), NEW i \in DOMAIN list
  PROVE  /\ RemoveAt(list, i) \in Seq(Procs)
         /\ \A j \in 1..Len(RemoveAt(list, i)) :
              \E k \in 1..Len(list) : RemoveAt(list, i)[j] = list[k]
<1> DEFINE n == Len(list)
           front == SubSeq(list, 1, i - 1)
           back == SubSeq(list, i + 1, n)
<1>1. n \in Nat /\ i \in 1..n
  OBVIOUS
<1>2. front \in Seq(Procs) /\ Len(front) = i - 1
  /\ \A j \in 1..(i - 1) : front[j] = list[j]
  BY <1>1
<1>3. back \in Seq(Procs) /\ Len(back) = n - i
  /\ \A j \in 1..(n - i) : back[j] = list[i + j]
  BY <1>1
<1> HIDE DEF front, back
<1>4. /\ front \o back \in Seq(Procs) /\ Len(front \o back) = n - 1
      /\ \A j \in 1..(n - 1) :
           (front \o back)[j] = IF j <= i - 1 THEN front[j] ELSE back[j - (i - 1)]
  BY <1>1, <1>2, <1>3, SMTT(30)
<1>5. \A j \in 1..(n - 1) : \E k \in 1..n : (front \o back)[j] = list[k]
  <2> TAKE j \in 1..(n - 1)
  <2>1. CASE j <= i - 1
    BY <2>1, <1>1, <1>2, <1>4
  <2>2. CASE ~(j <= i - 1)
    <3>1. j - (i - 1) \in 1..(n - i) /\ i + (j - (i - 1)) = j + 1 /\ j + 1 \in 1..n
      BY <2>2, <1>1
    <3>2. (front \o back)[j] = back[j - (i - 1)]
      BY <2>2, <1>4
    <3>3. (front \o back)[j] = list[j + 1]
      BY <3>1, <3>2, <1>3
    <3> QED
      BY <3>1, <3>3
  <2> QED
    BY <2>1, <2>2
<1>6. RemoveAt(list, i) = front \o back
  BY DEF RemoveAt, front, back
<1> QED
  BY <1>4, <1>5, <1>6

\* The invariant holds initially: the initial thread holds the token.
THEOREM ProcessInitially == ProcessInit => ProcessInv
  BY ProcessAssumption
  DEF ProcessInit, ProcessInv, ProcessTypeOK, OneHolder, Holds, ParentsWait,
      Loading, Running, UpsAreForWaiters, ChildrenListed, StatusKept,
      MainAlive, All, Labels

----------------------------------------------------------------------------
(* process_execute and start_process *)

\* A new child takes the token from its parent, which waits on load.
LEMMA ExecKeeps ==
  ASSUME ProcessInv, NEW p \in All, Exec(p) PROVE ProcessInv'
<1>1. PICK c \in Procs : Create(p, c, "load", c)
  BY DEF Exec
<1> USE <1>1 DEF Create, At, Caller, ProcessInv
<1>2. ProcessTypeOK'
  <2>1. Append(childList[p], c) \in Seq(Procs)
    BY DEF ProcessTypeOK
  <2>2. childList' \in [All -> Seq(Procs)]
    BY <2>1 DEF ProcessTypeOK
  <2>3. pc' \in [All -> Labels]
    BY DEF ProcessTypeOK, Labels
  <2>4. parent' \in [Procs -> All \cup {Null}]
    BY DEF ProcessTypeOK
  <2>5. child' \in [All -> Procs \cup {Null}]
    BY DEF ProcessTypeOK
  <2> QED
    BY <2>2, <2>3, <2>4, <2>5 DEF ProcessTypeOK
<1>3. OneHolder'
  <2>1. Holds(p)
    BY DEF Holds
  <2>2. load[p] = 0
    BY SMTT(30) DEF ProcessTypeOK, UpsAreForWaiters
  <2>3. \A x \in All : Holds(x)' => x = c \/ (x # p /\ Holds(x))
    BY <2>2 DEF ProcessTypeOK, Holds
  <2> QED
    BY <2>1, <2>3, TokenPassed
<1>4. ParentsWait'
  BY DEF ProcessTypeOK, ParentsWait, Loading, Running, ChildrenListed
<1>5. UpsAreForWaiters'
  BY DEF ProcessTypeOK, UpsAreForWaiters, ChildrenListed
<1>6. ChildrenListed'
  BY DEF ProcessTypeOK, ChildrenListed
<1>7. StatusKept'
  BY DEF ProcessTypeOK, StatusKept
<1>8. MainAlive'
  BY DEF ProcessTypeOK, MainAlive
<1> QED
  BY <1>2, <1>3, <1>4, <1>5, <1>6, <1>7, <1>8

\* Without a child nobody holds the token: process_execute never returns.
LEMMA NoThreadKeeps ==
  ASSUME ProcessInv, NEW p \in All, ExecNoThread(p)
  PROVE  ProcessInv'
<1> USE DEF ExecNoThread, At, Goto, Caller, ProcessInv
<1>1. ProcessTypeOK'
  BY DEF ProcessTypeOK, Labels
<1>2. OneHolder'
  <2>1. \A x \in All : Holds(x)' => Holds(x)
    BY DEF ProcessTypeOK, Holds, UpsAreForWaiters
  <2> QED
    BY <2>1 DEF OneHolder
<1>3. ParentsWait'
  BY DEF ProcessTypeOK, ParentsWait, Loading, Running, ChildrenListed,
     UpsAreForWaiters
<1>4. UpsAreForWaiters'
  BY DEF ProcessTypeOK, UpsAreForWaiters, ParentsWait, Running, ChildrenListed
<1>5. ChildrenListed'
  BY DEF ProcessTypeOK, ChildrenListed
<1>6. StatusKept'
  BY DEF ProcessTypeOK, StatusKept, ParentsWait, Running
<1>7. MainAlive'
  BY DEF ProcessTypeOK, MainAlive
<1> QED
  BY <1>1, <1>2, <1>3, <1>4, <1>5, <1>6, <1>7

\* The parent goes on with the token its child has left in load.
LEMMA ExecDownKeeps ==
  ASSUME ProcessInv, NEW p \in All, ExecDown(p)
  PROVE  ProcessInv'
<1> USE DEF ExecDown, At, Goto, Caller, ProcessInv
<1>1. /\ load[p] = 1 /\ child[p] \in Procs
      /\ \A c \in Procs : ~Loading(c)
  BY DEF UpsAreForWaiters, ProcessTypeOK, OneHolder, Holds, Loading
<1>2. ProcessTypeOK'
  BY <1>1 DEF ProcessTypeOK, Labels
<1>3. OneHolder'
  <2>1. Holds(p)
    BY <1>1 DEF Holds
  <2>2. \A x \in All : Holds(x)' => x = p \/ (x # p /\ Holds(x))
    BY <1>1 DEF ProcessTypeOK, Holds, ParentsWait, Running, Loading,
       UpsAreForWaiters, MainAlive
  <2> QED
    BY <2>1, <2>2, TokenPassed, <1>1
<1>4. ParentsWait'
  BY <1>1 DEF ProcessTypeOK, ParentsWait, Loading, Running, ChildrenListed,
     UpsAreForWaiters
<1>5. UpsAreForWaiters'
  BY <1>1 DEF ProcessTypeOK, UpsAreForWaiters, ParentsWait, Running,
     ChildrenListed
<1>6. ChildrenListed'
  BY <1>1 DEF ProcessTypeOK, ChildrenListed
<1>7. StatusKept'
  BY <1>1 DEF ProcessTypeOK, StatusKept, ParentsWait, Running
<1>8. MainAlive'
  BY <1>1 DEF ProcessTypeOK, MainAlive
<1> QED
  BY <1>2, <1>3, <1>4, <1>5, <1>6, <1>7, <1>8

\* The comparison with the last child touches nothing but the result.
LEMMA ExecReturnKeeps ==
  ASSUME ProcessInv, NEW p \in All, ExecReturn(p)
  PROVE  ProcessInv'
<1> USE DEF ExecReturn, At, Goto, Caller, ProcessInv
<1>1. ProcessTypeOK'
  <2>1. child[p] \in Procs
    BY DEF UpsAreForWaiters
  <2>2. eax' \in [All -> Procs \cup Codes \cup {0, TID_ERROR}]
    BY <2>1 DEF ProcessTypeOK
  <2>3. pc' \in [All -> Labels]
    BY DEF ProcessTypeOK, Labels
  <2> QED
    BY <2>2, <2>3 DEF ProcessTypeOK
<1>2. OneHolder'
  <2>1. Holds(p)
    BY DEF Holds
  <2>2. \A x \in All : Holds(x)' => x = p \/ (x # p /\ Holds(x))
    BY DEF ProcessTypeOK, Holds, ParentsWait, Running, Loading,
       UpsAreForWaiters, MainAlive
  <2> QED
    BY <2>1, <2>2, TokenPassed
<1>3. ParentsWait'
  BY DEF ProcessTypeOK, ParentsWait, Loading, Running, ChildrenListed,
     UpsAreForWaiters
<1>4. UpsAreForWaiters'
  BY DEF ProcessTypeOK, UpsAreForWaiters, ParentsWait, Running, ChildrenListed
<1>5. ChildrenListed'
  BY DEF ProcessTypeOK, ChildrenListed
<1>6. StatusKept'
  BY DEF ProcessTypeOK, StatusKept, ParentsWait, Running
<1>7. MainAlive'
  BY DEF ProcessTypeOK, MainAlive
<1> QED
  BY <1>1, <1>2, <1>3, <1>4, <1>5, <1>6, <1>7

\* Loading keeps the token.
LEMMA LoadKeeps ==
  ASSUME ProcessInv, NEW p \in All, Load(p)
  PROVE  ProcessInv'
<1> USE DEF Load, At, Goto, Caller, ProcessInv
<1>1. p \in Procs
  BY DEF MainAlive
<1>2. ProcessTypeOK'
  BY <1>1 DEF ProcessTypeOK, Labels
<1>3. OneHolder'
  <2>1. Holds(p)
    BY <1>1 DEF Holds
  <2>2. \A x \in All : Holds(x)' => x = p \/ (x # p /\ Holds(x))
    BY <1>1 DEF ProcessTypeOK, Holds, ParentsWait, Running, Loading,
       UpsAreForWaiters, MainAlive
  <2> QED
    BY <2>1, <2>2, TokenPassed, <1>1
<1>4. ParentsWait'
  BY <1>1 DEF ProcessTypeOK, ParentsWait, Loading, Running, ChildrenListed,
     UpsAreForWaiters
<1>5. UpsAreForWaiters'
  BY <1>1 DEF ProcessTypeOK, UpsAreForWaiters, ParentsWait, Running,
     ChildrenListed
<1>6. ChildrenListed'
  BY <1>1 DEF ProcessTypeOK, ChildrenListed
<1>7. StatusKept'
  BY <1>1 DEF ProcessTypeOK, StatusKept, ParentsWait, Running
<1>8. MainAlive'
  BY <1>1 DEF ProcessTypeOK, MainAlive
<1> QED
  BY <1>2, <1>3, <1>4, <1>5, <1>6, <1>7, <1>8

\* The child hands the token back to its parent, whether it has loaded or not.
LEMMA LoadUpKeeps ==
  ASSUME ProcessInv, NEW p \in All, LoadUp(p)
  PROVE  ProcessInv'
<1> USE DEF LoadUp, At, Goto, Caller, ProcessInv
<1>1. p \in Procs
  BY DEF MainAlive
<1>2. /\ parent[p] \in All /\ pc[parent[p]] = "exec_down" /\ child[parent[p]] = p
      /\ exec[p] = 0 /\ load[parent[p]] = 0
  BY <1>1 DEF ParentsWait, Loading, ProcessTypeOK, OneHolder, Holds,
     UpsAreForWaiters
<1>3. ProcessTypeOK'
  <2>1. load' \in [All -> 0..1]
    BY <1>2 DEF ProcessTypeOK
  <2>2. pc' \in [All -> Labels]
    BY DEF ProcessTypeOK, Labels
  <2> QED
    BY <2>1, <2>2 DEF ProcessTypeOK
<1>4. OneHolder'
  <2>1. Holds(p)
    BY <1>1, <1>2 DEF Holds
  <2>2. \A x \in All : Holds(x)' => x = parent[p] \/ (x # p /\ Holds(x))
    BY <1>1, <1>2 DEF ProcessTypeOK, Holds, ParentsWait, Running, Loading,
       UpsAreForWaiters, MainAlive
  <2> QED
    BY <2>1, <2>2, TokenPassed, <1>1, <1>2
<1>5. ParentsWait'
  BY <1>1, <1>2 DEF ProcessTypeOK, ParentsWait, Loading, Running,
     ChildrenListed, UpsAreForWaiters
<1>6. UpsAreForWaiters'
  BY <1>1, <1>2 DEF ProcessTypeOK, UpsAreForWaiters, ParentsWait, Running,
     ChildrenListed
<1>7. ChildrenListed'
  BY <1>1, <1>2 DEF ProcessTypeOK, ChildrenListed
<1>8. StatusKept'
  BY <1>1, <1>2 DEF ProcessTypeOK, StatusKept, ParentsWait, Running
<1>9. MainAlive'
  BY <1>1, <1>2 DEF ProcessTypeOK, MainAlive
<1> QED
  BY <1>3, <1>4, <1>5, <1>6, <1>7, <1>8, <1>9

\* The program starts with the token its parent has left in exec.
LEMMA StartKeeps ==
  ASSUME ProcessInv, NEW p \in All, Start(p)
  PROVE  ProcessInv'
<1> USE DEF Start, At, Goto, Caller, ProcessInv
<1>1. p \in Procs
  BY DEF MainAlive
<1>2. ProcessTypeOK'
  BY <1>1 DEF ProcessTypeOK, Labels
<1>3. OneHolder'
  <2>1. Holds(p)
    BY <1>1 DEF Holds
  <2>2. \A x \in All : Holds(x)' => x = p \/ (x # p /\ Holds(x))
    BY <1>1 DEF ProcessTypeOK, Holds, ParentsWait, Running, Loading,
       UpsAreForWaiters, MainAlive
  <2> QED
    BY <2>1, <2>2, TokenPassed, <1>1
<1>4. ParentsWait'
  BY <1>1 DEF ProcessTypeOK, ParentsWait, Loading, Running, ChildrenListed,
     UpsAreForWaiters
<1>5. UpsAreForWaiters'
  BY <1>1 DEF ProcessTypeOK, UpsAreForWaiters, ParentsWait, Running,
     ChildrenListed
<1>6. ChildrenListed'
  BY <1>1 DEF ProcessTypeOK, ChildrenListed
<1>7. StatusKept'
  BY <1>1 DEF ProcessTypeOK, StatusKept, ParentsWait, Running
<1>8. MainAlive'
  BY <1>1 DEF ProcessTypeOK, MainAlive
<1> QED
  BY <1>2, <1>3, <1>4, <1>5, <1>6, <1>7, <1>8

----------------------------------------------------------------------------
(* process_wait *)

\* process_wait finds a child of its caller, or returns -1.
LEMMA WaitKeeps ==
  ASSUME ProcessInv, NEW p \in All, Wait(p)
  PROVE  ProcessInv'
<1> USE DEF ProcessInv
<1>1. \A c \in Procs \cup {TID_ERROR} :
        Contains(childList[p], c) => c \in Procs /\ parent[c] = p
  BY DEF Contains, ProcessTypeOK, ChildrenListed
<1>2. PICK c \in Procs \cup {TID_ERROR} :
        \/ /\ Contains(childList[p], c)
           /\ child' = [child EXCEPT ![p] = c]
           /\ pc' = [pc EXCEPT ![p] = "wait_up"]
           /\ eax' = eax
        \/ /\ child' = child
           /\ pc' = [pc EXCEPT ![p] = Caller(p)]
           /\ eax' = [eax EXCEPT ![p] = -1]
  BY DEF Wait, Goto
<1>3. pc[p] = IF p = Main THEN "main_wait" ELSE "user"
  BY DEF Wait, MayAwait, At
<1>4. UNCHANGED <<parent, childList, load, exec, wait, exit_status, code>>
  BY DEF Wait
<1>5. load[p] = 0 /\ wait[p] = 0
  <2>1. load[p] \in 0..1 /\ wait[p] \in 0..1
    BY DEF ProcessTypeOK
  <2> QED
    BY <1>3, <2>1 DEF UpsAreForWaiters
<1>6. CASE /\ Contains(childList[p], c)
           /\ child' = [child EXCEPT ![p] = c]
           /\ pc' = [pc EXCEPT ![p] = "wait_up"]
           /\ eax' = eax
  <2> USE <1>3, <1>4, <1>6
  <2>1. c \in Procs /\ parent[c] = p
    BY <1>1
  <2>2. ProcessTypeOK'
    BY <2>1, <1>5 DEF ProcessTypeOK, Labels
  <2>3. OneHolder'
    <3>1. Holds(p)
      BY DEF Holds
    <3>2. \A x \in All : Holds(x)' => x = p \/ (x # p /\ Holds(x))
      BY DEF ProcessTypeOK, Holds
    <3> QED
      BY <3>1, <3>2, TokenPassed
  <2>4. ParentsWait'
    BY <2>1, <1>5 DEF ProcessTypeOK, ParentsWait, Loading, Running,
       ChildrenListed, UpsAreForWaiters
  <2>5. UpsAreForWaiters'
    BY <2>1, <1>5 DEF ProcessTypeOK, UpsAreForWaiters, ParentsWait, Running,
       ChildrenListed
  <2>6. ChildrenListed'
    BY <2>1, <1>5 DEF ProcessTypeOK, ChildrenListed
  <2>7. StatusKept'
    BY <2>1, <1>5 DEF ProcessTypeOK, StatusKept, ParentsWait, Running
  <2>8. MainAlive'
    BY <2>1, <1>5 DEF ProcessTypeOK, MainAlive
  <2> QED
    BY <2>2, <2>3, <2>4, <2>5, <2>6, <2>7, <2>8
<1>7. CASE /\ child' = child
           /\ pc' = [pc EXCEPT ![p] = Caller(p)]
           /\ eax' = [eax EXCEPT ![p] = -1]
  <2> USE <1>3, <1>4, <1>7 DEF Caller
  <2>1. -1 \in Codes
    BY ProcessAssumption
  <2>2. ProcessTypeOK'
    BY <2>1, <1>5 DEF ProcessTypeOK, Labels
  <2>3. OneHolder'
    <3>1. Holds(p)
      BY DEF Holds
    <3>2. \A x \in All : Holds(x)' => x = p \/ (x # p /\ Holds(x))
      BY DEF ProcessTypeOK, Holds
    <3> QED
      BY <3>1, <3>2, TokenPassed
  <2>4. ParentsWait'
    BY <2>1, <1>5 DEF ProcessTypeOK, ParentsWait, Loading, Running,
       ChildrenListed, UpsAreForWaiters
  <2>5. UpsAreForWaiters'
    BY <2>1, <1>5 DEF ProcessTypeOK, UpsAreForWaiters, ParentsWait, Running,
       ChildrenListed
  <2>6. ChildrenListed'
    BY <2>1, <1>5 DEF ProcessTypeOK, ChildrenListed
  <2>7. StatusKept'
    BY <2>1, <1>5 DEF ProcessTypeOK, StatusKept, ParentsWait, Running
  <2>8. MainAlive'
    BY <2>1, <1>5 DEF ProcessTypeOK, MainAlive
  <2> QED
    BY <2>2, <2>3, <2>4, <2>5, <2>6, <2>7, <2>8
<1> QED
  BY <1>2, <1>6, <1>7

\* The parent hands the token to its child, if that can take it.
LEMMA WaitUpKeeps ==
  ASSUME ProcessInv, NEW p \in All, WaitUp(p)
  PROVE  ProcessInv'
<1> USE DEF WaitUp, At, Goto, Caller, ProcessInv
<1>1. child[p] \in Procs /\ parent[child[p]] = p /\ exec[child[p]] = 0 /\ wait[p] = 0
  BY DEF UpsAreForWaiters, ParentsWait, ProcessTypeOK
<1>2. ProcessTypeOK'
  BY <1>1 DEF ProcessTypeOK, Labels
<1>3. OneHolder'
  <2>1. Holds(p)
    BY <1>1 DEF Holds
  <2>2. \A x \in All : Holds(x)' => x = child[p] \/ (x # p /\ Holds(x))
    BY <1>1 DEF ProcessTypeOK, Holds, ParentsWait, Running, Loading,
       UpsAreForWaiters, MainAlive
  <2> QED
    BY <2>1, <2>2, TokenPassed, <1>1
<1>4. ParentsWait'
  BY <1>1 DEF ProcessTypeOK, ParentsWait, Loading, Running, ChildrenListed,
     UpsAreForWaiters
<1>5. UpsAreForWaiters'
  <2>1. \A x \in All : x # p =>
          (wait[x] > 0 \/ pc[x] = "wait_status" => child[x] # child[p])
    BY <1>1 DEF UpsAreForWaiters, ParentsWait, ProcessTypeOK
  <2> QED
    BY <1>1, <2>1 DEF ProcessTypeOK, UpsAreForWaiters
<1>6. ChildrenListed'
  BY <1>1 DEF ProcessTypeOK, ChildrenListed
<1>7. StatusKept'
  BY <1>1 DEF ProcessTypeOK, StatusKept, ParentsWait, Running
<1>8. MainAlive'
  BY <1>1 DEF ProcessTypeOK, MainAlive
<1> QED
  BY <1>2, <1>3, <1>4, <1>5, <1>6, <1>7, <1>8

\* The parent goes on with the token its child has left in wait.
LEMMA WaitDownKeeps ==
  ASSUME ProcessInv, NEW p \in All, WaitDown(p)
  PROVE  ProcessInv'
<1> USE DEF WaitDown, At, Goto, Caller, ProcessInv
<1>1. /\ wait[p] = 1 /\ child[p] \in Procs
      /\ pc[child[p]] \in {"exit", "dead"} /\ exec[child[p]] = 0
      /\ exit_status[p] = code[child[p]]
  BY DEF UpsAreForWaiters, ProcessTypeOK
<1>2. \A c \in Procs : parent[c] = p => ~Running(c) /\ exec[c] = 0
  <2> TAKE c \in Procs
  <2>1. Running(c) \/ exec[c] > 0 => pc[parent[c]] = "wait_down" /\ child[parent[c]] = c
    BY DEF ParentsWait
  <2>2. exec[c] \in 0..1
    BY DEF ProcessTypeOK
  <2> QED
    BY <1>1, <2>1, <2>2 DEF Running
<1>3. ProcessTypeOK'
  BY <1>1, <1>2 DEF ProcessTypeOK, Labels
<1>4. OneHolder'
  <2>1. Holds(p)
    BY <1>1, <1>2 DEF Holds
  <2>2. \A x \in All : Holds(x)' => x = p \/ (x # p /\ Holds(x))
    BY <1>1, <1>2 DEF ProcessTypeOK, Holds, ParentsWait, Running, Loading,
       UpsAreForWaiters, MainAlive
  <2> QED
    BY <2>1, <2>2, TokenPassed, <1>1, <1>2
<1>5. ParentsWait'
  BY <1>1, <1>2 DEF ProcessTypeOK, ParentsWait, Loading, Running,
     ChildrenListed, UpsAreForWaiters
<1>6. UpsAreForWaiters'
  BY <1>1, <1>2 DEF ProcessTypeOK, UpsAreForWaiters, ParentsWait, Running,
     ChildrenListed
<1>7. ChildrenListed'
  BY <1>1, <1>2 DEF ProcessTypeOK, ChildrenListed
<1>8. StatusKept'
  BY <1>1, <1>2 DEF ProcessTypeOK, StatusKept, ParentsWait, Running
<1>9. MainAlive'
  BY <1>1, <1>2 DEF ProcessTypeOK, MainAlive
<1> QED
  BY <1>3, <1>4, <1>5, <1>6, <1>7, <1>8, <1>9

\* Reading the status keeps the token.
LEMMA WaitReturnKeeps ==
  ASSUME ProcessInv, NEW p \in All, WaitReturn(p)
  PROVE  ProcessInv'
<1> USE DEF WaitReturn, At, Goto, Caller, ProcessInv
<1>1. ProcessTypeOK'
  BY DEF ProcessTypeOK, Labels
<1>2. OneHolder'
  <2>1. Holds(p)
    BY DEF Holds
  <2>2. \A x \in All : Holds(x)' => x = p \/ (x # p /\ Holds(x))
    BY DEF ProcessTypeOK, Holds, ParentsWait, Running, Loading,
       UpsAreForWaiters, MainAlive
  <2> QED
    BY <2>1, <2>2, TokenPassed
<1>3. ParentsWait'
  BY DEF ProcessTypeOK, ParentsWait, Loading, Running, ChildrenListed,
     UpsAreForWaiters
<1>4. UpsAreForWaiters'
  BY DEF ProcessTypeOK, UpsAreForWaiters, ParentsWait, Running, ChildrenListed
<1>5. ChildrenListed'
  BY DEF ProcessTypeOK, ChildrenListed
<1>6. StatusKept'
  BY DEF ProcessTypeOK, StatusKept, ParentsWait, Running
<1>7. MainAlive'
  BY DEF ProcessTypeOK, MainAlive
<1> QED
  BY <1>1, <1>2, <1>3, <1>4, <1>5, <1>6, <1>7

----------------------------------------------------------------------------
(* syscall_exit, kill and thread_exit *)

\* An exiting process reports to the parent that waits for it.
LEMMA ExitKeeps ==
  ASSUME ProcessInv, NEW p \in All, Exit(p)
  PROVE  ProcessInv'
<1> USE DEF Exit, At, Goto, Caller, ProcessInv
<1>1. p \in Procs /\ parent[p] \in All
  BY DEF ParentsWait, ProcessTypeOK
<1>2. ProcessTypeOK'
  BY <1>1 DEF ProcessTypeOK, Labels
<1>3. OneHolder'
  <2>1. Holds(p)
    BY <1>1 DEF Holds
  <2>2. \A x \in All : Holds(x)' => x = p \/ (x # p /\ Holds(x))
    BY <1>1 DEF ProcessTypeOK, Holds, ParentsWait, Running, Loading,
       UpsAreForWaiters, MainAlive
  <2> QED
    BY <2>1, <2>2, TokenPassed, <1>1
<1>4. ParentsWait'
  BY <1>1 DEF ProcessTypeOK, ParentsWait, Loading, Running, ChildrenListed,
     UpsAreForWaiters
<1>5. UpsAreForWaiters'
  BY <1>1 DEF ProcessTypeOK, UpsAreForWaiters, ParentsWait, Running,
     ChildrenListed
<1>6. ChildrenListed'
  BY <1>1 DEF ProcessTypeOK, ChildrenListed
<1>7. StatusKept'
  BY <1>1 DEF ProcessTypeOK, StatusKept, ParentsWait, Running
<1>8. MainAlive'
  BY <1>1 DEF ProcessTypeOK, MainAlive
<1> QED
  BY <1>2, <1>3, <1>4, <1>5, <1>6, <1>7, <1>8

\* Closing the files keeps the token.
LEMMA ExitCloseKeeps ==
  ASSUME ProcessInv, NEW p \in All, ExitClose(p)
  PROVE  ProcessInv'
<1> USE DEF ExitClose, At, Goto, Caller, ProcessInv
<1>1. p \in Procs
  BY DEF MainAlive
<1>2. ProcessTypeOK'
  BY <1>1 DEF ProcessTypeOK, Labels
<1>3. OneHolder'
  <2>1. Holds(p)
    BY <1>1 DEF Holds
  <2>2. \A x \in All : Holds(x)' => x = p \/ (x # p /\ Holds(x))
    BY <1>1 DEF ProcessTypeOK, Holds, ParentsWait, Running, Loading,
       UpsAreForWaiters, MainAlive
  <2> QED
    BY <2>1, <2>2, TokenPassed, <1>1
<1>4. ParentsWait'
  BY <1>1 DEF ProcessTypeOK, ParentsWait, Loading, Running, ChildrenListed,
     UpsAreForWaiters
<1>5. UpsAreForWaiters'
  BY <1>1 DEF ProcessTypeOK, UpsAreForWaiters, ParentsWait, Running,
     ChildrenListed
<1>6. ChildrenListed'
  BY <1>1 DEF ProcessTypeOK, ChildrenListed
<1>7. StatusKept'
  BY <1>1 DEF ProcessTypeOK, StatusKept, ParentsWait, Running
<1>8. MainAlive'
  BY <1>1 DEF ProcessTypeOK, MainAlive
<1> QED
  BY <1>2, <1>3, <1>4, <1>5, <1>6, <1>7, <1>8

\* An exited process hands the token back to its parent.
LEMMA ExitUpKeeps ==
  ASSUME ProcessInv, NEW p \in All, ExitUp(p)
  PROVE  ProcessInv'
<1> USE DEF ExitUp, At, Goto, Caller, ProcessInv
<1>1. p \in Procs
  BY DEF MainAlive
<1>2. /\ parent[p] \in All /\ pc[parent[p]] = "wait_down" /\ child[parent[p]] = p
      /\ exec[p] = 0
  BY <1>1 DEF ParentsWait, Running
<1>3. wait[parent[p]] = 0
  <2>1. wait[parent[p]] \in 0..1
    BY <1>2 DEF ProcessTypeOK
  <2>2. wait[parent[p]] > 0 => pc[child[parent[p]]] \in {"exit", "dead"}
    BY <1>2 DEF UpsAreForWaiters
  <2> QED
    BY <1>2, <2>1, <2>2
<1>4. ProcessTypeOK'
  BY <1>1, <1>2, <1>3 DEF ProcessTypeOK, Labels
<1>5. OneHolder'
  <2>1. Holds(p)
    BY <1>1, <1>2, <1>3 DEF Holds
  <2>2. \A x \in All : Holds(x)' => x = parent[p] \/ (x # p /\ Holds(x))
    BY <1>1, <1>2, <1>3 DEF ProcessTypeOK, Holds, ParentsWait, Running,
       Loading, UpsAreForWaiters, MainAlive
  <2> QED
    BY <2>1, <2>2, TokenPassed, <1>1, <1>2, <1>3
<1>6. ParentsWait'
  BY <1>1, <1>2, <1>3 DEF ProcessTypeOK, ParentsWait, Loading, Running,
     ChildrenListed, UpsAreForWaiters
<1>7. UpsAreForWaiters'
  <2>1. exit_status[parent[p]] = code[p]
    BY <1>1 DEF StatusKept
  <2>2. p # parent[p]
    BY <1>2
  <2> QED
    BY <1>1, <1>2, <1>3, <2>1, <2>2 DEF ProcessTypeOK, UpsAreForWaiters
<1>8. ChildrenListed'
  BY <1>1, <1>2, <1>3 DEF ProcessTypeOK, ChildrenListed
<1>9. StatusKept'
  BY <1>1, <1>2, <1>3 DEF ProcessTypeOK, StatusKept, ParentsWait, Running
<1>10. MainAlive'
  BY <1>1, <1>2, <1>3 DEF ProcessTypeOK, MainAlive
<1> QED
  BY <1>4, <1>5, <1>6, <1>7, <1>8, <1>9, <1>10

\* A killed process takes the token with it.
LEMMA KillKeeps ==
  ASSUME ProcessInv, NEW p \in All, Kill(p)
  PROVE  ProcessInv'
<1> USE DEF Kill, At, Goto, Caller, ProcessInv
<1>1. ProcessTypeOK'
  BY DEF ProcessTypeOK, Labels
<1>2. OneHolder'
  <2>1. \A x \in All : Holds(x)' => Holds(x)
    BY DEF ProcessTypeOK, Holds, UpsAreForWaiters
  <2> QED
    BY <2>1 DEF OneHolder
<1>3. ParentsWait'
  BY DEF ProcessTypeOK, ParentsWait, Loading, Running, ChildrenListed,
     UpsAreForWaiters
<1>4. UpsAreForWaiters'
  BY DEF ProcessTypeOK, UpsAreForWaiters, ParentsWait, Running, ChildrenListed
<1>5. ChildrenListed'
  BY DEF ProcessTypeOK, ChildrenListed
<1>6. StatusKept'
  BY DEF ProcessTypeOK, StatusKept, ParentsWait, Running
<1>7. MainAlive'
  BY DEF ProcessTypeOK, MainAlive
<1> QED
  BY <1>1, <1>2, <1>3, <1>4, <1>5, <1>6, <1>7

\* A thread that exits no longer holds the token.
LEMMA ThreadExitKeeps ==
  ASSUME ProcessInv, NEW p \in All, ThreadExit(p)
  PROVE  ProcessInv'
<1> USE DEF ThreadExit, At, Goto, Caller, ProcessInv
<1>1. ProcessTypeOK'
  BY DEF ProcessTypeOK, Labels
<1>2. OneHolder'
  <2>1. \A x \in All : Holds(x)' => Holds(x)
    BY DEF ProcessTypeOK, Holds, UpsAreForWaiters
  <2> QED
    BY <2>1 DEF OneHolder
<1>3. ParentsWait'
  BY DEF ProcessTypeOK, ParentsWait, Loading, Running, ChildrenListed,
     UpsAreForWaiters
<1>4. UpsAreForWaiters'
  BY DEF ProcessTypeOK, UpsAreForWaiters, ParentsWait, Running, ChildrenListed
<1>5. ChildrenListed'
  BY DEF ProcessTypeOK, ChildrenListed
<1>6. StatusKept'
  BY DEF ProcessTypeOK, StatusKept, ParentsWait, Running
<1>7. MainAlive'
  BY DEF ProcessTypeOK, MainAlive
<1> QED
  BY <1>1, <1>2, <1>3, <1>4, <1>5, <1>6, <1>7

----------------------------------------------------------------------------
(* list_remove, and the calls that fail *)

\* Leaving the list of its parent, a process leaves it a list of children.
LEMMA Unlinked ==
  ASSUME ProcessInv, NEW c \in Procs, parent[c] \in All, Unlink(c)
  PROVE  /\ childList' \in [All -> Seq(Procs)]
         /\ \A x \in All : \A i \in 1..Len(childList'[x]) :
              parent[childList'[x][i]] = x
<1> DEFINE list == childList[parent[c]]
<1>1. childList \in [All -> Seq(Procs)] /\ list \in Seq(Procs)
  BY DEF ProcessInv, ProcessTypeOK
<1>2. PICK i \in DOMAIN list :
        childList' = [childList EXCEPT ![parent[c]] = RemoveAt(list, i)]
  BY <1>1 DEF Unlink
<1>3. /\ RemoveAt(list, i) \in Seq(Procs)
      /\ \A j \in 1..Len(RemoveAt(list, i)) :
           \E k \in 1..Len(list) : RemoveAt(list, i)[j] = list[k]
  BY <1>1, ChildRemoved
<1>4. \A x \in All : \A k \in 1..Len(childList[x]) : parent[childList[x][k]] = x
  BY DEF ProcessInv, ChildrenListed
<1>5. childList' \in [All -> Seq(Procs)]
  BY <1>1, <1>2, <1>3
<1>6. ASSUME NEW x \in All, NEW j \in 1..Len(childList'[x])
      PROVE  parent[childList'[x][j]] = x
  <2>1. CASE x = parent[c]
    <3>1. childList'[x] = RemoveAt(list, i)
      BY <1>1, <1>2, <2>1
    <3>2. PICK k \in 1..Len(list) : RemoveAt(list, i)[j] = list[k]
      BY <1>3, <1>6, <3>1
    <3> QED
      BY <1>4, <2>1, <3>1, <3>2
  <2>2. CASE x # parent[c]
    BY <1>1, <1>2, <1>4, <1>6, <2>2
  <2> QED
    BY <2>1, <2>2
<1> QED
  BY <1>5, <1>6

\* A process that failed to load leaves its parent's list without the token.
LEMMA FailRemoveKeeps ==
  ASSUME ProcessInv, NEW p \in All, FailRemove(p)
  PROVE  ProcessInv'
<1> USE DEF ProcessInv
<1>1. p \in Procs /\ parent[p] \in All
  BY DEF FailRemove, At, MainAlive, ParentsWait
<1>2. /\ pc[p] = "remove"
      /\ pc' = [pc EXCEPT ![p] = "exit"]
      /\ UNCHANGED <<parent, load, exec, wait, exit_status, child, code, eax>>
  BY DEF FailRemove, At, Goto
<1>3. childList' \in [All -> Seq(Procs)]
      /\ \A x \in All : \A i \in 1..Len(childList'[x]) : parent[childList'[x][i]] = x
  BY <1>1, Unlinked DEF FailRemove
<1> USE <1>1, <1>2
<1>4. ProcessTypeOK'
  BY <1>3 DEF ProcessTypeOK, Labels
<1>5. OneHolder'
  <2>1. \A x \in All : Holds(x)' => Holds(x)
    BY DEF ProcessTypeOK, Holds
  <2> QED
    BY <2>1 DEF OneHolder
<1>6. ParentsWait'
  BY DEF ProcessTypeOK, ParentsWait, Loading, Running, ChildrenListed,
     UpsAreForWaiters
<1>7. UpsAreForWaiters'
  BY DEF ProcessTypeOK, UpsAreForWaiters, ParentsWait, Running, ChildrenListed
<1>8. ChildrenListed'
  BY <1>3 DEF ProcessTypeOK, ChildrenListed
<1>9. StatusKept'
  BY DEF ProcessTypeOK, StatusKept, ParentsWait, Running
<1>10. MainAlive'
  BY DEF ProcessTypeOK, MainAlive
<1> QED
  BY <1>4, <1>5, <1>6, <1>7, <1>8, <1>9, <1>10

\* A process that exits leaves its parent's list with it.
LEMMA ExitRemoveKeeps ==
  ASSUME ProcessInv, NEW p \in All, ExitRemove(p)
  PROVE  ProcessInv'
<1> USE DEF ProcessInv
<1>1. p \in Procs /\ parent[p] \in All
  BY DEF ExitRemove, At, MainAlive, ParentsWait
<1>2. /\ pc[p] = "exit_remove"
      /\ pc' = [pc EXCEPT ![p] = "exit_close"]
      /\ UNCHANGED <<parent, load, exec, wait, exit_status, child, code, eax>>
  BY DEF ExitRemove, At, Goto
<1>3. childList' \in [All -> Seq(Procs)]
      /\ \A x \in All : \A i \in 1..Len(childList'[x]) : parent[childList'[x][i]] = x
  BY <1>1, Unlinked DEF ExitRemove
<1> USE <1>1, <1>2
<1>4. ProcessTypeOK'
  BY <1>3 DEF ProcessTypeOK, Labels
<1>5. OneHolder'
  <2>1. Holds(p)
    BY DEF Holds
  <2>2. \A x \in All : Holds(x)' => x = p \/ (x # p /\ Holds(x))
    BY DEF ProcessTypeOK, Holds
  <2> QED
    BY <2>1, <2>2, TokenPassed
<1>6. ParentsWait'
  BY DEF ProcessTypeOK, ParentsWait, Loading, Running, ChildrenListed,
     UpsAreForWaiters
<1>7. UpsAreForWaiters'
  BY DEF ProcessTypeOK, UpsAreForWaiters, ParentsWait, Running, ChildrenListed
<1>8. ChildrenListed'
  BY <1>3 DEF ProcessTypeOK, ChildrenListed
<1>9. StatusKept'
  BY DEF ProcessTypeOK, StatusKept, ParentsWait, Running
<1>10. MainAlive'
  BY DEF ProcessTypeOK, MainAlive
<1> QED
  BY <1>4, <1>5, <1>6, <1>7, <1>8, <1>9, <1>10

\* A child without a file descriptor table never gets the token.
LEMMA NoTableKeeps ==
  ASSUME ProcessInv, NEW p \in All, ExecNoTable(p) PROVE ProcessInv'
<1>1. PICK c \in Procs : Create(p, c, "unborn", Null)
  BY DEF ExecNoTable
<1> USE <1>1 DEF Create, At, Caller, ProcessInv
<1>2. ProcessTypeOK'
  <2>1. Append(childList[p], c) \in Seq(Procs)
    BY DEF ProcessTypeOK
  <2>2. childList' \in [All -> Seq(Procs)]
    BY <2>1 DEF ProcessTypeOK
  <2>3. pc' \in [All -> Labels]
    BY DEF ProcessTypeOK, Labels
  <2>4. parent' \in [Procs -> All \cup {Null}]
    BY DEF ProcessTypeOK
  <2>5. child' \in [All -> Procs \cup {Null}]
    BY DEF ProcessTypeOK
  <2> QED
    BY <2>2, <2>3, <2>4, <2>5 DEF ProcessTypeOK
<1>3. OneHolder'
  <2>1. load[p] = 0
    BY SMTT(30) DEF ProcessTypeOK, UpsAreForWaiters
  <2>2. \A x \in All : Holds(x)' => Holds(x)
    BY <2>1 DEF ProcessTypeOK, Holds
  <2> QED
    BY <2>2 DEF OneHolder
<1>4. ParentsWait'
  BY DEF ProcessTypeOK, ParentsWait, Loading, Running, ChildrenListed
<1>5. UpsAreForWaiters'
  <2>1. load[p] = 0 /\ wait[p] = 0
    <3>1. load[p] \in 0..1 /\ wait[p] \in 0..1
      BY DEF ProcessTypeOK
    <3> QED
      BY <3>1 DEF UpsAreForWaiters
  <2> QED
    BY <2>1 DEF ProcessTypeOK, UpsAreForWaiters, ChildrenListed
<1>6. ChildrenListed'
  BY DEF ProcessTypeOK, ChildrenListed
<1>7. StatusKept'
  BY DEF ProcessTypeOK, StatusKept
<1>8. MainAlive'
  BY DEF ProcessTypeOK, MainAlive
<1> QED
  BY <1>2, <1>3, <1>4, <1>5, <1>6, <1>7, <1>8

\* A call that fails at once changes nothing but its result.
LEMMA NoPageKeeps ==
  ASSUME ProcessInv, NEW p \in All, ExecNoPage(p)
  PROVE  ProcessInv'
  BY DEF ExecNoPage, ProcessInv, ProcessTypeOK, OneHolder, Holds, ParentsWait,
     Loading, Running, UpsAreForWaiters, ChildrenListed, StatusKept, MainAlive

\* The invariant only depends on the variables.
LEMMA StutterKeeps ==
  ASSUME ProcessInv, UNCHANGED vars
  PROVE  ProcessInv'
  BY DEF vars, ProcessInv, ProcessTypeOK, OneHolder, Holds, ParentsWait,
     Loading, Running, UpsAreForWaiters, ChildrenListed, StatusKept, MainAlive

----------------------------------------------------------------------------
(* The theorems *)

\* The invariant is inductive: every action of ProcessNext preserves it.
THEOREM ProcessInvariant == ProcessSpec => []ProcessInv
<1>1. ProcessInit => ProcessInv
  BY ProcessInitially
<1>2. ProcessInv /\ [ProcessNext]_vars => ProcessInv'
  <2> SUFFICES ASSUME ProcessInv, [ProcessNext]_vars PROVE ProcessInv'
    OBVIOUS
  <2>1. CASE UNCHANGED vars
    BY <2>1, StutterKeeps
  <2>2. ASSUME NEW p \in All, Choice(p) PROVE ProcessInv'
    BY <2>2, NoPageKeeps, NoThreadKeeps, NoTableKeeps, ExecKeeps, WaitKeeps,
       ExitKeeps, KillKeeps DEF Choice
  <2>3. ASSUME NEW p \in All, KernelStep(p) PROVE ProcessInv'
    BY <2>3, ExecDownKeeps, ExecReturnKeeps, LoadKeeps, LoadUpKeeps,
       FailRemoveKeeps, StartKeeps, WaitUpKeeps, WaitDownKeeps,
       WaitReturnKeeps, ExitRemoveKeeps, ExitCloseKeeps, ExitUpKeeps,
       ThreadExitKeeps DEF KernelStep
  <2> QED
    BY <2>1, <2>2, <2>3 DEF ProcessNext
<1> QED
  BY <1>1, <1>2, PTL DEF ProcessSpec

\* The type invariant: in particular no semaphore is ever upped twice before
\* its owner takes it, and process_execute and process_wait always have a child.
THEOREM ProcessTypeCorrect == ProcessSpec => []ProcessTypeOK
  BY ProcessInvariant, PTL DEF ProcessInv

\* At most one thread at a time is inside the file system, which has no locks:
\* every place of InFilesys is one of the token's.
THEOREM FilesysExclusive == ProcessSpec => []OneInFilesys
<1>1. ProcessInv => OneInFilesys
  BY DEF ProcessInv, OneHolder, Holds, OneInFilesys, InFilesys
<1> QED
  BY <1>1, ProcessInvariant, PTL

\* process_wait returns the status its own child passed to exit.
THEOREM WaitStatusCorrect == ProcessSpec => []WaitReturnsStatus
<1>1. ProcessInv => WaitReturnsStatus
  BY DEF ProcessInv, UpsAreForWaiters, WaitReturnsStatus, At
<1> QED
  BY <1>1, ProcessInvariant, PTL

----------------------------------------------------------------------------
(* Who is linked in a list of children *)

ListedOnce ==
  \A p \in All : \A i, j \in 1..Len(childList[p]) :
    i # j => childList[p][i] # childList[p][j]

\* A process leaves its parent's list before it closes its files; one that was
\* killed stays there, and its parent waits for it for ever.
KilledAwaited ==
  \A p \in All, c \in Procs : Contains(childList[p], c) =>
    /\ pc[c] \notin {"exit_close", "exit_up"}
    /\ pc[c] \in {"exit", "dead"} =>
         pc[p] = "wait_down" /\ child[p] = c /\ wait[p] = 0

LinksInv == ProcessInv /\ ListedOnce /\ KilledAwaited

\* Removing the only link of c from a list, and no other.
LEMMA LinkRemoved ==
  ASSUME NEW list \in Seq(Procs), NEW i \in DOMAIN list, NEW c, list[i] = c,
         \A j, k \in 1..Len(list) : j # k => list[j] # list[k]
  PROVE  /\ \A d : Contains(RemoveAt(list, i), d) <=> Contains(list, d) /\ d # c
         /\ \A j, k \in 1..Len(RemoveAt(list, i)) :
              j # k => RemoveAt(list, i)[j] # RemoveAt(list, i)[k]
<1> DEFINE n == Len(list)
           front == SubSeq(list, 1, i - 1)
           back == SubSeq(list, i + 1, n)
           res == RemoveAt(list, i)
<1>1. n \in Nat /\ i \in 1..n
  OBVIOUS
<1>2. front \in Seq(Procs) /\ Len(front) = i - 1
  /\ \A j \in 1..(i - 1) : front[j] = list[j]
  BY <1>1
<1>3. back \in Seq(Procs) /\ Len(back) = n - i
  /\ \A j \in 1..(n - i) : back[j] = list[i + j]
  BY <1>1
<1> HIDE DEF front, back
<1>4. /\ front \o back \in Seq(Procs) /\ Len(front \o back) = n - 1
      /\ \A j \in 1..(n - 1) :
           (front \o back)[j] = IF j <= i - 1 THEN front[j] ELSE back[j - (i - 1)]
  BY <1>1, <1>2, <1>3
<1>5. res = front \o back
  BY DEF RemoveAt, front, back
<1>6. Len(res) = n - 1 /\ \A j \in 1..(n - 1) :
        res[j] = IF j <= i - 1 THEN list[j] ELSE list[j + 1]
  <2> SUFFICES ASSUME NEW j \in 1..(n - 1)
               PROVE  res[j] = IF j <= i - 1 THEN list[j] ELSE list[j + 1]
    BY <1>4, <1>5
  <2>1. CASE j <= i - 1
    BY <2>1, <1>1, <1>2, <1>4, <1>5
  <2>2. CASE ~(j <= i - 1)
    <3>1. j - (i - 1) \in 1..(n - i) /\ i + (j - (i - 1)) = j + 1
      BY <2>2, <1>1
    <3>2. res[j] = back[j - (i - 1)]
      BY <2>2, <1>4, <1>5
    <3> QED
      BY <2>2, <3>1, <3>2, <1>3
  <2> QED
    BY <2>1, <2>2
<1> HIDE DEF res, n
<1>7. ASSUME NEW j \in 1..n - 1, NEW k \in 1..n - 1, j # k PROVE res[j] # res[k]
  <2> DEFINE at(m) == IF m <= i - 1 THEN m ELSE m + 1
  <2>1. at(j) \in 1..n /\ at(k) \in 1..n /\ at(j) # at(k)
    BY <1>1, <1>7
  <2>2. res[j] = list[at(j)] /\ res[k] = list[at(k)]
    BY <1>6, <1>7
  <2> QED
    BY <2>1, <2>2 DEF n
<1>8. ASSUME NEW d, Contains(res, d) PROVE Contains(list, d) /\ d # c
  <2>1. PICK j \in 1..n - 1 : res[j] = d
    BY <1>6, <1>8 DEF Contains
  <2> DEFINE m == IF j <= i - 1 THEN j ELSE j + 1
  <2>2. m \in 1..n /\ m # i /\ d = list[m]
    BY <1>1, <1>6, <2>1
  <2> QED
    BY <1>1, <2>2 DEF Contains, n
<1>9. ASSUME NEW d, Contains(list, d), d # c PROVE Contains(res, d)
  <2>1. PICK m \in 1..n : list[m] = d /\ m # i
    BY <1>9 DEF Contains, n
  <2> DEFINE j == IF m <= i - 1 THEN m ELSE m - 1
  <2>2. j \in 1..n - 1 /\ res[j] = d
    BY <1>1, <1>6, <2>1
  <2> QED
    BY <1>6, <2>2 DEF Contains
<1> QED
  BY <1>6, <1>7, <1>8, <1>9 DEF res

\* list_remove: the process leaves the one list it is in.
LEMMA UnlinkLinks ==
  ASSUME LinksInv, NEW c \in Procs, parent[c] \in All, Unlink(c)
  PROVE  /\ ListedOnce'
         /\ \A p \in All, d \in Procs :
              Contains(childList'[p], d) <=> Contains(childList[p], d) /\ d # c
<1> DEFINE p == parent[c]
           list == childList[p]
<1>1. childList \in [All -> Seq(Procs)] /\ list \in Seq(Procs)
  BY DEF LinksInv, ProcessInv, ProcessTypeOK
<1>2. PICK i \in DOMAIN list : /\ list[i] = c
                               /\ childList' = [childList EXCEPT ![p] = RemoveAt(list, i)]
  BY DEF Unlink
<1>3. \A j, k \in 1..Len(list) : j # k => list[j] # list[k]
  BY DEF LinksInv, ListedOnce
<1>4. /\ \A d : Contains(RemoveAt(list, i), d) <=> Contains(list, d) /\ d # c
      /\ \A j, k \in 1..Len(RemoveAt(list, i)) :
           j # k => RemoveAt(list, i)[j] # RemoveAt(list, i)[k]
  <2> HIDE DEF list
  <2> QED
    BY <1>1, <1>2, <1>3, LinkRemoved
<1>5. childList'[p] = RemoveAt(list, i) /\ \A q \in All : q # p => childList'[q] = childList[q]
  BY <1>1, <1>2
<1>6. ListedOnce'
  BY <1>4, <1>5 DEF LinksInv, ListedOnce
<1>7. \A q \in All : q # p => ~Contains(childList[q], c)
  BY <1>1 DEF LinksInv, ProcessInv, ChildrenListed, Contains
<1> QED
  BY <1>4, <1>5, <1>6, <1>7

\* Only killed threads, and those whose loading failed, exit while another
\* thread may look at the list; the parent of one that was killed waits for it.
LEMMA LinksKept ==
  ASSUME LinksInv, UNCHANGED childList,
         \A c \in Procs : /\ pc'[c] \in {"exit_close", "exit_up"}
                               => pc[c] \in {"exit_close", "exit_up"}
                          /\ pc'[c] \in {"exit", "dead"}
                               => pc[c] \in {"exit", "dead", "exit_up"},
         \A p \in All : pc[p] = "wait_down" /\ wait[p] = 0
                          => /\ pc'[p] = "wait_down" /\ child'[p] = child[p]
                             /\ wait'[p] = 0 \/ pc[child[p]] \notin {"exit", "dead"}
  PROVE  (ListedOnce /\ KilledAwaited)'
<1>1. ListedOnce'
  BY DEF LinksInv, ListedOnce
<1>2. ASSUME NEW p \in All, NEW c \in Procs, Contains(childList[p], c)
      PROVE  /\ pc'[c] \notin {"exit_close", "exit_up"}
             /\ pc'[c] \in {"exit", "dead"} =>
                  pc'[p] = "wait_down" /\ child'[p] = c /\ wait'[p] = 0
  <2>1. /\ pc[c] \notin {"exit_close", "exit_up"}
        /\ pc[c] \in {"exit", "dead"} =>
             pc[p] = "wait_down" /\ child[p] = c /\ wait[p] = 0
    BY <1>2 DEF LinksInv, KilledAwaited
  <2> QED
    BY <2>1
<1> QED
  BY <1>1, <1>2 DEF KilledAwaited

\* Every step of p that leaves the lists alone and does not kill it.
LEMMA QuietLinks ==
  ASSUME LinksInv, NEW p \in All,
         \/ ExecNoPage(p) \/ ExecNoThread(p) \/ ExecDown(p) \/ ExecReturn(p)
         \/ Load(p) \/ LoadUp(p) \/ Start(p) \/ Wait(p) \/ WaitUp(p) \/ WaitDown(p)
         \/ WaitReturn(p) \/ Exit(p) \/ ExitClose(p) \/ ExitUp(p) \/ ThreadExit(p)
  PROVE  (ListedOnce /\ KilledAwaited)'
<1>1. ProcessTypeOK /\ ParentsWait
  BY DEF LinksInv, ProcessInv
<1>2. /\ childList' = childList
      /\ \E label \in Labels : pc' = [pc EXCEPT ![p] = label] \/ pc' = pc
  <2>1. CASE Wait(p)
    BY <2>1 DEF Wait, Goto, Caller, Labels
  <2>2. CASE ExecNoPage(p) \/ ExecNoThread(p) \/ ExecDown(p) \/ ExecReturn(p)
    BY <2>2 DEF ExecNoPage, ExecNoThread, ExecDown, ExecReturn, Goto, Caller, Labels
  <2>3. CASE Load(p) \/ LoadUp(p) \/ Start(p) \/ WaitUp(p) \/ WaitDown(p) \/ WaitReturn(p)
    BY <2>3 DEF Load, LoadUp, Start, WaitUp, WaitDown, WaitReturn, Goto, Caller, Labels
  <2>4. CASE Exit(p) \/ ExitClose(p) \/ ExitUp(p) \/ ThreadExit(p)
    BY <2>4 DEF Exit, ExitClose, ExitUp, ThreadExit, Goto, Labels
  <2> QED
    BY <2>1, <2>2, <2>3, <2>4
<1>3. \A x \in All : x # p => pc'[x] = pc[x]
  BY <1>1, <1>2 DEF ProcessTypeOK
<1>4. /\ pc'[p] \in {"exit_close", "exit_up"} => pc[p] \in {"exit_close", "exit_up"}
      /\ pc'[p] \in {"exit", "dead"} => pc[p] \in {"exit", "dead", "exit_up"}
  BY <1>1 DEF ProcessTypeOK, ExecNoPage, ExecNoThread, ExecDown, ExecReturn, Load, LoadUp,
     Start, Wait, WaitUp, WaitDown, WaitReturn, Exit, ExitClose, ExitUp, ThreadExit, Goto,
     Caller, At
<1>5. ASSUME NEW q \in All, pc[q] = "wait_down", wait[q] = 0
      PROVE  /\ pc'[q] = "wait_down" /\ child'[q] = child[q]
             /\ wait'[q] = 0 \/ pc[child[q]] \notin {"exit", "dead"}
  <2>1. CASE ExitUp(p)
    <3>1. Running(p) /\ p \in Procs
      BY <2>1, Constants DEF ExitUp, At, Running, LinksInv, ProcessInv, MainAlive
    <3>2. pc[p] = "exit_up" /\ child[parent[p]] = p /\ parent[p] \in All
      BY <1>1, <2>1, <3>1 DEF ParentsWait, ExitUp, At, Running
    <3>3. q # parent[p] => wait'[q] = wait[q]
      BY <1>1, <2>1 DEF ExitUp, ProcessTypeOK
    <3>4. child' = child /\ q # p
      BY <1>5, <2>1 DEF ExitUp, At
    <3> QED
      BY <1>3, <1>5, <3>2, <3>3, <3>4
  <2>2. CASE WaitDown(p)
    BY <1>1, <1>3, <1>5, <2>2 DEF WaitDown, ProcessTypeOK
  <2>3. CASE ~ExitUp(p) /\ ~WaitDown(p)
    <3>1. wait' = wait /\ (q # p => child'[q] = child[q])
      BY <1>1, <2>3 DEF ProcessTypeOK, ExecNoPage, ExecNoThread, ExecDown, ExecReturn, Load,
         LoadUp, Start, Wait, WaitUp, WaitReturn, Exit, ExitClose, ThreadExit
    <3>2. pc[p] # "wait_down"
      <4>1. Wait(p) => pc[p] # "wait_down"
        BY DEF Wait, MayAwait, At
      <4>2. ExecNoPage(p) \/ ExecNoThread(p) \/ ExecDown(p) \/ ExecReturn(p)
              => pc[p] # "wait_down"
        BY DEF ExecNoPage, ExecNoThread, ExecDown, ExecReturn, Caller, At
      <4>3. Load(p) \/ LoadUp(p) \/ Start(p) \/ WaitUp(p) \/ WaitReturn(p)
              \/ Exit(p) \/ ExitClose(p) \/ ThreadExit(p) => pc[p] # "wait_down"
        BY DEF Load, LoadUp, Start, WaitUp, WaitReturn, Exit, ExitClose, ThreadExit, At
      <4> QED
        BY <2>3, <4>1, <4>2, <4>3
    <3> QED
      BY <1>3, <1>5, <3>1, <3>2
  <2> QED
    BY <2>1, <2>2, <2>3
<1>6. \A c \in Procs : /\ pc'[c] \in {"exit_close", "exit_up"}
                            => pc[c] \in {"exit_close", "exit_up"}
                       /\ pc'[c] \in {"exit", "dead"}
                            => pc[c] \in {"exit", "dead", "exit_up"}
  <2> TAKE c \in Procs
  <2>1. c \in All
    BY Constants
  <2> QED
    BY <1>3, <1>4, <2>1
<1>7. \A q \in All : pc[q] = "wait_down" /\ wait[q] = 0
                          => /\ pc'[q] = "wait_down" /\ child'[q] = child[q]
                             /\ wait'[q] = 0 \/ pc[child[q]] \notin {"exit", "dead"}
  BY <1>5
<1> QED
  BY <1>2, <1>6, <1>7, LinksKept

\* A new child joins the end of the list of its parent, which was not waiting.
LEMMA CreateLinks ==
  ASSUME LinksInv, NEW p \in All, NEW c \in Procs, NEW label \in {"load", "unborn"}, NEW tid,
         Create(p, c, label, tid)
  PROVE  (ListedOnce /\ KilledAwaited)'
<1>1. /\ ProcessTypeOK /\ ListedOnce /\ KilledAwaited
      /\ pc[p] = Caller(p) /\ pc[c] = "unused" /\ c # p
      /\ pc' = [pc EXCEPT ![p] = "exec_down", ![c] = label]
      /\ childList' = [childList EXCEPT ![p] = Append(@, c)]
      /\ child' = [child EXCEPT ![p] = tid] /\ wait' = wait
  BY DEF LinksInv, ProcessInv, Create, At, Caller
<1> DEFINE list == childList[p]
<1>2. list \in Seq(Procs) /\ \A q \in All : ~Contains(childList[q], c)
  <2>1. childList \in [All -> Seq(Procs)] /\ ChildrenListed /\ parent[c] = Null
    BY <1>1 DEF LinksInv, ProcessInv, ChildrenListed, ProcessTypeOK
  <2>2. ASSUME NEW q \in All, Contains(childList[q], c) PROVE FALSE
    <3>1. parent[c] = q
      BY <2>1, <2>2 DEF ChildrenListed, Contains
    <3> QED
      BY <2>1, <3>1
  <2> QED
    BY <2>1, <2>2
<1>3. /\ \A d : Contains(Append(list, c), d) <=> d = c \/ Contains(list, d)
      /\ \A i, j \in 1..Len(Append(list, c)) :
           i # j => Append(list, c)[i] # Append(list, c)[j]
  <2> DEFINE res == Append(list, c)
             n == Len(list)
  <2>1. /\ n \in Nat /\ Len(res) = n + 1
        /\ res[n + 1] = c /\ \A i \in 1..n : res[i] = list[i]
        /\ \A i : i \in 1..n + 1 <=> i \in 1..n \/ i = n + 1
    BY <1>2
  <2>2. /\ ~Contains(list, c) /\ \A i, j \in 1..n : i # j => list[i] # list[j]
    BY <1>1, <1>2 DEF ListedOnce
  <2> HIDE DEF res
  <2>3. ASSUME NEW d PROVE Contains(res, d) <=> d = c \/ Contains(list, d)
    BY <2>1 DEF Contains
  <2>4. \A i, j \in 1..n + 1 : i # j => res[i] # res[j]
    BY <2>1, <2>2 DEF Contains
  <2> QED
    BY <2>1, <2>3, <2>4 DEF res
<1>4. childList'[p] = Append(list, c) /\ \A q \in All : q # p => childList'[q] = childList[q]
  BY <1>1 DEF ProcessTypeOK
<1>5. ListedOnce'
  BY <1>1, <1>3, <1>4 DEF ListedOnce
<1>6. ASSUME NEW q \in All, NEW d \in Procs, Contains(childList'[q], d)
      PROVE  /\ pc'[d] \notin {"exit_close", "exit_up"}
             /\ pc'[d] \in {"exit", "dead"} =>
                  pc'[q] = "wait_down" /\ child'[q] = d /\ wait'[q] = 0
  <2>0. c \in All /\ d \in All
    BY Constants
  <2>1. d = c \/ Contains(childList[q], d)
    BY <1>3, <1>4, <1>6
  <2>2. CASE d = c
    BY <1>1, <2>0, <2>2 DEF ProcessTypeOK
  <2>3. CASE d # c /\ Contains(childList[q], d)
    <3>1. /\ pc[d] \notin {"exit_close", "exit_up"}
          /\ pc[d] \in {"exit", "dead"} =>
               pc[q] = "wait_down" /\ child[q] = d /\ wait[q] = 0
      BY <1>1, <2>3 DEF KilledAwaited
    <3>2. pc'[d] = IF d = p THEN "exec_down" ELSE pc[d]
      BY <1>1, <2>0, <2>3 DEF ProcessTypeOK
    <3>3. pc[q] = "wait_down" => q # p /\ q # c
      BY <1>1 DEF Caller
    <3>4. q # p /\ q # c => pc'[q] = pc[q] /\ child'[q] = child[q]
      BY <1>1 DEF ProcessTypeOK
    <3> QED
      BY <1>1, <3>1, <3>2, <3>3, <3>4
  <2> QED
    BY <2>1, <2>2, <2>3
<1> QED
  BY <1>5, <1>6 DEF KilledAwaited

LEMMA RemoveLinks ==
  ASSUME LinksInv, NEW p \in All, FailRemove(p) \/ ExitRemove(p)
  PROVE  (ListedOnce /\ KilledAwaited)'
<1>1. ProcessTypeOK /\ ParentsWait /\ KilledAwaited
  BY DEF LinksInv, ProcessInv
<1>2. /\ p \in Procs /\ pc[p] \in {"remove", "exit_remove"} /\ Unlink(p)
      /\ pc' = [pc EXCEPT ![p] = "exit"] \/ pc' = [pc EXCEPT ![p] = "exit_close"]
      /\ child' = child /\ wait' = wait
  BY DEF FailRemove, ExitRemove, At, Goto, LinksInv, ProcessInv, MainAlive
<1>3. parent[p] \in All
  BY <1>1, <1>2 DEF ParentsWait
<1>4. /\ ListedOnce'
      /\ \A q \in All, d \in Procs :
           Contains(childList'[q], d) <=> Contains(childList[q], d) /\ d # p
  BY <1>2, <1>3, UnlinkLinks
<1>5. \A x \in All : x # p => pc'[x] = pc[x]
  BY <1>1, <1>2 DEF ProcessTypeOK
<1>6. KilledAwaited'
  BY <1>1, <1>2, <1>4, <1>5 DEF KilledAwaited
<1> QED
  BY <1>4, <1>6

LEMMA KillLinks ==
  ASSUME LinksInv, NEW p \in All, Kill(p)
  PROVE  (ListedOnce /\ KilledAwaited)'
<1>1. ProcessTypeOK /\ ParentsWait /\ UpsAreForWaiters /\ ChildrenListed /\ ListedOnce
      /\ KilledAwaited
  BY DEF LinksInv, ProcessInv
<1>2. /\ p \in Procs /\ pc[p] = "user" /\ pc' = [pc EXCEPT ![p] = "exit"]
      /\ UNCHANGED <<childList, child, wait, parent>>
  BY DEF Kill, At, Goto
<1>3. ListedOnce'
  BY <1>1, <1>2 DEF ListedOnce
<1>4. \A x \in All : x # p => pc'[x] = pc[x]
  BY <1>1, <1>2 DEF ProcessTypeOK
<1>5. /\ parent[p] \in All /\ pc[parent[p]] = "wait_down" /\ child[parent[p]] = p
      /\ wait[parent[p]] = 0 /\ parent[p] # p
  <2>1. parent[p] \in All /\ pc[parent[p]] = "wait_down" /\ child[parent[p]] = p
    BY <1>1, <1>2 DEF ParentsWait, Running
  <2>2. ~(wait[parent[p]] > 0)
    <3>1. wait[parent[p]] > 0 => pc[child[parent[p]]] \in {"exit", "dead"}
      BY <1>1, <2>1 DEF UpsAreForWaiters
    <3> QED
      BY <1>2, <2>1, <3>1
  <2>3. wait[parent[p]] \in 0..1
    BY <1>1, <2>1 DEF ProcessTypeOK
  <2>4. wait[parent[p]] = 0
    BY <2>2, <2>3
  <2> QED
    BY <1>2, <2>1, <2>4
<1>6. \A q \in All : Contains(childList[q], p) => q = parent[p]
  BY <1>1 DEF ChildrenListed, Contains
<1>7. KilledAwaited'
  BY <1>1, <1>2, <1>4, <1>5, <1>6 DEF KilledAwaited
<1> QED
  BY <1>3, <1>7

LEMMA LinksInvariant == ProcessSpec => []LinksInv
<1>1. ProcessInit => ListedOnce /\ KilledAwaited
  <2> SUFFICES ASSUME ProcessInit PROVE ListedOnce /\ KilledAwaited
    OBVIOUS
  <2>1. \A p \in All : childList[p] = <<>>
    BY DEF ProcessInit
  <2> QED
    BY <2>1 DEF ListedOnce, KilledAwaited, Contains
<1>2. LinksInv /\ [ProcessNext]_vars => (ListedOnce /\ KilledAwaited)'
  <2> SUFFICES ASSUME LinksInv, [ProcessNext]_vars
               PROVE  (ListedOnce /\ KilledAwaited)'
    OBVIOUS
  <2>1. ASSUME NEW p \in All, ExecNoTable(p) PROVE (ListedOnce /\ KilledAwaited)'
    BY <2>1, CreateLinks DEF ExecNoTable
  <2>2. ASSUME NEW p \in All, Exec(p) PROVE (ListedOnce /\ KilledAwaited)'
    BY <2>2, CreateLinks DEF Exec
  <2>3. ASSUME NEW p \in All, Choice(p) PROVE (ListedOnce /\ KilledAwaited)'
    BY <2>1, <2>2, <2>3, QuietLinks, KillLinks DEF Choice
  <2>4. ASSUME NEW p \in All, KernelStep(p) PROVE (ListedOnce /\ KilledAwaited)'
    BY <2>4, QuietLinks, RemoveLinks DEF KernelStep
  <2>5. CASE UNCHANGED vars
    BY <2>5 DEF vars, LinksInv, ListedOnce, KilledAwaited
  <2> QED
    BY <2>3, <2>4, <2>5 DEF ProcessNext
<1> QED
  BY <1>1, <1>2, ProcessInvariant, PTL DEF ProcessSpec, LinksInv

\* A freed thread is linked only in a list whose owner waits for it for ever, so
\* that no search of process_execute or process_wait meets its freed page; also
\* with exceptions, failed allocations and failed loads.
THEOREM FreedNotSearched == ProcessSpec => []FreedUnreachable
<1>1. LinksInv => FreedUnreachable
  <2> SUFFICES ASSUME LinksInv, NEW p \in All, NEW c \in ToSet(childList[p]), At(c, "dead")
               PROVE  At(p, "wait_down") /\ child[p] = c
    BY DEF FreedUnreachable
  <2>1. childList[p] \in Seq(Procs)
    BY DEF LinksInv, ProcessInv, ProcessTypeOK
  <2>2. c \in Procs /\ Contains(childList[p], c)
    BY <2>1 DEF ToSet, Contains
  <2> QED
    BY <2>2 DEF LinksInv, KilledAwaited, At
<1> QED
  BY <1>1, LinksInvariant, PTL

----------------------------------------------------------------------------
(* No step uses a freed thread *)

\* A process that has not been started has not called exit, and only a failed
\* load makes one leave its parent's list without having called it.
NotStarted ==
  \A c \in Procs :
    /\ pc[c] \in {"unused", "load", "loaded", "failed", "remove", "unborn"} =>
         code[c] = Null
    /\ pc[c] \in {"failed", "remove"} => LoadsFail

\* The child process_wait has found is still listed, or its load failed.
AwaitedLinked ==
  \A p \in All : pc[p] = "wait_up" =>
    \/ Contains(childList[p], child[p])
    \/ LoadsFail /\ code[child[p]] = Null /\ pc[child[p]] \in {"exit", "dead"}

\* Steps that change no list.
LEMMA AwaitedUntouched ==
  ASSUME LinksInv, NotStarted, AwaitedLinked, NEW p \in All,
         \/ ExecNoPage(p) \/ ExecNoThread(p) \/ ExecDown(p) \/ ExecReturn(p)
         \/ Load(p) \/ LoadUp(p) \/ Start(p) \/ WaitUp(p) \/ WaitDown(p)
         \/ WaitReturn(p) \/ Exit(p) \/ ExitClose(p) \/ ExitUp(p) \/ Kill(p)
         \/ ThreadExit(p)
  PROVE  (NotStarted /\ AwaitedLinked)'
<1>1. ProcessTypeOK /\ UpsAreForWaiters /\ MainAlive
  BY DEF LinksInv, ProcessInv
<1>2. childList' = childList
  BY DEF ExecNoPage, ExecNoThread, ExecDown, ExecReturn, Load, LoadUp, Start, WaitUp,
     WaitDown, WaitReturn, Exit, ExitClose, ExitUp, Kill, ThreadExit
<1>3. /\ \A x \in All : x # p => pc'[x] = pc[x] /\ child'[x] = child[x]
      /\ \A x \in Procs : x # p => code'[x] = code[x]
      /\ pc'[p] = "wait_up" => pc[p] = "wait_up" /\ child'[p] = child[p]
      /\ p \in Procs /\ pc'[p] \in {"failed", "remove"} => LoadsFail
      /\ pc'[p] \in {"unused", "load", "loaded", "failed", "remove", "unborn"} =>
           /\ pc[p] \in {"unused", "load", "loaded", "failed", "remove", "unborn"}
           /\ code' = code
      /\ pc[p] \in {"exit", "dead"} => pc'[p] \in {"exit", "dead"} /\ code' = code
  <2>1. CASE ExecNoPage(p) \/ ExecNoThread(p) \/ ExecDown(p) \/ ExecReturn(p)
    BY <1>1, <2>1 DEF ProcessTypeOK, ExecNoPage, ExecNoThread, ExecDown, ExecReturn, Goto,
       At, Caller, NotStarted
  <2>2. CASE Load(p)
    BY <1>1, <2>2, ProcessAssumption DEF ProcessTypeOK, Load, Goto, At
  <2>3. CASE LoadUp(p) \/ Start(p)
    BY <1>1, <2>3 DEF ProcessTypeOK, LoadUp, Start, Goto, At, NotStarted
  <2>4. CASE WaitUp(p) \/ WaitDown(p) \/ WaitReturn(p)
    BY <1>1, <2>4 DEF ProcessTypeOK, WaitUp, WaitDown, WaitReturn, Goto, At, Caller
  <2>5. CASE Exit(p) \/ ExitClose(p) \/ ExitUp(p) \/ Kill(p) \/ ThreadExit(p)
    BY <1>1, <2>5 DEF ProcessTypeOK, Exit, ExitClose, ExitUp, Kill, ThreadExit, Goto, At
  <2> QED
    BY <2>1, <2>2, <2>3, <2>4, <2>5
<1>4. NotStarted'
  BY <1>1, <1>3 DEF NotStarted, All
<1>5. ASSUME NEW q \in All, pc'[q] = "wait_up"
      PROVE  \/ Contains(childList'[q], child'[q])
             \/ LoadsFail /\ code'[child'[q]] = Null /\ pc'[child'[q]] \in {"exit", "dead"}
  <2>1. pc[q] = "wait_up" /\ child'[q] = child[q] /\ child[q] \in Procs
    BY <1>1, <1>3, <1>5 DEF UpsAreForWaiters
  <2>2. CASE Contains(childList[q], child[q])
    BY <1>2, <2>1, <2>2
  <2>3. CASE LoadsFail /\ code[child[q]] = Null /\ pc[child[q]] \in {"exit", "dead"}
    BY <1>3, <2>1, <2>3 DEF All
  <2> QED
    BY <2>1, <2>2, <2>3 DEF AwaitedLinked
<1> QED
  BY <1>4, <1>5 DEF AwaitedLinked

\* A child that unlinks itself, with its parent waiting or its load failed.
LEMMA AwaitedUnlinked ==
  ASSUME LinksInv, NotStarted, AwaitedLinked, NEW p \in All, FailRemove(p) \/ ExitRemove(p)
  PROVE  (NotStarted /\ AwaitedLinked)'
<1>1. ProcessTypeOK /\ ParentsWait /\ UpsAreForWaiters /\ MainAlive
  BY DEF LinksInv, ProcessInv
<1>2. /\ p \in Procs /\ pc[p] \in {"remove", "exit_remove"} /\ Unlink(p)
      /\ child' = child /\ code' = code
      /\ pc' = [pc EXCEPT ![p] = IF pc[p] = "remove" THEN "exit" ELSE "exit_close"]
  BY <1>1 DEF FailRemove, ExitRemove, At, Goto, MainAlive, All
<1>3. parent[p] \in All
  BY <1>1, <1>2 DEF ParentsWait
<1>4. \A q \in All, d \in Procs :
        Contains(childList'[q], d) <=> Contains(childList[q], d) /\ d # p
  BY <1>2, <1>3, UnlinkLinks
<1>5. NotStarted'
  BY <1>1, <1>2 DEF NotStarted, ProcessTypeOK
<1>6. ASSUME NEW q \in All, pc'[q] = "wait_up"
      PROVE  \/ Contains(childList'[q], child'[q])
             \/ LoadsFail /\ code'[child'[q]] = Null /\ pc'[child'[q]] \in {"exit", "dead"}
  <2>1. pc[q] = "wait_up" /\ child[q] \in Procs /\ parent[child[q]] = q
    <3>1. pc[q] = "wait_up"
      BY <1>1, <1>2, <1>6 DEF ProcessTypeOK
    <3> QED
      BY <1>1, <3>1 DEF UpsAreForWaiters
  <2>2. CASE child[q] = p
    <3>1. pc[p] # "exit_remove"
      BY <1>1, <2>1, <2>2 DEF ParentsWait, Running
    <3> QED
      BY <1>1, <1>2, <2>2, <3>1 DEF NotStarted, ProcessTypeOK
  <2>3. CASE child[q] # p
    <3>1. pc'[child[q]] = pc[child[q]]
      BY <1>1, <1>2, <2>3 DEF ProcessTypeOK
    <3> QED
      BY <1>2, <1>4, <2>1, <2>3, <3>1 DEF AwaitedLinked
  <2> QED
    BY <2>2, <2>3
<1> QED
  BY <1>5, <1>6 DEF AwaitedLinked

\* A child that is created joins its parent's list.
LEMMA AwaitedCreated ==
  ASSUME LinksInv, NotStarted, AwaitedLinked, NEW p \in All, NEW c \in Procs,
         NEW label \in {"load", "unborn"}, NEW tid, Create(p, c, label, tid)
  PROVE  (NotStarted /\ AwaitedLinked)'
<1>1. ProcessTypeOK /\ UpsAreForWaiters
  BY DEF LinksInv, ProcessInv
<1>2. /\ pc[p] \in {"main", "user"} /\ pc[c] = "unused"
      /\ pc' = [pc EXCEPT ![p] = "exec_down", ![c] = label]
      /\ childList' = [childList EXCEPT ![p] = Append(@, c)]
      /\ child' = [child EXCEPT ![p] = tid] /\ code' = code
  BY DEF Create, At, Caller
<1>3. NotStarted'
  BY <1>1, <1>2 DEF NotStarted, ProcessTypeOK
<1>4. ASSUME NEW q \in All, pc'[q] = "wait_up"
      PROVE  \/ Contains(childList'[q], child'[q])
             \/ LoadsFail /\ code'[child'[q]] = Null /\ pc'[child'[q]] \in {"exit", "dead"}
  <2>1. q # p /\ q # c /\ pc[q] = "wait_up"
    BY <1>1, <1>2, <1>4 DEF ProcessTypeOK
  <2>2. child'[q] = child[q] /\ childList'[q] = childList[q] /\ child[q] \in Procs
    BY <1>1, <1>2, <2>1 DEF ProcessTypeOK, UpsAreForWaiters
  <2>3. pc[child[q]] \in {"exit", "dead"} => pc'[child[q]] = pc[child[q]]
    BY <1>1, <1>2, <2>2 DEF ProcessTypeOK
  <2> QED
    BY <1>2, <2>1, <2>2, <2>3 DEF AwaitedLinked
<1> QED
  BY <1>3, <1>4 DEF AwaitedLinked

\* process_wait links p to a child of its list, or returns.
LEMMA AwaitedFound ==
  ASSUME LinksInv, NotStarted, AwaitedLinked, NEW p \in All, Wait(p)
  PROVE  (NotStarted /\ AwaitedLinked)'
<1>1. ProcessTypeOK /\ UpsAreForWaiters
  BY DEF LinksInv, ProcessInv
<1>2. PICK c \in Procs \cup {TID_ERROR} :
        \/ /\ Contains(childList[p], c)
           /\ child' = [child EXCEPT ![p] = c] /\ pc' = [pc EXCEPT ![p] = "wait_up"]
        \/ child' = child /\ pc' = [pc EXCEPT ![p] = Caller(p)]
  BY DEF Wait, Goto
<1>3. childList' = childList /\ code' = code /\ pc[p] \in {"user", "main_wait"}
  BY DEF Wait, MayAwait, At
<1>4. NotStarted'
  BY <1>1, <1>2, <1>3 DEF NotStarted, ProcessTypeOK, Caller
<1>5. ASSUME NEW q \in All, pc'[q] = "wait_up"
      PROVE  \/ Contains(childList'[q], child'[q])
             \/ LoadsFail /\ code'[child'[q]] = Null /\ pc'[child'[q]] \in {"exit", "dead"}
  <2>1. CASE q = p
    BY <1>1, <1>2, <1>3, <1>5, <2>1 DEF ProcessTypeOK, Caller
  <2>2. CASE q # p
    <3>1. pc[q] = "wait_up" /\ child'[q] = child[q]
      BY <1>1, <1>2, <1>5, <2>2 DEF ProcessTypeOK, Caller
    <3>2. pc[child[q]] \in {"exit", "dead"} => pc'[child[q]] = pc[child[q]]
      <4>1. child[q] \in Procs
        BY <1>1, <3>1 DEF UpsAreForWaiters
      <4>2. child[q] # p => pc'[child[q]] = pc[child[q]]
        BY <1>1, <1>2, <4>1 DEF ProcessTypeOK, All
      <4> QED
        BY <1>3, <4>2
    <3> QED
      BY <1>3, <3>1, <3>2 DEF AwaitedLinked
  <2> QED
    BY <2>1, <2>2
<1> QED
  BY <1>4, <1>5 DEF AwaitedLinked

LEMMA AwaitedKept ==
  ASSUME LinksInv, NotStarted, AwaitedLinked, [ProcessNext]_vars
  PROVE  (NotStarted /\ AwaitedLinked)'
<1>1. CASE UNCHANGED vars
  BY <1>1 DEF vars, NotStarted, AwaitedLinked
<1>2. ASSUME NEW p \in All, Choice(p) PROVE (NotStarted /\ AwaitedLinked)'
  <2>1. CASE ExecNoTable(p)
    BY <2>1, AwaitedCreated DEF ExecNoTable
  <2>2. CASE Exec(p)
    BY <2>2, AwaitedCreated DEF Exec
  <2> QED
    BY <1>2, <2>1, <2>2, AwaitedFound, AwaitedUntouched DEF Choice
<1>3. ASSUME NEW p \in All, KernelStep(p) PROVE (NotStarted /\ AwaitedLinked)'
  BY <1>3, AwaitedUntouched, AwaitedUnlinked DEF KernelStep
<1> QED
  BY <1>1, <1>2, <1>3 DEF ProcessNext

\* A child reports only to a parent whose page is still there, and process_wait
\* ups the semaphore of a child whose page is, whatever fails and is killed: the
\* exceptions, a child unlinking itself from a parent that is gone and
\* process_wait that ups such a child, come of a load that failed.
THEOREM NoFreedThreadUsed == ProcessSpec => []NoUseAfterFree
<1>1. ProcessInit => NotStarted /\ AwaitedLinked
  BY DEF ProcessInit, NotStarted, AwaitedLinked
<1>2. LinksInv /\ NotStarted /\ AwaitedLinked /\ [ProcessNext]_vars
        => (NotStarted /\ AwaitedLinked)'
  BY AwaitedKept
<1>3. LinksInv /\ NotStarted /\ AwaitedLinked => NoUseAfterFree
  <2> SUFFICES ASSUME LinksInv, NotStarted, AwaitedLinked PROVE NoUseAfterFree
    OBVIOUS
  <2>1. ASSUME NEW c \in Procs,
               pc[c] \in {"load", "loaded", "failed", "user", "exit_remove",
                          "exit_close", "exit_up"}
        PROVE  ~At(parent[c], "dead")
    BY <2>1 DEF LinksInv, ProcessInv, ParentsWait, Loading, Running, At
  <2>2. ASSUME NEW c \in Procs, pc[c] = "remove" PROVE LoadsFail
    BY <2>2 DEF NotStarted
  <2>3. ASSUME NEW p \in All, pc[p] = "wait_up", pc[child[p]] = "dead"
        PROVE  LoadsFail /\ code[child[p]] = Null
    BY <2>3 DEF LinksInv, ProcessInv, UpsAreForWaiters, AwaitedLinked, KilledAwaited
  <2> QED
    BY <2>1, <2>2, <2>3 DEF NoUseAfterFree, At
<1> QED
  BY <1>1, <1>2, <1>3, LinksInvariant, PTL DEF ProcessSpec

----------------------------------------------------------------------------
(* Processes implement nested calls: the refinement of ProgramCalls *)

\* The three variables of ProgramCalls, as Process maps them.
LoadedOnes == {c \in Procs : At(c, "ready")}
ActiveOnes == {c \in Procs : Active(c)} \cup {Main}
CallerOf == [c \in Procs |-> IF At(c, "ready") \/ Active(c) THEN parent[c] ELSE Null]

\* What loads, runs or has returned stays what it is.
LEMMA CallsUntouched ==
  ASSUME \A c \in Procs :
           /\ (At(c, "ready"))' = At(c, "ready")
           /\ (Active(c))' = Active(c)
           /\ At(c, "ready") \/ Active(c) => parent'[c] = parent[c]
  PROVE  LoadedOnes' = LoadedOnes /\ ActiveOnes' = ActiveOnes /\ CallerOf' = CallerOf
<1>1. LoadedOnes' = LoadedOnes
  BY DEF LoadedOnes
<1>2. ActiveOnes' = ActiveOnes
  BY DEF ActiveOnes
<1>3. CallerOf' = CallerOf
  BY DEF CallerOf
<1> QED
  BY <1>1, <1>2, <1>3

\* A thread that waits to be told of its child's end has called that child and
\* no other; a thread elsewhere has called none.
LEMMA CallsAreNested ==
  ASSUME LinksInv, NEW d \in Procs, Active(d)
  PROVE  parent[d] \in All /\ pc[parent[d]] = "wait_down" /\ child[parent[d]] = d
<1>1. ParentsWait /\ KilledAwaited
  BY DEF LinksInv, ProcessInv
<1>2. CASE Running(d)
  <2>1. pc[d] # "unused"
    BY <1>2 DEF Running
  <2> QED
    BY <1>1, <1>2, <2>1 DEF ParentsWait
<1>3. CASE pc[d] \in {"exit", "dead"} /\ Contains(childList[parent[d]], d)
  BY <1>1, <1>3 DEF ParentsWait, KilledAwaited
<1> QED
  BY <1>2, <1>3 DEF Active, Running

\* Steps of p that change neither the lists nor whether p is loaded or active.
LEMMA QuietCalls ==
  ASSUME ProcessTypeOK, NEW p \in All, NEW label, UNCHANGED <<parent, childList>>,
         pc' = [pc EXCEPT ![p] = label] \/ pc' = pc,
         \/ p = Main
         \/ pc'[p] = pc[p]
         \/ Running(p) /\ Running(p)'
         \/ {pc[p], pc'[p]} \subseteq {"unused", "unborn", "load", "loaded", "failed", "remove"}
         \/ {pc[p], pc'[p]} \subseteq {"exit", "dead"}
  PROVE  LoadedOnes' = LoadedOnes /\ ActiveOnes' = ActiveOnes /\ CallerOf' = CallerOf
<1>1. ASSUME NEW c \in Procs, c # p
      PROVE  (At(c, "ready"))' = At(c, "ready") /\ (Active(c))' = Active(c)
  <2>1. pc'[c] = pc[c] /\ parent' = parent /\ childList' = childList
    BY <1>1 DEF ProcessTypeOK
  <2> QED
    BY <2>1 DEF At, Active
<1>2. ASSUME p \in Procs
      PROVE  (At(p, "ready"))' = At(p, "ready") /\ (Active(p))' = Active(p)
  <2>1. parent' = parent /\ childList' = childList /\ p # Main
    BY <1>2
  <2>2. CASE pc'[p] = pc[p]
    BY <2>1, <2>2 DEF At, Active
  <2>3. CASE Running(p) /\ Running(p)'
    BY <2>1, <2>3 DEF At, Active, Running
  <2>4. CASE {pc[p], pc'[p]} \subseteq
               {"unused", "unborn", "load", "loaded", "failed", "remove"}
    BY <2>1, <2>4 DEF At, Active
  <2>5. CASE {pc[p], pc'[p]} \subseteq {"exit", "dead"}
    BY <2>1, <2>5 DEF At, Active
  <2> QED
    BY <2>1, <2>2, <2>3, <2>4, <2>5
<1> QED
  BY <1>1, <1>2, CallsUntouched

\* Appending c to a list adds no other link.
LEMMA LinkAppended ==
  ASSUME NEW list \in Seq(Procs), NEW c \in Procs, NEW d \in Procs, d # c
  PROVE  Contains(Append(list, c), d) <=> Contains(list, d)
<1> DEFINE n == Len(list)
           res == Append(list, c)
<1>1. /\ n \in Nat /\ Len(res) = n + 1
      /\ res[n + 1] = c /\ \A i \in 1..n : res[i] = list[i]
      /\ \A i : i \in 1..n + 1 <=> i \in 1..n \/ i = n + 1
  OBVIOUS
<1> HIDE DEF res
<1>2. Contains(res, d) <=> Contains(list, d)
  BY <1>1 DEF Contains
<1> QED
  BY <1>2 DEF res

LEMMA CreateCalls ==
  ASSUME LinksInv, NEW p \in All, NEW c \in Procs, NEW label \in {"load", "unborn"}, NEW tid,
         Create(p, c, label, tid)
  PROVE  LoadedOnes' = LoadedOnes /\ ActiveOnes' = ActiveOnes /\ CallerOf' = CallerOf
<1>1. /\ ProcessTypeOK
      /\ pc[p] = Caller(p) /\ pc[c] = "unused" /\ c # p
      /\ pc' = [pc EXCEPT ![p] = "exec_down", ![c] = label]
      /\ parent' = [parent EXCEPT ![c] = p]
      /\ childList' = [childList EXCEPT ![p] = Append(@, c)]
  BY DEF LinksInv, ProcessInv, Create, At, Caller
<1>2. ASSUME NEW d \in Procs, d # c, d # p
      PROVE  /\ (At(d, "ready"))' = At(d, "ready") /\ (Active(d))' = Active(d)
             /\ parent'[d] = parent[d]
  <2>1. pc'[d] = pc[d] /\ parent'[d] = parent[d]
    BY <1>1, <1>2 DEF ProcessTypeOK
  <2>2. parent[d] \in All =>
          (Contains(childList'[parent[d]], d) <=> Contains(childList[parent[d]], d))
    <3>1. CASE parent[d] = p
      <4>1. childList'[p] = Append(childList[p], c) /\ childList[p] \in Seq(Procs)
        BY <1>1 DEF ProcessTypeOK
      <4> QED
        BY <1>2, <3>1, <4>1, LinkAppended
    <3>2. CASE parent[d] # p
      BY <1>1, <3>2 DEF ProcessTypeOK
    <3> QED
      BY <3>1, <3>2
  <2>3. pc[d] # "unused" => parent[d] \in All
    BY DEF LinksInv, ProcessInv, ParentsWait
  <2> QED
    BY <2>1, <2>2, <2>3 DEF At, Active
<1>3. ~At(c, "ready") /\ ~Active(c) /\ ~(At(c, "ready"))' /\ ~(Active(c))'
  <2>1. pc'[c] = label /\ c \in All
    BY <1>1 DEF ProcessTypeOK
  <2> QED
    BY <1>1, <2>1 DEF At, Active
<1>4. ASSUME p \in Procs
      PROVE  /\ ~At(p, "ready") /\ Active(p) /\ ~(At(p, "ready"))' /\ (Active(p))'
             /\ parent'[p] = parent[p]
  <2>1. pc'[p] = "exec_down" /\ pc[p] = "user" /\ parent'[p] = parent[p]
    BY <1>1, <1>4 DEF ProcessTypeOK, Caller
  <2> QED
    BY <2>1 DEF At, Active
<1>5. \A d \in Procs : /\ (At(d, "ready"))' = At(d, "ready")
                       /\ (Active(d))' = Active(d)
                       /\ At(d, "ready") \/ Active(d) => parent'[d] = parent[d]
  <2> TAKE d \in Procs
  <2>1. CASE d = c
    BY <1>3, <2>1 DEF At, Active
  <2>2. CASE d = p
    BY <1>4, <2>2 DEF At, Active
  <2> QED
    BY <1>2, <2>1, <2>2
<1> QED
  BY <1>5, CallsUntouched

\* Leaving the list is not returning: the process still closes its files.
LEMMA RemoveCalls ==
  ASSUME LinksInv, NEW p \in All, FailRemove(p) \/ ExitRemove(p)
  PROVE  LoadedOnes' = LoadedOnes /\ ActiveOnes' = ActiveOnes /\ CallerOf' = CallerOf
<1>1. ProcessTypeOK /\ ParentsWait
  BY DEF LinksInv, ProcessInv
<1>2. /\ p \in Procs /\ Unlink(p) /\ parent' = parent
      /\ \/ pc[p] = "remove" /\ pc' = [pc EXCEPT ![p] = "exit"]
         \/ pc[p] = "exit_remove" /\ pc' = [pc EXCEPT ![p] = "exit_close"]
  BY DEF FailRemove, ExitRemove, At, Goto, LinksInv, ProcessInv, MainAlive
<1>3. parent[p] \in All
  BY <1>1, <1>2 DEF ParentsWait
<1>4. \A q \in All, d \in Procs :
        Contains(childList'[q], d) <=> Contains(childList[q], d) /\ d # p
  BY <1>2, <1>3, UnlinkLinks
<1>5. ASSUME NEW d \in Procs, d # p
      PROVE  (At(d, "ready"))' = At(d, "ready") /\ (Active(d))' = Active(d)
  <2>1. pc'[d] = pc[d] /\ parent'[d] = parent[d]
    BY <1>1, <1>2, <1>5 DEF ProcessTypeOK
  <2>2. pc[d] # "unused" => parent[d] \in All
    BY <1>1 DEF ParentsWait
  <2>3. parent[d] \in All =>
          (Contains(childList'[parent[d]], d) <=> Contains(childList[parent[d]], d))
    BY <1>4, <1>5
  <2> QED
    BY <2>1, <2>2, <2>3 DEF At, Active
<1>6. (At(p, "ready"))' = At(p, "ready") /\ (Active(p))' = Active(p)
  <2>1. CASE pc[p] = "remove" /\ pc' = [pc EXCEPT ![p] = "exit"]
    <3>1. pc'[p] = "exit" /\ ~Contains(childList'[parent'[p]], p)
      BY <1>1, <1>2, <1>3, <1>4, <2>1 DEF ProcessTypeOK
    <3> QED
      BY <2>1, <3>1 DEF At, Active
  <2>2. CASE pc[p] = "exit_remove" /\ pc' = [pc EXCEPT ![p] = "exit_close"]
    <3>1. pc'[p] = "exit_close"
      BY <1>1, <1>2, <2>2 DEF ProcessTypeOK
    <3> QED
      BY <2>2, <3>1 DEF At, Active
  <2> QED
    BY <1>2, <2>1, <2>2
<1> QED
  BY <1>2, <1>5, <1>6, CallsUntouched

\* The steps of p that are nothing to its caller.
LEMMA QuietStep ==
  ASSUME LinksInv, NEW p \in All,
         \/ ExecNoPage(p) \/ ExecNoThread(p) \/ ExecDown(p) \/ ExecReturn(p) \/ Load(p)
         \/ At(p, "failed") /\ LoadUp(p)
         \/ Wait(p) \/ WaitUp(p) \/ WaitDown(p) \/ WaitReturn(p)
         \/ Exit(p) \/ ExitClose(p) \/ ThreadExit(p)
  PROVE  LoadedOnes' = LoadedOnes /\ ActiveOnes' = ActiveOnes /\ CallerOf' = CallerOf
<1>1. ProcessTypeOK
  BY DEF LinksInv, ProcessInv
<1>2. /\ UNCHANGED <<parent, childList>>
      /\ \E label : pc' = [pc EXCEPT ![p] = label] \/ pc' = pc
      /\ \/ p = Main
         \/ pc'[p] = pc[p]
         \/ Running(p) /\ Running(p)'
         \/ {pc[p], pc'[p]} \subseteq {"unused", "unborn", "load", "loaded", "failed", "remove"}
         \/ {pc[p], pc'[p]} \subseteq {"exit", "dead"}
  <2>1. CASE ExecNoPage(p) \/ ExecNoThread(p) \/ ExecDown(p) \/ ExecReturn(p)
    BY <1>1, <2>1 DEF ProcessTypeOK, ExecNoPage, ExecNoThread, ExecDown, ExecReturn, Goto,
       At, Caller, Running
  <2>2. CASE Load(p)
    BY <1>1, <2>2 DEF ProcessTypeOK, Load, Goto, At
  <2>3. CASE At(p, "failed") /\ LoadUp(p)
    BY <1>1, <2>3 DEF ProcessTypeOK, LoadUp, Goto, At
  <2>4. CASE Wait(p)
    BY <1>1, <2>4 DEF ProcessTypeOK, Wait, MayAwait, Goto, At, Caller, Running
  <2>5. CASE WaitUp(p) \/ WaitDown(p) \/ WaitReturn(p)
    BY <1>1, <2>5 DEF ProcessTypeOK, WaitUp, WaitDown, WaitReturn, Goto, At, Caller, Running
  <2>6. CASE Exit(p) \/ ExitClose(p)
    BY <1>1, <2>6 DEF ProcessTypeOK, Exit, ExitClose, Goto, At, Running
  <2>7. CASE ThreadExit(p)
    BY <1>1, <2>7 DEF ProcessTypeOK, ThreadExit, Goto, At
  <2> QED
    BY <2>1, <2>2, <2>3, <2>4, <2>5, <2>6, <2>7
<1> QED
  BY <1>1, <1>2, QuietCalls

\* Being loaded, being called and returning, when pc[c] is all that changes.
LEMMA OneCallMoves ==
  ASSUME ProcessTypeOK, NEW c \in Procs, NEW label \in Labels,
         pc' = [pc EXCEPT ![c] = label], UNCHANGED <<parent, childList>>
  PROVE  /\ LoadedOnes' = IF label = "ready" THEN LoadedOnes \cup {c} ELSE LoadedOnes \ {c}
         /\ ActiveOnes' = IF (Active(c))' THEN ActiveOnes \cup {c} ELSE ActiveOnes \ {c}
         /\ CallerOf' = [CallerOf EXCEPT ![c] =
                           IF label = "ready" \/ (Active(c))' THEN parent[c] ELSE Null]
<1>1. pc'[c] = label /\ c # Main
  BY DEF ProcessTypeOK
<1>2. ASSUME NEW d \in Procs, d # c
      PROVE  (At(d, "ready"))' = At(d, "ready") /\ (Active(d))' = Active(d)
  <2>1. pc'[d] = pc[d] /\ parent' = parent /\ childList' = childList
    BY <1>2 DEF ProcessTypeOK
  <2> QED
    BY <2>1 DEF At, Active
<1>3. (At(c, "ready"))' = (label = "ready")
  BY <1>1 DEF At
<1>4. LoadedOnes' = IF label = "ready" THEN LoadedOnes \cup {c} ELSE LoadedOnes \ {c}
  BY <1>2, <1>3 DEF LoadedOnes
<1>5. ActiveOnes' = IF (Active(c))' THEN ActiveOnes \cup {c} ELSE ActiveOnes \ {c}
  BY <1>1, <1>2 DEF ActiveOnes
<1>6. CallerOf' = [CallerOf EXCEPT ![c] =
                     IF label = "ready" \/ (Active(c))' THEN parent[c] ELSE Null]
  BY <1>2, <1>3 DEF CallerOf
<1> QED
  BY <1>4, <1>5, <1>6

\* c is loaded by a process that waits for its loading, and so calls nobody.
LEMMA LoadIsLoad ==
  ASSUME LinksInv, NEW c \in Procs, At(c, "loaded"), LoadUp(c)
  PROVE  \E p \in Procs \cup {Main} : Nested!Load(p, c)
<1>1. ProcessTypeOK /\ ParentsWait /\ MainAlive
  BY DEF LinksInv, ProcessInv
<1>2. pc' = [pc EXCEPT ![c] = "ready"] /\ UNCHANGED <<parent, childList>>
  BY DEF LoadUp, At, Goto
<1>3. parent[c] \in All /\ pc[parent[c]] = "exec_down"
  BY <1>1 DEF ParentsWait, Loading, At
<1>4. pc'[c] = "ready" /\ ~(Active(c))' /\ ~At(c, "ready") /\ ~Active(c)
  BY <1>1, <1>2 DEF ProcessTypeOK, At, Active
<1>5. /\ LoadedOnes' = LoadedOnes \cup {c} /\ ActiveOnes' = ActiveOnes \ {c}
      /\ CallerOf' = [CallerOf EXCEPT ![c] = parent[c]]
  BY <1>1, <1>2, <1>4, OneCallMoves DEF Labels
<1>6. c \notin LoadedOnes \cup ActiveOnes
  BY <1>4 DEF LoadedOnes, ActiveOnes
<1>7. parent[c] \in ActiveOnes
  BY <1>3 DEF ActiveOnes, Active
<1>8. ASSUME NEW d \in ActiveOnes \ {Main} PROVE CallerOf[d] # parent[c]
  <2>1. d \in Procs /\ Active(d) /\ CallerOf[d] = parent[d]
    BY DEF ActiveOnes, CallerOf
  <2> QED
    BY <1>3, <2>1, CallsAreNested
<1> QED
  BY <1>3, <1>5, <1>6, <1>7, <1>8
  DEF Nested!Load, Nested!Innermost, LoadedOnes, ActiveOnes, CallerOf, All

\* c starts when its parent has asked for it, and waits for it and nobody else.
LEMMA StartIsCall ==
  ASSUME LinksInv, NEW c \in Procs, Start(c)
  PROVE  \E p \in Procs \cup {Main} : Nested!Call(p, c)
<1>1. ProcessTypeOK /\ ParentsWait /\ MainAlive
  BY DEF LinksInv, ProcessInv
<1>2. /\ pc[c] = "ready" /\ exec[c] > 0
      /\ pc' = [pc EXCEPT ![c] = "user"] /\ UNCHANGED <<parent, childList>>
  BY DEF Start, At, Goto
<1>3. parent[c] \in All /\ pc[parent[c]] = "wait_down" /\ child[parent[c]] = c
  BY <1>1, <1>2 DEF ParentsWait
<1>4. pc'[c] = "user" /\ (Active(c))' /\ At(c, "ready")
  BY <1>1, <1>2 DEF ProcessTypeOK, At, Active
<1>5. /\ LoadedOnes' = LoadedOnes \ {c} /\ ActiveOnes' = ActiveOnes \cup {c}
      /\ CallerOf' = [CallerOf EXCEPT ![c] = parent[c]]
  BY <1>1, <1>2, <1>4, OneCallMoves DEF Labels
<1>6. c \in LoadedOnes /\ CallerOf[c] = parent[c] /\ CallerOf' = CallerOf
  <2>1. c \in LoadedOnes /\ CallerOf[c] = parent[c]
    BY <1>4 DEF LoadedOnes, CallerOf
  <2>2. CallerOf = [d \in Procs |-> CallerOf[d]]
    BY DEF CallerOf
  <2> QED
    BY <1>5, <2>1, <2>2
<1>7. parent[c] \in ActiveOnes
  BY <1>3 DEF ActiveOnes, Active
<1>8. ASSUME NEW d \in ActiveOnes \ {Main} PROVE CallerOf[d] # parent[c]
  <2>1. d \in Procs /\ Active(d) /\ CallerOf[d] = parent[d]
    BY DEF ActiveOnes, CallerOf
  <2>2. d # c
    BY <1>2, <2>1 DEF Active
  <2> QED
    BY <1>3, <2>1, <2>2, CallsAreNested
<1> QED
  BY <1>3, <1>5, <1>6, <1>7, <1>8
  DEF Nested!Call, Nested!Innermost, LoadedOnes, ActiveOnes, CallerOf, All

\* c returns when it calls nobody: by exit, or killed and not linked.
LEMMA EndIsReturn ==
  ASSUME LinksInv, NEW c \in Procs, pc[c] \in {"user", "exit_up"},
         pc' = [pc EXCEPT ![c] = "exit"], UNCHANGED <<parent, childList>>,
         ~Contains(childList[parent[c]], c)
  PROVE  Nested!Return(c)
<1>1. ProcessTypeOK /\ ParentsWait /\ MainAlive
  BY DEF LinksInv, ProcessInv
<1>2. pc'[c] = "exit" /\ ~(Active(c))' /\ Active(c) /\ ~At(c, "ready")
  BY <1>1 DEF ProcessTypeOK, At, Active
<1>3. /\ LoadedOnes' = LoadedOnes \ {c} /\ ActiveOnes' = ActiveOnes \ {c}
      /\ CallerOf' = [CallerOf EXCEPT ![c] = Null]
  BY <1>1, <1>2, OneCallMoves DEF Labels
<1>4. LoadedOnes' = LoadedOnes
  BY <1>2, <1>3 DEF LoadedOnes
<1>5. c \in ActiveOnes /\ c # Main
  BY <1>2 DEF ActiveOnes
<1>6. ASSUME NEW d \in ActiveOnes \ {Main} PROVE CallerOf[d] # c
  <2>1. d \in Procs /\ Active(d) /\ CallerOf[d] = parent[d]
    BY DEF ActiveOnes, CallerOf
  <2> QED
    BY <2>1, CallsAreNested
<1> QED
  BY <1>3, <1>4, <1>5, <1>6
  DEF Nested!Return, Nested!Innermost, LoadedOnes, ActiveOnes, CallerOf

\* exit ups the parent after the process has left its list.
LEMMA ExitUpIsReturn ==
  ASSUME LinksInv, NEW c \in All, ExitUp(c)
  PROVE  c \in Procs /\ Nested!Return(c)
<1>1. c \in Procs /\ pc[c] = "exit_up"
  BY DEF ExitUp, At, LinksInv, ProcessInv, MainAlive
<1>2. pc' = [pc EXCEPT ![c] = "exit"] /\ UNCHANGED <<parent, childList>>
  BY DEF ExitUp, Goto
<1>3. parent[c] \in All
  BY <1>1 DEF LinksInv, ProcessInv, ParentsWait
<1>4. ~Contains(childList[parent[c]], c)
  BY <1>1, <1>3 DEF LinksInv, KilledAwaited
<1> QED
  BY <1>1, <1>2, <1>4, EndIsReturn

\* A process that is killed while linked does not return; its callers wait on.
LEMMA KillOfLinked ==
  ASSUME LinksInv, NEW c \in Procs, Kill(c), Contains(childList[parent[c]], c)
  PROVE  LoadedOnes' = LoadedOnes /\ ActiveOnes' = ActiveOnes /\ CallerOf' = CallerOf
<1>1. ProcessTypeOK
  BY DEF LinksInv, ProcessInv
<1>2. /\ pc[c] = "user" /\ pc' = [pc EXCEPT ![c] = "exit"]
      /\ UNCHANGED <<parent, childList>>
  BY DEF Kill, At, Goto
<1>3. pc'[c] = "exit"
  BY <1>1, <1>2 DEF ProcessTypeOK
<1>4. ASSUME NEW d \in Procs, d # c
      PROVE  (At(d, "ready"))' = At(d, "ready") /\ (Active(d))' = Active(d)
  <2>1. pc'[d] = pc[d] /\ parent' = parent /\ childList' = childList
    BY <1>1, <1>2, <1>4 DEF ProcessTypeOK
  <2> QED
    BY <2>1 DEF At, Active
<1>5. (At(c, "ready"))' = At(c, "ready") /\ (Active(c))' = Active(c)
  BY <1>2, <1>3 DEF At, Active
<1> QED
  BY <1>2, <1>4, <1>5, CallsUntouched

\* Every step loads, calls or returns, or is nothing to the calls.
LEMMA CallSteps ==
  ASSUME LinksInv, [ProcessNext]_vars
  PROVE  Nested!Next \/ (LoadedOnes' = LoadedOnes /\ ActiveOnes' = ActiveOnes /\ CallerOf' = CallerOf)
<1> DEFINE Stutter == LoadedOnes' = LoadedOnes /\ ActiveOnes' = ActiveOnes
                        /\ CallerOf' = CallerOf
<1>1. CASE UNCHANGED vars
  <2>1. pc' = pc /\ parent' = parent /\ childList' = childList
    BY <1>1 DEF vars
  <2> QED
    BY <2>1 DEF LoadedOnes, ActiveOnes, CallerOf, At, Active
<1>2. ASSUME NEW p \in All, Choice(p) PROVE Nested!Next \/ Stutter
  <2>1. CASE Exec(p) \/ ExecNoTable(p)
    <3>1. PICK c \in Procs, label \in {"load", "unborn"}, tid \in Procs \cup {Null} :
            Create(p, c, label, tid)
      BY <2>1 DEF Exec, ExecNoTable
    <3> QED
      BY <3>1, CreateCalls
  <2>2. CASE Kill(p)
    <3>1. p \in Procs /\ pc[p] = "user" /\ pc' = [pc EXCEPT ![p] = "exit"]
          /\ UNCHANGED <<parent, childList>>
      BY <2>2 DEF Kill, At, Goto
    <3>2. CASE Contains(childList[parent[p]], p)
      BY <2>2, <3>1, <3>2, KillOfLinked
    <3>3. CASE ~Contains(childList[parent[p]], p)
      <4>1. Nested!Return(p)
        BY <3>1, <3>3, EndIsReturn
      <4> QED
        BY <3>1, <4>1 DEF Nested!Next
    <3> QED
      BY <3>2, <3>3
  <2>3. CASE ExecNoPage(p) \/ ExecNoThread(p) \/ Wait(p) \/ Exit(p)
    BY <2>3, QuietStep
  <2> QED
    BY <1>2, <2>1, <2>2, <2>3 DEF Choice
<1>3. ASSUME NEW p \in All, KernelStep(p) PROVE Nested!Next \/ Stutter
  <2>1. CASE LoadUp(p)
    <3>1. p \in Procs /\ (At(p, "loaded") \/ At(p, "failed"))
      BY <2>1 DEF LoadUp, At, LinksInv, ProcessInv, MainAlive
    <3>2. CASE At(p, "loaded")
      <4>1. \E q \in Procs \cup {Main} : Nested!Load(q, p)
        BY <2>1, <3>1, <3>2, LoadIsLoad
      <4> QED
        BY <3>1, <4>1 DEF Nested!Next
    <3>3. CASE At(p, "failed")
      BY <2>1, <3>3, QuietStep
    <3> QED
      BY <3>1, <3>2, <3>3
  <2>2. CASE Start(p)
    <3>1. p \in Procs
      BY <2>2 DEF Start, At, LinksInv, ProcessInv, MainAlive
    <3>2. \E q \in Procs \cup {Main} : Nested!Call(q, p)
      BY <2>2, <3>1, StartIsCall
    <3> QED
      BY <3>1, <3>2 DEF Nested!Next
  <2>3. CASE ExitUp(p)
    <3>1. p \in Procs /\ Nested!Return(p)
      BY <2>3, ExitUpIsReturn
    <3> QED
      BY <3>1 DEF Nested!Next
  <2>4. CASE FailRemove(p) \/ ExitRemove(p)
    BY <2>4, RemoveCalls
  <2>5. CASE \/ ExecDown(p) \/ ExecReturn(p) \/ Load(p) \/ WaitUp(p) \/ WaitDown(p)
             \/ WaitReturn(p) \/ ExitClose(p) \/ ThreadExit(p)
    BY <2>5, QuietStep
  <2> QED
    BY <1>3, <2>1, <2>2, <2>3, <2>4, <2>5 DEF KernelStep
<1> QED
  BY <1>1, <1>2, <1>3 DEF ProcessNext

\* process_execute, process_wait and exit amount to nested procedure calls
\* (ProgramCalls): only the innermost program runs, whatever fails.
THEOREM CallsRefine == ProcessSpec => ImplementsCalls
<1>1. ProcessInit => Nested!Init
  <2> SUFFICES ASSUME ProcessInit PROVE Nested!Init
    OBVIOUS
  <2>1. \A c \in Procs : ~At(c, "ready") /\ ~Active(c)
    BY DEF ProcessInit, At, Active
  <2> QED
    BY <2>1 DEF Nested!Init
<1>2. LinksInv /\ [ProcessNext]_vars => [Nested!Next]_(Nested!callVars)
  BY CallSteps DEF Nested!callVars, LoadedOnes, ActiveOnes, CallerOf
<1> QED
  BY <1>1, <1>2, LinksInvariant, PTL DEF ProcessSpec, ImplementsCalls, Nested!Calls
=============================================================================
