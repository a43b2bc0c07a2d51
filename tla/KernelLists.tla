---------------------------- MODULE KernelLists ----------------------------
(***************************************************************************)
(* The two operations of lib/kernel/list.c that the scheduler and the      *)
(* semaphores use for more than a queue.  A struct list is a sequence of   *)
(* the objects its elements are embedded in.                               *)
(***************************************************************************)
EXTENDS Integers, Sequences, SequencesExt

\* list_insert_ordered(list, x, less): x goes before the first element that
\* is greater than x, or to the end.  Both comparison functions of the kernel
\* compare one integer member, given here as the function key; elements with
\* equal keys keep their order of arrival.
InsertOrdered(list, x, key) ==
  LET greater == {i \in 1..Len(list) : key[x] < key[list[i]]}
  IN  IF greater = {} THEN Append(list, x)
                      ELSE InsertAt(list, Min(greater), x)

\* The order list_insert_ordered relies on and is to preserve.
IsOrdered(list, key) ==
  \A i, j \in 1..Len(list) : i < j => key[list[i]] <= key[list[j]]

\* No object is linked twice into the list.
IsLinkedOnce(list) ==
  \A i, j \in 1..Len(list) : i # j => list[i] # list[j]
=============================================================================
