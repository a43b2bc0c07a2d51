---------------------------- MODULE ProgramCalls ----------------------------
(***************************************************************************)
(* What process_execute and process_wait amount to in this kernel: a       *)
(* program that is loaded waits to be called, process_wait calls it, and   *)
(* its exit returns to the caller.  Programs do not run concurrently: the  *)
(* running ones are nested like the activations of procedures.             *)
(***************************************************************************)
CONSTANTS Main, Procs, None

VARIABLES
  loaded,   \* the programs that have been loaded and not called
  active,   \* the threads that have been called and have not returned
  caller    \* of each program in loaded or active

callVars == <<loaded, active, caller>>

Init ==
  /\ loaded = {}
  /\ active = {Main}
  /\ caller = [c \in Procs |-> None]

\* p has called no program that has not returned.
Innermost(p) == p \in active /\ \A c \in active \ {Main} : caller[c] # p

Load(p, c) ==
  /\ Innermost(p)
  /\ c \notin loaded \cup active
  /\ loaded' = loaded \cup {c}
  /\ caller' = [caller EXCEPT ![c] = p]
  /\ UNCHANGED active

Call(p, c) ==
  /\ Innermost(p)
  /\ c \in loaded /\ caller[c] = p
  /\ loaded' = loaded \ {c}
  /\ active' = active \cup {c}
  /\ UNCHANGED caller

Return(c) ==
  /\ Innermost(c) /\ c # Main
  /\ active' = active \ {c}
  /\ caller' = [caller EXCEPT ![c] = None]
  /\ UNCHANGED loaded

Next ==
  \/ \E c \in Procs : Return(c)
  \/ \E p \in Procs \cup {Main}, c \in Procs : Load(p, c) \/ Call(p, c)

Calls == Init /\ [][Next]_callVars
=============================================================================
