------------------------------ MODULE FileStore ------------------------------
(***************************************************************************)
(* What the file system promises its programs: a name leads to one file, a *)
(* file that is open or has a name keeps its contents until somebody       *)
(* writes to that very file, a removed file lives on for those who have it *)
(* open, and a restart keeps the files that have a name.                   *)
(***************************************************************************)
EXTENDS Naturals, Sequences

CONSTANTS Names, Files, Values, Sizes, Null

VARIABLES
  names,   \* the file each name leads to, or Null
  body,    \* the contents of each file that exists
  held     \* the files somebody has open

vars == <<names, body, held>>

IsNamed(f) == \E n \in Names : names[n] = f

Init ==
  /\ names = [n \in Names |-> Null]
  /\ body = [f \in Files |-> Null]
  /\ held = {}

\* A new file has zeros only.
Create(n, f) ==
  /\ names[n] = Null /\ body[f] = Null
  /\ names' = [names EXCEPT ![n] = f]
  /\ \E length \in Sizes : body' = [body EXCEPT ![f] = [i \in 1..length |-> 0]]
  /\ UNCHANGED held

\* The one who removes a name has the file open for that time.
Remove(n) ==
  /\ names[n] # Null
  /\ names' = [names EXCEPT ![n] = Null]
  /\ held' = held \cup {names[n]}
  /\ UNCHANGED body

Open(f) ==
  /\ IsNamed(f)
  /\ held' = held \cup {f}
  /\ UNCHANGED <<names, body>>

\* The last close of a file without a name is its end.
Close(f) ==
  /\ f \in held
  /\ held' = held \ {f}
  /\ body' = IF IsNamed(f) THEN body ELSE [body EXCEPT ![f] = Null]
  /\ UNCHANGED names

Write(f) ==
  /\ f \in held
  /\ \E i \in DOMAIN body[f], v \in Values : body' = [body EXCEPT ![f][i] = v]
  /\ UNCHANGED <<names, held>>

Restart ==
  /\ held' = {}
  /\ body' = [f \in Files |-> IF IsNamed(f) THEN body[f] ELSE Null]
  /\ UNCHANGED names

Next ==
  \/ \E n \in Names : Remove(n) \/ \E f \in Files : Create(n, f)
  \/ \E f \in Files : Open(f) \/ Close(f) \/ Write(f)
  \/ Restart

Spec == Init /\ [][Next]_vars
=============================================================================
