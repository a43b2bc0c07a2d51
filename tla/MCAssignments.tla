---------------------------- MODULE MCAssignments ----------------------------
\* Inputs of the five algorithm assignments for TLC: a behaviour runs one of them.
EXTENDS Sorting, MaxSum, SubsetSum, DagPath, Polygon

\* Arrays of two keys and of distinct ones, long enough for a partition of each sort.
SomeArrays ==
  [0..8 -> {1, 2}] \cup UNION {[0..n -> 1..3] : n \in 0..3}
  \cup {[x \in 0..9 |-> (a * x + b) % 11] : a \in {1, 3, 7, 10}, b \in 0..10}
SomeLists == UNION {[0..n -> {-3, -1, 0, 2}] : n \in 0..3}
SomeSquares == UNION {[(0..n) \X (0..n) -> {-2, 0, 1}] : n \in 0..1}
               \cup [(0..2) \X (0..2) -> {-1, 1}]
BelowAllSums == -10000000
SomeNumbers == UNION {[0..n -> {1, 2, 3, 7}] : n \in 0..2} \cup [0..3 -> {5, 6, 11}]
SomeEpsilons == {<<1, 5>>, <<1, 1>>}
GraphOf(n, E) ==
  [x \in 0..(n - 1) |-> SelectSeq([y \in 1..n |-> [to |-> y - 1, cost |-> (3 * x + 2 * y) % 4]],
                                  LAMBDA e : <<x, e.to>> \in E)]
SomeDigraphs ==
  {[g |-> GraphOf(3, E), source |-> 0, dest |-> 2] : E \in SUBSET ((0..2) \X (0..2))}
  \cup {[g |-> GraphOf(4, E), source |-> 1, dest |-> 3] :
          E \in SUBSET {p \in (0..3) \X (0..3) : p[1] # p[2]}}
SomePolygons ==
  UNION {{[n |-> n, length |-> l] : l \in [Chords(n) -> 1..3]} : n \in 4..5}
  \cup {[n |-> 6, length |-> l] : l \in [Chords(6) -> {2, 3}]}

assignmentVars == <<sort, best, subset, dagPathVars, polygon>>
AssignmentsInit ==
  SortingInit /\ MaxSumInit /\ SubsetSumInit /\ DagPathInit /\ PolygonInit
\* The first step chooses which program runs.
Begun == ~AssignmentsInit
AssignmentsNext ==
  \/ /\ sort # Unsorted \/ ~Begun
     /\ SortingNext /\ UNCHANGED <<best, subset, dagPathVars, polygon>>
  \/ ~Begun /\ MaxSumMain /\ UNCHANGED <<sort, subset, dagPathVars, polygon>>
  \/ ~Begun /\ SubsetSumMain /\ UNCHANGED <<sort, best, dagPathVars, polygon>>
  \/ /\ path.op # "none" \/ ~Begun
     /\ DagPathNext /\ UNCHANGED <<sort, best, subset, polygon>>
  \/ ~Begun /\ PolygonMain /\ UNCHANGED <<sort, best, subset, dagPathVars>>
=============================================================================
