------------------------------ MODULE SubsetSum ------------------------------
(***************************************************************************)
(* The subset-sum programs: by a table of reachable sums (CSE3081/HW3,      *)
(* 3_2.c), and by merging lists of sums, exactly or with a trimmed list     *)
(* (HW4, 4_2.cpp).  The set is a function from 0..n-1 to numbers, a pair    *)
(* of 4_2 a sum with the indices in its bit mask.                           *)
(***************************************************************************)
EXTENDS Integers, Sequences, SequencesExt, FiniteSets, FiniteSetsExt

CONSTANTS
  Numbers,        \* the sets
  Limits,         \* the sums wanted, L
  Epsilons        \* pairs <<a, b>> for epsilon = a / b, at most 1

MaxInt == 2147483647
\* A pair has a bit of an int for each element (4_2.cpp:15), and a sum up to the limit and
\* one element more fit in its unsigned int (4_2.cpp:14).
ASSUME SubsetSumAssumption ==
  /\ Limits \subseteq Nat /\ \A L \in Limits : L <= MaxInt
  /\ \A e \in Epsilons : e \in (Nat \ {0}) \X (Nat \ {0}) /\ e[1] <= e[2]
  /\ \A S \in Numbers :
       LET n == Cardinality(DOMAIN S)
       IN n \in 1..31 /\ S \in [0..(n - 1) -> Nat] /\ \A i \in DOMAIN S : S[i] <= MaxInt

VARIABLE subset   \* the program that ran, its input and its answer

SubsetSumInit == subset = [op |-> "none"]

LastColumn == 111110   \* of d in 3_2.c
\* The table d: which sums up to L the elements up to i reach.
row(before, x, L) == [j \in 0..L |-> j = 0 \/ before[j] \/ (j >= x /\ before[j - x])]
Table(set, n, L) ==
  LET d[i \in 0..(n - 1)] ==
        IF i = 0 THEN [j \in 0..L |-> j = 0 \/ j = set[0]] ELSE row(d[i - 1], set[i], L)
  IN d

\* Mutant of select: the row of the element itself is asked, not the one before it.
select_row(d, set, left, i) ==
  IF d[i][left.L] THEN left ELSE [L |-> left.L - set[i], sel |-> left.sel \cup {i}]
\* Element i is selected unless the elements before it reach what is left.
select(d, set, left, i) ==
  IF IF i > 0 THEN d[i - 1][left.L] ELSE left.L = 0 THEN left
  ELSE [L |-> left.L - set[i], sel |-> left.sel \cup {i}]
\* From the last element back.
Selected(d, set, n, L) ==
  LET left[k \in 0..n] ==
        IF k = 0 THEN [L |-> L, sel |-> {}] ELSE select(d, set, left[k - 1], n - k)
  IN left[n].sel

ByTable(set, n, L) ==
  LET d == Table(set, n, L)
      found == L > 0 /\ d[n - 1][L]
  IN [found |-> found, sel |-> IF found THEN Selected(d, set, n, L) ELSE {}]

----------------------------------------------------------------------------

\* The next pair of P or T, by its sum; of two equal ones that of T.
TakeNext(P, T, m) ==
  IF m.i <= Len(P) /\ (m.j > Len(T) \/ P[m.i].sum < T[m.j].sum)
  THEN [m EXCEPT !.i = @ + 1, !.list = Append(@, P[m.i])]
  ELSE [m EXCEPT !.j = @ + 1, !.list = Append(@, T[m.j])]
\* merge: the pairs of P, and those with x and idx added.
merge(P, x, idx) ==
  LET T == [i \in 1..Len(P) |-> [sum |-> P[i].sum + x, mask |-> P[i].mask \cup {idx}]]
      merged[k \in 0..(2 * Len(P))] ==
        IF k = 0 THEN [i |-> 1, j |-> 1, list |-> <<>>] ELSE TakeNext(P, T, merged[k - 1])
  IN merged[2 * Len(P)].list

\* trim by delta = a / (2 n b): a pair stays when it exceeds the last that stayed.
KeepNext(kept, q, n, e) ==
  IF q.sum * (2 * n * e[2]) > Last(kept).sum * (2 * n * e[2] + e[1]) THEN Append(kept, q) ELSE kept
trim(P, n, e) ==
  LET kept[k \in 0..(Len(P) - 1)] ==
        IF k = 0 THEN <<P[1]>> ELSE KeepNext(kept[k - 1], P[k + 1], n, e)
  IN kept[Len(P) - 1]

\* Pairs at the end above the limit are erased.
UpToLimit(P, L) == SubSeq(P, 1, Max({i \in DOMAIN P : P[i].sum <= L}))
\* The sums of the first elements up to the limit, trimmed after each for e # <<>>.
AddElement(P, x, idx, n, L, e) ==
  LET longer == merge(P, x, idx) IN UpToLimit(IF e = <<>> THEN longer ELSE trim(longer, n, e), L)
SumLists(n, S, L, e) ==
  LET list[i \in 0..n] ==
        IF i = 0 THEN <<[sum |-> 0, mask |-> {}]>> ELSE AddElement(list[i - 1], S[i - 1], i - 1, n, L, e)
  IN list
exact(n, L, S) == Last(SumLists(n, S, L, <<>>)[n])
approx(n, e, L, S) == Last(SumLists(n, S, L, e)[n])

\* The two mains, for one test case.
SubsetSumMain ==
  /\ subset.op = "none"
  /\ \E S \in Numbers, L \in Limits :
       LET n == Cardinality(DOMAIN S) IN
         \/ /\ \A x \in {L} \cup Range(S) : x <= LastColumn
            /\ subset' = [op |-> "table", S |-> S, L |-> L, answer |-> ByTable(S, n, L)]
         \/ \E e \in Epsilons :
              subset' = [op |-> "lists", S |-> S, L |-> L, e |-> e,
                         exact |-> exact(n, L, S), approx |-> approx(n, e, L, S)]
SubsetSumSpec == SubsetSumInit /\ [][SubsetSumMain]_subset

----------------------------------------------------------------------------
\* Properties

\* The table finds the sum wanted exactly where some elements have it, and selects
\* such elements; exact finds the greatest sum up to the limit, and approx one that is
\* at most epsilon away, both with the elements that have it.
SubsetSums(S) == {SumFunctionOnSet(S, s) : s \in SUBSET DOMAIN S}
SubsetsFound ==
  LET S == subset.S
      L == subset.L
  IN CASE subset.op = "none" -> TRUE
       [] subset.op = "table" ->
            /\ subset.answer.found <=> L > 0 /\ L \in SubsetSums(S)
            /\ subset.answer.found => SumFunctionOnSet(S, subset.answer.sel) = L
       [] subset.op = "lists" ->
            /\ subset.exact.sum = Max({s \in SubsetSums(S) : s <= L})
            /\ subset.approx.sum <= L
            /\ subset.approx.sum * (subset.e[1] + subset.e[2]) >= subset.exact.sum * subset.e[2]
            /\ \A a \in {subset.exact, subset.approx} : SumFunctionOnSet(S, a.mask) = a.sum
=============================================================================
