------------------------------- MODULE Sorting -------------------------------
(***************************************************************************)
(* The four sorts of CSE3081/HW2 (my_quick_sorts.cpp).  An element is its   *)
(* key; a call of a sort is a state machine whose steps are the calls of    *)
(* the recursive sorts, the rounds of the iterative one and the ranges that *)
(* the last one pops from its stack.  Indices begin at 0; SIZE_MAX, to      *)
(* which size_t wraps, is -1.                                               *)
(***************************************************************************)
EXTENDS Integers, Sequences, SequencesExt, FiniteSets

CONSTANTS
  Arrays,          \* arrays to sort: functions from 0..n-1 to keys, n > 0
  InsertBelow      \* 20 in the code: below it qsort_median_insert inserts

ASSUME SortingAssumption ==
  /\ InsertBelow \in Nat \ {0}
  /\ \A A \in Arrays : LET n == Cardinality(DOMAIN A)
                       IN n \in Nat \ {0} /\ A \in [0..(n - 1) -> Int]

\* The sort that runs and what it was given; the array as it is; the ranges it still
\* has to sort, the next one first; and where it has read outside the array.
VARIABLE sort

Sorts == {"qsort_orig", "qsort_median_insert", "qsort_median_insert_iter", "qsort_final"}
Unsorted == [fn |-> "none", given |-> <<>>, array |-> <<>>, todo |-> <<>>, outside |-> FALSE]
SortingInit == sort = Unsorted

Swap(A, i, j) == [A EXCEPT ![i] = A[j], ![j] = A[i]]

\* med3, of three positions.
med3(A, a, b, c) ==
  IF A[a] < A[b] THEN (IF A[b] < A[c] THEN b ELSE IF A[a] < A[c] THEN c ELSE a)
                 ELSE (IF A[b] > A[c] THEN b ELSE IF A[a] < A[c] THEN a ELSE c)

\* The median of three medians, of the elements from L to R.
Ninther(A, L, R) ==
  LET len == R - L + 1
      p == len \div 8
      mid == L + len \div 2
  IN med3(A, med3(A, L, L + p, L + 2 * p), med3(A, mid - p, mid, mid + p),
             med3(A, R - 2 * p, R - p, R))

\* partition of the n elements from S on: elements up to the pivot go before it.
Partition(A, S, n, pivot) ==
  LET p == A[S + pivot]
      kept(acc, i) == IF acc.A[i] <= p THEN [A |-> Swap(acc.A, acc.k, i), k |-> acc.k + 1] ELSE acc
      r == FoldLeft(kept, [A |-> Swap(A, S + pivot, S + n - 1), k |-> S],
                    [x \in 1..(n - 1) |-> S + x - 1])
  IN [A |-> Swap(r.A, S + n - 1, r.k), k |-> r.k - S]

\* insertion_sort of the n > 0 elements from S on, from the last but one to the first:
\* an element goes behind the smaller ones that follow it.
insertion_sort(A, S, n) ==
  LET smaller(B, i) == {x \in (i + 1)..(S + n - 1) : \A y \in (i + 1)..x : B[y] < B[i]}
      insert(B, i) ==
        LET j == i + Cardinality(smaller(B, i))
        IN [x \in DOMAIN B |-> IF x \in i..(j - 1) THEN B[x + 1] ELSE IF x = j THEN B[i] ELSE B[x]]
  IN FoldLeft(insert, A, [x \in 1..(n - 1) |-> S + n - 1 - x])

----------------------------------------------------------------------------

\* main calls one of the sorts for the whole array.
Whole(fn, n) ==
  CASE fn = "qsort_final" -> [l |-> 0, r |-> n - 1]
    [] fn = "qsort_median_insert_iter" -> [A |-> 0, S |-> 0, j |-> n - 1]
    [] OTHER -> [S |-> 0, n |-> n]
SortMain ==
  /\ sort.fn = "none"
  /\ \E fn \in Sorts, A \in Arrays :
       sort' = [fn |-> fn, given |-> A, array |-> A, outside |-> FALSE,
                todo |-> <<Whole(fn, Cardinality(DOMAIN A))>>]

NextRange == Head(sort.todo)
Calls(fn) == sort.fn = fn /\ sort.todo # <<>> /\ ~sort.outside
Continue(A, ranges) ==
  sort' = [sort EXCEPT !.array = A, !.todo = ranges \o Tail(sort.todo)]

\* The two parts that the recursive sorts go on with.
Parts(S, n, k) == <<[S |-> S, n |-> k], [S |-> S + k + 1, n |-> n - k - 1]>>

qsort_orig ==
  /\ Calls("qsort_orig")
  /\ LET part == Partition(sort.array, NextRange.S, NextRange.n, 0)
     IN IF NextRange.n > 1 THEN Continue(part.A, Parts(NextRange.S, NextRange.n, part.k))
        ELSE Continue(sort.array, <<>>)

\* median of three random positions: any position.  A part without elements is not called for.
Call(S, n) == IF n > 0 THEN <<[S |-> S, n |-> n]>> ELSE <<>>
qsort_median_insert ==
  /\ Calls("qsort_median_insert")
  /\ IF NextRange.n < InsertBelow
     THEN Continue(insertion_sort(sort.array, NextRange.S, NextRange.n), <<>>)
     ELSE \E pivot \in 0..(NextRange.n - 1) :
            LET S == NextRange.S
                n == NextRange.n
                part == Partition(sort.array, S, n, pivot)
            IN Continue(part.A, Call(S, part.k) \o Call(S + part.k + 1, n - part.k - 1))

\* One round of the loop.  The pivot is looked for from A on, where the call began,
\* and used from S on, where the rest begins.
IterCall(S, n) == IF n > 0 THEN <<[A |-> S, S |-> S, j |-> n - 1]>> ELSE <<>>
qsort_median_insert_iter ==
  /\ Calls("qsort_median_insert_iter")
  /\ LET f == NextRange
         part == Partition(sort.array, f.S, f.j + 1, Ninther(sort.array, f.A, f.A + f.j) - f.A)
         k == part.k
     IN \/ f.j = 0 /\ Continue(sort.array, <<>>)
        \/ f.j \in 1..6 /\ Continue(insertion_sort(sort.array, f.S, f.j + 1), <<>>)
        \/ /\ f.j > 6 /\ k > f.j - k
           /\ Continue(part.A, IterCall(f.S + k + 1, f.j - k) \o <<[f EXCEPT !.j = k - 1]>>)
        \/ /\ f.j > 6 /\ k <= f.j - k
           /\ Continue(part.A, IterCall(f.S, k) \o <<[f EXCEPT !.S = @ + k + 1, !.j = @ - k - 1]>>)

\* A round of qsort_final's inner loop: two scans, from I up and from J down; if they do
\* not meet, what they stopped at is swapped, and then put at the ends where it equals the
\* pivot, which is at l.
Round(l, r, s) ==
  LET A == s.A
      t == A[l]
      I == CHOOSE x \in (s.I + 1)..r : /\ x = r \/ A[x] >= t
                                       /\ \A y \in (s.I + 1)..(x - 1) : A[y] < t
      J == CHOOSE x \in l..(s.J - 1) : /\ x = l \/ A[x] <= t
                                       /\ \A y \in (x + 1)..(s.J - 1) : A[y] > t
      B == Swap(A, I, J)
      P == IF B[I] = t THEN s.P + 1 ELSE s.P
      C == IF B[I] = t THEN Swap(B, P, I) ELSE B
      Q == IF C[J] = t THEN s.Q - 1 ELSE s.Q
      D == IF C[J] = t THEN Swap(C, Q, J) ELSE C
  IN IF I >= J THEN [s EXCEPT !.I = I, !.J = J] ELSE [A |-> D, I |-> I, J |-> J, P |-> P, Q |-> Q]
\* Rounds until the scans have met; each comes nearer by two.
Scans(A, l, r) ==
  FoldLeft(LAMBDA s, x : IF s.I < s.J THEN Round(l, r, s) ELSE s,
           [A |-> A, I |-> l, J |-> r + 1, P |-> l, Q |-> r + 1], [x \in 1..(r + 1 - l) |-> x])

\* Mutant of SplitFinal: the elements equal to the pivot stay at the left end.
SplitFinal_ends(A, l, r) ==
  LET s == Scans(Swap(A, Ninther(A, l, r), l), l, r)
  IN [A |-> Swap(s.A, l, s.J),
      parts |-> <<[l |-> s.J + 1 + (r + 1 - s.Q), r |-> r],
                  [l |-> l, r |-> s.J - 1 - (s.P - l)]>>]

\* ... and are swapped to the middle; the parts left and right of them are returned.
SplitFinal(A, l, r) ==
  LET s == Scans(Swap(A, Ninther(A, l, r), l), l, r)
      left == FoldLeft(LAMBDA B, x : Swap(B, l + x, s.J - x), Swap(s.A, l, s.J),
                       [x \in 1..(s.P - l) |-> x])
      right == FoldLeft(LAMBDA B, x : Swap(B, r + 1 - x, s.J + x), left,
                        [x \in 1..(r + 1 - s.Q) |-> x])
  IN [A |-> right,
      parts |-> <<[l |-> s.J + 1 + (r + 1 - s.Q), r |-> r],
                  [l |-> l, r |-> s.J - 1 - (s.P - l)]>>]

\* A range popped.  One that begins at 0 and ends at SIZE_MAX has length 0, and
\* insertion_sort of no element begins in front of the array.
qsort_final ==
  /\ Calls("qsort_final")
  /\ LET l == NextRange.l
         r == NextRange.r
     IN \/ r = -1 /\ l = 0 /\ sort' = [sort EXCEPT !.outside = TRUE]
        \/ r # -1 /\ l >= r /\ Continue(sort.array, <<>>)
        \/ l < r /\ r - l < 8 /\ Continue(insertion_sort(sort.array, l, r - l + 1), <<>>)
        \/ /\ l < r /\ r - l >= 8
           /\ LET split == SplitFinal(sort.array, l, r) IN Continue(split.A, split.parts)

SortingNext ==
  SortMain \/ qsort_orig \/ qsort_median_insert \/ qsort_median_insert_iter \/ qsort_final
SortingSpec == SortingInit /\ [][SortingNext]_sort

----------------------------------------------------------------------------
\* Properties

\* A sort that has returned leaves the elements it was given, in order.
Sorted(A, given) ==
  /\ \A i, j \in DOMAIN A : i < j => A[i] <= A[j]
  /\ \A k \in {given[i] : i \in DOMAIN given} :
       Cardinality({i \in DOMAIN A : A[i] = k}) = Cardinality({i \in DOMAIN given : given[i] = k})
\* Every sort of my_quick_sorts.cpp sorts whatever it is given; only qsort_final may
\* read outside the array, and only where a key is given twice (the pivot is then
\* the least of the range from 0 on, and my_quick_sorts.cpp:215 pushes 0 - 1).
SortsCorrectly ==
  /\ sort.fn # "none" /\ sort.todo = <<>> => Sorted(sort.array, sort.given)
  /\ sort.outside => /\ sort.fn = "qsort_final"
                     /\ \E i, j \in DOMAIN sort.given : i # j /\ sort.given[i] = sort.given[j]
=============================================================================
