-------------------------------- MODULE MaxSum --------------------------------
(***************************************************************************)
(* The maximum-sum subarray and subrectangle programs of CSE3081/HW1        *)
(* (main.c): an input is an array, a function from 0..n-1 to numbers, or an *)
(* n by n array of them, an answer the sum and the first and last indices.  *)
(* A program is one step, from its input to its answer.                     *)
(***************************************************************************)
EXTENDS Integers, Sequences, SequencesExt, FiniteSets, FiniteSetsExt

CONSTANTS
  Lists,          \* the arrays
  Squares,        \* the square arrays: functions from pairs
  LeastCentre     \* -10000000 in the code: below any sum of the inputs

VARIABLE best     \* the program that ran, its input and its answer

MaxSumInit == best = [op |-> 0]

IntMin == -2147483647 - 1
Nothing == [sum |-> IntMin]
SumOf(A, i, j) == SumFunctionOnSet(A, i..j)
SumIn(A, k, l, i, j) == SumFunctionOnSet(A, (k..l) \X (i..j))
Size(A) == Cardinality(DOMAIN A)
SquareSize(A) == Cardinality({x[1] : x \in DOMAIN A})

ASSUME MaxSumAssumption ==
  /\ LeastCentre \in IntMin..0
  /\ \A A \in Lists :
       /\ Size(A) \in Nat \ {0} /\ A \in [0..(Size(A) - 1) -> Int]
       /\ \A i \in DOMAIN A : \A j \in i..(Size(A) - 1) : SumOf(A, i, j) > LeastCentre
  /\ \A A \in Squares :
       LET I == 0..(SquareSize(A) - 1)
       IN /\ SquareSize(A) \in Nat \ {0} /\ A \in [I \X I -> Int]
          /\ \A k, l, i, j \in I : k <= l /\ i <= j => SumIn(A, k, l, i, j) > IntMin

\* "if (s < tmp)": of several greatest sums the first one found is kept.
Better(old, new) == IF old.sum < new.sum THEN new ELSE old
\* What a loop keeps of the sums it finds, in their order.
BestOf(first, found) == FoldLeft(Better, first, found)

\* Two loops, of i and of j from i on, that look for the greatest sum: found[<<i, j>>] is
\* what there is for i and j.
Ranges(n) == {r \in (0..(n - 1)) \X (0..(n - 1)) : r[1] <= r[2]}
BestOfRanges(n, found) ==
  LET of(i) == BestOf(Nothing, [y \in 1..(n - i) |-> found[<<i, i + y - 1>>]])
  IN BestOf(Nothing, [x \in 1..n |-> of(x - 1)])

\* Every sum from i to j.
Algorithm1(A, n) ==
  BestOfRanges(n, [r \in Ranges(n) |-> [sum |-> SumOf(A, r[1], r[2]), i |-> r[1], j |-> r[2]]])

\* The greatest sums of Algorithm2_recur that end at the middle and that start after it.
\* (Where there is none, with two elements, to is not set: f stands for any index.)
Centre(A, f, len) ==
  LET mid == f + len \div 2
      least == [sum |-> LeastCentre, end |-> f]
      lmax == BestOf(least, [x \in 1..(mid - f + 1) |->
                               [sum |-> SumOf(A, mid + 1 - x, mid), end |-> mid + 1 - x]])
      rmax == BestOf(least, [x \in 1..(f + len - mid - 1) |->
                               [sum |-> SumOf(A, mid + 1, mid + x), end |-> mid + x]])
  IN [sum |-> lmax.sum + rmax.sum, at |-> <<lmax.end, rmax.end>>]
\* Where the calls for the halves wrote *s and *e, the last of them, which the caller
\* overwrites only if its own centre wins.
Greatest(left, right, centre) ==
  LET written == IF right.at = <<>> THEN left.at ELSE right.at
  IN CASE left.sum >= right.sum /\ left.sum >= centre.sum -> [sum |-> left.sum, at |-> written]
       [] right.sum > left.sum /\ right.sum > centre.sum -> [sum |-> right.sum, at |-> written]
       [] OTHER -> centre
\* Algorithm2_recur of len elements from f on, for every <<f, len>>.
Recur(A, n) ==
  LET recur[c \in Nat \X (0..n)] ==
        LET f == c[1]
            mid == c[2] \div 2
        IN CASE c[2] = 0 -> [sum |-> 0, at |-> <<>>]
             [] c[2] = 1 -> [sum |-> A[f], at |-> <<>>]
             [] OTHER -> Greatest(recur[<<f, mid>>], recur[<<f + mid, c[2] - mid>>], Centre(A, f, c[2]))
  IN recur
Algorithm2(A, n) == Recur(A, n)[<<0, n>>]

\* In one pass; a sum that is not positive is left behind.
Pass(A, b, j) ==
  LET tmp == IF b.tmp > 0 THEN b.tmp + A[j] ELSE A[j]
      i == IF b.tmp > 0 THEN b.i ELSE j
  IN [tmp |-> tmp, i |-> i, best |-> Better(b.best, [sum |-> tmp, i |-> i, j |-> j])]
Algorithm3(A, n) ==
  FoldLeft(LAMBDA b, x : Pass(A, b, x - 1), [tmp |-> 0, i |-> 0, best |-> Nothing],
           [x \in 1..n |-> x]).best

----------------------------------------------------------------------------

\* Sums of the rows k..l and columns i..j, from prefix sums.
PS(A, i, j) == SumIn(A, 0, i - 1, 0, j - 1)
Area(A, k, i, l, j) == PS(A, l + 1, j + 1) - PS(A, l + 1, i) - PS(A, k, j + 1) + PS(A, k, i)
Algorithm4(A, n) ==
  BestOfRanges(n, [c \in Ranges(n) |->
    BestOfRanges(n, [r \in Ranges(n) |->
      [sum |-> Area(A, r[1], c[1], r[2], c[2]), k |-> r[1], i |-> c[1], l |-> r[2], j |-> c[2]]])])

\* Mutant of PassNegative: a sum left behind is still where the next one starts.
PassNegative_start(tmp, b, i) ==
  LET local == b.local + tmp[i]
  IN IF local < 0 THEN [b EXCEPT !.local = 0]
     ELSE [b EXCEPT !.local = local, !.best = Better(@, [sum |-> local, s |-> b.start, e |-> i])]
\* Algorithm5_sub: a negative sum is left behind, and where all are negative the
\* greatest one is looked for.
PassNegative(tmp, b, i) ==
  LET local == b.local + tmp[i]
  IN IF local < 0 THEN [b EXCEPT !.local = 0, !.start = i + 1]
     ELSE [b EXCEPT !.local = local, !.best = Better(@, [sum |-> local, s |-> b.start, e |-> i])]
Algorithm5_sub(tmp, n) ==
  LET some == FoldLeft(LAMBDA b, x : PassNegative(tmp, b, x - 1),
                       [local |-> 0, start |-> 0, best |-> Nothing], [x \in 1..n |-> x]).best
      single(i) == [sum |-> tmp[i], s |-> i, e |-> i]
  IN IF some # Nothing THEN some ELSE BestOf(single(0), [x \in 1..(n - 1) |-> single(x)])

\* For every range of columns, of the sums of the rows in it.
RowSums(A, n, c) == [k \in 0..(n - 1) |-> SumIn(A, k, k, c[1], c[2])]
Algorithm5(A, n) ==
  BestOfRanges(n, [c \in Ranges(n) |->
    LET local == Algorithm5_sub(RowSums(A, n, c), n)
    IN [sum |-> local.sum, k |-> local.s, i |-> c[1], l |-> local.e, j |-> c[2]]])

\* main: the program that the configuration names, of one of its inputs.
MaxSumMain ==
  /\ best.op = 0
  /\ \/ \E A \in Lists, op \in 1..3 :
          best' = [op |-> op, A |-> A, n |-> Size(A),
                   answer |-> CASE op = 1 -> Algorithm1(A, Size(A)) [] op = 2 -> Algorithm2(A, Size(A))
                                [] op = 3 -> Algorithm3(A, Size(A))]
     \/ \E A \in Squares, op \in 4..5 :
          LET n == SquareSize(A)
          IN best' = [op |-> op, A |-> A, n |-> n,
                      answer |-> IF op = 4 THEN Algorithm4(A, n) ELSE Algorithm5(A, n)]
MaxSumSpec == MaxSumInit /\ [][MaxSumMain]_best

----------------------------------------------------------------------------
\* Properties

SubarraySums(A, n) == {SumOf(A, r[1], r[2]) : r \in Ranges(n)}
RectangleSums(A, n) == {SumIn(A, r[1], r[2], c[1], c[2]) : r \in Ranges(n), c \in Ranges(n)}
\* The answers of all programs but the second are the greatest sum and where it is;
\* the second one's is never greater, nor less than the greatest element.  (Its middle
\* part reaches from left of the middle to right of it, and leaves out the ranges that
\* end at the middle: it answers 1 for two ones, against "find max-sum subarray with
\* O(nlgn)", main.c:70.)
BestSumsFound ==
  LET A == best.A
      a == best.answer
  IN CASE best.op = 0 -> TRUE
       [] best.op \in {1, 3} -> a.sum = Max(SubarraySums(A, best.n)) /\ a.sum = SumOf(A, a.i, a.j)
       [] best.op = 2 -> /\ a.sum <= Max(SubarraySums(A, best.n))
                         /\ a.sum >= Max({A[x] : x \in DOMAIN A})
       [] OTHER -> /\ a.sum = Max(RectangleSums(A, best.n))
                   /\ a.sum = SumIn(A, a.k, a.l, a.i, a.j)
=============================================================================
