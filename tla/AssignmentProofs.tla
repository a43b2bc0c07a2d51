-------------------------- MODULE AssignmentProofs --------------------------
(***************************************************************************)
(* Theorems about the algorithm assignments: the sorts, and the programs    *)
(* that find greatest sums, subset sums and triangulations.  Their loops    *)
(* are folds over the numbers from 1 on, or recursive functions; the first  *)
(* lemmas say what a fold computes after each round.                        *)
(***************************************************************************)
EXTENDS Sorting, MaxSum, SubsetSum, Polygon, FiniteSetTheorems, SequenceTheorems, WellFoundedInduction, TLAPS

----------------------------------------------------------------------------
(* Induction, and loops as folds *)

\* Induction over the natural numbers, for a set instead of a predicate.
LEMMA Induct ==
  ASSUME NEW S, 0 \in S, \A n \in Nat : n \in S => n + 1 \in S
  PROVE  \A n \in Nat : n \in S
<1> DEFINE R == {p \in Nat \X Nat : p[1] < p[2]}
           T == {n \in Nat : n \notin S}
<1>1. IsWellFoundedOn(R, Nat)
  BY NatLessThanWellFounded DEF OpToRel
<1>2. \A m, n \in Nat : <<m, n>> \in R <=> m < n
  OBVIOUS
<1> SUFFICES ASSUME T # {} PROVE FALSE
  OBVIOUS
<1> HIDE DEF R
<1>3. PICK n \in T : \A m \in T : ~(<<m, n>> \in R)
  BY <1>1, WFMin
<1>4. n \in Nat /\ n \notin S /\ n # 0
  BY <1>3
<1>5. n - 1 \in Nat /\ n - 1 < n /\ (n - 1) + 1 = n
  BY <1>4
<1>6. n - 1 \in S
  BY <1>2, <1>3, <1>4, <1>5
<1> QED
  BY <1>4, <1>5, <1>6

\* The greatest of some numbers up to n.
LEMMA GreatestIs ==
  ASSUME NEW n \in Nat, NEW s \in SUBSET (1..n), s # {}
  PROVE  Max(s) \in s /\ \A x \in s : Max(s) >= x
<1> DEFINE R == {p \in Nat \X Nat : p[1] < p[2]}
           T == {n - x : x \in s}
<1>1. IsWellFoundedOn(R, Nat)
  BY NatLessThanWellFounded DEF OpToRel
<1>2. \A m, k \in Nat : <<m, k>> \in R <=> m < k
  OBVIOUS
<1>3. T \subseteq Nat /\ T # {}
  <2>1. \A x \in s : n - x \in Nat
    OBVIOUS
  <2> QED
    BY <2>1, Zenon
<1> HIDE DEF R
<1>4. PICK k \in T : \A m \in T : ~(<<m, k>> \in R)
  BY <1>1, <1>3, WFMin
<1>5. PICK y \in s : k = n - y
  BY <1>4, Zenon
<1>6. ASSUME NEW x \in s PROVE y >= x
  <2>1. n - x \in T
    BY <1>6, Zenon
  <2>3. n - x \in Nat /\ k \in Nat /\ x \in Nat /\ y \in Nat
    BY <1>3, <1>4, <1>6, <2>1
  <2>2. ~(n - x < k)
    BY <1>2, <1>4, <2>1, <2>3
  <2> QED
    BY <1>5, <2>2, <2>3
<1> QED
  BY <1>6, Zenon DEF Max

\* There is a function that folds: what FoldLeft chooses exists.
Step(g, base, step, seq, s) ==
  IF s = {} THEN base ELSE step[g[s \ {Max(s)}], seq[Max(s)]]

\* Its values after m steps are in J[m].
Steps(J, step, seq, n) ==
  \A m \in 1..n : J[m - 1] \subseteq J[m] /\ \A x \in J[m - 1] : step[x, seq[m]] \in J[m]

Folded(J, base, step, seq, n) ==
  \E g \in [SUBSET (1..n) -> J[n]] :
    \A s \in SUBSET (1..n) : g[s] = Step(g, base, step, seq, s)

LEMMA FoldExists ==
  ASSUME NEW n \in Nat, NEW J, NEW base, NEW step, NEW seq,
         base \in J[0], Steps(J, step, seq, n)
  PROVE  Folded(J, base, step, seq, n)
<1> DEFINE Has(m) == \E g \in [SUBSET (1..m) -> J[m]] :
                       \A s \in SUBSET (1..m) : g[s] = Step(g, base, step, seq, s)
           S == {m \in Nat : m <= n => Has(m)}
<1> HIDE DEF Has
<1>1. 0 \in S
  <2> DEFINE g == [s \in SUBSET (1..0) |-> base]
  <2>1. g \in [SUBSET (1..0) -> J[0]] /\ \A s \in SUBSET (1..0) : s = {} /\ g[s] = base
    OBVIOUS
  <2>2. \A s \in SUBSET (1..0) : g[s] = Step(g, base, step, seq, s)
    BY <2>1, Zenon DEF Step
  <2> HIDE DEF g
  <2>3. Has(0)
    BY <2>1, <2>2, Zenon DEF Has
  <2> QED
    BY <2>3
<1>2. ASSUME NEW m \in Nat, m \in S PROVE m + 1 \in S
  <2> SUFFICES ASSUME m + 1 <= n PROVE Has(m + 1)
    OBVIOUS
  <2>0. Has(m)
    <3>1. m <= n
      OBVIOUS
    <3> QED
      BY <1>2, <3>1
  <2>1. PICK g \in [SUBSET (1..m) -> J[m]] :
               \A s \in SUBSET (1..m) : g[s] = Step(g, base, step, seq, s)
    BY <2>0, Zenon DEF Has
  <2> DEFINE h == [s \in SUBSET (1..(m + 1)) |->
                     IF m + 1 \in s THEN step[g[s \ {m + 1}], seq[m + 1]] ELSE g[s]]
  <2>2. J[m] \subseteq J[m + 1] /\ \A x \in J[m] : step[x, seq[m + 1]] \in J[m + 1]
    <3>1. m + 1 \in 1..n /\ (m + 1) - 1 = m
      OBVIOUS
    <3> QED
      BY <3>1, Zenon DEF Steps
  <2>3. ASSUME NEW s \in SUBSET (1..(m + 1)), m + 1 \in s
        PROVE  /\ s \ {m + 1} \in SUBSET (1..m) /\ Max(s) = m + 1
               /\ h[s] = step[g[s \ {m + 1}], seq[m + 1]] /\ h[s] \in J[m + 1]
    <3>1. s \ {m + 1} \in SUBSET (1..m)
      OBVIOUS
    <3>2. Max(s) \in s /\ Max(s) >= m + 1
      <4>1. m + 1 \in Nat /\ s # {}
        BY <2>3
      <4> QED
        BY <2>3, <4>1, GreatestIs, Zenon
    <3>3. Max(s) = m + 1
      <4>1. Max(s) \in 1..(m + 1)
        BY <3>2
      <4> QED
        BY <3>2, <4>1
    <3>4. g[s \ {m + 1}] \in J[m]
      BY <3>1
    <3>5. h[s] = step[g[s \ {m + 1}], seq[m + 1]]
      BY <2>3, Zenon
    <3> QED
      BY <2>2, <3>1, <3>3, <3>4, <3>5
  <2>4. ASSUME NEW s \in SUBSET (1..(m + 1)), m + 1 \notin s
        PROVE  s \in SUBSET (1..m) /\ h[s] = g[s] /\ h[s] \in J[m + 1]
    <3>1. s \in SUBSET (1..m)
      BY <2>4
    <3> QED
      BY <2>2, <2>4, <3>1
  <2> HIDE DEF h
  <2>5. h \in [SUBSET (1..(m + 1)) -> J[m + 1]]
    <3>1. h = [s \in SUBSET (1..(m + 1)) |-> h[s]]
      BY Zenon DEF h
    <3> QED
      BY <2>3, <2>4, <3>1
  <2>6. ASSUME NEW s \in SUBSET (1..(m + 1)) PROVE h[s] = Step(h, base, step, seq, s)
    <3>1. CASE m + 1 \in s
      <4>1. s \ {m + 1} \in SUBSET (1..(m + 1)) /\ m + 1 \notin s \ {m + 1}
        OBVIOUS
      <4>2. h[s \ {m + 1}] = g[s \ {m + 1}]
        BY <2>4, <4>1
      <4> QED
        BY <2>3, <3>1, <4>2 DEF Step
    <3>2. CASE m + 1 \notin s /\ s # {}
      <4>1. Max(s) \in s
        <5>1. m + 1 \in Nat
          OBVIOUS
        <5> QED
          BY <3>2, <5>1, GreatestIs, Zenon
      <4>2. s \ {Max(s)} \in SUBSET (1..(m + 1)) /\ m + 1 \notin s \ {Max(s)}
        BY <3>2
      <4>3. h[s \ {Max(s)}] = g[s \ {Max(s)}] /\ h[s] = g[s] /\ s \in SUBSET (1..m)
        BY <2>4, <3>2, <4>2
      <4> QED
        BY <2>1, <3>2, <4>3 DEF Step
    <3>3. CASE s = {}
      BY <2>1, <2>4, <3>3 DEF Step
    <3> QED
      BY <3>1, <3>2, <3>3
  <2> QED
    BY <2>5, <2>6, Zenon DEF Has
<1>3. n \in S
  <2> HIDE DEF S
  <2> QED
    BY <1>1, <1>2, Induct, Zenon
<1>4. Has(n)
  <2>1. n <= n
    OBVIOUS
  <2> QED
    BY <1>3, <2>1
<1> QED
  BY <1>4, Zenon DEF Has, Folded

\* The first i of the numbers folded over.
LEMMA Prefix ==
  ASSUME NEW n \in Nat, NEW i \in 1..n
  PROVE  /\ 1..i \in SUBSET (1..n) /\ 1..(i - 1) \in SUBSET (1..n)
         /\ 1..i # {} /\ Max(1..i) = i /\ (1..i) \ {i} = 1..(i - 1)
<1>1. 1..i \in SUBSET (1..n) /\ 1..(i - 1) \in SUBSET (1..n) /\ 1..i # {} /\ i \in 1..i
  OBVIOUS
<1>2. (1..i) \ {i} = 1..(i - 1)
  OBVIOUS
<1>3. Max(1..i) \in 1..i /\ Max(1..i) >= i
  BY <1>1, GreatestIs, Zenon
<1>4. Max(1..i) = i
  BY <1>3
<1> QED
  BY <1>1, <1>2, <1>4

\* What the steps stay in.
Taken(J, step, seq, n, r) ==
  \A i \in 1..n : r[i - 1] \in J[i - 1] => r[i] = step[r[i - 1], seq[i]]
LEMMA StepsStay ==
  ASSUME NEW n \in Nat, NEW J, NEW step, NEW seq, Steps(J, step, seq, n), NEW r, r[0] \in J[0],
         Taken(J, step, seq, n, r)
  PROVE  \A i \in 0..n : r[i] \in J[i]
<1> DEFINE In(i) == r[i] \in J[i]
           T == {i \in Nat : i <= n => In(i)}
<1>1. ASSUME NEW i \in 1..n, In(i - 1) PROVE In(i)
  BY <1>1, Zenon DEF Steps, Taken
<1>2. In(0)
  OBVIOUS
<1> HIDE DEF In
<1>3. 0 \in T
  BY <1>2
<1>4. ASSUME NEW i \in Nat, i \in T PROVE i + 1 \in T
  <2> SUFFICES ASSUME i + 1 <= n PROVE In(i + 1)
    OBVIOUS
  <2>1. i + 1 \in 1..n /\ (i + 1) - 1 = i /\ i <= n
    OBVIOUS
  <2>2. In((i + 1) - 1)
    BY <1>4, <2>1
  <2> QED
    BY <1>1, <2>1, <2>2, Zenon
<1>5. \A i \in Nat : i \in T
  <2> HIDE DEF T
  <2> QED
    BY <1>3, <1>4, Induct, Zenon
<1>6. ASSUME NEW i \in 0..n PROVE In(i)
  <2>1. i \in T
    BY <1>5
  <2> QED
    BY <2>1
<1> QED
  BY <1>6, Zenon DEF In

\* What a function that folds is for the first i numbers: the values after i steps.
Runs(J, base, step, seq, n, r) ==
  /\ r[0] = base
  /\ \A i \in 1..n : r[i] = step[r[i - 1], seq[i]]
  /\ \A i \in 0..n : r[i] \in J[i]
Values(G, n) == [i \in 0..n |-> G[1..i]]
Folds(G, base, step, seq, n) ==
  \A s \in SUBSET (1..n) : G[s] = Step(G, base, step, seq, s)

LEMMA FoldRuns ==
  ASSUME NEW n \in Nat, NEW J, NEW base, NEW step, NEW seq, base \in J[0],
         Steps(J, step, seq, n), NEW G, Folds(G, base, step, seq, n)
  PROVE  Runs(J, base, step, seq, n, Values(G, n))
<1> DEFINE r == [i \in 0..n |-> G[1..i]]
<1>1. r[0] = base
  <2>1. 1..0 = {} /\ {} \in SUBSET (1..n) /\ r[0] = G[1..0]
    OBVIOUS
  <2> QED
    BY <2>1, Zenon DEF Folds, Step
<1>2. \A i \in 1..n : r[i] = step[r[i - 1], seq[i]]
  <2> SUFFICES ASSUME NEW i \in 1..n PROVE r[i] = step[r[i - 1], seq[i]]
    OBVIOUS
  <2>1. r[i] = G[1..i] /\ r[i - 1] = G[1..(i - 1)]
    OBVIOUS
  <2>2. /\ 1..i \in SUBSET (1..n) /\ 1..i # {} /\ Max(1..i) = i
        /\ (1..i) \ {i} = 1..(i - 1)
    BY Prefix, Zenon
  <2> HIDE DEF r
  <2> QED
    BY <2>1, <2>2, Zenon DEF Folds, Step
<1> HIDE DEF r
<1>3. Taken(J, step, seq, n, r)
  BY <1>2, Zenon DEF Taken
<1>4. \A i \in 0..n : r[i] \in J[i]
  BY <1>1, <1>3, StepsStay
<1>5. Runs(J, base, step, seq, n, r)
  BY <1>1, <1>2, <1>4, Zenon DEF Runs
<1> QED
  BY <1>5, Zenon DEF r, Values

Made(J, base, step, seq, n) ==
  \E g \in [SUBSET (1..n) -> J[n]] : \E r :
    Folds(g, base, step, seq, n) /\ Runs(J, base, step, seq, n, r) /\ r[n] = g[1..n]

LEMMA FoldMakes ==
  ASSUME NEW n \in Nat, NEW J, NEW base, NEW step, NEW seq, base \in J[0],
         Steps(J, step, seq, n)
  PROVE  Made(J, base, step, seq, n)
<1>1. Folded(J, base, step, seq, n)
  BY FoldExists, Zenon
<1>2. PICK g \in [SUBSET (1..n) -> J[n]] : Folds(g, base, step, seq, n)
  BY <1>1, Zenon DEF Folded, Folds
<1>3. Values(g, n)[n] = g[1..n]
  BY DEF Values
<1>4. Runs(J, base, step, seq, n, Values(g, n))
  BY <1>2, FoldRuns, Zenon
<1> QED
  BY <1>2, <1>3, <1>4, Zenon DEF Made

\* Two functions that fold alike are the same.
Alike(G, g, n) ==
  /\ G[{}] = g[{}]
  /\ \A s \in SUBSET (1..n) : s # {} /\ G[s \ {Max(s)}] = g[s \ {Max(s)}] => G[s] = g[s]

LEMMA SameFold ==
  ASSUME NEW n \in Nat, NEW G, NEW g, Alike(G, g, n)
  PROVE  G[1..n] = g[1..n]
<1> DEFINE In(i) == G[1..i] = g[1..i]
           T == {i \in Nat : i <= n => In(i)}
<1>1. In(0)
  <2>1. 1..0 = {}
    OBVIOUS
  <2> QED
    BY <2>1, Zenon DEF Alike
<1>2. ASSUME NEW i \in 1..n, In(i - 1) PROVE In(i)
  <2>1. /\ 1..i \in SUBSET (1..n) /\ 1..i # {} /\ (1..i) \ {Max(1..i)} = 1..(i - 1)
    BY Prefix, Zenon
  <2> QED
    BY <1>2, <2>1, Zenon DEF Alike
<1> HIDE DEF In
<1>3. 0 \in T
  BY <1>1
<1>4. ASSUME NEW i \in Nat, i \in T PROVE i + 1 \in T
  <2> SUFFICES ASSUME i + 1 <= n PROVE In(i + 1)
    OBVIOUS
  <2>1. i + 1 \in 1..n /\ (i + 1) - 1 = i /\ i <= n
    OBVIOUS
  <2>2. In((i + 1) - 1)
    BY <1>4, <2>1
  <2> QED
    BY <1>2, <2>1, <2>2, Zenon
<1>5. n \in T
  <2> HIDE DEF T
  <2> QED
    BY <1>3, <1>4, Induct, Zenon
<1>6. In(n)
  <2>1. n <= n
    OBVIOUS
  <2> QED
    BY <1>5, <2>1
<1> QED
  BY <1>6, Zenon DEF In

----------------------------------------------------------------------------
(* Arrays, and the rearranging of a range *)

IntArray(N) == [0..(N - 1) -> Int]

Swapped(C, A, i, j, N) ==
  /\ C \in IntArray(N)
  /\ \A x \in 0..(N - 1) : C[x] = IF x = j THEN A[i] ELSE IF x = i THEN A[j] ELSE A[x]

LEMMA SwapIs ==
  ASSUME NEW N, NEW A \in IntArray(N), NEW i \in 0..(N - 1), NEW j \in 0..(N - 1)
  PROVE  Swapped(Swap(A, i, j), A, i, j, N)
BY DEF Swap, IntArray, Swapped

\* B has the elements of A, those outside the positions R where they were.
Moves(R, N) ==
  {p \in [0..(N - 1) -> 0..(N - 1)] :
     /\ \A i, j \in 0..(N - 1) : p[i] = p[j] => i = j
     /\ \A j \in 0..(N - 1) : \E i \in 0..(N - 1) : p[i] = j
     /\ \A i \in (0..(N - 1)) \ R : p[i] = i}
Moved(B, A, p, N) == \A i \in 0..(N - 1) : B[i] = A[p[i]]
Rearranged(B, A, R, N) == \E p \in Moves(R, N) : Moved(B, A, p, N)

LEMMA RearrangedSame ==
  ASSUME NEW N, NEW A, NEW R
  PROVE  Rearranged(A, A, R, N)
<1> DEFINE D == 0..(N - 1)
           p == [i \in D |-> i]
<1> HIDE DEF D
<1>1. p \in [D -> D] /\ \A i \in D : p[i] = i
  OBVIOUS
<1> HIDE DEF p
<1>2. p \in Moves(R, N)
  BY <1>1 DEF Moves, D
<1>3. Moved(A, A, p, N)
  BY <1>1 DEF Moved, D
<1> QED
  BY <1>2, <1>3 DEF Rearranged

LEMMA RearrangedMore ==
  ASSUME NEW N, NEW A, NEW B, NEW R, NEW Q, Rearranged(B, A, R, N), R \subseteq Q
  PROVE  Rearranged(B, A, Q, N)
<1>1. Moves(R, N) \subseteq Moves(Q, N)
  BY DEF Moves
<1> QED
  BY <1>1 DEF Rearranged

LEMMA RearrangedAgain ==
  ASSUME NEW N, NEW A, NEW B, NEW C, NEW R,
         Rearranged(B, A, R, N), Rearranged(C, B, R, N)
  PROVE  Rearranged(C, A, R, N)
<1> DEFINE D == 0..(N - 1)
<1>1. PICK p \in Moves(R, N) : Moved(B, A, p, N)
  BY DEF Rearranged
<1>2. PICK q \in Moves(R, N) : Moved(C, B, q, N)
  BY DEF Rearranged
<1> DEFINE r == [i \in D |-> p[q[i]]]
<1>3. /\ p \in [D -> D] /\ q \in [D -> D]
      /\ \A i, j \in D : (p[i] = p[j] => i = j) /\ (q[i] = q[j] => i = j)
      /\ \A j \in D : (\E i \in D : p[i] = j) /\ (\E i \in D : q[i] = j)
      /\ \A i \in D \ R : p[i] = i /\ q[i] = i
  BY DEF Moves
<1> HIDE DEF D
<1>4. r \in [D -> D] /\ \A i \in D : q[i] \in D /\ r[i] = p[q[i]]
  BY <1>3
<1> HIDE DEF r
<1>5. /\ \A i, j \in D : r[i] = r[j] => i = j
      /\ \A i \in D \ R : r[i] = i
  <2>1. ASSUME NEW i \in D, NEW j \in D, r[i] = r[j] PROVE i = j
    <3>1. q[i] \in D /\ q[j] \in D /\ p[q[i]] = p[q[j]]
      BY <1>4, <2>1, Zenon
    <3> QED
      BY <1>3, <3>1, Zenon
  <2>2. ASSUME NEW i \in D \ R PROVE r[i] = i
    BY <1>3, <1>4, Zenon
  <2> QED
    BY <2>1, <2>2, Zenon
<1>6. \A j \in D : \E i \in D : r[i] = j
  BY <1>3, <1>4
<1>7. r \in Moves(R, N)
  BY <1>4, <1>5, <1>6 DEF Moves, D
<1>8. Moved(C, A, r, N)
  BY <1>1, <1>2, <1>4, Zenon DEF Moved, D
<1> QED
  BY <1>7, <1>8 DEF Rearranged

LEMMA RearrangedSwap ==
  ASSUME NEW N, NEW A \in IntArray(N), NEW R, NEW i \in 0..(N - 1), NEW j \in 0..(N - 1),
         i \in R, j \in R
  PROVE  Rearranged(Swap(A, i, j), A, R, N)
<1> DEFINE D == 0..(N - 1)
           p == [x \in D |-> IF x = j THEN i ELSE IF x = i THEN j ELSE x]
<1>1. \A x \in D : Swap(A, i, j)[x] = IF x = j THEN A[i] ELSE IF x = i THEN A[j] ELSE A[x]
  <2>1. Swapped(Swap(A, i, j), A, i, j, N)
    BY SwapIs, Zenon
  <2> QED
    BY <2>1, Zenon DEF Swapped
<1>0. i \in D /\ j \in D
  OBVIOUS
<1> HIDE DEF D
<1>2. p \in [D -> D] /\ \A x \in D : p[x] = IF x = j THEN i ELSE IF x = i THEN j ELSE x
  BY <1>0
<1> HIDE DEF p
<1>3. i \in D /\ j \in D
  BY <1>0
<1>4. /\ \A x, y \in D : p[x] = p[y] => x = y
      /\ \A y \in D : \E x \in D : p[x] = y
      /\ \A x \in D \ R : p[x] = x
  <2>1. \A y \in D : p[IF y = j THEN i ELSE IF y = i THEN j ELSE y] = y
    BY <1>2, <1>3
  <2> QED
    BY <1>2, <1>3, <2>1
<1>5. p \in Moves(R, N)
  BY <1>2, <1>4 DEF Moves, D
<1>6. Moved(Swap(A, i, j), A, p, N)
  BY <1>1, <1>2 DEF Moved, D
<1> QED
  BY <1>5, <1>6 DEF Rearranged

\* The elements at the positions R stay there.
SameOutside(B, A, R, N) == \A i \in (0..(N - 1)) \ R : B[i] = A[i]
TakenFrom(B, A, R, N) ==
  \A i \in (0..(N - 1)) \cap R : \E j \in (0..(N - 1)) \cap R : B[i] = A[j]
LEMMA RearrangedElements ==
  ASSUME NEW N, NEW A, NEW B, NEW R, Rearranged(B, A, R, N)
  PROVE  SameOutside(B, A, R, N) /\ TakenFrom(B, A, R, N) /\ TakenFrom(A, B, R, N)
<1> DEFINE D == 0..(N - 1)
<1>1. PICK p \in Moves(R, N) : Moved(B, A, p, N)
  BY DEF Rearranged
<1>2. /\ p \in [D -> D]
      /\ \A i, j \in D : p[i] = p[j] => i = j
      /\ \A j \in D : \E i \in D : p[i] = j
      /\ \A i \in D \ R : p[i] = i
      /\ \A i \in D : B[i] = A[p[i]]
  BY <1>1 DEF Moves, Moved
<1> HIDE DEF D
<1>3. ASSUME NEW i \in D \cap R PROVE p[i] \in D \cap R
  <2>1. p[i] \in D /\ i \in D
    BY <1>2
  <2>2. CASE p[i] \notin R
    <3>1. p[p[i]] = p[i]
      BY <1>2, <2>1, <2>2
    <3> QED
      BY <1>2, <2>1, <2>2, <3>1
  <2> QED
    BY <2>1, <2>2
<1>4. \A i \in D \cap R : \E j \in D \cap R : B[i] = A[j]
  BY <1>2, <1>3
<1>5. ASSUME NEW i \in D \cap R PROVE \E j \in D \cap R : A[i] = B[j]
  <2>1. PICK j \in D : p[j] = i
    BY <1>2
  <2>2. j \in R
    BY <1>2, <2>1
  <2> QED
    BY <1>2, <2>1, <2>2
<1> QED
  BY <1>2, <1>4, <1>5, Zenon DEF D, SameOutside, TakenFrom

\* A key that A does not have twice, B has not.
Twice(A, N) == \E i, j \in 0..(N - 1) : i # j /\ A[i] = A[j]
LEMMA RearrangedTwice ==
  ASSUME NEW N, NEW A, NEW B, NEW R, Rearranged(B, A, R, N), Twice(B, N)
  PROVE  Twice(A, N)
<1> DEFINE D == 0..(N - 1)
<1>1. PICK p \in Moves(R, N) : Moved(B, A, p, N)
  BY DEF Rearranged
<1>2. /\ p \in [D -> D] /\ \A i, j \in D : p[i] = p[j] => i = j
      /\ \A i \in D : B[i] = A[p[i]]
  BY <1>1 DEF Moves, Moved
<1>3. PICK i, j \in D : i # j /\ B[i] = B[j]
  BY DEF Twice
<1> HIDE DEF D
<1>4. p[i] \in D /\ p[j] \in D /\ p[i] # p[j] /\ A[p[i]] = A[p[j]]
  BY <1>2, <1>3
<1> QED
  BY <1>4 DEF Twice, D

\* It has every key as often.
Count(A, k, N) == Cardinality({i \in 0..(N - 1) : A[i] = k})
LEMMA RearrangedCounts ==
  ASSUME NEW N \in Nat, NEW A, NEW B, NEW R, Rearranged(B, A, R, N), NEW k
  PROVE  Count(B, k, N) = Count(A, k, N)
<1> DEFINE D == 0..(N - 1)
           X == {i \in D : B[i] = k}
           Y == {i \in D : A[i] = k}
<1>1. PICK p \in Moves(R, N) : Moved(B, A, p, N)
  BY DEF Rearranged
<1>2. /\ p \in [D -> D] /\ \A i, j \in D : p[i] = p[j] => i = j
      /\ \A j \in D : \E i \in D : p[i] = j
      /\ \A i \in D : B[i] = A[p[i]]
  BY <1>1 DEF Moves, Moved
<1>3. IsFiniteSet(X) /\ IsFiniteSet(Y)
  <2>1. IsFiniteSet(D)
    BY FS_Interval
  <2>2. X \subseteq D /\ Y \subseteq D
    OBVIOUS
  <2> QED
    BY <2>1, <2>2, FS_Subset
<1> HIDE DEF D
<1> DEFINE f == [i \in X |-> p[i]]
<1>4. f \in [X -> Y]
  BY <1>2
<1>5. \A i, j \in X : f[i] = f[j] => i = j
  BY <1>2
<1>6. \A j \in Y : \E i \in X : f[i] = j
  <2> SUFFICES ASSUME NEW j \in Y PROVE \E i \in X : f[i] = j
    OBVIOUS
  <2>1. PICK i \in D : p[i] = j
    BY <1>2
  <2>2. i \in X
    BY <1>2, <2>1
  <2> QED
    BY <2>1, <2>2
<1> HIDE DEF f, X, Y
<1>7. f \in Bijection(X, Y)
  BY <1>4, <1>5, <1>6 DEF Bijection, Injection, Surjection, IsInjective
<1>8. ExistsBijection(X, Y)
  BY <1>7 DEF ExistsBijection
<1>9. Cardinality(X) = Cardinality(Y)
  BY <1>3, <1>8, FS_Bijection
<1> QED
  BY <1>9 DEF X, Y, D, Count

\* The element at i behind those up to j.
Rotate(B, i, j) ==
  [x \in DOMAIN B |-> IF x \in i..(j - 1) THEN B[x + 1] ELSE IF x = j THEN B[i] ELSE B[x]]
LEMMA RearrangedRotate ==
  ASSUME NEW N \in Nat, NEW A \in IntArray(N), NEW R, NEW i \in 0..(N - 1), NEW j \in 0..(N - 1),
         i <= j, i..j \subseteq R
  PROVE  Rotate(A, i, j) \in IntArray(N) /\ Rearranged(Rotate(A, i, j), A, R, N)
<1> DEFINE D == 0..(N - 1)
           p == [x \in D |-> IF x \in i..(j - 1) THEN x + 1 ELSE IF x = j THEN i ELSE x]
<1>1. DOMAIN A = D /\ \A x \in D : A[x] \in Int
  BY DEF IntArray
<1>2. p \in [D -> D] /\ \A x \in D : p[x] = IF x \in i..(j - 1) THEN x + 1 ELSE IF x = j THEN i ELSE x
  OBVIOUS
<1> HIDE DEF p
<1>3. ASSUME NEW x \in D, NEW y \in D, p[x] = p[y] PROVE x = y
  <2>1. /\ p[x] = IF x \in i..(j - 1) THEN x + 1 ELSE IF x = j THEN i ELSE x
        /\ p[y] = IF y \in i..(j - 1) THEN y + 1 ELSE IF y = j THEN i ELSE y
    BY <1>2, Zenon
  <2>2. (IF x \in i..(j - 1) THEN x + 1 ELSE IF x = j THEN i ELSE x) =
        (IF y \in i..(j - 1) THEN y + 1 ELSE IF y = j THEN i ELSE y)
    BY <1>3, <2>1
  <2> QED
    BY <2>2
<1>4. ASSUME NEW y \in D PROVE \E x \in D : p[x] = y
  <2> DEFINE x == IF y \in (i + 1)..j THEN y - 1 ELSE IF y = i THEN j ELSE y
  <2>1. x \in D /\ p[x] = y
    BY <1>2
  <2> QED
    BY <2>1
<1>5. \A x \in D \ R : p[x] = x
  <2> SUFFICES ASSUME NEW x \in D \ R PROVE p[x] = x
    OBVIOUS
  <2>1. x \notin i..j
    OBVIOUS
  <2> QED
    BY <1>2, <2>1
<1>6. p \in Moves(R, N)
  BY <1>2, <1>3, <1>4, <1>5, Zenon DEF Moves
<1>7. \A x \in D : Rotate(A, i, j)[x] = A[p[x]]
  <2>1. \A x \in D : Rotate(A, i, j)[x] =
          IF x \in i..(j - 1) THEN A[x + 1] ELSE IF x = j THEN A[i] ELSE A[x]
    BY <1>1, Zenon DEF Rotate
  <2> QED
    BY <1>2, <2>1
<1>8. Moved(Rotate(A, i, j), A, p, N)
  BY <1>7, Zenon DEF Moved
<1>9. Rotate(A, i, j) = [x \in D |-> Rotate(A, i, j)[x]]
  BY <1>1, Zenon DEF Rotate
<1>10. Rotate(A, i, j) \in IntArray(N)
  <2>1. \A x \in D : Rotate(A, i, j)[x] \in Int
    BY <1>1, <1>2, <1>7
  <2> QED
    BY <1>9, <2>1 DEF IntArray
<1> QED
  BY <1>6, <1>8, <1>10, Zenon DEF Rearranged

----------------------------------------------------------------------------
(* partition *)

\* The steps of partition's loop: r[i] after i elements.
Kept(acc, i, p) == IF acc.A[i] <= p THEN [A |-> Swap(acc.A, acc.k, i), k |-> acc.k + 1] ELSE acc
PartitionAt(S, m, N) == [A : IntArray(N), k : S..(S + m)]
PartitionRun(A, S, n, pivot, r) ==
  /\ r[0] = [A |-> Swap(A, S + pivot, S + n - 1), k |-> S]
  /\ \A i \in 1..(n - 1) : r[i] = Kept(r[i - 1], S + i - 1, A[S + pivot])

PartitionMade(A, S, n, pivot, N) ==
  \E r : /\ PartitionRun(A, S, n, pivot, r)
         /\ Partition(A, S, n, pivot) =
              [A |-> Swap(r[n - 1].A, S + n - 1, r[n - 1].k), k |-> r[n - 1].k - S]

LEMMA PartitionRuns ==
  ASSUME NEW N \in Nat, NEW A \in IntArray(N), NEW S \in Nat, NEW n \in Nat \ {0},
         S + n <= N, NEW pivot \in 0..(n - 1)
  PROVE  PartitionMade(A, S, n, pivot, N)
<1> DEFINE p == A[S + pivot]
           X(m) == PartitionAt(S, m, N)
           J == [m \in 0..(n - 1) |-> X(m)]
           base == [A |-> Swap(A, S + pivot, S + n - 1), k |-> S]
           V == S..(S + n - 2)
           seq == [x \in 1..(n - 1) |-> S + x - 1]
           step == [q \in X(n - 1) \X V |-> Kept(q[1], q[2], p)]
           Eq(g) == g = [s \in SUBSET DOMAIN seq |->
                           IF s = {} THEN base ELSE Kept(g[s \ {Max(s)}], seq[Max(s)], p)]
<1> HIDE DEF p
<1>1. n - 1 \in Nat /\ DOMAIN seq = 1..(n - 1) /\ \A m \in 1..(n - 1) : seq[m] \in V
  OBVIOUS
<1>2. base \in X(0)
  <2>1. S + pivot \in 0..(N - 1) /\ S + n - 1 \in 0..(N - 1)
    OBVIOUS
  <2>2. Swap(A, S + pivot, S + n - 1) \in IntArray(N)
    BY <2>1, SwapIs, Zenon DEF Swapped
  <2> QED
    BY <2>2 DEF PartitionAt
<1>3. ASSUME NEW x \in X(n - 1), NEW v \in V PROVE step[x, v] = Kept(x, v, p)
  BY <1>3, Zenon
<1>4. ASSUME NEW m \in 1..(n - 1), NEW x \in X(m - 1)
      PROVE  x \in X(m) /\ step[x, seq[m]] \in X(m)
  <2>1. x.A \in IntArray(N) /\ x.k \in S..(S + (m - 1)) /\ x = [A |-> x.A, k |-> x.k]
    BY DEF PartitionAt
  <2>2. x \in X(m) /\ x \in X(n - 1)
    BY <2>1 DEF PartitionAt
  <2>3. seq[m] = S + m - 1 /\ S + m - 1 \in V
    OBVIOUS
  <2> HIDE DEF seq, step
  <2>4. S + m - 1 \in 0..(N - 1) /\ x.k \in 0..(N - 1) /\ x.k + 1 \in S..(S + m)
    BY <2>1
  <2>5. Swap(x.A, x.k, S + m - 1) \in IntArray(N)
    <3>1. Swapped(Swap(x.A, x.k, S + m - 1), x.A, x.k, S + m - 1, N)
      BY <2>1, <2>4, SwapIs, Zenon
    <3> QED
      BY <3>1, Zenon DEF Swapped
  <2>6. Kept(x, S + m - 1, p) \in X(m)
    BY <2>2, <2>4, <2>5 DEF Kept, PartitionAt
  <2> QED
    BY <1>3, <2>2, <2>3, <2>6, Zenon
<1>5. \A m \in 0..(n - 1) : J[m] = X(m)
  OBVIOUS
<1>6. base \in J[0] /\ Steps(J, step, seq, n - 1) /\ J[n - 1] = X(n - 1)
  <2>1. /\ 0 \in 0..(n - 1) /\ n - 1 \in 0..(n - 1)
        /\ \A m \in 1..(n - 1) : m - 1 \in 0..(n - 1) /\ m \in 0..(n - 1)
    OBVIOUS
  <2> HIDE DEF J, X, base, step, seq
  <2>2. ASSUME NEW m \in 1..(n - 1)
        PROVE  J[m - 1] \subseteq J[m] /\ \A x \in J[m - 1] : step[x, seq[m]] \in J[m]
    <3>1. J[m - 1] = X(m - 1) /\ J[m] = X(m)
      BY <1>5, <2>1, Zenon
    <3>2. \A x \in X(m - 1) : x \in X(m) /\ step[x, seq[m]] \in X(m)
      BY <1>4, Zenon
    <3> QED
      BY <3>1, <3>2
  <2> QED
    BY <1>2, <1>5, <2>1, <2>2, Zenon DEF Steps
<1> HIDE DEF J, X, V, step
<1>7a. PICK g \in [SUBSET (1..(n - 1)) -> J[n - 1]] : \E r :
             /\ Folds(g, base, step, seq, n - 1)
             /\ Runs(J, base, step, seq, n - 1, r) /\ r[n - 1] = g[1..(n - 1)]
  <2> HIDE DEF base, seq
  <2>1. Made(J, base, step, seq, n - 1)
    BY <1>1, <1>6, FoldMakes, Zenon
  <2> QED
    BY <2>1, Zenon DEF Made
<1>7. PICK r :
             /\ Folds(g, base, step, seq, n - 1)
             /\ Runs(J, base, step, seq, n - 1, r) /\ r[n - 1] = g[1..(n - 1)]
  BY <1>7a, Zenon
<1>8. Eq(g)
  <2> HIDE DEF seq, base
  <2>1. ASSUME NEW s \in SUBSET (1..(n - 1)), s # {}
        PROVE  step[g[s \ {Max(s)}], seq[Max(s)]] = Kept(g[s \ {Max(s)}], seq[Max(s)], p)
    <3>1. Max(s) \in 1..(n - 1)
      BY <1>1, <2>1, GreatestIs, Zenon
    <3>2. s \ {Max(s)} \in SUBSET (1..(n - 1))
      OBVIOUS
    <3> QED
      BY <1>1, <1>3, <1>6, <3>1, <3>2
  <2>2. \A s \in SUBSET (1..(n - 1)) :
          g[s] = IF s = {} THEN base ELSE Kept(g[s \ {Max(s)}], seq[Max(s)], p)
    BY <1>7, <2>1, Zenon DEF Folds, Step
  <2>3. g = [s \in SUBSET (1..(n - 1)) |-> g[s]]
    OBVIOUS
  <2>4. g = [s \in SUBSET (1..(n - 1)) |->
               IF s = {} THEN base ELSE Kept(g[s \ {Max(s)}], seq[Max(s)], p)]
    BY <2>2, <2>3, Zenon
  <2> QED
    BY <1>1, <2>4, Zenon
<1> DEFINE G == CHOOSE f : Eq(f)
<1>9. Eq(G)
  BY <1>8, Zenon
<1>10. Partition(A, S, n, pivot) =
         LET q == G[DOMAIN seq] IN [A |-> Swap(q.A, S + n - 1, q.k), k |-> q.k - S]
  BY Zenon DEF p, Partition, FoldLeft, MapThenFoldSet, Kept
<1> HIDE DEF G, seq, base
<1>11. G[1..(n - 1)] = g[1..(n - 1)]
  <2>1. {} \in SUBSET (1..(n - 1))
    OBVIOUS
  <2>2. Alike(G, g, n - 1)
    BY <1>1, <1>8, <1>9, <2>1, Zenon DEF Alike
  <2> QED
    BY <1>1, <2>2, SameFold, Zenon
<1>12. PartitionRun(A, S, n, pivot, r)
  <2>1. ASSUME NEW i \in 1..(n - 1) PROVE r[i] = Kept(r[i - 1], S + i - 1, A[S + pivot])
    <3>1. i - 1 \in 0..(n - 1)
      OBVIOUS
    <3>2. r[i - 1] \in X(n - 1) 
      <4>1. r[i - 1] \in PartitionAt(S, i - 1, N)
        BY <1>5, <1>7, <3>1, Zenon DEF Runs, X
      <4> QED
        BY <4>1 DEF X, PartitionAt
    <3>3. seq[i] = S + i - 1
      BY Zenon DEF seq
    <3> QED
      BY <1>1, <1>3, <1>7, <3>2, <3>3, Zenon DEF Runs, p
  <2> QED
    BY <1>7, <2>1, Zenon DEF Runs, PartitionRun, base
<1> QED
  BY <1>1, <1>7, <1>10, <1>11, <1>12, Zenon DEF PartitionMade

\* After i elements: those up to the pivot p are before k, the other ones from k on.
PartitionedTo(acc, i, A, S, n, p, N) ==
  /\ acc.A \in IntArray(N) /\ acc.k \in S..(S + i)
  /\ Rearranged(acc.A, A, S..(S + n - 1), N)
  /\ acc.A[S + n - 1] = p
  /\ \A x \in S..(acc.k - 1) : acc.A[x] <= p
  /\ \A x \in acc.k..(S + i - 1) : acc.A[x] > p

LEMMA PartitionStep ==
  ASSUME NEW N \in Nat, NEW A \in IntArray(N), NEW S \in Nat, NEW n \in Nat \ {0},
         S + n <= N, NEW p \in Int, NEW i \in 1..(n - 1), NEW acc,
         PartitionedTo(acc, i - 1, A, S, n, p, N)
  PROVE  PartitionedTo(Kept(acc, S + i - 1, p), i, A, S, n, p, N)
<1> DEFINE B == acc.A
           k == acc.k
           j == S + i - 1
           C == Swap(B, k, j)
           D == 0..(N - 1)
<1>1. /\ B \in IntArray(N) /\ k \in S..j /\ Rearranged(B, A, S..(S + n - 1), N)
      /\ B[S + n - 1] = p
      /\ \A x \in S..(k - 1) : B[x] <= p
      /\ \A x \in k..(j - 1) : B[x] > p
  <2>1. S + (i - 1) - 1 = j - 1 /\ S + (i - 1) = j
    OBVIOUS
  <2> QED
    BY <2>1, Zenon DEF PartitionedTo
<1>2. \A x \in D : B[x] \in Int
  BY <1>1 DEF IntArray
<1> HIDE DEF B, k
<1>3. /\ k \in D /\ j \in D /\ S + n - 1 \in D /\ j < S + n - 1
      /\ k \in S..(S + n - 1) /\ j \in S..(S + n - 1) /\ k \in Int /\ j \in Int /\ k <= j
      /\ S..(S + n - 1) \subseteq D
  BY <1>1
<1>4. CASE B[j] <= p
  <2>1. Kept(acc, j, p) = [A |-> C, k |-> k + 1]
    BY <1>4, Zenon DEF Kept, B, k
  <2>2. C \in IntArray(N) /\ \A x \in D : C[x] = IF x = j THEN B[k] ELSE IF x = k THEN B[j] ELSE B[x]
    <3>1. Swapped(C, B, k, j, N)
      BY <1>1, <1>3, SwapIs, Zenon
    <3> QED
      BY <3>1, Zenon DEF Swapped
  <2>3. Rearranged(C, A, S..(S + n - 1), N)
    <3>1. Rearranged(C, B, S..(S + n - 1), N)
      BY <1>1, <1>3, RearrangedSwap
    <3> QED
      BY <1>1, <3>1, RearrangedAgain, Zenon
  <2> HIDE DEF C
  <2>4. C[S + n - 1] = p
    BY <1>1, <1>3, <2>2
  <2>5. ASSUME NEW x \in S..k PROVE C[x] <= p
    <3>1. x \in D
      BY <1>3
    <3>2. C[x] = IF x = j THEN B[k] ELSE IF x = k THEN B[j] ELSE B[x]
      BY <2>2, <3>1, Zenon
    <3>3. x \in S..(k - 1) \/ x = k
      BY <1>3
    <3> QED
      BY <1>1, <1>3, <1>4, <3>2, <3>3
  <2>6. ASSUME NEW x \in (k + 1)..j PROVE C[x] > p
    <3>1. x \in D
      BY <1>3
    <3>2. C[x] = IF x = j THEN B[k] ELSE IF x = k THEN B[j] ELSE B[x]
      BY <2>2, <3>1, Zenon
    <3>3. CASE x = j
      <4>1. k \in k..(j - 1)
        BY <1>3, <3>3
      <4> QED
        BY <1>1, <3>2, <3>3, <4>1
    <3>4. CASE x # j
      <4>1. x \in k..(j - 1) /\ x # k
        BY <1>3, <3>4
      <4> QED
        BY <1>1, <3>2, <3>4, <4>1
    <3> QED
      BY <3>3, <3>4
  <2>7. k + 1 \in S..(S + i) /\ (k + 1) - 1 = k /\ S + i - 1 = j
    BY <1>3
  <2> HIDE DEF j
  <2>8. PartitionedTo([A |-> C, k |-> k + 1], i, A, S, n, p, N)
    BY <2>2, <2>3, <2>4, <2>5, <2>6, <2>7, Zenon DEF PartitionedTo
  <2> QED
    BY <2>1, <2>7, <2>8
<1>5. CASE ~(B[j] <= p)
  <2>1. Kept(acc, j, p) = acc
    BY <1>5, Zenon DEF Kept, B
  <2>2. B[j] > p
    BY <1>2, <1>3, <1>5
  <2>3. ASSUME NEW x \in k..j PROVE B[x] > p
    <3>1. x \in k..(j - 1) \/ x = j
      BY <1>3
    <3> QED
      BY <1>1, <2>2, <3>1
  <2>4. k \in S..(S + i) /\ S + i - 1 = j
    BY <1>3
  <2> HIDE DEF j
  <2>5. PartitionedTo(acc, i, A, S, n, p, N)
    BY <1>1, <2>3, <2>4, Zenon DEF PartitionedTo, B, k
  <2> QED
    BY <2>1, <2>4, <2>5, Zenon
<1> QED
  BY <1>4, <1>5

\* partition rearranges its elements around the pivot, which is at k in the end.
LEMMA PartitionSplits ==
  ASSUME NEW N \in Nat, NEW A \in IntArray(N), NEW S \in Nat, NEW n \in Nat \ {0},
         S + n <= N, NEW pivot \in 0..(n - 1)
  PROVE  LET part == Partition(A, S, n, pivot)
         IN /\ part.A \in IntArray(N) /\ part.k \in 0..(n - 1)
            /\ Rearranged(part.A, A, S..(S + n - 1), N)
            /\ \A x \in S..(S + part.k - 1) : part.A[x] <= part.A[S + part.k]
            /\ \A x \in (S + part.k + 1)..(S + n - 1) : part.A[x] > part.A[S + part.k]
<1> DEFINE p == A[S + pivot]
           E == S + n - 1
<1>1. PICK r : /\ PartitionRun(A, S, n, pivot, r)
               /\ Partition(A, S, n, pivot) = [A |-> Swap(r[n - 1].A, E, r[n - 1].k),
                                              k |-> r[n - 1].k - S]
  <2>1. PartitionMade(A, S, n, pivot, N)
    BY PartitionRuns, Zenon
  <2> QED
    BY <2>1, Zenon DEF PartitionMade
<1>2. p \in Int /\ S + pivot \in 0..(N - 1) /\ E \in 0..(N - 1)
  BY DEF IntArray
<1> DEFINE In(i) == PartitionedTo(r[i], i, A, S, n, p, N)
           T == {i \in Nat : i <= n - 1 => In(i)}
<1>3. In(0)
  <2>1. r[0] = [A |-> Swap(A, S + pivot, E), k |-> S]
    BY <1>1, Zenon DEF PartitionRun
  <2>2. Swap(A, S + pivot, E) \in IntArray(N) /\ Swap(A, S + pivot, E)[E] = p
    <3>1. Swapped(Swap(A, S + pivot, E), A, S + pivot, E, N)
      BY <1>2, SwapIs, Zenon
    <3> QED
      BY <1>2, <3>1, Zenon DEF Swapped
  <2>3. Rearranged(Swap(A, S + pivot, E), A, S..E, N)
    <3>1. S + pivot \in S..E /\ E \in S..E
      OBVIOUS
    <3> QED
      BY <1>2, <3>1, RearrangedSwap
  <2>4. S \in S..(S + 0) /\ S..(S - 1) = {} /\ S..(S + 0 - 1) = {}
    OBVIOUS
  <2> HIDE DEF p, E
  <2>5. r[0].A = Swap(A, S + pivot, E) /\ r[0].k = S
    BY <2>1
  <2>6. /\ \A x \in S..(S - 1) : r[0].A[x] <= p
        /\ \A x \in S..(S + 0 - 1) : r[0].A[x] > p
    BY <2>4, Zenon
  <2> QED
    BY <2>2, <2>3, <2>4, <2>5, <2>6, Zenon DEF PartitionedTo, E
<1>4. ASSUME NEW i \in Nat, i \in T PROVE i + 1 \in T
  <2> HIDE DEF In
  <2> SUFFICES ASSUME i + 1 <= n - 1 PROVE In(i + 1)
    OBVIOUS
  <2>1. i + 1 \in 1..(n - 1) /\ (i + 1) - 1 = i /\ i <= n - 1 /\ S + (i + 1) - 1 = S + i
    OBVIOUS
  <2>2. In((i + 1) - 1)
    BY <1>4, <2>1
  <2>3. r[i + 1] = Kept(r[i], S + i, p)
    BY <1>1, <2>1, Zenon DEF PartitionRun
  <2> HIDE DEF p
  <2>4. PartitionedTo(Kept(r[i], S + (i + 1) - 1, p), i + 1, A, S, n, p, N)
    <3>1. PartitionedTo(r[i], (i + 1) - 1, A, S, n, p, N)
      BY <2>1, <2>2, Zenon DEF In
    <3> QED
      BY <1>2, <2>1, <3>1, PartitionStep, Zenon
  <2> QED
    BY <2>1, <2>3, <2>4, Zenon DEF In
<1>5. In(n - 1)
  <2> HIDE DEF In
  <2>1. n - 1 \in T
    <3> HIDE DEF T
    <3>1. 0 \in T
      BY <1>3 DEF T
    <3>2. n - 1 \in Nat
      OBVIOUS
    <3> QED
      BY <1>4, <3>1, <3>2, Induct, Zenon
  <2> QED
    BY <2>1
<1> DEFINE B == r[n - 1].A
           k == r[n - 1].k
           C == Swap(B, E, k)
<1>6. /\ B \in IntArray(N) /\ k \in S..E /\ Rearranged(B, A, S..E, N) /\ B[E] = p
      /\ \A x \in S..(k - 1) : B[x] <= p
      /\ \A x \in k..(E - 1) : B[x] > p
  <2>1. S + (n - 1) = E /\ S + (n - 1) - 1 = E - 1
    OBVIOUS
  <2> HIDE DEF E, p
  <2> QED
    BY <1>5, <2>1, Zenon DEF PartitionedTo, In
<1>7. Partition(A, S, n, pivot) = [A |-> C, k |-> k - S]
  BY <1>1, Zenon
<1> HIDE DEF B, k, p
<1>8. k \in 0..(N - 1) /\ k \in Int
  BY <1>6
<1>9. C \in IntArray(N) /\ \A x \in 0..(N - 1) : C[x] = IF x = k THEN B[E] ELSE IF x = E THEN B[k] ELSE B[x]
  <2>1. Swapped(C, B, E, k, N)
    BY <1>2, <1>6, <1>8, SwapIs, Zenon
  <2> QED
    BY <2>1, Zenon DEF Swapped
<1>10. Rearranged(C, A, S..E, N)
  <2>1. E \in S..E
    OBVIOUS
  <2>2. Rearranged(C, B, S..E, N)
    BY <1>2, <1>6, <1>8, <2>1, RearrangedSwap
  <2> QED
    BY <1>6, <2>2, RearrangedAgain, Zenon
<1> HIDE DEF C
<1>11. C[k] = p
  BY <1>6, <1>8, <1>9
<1>12. ASSUME NEW x \in S..(k - 1) PROVE C[x] <= p
  <2>1. x \in 0..(N - 1) /\ x # k /\ x # E
    BY <1>6, <1>8
  <2> QED
    BY <1>6, <1>9, <2>1
<1>13. ASSUME NEW x \in (k + 1)..E PROVE C[x] > p
  <2>1. x \in 0..(N - 1) /\ x # k
    BY <1>6, <1>8
  <2>2. C[x] = IF x = E THEN B[k] ELSE B[x]
    BY <1>9, <2>1
  <2>3. IF x = E THEN k \in k..(E - 1) ELSE x \in k..(E - 1)
    BY <1>6, <1>8
  <2> QED
    BY <1>6, <2>2, <2>3
<1>14. /\ k - S \in 0..(n - 1) /\ S + (k - S) = k
       /\ S + (k - S) - 1 = k - 1 /\ S + (k - S) + 1 = k + 1
  BY <1>6
<1> HIDE DEF E
<1>15. /\ [A |-> C, k |-> k - S].A = C /\ [A |-> C, k |-> k - S].k = k - S
  OBVIOUS
<1> QED
  BY <1>7, <1>9, <1>10, <1>11, <1>12, <1>13, <1>14, <1>15, Zenon DEF E

----------------------------------------------------------------------------
(* insertion_sort *)

SmallerUpTo(B, i, E) == {x \in (i + 1)..E : \A y \in (i + 1)..x : B[y] < B[i]}
Insert(B, i, E) == Rotate(B, i, i + Cardinality(SmallerUpTo(B, i, E)))
SortedFrom(B, i, E) == \A x, y \in i..E : x < y => B[x] <= B[y]

\* An element goes behind the smaller ones that follow it: up to m.
GoesTo(B, i, E, m) ==
  /\ m \in i..E /\ Insert(B, i, E) = Rotate(B, i, m)
  /\ \A y \in (i + 1)..m : B[y] < B[i]
  /\ m < E => ~(B[m + 1] < B[i])

LEMMA InsertGoes ==
  ASSUME NEW B, NEW E \in Nat, NEW i \in 0..E
  PROVE  \E m : GoesTo(B, i, E, m)
<1> DEFINE s == SmallerUpTo(B, i, E)
<1>1. s \in SUBSET (1..E) /\ s \subseteq (i + 1)..E
  BY DEF SmallerUpTo
<1>2. CASE s = {}
  <2>1. Cardinality(s) = 0
    BY <1>2, FS_EmptySet
  <2>2. i + Cardinality(s) = i /\ i \in i..E /\ (i + 1)..i = {}
    BY <2>1
  <2>3. ASSUME i < E, B[i + 1] < B[i] PROVE FALSE
    <3>1. i + 1 \in (i + 1)..E /\ (i + 1)..(i + 1) = {i + 1}
      BY <2>3
    <3>2. \A y \in (i + 1)..(i + 1) : B[y] < B[i]
      BY <2>3, <3>1
    <3>3. i + 1 \in s
      BY <3>1, <3>2, Zenon DEF SmallerUpTo
    <3> QED
      BY <1>2, <3>3
  <2>4. Insert(B, i, E) = Rotate(B, i, i)
    BY <2>2, Zenon DEF Insert
  <2> HIDE DEF s
  <2>5. GoesTo(B, i, E, i)
    BY <2>2, <2>3, <2>4, Zenon DEF GoesTo
  <2> QED
    BY <2>5
<1>3. CASE s # {}
  <2> DEFINE m == Max(s)
  <2>1. m \in s /\ \A x \in s : m >= x
    BY <1>1, <1>3, GreatestIs, Zenon
  <2>2. m \in (i + 1)..E /\ \A y \in (i + 1)..m : B[y] < B[i]
    BY <1>1, <2>1, Zenon DEF SmallerUpTo
  <2> HIDE DEF m
  <2>3. s = (i + 1)..m
    <3>1. ASSUME NEW x \in s PROVE x \in (i + 1)..m
      BY <1>1, <2>1, <2>2, <3>1
    <3>2. ASSUME NEW x \in (i + 1)..m PROVE x \in s
      <4>1. x \in (i + 1)..E /\ (i + 1)..x \subseteq (i + 1)..m
        BY <2>2
      <4>2. \A y \in (i + 1)..x : B[y] < B[i]
        BY <2>2, <4>1, Zenon
      <4> QED
        BY <4>1, <4>2, Zenon DEF SmallerUpTo
    <3> HIDE DEF s
    <3> QED
      BY <3>1, <3>2
  <2>4. Cardinality(s) = m - i
    <3>1. i + 1 \in Int /\ m \in Int /\ i + 1 <= m /\ m - (i + 1) + 1 = m - i
      BY <2>2
    <3>2. Cardinality((i + 1)..m) = m - (i + 1) + 1
      BY <3>1, FS_Interval
    <3> QED
      BY <2>3, <3>1, <3>2, Zenon
  <2>5. i + Cardinality(s) = m /\ m \in i..E
    BY <2>2, <2>4
  <2>6. ASSUME m < E, B[m + 1] < B[i] PROVE FALSE
    <3>1. m + 1 \in (i + 1)..E /\ ~(m >= m + 1)
      BY <2>2, <2>6
    <3>2. ASSUME NEW y \in (i + 1)..(m + 1) PROVE B[y] < B[i]
      <4>1. y \in (i + 1)..m \/ y = m + 1
        BY <2>2
      <4> QED
        BY <2>2, <2>6, <4>1, Zenon
    <3>3. m + 1 \in s
      BY <3>1, <3>2, Zenon DEF SmallerUpTo
    <3> QED
      BY <2>1, <3>1, <3>3, Zenon
  <2>7. Insert(B, i, E) = Rotate(B, i, m)
    BY <2>5, Zenon DEF Insert
  <2>8. GoesTo(B, i, E, m)
    BY <2>2, <2>5, <2>6, <2>7, Zenon DEF GoesTo
  <2> QED
    BY <2>8
<1> QED
  BY <1>2, <1>3

\* An array with R rearranged.
Rearrangement(B, A, R, N) == B \in IntArray(N) /\ Rearranged(B, A, R, N)

LEMMA InsertArray ==
  ASSUME NEW N \in Nat, NEW B \in IntArray(N), NEW E \in 0..(N - 1), NEW i \in 0..E
  PROVE  Rearrangement(Insert(B, i, E), B, i..E, N)
<1>1. E \in Nat
  OBVIOUS
<1>2. PICK m : GoesTo(B, i, E, m)
  BY <1>1, InsertGoes, Zenon
<1>3. m \in i..E /\ Insert(B, i, E) = Rotate(B, i, m)
  BY <1>2, Zenon DEF GoesTo
<1>4. m \in 0..(N - 1) /\ i \in 0..(N - 1) /\ i <= m /\ i..m \subseteq i..E
  BY <1>3
<1> QED
  BY <1>3, <1>4, RearrangedRotate, Zenon DEF Rearrangement

LEMMA InsertSorts ==
  ASSUME NEW N \in Nat, NEW B \in IntArray(N), NEW E \in 0..(N - 1), NEW i \in 0..E,
         SortedFrom(B, i + 1, E)
  PROVE  SortedFrom(Insert(B, i, E), i, E)
<1> DEFINE D == 0..(N - 1)
<1>1. E \in Nat /\ i \in D /\ i..E \subseteq D /\ E \in Int /\ i \in Int
  OBVIOUS
<1>2. PICK m : GoesTo(B, i, E, m)
  BY <1>1, InsertGoes, Zenon
<1>3. /\ m \in i..E /\ Insert(B, i, E) = Rotate(B, i, m)
      /\ \A y \in (i + 1)..m : B[y] < B[i]
      /\ m < E => ~(B[m + 1] < B[i])
  BY <1>2, Zenon DEF GoesTo
<1> DEFINE C == Rotate(B, i, m)
<1>4. DOMAIN B = D /\ \A x \in D : B[x] \in Int
  BY DEF IntArray
<1>5. \A x \in D : C[x] = IF x \in i..(m - 1) THEN B[x + 1] ELSE IF x = m THEN B[i] ELSE B[x]
  BY <1>4, Zenon DEF Rotate
<1> HIDE DEF C, D
<1>6. \A x, y \in (i + 1)..E : x < y => B[x] <= B[y]
  BY Zenon DEF SortedFrom
<1>7. ASSUME NEW x \in i..E, NEW y \in i..E, x < y PROVE C[x] <= C[y]
  <2>0. x \in D /\ y \in D /\ x \in Int /\ y \in Int /\ m \in Int /\ i <= m /\ m <= E
    BY <1>1, <1>3
  <2>1. CASE y <= m - 1
    <3>1. C[x] = B[x + 1] /\ C[y] = B[y + 1]
      BY <1>5, <1>7, <2>0, <2>1
    <3>2. x + 1 \in (i + 1)..E /\ y + 1 \in (i + 1)..E /\ x + 1 < y + 1
      BY <1>7, <2>0, <2>1
    <3> QED
      BY <1>6, <3>1, <3>2, Zenon
  <2>2. CASE y = m
    <3>1. C[x] = B[x + 1] /\ C[y] = B[i]
      BY <1>5, <1>7, <2>0, <2>2
    <3>2. x + 1 \in (i + 1)..m /\ x + 1 \in i..E
      BY <1>7, <2>0, <2>2
    <3>3. B[x + 1] < B[i] /\ B[x + 1] \in Int /\ B[i] \in Int
      BY <1>1, <1>3, <1>4, <3>2
    <3> QED
      BY <3>1, <3>3
  <2>3. CASE y > m
    <3>1. C[y] = B[y] /\ y \in (m + 1)..E /\ m < E /\ m + 1 \in (i + 1)..E /\ y \in (i + 1)..E
      BY <1>5, <1>7, <2>0, <2>3
    <3>2. B[m + 1] <= B[y] /\ B[i] <= B[m + 1]
      <4>1. B[m + 1] \in Int /\ B[i] \in Int /\ B[y] \in Int
        BY <1>1, <1>4, <2>0, <3>1
      <4>2. B[i] <= B[m + 1]
        BY <1>3, <3>1, <4>1
      <4>3. m + 1 = y \/ m + 1 < y
        BY <2>0, <3>1
      <4> QED
        BY <1>6, <3>1, <4>1, <4>2, <4>3
    <3>3. CASE x < m
      <4>1. C[x] = B[x + 1] /\ x + 1 \in (i + 1)..m /\ x + 1 \in i..E
        BY <1>5, <2>0, <3>3
      <4>2. B[x + 1] < B[i] /\ B[x + 1] \in Int /\ B[i] \in Int /\ B[m + 1] \in Int /\ B[y] \in Int
        BY <1>1, <1>3, <1>4, <2>0, <3>1, <4>1
      <4> QED
        BY <3>1, <3>2, <4>1, <4>2
    <3>4. CASE x = m
      <4>1. C[x] = B[i]
        BY <1>5, <2>0, <3>4
      <4>2. B[i] \in Int /\ B[m + 1] \in Int /\ B[y] \in Int
        BY <1>1, <1>4, <2>0, <3>1
      <4> QED
        BY <3>1, <3>2, <4>1, <4>2
    <3>5. CASE x > m
      <4>1. C[x] = B[x] /\ x \in (i + 1)..E
        BY <1>5, <2>0, <3>5
      <4> QED
        BY <1>6, <1>7, <3>1, <4>1, Zenon
    <3> QED
      BY <2>0, <3>3, <3>4, <3>5
  <2> QED
    BY <2>0, <2>1, <2>2, <2>3
<1> QED
  BY <1>3, <1>7, Zenon DEF SortedFrom, C

\* The loop of insertion_sort: r[i] after i elements, from the last but one down.
InsertionRun(A, S, n, r) ==
  r[0] = A /\ \A i \in 1..(n - 1) : r[i] = Insert(r[i - 1], S + n - 1 - i, S + n - 1)
InsertionMade(A, S, n, N) ==
  \E r : InsertionRun(A, S, n, r) /\ insertion_sort(A, S, n) = r[n - 1]

LEMMA InsertionRuns ==
  ASSUME NEW N \in Nat, NEW A \in IntArray(N), NEW S \in Nat, NEW n \in Nat \ {0}, S + n <= N
  PROVE  InsertionMade(A, S, n, N)
<1> DEFINE E == S + n - 1
           X == IntArray(N)
           J == [m \in 0..(n - 1) |-> X]
           V == S..(S + n - 2)
           seq == [x \in 1..(n - 1) |-> S + n - 1 - x]
           step == [q \in X \X V |-> Insert(q[1], q[2], E)]
           Eq(g) == g = [s \in SUBSET DOMAIN seq |->
                           IF s = {} THEN A ELSE Insert(g[s \ {Max(s)}], seq[Max(s)], E)]
<1>1. n - 1 \in Nat /\ DOMAIN seq = 1..(n - 1) /\ \A m \in 1..(n - 1) : seq[m] \in V
  OBVIOUS
<1> HIDE DEF X
<1>2. A \in X
  BY DEF X
<1>3. ASSUME NEW x \in X, NEW v \in V PROVE step[x, v] = Insert(x, v, E)
  BY <1>3, Zenon
<1>4. ASSUME NEW m \in 1..(n - 1), NEW x \in X PROVE step[x, seq[m]] \in X
  <2>1. seq[m] \in V
    BY <1>1, Zenon
  <2> HIDE DEF seq, step
  <2>2. E \in 0..(N - 1) /\ seq[m] \in 0..E
    BY <2>1
  <2>3. x \in IntArray(N)
    BY DEF X
  <2> HIDE DEF E
  <2>4. Rearrangement(Insert(x, seq[m], E), x, seq[m]..E, N)
    BY <2>2, <2>3, InsertArray, Zenon
  <2> QED
    BY <1>3, <2>1, <2>4, Zenon DEF Rearrangement, X
<1>5. \A m \in 0..(n - 1) : J[m] = X
  OBVIOUS
<1>6. A \in J[0] /\ Steps(J, step, seq, n - 1) /\ J[n - 1] = X
  <2>1. /\ 0 \in 0..(n - 1) /\ n - 1 \in 0..(n - 1)
        /\ \A m \in 1..(n - 1) : m - 1 \in 0..(n - 1) /\ m \in 0..(n - 1)
    OBVIOUS
  <2> HIDE DEF J, step, seq
  <2>2. ASSUME NEW m \in 1..(n - 1)
        PROVE  J[m - 1] \subseteq J[m] /\ \A x \in J[m - 1] : step[x, seq[m]] \in J[m]
    <3>1. J[m - 1] = X /\ J[m] = X
      BY <1>5, <2>1, Zenon
    <3>2. \A x \in X : step[x, seq[m]] \in X
      BY <1>4, Zenon
    <3> QED
      BY <3>1, <3>2
  <2> QED
    BY <1>2, <1>5, <2>1, <2>2, Zenon DEF Steps
<1> HIDE DEF J, V, step, E
<1>7a. PICK g \in [SUBSET (1..(n - 1)) -> J[n - 1]] : \E r :
             /\ Folds(g, A, step, seq, n - 1)
             /\ Runs(J, A, step, seq, n - 1, r) /\ r[n - 1] = g[1..(n - 1)]
  <2> HIDE DEF seq
  <2>1. Made(J, A, step, seq, n - 1)
    BY <1>1, <1>6, FoldMakes, Zenon
  <2> QED
    BY <2>1, Zenon DEF Made
<1>7. PICK r :
             /\ Folds(g, A, step, seq, n - 1)
             /\ Runs(J, A, step, seq, n - 1, r) /\ r[n - 1] = g[1..(n - 1)]
  BY <1>7a, Zenon
<1>8. Eq(g)
  <2> HIDE DEF seq
  <2>1. ASSUME NEW s \in SUBSET (1..(n - 1)), s # {}
        PROVE  step[g[s \ {Max(s)}], seq[Max(s)]] = Insert(g[s \ {Max(s)}], seq[Max(s)], E)
    <3>1. Max(s) \in 1..(n - 1)
      BY <1>1, <2>1, GreatestIs, Zenon
    <3>2. s \ {Max(s)} \in SUBSET (1..(n - 1))
      OBVIOUS
    <3> QED
      BY <1>1, <1>3, <1>6, <3>1, <3>2
  <2>2. \A s \in SUBSET (1..(n - 1)) :
          g[s] = IF s = {} THEN A ELSE Insert(g[s \ {Max(s)}], seq[Max(s)], E)
    BY <1>7, <2>1, Zenon DEF Folds, Step
  <2>3. g = [s \in SUBSET (1..(n - 1)) |-> g[s]]
    OBVIOUS
  <2>4. g = [s \in SUBSET (1..(n - 1)) |->
               IF s = {} THEN A ELSE Insert(g[s \ {Max(s)}], seq[Max(s)], E)]
    BY <2>2, <2>3, Zenon
  <2> QED
    BY <1>1, <2>4, Zenon
<1> DEFINE G == CHOOSE f : Eq(f)
<1>9. Eq(G)
  BY <1>8, Zenon
<1>10. insertion_sort(A, S, n) = G[DOMAIN seq]
  BY Zenon DEF insertion_sort, FoldLeft, MapThenFoldSet, Insert, Rotate, SmallerUpTo, E
<1> HIDE DEF G, seq
<1>11. G[1..(n - 1)] = g[1..(n - 1)]
  <2>1. {} \in SUBSET (1..(n - 1))
    OBVIOUS
  <2>2. Alike(G, g, n - 1)
    BY <1>1, <1>8, <1>9, <2>1, Zenon DEF Alike
  <2> QED
    BY <1>1, <2>2, SameFold, Zenon
<1>12. InsertionRun(A, S, n, r)
  <2>1. ASSUME NEW i \in 1..(n - 1) PROVE r[i] = Insert(r[i - 1], S + n - 1 - i, S + n - 1)
    <3>1. i - 1 \in 0..(n - 1)
      OBVIOUS
    <3>2. r[i - 1] \in X
      BY <1>5, <1>7, <3>1, Zenon DEF Runs
    <3>3. seq[i] = S + n - 1 - i
      BY Zenon DEF seq
    <3> QED
      BY <1>1, <1>3, <1>7, <3>2, <3>3, Zenon DEF Runs, E
  <2> QED
    BY <1>7, <2>1, Zenon DEF Runs, InsertionRun
<1> QED
  BY <1>1, <1>7, <1>10, <1>11, <1>12, Zenon DEF InsertionMade

\* insertion_sort sorts its elements.
LEMMA InsertionSorts ==
  ASSUME NEW N \in Nat, NEW A \in IntArray(N), NEW S \in Nat, NEW n \in Nat \ {0}, S + n <= N
  PROVE  LET B == insertion_sort(A, S, n)
         IN Rearrangement(B, A, S..(S + n - 1), N) /\ SortedFrom(B, S, S + n - 1)
<1> DEFINE E == S + n - 1
<1>1. PICK r : InsertionRun(A, S, n, r) /\ insertion_sort(A, S, n) = r[n - 1]
  <2>1. InsertionMade(A, S, n, N)
    BY InsertionRuns, Zenon
  <2> QED
    BY <2>1, Zenon DEF InsertionMade
<1> DEFINE In(i) == Rearrangement(r[i], A, S..E, N) /\ SortedFrom(r[i], E - i, E)
           T == {i \in Nat : i <= n - 1 => In(i)}
<1>2. In(0)
  <2>1. r[0] = A
    BY <1>1, Zenon DEF InsertionRun
  <2>2. \A x, y \in (E - 0)..E : ~(x < y)
    OBVIOUS
  <2> HIDE DEF E
  <2> QED
    BY <2>1, <2>2, RearrangedSame, Zenon DEF Rearrangement, SortedFrom
<1>3. ASSUME NEW i \in Nat, i \in T PROVE i + 1 \in T
  <2> HIDE DEF In
  <2> SUFFICES ASSUME i + 1 <= n - 1 PROVE In(i + 1)
    OBVIOUS
  <2>1. /\ i + 1 \in 1..(n - 1) /\ (i + 1) - 1 = i /\ i <= n - 1
        /\ S + n - 1 - (i + 1) = E - (i + 1) /\ E - (i + 1) \in 0..E /\ E \in 0..(N - 1)
        /\ (E - (i + 1)) + 1 = E - i /\ (E - (i + 1))..E \subseteq S..E
    OBVIOUS
  <2>2. In(i)
    BY <1>3, <2>1
  <2>3. r[i + 1] = Insert(r[i], E - (i + 1), E)
    BY <1>1, <2>1, Zenon DEF InsertionRun
  <2> HIDE DEF E
  <2>4. r[i] \in IntArray(N) /\ Rearranged(r[i], A, S..E, N) /\ SortedFrom(r[i], E - i, E)
    BY <2>2, Zenon DEF In, Rearrangement
  <2>5. Rearrangement(r[i + 1], r[i], (E - (i + 1))..E, N)
    BY <2>1, <2>3, <2>4, InsertArray, Zenon
  <2>6. SortedFrom(r[i], (E - (i + 1)) + 1, E)
    BY <2>1, <2>4, Zenon
  <2>7. SortedFrom(r[i + 1], E - (i + 1), E)
    BY <2>1, <2>3, <2>4, <2>6, InsertSorts, Zenon
  <2>8. Rearranged(r[i + 1], r[i], S..E, N)
    BY <2>1, <2>5, RearrangedMore, Zenon DEF Rearrangement
  <2>9. Rearranged(r[i + 1], A, S..E, N)
    BY <2>4, <2>8, RearrangedAgain, Zenon
  <2> QED
    BY <2>5, <2>7, <2>9, Zenon DEF In, Rearrangement
<1>4. In(n - 1)
  <2> HIDE DEF In
  <2>1. n - 1 \in T
    <3>1. 0 \in T
      BY <1>2
    <3> HIDE DEF T
    <3>2. n - 1 \in Nat
      OBVIOUS
    <3> QED
      BY <1>3, <3>1, <3>2, Induct, Zenon
  <2> QED
    BY <2>1
<1>5. E - (n - 1) = S
  OBVIOUS
<1> QED
  BY <1>1, <1>4, <1>5, Zenon

----------------------------------------------------------------------------
(* The pivot of the iterative sort and of qsort_final *)

\* A median is one of its arguments, and another one is not greater.
MedianOf(A, m, s) == m \in s /\ \E y \in s : y # m /\ A[y] <= A[m]
LEMMA MedianIs ==
  ASSUME NEW N \in Nat, NEW A \in IntArray(N), NEW a \in 0..(N - 1), NEW b \in 0..(N - 1),
         NEW c \in 0..(N - 1)
  PROVE  /\ med3(A, a, b, c) \in {a, b, c}
         /\ a # b /\ a # c /\ b # c => MedianOf(A, med3(A, a, b, c), {a, b, c})
<1>1. A[a] \in Int /\ A[b] \in Int /\ A[c] \in Int
  BY DEF IntArray
<1> DEFINE m == med3(A, a, b, c)
<1>2. \/ m = b /\ A[a] < A[b]
      \/ m = c /\ A[a] < A[c]
      \/ m = a /\ A[c] <= A[a]
      \/ m = b /\ A[c] < A[b]
      \/ m = a /\ A[b] <= A[a]
      \/ m = c /\ A[b] <= A[c]
  BY <1>1 DEF med3
<1> HIDE DEF m
<1>3. m \in {a, b, c}
  BY <1>2
<1>4. ASSUME a # b, a # c, b # c PROVE \E y \in {a, b, c} : y # m /\ A[y] <= A[m]
  BY <1>1, <1>2, <1>4
<1> QED
  BY <1>3, <1>4, Zenon DEF MedianOf, m

LEMMA NintherIs ==
  ASSUME NEW N \in Nat, NEW A \in IntArray(N), NEW L \in Nat, NEW R \in 0..(N - 1), R - L >= 7
  PROVE  MedianOf(A, Ninther(A, L, R), L..R)
<1> DEFINE len == R - L + 1
           p == len \div 8
           h == len \div 2
<1>1. len \in Nat /\ len >= 8 /\ L + len - 1 = R
  OBVIOUS
<1>2. p \in Nat /\ 8 * p <= len /\ len < 8 * p + 8
  BY <1>1
<1>3. h \in Nat /\ 2 * h <= len /\ len < 2 * h + 2
  BY <1>1
<1> DEFINE mid == L + h
           f == med3(A, L, L + p, L + 2 * p)
           g == med3(A, mid - p, mid, mid + p)
           k == med3(A, R - 2 * p, R - p, R)
<1>4. Ninther(A, L, R) = med3(A, f, g, k)
  BY Zenon DEF Ninther
<1> HIDE DEF len, p, h
<1>5. /\ p >= 1
      /\ L \in L..R /\ L + p \in L..R /\ L + 2 * p \in L..R
      /\ mid - p \in L..R /\ mid \in L..R /\ mid + p \in L..R
      /\ R - 2 * p \in L..R /\ R - p \in L..R /\ R \in L..R
      /\ L..R \subseteq 0..(N - 1)
  BY <1>1, <1>2, <1>3
<1>6. /\ L # L + p /\ L # L + 2 * p /\ L + p # L + 2 * p
      /\ mid - p # mid /\ mid - p # mid + p /\ mid # mid + p
      /\ R - 2 * p # R - p /\ R - 2 * p # R /\ R - p # R
  BY <1>2, <1>3, <1>5
<1> HIDE DEF mid
<1>13. ASSUME NEW a \in L..R, NEW b \in L..R, NEW c \in L..R, a # b, a # c, b # c
       PROVE  MedianOf(A, med3(A, a, b, c), {a, b, c})
  <2>1. a \in 0..(N - 1) /\ b \in 0..(N - 1) /\ c \in 0..(N - 1)
    BY <1>5, Zenon
  <2> QED
    BY <1>13, <2>1, MedianIs, Zenon
<1>7. MedianOf(A, f, {L, L + p, L + 2 * p})
  BY <1>5, <1>6, <1>13, Zenon
<1>8. MedianOf(A, g, {mid - p, mid, mid + p})
  BY <1>5, <1>6, <1>13, Zenon
<1>9. MedianOf(A, k, {R - 2 * p, R - p, R})
  BY <1>5, <1>6, <1>13, Zenon
<1> HIDE DEF f, g, k
<1>10. MedianOf(A, f, L..R) /\ MedianOf(A, g, L..R) /\ MedianOf(A, k, L..R)
  <2>1. ASSUME NEW m, NEW s, MedianOf(A, m, s), s \subseteq L..R PROVE MedianOf(A, m, L..R)
    BY <2>1, Zenon DEF MedianOf
  <2>2. {L, L + p, L + 2 * p} \subseteq L..R
    BY <1>5, Zenon
  <2>3. {mid - p, mid, mid + p} \subseteq L..R
    BY <1>5, Zenon
  <2>4. {R - 2 * p, R - p, R} \subseteq L..R
    BY <1>5, Zenon
  <2> QED
    BY <1>7, <1>8, <1>9, <2>1, <2>2, <2>3, <2>4, Zenon
<1>11. f \in 0..(N - 1) /\ g \in 0..(N - 1) /\ k \in 0..(N - 1)
  BY <1>5, <1>10, Zenon DEF MedianOf
<1>12. med3(A, f, g, k) \in {f, g, k}
  BY <1>11, MedianIs, Zenon
<1> QED
  BY <1>4, <1>10, <1>12, Zenon

\* The least and the greatest of some numbers.
LEMMA LeastOf ==
  ASSUME NEW S \in SUBSET Nat, S # {}
  PROVE  \E x \in S : \A y \in S : x <= y
<1> DEFINE R == {p \in Nat \X Nat : p[1] < p[2]}
<1>1. IsWellFoundedOn(R, Nat)
  BY NatLessThanWellFounded DEF OpToRel
<1>2. \A m, k \in Nat : <<m, k>> \in R <=> m < k
  OBVIOUS
<1> HIDE DEF R
<1>3. PICK x \in S : \A m \in S : ~(<<m, x>> \in R)
  BY <1>1, WFMin
<1>4. ASSUME NEW y \in S PROVE x <= y
  <2>1. x \in Nat /\ y \in Nat
    OBVIOUS
  <2>2. ~(y < x)
    BY <1>2, <1>3, <2>1, Zenon
  <2> QED
    BY <2>1, <2>2
<1> QED
  BY <1>4

LEMMA GreatestOf ==
  ASSUME NEW n \in Nat, NEW S \in SUBSET (0..n), S # {}
  PROVE  \E x \in S : \A y \in S : y <= x
<1> DEFINE T == {n - x : x \in S}
<1>1. T \in SUBSET Nat /\ T # {}
  <2>1. \A x \in S : n - x \in Nat
    OBVIOUS
  <2> QED
    BY <2>1, Zenon
<1>2. PICK k \in T : \A y \in T : k <= y
  <2> HIDE DEF T
  <2> QED
    BY <1>1, LeastOf, Zenon
<1>3. PICK x \in S : k = n - x
  BY <1>2, Zenon
<1>4. ASSUME NEW y \in S PROVE y <= x
  <2>1. n - x <= n - y
    BY <1>2, <1>3, Zenon
  <2> QED
    BY <2>1
<1> QED
  BY <1>4

----------------------------------------------------------------------------
(* The scans of qsort_final *)

\* What has been scanned from l on: the elements that equal the pivot t at the end, the
\* smaller ones after them.
LeftDone(A, l, P, I, t) ==
  /\ P \in l..I
  /\ \A x \in l..P : A[x] = t
  /\ \A x \in (P + 1)..I : A[x] < t
RightDone(A, J, Q, r, t) ==
  /\ Q \in J..(r + 1)
  /\ \A x \in J..(Q - 1) : A[x] > t
  /\ \A x \in Q..r : A[x] = t

\* The element at I is added on the left.
PutLeft(B, P, I, t) == IF B[I] = t THEN Swap(B, P + 1, I) ELSE B
LEMMA LeftMore ==
  ASSUME NEW N \in Nat, NEW B \in IntArray(N), NEW l \in Nat, NEW I \in 1..(N - 1), NEW t \in Int,
         NEW P, LeftDone(B, l, P, I - 1, t), B[I] <= t
  PROVE  LET C == PutLeft(B, P, I, t)
         IN /\ Rearrangement(C, B, l..I, N)
            /\ LeftDone(C, l, IF B[I] = t THEN P + 1 ELSE P, I, t)
<1> DEFINE C == PutLeft(B, P, I, t)
           D == 0..(N - 1)
<1>1. /\ P \in l..(I - 1)
      /\ \A x \in l..P : B[x] = t
      /\ \A x \in (P + 1)..(I - 1) : B[x] < t
  BY Zenon DEF LeftDone
<1>2. /\ P \in Int /\ l <= P /\ P < I /\ I \in D /\ P + 1 \in D
      /\ P + 1 \in l..I /\ I \in l..I /\ l..I \subseteq D
  BY <1>1
<1>3. B[I] \in Int
  BY <1>2 DEF IntArray
<1>4. CASE B[I] = t
  <2>1. C = Swap(B, P + 1, I)
    BY <1>4, Zenon DEF PutLeft
  <2>2. Swapped(C, B, P + 1, I, N)
    BY <1>2, <2>1, SwapIs, Zenon
  <2>3. Rearrangement(C, B, l..I, N)
    <3>1. Rearranged(C, B, l..I, N)
      BY <1>2, <2>1, RearrangedSwap, Zenon
    <3> QED
      BY <2>2, <3>1, Zenon DEF Rearrangement, Swapped
  <2>4. \A x \in l..I : C[x] = IF x = I THEN B[P + 1] ELSE IF x = P + 1 THEN B[I] ELSE B[x]
    BY <1>2, <2>2, Zenon DEF Swapped
  <2> HIDE DEF C
  <2>5. P + 1 \in l..I
    BY <1>2
  <2>6. ASSUME NEW x \in l..(P + 1) PROVE C[x] = t
    <3>1. x \in l..I /\ (x = P + 1 \/ x \in l..P)
      BY <1>2
    <3>2. P + 1 = I \/ x # I
      BY <1>2
    <3> QED
      BY <1>1, <1>2, <1>4, <2>4, <3>1, <3>2
  <2>7. ASSUME NEW x \in (P + 1 + 1)..I PROVE C[x] < t
    <3>1. x \in l..I /\ x # P + 1 /\ P + 1 \in (P + 1)..(I - 1) /\ (x = I \/ x \in (P + 1)..(I - 1))
      BY <1>2
    <3> QED
      BY <1>1, <2>4, <3>1
  <2>8. LeftDone(C, l, P + 1, I, t)
    BY <2>5, <2>6, <2>7, Zenon DEF LeftDone
  <2> QED
    BY <1>4, <2>3, <2>8, Zenon DEF C
<1>5. CASE B[I] # t
  <2>1. C = B
    BY <1>5, Zenon DEF PutLeft
  <2>2. Rearrangement(B, B, l..I, N)
    BY RearrangedSame, Zenon DEF Rearrangement
  <2>3. ASSUME NEW x \in (P + 1)..I PROVE B[x] < t
    <3>1. x = I \/ x \in (P + 1)..(I - 1)
      BY <1>2
    <3> QED
      BY <1>1, <1>3, <1>5, <3>1
  <2>4. P \in l..I
    BY <1>2
  <2>5. LeftDone(B, l, P, I, t)
    BY <1>1, <2>3, <2>4, Zenon DEF LeftDone
  <2> QED
    BY <1>5, <2>1, <2>2, <2>5, Zenon
<1> QED
  BY <1>4, <1>5, Zenon

\* ... the element at J on the right.
PutRight(B, Q, J, t) == IF B[J] = t THEN Swap(B, Q - 1, J) ELSE B
LEMMA RightMore ==
  ASSUME NEW N \in Nat, NEW B \in IntArray(N), NEW r \in 0..(N - 1), NEW J \in 0..r, NEW t \in Int,
         NEW Q, RightDone(B, J + 1, Q, r, t), B[J] >= t
  PROVE  LET C == PutRight(B, Q, J, t)
         IN /\ Rearrangement(C, B, J..r, N)
            /\ RightDone(C, J, IF B[J] = t THEN Q - 1 ELSE Q, r, t)
<1> DEFINE C == PutRight(B, Q, J, t)
           D == 0..(N - 1)
<1>1. /\ Q \in (J + 1)..(r + 1)
      /\ \A x \in (J + 1)..(Q - 1) : B[x] > t
      /\ \A x \in Q..r : B[x] = t
  BY Zenon DEF RightDone
<1>2. /\ Q \in Int /\ J < Q /\ Q <= r + 1 /\ J \in D /\ Q - 1 \in D
      /\ Q - 1 \in J..r /\ J \in J..r /\ J..r \subseteq D
  BY <1>1
<1>3. B[J] \in Int
  BY <1>2 DEF IntArray
<1>4. CASE B[J] = t
  <2>1. C = Swap(B, Q - 1, J)
    BY <1>4, Zenon DEF PutRight
  <2>2. Swapped(C, B, Q - 1, J, N)
    BY <1>2, <2>1, SwapIs, Zenon
  <2>3. Rearrangement(C, B, J..r, N)
    <3>1. Rearranged(C, B, J..r, N)
      BY <1>2, <2>1, RearrangedSwap, Zenon
    <3> QED
      BY <2>2, <3>1, Zenon DEF Rearrangement, Swapped
  <2>4. \A x \in J..r : C[x] = IF x = J THEN B[Q - 1] ELSE IF x = Q - 1 THEN B[J] ELSE B[x]
    BY <1>2, <2>2, Zenon DEF Swapped
  <2> HIDE DEF C
  <2>5. Q - 1 \in J..(r + 1)
    BY <1>2
  <2>6. ASSUME NEW x \in (Q - 1)..r PROVE C[x] = t
    <3>1. x \in J..r /\ (x = Q - 1 \/ x \in Q..r)
      BY <1>2
    <3>2. Q - 1 = J \/ x # J
      BY <1>2
    <3> QED
      BY <1>1, <1>2, <1>4, <2>4, <3>1, <3>2
  <2>7. ASSUME NEW x \in J..(Q - 1 - 1) PROVE C[x] > t
    <3>1. x \in J..r /\ x # Q - 1 /\ Q - 1 \in (J + 1)..(Q - 1) /\ (x = J \/ x \in (J + 1)..(Q - 1))
      BY <1>2
    <3> QED
      BY <1>1, <2>4, <3>1
  <2>8. RightDone(C, J, Q - 1, r, t)
    BY <2>5, <2>6, <2>7, Zenon DEF RightDone
  <2> QED
    BY <1>4, <2>3, <2>8, Zenon DEF C
<1>5. CASE B[J] # t
  <2>1. C = B
    BY <1>5, Zenon DEF PutRight
  <2>2. Rearrangement(B, B, J..r, N)
    BY RearrangedSame, Zenon DEF Rearrangement
  <2>3. ASSUME NEW x \in J..(Q - 1) PROVE B[x] > t
    <3>1. x = J \/ x \in (J + 1)..(Q - 1)
      BY <1>2
    <3> QED
      BY <1>1, <1>3, <1>5, <3>1
  <2>4. Q \in J..(r + 1)
    BY <1>2
  <2>5. RightDone(B, J, Q, r, t)
    BY <1>1, <2>3, <2>4, Zenon DEF RightDone
  <2> QED
    BY <1>5, <2>1, <2>2, <2>5, Zenon
<1> QED
  BY <1>4, <1>5, Zenon

\* Where the scans stop.
StopsUp(A, I, r, t, x) == (x = r \/ A[x] >= t) /\ \A y \in (I + 1)..(x - 1) : A[y] < t
StopsDown(A, J, l, t, x) == (x = l \/ A[x] <= t) /\ \A y \in (x + 1)..(J - 1) : A[y] > t
Up(A, I, r, t) == CHOOSE x \in (I + 1)..r : StopsUp(A, I, r, t, x)
Down(A, J, l, t) == CHOOSE x \in l..(J - 1) : StopsDown(A, J, l, t, x)

LEMMA ScanUp ==
  ASSUME NEW N \in Nat, NEW A \in IntArray(N), NEW r \in 0..(N - 1), NEW I \in 0..(r - 1),
         NEW t \in Int
  PROVE  Up(A, I, r, t) \in (I + 1)..r /\ StopsUp(A, I, r, t, Up(A, I, r, t))
<1> DEFINE S == {x \in (I + 1)..r : x = r \/ A[x] >= t}
<1>1. r \in S /\ S \subseteq Nat
  OBVIOUS
<1>2. PICK x \in S : \A y \in S : x <= y
  <2> HIDE DEF S
  <2> QED
    BY <1>1, LeastOf, Zenon
<1>3. x \in (I + 1)..r /\ (x = r \/ A[x] >= t)
  BY <1>2, Zenon
<1>4. ASSUME NEW y \in (I + 1)..(x - 1) PROVE A[y] < t
  <2>1. y \in (I + 1)..r /\ ~(x <= y) /\ y \in 0..(N - 1)
    BY <1>3
  <2>2. ~(A[y] >= t)
    BY <1>2, <2>1, Zenon
  <2>3. A[y] \in Int
    BY <2>1 DEF IntArray
  <2> QED
    BY <2>2, <2>3
<1>5. StopsUp(A, I, r, t, x)
  BY <1>3, <1>4, Zenon DEF StopsUp
<1> QED
  BY <1>3, <1>5, Zenon DEF Up

LEMMA ScanDown ==
  ASSUME NEW N \in Nat, NEW A \in IntArray(N), NEW l \in Nat, NEW J \in (l + 1)..N, NEW t \in Int
  PROVE  Down(A, J, l, t) \in l..(J - 1) /\ StopsDown(A, J, l, t, Down(A, J, l, t))
<1> DEFINE S == {x \in l..(J - 1) : x = l \/ A[x] <= t}
<1>1. l \in S /\ S \in SUBSET (0..(J - 1)) /\ J - 1 \in Nat
  OBVIOUS
<1>2. PICK x \in S : \A y \in S : y <= x
  <2> HIDE DEF S
  <2>1. S # {}
    BY <1>1
  <2> QED
    BY <1>1, <2>1, GreatestOf, Zenon
<1>3. x \in l..(J - 1) /\ (x = l \/ A[x] <= t)
  BY <1>2, Zenon
<1>4. ASSUME NEW y \in (x + 1)..(J - 1) PROVE A[y] > t
  <2>1. y \in l..(J - 1) /\ ~(y <= x) /\ y \in 0..(N - 1)
    BY <1>3
  <2>2. ~(A[y] <= t)
    BY <1>2, <2>1, Zenon
  <2>3. A[y] \in Int
    BY <2>1 DEF IntArray
  <2> QED
    BY <2>2, <2>3
<1>5. StopsDown(A, J, l, t, x)
  BY <1>3, <1>4, Zenon DEF StopsDown
<1> QED
  BY <1>3, <1>5, Zenon DEF Down

\* Before the scans meet, and after.
Apart(s, l, r, t) ==
  s.I < r /\ LeftDone(s.A, l, s.P, s.I, t) /\ RightDone(s.A, s.J, s.Q, r, t)
Met(s, l, r, t) ==
  /\ s.J \in l..r /\ s.P \in l..s.J /\ s.Q \in (s.J + 1)..(r + 1)
  /\ \A x \in l..s.P : s.A[x] = t
  /\ \A x \in (s.P + 1)..(s.J - 1) : s.A[x] < t
  /\ s.A[s.J] <= t
  /\ \A x \in (s.J + 1)..(s.Q - 1) : s.A[x] > t
  /\ \A x \in s.Q..r : s.A[x] = t
ScanInv(s, A, l, r, N) ==
  /\ s \in [A : IntArray(N), I : Nat, J : Nat, P : Nat, Q : Nat]
  /\ Rearranged(s.A, A, l..r, N) /\ s.A[l] = A[l]
  /\ IF s.I < s.J THEN Apart(s, l, r, A[l]) ELSE Met(s, l, r, A[l])

\* What a round does, in the terms above.
LEMMA RoundIs ==
  ASSUME NEW l, NEW r, NEW s
  PROVE  LET t == s.A[l]
             I == Up(s.A, s.I, r, t)
             J == Down(s.A, s.J, l, t)
             B == Swap(s.A, I, J)
             C == PutLeft(B, s.P, I, t)
         IN Round(l, r, s) =
              IF I >= J THEN [s EXCEPT !.I = I, !.J = J]
              ELSE [A |-> PutRight(C, s.Q, J, t), I |-> I, J |-> J,
                    P |-> IF B[I] = t THEN s.P + 1 ELSE s.P,
                    Q |-> IF C[J] = t THEN s.Q - 1 ELSE s.Q]
<1> DEFINE t == s.A[l]
           I == Up(s.A, s.I, r, t)
           J == Down(s.A, s.J, l, t)
           B == Swap(s.A, I, J)
           P == IF B[I] = t THEN s.P + 1 ELSE s.P
           C == PutLeft(B, s.P, I, t)
           D == IF B[I] = t THEN Swap(B, P, I) ELSE B
           Q == IF C[J] = t THEN s.Q - 1 ELSE s.Q
           E == IF C[J] = t THEN Swap(C, Q, J) ELSE C
<1>1. D = C
  <2> HIDE DEF B, I, t
  <2> QED
    BY Zenon DEF PutLeft
<1>2. E = PutRight(C, s.Q, J, t)
  <2> HIDE DEF C, J, t
  <2> QED
    BY Zenon DEF PutRight
<1>3. Round(l, r, s) =
        IF I >= J THEN [s EXCEPT !.I = I, !.J = J]
        ELSE LET c == D
                 q == IF c[J] = t THEN s.Q - 1 ELSE s.Q
             IN [A |-> IF c[J] = t THEN Swap(c, q, J) ELSE c, I |-> I, J |-> J, P |-> P, Q |-> q]
  BY Zenon DEF Round, Up, Down, StopsUp, StopsDown
<1> HIDE DEF D, I, J, B, t, C
<1>4. Round(l, r, s) =
        IF I >= J THEN [s EXCEPT !.I = I, !.J = J]
        ELSE [A |-> E, I |-> I, J |-> J, P |-> P, Q |-> Q]
  BY <1>1, <1>3, Zenon
<1> HIDE DEF E
<1>5. Round(l, r, s) =
        IF I >= J THEN [s EXCEPT !.I = I, !.J = J]
        ELSE [A |-> PutRight(C, s.Q, J, t), I |-> I, J |-> J, P |-> P, Q |-> Q]
  BY <1>2, <1>4, Zenon
<1> QED
  BY <1>5, Zenon DEF D, I, J, B, t, C

LEMMA ScannedTo ==
  ASSUME NEW X, NEW s \in [A : X, I : Nat, J : Nat, P : Nat, Q : Nat], NEW i \in Nat, NEW j \in Nat
  PROVE  [s EXCEPT !.I = i, !.J = j] = [A |-> s.A, I |-> i, J |-> j, P |-> s.P, Q |-> s.Q]
<1> DEFINE m == [s EXCEPT !.I = i, !.J = j]
<1>1. m \in [A : X, I : Nat, J : Nat, P : Nat, Q : Nat]
  OBVIOUS
<1>2. m.A = s.A /\ m.P = s.P /\ m.Q = s.Q
  OBVIOUS
<1>3. m.I = i /\ m.J = j
  OBVIOUS
<1> HIDE DEF m
<1>4. m = [A |-> m.A, I |-> m.I, J |-> m.J, P |-> m.P, Q |-> m.Q]
  BY <1>1
<1>5. m = [A |-> s.A, I |-> i, J |-> j, P |-> s.P, Q |-> s.Q]
  BY <1>4, <1>2, <1>3, Zenon
<1> QED
  BY <1>5, Zenon DEF m

LEMMA RoundKeeps ==
  ASSUME NEW N \in Nat, NEW A \in IntArray(N), NEW l \in Nat, NEW r \in (l + 1)..(N - 1), NEW s,
         ScanInv(s, A, l, r, N), s.I < s.J
  PROVE  LET n == Round(l, r, s)
         IN ScanInv(n, A, l, r, N) /\ (n.I < n.J => n.J - n.I <= s.J - s.I - 1)
<1> DEFINE t == A[l]
           V == s.A
           I == Up(V, s.I, r, t)
           J == Down(V, s.J, l, t)
           B == Swap(V, I, J)
           C == PutLeft(B, s.P, I, t)
           E == PutRight(C, s.Q, J, t)
           P == IF B[I] = t THEN s.P + 1 ELSE s.P
           Q == IF C[J] = t THEN s.Q - 1 ELSE s.Q
           n == IF I >= J THEN [s EXCEPT !.I = I, !.J = J]
                ELSE [A |-> E, I |-> I, J |-> J, P |-> P, Q |-> Q]
<1>1. /\ V \in IntArray(N) /\ s.I \in Nat /\ s.J \in Nat /\ s.P \in Nat /\ s.Q \in Nat
      /\ Rearranged(V, A, l..r, N) /\ V[l] = t
      /\ s.I < r /\ LeftDone(V, l, s.P, s.I, t) /\ RightDone(V, s.J, s.Q, r, t)
      /\ s = [A |-> V, I |-> s.I, J |-> s.J, P |-> s.P, Q |-> s.Q]
  BY DEF ScanInv, Apart
<1>2. Round(l, r, s) = n
  BY <1>1, RoundIs, Zenon
<1>3. /\ s.P \in l..s.I
      /\ \A x \in l..s.P : V[x] = t
      /\ \A x \in (s.P + 1)..s.I : V[x] < t
  BY <1>1, Zenon DEF LeftDone
<1>4. /\ s.Q \in s.J..(r + 1)
      /\ \A x \in s.J..(s.Q - 1) : V[x] > t
      /\ \A x \in s.Q..r : V[x] = t
  BY <1>1, Zenon DEF RightDone
<1>5. t \in Int /\ l \in 0..(N - 1) /\ r \in 0..(N - 1) /\ l \in 0..r
  BY DEF IntArray
<1> HIDE DEF t, V
<1>6. I \in (s.I + 1)..r /\ StopsUp(V, s.I, r, t, I)
  <2>1. s.I \in 0..(r - 1)
    BY <1>1, <1>5
  <2> QED
    BY <1>1, <1>5, <2>1, ScanUp, Zenon
<1>7. J \in l..(s.J - 1) /\ StopsDown(V, s.J, l, t, J)
  <2>1. s.J \in (l + 1)..N
    BY <1>1, <1>3, <1>4, <1>5
  <2> QED
    BY <1>1, <1>5, <2>1, ScanDown, Zenon
<1> HIDE DEF I, J
<1>8. (I = r \/ V[I] >= t) /\ \A y \in (s.I + 1)..(I - 1) : V[y] < t
  BY <1>6, Zenon DEF StopsUp
<1>9. V[J] <= t /\ \A y \in (J + 1)..(s.J - 1) : V[y] > t
  <2>1. t <= t
    BY <1>5
  <2> QED
    BY <1>1, <1>7, <2>1, Zenon DEF StopsDown
<1>10. /\ I \in Int /\ J \in Int /\ s.I < I /\ I <= r /\ l <= J /\ J < s.J /\ s.J <= s.Q /\ s.Q <= r + 1
       /\ l <= s.P /\ s.P <= s.I /\ J <= r
  BY <1>1, <1>3, <1>4, <1>6, <1>7
<1>11. s.I <= J
  <2> SUFFICES ASSUME ~(s.I <= J) PROVE FALSE
    OBVIOUS
  <2>1. s.I \in (J + 1)..(s.J - 1) /\ (s.I \in l..s.P \/ s.I \in (s.P + 1)..s.I)
    BY <1>1, <1>10
  <2>2. V[s.I] > t /\ (V[s.I] = t \/ V[s.I] < t)
    BY <1>3, <1>9, <2>1, Zenon
  <2>3. V[s.I] \in Int
    <3>1. s.I \in 0..(N - 1)
      BY <1>1, <1>5
    <3> QED
      BY <1>1, <3>1 DEF IntArray
  <2> QED
    BY <1>5, <2>2, <2>3
<1>12. CASE I >= J
  <2> DEFINE m == [A |-> V, I |-> I, J |-> J, P |-> s.P, Q |-> s.Q]
  <2>1. n = m
    <3>1. [s EXCEPT !.I = I, !.J = J] = m
      <4>1. s \in [A : IntArray(N), I : Nat, J : Nat, P : Nat, Q : Nat]
        BY Zenon DEF ScanInv
      <4>2. I \in Nat /\ J \in Nat
        BY <1>1, <1>10
      <4> QED
        BY <1>10, <4>1, <4>2, ScannedTo, Zenon DEF V
    <3> QED
      BY <1>12, <3>1, Zenon
  <2>2. m.A = V /\ m.I = I /\ m.J = J /\ m.P = s.P /\ m.Q = s.Q /\ m \in [A : IntArray(N), I : Nat, J : Nat, P : Nat, Q : Nat]
    BY <1>1, <1>10
  <2>3. ~(I < J) /\ J \in l..r /\ s.P \in l..J /\ s.Q \in (J + 1)..(r + 1)
    BY <1>1, <1>10, <1>11, <1>12
  <2>4. ASSUME NEW x \in (s.P + 1)..(J - 1) PROVE V[x] < t
    <3>1. x \in (s.P + 1)..s.I \/ x \in (s.I + 1)..(I - 1)
      BY <1>1, <1>10, <1>12
    <3> QED
      BY <1>3, <1>8, <3>1, Zenon
  <2>5. ASSUME NEW x \in (J + 1)..(s.Q - 1) PROVE V[x] > t
    <3>1. x \in (J + 1)..(s.J - 1) \/ x \in s.J..(s.Q - 1)
      BY <1>1, <1>10
    <3> QED
      BY <1>4, <1>9, <3>1, Zenon
  <2> HIDE DEF m
  <2>6. Met(m, l, r, t)
    BY <1>3, <1>4, <1>9, <2>2, <2>3, <2>4, <2>5, Zenon DEF Met
  <2>7. ScanInv(m, A, l, r, N) /\ ~(m.I < m.J)
    BY <1>1, <2>2, <2>3, <2>6, Zenon DEF ScanInv, t
  <2> HIDE DEF n
  <2> QED
    BY <1>2, <2>1, <2>7, Zenon
<1>13. CASE I < J
  <2> DEFINE m == [A |-> E, I |-> I, J |-> J, P |-> P, Q |-> Q]
  <2>1. n = m
    BY <1>10, <1>13
  <2>2. /\ I \in 0..(N - 1) /\ J \in 0..(N - 1) /\ I \in l..r /\ J \in l..r /\ I < r
        /\ I \in 1..(N - 1) /\ J \in 0..r /\ I - 1 \in Int /\ l..I \subseteq l..r /\ J..r \subseteq l..r
        /\ l..r \subseteq 0..(N - 1) /\ J \notin l..I /\ l \notin J..r
    BY <1>1, <1>5, <1>10, <1>13
  <2>3. Swapped(B, V, I, J, N) /\ Rearranged(B, V, l..r, N)
    BY <1>1, <2>2, SwapIs, RearrangedSwap, Zenon
  <2>4. /\ B \in IntArray(N)
        /\ \A x \in 0..(N - 1) : B[x] = IF x = J THEN V[I] ELSE IF x = I THEN V[J] ELSE V[x]
    BY <2>3, Zenon DEF Swapped
  <2> HIDE DEF B
  <2>5. B[I] <= t /\ B[J] >= t
    BY <1>8, <1>9, <2>2, <2>4
  <2>6. LeftDone(B, l, s.P, I - 1, t)
    <3>1. s.P \in l..(I - 1)
      BY <1>1, <1>10
    <3>2. ASSUME NEW x \in l..(I - 1) PROVE B[x] = V[x]
      <4>1. x \in 0..(N - 1) /\ x # I /\ x # J
        BY <1>5, <1>10, <1>13
      <4> QED
        BY <2>4, <4>1, Zenon
    <3>3. ASSUME NEW x \in l..s.P PROVE B[x] = t
      <4>1. x \in l..(I - 1)
        BY <1>1, <1>10
      <4> QED
        BY <1>3, <3>2, <4>1, Zenon
    <3>4. ASSUME NEW x \in (s.P + 1)..(I - 1) PROVE B[x] < t
      <4>1. x \in l..(I - 1) /\ (x \in (s.P + 1)..s.I \/ x \in (s.I + 1)..(I - 1))
        BY <1>1, <1>10
      <4> QED
        BY <1>3, <1>8, <3>2, <4>1, Zenon
    <3> QED
      BY <3>1, <3>3, <3>4, Zenon DEF LeftDone
  <2>7. Rearrangement(C, B, l..I, N) /\ LeftDone(C, l, P, I, t)
    BY <1>5, <2>2, <2>4, <2>5, <2>6, LeftMore, Zenon
  <2> HIDE DEF C, P
  <2>8. C \in IntArray(N) /\ Rearranged(C, B, l..I, N) /\ Rearranged(C, B, l..r, N)
    BY <2>2, <2>7, RearrangedMore, Zenon DEF Rearrangement
  <2>9. \A x \in (0..(N - 1)) \ (l..I) : C[x] = B[x]
    <3>1. SameOutside(C, B, l..I, N)
      BY <2>8, RearrangedElements, Zenon
    <3> QED
      BY <3>1, Zenon DEF SameOutside
  <2>10. C[J] >= t
    BY <2>2, <2>5, <2>9
  <2>11. RightDone(C, J + 1, s.Q, r, t)
    <3>1. s.Q \in (J + 1)..(r + 1)
      BY <1>1, <1>10
    <3>2. ASSUME NEW x \in (J + 1)..r PROVE C[x] = V[x]
      <4>1. x \in 0..(N - 1) /\ x # I /\ x # J /\ x \notin l..I
        BY <1>5, <1>10, <1>13
      <4> QED
        BY <2>4, <2>9, <4>1
    <3>3. ASSUME NEW x \in s.Q..r PROVE C[x] = t
      <4>1. x \in (J + 1)..r
        BY <1>1, <1>10
      <4> QED
        BY <1>4, <3>2, <4>1, Zenon
    <3>4. ASSUME NEW x \in (J + 1)..(s.Q - 1) PROVE C[x] > t
      <4>1. x \in (J + 1)..r /\ (x \in (J + 1)..(s.J - 1) \/ x \in s.J..(s.Q - 1))
        BY <1>1, <1>10
      <4> QED
        BY <1>4, <1>9, <3>2, <4>1, Zenon
    <3> QED
      BY <3>1, <3>3, <3>4, Zenon DEF RightDone
  <2>12. Rearrangement(E, C, J..r, N) /\ RightDone(E, J, Q, r, t)
    BY <1>5, <2>2, <2>8, <2>10, <2>11, RightMore, Zenon
  <2> HIDE DEF E, Q
  <2>13. E \in IntArray(N) /\ Rearranged(E, C, J..r, N) /\ Rearranged(E, C, l..r, N)
    BY <2>2, <2>12, RearrangedMore, Zenon DEF Rearrangement
  <2>14. \A x \in (0..(N - 1)) \ (J..r) : E[x] = C[x]
    <3>1. SameOutside(E, C, J..r, N)
      BY <2>13, RearrangedElements, Zenon
    <3> QED
      BY <3>1, Zenon DEF SameOutside
  <2>15. LeftDone(E, l, P, I, t)
    <3>1. ASSUME NEW x \in l..I PROVE E[x] = C[x]
      <4>1. x \in (0..(N - 1)) \ (J..r)
        BY <1>5, <1>10, <1>13
      <4> QED
        BY <2>14, <4>1, Zenon
    <3>2. P \in l..I /\ (\A x \in l..P : C[x] = t) /\ (\A x \in (P + 1)..I : C[x] < t)
      BY <2>7, Zenon DEF LeftDone
    <3>3. ASSUME NEW x \in l..P PROVE E[x] = t
      <4>1. x \in l..I
        BY <1>10, <3>2
      <4> QED
        BY <3>1, <3>2, <4>1, Zenon
    <3>4. ASSUME NEW x \in (P + 1)..I PROVE E[x] < t
      <4>1. x \in l..I
        BY <1>10, <3>2
      <4> QED
        BY <3>1, <3>2, <4>1, Zenon
    <3> QED
      BY <3>2, <3>3, <3>4, Zenon DEF LeftDone
  <2>16. Rearranged(E, A, l..r, N)
    BY <1>1, <2>3, <2>8, <2>13, RearrangedAgain, Zenon
  <2>17. P \in l..I /\ (\A x \in l..P : E[x] = t) /\ Q \in J..(r + 1)
    BY <2>12, <2>15, Zenon DEF LeftDone, RightDone
  <2>18. E[l] = t
    <3>1. l \in l..P
      BY <1>10, <2>17
    <3> QED
      BY <2>17, <3>1, Zenon
  <2>19. m.A = E /\ m.I = I /\ m.J = J /\ m.P = P /\ m.Q = Q /\ m \in [A : IntArray(N), I : Nat, J : Nat, P : Nat, Q : Nat]
    <3>1. I \in Nat /\ J \in Nat /\ P \in Nat /\ Q \in Nat
      BY <2>2, <2>17
    <3> QED
      BY <2>13, <3>1
  <2>20. m.J - m.I <= s.J - s.I - 1
    BY <1>1, <1>10, <2>19
  <2> HIDE DEF m
  <2>21. Apart(m, l, r, t)
    BY <2>2, <2>12, <2>15, <2>19, Zenon DEF Apart
  <2>22. ScanInv(m, A, l, r, N)
    BY <1>13, <2>16, <2>18, <2>19, <2>21, Zenon DEF ScanInv, t
  <2> HIDE DEF n
  <2> QED
    BY <1>2, <2>1, <2>20, <2>22, Zenon
<1>14. I >= J \/ I < J
  BY <1>10
<1> HIDE DEF n
<1> QED
  BY <1>12, <1>13, <1>14, Zenon

\* The rounds, until the scans have met: s[i] after i of them.
Rounds(s, l, r) == IF s.I < s.J THEN Round(l, r, s) ELSE s
ScanStart(A, l, r) == [A |-> A, I |-> l, J |-> r + 1, P |-> l, Q |-> r + 1]
ScanRun(A, l, r, s) ==
  /\ s[0] = ScanStart(A, l, r)
  /\ \A i \in 1..(r + 1 - l) : s[i] = Rounds(s[i - 1], l, r)
ScanMade(A, l, r) == \E s : ScanRun(A, l, r, s) /\ Scans(A, l, r) = s[r + 1 - l]

LEMMA RoundsKeep ==
  ASSUME NEW N \in Nat, NEW A \in IntArray(N), NEW l \in Nat, NEW r \in (l + 1)..(N - 1), NEW s,
         ScanInv(s, A, l, r, N)
  PROVE  ScanInv(Rounds(s, l, r), A, l, r, N)
<1>1. CASE s.I < s.J
  BY <1>1, RoundKeeps, Zenon DEF Rounds
<1>2. CASE ~(s.I < s.J)
  BY <1>2, Zenon DEF Rounds
<1> QED
  BY <1>1, <1>2, Zenon

LEMMA ScanBegins ==
  ASSUME NEW N \in Nat, NEW A \in IntArray(N), NEW l \in Nat, NEW r \in (l + 1)..(N - 1)
  PROVE  ScanInv(ScanStart(A, l, r), A, l, r, N)
<1> DEFINE s == ScanStart(A, l, r)
<1>1. /\ s.A = A /\ s.I = l /\ s.J = r + 1 /\ s.P = l /\ s.Q = r + 1
      /\ s \in [A : IntArray(N), I : Nat, J : Nat, P : Nat, Q : Nat]
  BY DEF ScanStart
<1> HIDE DEF s
<1>2. l < r + 1 /\ l < r /\ l \in l..l /\ r + 1 \in (r + 1)..(r + 1)
  OBVIOUS
<1>3. LeftDone(A, l, l, l, A[l]) /\ RightDone(A, r + 1, r + 1, r, A[l])
  <2>1. ASSUME NEW x \in l..l PROVE A[x] = A[l]
    <3>1. x = l
      OBVIOUS
    <3> QED
      BY <3>1
  <2>2. ASSUME NEW x \in (l + 1)..l PROVE A[x] < A[l]
    BY <2>2
  <2>3. ASSUME NEW x \in (r + 1)..(r + 1 - 1) PROVE A[x] > A[l]
    BY <2>3
  <2>4. ASSUME NEW x \in (r + 1)..r PROVE A[x] = A[l]
    BY <2>4
  <2>5. LeftDone(A, l, l, l, A[l])
    BY <1>2, <2>1, <2>2, Zenon DEF LeftDone
  <2>6. RightDone(A, r + 1, r + 1, r, A[l])
    BY <1>2, <2>3, <2>4 DEF RightDone
  <2> QED
    BY <2>5, <2>6
<1>4. Apart(s, l, r, A[l])
  BY <1>1, <1>2, <1>3, Zenon DEF Apart
<1> QED
  BY <1>1, <1>2, <1>4, RearrangedSame, Zenon DEF ScanInv, s

LEMMA ScanRuns ==
  ASSUME NEW N \in Nat, NEW A \in IntArray(N), NEW l \in Nat, NEW r \in (l + 1)..(N - 1)
  PROVE  ScanMade(A, l, r)
<1> DEFINE n == r + 1 - l
           X == {s \in [A : IntArray(N), I : Nat, J : Nat, P : Nat, Q : Nat] : ScanInv(s, A, l, r, N)}
           J == [m \in 0..n |-> X]
           base == ScanStart(A, l, r)
           seq == [x \in 1..n |-> x]
           step == [q \in X \X (1..n) |-> Rounds(q[1], l, r)]
           Eq(g) == g = [s \in SUBSET DOMAIN seq |->
                           IF s = {} THEN base ELSE Rounds(g[s \ {Max(s)}], l, r)]
<1>1. n \in Nat /\ DOMAIN seq = 1..n /\ \A m \in 1..n : seq[m] \in 1..n
  OBVIOUS
<1>2. \A s : s \in X <=> ScanInv(s, A, l, r, N)
  BY Zenon DEF ScanInv
<1> HIDE DEF n, X
<1>3. ASSUME NEW x \in X, NEW v \in 1..n PROVE step[x, v] = Rounds(x, l, r)
  BY <1>3, Zenon
<1>4. ASSUME NEW m \in 1..n, NEW x \in X PROVE step[x, seq[m]] \in X
  <2> HIDE DEF seq, step
  <2> QED
    BY <1>1, <1>2, <1>3, RoundsKeep, Zenon
<1>5. \A m \in 0..n : J[m] = X
  OBVIOUS
<1>6. base \in J[0] /\ Steps(J, step, seq, n) /\ J[n] = X
  <2>1. 0 \in 0..n /\ n \in 0..n /\ \A m \in 1..n : m - 1 \in 0..n /\ m \in 0..n
    BY <1>1
  <2> HIDE DEF J, step, seq, base
  <2>2. ASSUME NEW m \in 1..n
        PROVE  J[m - 1] \subseteq J[m] /\ \A x \in J[m - 1] : step[x, seq[m]] \in J[m]
    <3>1. J[m - 1] = X /\ J[m] = X
      BY <1>5, <2>1, Zenon
    <3>2. \A x \in X : step[x, seq[m]] \in X
      BY <1>4, Zenon
    <3> QED
      BY <3>1, <3>2
  <2>3. base \in X
    BY <1>2, ScanBegins, Zenon DEF base
  <2> QED
    BY <1>5, <2>1, <2>2, <2>3, Zenon DEF Steps
<1> HIDE DEF J, step
<1>7a. PICK g \in [SUBSET (1..n) -> J[n]] : \E s :
             Folds(g, base, step, seq, n) /\ Runs(J, base, step, seq, n, s) /\ s[n] = g[1..n]
  <2> HIDE DEF seq, base
  <2>1. Made(J, base, step, seq, n)
    BY <1>1, <1>6, FoldMakes, Zenon
  <2> QED
    BY <2>1, Zenon DEF Made
<1>7. PICK s :
             Folds(g, base, step, seq, n) /\ Runs(J, base, step, seq, n, s) /\ s[n] = g[1..n]
  BY <1>7a, Zenon
<1>8. Eq(g)
  <2> HIDE DEF seq, base
  <2>1. ASSUME NEW z \in SUBSET (1..n), z # {}
        PROVE  step[g[z \ {Max(z)}], seq[Max(z)]] = Rounds(g[z \ {Max(z)}], l, r)
    <3>1. Max(z) \in 1..n
      BY <1>1, <2>1, GreatestIs, Zenon
    <3>2. z \ {Max(z)} \in SUBSET (1..n)
      OBVIOUS
    <3> QED
      BY <1>1, <1>3, <1>6, <3>1, <3>2
  <2>2. \A z \in SUBSET (1..n) : g[z] = IF z = {} THEN base ELSE Rounds(g[z \ {Max(z)}], l, r)
    BY <1>7, <2>1, Zenon DEF Folds, Step
  <2>3. g = [z \in SUBSET (1..n) |-> g[z]]
    OBVIOUS
  <2>4. g = [z \in SUBSET (1..n) |-> IF z = {} THEN base ELSE Rounds(g[z \ {Max(z)}], l, r)]
    BY <2>2, <2>3, Zenon
  <2> QED
    BY <1>1, <2>4, Zenon
<1> DEFINE G == CHOOSE f : Eq(f)
<1>9. Eq(G)
  BY <1>8, Zenon
<1>10. Scans(A, l, r) = G[DOMAIN seq]
  BY Zenon DEF Scans, FoldLeft, MapThenFoldSet, Rounds, ScanStart, n
<1> HIDE DEF G, seq, base
<1>11. G[1..n] = g[1..n]
  <2>1. {} \in SUBSET (1..n)
    OBVIOUS
  <2>2. Alike(G, g, n)
    BY <1>1, <1>8, <1>9, <2>1, Zenon DEF Alike
  <2> QED
    BY <1>1, <2>2, SameFold, Zenon
<1>12. ScanRun(A, l, r, s)
  <2>1. ASSUME NEW i \in 1..n PROVE s[i] = Rounds(s[i - 1], l, r)
    <3>1. i - 1 \in 0..n
      BY <1>1
    <3>2. s[i - 1] \in X
      BY <1>5, <1>7, <3>1, Zenon DEF Runs
    <3> QED
      BY <1>1, <1>3, <1>7, <3>2, Zenon DEF Runs
  <2> QED
    BY <1>7, <2>1, Zenon DEF Runs, ScanRun, base, n
<1> QED
  BY <1>1, <1>7, <1>10, <1>11, <1>12, Zenon DEF ScanMade, n

\* The scans meet, and have parted the elements by the pivot.
LEMMA ScansMeet ==
  ASSUME NEW N \in Nat, NEW A \in IntArray(N), NEW l \in Nat, NEW r \in (l + 1)..(N - 1)
  PROVE  LET s == Scans(A, l, r)
         IN s.A \in IntArray(N) /\ Rearranged(s.A, A, l..r, N) /\ Met(s, l, r, A[l])
<1> DEFINE n == r + 1 - l
<1>1. PICK s : ScanRun(A, l, r, s) /\ Scans(A, l, r) = s[n]
  BY ScanRuns, Zenon DEF ScanMade
<1> DEFINE In(i) == ScanInv(s[i], A, l, r, N) /\ (s[i].I < s[i].J => s[i].J - s[i].I <= n - i)
           T == {i \in Nat : i <= n => In(i)}
<1>2. n \in Nat
  OBVIOUS
<1>3. In(0)
  <2>1. s[0] = ScanStart(A, l, r) /\ ScanStart(A, l, r).I = l /\ ScanStart(A, l, r).J = r + 1
    BY <1>1, Zenon DEF ScanRun, ScanStart
  <2>2. (r + 1) - l <= n - 0
    OBVIOUS
  <2> HIDE DEF n
  <2> QED
    BY <2>1, <2>2, ScanBegins, Zenon
<1>4. ASSUME NEW i \in Nat, i \in T PROVE i + 1 \in T
  <2> HIDE DEF In
  <2> SUFFICES ASSUME i + 1 <= n PROVE In(i + 1)
    OBVIOUS
  <2>1. i + 1 \in 1..n /\ (i + 1) - 1 = i /\ i <= n
    OBVIOUS
  <2>2. ScanInv(s[i], A, l, r, N) /\ (s[i].I < s[i].J => s[i].J - s[i].I <= n - i)
    <3>1. In(i)
      BY <1>4, <2>1
    <3> QED
      BY <3>1, Zenon DEF In
  <2>3. s[i + 1] = Rounds(s[i], l, r)
    BY <1>1, <2>1, Zenon DEF ScanRun
  <2>4. ScanInv(s[i + 1], A, l, r, N)
    BY <2>2, <2>3, RoundsKeep, Zenon
  <2>5. ASSUME s[i + 1].I < s[i + 1].J PROVE s[i + 1].J - s[i + 1].I <= n - (i + 1)
    <3>1. s[i].I < s[i].J
      BY <2>3, <2>5, Zenon DEF Rounds
    <3>2. s[i + 1] = Round(l, r, s[i])
      BY <2>3, <3>1, Zenon DEF Rounds
    <3>3. s[i + 1].J - s[i + 1].I <= s[i].J - s[i].I - 1
      BY <2>2, <2>5, <3>1, <3>2, RoundKeeps, Zenon
    <3>4. s[i].J \in Nat /\ s[i].I \in Nat /\ s[i + 1].J \in Nat /\ s[i + 1].I \in Nat
      BY <2>2, <2>4 DEF ScanInv
    <3> QED
      BY <1>2, <2>2, <3>1, <3>3, <3>4
  <2> QED
    BY <2>4, <2>5, Zenon DEF In
<1>5. In(n)
  <2> HIDE DEF In
  <2>1. n \in T
    <3>1. 0 \in T
      BY <1>3
    <3> HIDE DEF T
    <3> QED
      BY <1>2, <1>4, <3>1, Induct, Zenon
  <2>2. n <= n
    BY <1>2
  <2> QED
    BY <2>1, <2>2
<1> HIDE DEF n
<1>6. ~(s[n].I < s[n].J)
  <2>1. s[n].J \in Nat /\ s[n].I \in Nat
    BY <1>5 DEF ScanInv
  <2> QED
    BY <1>2, <1>5, <2>1
<1>7. ScanInv(s[n], A, l, r, N)
  BY <1>5, Zenon
<1>8. s[n].A \in IntArray(N)
  BY <1>7 DEF ScanInv
<1> QED
  BY <1>1, <1>6, <1>7, <1>8, Zenon DEF ScanInv

----------------------------------------------------------------------------
(* What equals the pivot goes to the middle *)

\* Swaps of the positions a[i] and b[i]: z[i] after i of them, and the function that folds.
SwapRun(A, a, b, d, z) == z[0] = A /\ \A i \in 1..d : z[i] = Swap(z[i - 1], a[i], b[i])
SwapFold(A, a, b, d, g) ==
  \A s \in SUBSET (1..d) :
    g[s] = IF s = {} THEN A ELSE Swap(g[s \ {Max(s)}], a[Max(s)], b[Max(s)])
SwapMade(A, a, b, d, N) ==
  \E g \in [SUBSET (1..d) -> IntArray(N)] : \E z :
    SwapFold(A, a, b, d, g) /\ SwapRun(A, a, b, d, z) /\ z[d] = g[1..d]

LEMMA SwapsRun ==
  ASSUME NEW N \in Nat, NEW A \in IntArray(N), NEW d \in Nat,
         NEW a \in [1..d -> 0..(N - 1)], NEW b \in [1..d -> 0..(N - 1)]
  PROVE  SwapMade(A, a, b, d, N)
<1> DEFINE X == IntArray(N)
           J == [m \in 0..d |-> X]
           seq == [x \in 1..d |-> x]
           step == [q \in X \X (1..d) |-> Swap(q[1], a[q[2]], b[q[2]])]
<1>1. \A m \in 1..d : seq[m] = m
  OBVIOUS
<1> HIDE DEF X
<1>2. ASSUME NEW x \in X, NEW v \in 1..d PROVE step[x, v] = Swap(x, a[v], b[v])
  BY <1>2, Zenon
<1> HIDE DEF seq, step
<1>3. ASSUME NEW m \in 1..d, NEW x \in X PROVE step[x, seq[m]] \in X
  <2>1. a[m] \in 0..(N - 1) /\ b[m] \in 0..(N - 1) /\ x \in IntArray(N)
    BY Zenon DEF X
  <2>2. Swapped(Swap(x, a[m], b[m]), x, a[m], b[m], N)
    BY <2>1, SwapIs, Zenon
  <2> QED
    BY <1>1, <1>2, <2>2, Zenon DEF Swapped, X
<1>4. \A m \in 0..d : J[m] = X
  OBVIOUS
<1>5. A \in J[0] /\ Steps(J, step, seq, d) /\ J[d] = X
  <2>1. 0 \in 0..d /\ d \in 0..d /\ \A m \in 1..d : m - 1 \in 0..d /\ m \in 0..d
    OBVIOUS
  <2> HIDE DEF J
  <2>2. ASSUME NEW m \in 1..d
        PROVE  J[m - 1] \subseteq J[m] /\ \A x \in J[m - 1] : step[x, seq[m]] \in J[m]
    <3>1. J[m - 1] = X /\ J[m] = X
      BY <1>4, <2>1, Zenon
    <3>2. \A x \in X : step[x, seq[m]] \in X
      BY <1>3, Zenon
    <3> QED
      BY <3>1, <3>2
  <2>3. A \in X
    BY DEF X
  <2> QED
    BY <1>4, <2>1, <2>2, <2>3, Zenon DEF Steps
<1> HIDE DEF J
<1>6a. PICK g \in [SUBSET (1..d) -> J[d]] : \E z :
             Folds(g, A, step, seq, d) /\ Runs(J, A, step, seq, d, z) /\ z[d] = g[1..d]
  <2>1. Made(J, A, step, seq, d)
    BY <1>5, FoldMakes, Zenon
  <2> QED
    BY <2>1, Zenon DEF Made
<1>6. PICK z :
             Folds(g, A, step, seq, d) /\ Runs(J, A, step, seq, d, z) /\ z[d] = g[1..d]
  BY <1>6a, Zenon
<1>7. SwapFold(A, a, b, d, g)
  <2>1. ASSUME NEW s \in SUBSET (1..d), s # {}
        PROVE  step[g[s \ {Max(s)}], seq[Max(s)]] = Swap(g[s \ {Max(s)}], a[Max(s)], b[Max(s)])
    <3>1. Max(s) \in 1..d
      BY <2>1, GreatestIs, Zenon
    <3>2. s \ {Max(s)} \in SUBSET (1..d)
      OBVIOUS
    <3>3. g[s \ {Max(s)}] \in X
      BY <1>5, <3>2
    <3> QED
      BY <1>1, <1>2, <3>1, <3>3, Zenon
  <2> QED
    BY <1>6, <2>1, Zenon DEF Folds, Step, SwapFold
<1>8. SwapRun(A, a, b, d, z)
  <2>1. ASSUME NEW i \in 1..d PROVE z[i] = Swap(z[i - 1], a[i], b[i])
    <3>1. i - 1 \in 0..d
      OBVIOUS
    <3>2. z[i - 1] \in X
      BY <1>4, <1>6, <3>1, Zenon DEF Runs
    <3> QED
      BY <1>1, <1>2, <1>6, <3>2, Zenon DEF Runs
  <2> QED
    BY <1>6, <2>1, Zenon DEF Runs, SwapRun
<1>9. g \in [SUBSET (1..d) -> IntArray(N)]
  BY <1>5, Zenon DEF X
<1> QED
  BY <1>6, <1>7, <1>8, <1>9, Zenon DEF SwapMade

LeftSwaps(A, l, J, d) == FoldLeft(LAMBDA B, x : Swap(B, l + x, J - x), A, [x \in 1..d |-> x])
RightSwaps(A, J, r, d) == FoldLeft(LAMBDA B, x : Swap(B, r + 1 - x, J + x), A, [x \in 1..d |-> x])
LeftRun(A, l, J, d, z) == z[0] = A /\ \A i \in 1..d : z[i] = Swap(z[i - 1], l + i, J - i)
RightRun(A, J, r, d, z) == z[0] = A /\ \A i \in 1..d : z[i] = Swap(z[i - 1], r + 1 - i, J + i)
LeftMade(A, l, J, d) == \E z : LeftRun(A, l, J, d, z) /\ LeftSwaps(A, l, J, d) = z[d]
RightMade(A, J, r, d) == \E z : RightRun(A, J, r, d, z) /\ RightSwaps(A, J, r, d) = z[d]

LEMMA LeftRuns ==
  ASSUME NEW N \in Nat, NEW A \in IntArray(N), NEW l \in Nat, NEW J \in l..(N - 1),
         NEW d \in 0..(J - l)
  PROVE  LeftMade(A, l, J, d)
<1> DEFINE a == [x \in 1..d |-> l + x]
           b == [x \in 1..d |-> J - x]
           seq == [x \in 1..d |-> x]
           K(B, v) == Swap(B, l + v, J - v)
           Eq(g) == g = [s \in SUBSET DOMAIN seq |->
                           IF s = {} THEN A ELSE K(g[s \ {Max(s)}], seq[Max(s)])]
<1>1. /\ d \in Nat /\ DOMAIN seq = 1..d
      /\ a \in [1..d -> 0..(N - 1)] /\ b \in [1..d -> 0..(N - 1)]
      /\ \A v \in 1..d : a[v] = l + v /\ b[v] = J - v /\ seq[v] = v
  OBVIOUS
<1> HIDE DEF a, b
<1>2a. PICK g \in [SUBSET (1..d) -> IntArray(N)] : \E z :
             SwapFold(A, a, b, d, g) /\ SwapRun(A, a, b, d, z) /\ z[d] = g[1..d]
  <2>1. SwapMade(A, a, b, d, N)
    BY <1>1, SwapsRun, Zenon
  <2> QED
    BY <2>1, Zenon DEF SwapMade
<1>2. PICK z :
             SwapFold(A, a, b, d, g) /\ SwapRun(A, a, b, d, z) /\ z[d] = g[1..d]
  BY <1>2a, Zenon
<1>3. Eq(g)
  <2> HIDE DEF seq
  <2>1. ASSUME NEW s \in SUBSET (1..d), s # {}
        PROVE  g[s] = K(g[s \ {Max(s)}], seq[Max(s)])
    <3>1. Max(s) \in 1..d
      BY <1>1, <2>1, GreatestIs, Zenon
    <3>2. a[Max(s)] = l + seq[Max(s)] /\ b[Max(s)] = J - seq[Max(s)]
      BY <1>1, <3>1, Zenon
    <3>3. g[s] = Swap(g[s \ {Max(s)}], a[Max(s)], b[Max(s)])
      BY <1>2, <2>1, Zenon DEF SwapFold
    <3> QED
      BY <3>2, <3>3, Zenon
  <2>2. g = [s \in SUBSET (1..d) |-> g[s]]
    OBVIOUS
  <2>3. \A s \in SUBSET (1..d) : g[s] = IF s = {} THEN A ELSE K(g[s \ {Max(s)}], seq[Max(s)])
    BY <1>2, <2>1, Zenon DEF SwapFold
  <2> HIDE DEF K
  <2>4. g = [s \in SUBSET (1..d) |-> IF s = {} THEN A ELSE K(g[s \ {Max(s)}], seq[Max(s)])]
    BY <2>2, <2>3, Zenon
  <2> QED
    BY <1>1, <2>4, Zenon
<1> DEFINE G == CHOOSE f : Eq(f)
<1>4. Eq(G)
  BY <1>3, Zenon
<1>5. LeftSwaps(A, l, J, d) = G[DOMAIN seq]
  BY Zenon DEF LeftSwaps, FoldLeft, MapThenFoldSet
<1> HIDE DEF G, seq, K
<1>6. G[1..d] = g[1..d]
  <2>1. {} \in SUBSET (1..d)
    OBVIOUS
  <2>2. G[{}] = A /\ g[{}] = A
    BY <1>1, <1>3, <1>4, <2>1, Zenon
  <2>3. ASSUME NEW s \in SUBSET (1..d), s # {}
        PROVE  /\ G[s] = K(G[s \ {Max(s)}], seq[Max(s)])
               /\ g[s] = K(g[s \ {Max(s)}], seq[Max(s)])
    BY <1>1, <1>3, <1>4, <2>3, Zenon
  <2>4. Alike(G, g, d)
    BY <2>2, <2>3, Zenon DEF Alike
  <2> QED
    BY <1>1, <2>4, SameFold, Zenon
<1>7. LeftRun(A, l, J, d, z)
  BY <1>1, <1>2, Zenon DEF SwapRun, LeftRun
<1> QED
  BY <1>1, <1>2, <1>5, <1>6, <1>7, Zenon DEF LeftMade

LEMMA RightRuns ==
  ASSUME NEW N \in Nat, NEW A \in IntArray(N), NEW J \in Nat, NEW r \in J..(N - 1),
         NEW d \in 0..(r - J)
  PROVE  RightMade(A, J, r, d)
<1> DEFINE a == [x \in 1..d |-> r + 1 - x]
           b == [x \in 1..d |-> J + x]
           seq == [x \in 1..d |-> x]
           K(B, v) == Swap(B, r + 1 - v, J + v)
           Eq(g) == g = [s \in SUBSET DOMAIN seq |->
                           IF s = {} THEN A ELSE K(g[s \ {Max(s)}], seq[Max(s)])]
<1>1. /\ d \in Nat /\ DOMAIN seq = 1..d
      /\ a \in [1..d -> 0..(N - 1)] /\ b \in [1..d -> 0..(N - 1)]
      /\ \A v \in 1..d : a[v] = r + 1 - v /\ b[v] = J + v /\ seq[v] = v
  OBVIOUS
<1> HIDE DEF a, b
<1>2a. PICK g \in [SUBSET (1..d) -> IntArray(N)] : \E z :
             SwapFold(A, a, b, d, g) /\ SwapRun(A, a, b, d, z) /\ z[d] = g[1..d]
  <2>1. SwapMade(A, a, b, d, N)
    BY <1>1, SwapsRun, Zenon
  <2> QED
    BY <2>1, Zenon DEF SwapMade
<1>2. PICK z :
             SwapFold(A, a, b, d, g) /\ SwapRun(A, a, b, d, z) /\ z[d] = g[1..d]
  BY <1>2a, Zenon
<1>3. Eq(g)
  <2> HIDE DEF seq
  <2>1. ASSUME NEW s \in SUBSET (1..d), s # {}
        PROVE  g[s] = K(g[s \ {Max(s)}], seq[Max(s)])
    <3>1. Max(s) \in 1..d
      BY <1>1, <2>1, GreatestIs, Zenon
    <3>2. a[Max(s)] = r + 1 - seq[Max(s)] /\ b[Max(s)] = J + seq[Max(s)]
      BY <1>1, <3>1, Zenon
    <3>3. g[s] = Swap(g[s \ {Max(s)}], a[Max(s)], b[Max(s)])
      BY <1>2, <2>1, Zenon DEF SwapFold
    <3> QED
      BY <3>2, <3>3, Zenon
  <2>2. g = [s \in SUBSET (1..d) |-> g[s]]
    OBVIOUS
  <2>3. \A s \in SUBSET (1..d) : g[s] = IF s = {} THEN A ELSE K(g[s \ {Max(s)}], seq[Max(s)])
    BY <1>2, <2>1, Zenon DEF SwapFold
  <2> HIDE DEF K
  <2>4. g = [s \in SUBSET (1..d) |-> IF s = {} THEN A ELSE K(g[s \ {Max(s)}], seq[Max(s)])]
    BY <2>2, <2>3, Zenon
  <2> QED
    BY <1>1, <2>4, Zenon
<1> DEFINE G == CHOOSE f : Eq(f)
<1>4. Eq(G)
  BY <1>3, Zenon
<1>5. RightSwaps(A, J, r, d) = G[DOMAIN seq]
  BY Zenon DEF RightSwaps, FoldLeft, MapThenFoldSet
<1> HIDE DEF G, seq, K
<1>6. G[1..d] = g[1..d]
  <2>1. {} \in SUBSET (1..d)
    OBVIOUS
  <2>2. G[{}] = A /\ g[{}] = A
    BY <1>1, <1>3, <1>4, <2>1, Zenon
  <2>3. ASSUME NEW s \in SUBSET (1..d), s # {}
        PROVE  /\ G[s] = K(G[s \ {Max(s)}], seq[Max(s)])
               /\ g[s] = K(g[s \ {Max(s)}], seq[Max(s)])
    BY <1>1, <1>3, <1>4, <2>3, Zenon
  <2>4. Alike(G, g, d)
    BY <2>2, <2>3, Zenon DEF Alike
  <2> QED
    BY <1>1, <2>4, SameFold, Zenon
<1>7. RightRun(A, J, r, d, z)
  BY <1>1, <1>2, Zenon DEF SwapRun, RightRun
<1> QED
  BY <1>1, <1>2, <1>5, <1>6, <1>7, Zenon DEF RightMade

\* After x swaps on the left: nothing from l to J is greater than t, and these equal it.
LeftMoved(B, A, x, l, J, d, t, N) ==
  /\ Rearrangement(B, A, l..J, N)
  /\ \A p \in l..J : B[p] <= t
  /\ \A p \in (l + x + 1)..(l + d) : B[p] = t
  /\ \A p \in (J - x)..J : B[p] = t
  /\ \A p \in (J - d)..(l + d) : B[p] = t
\* ... on the right, where nothing after J is less.
RightMoved(B, A, x, J, r, d, t, N) ==
  /\ Rearrangement(B, A, (J + 1)..r, N)
  /\ \A p \in (J + 1)..r : B[p] >= t
  /\ \A p \in (r + 1 - d)..(r - x) : B[p] = t
  /\ \A p \in (J + 1)..(J + x) : B[p] = t
  /\ \A p \in (r + 1 - d)..(J + d) : B[p] = t

LEMMA LeftStep ==
  ASSUME NEW N \in Nat, NEW A, NEW B, NEW l \in Nat, NEW J \in l..(N - 1), NEW d \in 0..(J - l),
         NEW t \in Int, NEW x \in 1..d, LeftMoved(B, A, x - 1, l, J, d, t, N)
  PROVE  LeftMoved(Swap(B, l + x, J - x), A, x, l, J, d, t, N)
<1> DEFINE a == l + x
           b == J - x
           C == Swap(B, a, b)
<1>1. /\ B \in IntArray(N) /\ Rearranged(B, A, l..J, N)
      /\ \A p \in l..J : B[p] <= t
      /\ \A p \in a..(l + d) : B[p] = t
      /\ \A p \in (b + 1)..J : B[p] = t
      /\ \A p \in (J - d)..(l + d) : B[p] = t
  <2>1. l + (x - 1) + 1 = a /\ J - (x - 1) = b + 1
    OBVIOUS
  <2> HIDE DEF a, b
  <2> QED
    BY <2>1 DEF LeftMoved, Rearrangement
<1>2. /\ a \in 0..(N - 1) /\ b \in 0..(N - 1) /\ a \in l..J /\ b \in l..J /\ l..J \subseteq 0..(N - 1)
      /\ a \in Int /\ b \in Int /\ a + b = l + J /\ l < a /\ a <= l + d /\ b < J /\ J - d <= b
      /\ a \in a..(l + d)
  OBVIOUS
<1>3. Swapped(C, B, a, b, N) /\ Rearranged(C, B, l..J, N)
  <2> HIDE DEF a, b
  <2> QED
    BY <1>1, <1>2, SwapIs, RearrangedSwap, Zenon
<1>4. Rearrangement(C, A, l..J, N)
  BY <1>1, <1>3, RearrangedAgain, Zenon DEF Swapped, Rearrangement
<1>5. \A p \in l..J : C[p] = IF p = b THEN B[a] ELSE IF p = a THEN B[b] ELSE B[p]
  BY <1>2, <1>3, Zenon DEF Swapped
<1>0. a + 1 = l + x + 1 /\ b = J - x
  OBVIOUS
<1> HIDE DEF C, a, b
<1>6. B[a] = t /\ B[b] <= t
  BY <1>1, <1>2, Zenon
<1>7. ASSUME NEW p \in l..J PROVE C[p] <= t
  BY <1>1, <1>5, <1>6
<1>8. ASSUME NEW p \in (a + 1)..(l + d) PROVE C[p] = t
  <2>1. p \in l..J /\ p # a /\ p \in a..(l + d)
    BY <1>2
  <2> QED
    BY <1>1, <1>5, <1>6, <2>1
<1>9. (J - d <= a /\ a <= l + d) => B[b] = t
  <2>1. (J - d <= a /\ a <= l + d) => b \in (J - d)..(l + d)
    BY <1>2
  <2> QED
    BY <1>1, <2>1, Zenon
<1>10. ASSUME NEW p \in b..J PROVE C[p] = t
  <2>1. p \in l..J /\ (p = b \/ p \in (b + 1)..J) /\ (p = a /\ p # b => J - d <= a /\ a <= l + d)
    BY <1>2
  <2> QED
    BY <1>1, <1>5, <1>6, <1>9, <2>1
<1>11. ASSUME NEW p \in (J - d)..(l + d) PROVE C[p] = t
  <2>1. p \in l..J /\ (p = a => J - d <= a /\ a <= l + d)
    BY <1>2
  <2> QED
    BY <1>1, <1>5, <1>6, <1>9, <2>1
<1>12. /\ \A p \in (l + x + 1)..(l + d) : C[p] = t
       /\ \A p \in (J - x)..J : C[p] = t
  BY <1>0, <1>8, <1>10, Zenon
<1>13. LeftMoved(C, A, x, l, J, d, t, N)
  BY <1>4, <1>7, <1>11, <1>12, Zenon DEF LeftMoved
<1> QED
  BY <1>13, Zenon DEF C, a, b

LEMMA RightStep ==
  ASSUME NEW N \in Nat, NEW A, NEW B, NEW J \in Nat, NEW r \in J..(N - 1), NEW d \in 0..(r - J),
         NEW t \in Int, NEW x \in 1..d, RightMoved(B, A, x - 1, J, r, d, t, N)
  PROVE  RightMoved(Swap(B, r + 1 - x, J + x), A, x, J, r, d, t, N)
<1> DEFINE a == r + 1 - x
           b == J + x
           R == (J + 1)..r
           C == Swap(B, a, b)
<1>1. /\ B \in IntArray(N) /\ Rearranged(B, A, R, N)
      /\ \A p \in R : B[p] >= t
      /\ \A p \in (r + 1 - d)..a : B[p] = t
      /\ \A p \in (J + 1)..(b - 1) : B[p] = t
      /\ \A p \in (r + 1 - d)..(J + d) : B[p] = t
  <2>1. r - (x - 1) = a /\ J + (x - 1) = b - 1
    OBVIOUS
  <2> HIDE DEF a, b
  <2> QED
    BY <2>1 DEF RightMoved, Rearrangement
<1>2. /\ a \in 0..(N - 1) /\ b \in 0..(N - 1) /\ a \in R /\ b \in R /\ R \subseteq 0..(N - 1)
      /\ a \in Int /\ b \in Int /\ a + b = r + 1 + J /\ J < b /\ b <= J + d /\ a <= r
      /\ r + 1 - d <= a /\ a \in (r + 1 - d)..a
  OBVIOUS
<1>3. Swapped(C, B, a, b, N) /\ Rearranged(C, B, R, N)
  <2> HIDE DEF a, b, R
  <2> QED
    BY <1>1, <1>2, SwapIs, RearrangedSwap, Zenon
<1>4. Rearrangement(C, A, R, N)
  BY <1>1, <1>3, RearrangedAgain, Zenon DEF Swapped, Rearrangement
<1>5. \A p \in R : C[p] = IF p = b THEN B[a] ELSE IF p = a THEN B[b] ELSE B[p]
  BY <1>2, <1>3, Zenon DEF Swapped
<1>0. a - 1 = r - x /\ b = J + x
  OBVIOUS
<1> HIDE DEF C, a, b
<1>6. B[a] = t /\ B[b] >= t
  BY <1>1, <1>2, Zenon
<1>7. ASSUME NEW p \in R PROVE C[p] >= t
  BY <1>1, <1>5, <1>6
<1>8. ASSUME NEW p \in (r + 1 - d)..(a - 1) PROVE C[p] = t
  <2>1. p \in R /\ p # a /\ p \in (r + 1 - d)..a
    BY <1>2
  <2> QED
    BY <1>1, <1>5, <1>6, <2>1
<1>9. (r + 1 - d <= a /\ a <= J + d) => B[b] = t
  <2>1. (r + 1 - d <= a /\ a <= J + d) => b \in (r + 1 - d)..(J + d)
    BY <1>2
  <2> QED
    BY <1>1, <2>1, Zenon
<1>10. ASSUME NEW p \in (J + 1)..b PROVE C[p] = t
  <2>1. p \in R /\ (p = b \/ p \in (J + 1)..(b - 1)) /\ (p = a /\ p # b => r + 1 - d <= a /\ a <= J + d)
    BY <1>2
  <2> QED
    BY <1>1, <1>5, <1>6, <1>9, <2>1
<1>11. ASSUME NEW p \in (r + 1 - d)..(J + d) PROVE C[p] = t
  <2>1. p \in R /\ (p = a => r + 1 - d <= a /\ a <= J + d)
    BY <1>2
  <2> QED
    BY <1>1, <1>5, <1>6, <1>9, <2>1
<1>12. /\ \A p \in (r + 1 - d)..(r - x) : C[p] = t
       /\ \A p \in (J + 1)..(J + x) : C[p] = t
  BY <1>0, <1>8, <1>10, Zenon
<1>13. RightMoved(C, A, x, J, r, d, t, N)
  BY <1>4, <1>7, <1>11, <1>12, Zenon DEF RightMoved
<1> QED
  BY <1>13, Zenon DEF C, a, b

LEMMA LeftSwapsMove ==
  ASSUME NEW N \in Nat, NEW A \in IntArray(N), NEW l \in Nat, NEW J \in l..(N - 1),
         NEW d \in 0..(J - l), NEW t \in Int, LeftMoved(A, A, 0, l, J, d, t, N)
  PROVE  LeftMoved(LeftSwaps(A, l, J, d), A, d, l, J, d, t, N)
<1>1. PICK z : LeftRun(A, l, J, d, z) /\ LeftSwaps(A, l, J, d) = z[d]
  <2>1. LeftMade(A, l, J, d)
    BY LeftRuns, Zenon
  <2> QED
    BY <2>1, Zenon DEF LeftMade
<1> DEFINE In(i) == LeftMoved(z[i], A, i, l, J, d, t, N)
           T == {i \in Nat : i <= d => In(i)}
<1> HIDE DEF In
<1>2. 0 \in T
  <2>1. In(0)
    BY <1>1, Zenon DEF LeftRun, In
  <2> QED
    BY <2>1
<1>3. ASSUME NEW i \in Nat, i \in T PROVE i + 1 \in T
  <2> SUFFICES ASSUME i + 1 <= d PROVE In(i + 1)
    OBVIOUS
  <2>1. i + 1 \in 1..d /\ (i + 1) - 1 = i /\ i <= d
    OBVIOUS
  <2>2. In(i)
    BY <1>3, <2>1
  <2>3. LeftMoved(z[i], A, (i + 1) - 1, l, J, d, t, N)
    BY <2>1, <2>2, Zenon DEF In
  <2>4. z[i + 1] = Swap(z[i], l + (i + 1), J - (i + 1))
    BY <1>1, <2>1, Zenon DEF LeftRun
  <2>5. LeftMoved(Swap(z[i], l + (i + 1), J - (i + 1)), A, i + 1, l, J, d, t, N)
    BY <2>1, <2>3, LeftStep, Zenon
  <2> QED
    BY <2>4, <2>5, Zenon DEF In
<1>4. In(d)
  <2>1. d \in Nat /\ d <= d
    OBVIOUS
  <2>2. d \in T
    <3> HIDE DEF T
    <3> QED
      BY <1>2, <1>3, <2>1, Induct, Zenon
  <2> QED
    BY <2>1, <2>2
<1> QED
  BY <1>1, <1>4, Zenon DEF In

LEMMA RightSwapsMove ==
  ASSUME NEW N \in Nat, NEW A \in IntArray(N), NEW J \in Nat, NEW r \in J..(N - 1),
         NEW d \in 0..(r - J), NEW t \in Int, RightMoved(A, A, 0, J, r, d, t, N)
  PROVE  RightMoved(RightSwaps(A, J, r, d), A, d, J, r, d, t, N)
<1>1. PICK z : RightRun(A, J, r, d, z) /\ RightSwaps(A, J, r, d) = z[d]
  <2>1. RightMade(A, J, r, d)
    BY RightRuns, Zenon
  <2> QED
    BY <2>1, Zenon DEF RightMade
<1> DEFINE In(i) == RightMoved(z[i], A, i, J, r, d, t, N)
           T == {i \in Nat : i <= d => In(i)}
<1> HIDE DEF In
<1>2. 0 \in T
  <2>1. In(0)
    BY <1>1, Zenon DEF RightRun, In
  <2> QED
    BY <2>1
<1>3. ASSUME NEW i \in Nat, i \in T PROVE i + 1 \in T
  <2> SUFFICES ASSUME i + 1 <= d PROVE In(i + 1)
    OBVIOUS
  <2>1. i + 1 \in 1..d /\ (i + 1) - 1 = i /\ i <= d
    OBVIOUS
  <2>2. In(i)
    BY <1>3, <2>1
  <2>3. RightMoved(z[i], A, (i + 1) - 1, J, r, d, t, N)
    BY <2>1, <2>2, Zenon DEF In
  <2>4. z[i + 1] = Swap(z[i], r + 1 - (i + 1), J + (i + 1))
    BY <1>1, <2>1, Zenon DEF RightRun
  <2>5. RightMoved(Swap(z[i], r + 1 - (i + 1), J + (i + 1)), A, i + 1, J, r, d, t, N)
    BY <2>1, <2>3, RightStep, Zenon
  <2> QED
    BY <2>4, <2>5, Zenon DEF In
<1>4. In(d)
  <2>1. d \in Nat /\ d <= d
    OBVIOUS
  <2>2. d \in T
    <3> HIDE DEF T
    <3> QED
      BY <1>2, <1>3, <2>1, Induct, Zenon
  <2> QED
    BY <2>1, <2>2
<1> QED
  BY <1>1, <1>4, Zenon DEF In

\* SplitFinal leaves what is less than the pivot t up to L, what is greater from R on.
\* If the pivot is the least, its key is there twice.
SplitTo(A, B, l, r, L, R, N) ==
  /\ L \in (l - 1)..r /\ R \in (L + 2)..(r + 1)
  /\ Rearrangement(B, A, l..r, N)
  /\ \E t \in Int : /\ \A p \in l..L : B[p] <= t
                    /\ \A p \in (L + 1)..(R - 1) : B[p] = t
                    /\ \A p \in R..r : B[p] >= t
  /\ L = l - 1 => Twice(A, N)
SplitMade(A, l, r, N) ==
  \E L, R : /\ SplitFinal(A, l, r).parts = <<[l |-> R, r |-> r], [l |-> l, r |-> L]>>
            /\ SplitTo(A, SplitFinal(A, l, r).A, l, r, L, R, N)

LEMMA SplitFinalSplits ==
  ASSUME NEW N \in Nat, NEW A \in IntArray(N), NEW l \in Nat, NEW r \in 0..(N - 1), r - l >= 8
  PROVE  SplitMade(A, l, r, N)
<1> DEFINE m == Ninther(A, l, r)
           V == Swap(A, m, l)
           t == V[l]
           s == Scans(V, l, r)
           J == s.J
           P == s.P
           Q == s.Q
           W == Swap(s.A, l, J)
           X == LeftSwaps(W, l, J, P - l)
           Y == RightSwaps(X, J, r, r + 1 - Q)
           L == J - 1 - (P - l)
           R == J + 1 + (r + 1 - Q)
<1>1. SplitFinal(A, l, r) = [A |-> Y, parts |-> <<[l |-> R, r |-> r], [l |-> l, r |-> L]>>]
  BY Zenon DEF SplitFinal, LeftSwaps, RightSwaps
<1>2. r \in (l + 1)..(N - 1) /\ l \in 0..(N - 1) /\ l \in l..r /\ l..r \subseteq 0..(N - 1)
  OBVIOUS
<1>3. MedianOf(A, m, l..r)
  <2>1. r - l >= 7
    OBVIOUS
  <2> QED
    BY <2>1, NintherIs, Zenon
<1>4. m \in l..r /\ m \in 0..(N - 1)
  BY <1>2, <1>3, Zenon DEF MedianOf
<1> HIDE DEF m
<1>5. Swapped(V, A, m, l, N) /\ Rearranged(V, A, l..r, N)
  BY <1>2, <1>4, SwapIs, RearrangedSwap, Zenon
<1>6. V \in IntArray(N) /\ \A x \in 0..(N - 1) : V[x] = IF x = l THEN A[m] ELSE IF x = m THEN A[l] ELSE A[x]
  BY <1>5, Zenon DEF Swapped
<1> HIDE DEF V
<1>7. s.A \in IntArray(N) /\ Rearranged(s.A, V, l..r, N) /\ Met(s, l, r, t)
  BY <1>2, <1>6, ScansMeet, Zenon
<1>8. t \in Int
  BY <1>2, <1>6 DEF IntArray
<1> HIDE DEF s, t
<1> DEFINE U == s.A
<1>9. /\ J \in l..r /\ P \in l..J /\ Q \in (J + 1)..(r + 1)
      /\ \A x \in l..P : U[x] = t
      /\ \A x \in (P + 1)..(J - 1) : U[x] < t
      /\ U[J] <= t
      /\ \A x \in (J + 1)..(Q - 1) : U[x] > t
      /\ \A x \in Q..r : U[x] = t
  BY <1>7, Zenon DEF Met
<1>10. U \in IntArray(N) /\ Rearranged(U, V, l..r, N)
  BY <1>7, Zenon
<1> HIDE DEF J, P, Q, U
<1>11. /\ J \in Int /\ P \in Int /\ Q \in Int /\ l <= P /\ P <= J /\ J < Q /\ Q <= r + 1 /\ J <= r
       /\ J \in 0..(N - 1) /\ J \in l..r /\ J \in Nat /\ J \in l..(N - 1) /\ r \in J..(N - 1)
       /\ P - l \in 0..(J - l) /\ r + 1 - Q \in 0..(r - J)
       /\ l..J \subseteq l..r /\ (J + 1)..r \subseteq l..r
  BY <1>9
<1>12. Swapped(W, U, l, J, N) /\ Rearranged(W, U, l..r, N)
  BY <1>2, <1>10, <1>11, SwapIs, RearrangedSwap, Zenon DEF U
<1>13. W \in IntArray(N) /\ \A x \in 0..(N - 1) : W[x] = IF x = J THEN U[l] ELSE IF x = l THEN U[J] ELSE U[x]
  BY <1>12, Zenon DEF Swapped
<1> HIDE DEF W
<1>14. U[l] = t /\ (P = J => U[J] = t)
  <2>1. l \in l..P /\ P \in l..P
    BY <1>11
  <2> QED
    BY <1>9, <2>1, Zenon
<1>15. LeftMoved(W, W, 0, l, J, P - l, t, N)
  <2>1. Rearrangement(W, W, l..J, N)
    BY <1>13, RearrangedSame, Zenon DEF Rearrangement
  <2>2. ASSUME NEW p \in l..P, p # l PROVE W[p] = t
    <3>1. p \in 0..(N - 1) /\ p \in l..P
      BY <1>11
    <3>2. U[p] = t
      BY <1>9, <3>1, Zenon
    <3>3. CASE p = J
      BY <1>13, <1>14, <3>1, <3>3, Zenon
    <3>4. CASE p # J
      BY <1>13, <2>2, <3>1, <3>2, <3>4, ZenonT(60)
    <3> QED
      BY <3>3, <3>4, Zenon
  <2>3. P = J => W[l] = t
    BY <1>2, <1>13, <1>14
  <2>4. W[J] = t /\ W[l] <= t
    BY <1>2, <1>8, <1>9, <1>11, <1>13, <1>14
  <2>5. ASSUME NEW p \in l..J PROVE W[p] <= t
    <3>1. p \in 0..(N - 1) /\ (p = l \/ p = J \/ (p \in l..P /\ p # l) \/ (p \in (P + 1)..(J - 1) /\ p # l))
      BY <1>11
    <3>2. CASE p = l \/ p = J \/ (p \in l..P /\ p # l)
      <4>1. W[p] = t \/ W[p] <= t
        BY <2>2, <2>4, <3>2, Zenon
      <4> QED
        BY <1>8, <4>1
    <3>3. CASE p \in (P + 1)..(J - 1) /\ p # l
      <4>1. p # J
        BY <1>11, <3>3
      <4>2. W[p] = U[p] /\ U[p] < t
        BY <1>9, <1>13, <3>1, <3>3, <4>1, Zenon
      <4>3. U[p] \in Int
        BY <1>10, <3>1 DEF IntArray
      <4> QED
        BY <1>8, <4>2, <4>3
    <3> QED
      BY <3>1, <3>2, <3>3
  <2>6. ASSUME NEW p \in (l + 0 + 1)..(l + (P - l)) PROVE W[p] = t
    <3>1. p \in l..P /\ p # l
      BY <1>11
    <3> QED
      BY <2>2, <3>1, Zenon
  <2>7. ASSUME NEW p \in (J - 0)..J PROVE W[p] = t
    <3>1. p = J
      BY <1>11
    <3> QED
      BY <2>4, <3>1
  <2>8. ASSUME NEW p \in (J - (P - l))..(l + (P - l)) PROVE W[p] = t
    <3>1. (p = l /\ P = J) \/ (p \in l..P /\ p # l)
      BY <1>11
    <3> QED
      BY <2>2, <2>3, <3>1, Zenon
  <2> QED
    BY <2>1, <2>5, <2>6, <2>7, <2>8, Zenon DEF LeftMoved
<1>16. LeftMoved(X, W, P - l, l, J, P - l, t, N)
  BY <1>8, <1>11, <1>13, <1>15, LeftSwapsMove, Zenon
<1> HIDE DEF X
<1>17. /\ X \in IntArray(N) /\ Rearranged(X, W, l..J, N)
       /\ \A p \in l..J : X[p] <= t
       /\ \A p \in (J - (P - l))..J : X[p] = t
  BY <1>16, Zenon DEF LeftMoved, Rearrangement
<1>18. ASSUME NEW p \in (J + 1)..r PROVE X[p] = U[p]
  <2>1. SameOutside(X, W, l..J, N)
    BY <1>17, RearrangedElements, Zenon
  <2>2. p \in (0..(N - 1)) \ (l..J) /\ p \in 0..(N - 1) /\ p # J /\ p # l
    BY <1>11
  <2> QED
    BY <1>13, <2>1, <2>2, Zenon DEF SameOutside
<1>19. RightMoved(X, X, 0, J, r, r + 1 - Q, t, N)
  <2>1. Rearrangement(X, X, (J + 1)..r, N)
    BY <1>17, RearrangedSame, Zenon DEF Rearrangement
  <2>2. ASSUME NEW p \in Q..r PROVE X[p] = t
    <3>1. p \in (J + 1)..r
      BY <1>11
    <3> QED
      BY <1>9, <1>18, <3>1, Zenon
  <2>3. ASSUME NEW p \in (J + 1)..r PROVE X[p] >= t
    <3>1. p \in (J + 1)..(Q - 1) \/ p \in Q..r
      BY <1>11
    <3>2. X[p] > t \/ X[p] = t
      BY <1>9, <1>18, <2>2, <3>1, Zenon
    <3>3. X[p] \in Int
      <4>1. p \in 0..(N - 1)
        BY <1>11
      <4> QED
        BY <1>17, <4>1 DEF IntArray
    <3> QED
      BY <1>8, <3>2, <3>3
  <2>4. ASSUME NEW p \in (r + 1 - (r + 1 - Q))..(r - 0) PROVE X[p] = t
    <3>1. p \in Q..r
      BY <1>11
    <3> QED
      BY <2>2, <3>1, Zenon
  <2>5. ASSUME NEW p \in (J + 1)..(J + 0) PROVE X[p] = t
    BY <1>11
  <2>6. ASSUME NEW p \in (r + 1 - (r + 1 - Q))..(J + (r + 1 - Q)) PROVE X[p] = t
    <3>1. p \in Q..r
      BY <1>11
    <3> QED
      BY <2>2, <3>1, Zenon
  <2> QED
    BY <2>1, <2>3, <2>4, <2>5, <2>6, Zenon DEF RightMoved
<1>20. RightMoved(Y, X, r + 1 - Q, J, r, r + 1 - Q, t, N)
  BY <1>8, <1>11, <1>17, <1>19, RightSwapsMove, Zenon
<1> HIDE DEF Y
<1>21. /\ Y \in IntArray(N) /\ Rearranged(Y, X, (J + 1)..r, N)
       /\ \A p \in (J + 1)..r : Y[p] >= t
       /\ \A p \in (J + 1)..(J + (r + 1 - Q)) : Y[p] = t
  BY <1>20, Zenon DEF RightMoved, Rearrangement
<1>22. ASSUME NEW p \in l..J PROVE Y[p] = X[p]
  <2>1. SameOutside(Y, X, (J + 1)..r, N)
    BY <1>21, RearrangedElements, Zenon
  <2>2. p \in (0..(N - 1)) \ ((J + 1)..r)
    BY <1>11
  <2> QED
    BY <2>1, <2>2, Zenon DEF SameOutside
<1>23. Rearrangement(Y, A, l..r, N)
  <2>1. Rearranged(X, W, l..r, N) /\ Rearranged(Y, X, l..r, N)
    BY <1>11, <1>17, <1>21, RearrangedMore, Zenon
  <2>2. Rearranged(U, A, l..r, N)
    BY <1>5, <1>10, RearrangedAgain, Zenon
  <2>3. Rearranged(X, A, l..r, N)
    BY <1>12, <2>1, <2>2, RearrangedAgain, Zenon
  <2> QED
    BY <1>21, <2>1, <2>3, RearrangedAgain, Zenon DEF Rearrangement
<1>24. L \in (l - 1)..r /\ R \in (L + 2)..(r + 1)
  BY <1>11
<1>25. ASSUME NEW p \in l..L PROVE Y[p] <= t
  <2>1. p \in l..J
    BY <1>11
  <2> QED
    BY <1>17, <1>22, <2>1, Zenon
<1>26. ASSUME NEW p \in (L + 1)..(R - 1) PROVE Y[p] = t
  <2>1. (p \in (J - (P - l))..J /\ p \in l..J) \/ p \in (J + 1)..(J + (r + 1 - Q))
    BY <1>11
  <2> QED
    BY <1>17, <1>21, <1>22, <2>1, Zenon
<1>27. ASSUME NEW p \in R..r PROVE Y[p] >= t
  <2>1. p \in (J + 1)..r
    BY <1>11
  <2> QED
    BY <1>21, <2>1, Zenon
<1>28. ASSUME L = l - 1 PROVE Twice(A, N)
  <2>1. P = J
    BY <1>11, <1>28
  <2>2. ASSUME NEW p \in l..r PROVE U[p] >= t
    <3>1. p \in l..P \/ p \in (J + 1)..(Q - 1) \/ p \in Q..r
      BY <1>11, <2>1
    <3>2. U[p] = t \/ U[p] > t
      BY <1>9, <3>1, Zenon
    <3>3. U[p] \in Int
      BY <1>2, <1>10 DEF IntArray
    <3> QED
      BY <1>8, <3>2, <3>3
  <2>3. ASSUME NEW p \in l..r PROVE V[p] >= t
    <3>1. TakenFrom(V, U, l..r, N)
      BY <1>10, RearrangedElements, Zenon
    <3>2. p \in (0..(N - 1)) \cap (l..r)
      BY <1>2
    <3>3. PICK q \in (0..(N - 1)) \cap (l..r) : V[p] = U[q]
      BY <3>1, <3>2, Zenon DEF TakenFrom
    <3> QED
      BY <2>2, <3>3
  <2>4. PICK y \in l..r : y # m /\ A[y] <= A[m]
    BY <1>3, Zenon DEF MedianOf
  <2>5. t = A[m]
    BY <1>2, <1>6 DEF t
  <2> DEFINE x == IF y = l THEN m ELSE y
  <2>6. x \in l..r /\ x \in 0..(N - 1) /\ x # l /\ y \in 0..(N - 1)
    BY <1>2, <1>4, <2>4
  <2>7. V[x] = A[y]
    BY <1>6, <2>4, <2>6
  <2>8. V[x] <= t /\ V[x] >= t
    <3> HIDE DEF x
    <3> QED
      BY <2>3, <2>4, <2>5, <2>6, <2>7
  <2>9. V[x] \in Int
    <3> HIDE DEF x
    <3> QED
      BY <1>6, <2>6 DEF IntArray
  <2> HIDE DEF x
  <2>10. V[x] = V[l]
    BY <1>8, <2>8, <2>9 DEF t
  <2>11. Twice(V, N)
    BY <1>2, <2>6, <2>10, Zenon DEF Twice
  <2> QED
    BY <1>5, <2>11, RearrangedTwice, Zenon
<1>29. /\ [A |-> Y, parts |-> <<[l |-> R, r |-> r], [l |-> l, r |-> L]>>].A = Y
       /\ [A |-> Y, parts |-> <<[l |-> R, r |-> r], [l |-> l, r |-> L]>>].parts =
            <<[l |-> R, r |-> r], [l |-> l, r |-> L]>>
  OBVIOUS
<1> HIDE DEF L, R
<1>30. SplitTo(A, Y, l, r, L, R, N)
  BY <1>8, <1>23, <1>24, <1>25, <1>26, <1>27, <1>28, Zenon DEF SplitTo
<1> QED
  BY <1>1, <1>29, <1>30, Zenon DEF SplitMade, L, R

----------------------------------------------------------------------------
(* What holds while a sort runs *)

\* The first and the last position of a range that a sort still has to sort.
FirstOf(fn, f) == IF fn = "qsort_final" THEN f.l ELSE f.S
LastOf(fn, f) ==
  CASE fn = "qsort_final" -> f.r
    [] fn = "qsort_median_insert_iter" -> f.S + f.j
    [] OTHER -> f.S + f.n - 1
Span(fn, f) == FirstOf(fn, f)..LastOf(fn, f)

Frames(fn, N) ==
  CASE fn = "qsort_final" -> {f \in [l : Nat, r : -1..(N - 1)] : f.l <= f.r + 1}
    [] fn = "qsort_median_insert_iter" -> {f \in [A : Nat, S : Nat, j : Nat] : f.A <= f.S /\ f.S + f.j < N}
    [] fn = "qsort_median_insert" -> {f \in [S : Nat, n : Nat \ {0}] : f.S + f.n <= N}
    [] OTHER -> {f \in [S : Nat, n : Nat] : f.S + f.n <= N}

\* No position is in two ranges.
Separate(fn, todo) ==
  \A a, b \in 1..Len(todo) : \A x \in Span(fn, todo[a]) : x \in Span(fn, todo[b]) => a = b
\* Of two elements of R in the wrong order, some range has both.
Both(fn, todo, i, j) ==
  \E a \in 1..Len(todo) : i \in Span(fn, todo[a]) /\ j \in Span(fn, todo[a])
Within(fn, todo, A, R) == \A i, j \in R : i < j /\ A[i] > A[j] => Both(fn, todo, i, j)
\* A range of qsort_final that ends at SIZE_MAX is there only if a key is there twice.
Wraps(fn, todo) == fn = "qsort_final" /\ \E a \in 1..Len(todo) : todo[a].r = -1

Going(s, N) ==
  /\ s = [fn |-> s.fn, given |-> s.given, array |-> s.array, todo |-> s.todo, outside |-> s.outside]
  /\ s.fn \in Sorts /\ s.given \in Arrays /\ s.given \in IntArray(N)
  /\ s.outside \in BOOLEAN
  /\ Rearrangement(s.array, s.given, 0..(N - 1), N)
  /\ s.todo \in Seq(Frames(s.fn, N))
  /\ Separate(s.fn, s.todo)
  /\ Within(s.fn, s.todo, s.array, 0..(N - 1))
  /\ Wraps(s.fn, s.todo) => Twice(s.given, N)
  /\ s.outside => s.fn = "qsort_final" /\ Twice(s.given, N)


SortInv == sort = Unsorted \/ \E N \in Nat \ {0} : Going(sort, N)

LEMMA FrameSpan ==
  ASSUME NEW N \in Nat, NEW fn \in Sorts, NEW f \in Frames(fn, N)
  PROVE  /\ FirstOf(fn, f) \in Nat /\ LastOf(fn, f) \in Int
         /\ Span(fn, f) \subseteq 0..(N - 1)
<1>1. CASE fn = "qsort_final"
  BY <1>1 DEF Frames, FirstOf, LastOf, Span
<1>2. CASE fn = "qsort_median_insert_iter"
  BY <1>2 DEF Frames, FirstOf, LastOf, Span
<1>3. CASE fn = "qsort_median_insert"
  BY <1>3 DEF Frames, FirstOf, LastOf, Span
<1>4. CASE fn = "qsort_orig"
  BY <1>4 DEF Frames, FirstOf, LastOf, Span
<1> QED
  BY <1>1, <1>2, <1>3, <1>4 DEF Sorts

\* The ranges that take the place of the first one: what is at each index.
Replaced(q, ranges, T, F) ==
  /\ q \in Seq(F)
  /\ \A a \in 1..Len(q) : \/ a \in 1..Len(ranges) /\ q[a] = ranges[a]
                          \/ a - Len(ranges) + 1 \in 2..Len(T) /\ q[a] = T[a - Len(ranges) + 1]
  /\ \A a \in 1..Len(ranges) : a \in 1..Len(q) /\ q[a] = ranges[a]
  /\ \A b \in 2..Len(T) : Len(ranges) + b - 1 \in 1..Len(q) /\ q[Len(ranges) + b - 1] = T[b]
LEMMA Replacing ==
  ASSUME NEW F, NEW T \in Seq(F), T # <<>>, NEW ranges \in Seq(F)
  PROVE  Replaced(ranges \o Tail(T), ranges, T, F) /\ Head(T) = T[1] /\ 1 \in 1..Len(T) /\ Head(T) \in F
<1> DEFINE U == Tail(T)
           q == ranges \o U
<1>1. U \in Seq(F) /\ Len(U) = Len(T) - 1 /\ \A a \in 1..Len(U) : U[a] = T[a + 1]
  OBVIOUS
<1>2. Head(T) = T[1] /\ Len(T) \in Nat \ {0} /\ Head(T) \in F /\ Len(ranges) \in Nat
  OBVIOUS
<1> HIDE DEF U
<1>3. /\ q \in Seq(F) /\ Len(q) = Len(ranges) + Len(U)
      /\ \A a \in 1..(Len(ranges) + Len(U)) :
           q[a] = IF a <= Len(ranges) THEN ranges[a] ELSE U[a - Len(ranges)]
  BY <1>1, ConcatProperties, Zenon
<1> HIDE DEF q
<1>4. ASSUME NEW a \in 1..Len(q)
      PROVE  \/ a \in 1..Len(ranges) /\ q[a] = ranges[a]
             \/ a - Len(ranges) + 1 \in 2..Len(T) /\ q[a] = T[a - Len(ranges) + 1]
  <2>1. CASE a <= Len(ranges)
    BY <1>2, <1>3, <2>1
  <2>2. CASE ~(a <= Len(ranges))
    <3>1. q[a] = U[a - Len(ranges)]
      BY <1>3, <2>2
    <3>2. a - Len(ranges) \in 1..Len(U)
      BY <1>1, <1>2, <1>3, <2>2
    <3>3. U[a - Len(ranges)] = T[a - Len(ranges) + 1]
      BY <1>1, <3>2, Zenon
    <3> QED
      BY <1>1, <1>2, <3>1, <3>2, <3>3
  <2> QED
    BY <2>1, <2>2
<1>5. ASSUME NEW a \in 1..Len(ranges) PROVE a \in 1..Len(q) /\ q[a] = ranges[a]
  BY <1>1, <1>2, <1>3
<1>6. ASSUME NEW b \in 2..Len(T)
      PROVE  Len(ranges) + b - 1 \in 1..Len(q) /\ q[Len(ranges) + b - 1] = T[b]
  <2>1. b - 1 \in 1..Len(U) /\ (b - 1) + 1 = b
    BY <1>1, <1>2
  <2>2. U[b - 1] = T[b]
    BY <1>1, <2>1, Zenon
  <2>3. Len(ranges) + b - 1 \in 1..Len(q) /\ ~(Len(ranges) + b - 1 <= Len(ranges))
        /\ (Len(ranges) + b - 1) - Len(ranges) = b - 1
    BY <1>1, <1>2, <1>3, <2>1
  <2> QED
    BY <1>3, <2>2, <2>3, Zenon
<1>7. Replaced(q, ranges, T, F)
  BY <1>3, <1>4, <1>5, <1>6, Zenon DEF Replaced
<1> QED
  BY <1>2, <1>7 DEF q, U

\* The ranges put in place of the first one are parts of it.
Inside(fn, ranges, X) == \A a \in 1..Len(ranges) : Span(fn, ranges[a]) \subseteq X

LEMMA ReplacedSeparate ==
  ASSUME NEW N \in Nat, NEW fn \in Sorts, NEW T \in Seq(Frames(fn, N)), T # <<>>,
         NEW ranges \in Seq(Frames(fn, N)), Separate(fn, T), Separate(fn, ranges),
         Inside(fn, ranges, Span(fn, Head(T)))
  PROVE  Separate(fn, ranges \o Tail(T))
<1> DEFINE q == ranges \o Tail(T)
           m == Len(ranges)
<1>1. Replaced(q, ranges, T, Frames(fn, N)) /\ Head(T) = T[1] /\ 1 \in 1..Len(T)
  BY Replacing, Zenon
<1>2. m \in Nat /\ Len(q) \in Nat /\ Len(T) \in Nat
  OBVIOUS
<1> HIDE DEF q
<1>3. ASSUME NEW a \in 1..Len(q), NEW b \in 1..Len(q), NEW x \in Span(fn, q[a]), x \in Span(fn, q[b])
      PROVE  a = b
  <2>1. ASSUME NEW c \in 1..Len(ranges), NEW d \in 2..Len(T),
               x \in Span(fn, ranges[c]), x \in Span(fn, T[d])
        PROVE  FALSE
    <3>1. x \in Span(fn, T[1])
      BY <1>1, <2>1, Zenon DEF Inside
    <3>2. d \in 1..Len(T) /\ d # 1
      BY <1>2
    <3> QED
      BY <1>1, <2>1, <3>1, <3>2, Zenon DEF Separate
  <2>2. \/ a \in 1..m /\ q[a] = ranges[a]
        \/ a - m + 1 \in 2..Len(T) /\ q[a] = T[a - m + 1]
    BY <1>1, Zenon DEF Replaced
  <2>3. \/ b \in 1..m /\ q[b] = ranges[b]
        \/ b - m + 1 \in 2..Len(T) /\ q[b] = T[b - m + 1]
    BY <1>1, Zenon DEF Replaced
  <2>4. CASE a \in 1..m /\ q[a] = ranges[a] /\ b \in 1..m /\ q[b] = ranges[b]
    BY <1>3, <2>4, Zenon DEF Separate
  <2>5. CASE a \in 1..m /\ q[a] = ranges[a] /\ b - m + 1 \in 2..Len(T) /\ q[b] = T[b - m + 1]
    BY <1>3, <2>1, <2>5, Zenon
  <2>6. CASE b \in 1..m /\ q[b] = ranges[b] /\ a - m + 1 \in 2..Len(T) /\ q[a] = T[a - m + 1]
    BY <1>3, <2>1, <2>6, Zenon
  <2>7. CASE /\ a - m + 1 \in 2..Len(T) /\ q[a] = T[a - m + 1]
             /\ b - m + 1 \in 2..Len(T) /\ q[b] = T[b - m + 1]
    <3>1. a - m + 1 \in 1..Len(T) /\ b - m + 1 \in 1..Len(T)
      BY <1>2, <2>7
    <3>2. a - m + 1 = b - m + 1
      BY <1>3, <2>7, <3>1, Zenon DEF Separate
    <3> QED
      BY <1>2, <3>2
  <2> QED
    BY <2>2, <2>3, <2>4, <2>5, <2>6, <2>7, Zenon
<1>4. Separate(fn, q)
  BY <1>3, Zenon DEF Separate
<1> QED
  BY <1>4 DEF q

\* Ordered outside of the first range as before, and within it by what replaces it: all
\* inversions are within a range again.
LEMMA ReplacedWithin ==
  ASSUME NEW N \in Nat, NEW fn \in Sorts, NEW T \in Seq(Frames(fn, N)), T # <<>>,
         NEW ranges \in Seq(Frames(fn, N)), Separate(fn, T),
         NEW A \in IntArray(N), NEW B \in IntArray(N),
         Within(fn, T, A, 0..(N - 1)), Rearranged(B, A, Span(fn, Head(T)), N),
         Within(fn, ranges, B, Span(fn, Head(T)))
  PROVE  Within(fn, ranges \o Tail(T), B, 0..(N - 1))
<1> DEFINE q == ranges \o Tail(T)
           m == Len(ranges)
           X == Span(fn, Head(T))
           D == 0..(N - 1)
<1>1. /\ Replaced(q, ranges, T, Frames(fn, N)) /\ Head(T) = T[1]
      /\ 1 \in 1..Len(T) /\ Head(T) \in Frames(fn, N)
  BY Replacing, Zenon
<1>2. m \in Nat /\ Len(q) \in Nat /\ Len(T) \in Nat
  OBVIOUS
<1> HIDE DEF q
<1>3. /\ FirstOf(fn, Head(T)) \in Nat /\ LastOf(fn, Head(T)) \in Int
      /\ X \subseteq D
  BY <1>1, FrameSpan, Zenon
<1>4. \A i \in D, x \in X, j \in D : /\ i \notin X /\ i < j /\ j \in X => i < x
                                     /\ j \notin X /\ i < j /\ i \in X => x < j
  BY <1>3 DEF Span
<1>5. SameOutside(B, A, X, N) /\ TakenFrom(B, A, X, N)
  BY RearrangedElements, Zenon
<1>6. X = Span(fn, T[1])
  BY <1>1
<1>7. \A i \in D : A[i] \in Int /\ B[i] \in Int
  BY DEF IntArray
<1> HIDE DEF X
\* An inversion that was outside of X is in another range.
<1>8. ASSUME NEW i \in D, NEW j \in D, i < j, A[i] > A[j], i \notin X \/ j \notin X
      PROVE  /\ Both(fn, q, i, j)
             /\ \A x \in X : x # i /\ x # j
  <2>1. Both(fn, T, i, j)
    BY <1>8, Zenon DEF Within
  <2>2. PICK b \in 1..Len(T) : i \in Span(fn, T[b]) /\ j \in Span(fn, T[b])
    BY <2>1, Zenon DEF Both
  <2>3. b # 1
    BY <1>6, <1>8, <2>2, Zenon
  <2>4. b \in 2..Len(T)
    BY <1>2, <2>2, <2>3
  <2>5. m + b - 1 \in 1..Len(q) /\ q[m + b - 1] = T[b]
    BY <1>1, <2>4, Zenon DEF Replaced
  <2>6. Both(fn, q, i, j)
    BY <2>2, <2>5, Zenon DEF Both
  <2>7. ASSUME NEW x \in X, x = i \/ x = j PROVE FALSE
    BY <1>1, <1>6, <2>2, <2>3, <2>7, Zenon DEF Separate
  <2> QED
    BY <2>6, <2>7, Zenon
<1>9. ASSUME NEW i \in D, NEW j \in D, i < j, B[i] > B[j] PROVE Both(fn, q, i, j)
  <2>1. CASE i \in X /\ j \in X
    <3>1. PICK a \in 1..m : i \in Span(fn, ranges[a]) /\ j \in Span(fn, ranges[a])
      BY <1>9, <2>1, Zenon DEF Within, Both, X
    <3>2. a \in 1..Len(q) /\ q[a] = ranges[a]
      BY <1>1, Zenon DEF Replaced
    <3> QED
      BY <3>1, <3>2, Zenon DEF Both
  <2>2. CASE i \notin X /\ j \notin X
    <3>1. B[i] = A[i] /\ B[j] = A[j]
      BY <1>5, <2>2, Zenon DEF SameOutside
    <3>2. A[i] > A[j]
      BY <1>9, <3>1
    <3> QED
      BY <1>8, <1>9, <2>2, <3>2, Zenon
  <2>3. CASE i \in X /\ j \notin X
    <3>1. PICK x \in D \cap X : B[i] = A[x]
      BY <1>5, <2>3, Zenon DEF TakenFrom
    <3>2. B[j] = A[j]
      BY <1>5, <2>3, Zenon DEF SameOutside
    <3>3. x < j
      BY <1>4, <1>9, <2>3, Zenon
    <3>4. A[x] > A[j]
      BY <1>9, <3>1, <3>2
    <3> QED
      BY <1>8, <2>3, <3>1, <3>3, <3>4, Zenon
  <2>4. CASE i \notin X /\ j \in X
    <3>1. PICK x \in D \cap X : B[j] = A[x]
      BY <1>5, <2>4, Zenon DEF TakenFrom
    <3>2. B[i] = A[i]
      BY <1>5, <2>4, Zenon DEF SameOutside
    <3>3. i < x
      BY <1>4, <1>9, <2>4, Zenon
    <3>4. A[i] > A[x]
      BY <1>9, <3>1, <3>2
    <3> QED
      BY <1>8, <2>4, <3>1, <3>3, <3>4, Zenon
  <2> QED
    BY <2>1, <2>2, <2>3, <2>4, Zenon
<1>10. Within(fn, q, B, D)
  BY <1>9, Zenon DEF Within
<1> QED
  BY <1>10 DEF q

\* A step that rearranges the first range and replaces it by parts of it.
Replaces(s, B, ranges, N) ==
  /\ Rearrangement(B, s.array, Span(s.fn, Head(s.todo)), N)
  /\ ranges \in Seq(Frames(s.fn, N))
  /\ Inside(s.fn, ranges, Span(s.fn, Head(s.todo)))
  /\ Separate(s.fn, ranges)
  /\ Within(s.fn, ranges, B, Span(s.fn, Head(s.todo)))
  /\ Wraps(s.fn, ranges) => Twice(s.array, N)

LEMMA ReplacingGoesOn ==
  ASSUME NEW N \in Nat, NEW s, Going(s, N), s.todo # <<>>, NEW B, NEW ranges, Replaces(s, B, ranges, N),
         NEW u, u = [s EXCEPT !.array = B, !.todo = ranges \o Tail(s.todo)]
  PROVE  Going(u, N)
<1> DEFINE fn == s.fn
           T == s.todo
           q == ranges \o Tail(T)
           X == Span(fn, Head(T))
           D == 0..(N - 1)
           C == s.array
           g == s.given
           o == s.outside
<1>1. /\ s = [fn |-> fn, given |-> g, array |-> C, todo |-> T, outside |-> o]
      /\ fn \in Sorts /\ g \in Arrays /\ g \in IntArray(N) /\ o \in BOOLEAN
      /\ Rearrangement(C, g, D, N)
      /\ T \in Seq(Frames(fn, N)) /\ Separate(fn, T) /\ Within(fn, T, C, D)
      /\ Wraps(fn, T) => Twice(g, N)
      /\ o => fn = "qsort_final" /\ Twice(g, N)
  BY Zenon DEF Going
<1>2. /\ Rearrangement(B, C, X, N) /\ ranges \in Seq(Frames(fn, N))
      /\ Inside(fn, ranges, X) /\ Separate(fn, ranges)
      /\ Within(fn, ranges, B, X)
      /\ Wraps(fn, ranges) => Twice(C, N)
  BY Zenon DEF Replaces
<1>3. C \in IntArray(N) /\ B \in IntArray(N) /\ Rearranged(B, C, X, N) /\ Rearranged(C, g, D, N)
  BY <1>1, <1>2, Zenon DEF Rearrangement
<1>4. /\ Replaced(q, ranges, T, Frames(fn, N)) /\ Head(T) = T[1]
      /\ 1 \in 1..Len(T) /\ Head(T) \in Frames(fn, N)
  BY <1>1, <1>2, Replacing, Zenon
<1>5. /\ u.fn = fn /\ u.given = g /\ u.array = B /\ u.todo = q /\ u.outside = o
      /\ u = [fn |-> u.fn, given |-> u.given, array |-> u.array, todo |-> u.todo, outside |-> u.outside]
  <2> HIDE DEF fn, T, q, C, g, o
  <2>1. u = [s EXCEPT !.array = B, !.todo = q]
    BY DEF q, T
  <2> QED
    BY <1>1, <2>1
<1>6. Rearrangement(B, g, D, N)
  <2>1. X \subseteq D
    BY <1>1, <1>4, FrameSpan, Zenon
  <2>2. Rearranged(B, C, D, N)
    BY <1>3, <2>1, RearrangedMore, Zenon
  <2>3. Rearranged(B, g, D, N)
    BY <1>3, <2>2, RearrangedAgain, Zenon
  <2> QED
    BY <1>3, <2>3, Zenon DEF Rearrangement
<1>7. Separate(fn, q)
  BY <1>1, <1>2, ReplacedSeparate
<1>8. Within(fn, q, B, D)
  BY <1>1, <1>2, <1>3, ReplacedWithin, Zenon
<1>9. ASSUME Wraps(fn, q) PROVE Twice(g, N)
  <2>1. PICK a \in 1..Len(q) : fn = "qsort_final" /\ q[a].r = -1
    BY <1>9, Zenon DEF Wraps
  <2>2. \/ a \in 1..Len(ranges) /\ q[a] = ranges[a]
        \/ a - Len(ranges) + 1 \in 2..Len(T) /\ q[a] = T[a - Len(ranges) + 1]
    BY <1>4, Zenon DEF Replaced
  <2>3. CASE a \in 1..Len(ranges) /\ q[a] = ranges[a]
    <3>1. Wraps(fn, ranges)
      BY <2>1, <2>3, Zenon DEF Wraps
    <3>2. Twice(C, N)
      BY <1>2, <3>1, Zenon
    <3> QED
      BY <1>3, <3>2, RearrangedTwice, Zenon
  <2>4. CASE a - Len(ranges) + 1 \in 2..Len(T) /\ q[a] = T[a - Len(ranges) + 1]
    <3>1. a - Len(ranges) + 1 \in 1..Len(T)
      BY <1>1, <2>4
    <3>2. Wraps(fn, T)
      BY <2>1, <2>4, <3>1, Zenon DEF Wraps
    <3> QED
      BY <1>1, <3>2, Zenon
  <2> QED
    BY <2>2, <2>3, <2>4, Zenon
<1>10. q \in Seq(Frames(fn, N))
  BY <1>4, Zenon DEF Replaced
<1> HIDE DEF fn, T, q, C, g, o, D
<1> QED
  BY <1>1, <1>5, <1>6, <1>7, <1>8, <1>9, <1>10, Zenon DEF Going, D

\* What is from lo to L is not greater than what is between L and R, which is equal, and
\* that not greater than what is from R to hi.
Parted(B, lo, L, R, hi) ==
  \E t \in Int : /\ \A p \in lo..L : B[p] <= t
                 /\ \A p \in (L + 1)..(R - 1) : B[p] = t
                 /\ \A p \in R..hi : B[p] >= t
\* The ranges are these two parts, or all of them that have a position.
Is(fn, f, x, y) == FirstOf(fn, f) = x /\ LastOf(fn, f) = y
Covering(fn, ranges, lo, L, R, hi) ==
  /\ \A a \in 1..Len(ranges) : Is(fn, ranges[a], lo, L) \/ Is(fn, ranges[a], R, hi)
  /\ \A a, b \in 1..Len(ranges) :
       /\ Is(fn, ranges[a], lo, L) /\ Is(fn, ranges[b], lo, L) => a = b
       /\ Is(fn, ranges[a], R, hi) /\ Is(fn, ranges[b], R, hi) => a = b
  /\ lo <= L => \E a \in 1..Len(ranges) : Is(fn, ranges[a], lo, L)
  /\ R <= hi => \E a \in 1..Len(ranges) : Is(fn, ranges[a], R, hi)

LEMMA PartsReplace ==
  ASSUME NEW N \in Nat, NEW B \in IntArray(N), NEW fn, NEW ranges,
         NEW lo \in Nat, NEW hi \in Int, hi < N, NEW L \in (lo - 1)..hi, NEW R \in (L + 2)..(hi + 1),
         Parted(B, lo, L, R, hi), Covering(fn, ranges, lo, L, R, hi)
  PROVE  Inside(fn, ranges, lo..hi) /\ Separate(fn, ranges) /\ Within(fn, ranges, B, lo..hi)
<1>1. L \in Int /\ R \in Int /\ lo - 1 <= L /\ L <= hi /\ L + 2 <= R /\ R <= hi + 1
  OBVIOUS
<1>2. ASSUME NEW f, Is(fn, f, lo, L) PROVE Span(fn, f) = lo..L
  BY <1>2 DEF Is, Span
<1>3. ASSUME NEW f, Is(fn, f, R, hi) PROVE Span(fn, f) = R..hi
  BY <1>3 DEF Is, Span
<1>4. lo..L \subseteq lo..hi /\ R..hi \subseteq lo..hi /\ \A x \in lo..L : x \notin R..hi
  BY <1>1
<1>5. ASSUME NEW a \in 1..Len(ranges) PROVE Span(fn, ranges[a]) \subseteq lo..hi
  <2>1. CASE Is(fn, ranges[a], lo, L)
    BY <1>2, <1>4, <2>1, Zenon
  <2>2. CASE Is(fn, ranges[a], R, hi)
    BY <1>3, <1>4, <2>2, Zenon
  <2> QED
    BY <2>1, <2>2, Zenon DEF Covering
<1>6. ASSUME NEW a \in 1..Len(ranges), NEW b \in 1..Len(ranges),
             NEW x \in Span(fn, ranges[a]), x \in Span(fn, ranges[b])
      PROVE  a = b
  <2>1. CASE Is(fn, ranges[a], lo, L) /\ Is(fn, ranges[b], lo, L)
    BY <2>1, Zenon DEF Covering
  <2>2. CASE Is(fn, ranges[a], R, hi) /\ Is(fn, ranges[b], R, hi)
    BY <2>2, Zenon DEF Covering
  <2>3. CASE Is(fn, ranges[a], lo, L) /\ Is(fn, ranges[b], R, hi)
    <3>1. x \in lo..L /\ x \in R..hi
      BY <1>2, <1>3, <1>6, <2>3
    <3> QED
      BY <1>4, <3>1, Zenon
  <2>4. CASE Is(fn, ranges[b], lo, L) /\ Is(fn, ranges[a], R, hi)
    <3>1. x \in lo..L /\ x \in R..hi
      BY <1>2, <1>3, <1>6, <2>4
    <3> QED
      BY <1>4, <3>1, Zenon
  <2> QED
    BY <2>1, <2>2, <2>3, <2>4, Zenon DEF Covering
<1>7. PICK t \in Int : /\ \A p \in lo..L : B[p] <= t
                       /\ \A p \in (L + 1)..(R - 1) : B[p] = t
                       /\ \A p \in R..hi : B[p] >= t
  BY Zenon DEF Parted
<1>8. ASSUME NEW i \in lo..hi, NEW j \in lo..hi, i < j, B[i] > B[j] PROVE Both(fn, ranges, i, j)
  <2>1. i \in Int /\ j \in Int /\ B[i] \in Int /\ B[j] \in Int
    BY DEF IntArray
  <2>2. \/ i \in lo..L /\ j \in lo..L
        \/ i \in R..hi /\ j \in R..hi
        \/ i \in lo..(R - 1) /\ j \in (L + 1)..hi
    BY <1>1, <1>8, <2>1
  <2>3. CASE i \in lo..L /\ j \in lo..L
    <3>1. lo <= L
      BY <1>1, <2>3
    <3>2. PICK a \in 1..Len(ranges) : Is(fn, ranges[a], lo, L)
      BY <3>1, Zenon DEF Covering
    <3>3. Span(fn, ranges[a]) = lo..L
      BY <1>2, <3>2, Zenon
    <3>4. i \in Span(fn, ranges[a]) /\ j \in Span(fn, ranges[a])
      BY <2>3, <3>3
    <3> QED
      BY <3>4, Zenon DEF Both
  <2>4. CASE i \in R..hi /\ j \in R..hi
    <3>1. R <= hi
      BY <1>1, <2>4
    <3>2. PICK a \in 1..Len(ranges) : Is(fn, ranges[a], R, hi)
      BY <3>1, Zenon DEF Covering
    <3>3. Span(fn, ranges[a]) = R..hi
      BY <1>3, <3>2, Zenon
    <3>4. i \in Span(fn, ranges[a]) /\ j \in Span(fn, ranges[a])
      BY <2>4, <3>3
    <3> QED
      BY <3>4, Zenon DEF Both
  <2>5. CASE i \in lo..(R - 1) /\ j \in (L + 1)..hi
    <3>1. \/ i \in lo..L
          \/ i \in (L + 1)..(R - 1)
      BY <1>1, <2>1, <2>5
    <3>2. B[i] <= t
      BY <1>7, <2>1, <3>1
    <3>3. \/ j \in (L + 1)..(R - 1)
          \/ j \in R..hi
      BY <1>1, <2>1, <2>5
    <3>4. B[j] >= t
      BY <1>7, <2>1, <3>3
    <3> QED
      BY <1>7, <1>8, <2>1, <3>2, <3>4
  <2> QED
    BY <2>2, <2>3, <2>4, <2>5, Zenon
<1> QED
  BY <1>5, <1>6, <1>8, Zenon DEF Inside, Separate, Within

\* The parts in the order in which they are sorted, one that has no position maybe left out.
LEMMA Coverings ==
  ASSUME NEW fn, NEW lo \in Nat, NEW hi \in Int, NEW L \in (lo - 1)..hi, NEW R \in (L + 2)..(hi + 1),
         NEW f, NEW g, Is(fn, f, lo, L), Is(fn, g, R, hi)
  PROVE  /\ Covering(fn, <<f, g>>, lo, L, R, hi)
         /\ Covering(fn, <<g, f>>, lo, L, R, hi)
         /\ R > hi => Covering(fn, <<f>>, lo, L, R, hi)
         /\ lo > L => Covering(fn, <<g>>, lo, L, R, hi)
         /\ lo > L /\ R > hi => Covering(fn, <<>>, lo, L, R, hi)
<1>1. ~Is(fn, f, R, hi) /\ ~Is(fn, g, lo, L)
  BY DEF Is
<1>2. ~(R > hi) = (R <= hi) /\ ~(lo > L) = (lo <= L)
  OBVIOUS
<1>3. Covering(fn, <<f, g>>, lo, L, R, hi)
  <2> DEFINE q == <<f, g>>
  <2>1. 1..Len(q) = {1, 2} /\ q[1] = f /\ q[2] = g
    OBVIOUS
  <2> HIDE DEF q
  <2>2. Covering(fn, q, lo, L, R, hi)
    BY <1>1, <2>1 DEF Covering
  <2> QED
    BY <2>2 DEF q
<1>4. Covering(fn, <<g, f>>, lo, L, R, hi)
  <2> DEFINE q == <<g, f>>
  <2>1. 1..Len(q) = {1, 2} /\ q[1] = g /\ q[2] = f
    OBVIOUS
  <2> HIDE DEF q
  <2>2. Covering(fn, q, lo, L, R, hi)
    BY <1>1, <2>1 DEF Covering
  <2> QED
    BY <2>2 DEF q
<1>5. ASSUME R > hi PROVE Covering(fn, <<f>>, lo, L, R, hi)
  <2> DEFINE q == <<f>>
  <2>1. 1..Len(q) = {1} /\ q[1] = f
    OBVIOUS
  <2> HIDE DEF q
  <2>2. Covering(fn, q, lo, L, R, hi)
    BY <1>1, <1>5, <2>1 DEF Covering
  <2> QED
    BY <2>2 DEF q
<1>6. ASSUME lo > L PROVE Covering(fn, <<g>>, lo, L, R, hi)
  <2> DEFINE q == <<g>>
  <2>1. 1..Len(q) = {1} /\ q[1] = g
    OBVIOUS
  <2> HIDE DEF q
  <2>2. Covering(fn, q, lo, L, R, hi)
    BY <1>1, <1>6, <2>1 DEF Covering
  <2> QED
    BY <2>2 DEF q
<1>7. ASSUME lo > L, R > hi PROVE Covering(fn, <<>>, lo, L, R, hi)
  <2> DEFINE q == <<>>
  <2>1. 1..Len(q) = {}
    OBVIOUS
  <2> HIDE DEF q
  <2>2. Covering(fn, q, lo, L, R, hi)
    BY <1>7, <2>1 DEF Covering
  <2> QED
    BY <2>2 DEF q
<1> QED
  BY <1>3, <1>4, <1>5, <1>6, <1>7, Zenon

----------------------------------------------------------------------------
(* The steps of the sorts keep it *)

\* A range that is in order has no inversion.
LEMMA NothingLeft ==
  ASSUME NEW N \in Nat, NEW s, Going(s, N), s.todo # <<>>, NEW B,
         NEW S, NEW E, Span(s.fn, Head(s.todo)) = S..E,
         Rearrangement(B, s.array, S..E, N), SortedFrom(B, S, E)
  PROVE  Replaces(s, B, <<>>, N)
<1> DEFINE q == <<>>
           X == S..E
<1>1. Head(s.todo) \in Frames(s.fn, N) /\ s.fn \in Sorts
  <2>1. s.todo \in Seq(Frames(s.fn, N)) /\ s.fn \in Sorts
    BY Zenon DEF Going
  <2> QED
    BY <2>1
<1>2. Span(s.fn, Head(s.todo)) = X /\ X \subseteq 0..(N - 1)
  <2>1. Span(s.fn, Head(s.todo)) \subseteq 0..(N - 1)
    BY <1>1, FrameSpan, Zenon
  <2> QED
    BY <2>1, Zenon
<1>3. 1..Len(q) = {} /\ q \in Seq(Frames(s.fn, N))
  OBVIOUS
<1> HIDE DEF q, X
<1>4. \A x \in X : x \in Int /\ B[x] \in Int
  BY <1>2 DEF Rearrangement, IntArray, X
<1>5. \A x, y \in X : x < y => ~(B[x] > B[y])
  <2>1. ASSUME NEW x \in X, NEW y \in X, x < y PROVE ~(B[x] > B[y])
    <3>1. B[x] <= B[y]
      BY <2>1, Zenon DEF SortedFrom, X
    <3> QED
      BY <1>4, <3>1
  <2> QED
    BY <2>1, Zenon
<1>6. Inside(s.fn, q, X) /\ Separate(s.fn, q) /\ ~Wraps(s.fn, q)
  BY <1>3 DEF Inside, Separate, Wraps
<1>7. Within(s.fn, q, B, X)
  BY <1>5, Zenon DEF Within
<1>8. Replaces(s, B, q, N)
  BY <1>2, <1>3, <1>6, <1>7, Zenon DEF Replaces, X
<1> QED
  BY <1>8 DEF q

\* What partition leaves, as two parts with the pivot between them.
PartitionIs(A, S, n, pivot, N) ==
  LET part == Partition(A, S, n, pivot)
  IN /\ part.k \in 0..(n - 1)
     /\ Rearrangement(part.A, A, S..(S + n - 1), N)
     /\ Parted(part.A, S, S + part.k - 1, S + part.k + 1, S + n - 1)

LEMMA PartitionParts ==
  ASSUME NEW N \in Nat, NEW A \in IntArray(N), NEW S \in Nat, NEW n \in Nat \ {0},
         S + n <= N, NEW pivot \in 0..(n - 1)
  PROVE  PartitionIs(A, S, n, pivot, N)
<1> DEFINE part == Partition(A, S, n, pivot)
           B == part.A
           k == part.k
           t == B[S + k]
<1>1. /\ B \in IntArray(N) /\ k \in 0..(n - 1)
      /\ Rearranged(B, A, S..(S + n - 1), N)
      /\ \A x \in S..(S + k - 1) : B[x] <= t
      /\ \A x \in (S + k + 1)..(S + n - 1) : B[x] > t
  BY PartitionSplits, Zenon
<1> HIDE DEF part, B, k, t
<1>2. t \in Int
  BY <1>1 DEF IntArray, t
<1>3. ASSUME NEW p \in ((S + k - 1) + 1)..((S + k + 1) - 1) PROVE B[p] = t
  <2>1. p = S + k
    BY <1>1
  <2> QED
    BY <2>1 DEF t
<1>4. ASSUME NEW p \in (S + k + 1)..(S + n - 1) PROVE B[p] >= t
  <2>1. B[p] \in Int
    BY <1>1 DEF IntArray
  <2>2. B[p] > t
    BY <1>1, Zenon
  <2> QED
    BY <1>2, <2>1, <2>2
<1>5. Parted(B, S, S + k - 1, S + k + 1, S + n - 1)
  BY <1>1, <1>2, <1>3, <1>4, Zenon DEF Parted
<1>6. Rearrangement(B, A, S..(S + n - 1), N)
  BY <1>1, Zenon DEF Rearrangement
<1> QED
  BY <1>1, <1>5, <1>6, Zenon DEF PartitionIs, B, k, part

LEMMA PartsWithin ==
  ASSUME NEW N \in Nat, NEW S \in Nat, NEW n \in Nat \ {0}, S + n <= N, NEW k \in 0..(n - 1)
  PROVE  /\ S + n - 1 \in Int /\ S + n - 1 < N
         /\ S + k - 1 \in (S - 1)..(S + n - 1)
         /\ S + k + 1 \in ((S + k - 1) + 2)..((S + n - 1) + 1)
OBVIOUS

\* After it, the ranges that cover the two parts take the place of the partitioned one.
LEMMA PartitionReplaces ==
  ASSUME NEW N \in Nat, NEW s, Going(s, N), s.todo # <<>>,
         NEW S \in Nat, NEW n \in Nat \ {0}, S + n <= N, NEW pivot \in 0..(n - 1),
         Is(s.fn, Head(s.todo), S, S + n - 1), s.fn # "qsort_final",
         NEW ranges \in Seq(Frames(s.fn, N)), NEW k,
         k = Partition(s.array, S, n, pivot).k,
         Covering(s.fn, ranges, S, S + k - 1, S + k + 1, S + n - 1)
  PROVE  Replaces(s, Partition(s.array, S, n, pivot).A, ranges, N)
<1> DEFINE B == Partition(s.array, S, n, pivot).A
           L == S + k - 1
           R == S + k + 1
           hi == S + n - 1
<1>1. s.array \in IntArray(N)
  BY Zenon DEF Going, Rearrangement
<1>2. PartitionIs(s.array, S, n, pivot, N)
  BY <1>1, PartitionParts, Zenon
<1>3. k \in 0..(n - 1) /\ Rearrangement(B, s.array, S..hi, N) /\ Parted(B, S, L, R, hi)
  BY <1>2, Zenon DEF PartitionIs
<1>4. B \in IntArray(N)
  BY <1>3, Zenon DEF Rearrangement
<1> HIDE DEF B
<1>5. hi \in Int /\ hi < N /\ L \in (S - 1)..hi /\ R \in (L + 2)..(hi + 1)
  BY <1>3, PartsWithin, Zenon
<1> HIDE DEF L, R, hi
<1>6. Covering(s.fn, ranges, S, L, R, hi)
  BY Zenon DEF L, R, hi
<1>7. Inside(s.fn, ranges, S..hi) /\ Separate(s.fn, ranges) /\ Within(s.fn, ranges, B, S..hi)
  BY <1>3, <1>4, <1>5, <1>6, PartsReplace, Zenon
<1>8. Span(s.fn, Head(s.todo)) = S..hi
  BY Zenon DEF Is, Span, hi
<1>9. ~Wraps(s.fn, ranges)
  BY Zenon DEF Wraps
<1>10. Replaces(s, B, ranges, N)
  BY <1>3, <1>7, <1>8, <1>9, Zenon DEF Replaces
<1> QED
  BY <1>10 DEF B

\* The step of a sort that goes on with ranges in place of the first one.
LEMMA ContinueGoes ==
  ASSUME NEW N \in Nat, Going(sort, N), sort.todo # <<>>, NEW B, NEW ranges,
         Replaces(sort, B, ranges, N), Continue(B, ranges)
  PROVE  Going(sort', N)
BY ReplacingGoesOn, Zenon DEF Continue

LEMMA NextFrame ==
  ASSUME NEW N \in Nat, Going(sort, N), sort.todo # <<>>
  PROVE  NextRange \in Frames(sort.fn, N) /\ sort.array \in IntArray(N) /\ sort.fn \in Sorts
<1>1. sort.todo \in Seq(Frames(sort.fn, N)) /\ sort.fn \in Sorts /\ sort.array \in IntArray(N)
  BY Zenon DEF Going, Rearrangement
<1> QED
  BY <1>1 DEF NextRange

\* A step of qsort_orig.
LEMMA OrigGoes ==
  ASSUME NEW N \in Nat, Going(sort, N), qsort_orig
  PROVE  Going(sort', N)
<1> DEFINE S == NextRange.S
           n == NextRange.n
           part == Partition(sort.array, S, n, 0)
           k == part.k
           fn == "qsort_orig"
<1>1. sort.fn = fn /\ sort.todo # <<>>
  BY Zenon DEF qsort_orig, Calls
<1>2. NextRange \in Frames(fn, N) /\ sort.array \in IntArray(N)
  BY <1>1, NextFrame
<1>3. NextRange \in [S : Nat, n : Nat] /\ S \in Nat /\ n \in Nat /\ S + n <= N
  BY <1>2 DEF Frames
<1>4. Is(fn, NextRange, S, S + n - 1) /\ NextRange = Head(sort.todo)
  BY DEF Is, FirstOf, LastOf, NextRange
<1>5. CASE n > 1
  <2>1. Continue(part.A, Parts(S, n, k))
    BY <1>5, Zenon DEF qsort_orig
  <2>2. n \in Nat \ {0} /\ 0 \in 0..(n - 1)
    BY <1>3, <1>5
  <2>3. k \in 0..(n - 1)
    <3>1. PartitionIs(sort.array, S, n, 0, N)
      BY <1>2, <1>3, <2>2, PartitionParts, Zenon
    <3> QED
      BY <3>1, Zenon DEF PartitionIs
  <2> HIDE DEF part, k
  <2> DEFINE f == [S |-> S, n |-> k]
             g == [S |-> S + k + 1, n |-> n - k - 1]
  <2>4. Parts(S, n, k) = <<f, g>>
    BY DEF Parts
  <2> HIDE DEF S, n
  <2>5. f \in Frames(fn, N) /\ g \in Frames(fn, N)
    BY <1>3, <2>2, <2>3 DEF Frames
  <2>6. Is(fn, f, S, S + k - 1) /\ Is(fn, g, S + k + 1, S + n - 1)
    BY <1>3, <2>2, <2>3 DEF Is, FirstOf, LastOf
  <2> HIDE DEF f, g
  <2>7. <<f, g>> \in Seq(Frames(fn, N))
    BY <2>5
  <2>8. S + n - 1 \in Int /\ S + k - 1 \in (S - 1)..(S + n - 1)
        /\ S + k + 1 \in ((S + k - 1) + 2)..((S + n - 1) + 1)
    BY <1>3, <2>2, <2>3, PartsWithin, Zenon
  <2>9. Covering(fn, <<f, g>>, S, S + k - 1, S + k + 1, S + n - 1)
    BY <1>3, <2>6, <2>8, Coverings, Zenon
  <2>10. k = Partition(sort.array, S, n, 0).k
    BY DEF k, part
  <2>11. sort.fn # "qsort_final"
    BY <1>1
  <2>12. Replaces(sort, Partition(sort.array, S, n, 0).A, <<f, g>>, N)
    BY <1>1, <1>3, <1>4, <2>2, <2>7, <2>9, <2>10, <2>11, PartitionReplaces, Zenon
  <2> QED
    BY <1>1, <2>1, <2>4, <2>12, ContinueGoes DEF part
<1>6. CASE ~(n > 1)
  <2>1. Continue(sort.array, <<>>)
    BY <1>6, Zenon DEF qsort_orig
  <2> DEFINE A == sort.array
             E == S + n - 1
  <2>2. Span(fn, Head(sort.todo)) = S..E
    BY <1>4, Zenon DEF Is, Span
  <2> HIDE DEF A
  <2>3. SortedFrom(A, S, E)
    BY <1>3, <1>6 DEF SortedFrom
  <2>4. Rearrangement(A, A, S..E, N)
    BY <1>2, RearrangedSame, Zenon DEF Rearrangement, A
  <2>5. Replaces(sort, A, <<>>, N)
    BY <1>1, <2>2, <2>3, <2>4, NothingLeft, Zenon DEF A
  <2> QED
    BY <1>1, <2>1, <2>5, ContinueGoes, Zenon DEF A
<1> QED
  BY <1>5, <1>6, Zenon

LEMMA PairIs ==
  ASSUME NEW f, NEW g
  PROVE  <<f>> \o <<g>> = <<f, g>>
<1> DEFINE F == {f, g}
           p == <<f>>
           q == <<g>>
           t == <<f, g>>
<1>1. p \in Seq(F) /\ q \in Seq(F) /\ t \in Seq(F)
  OBVIOUS
<1>2. Len(p) = 1 /\ Len(q) = 1 /\ Len(t) = 2 /\ p[1] = f /\ q[1] = g /\ t[1] = f /\ t[2] = g
  OBVIOUS
<1> HIDE DEF p, q, t, F
<1> DEFINE u == p \o q
<1>3. /\ u \in Seq(F) /\ Len(u) = Len(p) + Len(q)
      /\ \A i \in 1..(Len(p) + Len(q)) : u[i] = IF i <= Len(p) THEN p[i] ELSE q[i - Len(p)]
  BY <1>1, ConcatProperties, Zenon
<1> HIDE DEF u
<1>4. Len(u) = Len(t) /\ \A i \in 1..Len(u) : u[i] = t[i]
  BY <1>2, <1>3
<1>5. u = t
  BY <1>1, <1>3, <1>4, SeqEqual, Zenon
<1> QED
  BY <1>5 DEF p, q, t, u

\* The calls of qsort_median_insert cover what is left and right of the pivot.
LEMMA InsertRanges ==
  ASSUME NEW N \in Nat, NEW S \in Nat, NEW n \in Nat \ {0}, S + n <= N, NEW k \in 0..(n - 1)
  PROVE  LET fn == "qsort_median_insert"
             ranges == Call(S, k) \o Call(S + k + 1, n - k - 1)
         IN /\ ranges \in Seq(Frames(fn, N))
            /\ Covering(fn, ranges, S, S + k - 1, S + k + 1, S + n - 1)
<1> DEFINE fn == "qsort_median_insert"
           ranges == Call(S, k) \o Call(S + k + 1, n - k - 1)
           L == S + k - 1
           R == S + k + 1
           hi == S + n - 1
           f == [S |-> S, n |-> k]
           g == [S |-> S + k + 1, n |-> n - k - 1]
<1>1. hi \in Int /\ L \in (S - 1)..hi /\ R \in (L + 2)..(hi + 1)
  BY PartsWithin, Zenon
<1>2. Is(fn, f, S, L) /\ Is(fn, g, R, hi)
  BY DEF Is, FirstOf, LastOf
<1>3. /\ k > 0 => f \in Frames(fn, N)
      /\ n - k - 1 > 0 => g \in Frames(fn, N)
      /\ ~(k > 0) => S > L
      /\ ~(n - k - 1 > 0) => R > hi
  BY DEF Frames
<1>4. ranges = (IF k > 0 THEN <<f>> ELSE <<>>) \o (IF n - k - 1 > 0 THEN <<g>> ELSE <<>>)
  BY Zenon DEF Call
<1> HIDE DEF ranges, f, g, L, R, hi
<1>5. /\ Covering(fn, <<f, g>>, S, L, R, hi)
      /\ R > hi => Covering(fn, <<f>>, S, L, R, hi)
      /\ S > L => Covering(fn, <<g>>, S, L, R, hi)
      /\ S > L /\ R > hi => Covering(fn, <<>>, S, L, R, hi)
  BY <1>1, <1>2, Coverings, Zenon
<1>6. ranges \in Seq(Frames(fn, N)) /\ Covering(fn, ranges, S, L, R, hi)
  <2>1. CASE k > 0 /\ n - k - 1 > 0
    <3>1. ranges = <<f, g>>
      <4>1. ranges = <<f>> \o <<g>>
        BY <1>4, <2>1, Zenon
      <4>2. <<f>> \o <<g>> = <<f, g>>
        BY PairIs, Zenon
      <4> QED
        BY <4>1, <4>2, Zenon
    <3>2. <<f, g>> \in Seq(Frames(fn, N))
      BY <1>3, <2>1
    <3> QED
      BY <1>5, <3>1, <3>2, Zenon
  <2>2. CASE k > 0 /\ ~(n - k - 1 > 0)
    <3>1. ranges = <<f>>
      BY <1>4, <2>2
    <3>2. <<f>> \in Seq(Frames(fn, N))
      BY <1>3, <2>2
    <3> QED
      BY <1>3, <1>5, <2>2, <3>1, <3>2, Zenon
  <2>3. CASE ~(k > 0) /\ n - k - 1 > 0
    <3>1. ranges = <<g>>
      BY <1>4, <2>3
    <3>2. <<g>> \in Seq(Frames(fn, N))
      BY <1>3, <2>3
    <3> QED
      BY <1>3, <1>5, <2>3, <3>1, <3>2, Zenon
  <2>4. CASE ~(k > 0) /\ ~(n - k - 1 > 0)
    <3>1. ranges = <<>>
      <4>1. ranges = <<>> \o <<>>
        BY <1>4, <2>4, Zenon
      <4>2. <<>> \in Seq({})
        OBVIOUS
      <4>3. <<>> \o <<>> = <<>>
        BY <4>2, ConcatEmptySeq, Zenon
      <4> QED
        BY <4>1, <4>3, Zenon
    <3>2. <<>> \in Seq(Frames(fn, N))
      OBVIOUS
    <3> QED
      BY <1>3, <1>5, <2>4, <3>1, <3>2, Zenon
  <2> QED
    BY <2>1, <2>2, <2>3, <2>4, Zenon
<1> QED
  BY <1>6, Zenon DEF L, R, hi, ranges

\* A step that sorts the first range by insertion.
LEMMA InsertionGoes ==
  ASSUME NEW N \in Nat, Going(sort, N), sort.todo # <<>>, NEW S \in Nat, NEW n \in Nat \ {0}, S + n <= N,
         Is(sort.fn, NextRange, S, S + n - 1),
         Continue(insertion_sort(sort.array, S, n), <<>>)
  PROVE  Going(sort', N)
<1> DEFINE B == insertion_sort(sort.array, S, n)
           E == S + n - 1
<1>1. sort.array \in IntArray(N)
  BY NextFrame, Zenon
<1>2. Rearrangement(B, sort.array, S..E, N) /\ SortedFrom(B, S, E)
  BY <1>1, InsertionSorts, Zenon
<1>3. Span(sort.fn, Head(sort.todo)) = S..E
  BY Zenon DEF Is, Span, NextRange
<1> HIDE DEF B, E
<1>4. Replaces(sort, B, <<>>, N)
  BY <1>2, <1>3, NothingLeft, Zenon
<1> QED
  BY <1>4, ContinueGoes, Zenon DEF B

\* A step of qsort_median_insert.
LEMMA MedianInsertGoes ==
  ASSUME NEW N \in Nat, Going(sort, N), qsort_median_insert
  PROVE  Going(sort', N)
<1> DEFINE S == NextRange.S
           n == NextRange.n
           fn == "qsort_median_insert"
<1>1. sort.fn = fn /\ sort.todo # <<>>
  BY Zenon DEF qsort_median_insert, Calls
<1>2. NextRange \in Frames(fn, N) /\ sort.array \in IntArray(N)
  BY <1>1, NextFrame
<1>3. NextRange \in [S : Nat, n : Nat \ {0}] /\ S \in Nat /\ n \in Nat \ {0} /\ S + n <= N
  BY <1>2 DEF Frames
<1>4. Is(fn, NextRange, S, S + n - 1) /\ NextRange = Head(sort.todo)
  BY DEF Is, FirstOf, LastOf, NextRange
<1> HIDE DEF S, n
<1>5. CASE n < InsertBelow
  <2>1. Continue(insertion_sort(sort.array, S, n), <<>>)
    BY <1>5, Zenon DEF qsort_median_insert, S, n
  <2> QED
    BY <1>1, <1>3, <1>4, <2>1, InsertionGoes
<1>6. CASE ~(n < InsertBelow)
  <2>1. PICK pivot \in 0..(n - 1) :
          LET part == Partition(sort.array, S, n, pivot)
          IN Continue(part.A, Call(S, part.k) \o Call(S + part.k + 1, n - part.k - 1))
    BY <1>6, Zenon DEF qsort_median_insert, S, n
  <2> DEFINE B == Partition(sort.array, S, n, pivot).A
             k == Partition(sort.array, S, n, pivot).k
             ranges == Call(S, k) \o Call(S + k + 1, n - k - 1)
  <2>2. Continue(B, ranges)
    BY <2>1, Zenon
  <2>3. k \in 0..(n - 1)
    <3>1. PartitionIs(sort.array, S, n, pivot, N)
      BY <1>2, <1>3, PartitionParts, Zenon
    <3> QED
      BY <3>1, Zenon DEF PartitionIs
  <2> HIDE DEF k
  <2>4. ranges \in Seq(Frames(fn, N)) /\ Covering(fn, ranges, S, S + k - 1, S + k + 1, S + n - 1)
    BY <1>3, <2>3, InsertRanges, Zenon
  <2> HIDE DEF ranges
  <2>5. k = Partition(sort.array, S, n, pivot).k
    BY DEF k
  <2>6. sort.fn # "qsort_final"
    BY <1>1
  <2>7. Replaces(sort, B, ranges, N)
    BY <1>1, <1>3, <1>4, <2>4, <2>5, <2>6, PartitionReplaces, Zenon
  <2> QED
    BY <1>1, <2>2, <2>7, ContinueGoes, Zenon
<1> QED
  BY <1>5, <1>6, Zenon

\* What is left of a range of the iterative sort.
LEMMA RestIs ==
  ASSUME NEW f \in [A : Nat, S : Nat, j : Nat], NEW k \in Int
  PROVE  /\ [f EXCEPT !.j = k - 1] = [A |-> f.A, S |-> f.S, j |-> k - 1]
         /\ [f EXCEPT !.S = @ + k + 1, !.j = @ - k - 1] =
              [A |-> f.A, S |-> f.S + k + 1, j |-> f.j - k - 1]
<1> DEFINE X == [A : Nat, S : Int, j : Int]
           p == [f EXCEPT !.j = k - 1]
           q == [f EXCEPT !.S = @ + k + 1, !.j = @ - k - 1]
<1>0. f \in X
  OBVIOUS
<1>1. p \in X /\ q \in X
  <2> DEFINE y == f.j - k - 1
             h == [f EXCEPT !.S = @ + k + 1]
  <2>1. f.S \in Int /\ f.j \in Int /\ y \in Int
    OBVIOUS
  <2>2. p \in X
    BY <1>0
  <2>3. h \in X
    BY <1>0, <2>1
  <2> HIDE DEF h, y
  <2>4. [h EXCEPT !.j = y] \in X
    BY <2>1, <2>3
  <2> QED
    BY <2>2, <2>4, Zenon DEF h, y
<1>2. /\ p.A = f.A /\ p.S = f.S /\ p.j = k - 1
      /\ q.A = f.A /\ q.S = f.S + k + 1 /\ q.j = f.j - k - 1
  OBVIOUS
<1> HIDE DEF p, q
<1>3. p = [A |-> p.A, S |-> p.S, j |-> p.j]
  BY <1>1
<1>4. q = [A |-> q.A, S |-> q.S, j |-> q.j]
  BY <1>1
<1>5. p = [A |-> f.A, S |-> f.S, j |-> k - 1]
  BY <1>2, <1>3, Zenon
<1>6. q = [A |-> f.A, S |-> f.S + k + 1, j |-> f.j - k - 1]
  BY <1>2, <1>4, Zenon
<1> QED
  BY <1>5, <1>6, Zenon DEF p, q

\* A round of the iterative sort: the call for the shorter part and the rest of the range
\* cover what is left and right of the pivot.
LEMMA IterRanges ==
  ASSUME NEW N \in Nat, NEW f \in [A : Nat, S : Nat, j : Nat], f.A <= f.S, f.S + f.j < N, f.j > 6,
         NEW k \in 0..f.j,
         NEW ranges,
         \/ k > f.j - k /\ ranges = IterCall(f.S + k + 1, f.j - k) \o <<[f EXCEPT !.j = k - 1]>>
         \/ k <= f.j - k /\ ranges = IterCall(f.S, k) \o <<[f EXCEPT !.S = @ + k + 1, !.j = @ - k - 1]>>
  PROVE  LET fn == "qsort_median_insert_iter"
         IN /\ ranges \in Seq(Frames(fn, N))
            /\ Covering(fn, ranges, f.S, f.S + k - 1, f.S + k + 1, f.S + f.j)
<1> DEFINE fn == "qsort_median_insert_iter"
           S == f.S
           j == f.j
           L == S + k - 1
           R == S + k + 1
           hi == S + j
           left == [f EXCEPT !.j = k - 1]
           right == [f EXCEPT !.S = @ + k + 1, !.j = @ - k - 1]
           callR == [A |-> S + k + 1, S |-> S + k + 1, j |-> (j - k) - 1]
           callL == [A |-> S, S |-> S, j |-> k - 1]
<1>1. S \in Nat /\ j \in Nat /\ f.A \in Nat /\ f.A <= S /\ S + j < N /\ j > 6 /\ k \in 0..j
  OBVIOUS
<1>2. /\ left = [A |-> f.A, S |-> S, j |-> k - 1]
      /\ right = [A |-> f.A, S |-> S + k + 1, j |-> j - k - 1]
  <2>1. k \in Int
    BY <1>1
  <2> QED
    BY <2>1, RestIs, Zenon
<1>20. k \in Int /\ j \in Int /\ (k > j - k \/ k <= j - k) /\ ~(k > j - k /\ k <= j - k)
  BY <1>1
<1>3. /\ k > j - k => ranges = (IF j - k > 0 THEN <<callR>> ELSE <<>>) \o <<left>>
      /\ k <= j - k => ranges = (IF k > 0 THEN <<callL>> ELSE <<>>) \o <<right>>
      /\ k > j - k \/ k <= j - k
  BY <1>20, Zenon DEF IterCall
<1> HIDE DEF left, right, S, j
<1>4. hi \in Int /\ L \in (S - 1)..hi /\ R \in (L + 2)..(hi + 1)
  BY <1>1
<1>5. /\ Is(fn, left, S, L) /\ Is(fn, right, R, hi)
      /\ Is(fn, callL, S, L) /\ Is(fn, callR, R, hi)
  BY <1>1, <1>2 DEF Is, FirstOf, LastOf
<1>6. /\ k > j - k => left \in Frames(fn, N)
      /\ k <= j - k => right \in Frames(fn, N)
      /\ k > 0 => callL \in Frames(fn, N)
      /\ j - k > 0 => callR \in Frames(fn, N)
  <2>1. Frames(fn, N) = {x \in [A : Nat, S : Nat, j : Nat] : x.A <= x.S /\ x.S + x.j < N}
    BY DEF Frames
  <2> HIDE DEF fn
  <2> USE <1>1, <2>1
  <2>2. k > j - k => left \in Frames(fn, N)
    BY <1>2
  <2>3. k <= j - k => right \in Frames(fn, N)
    BY <1>2
  <2>4. k > 0 => callL \in Frames(fn, N)
    OBVIOUS
  <2>5. j - k > 0 => callR \in Frames(fn, N)
    OBVIOUS
  <2> QED
    BY <2>2, <2>3, <2>4, <2>5, Zenon
<1>7. /\ ~(k > 0) => S > L
      /\ ~(j - k > 0) => R > hi
  BY <1>1
<1> HIDE DEF callL, callR, L, R, hi, fn
<1>8. /\ Covering(fn, <<callR, left>>, S, L, R, hi)
      /\ R > hi => Covering(fn, <<left>>, S, L, R, hi)
  <2>1. S \in Nat
    BY <1>1
  <2> QED
    BY <1>4, <1>5, <2>1, Coverings, Zenon
<1>9. /\ Covering(fn, <<callL, right>>, S, L, R, hi)
      /\ S > L => Covering(fn, <<right>>, S, L, R, hi)
  <2>1. S \in Nat
    BY <1>1
  <2> QED
    BY <1>4, <1>5, <2>1, Coverings, Zenon
<1>10. ranges \in Seq(Frames(fn, N)) /\ Covering(fn, ranges, S, L, R, hi)
  <2>1. CASE k > j - k /\ j - k > 0
    <3>1. ranges = <<callR>> \o <<left>>
      BY <1>3, <2>1, Zenon
    <3>2. ranges = <<callR, left>>
      BY <3>1, PairIs, Zenon
    <3>3. <<callR, left>> \in Seq(Frames(fn, N))
      BY <1>6, <2>1
    <3> QED
      BY <1>8, <3>2, <3>3, Zenon
  <2>2. CASE k > j - k /\ ~(j - k > 0)
    <3>1. ranges = <<>> \o <<left>>
      BY <1>3, <2>2, Zenon
    <3>2. <<left>> \in Seq(Frames(fn, N))
      BY <1>6, <2>2
    <3>3. ranges = <<left>>
      BY <3>1, <3>2, ConcatEmptySeq, Zenon
    <3> QED
      BY <1>7, <1>8, <2>2, <3>2, <3>3, Zenon
  <2>3. CASE k <= j - k /\ k > 0
    <3>1. ranges = <<callL>> \o <<right>>
      BY <1>3, <2>3, Zenon
    <3>2. ranges = <<callL, right>>
      BY <3>1, PairIs, Zenon
    <3>3. <<callL, right>> \in Seq(Frames(fn, N))
      BY <1>6, <2>3
    <3> QED
      BY <1>9, <3>2, <3>3, Zenon
  <2>4. CASE k <= j - k /\ ~(k > 0)
    <3>1. ranges = <<>> \o <<right>>
      BY <1>3, <2>4, Zenon
    <3>2. <<right>> \in Seq(Frames(fn, N))
      BY <1>6, <2>4
    <3>3. ranges = <<right>>
      BY <3>1, <3>2, ConcatEmptySeq, Zenon
    <3> QED
      BY <1>7, <1>9, <2>4, <3>2, <3>3, Zenon
  <2> QED
    BY <1>3, <2>1, <2>2, <2>3, <2>4, Zenon
<1> QED
  BY <1>10, Zenon DEF L, R, hi, S, j, fn

\* A step of qsort_median_insert_iter.
LEMMA IterGoes ==
  ASSUME NEW N \in Nat, Going(sort, N), qsort_median_insert_iter
  PROVE  Going(sort', N)
<1> DEFINE f == NextRange
           S == f.S
           j == f.j
           fn == "qsort_median_insert_iter"
           pivot == Ninther(sort.array, f.A, f.A + f.j) - f.A
           B == Partition(sort.array, f.S, f.j + 1, pivot).A
           k == Partition(sort.array, f.S, f.j + 1, pivot).k
<1>1. sort.fn = fn /\ sort.todo # <<>>
  BY Zenon DEF qsort_median_insert_iter, Calls
<1>2. NextRange \in Frames(fn, N) /\ sort.array \in IntArray(N)
  BY <1>1, NextFrame
<1>3. /\ f \in [A : Nat, S : Nat, j : Nat] /\ f.A <= f.S /\ f.S + f.j < N
      /\ S \in Nat /\ j \in Nat /\ f.A \in Nat /\ S + (j + 1) <= N /\ j + 1 \in Nat \ {0}
  BY <1>2 DEF Frames
<1>4. Is(fn, NextRange, S, S + j) /\ NextRange = Head(sort.todo) /\ S + (j + 1) - 1 = S + j
  BY <1>3 DEF Is, FirstOf, LastOf, NextRange
<1>5. \/ f.j = 0 /\ Continue(sort.array, <<>>)
      \/ f.j \in 1..6 /\ Continue(insertion_sort(sort.array, f.S, f.j + 1), <<>>)
      \/ /\ f.j > 6 /\ k > f.j - k
         /\ Continue(B, IterCall(f.S + k + 1, f.j - k) \o <<[f EXCEPT !.j = k - 1]>>)
      \/ /\ f.j > 6 /\ k <= f.j - k
         /\ Continue(B, IterCall(f.S, k) \o <<[f EXCEPT !.S = @ + k + 1, !.j = @ - k - 1]>>)
  BY Zenon DEF qsort_median_insert_iter
<1>6. CASE j = 0 /\ Continue(sort.array, <<>>)
  <2> DEFINE A == sort.array
  <2>1. Continue(A, <<>>)
    BY <1>6, Zenon
  <2>2. Span(sort.fn, Head(sort.todo)) = S..(S + j)
    BY <1>1, <1>4, Zenon DEF Is, Span
  <2>3. SortedFrom(A, S, S + j)
    <3> HIDE DEF A, S, j
    <3> QED
      BY <1>3, <1>6 DEF SortedFrom
  <2>4. Rearrangement(A, A, S..(S + j), N)
    BY <1>2, RearrangedSame, Zenon DEF Rearrangement
  <2>5. Replaces(sort, A, <<>>, N)
    BY <1>1, <2>2, <2>3, <2>4, NothingLeft, Zenon
  <2> QED
    BY <1>1, <2>1, <2>5, ContinueGoes, Zenon
<1>7. CASE j \in 1..6 /\ Continue(insertion_sort(sort.array, S, j + 1), <<>>)
  <2>1. Continue(insertion_sort(sort.array, S, j + 1), <<>>)
    BY <1>7, Zenon
  <2>2. Is(sort.fn, NextRange, S, S + (j + 1) - 1)
    BY <1>1, <1>4, Zenon
  <2> HIDE DEF S, j
  <2> QED
    BY <1>1, <1>3, <2>1, <2>2, InsertionGoes, Zenon
<1>8. ASSUME NEW ranges, j > 6, Continue(B, ranges),
             \/ k > f.j - k /\ ranges = IterCall(f.S + k + 1, f.j - k) \o <<[f EXCEPT !.j = k - 1]>>
             \/ k <= f.j - k /\ ranges = IterCall(f.S, k) \o <<[f EXCEPT !.S = @ + k + 1, !.j = @ - k - 1]>>
      PROVE  Going(sort', N)
  <2> HIDE DEF pivot, B, k
  <2>1. pivot \in 0..((j + 1) - 1)
    <3>1. f.A + f.j \in 0..(N - 1) /\ (f.A + f.j) - f.A >= 7
      BY <1>3, <1>8
    <3>2. MedianOf(sort.array, Ninther(sort.array, f.A, f.A + f.j), f.A..(f.A + f.j))
      BY <1>2, <1>3, <3>1, NintherIs, Zenon
    <3>3. Ninther(sort.array, f.A, f.A + f.j) \in f.A..(f.A + f.j)
      BY <3>2, Zenon DEF MedianOf
    <3> QED
      BY <1>3, <3>3 DEF pivot
  <2>2. k \in 0..((j + 1) - 1)
    <3>1. PartitionIs(sort.array, S, j + 1, pivot, N)
      BY <1>2, <1>3, <2>1, PartitionParts, Zenon
    <3> QED
      BY <3>1, Zenon DEF PartitionIs, k
  <2>3. k \in 0..j
    BY <1>3, <2>2
  <2>5. ranges \in Seq(Frames(fn, N)) /\ Covering(fn, ranges, S, S + k - 1, S + k + 1, S + j)
    BY <1>3, <1>8, <2>3, IterRanges, Zenon
  <2>6. k = Partition(sort.array, S, j + 1, pivot).k /\ B = Partition(sort.array, S, j + 1, pivot).A
    BY Zenon DEF k, B
  <2>7. sort.fn # "qsort_final"
    BY <1>1
  <2> HIDE DEF S, j, f
  <2>8. /\ Covering(sort.fn, ranges, S, S + k - 1, S + k + 1, S + (j + 1) - 1)
        /\ Is(sort.fn, Head(sort.todo), S, S + (j + 1) - 1)
        /\ ranges \in Seq(Frames(sort.fn, N))
    BY <1>1, <1>4, <2>5, Zenon DEF f
  <2>9. Replaces(sort, B, ranges, N)
    BY <1>1, <1>3, <2>1, <2>6, <2>7, <2>8, PartitionReplaces, Zenon
  <2> QED
    BY <1>1, <1>8, <2>9, ContinueGoes, Zenon
<1> QED
  BY <1>5, <1>6, <1>7, <1>8, Zenon

\* A step of qsort_final.
LEMMA FinalGoes ==
  ASSUME NEW N \in Nat, Going(sort, N), qsort_final
  PROVE  Going(sort', N)
<1> DEFINE f == NextRange
           l == f.l
           r == f.r
           fn == "qsort_final"
           A == sort.array
<1>1. sort.fn = fn /\ sort.todo # <<>>
  BY Zenon DEF qsort_final, Calls
<1>2. NextRange \in Frames(fn, N) /\ A \in IntArray(N)
  BY <1>1, NextFrame
<1>3. l \in Nat /\ r \in -1..(N - 1) /\ l <= r + 1 /\ r \in Int /\ r < N
  BY <1>2 DEF Frames
<1>4. Is(fn, NextRange, l, r) /\ NextRange = Head(sort.todo) /\ Span(sort.fn, Head(sort.todo)) = l..r
  BY <1>1 DEF Is, FirstOf, LastOf, NextRange, Span
<1>5. \/ r = -1 /\ l = 0 /\ sort' = [sort EXCEPT !.outside = TRUE]
      \/ r # -1 /\ l >= r /\ Continue(A, <<>>)
      \/ l < r /\ r - l < 8 /\ Continue(insertion_sort(A, l, r - l + 1), <<>>)
      \/ l < r /\ r - l >= 8 /\ Continue(SplitFinal(A, l, r).A, SplitFinal(A, l, r).parts)
  BY Zenon DEF qsort_final
<1> HIDE DEF A, l, r, f
<1>6. CASE r = -1 /\ l = 0 /\ sort' = [sort EXCEPT !.outside = TRUE]
  <2> DEFINE T == sort.todo
  <2>1. /\ sort = [fn |-> sort.fn, given |-> sort.given, array |-> sort.array, todo |-> T,
                   outside |-> sort.outside]
        /\ sort.fn \in Sorts /\ sort.given \in Arrays /\ sort.given \in IntArray(N)
        /\ Rearrangement(sort.array, sort.given, 0..(N - 1), N)
        /\ T \in Seq(Frames(sort.fn, N))
        /\ Separate(sort.fn, T)
        /\ Within(sort.fn, T, sort.array, 0..(N - 1))
        /\ Wraps(sort.fn, T) => Twice(sort.given, N)
    BY Zenon DEF Going
  <2> HIDE DEF T
  <2>2. 1 \in 1..Len(T) /\ T[1].r = -1
    <3>1. T # <<>>
      BY <1>1 DEF T
    <3>2. 1 \in 1..Len(T) /\ Head(T) = T[1]
      BY <2>1, <3>1
    <3> QED
      BY <1>4, <1>6, <3>2 DEF T, r, f
  <2>3. Twice(sort.given, N)
    <3>1. Wraps(sort.fn, T)
      BY <1>1, <2>2, Zenon DEF Wraps
    <3> QED
      BY <2>1, <3>1, Zenon
  <2>4. /\ sort'.fn = sort.fn /\ sort'.given = sort.given /\ sort'.array = sort.array
        /\ sort'.todo = T /\ sort'.outside = TRUE
        /\ sort' = [fn |-> sort'.fn, given |-> sort'.given, array |-> sort'.array, todo |-> sort'.todo,
                    outside |-> sort'.outside]
    <3> DEFINE n == sort.fn
               g == sort.given
               a == sort.array
               o == sort.outside
    <3>1. sort = [fn |-> n, given |-> g, array |-> a, todo |-> T, outside |-> o]
      BY <2>1, Zenon
    <3> HIDE DEF n, g, a, o
    <3>2. sort' = [fn |-> n, given |-> g, array |-> a, todo |-> T, outside |-> TRUE]
      BY <1>6, <3>1
    <3>3. /\ sort'.fn = n /\ sort'.given = g /\ sort'.array = a /\ sort'.todo = T /\ sort'.outside = TRUE
          /\ sort' = [fn |-> sort'.fn, given |-> sort'.given, array |-> sort'.array, todo |-> sort'.todo,
                      outside |-> sort'.outside]
      BY <3>2
    <3> QED
      BY <3>3, Zenon DEF n, g, a, o
  <2>5. Going([fn |-> sort.fn, given |-> sort.given, array |-> sort.array, todo |-> T,
               outside |-> TRUE], N)
    <3> DEFINE u == [fn |-> sort.fn, given |-> sort.given, array |-> sort.array, todo |-> T, outside |-> TRUE]
    <3>1. /\ u.fn = sort.fn /\ u.given = sort.given /\ u.array = sort.array /\ u.todo = T /\ u.outside = TRUE
          /\ u = [fn |-> u.fn, given |-> u.given, array |-> u.array, todo |-> u.todo, outside |-> u.outside]
      OBVIOUS
    <3> HIDE DEF u
    <3>2. TRUE \in BOOLEAN
      OBVIOUS
    <3> QED
      <4>1. Going(u, N)
        BY <1>1, <2>1, <2>3, <3>1, <3>2, Zenon DEF Going
      <4> QED
        BY <4>1, Zenon DEF u
  <2> QED
    BY <2>4, <2>5, Zenon
<1>7. CASE r # -1 /\ l >= r /\ Continue(A, <<>>)
  <2>1. SortedFrom(A, l, r)
    BY <1>3, <1>7 DEF SortedFrom
  <2>2. Rearrangement(A, A, l..r, N)
    BY <1>2, RearrangedSame, Zenon DEF Rearrangement
  <2>3. Replaces(sort, A, <<>>, N)
    BY <1>1, <1>4, <2>1, <2>2, NothingLeft, Zenon DEF A
  <2> QED
    BY <1>1, <1>7, <2>3, ContinueGoes, Zenon
<1>8. CASE l < r /\ r - l < 8 /\ Continue(insertion_sort(A, l, r - l + 1), <<>>)
  <2>1. r - l + 1 \in Nat \ {0} /\ l + (r - l + 1) <= N /\ l + (r - l + 1) - 1 = r
    BY <1>3, <1>8
  <2>2. Is(sort.fn, NextRange, l, l + (r - l + 1) - 1)
    BY <1>1, <1>4, <2>1, Zenon
  <2> QED
    BY <1>1, <1>3, <1>8, <2>1, <2>2, InsertionGoes, Zenon DEF A
<1>9. CASE l < r /\ r - l >= 8 /\ Continue(SplitFinal(A, l, r).A, SplitFinal(A, l, r).parts)
  <2> DEFINE B == SplitFinal(A, l, r).A
             ranges == SplitFinal(A, l, r).parts
  <2>1. SplitMade(A, l, r, N)
    <3>1. r \in 0..(N - 1) /\ r - l >= 8
      BY <1>3, <1>9
    <3> QED
      BY <1>2, <1>3, <3>1, SplitFinalSplits, Zenon
  <2>2. PICK L, R : /\ ranges = <<[l |-> R, r |-> r], [l |-> l, r |-> L]>>
                    /\ SplitTo(A, B, l, r, L, R, N)
    BY <2>1, Zenon DEF SplitMade
  <2>3. Continue(B, ranges)
    BY <1>9, Zenon
  <2> HIDE DEF B, ranges
  <2>4. /\ L \in (l - 1)..r /\ R \in (L + 2)..(r + 1)
        /\ Rearrangement(B, A, l..r, N) /\ Parted(B, l, L, R, r)
        /\ L = l - 1 => Twice(A, N)
    BY <2>2, Zenon DEF SplitTo, Parted
  <2> DEFINE g == [l |-> R, r |-> r]
             h == [l |-> l, r |-> L]
  <2>5. g \in Frames(fn, N) /\ h \in Frames(fn, N)
    BY <1>3, <1>9, <2>4 DEF Frames
  <2>6. Is(fn, h, l, L) /\ Is(fn, g, R, r) /\ g.r = r /\ h.r = L
    BY DEF Is, FirstOf, LastOf
  <2> HIDE DEF g, h
  <2>7. <<g, h>> \in Seq(Frames(fn, N)) /\ 1..Len(<<g, h>>) = {1, 2} /\ <<g, h>>[1] = g /\ <<g, h>>[2] = h
    BY <2>5
  <2>8. Covering(fn, <<g, h>>, l, L, R, r)
    BY <1>3, <2>4, <2>6, Coverings, Zenon
  <2> DEFINE q == <<g, h>>
  <2>9. q \in Seq(Frames(fn, N)) /\ 1..Len(q) = {1, 2} /\ q[1] = g /\ q[2] = h /\ Covering(fn, q, l, L, R, r)
    BY <2>7, <2>8, Zenon
  <2>10. ranges = q
    BY <2>2, Zenon DEF g, h
  <2> HIDE DEF q
  <2>11. Inside(fn, q, l..r) /\ Separate(fn, q) /\ Within(fn, q, B, l..r)
    <3>1. B \in IntArray(N)
      BY <2>4, Zenon DEF Rearrangement
    <3> QED
      BY <1>3, <2>4, <2>9, <3>1, PartsReplace, Zenon
  <2>12. ASSUME Wraps(fn, q) PROVE Twice(A, N)
    <3>1. PICK a \in 1..Len(q) : q[a].r = -1
      BY <2>12, Zenon DEF Wraps
    <3>2. g.r = -1 \/ h.r = -1
      BY <2>9, <3>1
    <3>3. L = l - 1
      BY <1>3, <1>9, <2>4, <2>6, <3>2
    <3> QED
      BY <2>4, <3>3, Zenon
  <2>13. Replaces(sort, B, q, N)
    BY <1>1, <1>4, <2>4, <2>9, <2>11, <2>12, Zenon DEF Replaces, A
  <2> QED
    BY <1>1, <2>3, <2>10, <2>13, ContinueGoes, Zenon
<1> QED
  BY <1>5, <1>6, <1>7, <1>8, <1>9, Zenon

\* The call of a sort for the whole array.
LEMMA MainGoes ==
  ASSUME SortMain
  PROVE  \E N \in Nat \ {0} : Going(sort', N)
<1>1. PICK fn \in Sorts, A \in Arrays :
        sort' = [fn |-> fn, given |-> A, array |-> A, outside |-> FALSE,
                 todo |-> <<Whole(fn, Cardinality(DOMAIN A))>>]
  BY Zenon DEF SortMain
<1> DEFINE N == Cardinality(DOMAIN A)
           w == Whole(fn, N)
           T == <<w>>
           D == 0..(N - 1)
<1>2. N \in Nat \ {0} /\ A \in IntArray(N)
  BY SortingAssumption, Zenon DEF IntArray
<1>3. sort' = [fn |-> fn, given |-> A, array |-> A, todo |-> T, outside |-> FALSE]
  BY <1>1
<1> HIDE DEF N
<1>4. w \in Frames(fn, N) /\ Span(fn, w) = D /\ (fn = "qsort_final" => w.r # -1)
  <2>1. CASE fn = "qsort_final"
    BY <1>2, <2>1 DEF Whole, Frames, Span, FirstOf, LastOf
  <2>2. CASE fn = "qsort_median_insert_iter"
    BY <1>2, <2>2 DEF Whole, Frames, Span, FirstOf, LastOf
  <2>3. CASE fn = "qsort_median_insert"
    BY <1>2, <2>3 DEF Whole, Frames, Span, FirstOf, LastOf
  <2>4. CASE fn = "qsort_orig"
    BY <1>2, <2>4 DEF Whole, Frames, Span, FirstOf, LastOf
  <2> QED
    BY <2>1, <2>2, <2>3, <2>4, Zenon DEF Sorts
<1> HIDE DEF w
<1>5. T \in Seq(Frames(fn, N)) /\ 1..Len(T) = {1} /\ T[1] = w
  BY <1>4
<1> HIDE DEF T, D
<1>6. Separate(fn, T)
  BY <1>5 DEF Separate
<1>7. Within(fn, T, A, D)
  <2>1. \A i, j \in D : Both(fn, T, i, j)
    <3>1. 1 \in 1..Len(T) /\ Span(fn, T[1]) = D
      BY <1>4, <1>5
    <3> QED
      BY <3>1, Zenon DEF Both
  <2> QED
    BY <2>1, Zenon DEF Within
<1>8. ~Wraps(fn, T)
  BY <1>4, <1>5 DEF Wraps
<1>9. Rearrangement(A, A, D, N)
  BY <1>2, RearrangedSame, Zenon DEF Rearrangement
<1>10. /\ sort'.fn = fn /\ sort'.given = A /\ sort'.array = A /\ sort'.todo = T /\ sort'.outside = FALSE
       /\ sort' = [fn |-> sort'.fn, given |-> sort'.given, array |-> sort'.array, todo |-> sort'.todo,
                   outside |-> sort'.outside]
  BY <1>3
<1>11. FALSE \in BOOLEAN
  OBVIOUS
<1>12. Going(sort', N)
  BY <1>2, <1>5, <1>6, <1>7, <1>8, <1>9, <1>10, <1>11, Zenon DEF Going, D
<1> QED
  BY <1>2, <1>12, Zenon

LEMMA SortsGo ==
  ASSUME SortInv, [SortingNext]_sort
  PROVE  SortInv'
<1>1. CASE SortMain
  BY <1>1, MainGoes, Zenon DEF SortInv
<1>2. CASE sort' = sort
  BY <1>2 DEF SortInv
<1>3. ASSUME qsort_orig \/ qsort_median_insert \/ qsort_median_insert_iter \/ qsort_final PROVE SortInv'
  <2>1. sort.fn \in Sorts
    BY <1>3, Zenon DEF qsort_orig, qsort_median_insert, qsort_median_insert_iter, qsort_final, Calls, Sorts
  <2>2. sort # Unsorted
    BY <2>1 DEF Unsorted, Sorts
  <2>3. PICK N \in Nat \ {0} : Going(sort, N)
    BY <2>2, Zenon DEF SortInv
  <2>4. N \in Nat
    OBVIOUS
  <2>5. Going(sort', N)
    BY <1>3, <2>3, <2>4, OrigGoes, MedianInsertGoes, IterGoes, FinalGoes, Zenon
  <2> QED
    BY <2>5, Zenon DEF SortInv
<1> QED
  BY <1>1, <1>2, <1>3, Zenon DEF SortingNext

\* What holds while a sort runs says that it sorts.
LEMMA GoingSorts ==
  ASSUME SortInv
  PROVE  SortsCorrectly
<1>1. CASE sort = Unsorted
  BY <1>1 DEF SortsCorrectly, Unsorted
<1>2. ASSUME NEW N \in Nat \ {0}, Going(sort, N) PROVE SortsCorrectly
  <2> DEFINE A == sort.array
             g == sort.given
             D == 0..(N - 1)
  <2>1. /\ A \in IntArray(N) /\ g \in IntArray(N) /\ Rearranged(A, g, D, N)
        /\ Within(sort.fn, sort.todo, A, D)
        /\ sort.outside => sort.fn = "qsort_final" /\ Twice(g, N)
    BY <1>2, Zenon DEF Going, Rearrangement
  <2>2. DOMAIN A = D /\ DOMAIN g = D
    BY <2>1 DEF IntArray
  <2>3. ASSUME sort.todo = <<>> PROVE Sorted(A, g)
    <3>1. ASSUME NEW i \in D, NEW j \in D, i < j PROVE A[i] <= A[j]
      <4>1. 1..Len(sort.todo) = {}
        BY <2>3
      <4>2. ~Both(sort.fn, sort.todo, i, j)
        BY <4>1 DEF Both
      <4>3. ~(A[i] > A[j])
        BY <2>1, <3>1, <4>2, Zenon DEF Within
      <4>4. A[i] \in Int /\ A[j] \in Int
        BY <2>1 DEF IntArray
      <4> QED
        BY <4>3, <4>4
    <3>2. ASSUME NEW k PROVE Cardinality({i \in D : A[i] = k}) = Cardinality({i \in D : g[i] = k})
      <4>1. N \in Nat
        OBVIOUS
      <4>2. Count(A, k, N) = Count(g, k, N)
        BY <2>1, <4>1, RearrangedCounts, Zenon
      <4> QED
        BY <4>2, Zenon DEF Count
    <3> HIDE DEF A, g, D
    <3> QED
      BY <2>2, <3>1, <3>2, Zenon DEF Sorted
  <2>4. ASSUME sort.outside PROVE \E i, j \in DOMAIN g : i # j /\ g[i] = g[j]
    BY <2>1, <2>2, <2>4, Zenon DEF Twice
  <2> QED
    BY <2>1, <2>3, <2>4, Zenon DEF SortsCorrectly
<1> QED
  BY <1>1, <1>2, Zenon DEF SortInv

\* Every sort of my_quick_sorts.cpp that returns leaves the keys it was given, in order, and
\* only qsort_final reads outside the array, where a key is given twice: for every array.
THEOREM SortsSort == SortingSpec => []SortsCorrectly
<1>1. SortingInit => SortInv
  BY DEF SortingInit, SortInv
<1>2. SortInv /\ [SortingNext]_sort => SortInv'
  BY SortsGo, Zenon
<1>3. SortInv => SortsCorrectly
  BY GoingSorts, Zenon
<1> QED
  BY <1>1, <1>2, <1>3, PTL DEF SortingSpec

----------------------------------------------------------------------------
(* Sums *)

\* The function inside MapThenFoldSet, for sums: on all subsets of a finite set.
AnyOf(s) == CHOOSE x \in s : TRUE
Sums(g, A, U) ==
  g = [s \in SUBSET U |-> IF s = {} THEN 0 ELSE A[AnyOf(s)] + g[s \ {AnyOf(s)}]]
SumsUpTo(g, A, U, m) ==
  /\ g \in [SUBSET U -> Int] /\ g[{}] = 0
  /\ \A s \in SUBSET U : Cardinality(s) <= m /\ s # {} => g[s] = A[AnyOf(s)] + g[s \ {AnyOf(s)}]

\* A set without one of its elements.
LEMMA OneLess ==
  ASSUME NEW U, IsFiniteSet(U), NEW s \in SUBSET U, NEW x \in s
  PROVE  /\ s \ {x} \in SUBSET U /\ IsFiniteSet(s) /\ Cardinality(s) \in Nat
         /\ Cardinality(s \ {x}) = Cardinality(s) - 1
<1>1. IsFiniteSet(s)
  BY FS_Subset
<1>2. Cardinality(s) \in Nat
  BY <1>1, FS_CardinalityType
<1>3. Cardinality(s \ {x}) = Cardinality(s) - 1
  BY <1>1, FS_RemoveElement
<1> QED
  BY <1>1, <1>2, <1>3

LEMMA AnyOfIs ==
  ASSUME NEW s, s # {}
  PROVE  AnyOf(s) \in s
BY Zenon DEF AnyOf

LEMMA SumsExist ==
  ASSUME NEW U, IsFiniteSet(U), NEW A, \A x \in U : A[x] \in Int
  PROVE  \E g \in [SUBSET U -> Int] : Sums(g, A, U)
<1> DEFINE S == {m \in Nat : \E g : SumsUpTo(g, A, U, m)}
<1>1. 0 \in S
  <2> DEFINE g == [s \in SUBSET U |-> 0]
  <2>1. g \in [SUBSET U -> Int] /\ g[{}] = 0
    OBVIOUS
  <2>2. ASSUME NEW s \in SUBSET U, Cardinality(s) <= 0, s # {} PROVE FALSE
    <3>1. PICK x : x \in s
      BY <2>2
    <3>2. Cardinality(s \ {x}) = Cardinality(s) - 1 /\ Cardinality(s) \in Nat /\ s \ {x} \in SUBSET U
      BY <3>1, OneLess
    <3>3. Cardinality(s \ {x}) \in Nat
      BY <3>2, FS_Subset, FS_CardinalityType
    <3> QED
      BY <2>2, <3>2, <3>3
  <2> HIDE DEF g
  <2>3. SumsUpTo(g, A, U, 0)
    BY <2>1, <2>2 DEF SumsUpTo
  <2> QED
    BY <2>3
<1>2. ASSUME NEW m \in Nat, m \in S PROVE m + 1 \in S
  <2>1. PICK g : SumsUpTo(g, A, U, m)
    BY <1>2
  <2> DEFINE h == [s \in SUBSET U |-> IF s = {} THEN 0 ELSE A[AnyOf(s)] + g[s \ {AnyOf(s)}]]
  <2>2. ASSUME NEW s \in SUBSET U, s # {} PROVE h[s] = A[AnyOf(s)] + g[s \ {AnyOf(s)}] /\ h[s] \in Int
    <3>1. AnyOf(s) \in s
      BY <2>2, AnyOfIs
    <3>2. A[AnyOf(s)] \in Int /\ g[s \ {AnyOf(s)}] \in Int
      BY <2>1, <3>1 DEF SumsUpTo
    <3>3. h[s] = A[AnyOf(s)] + g[s \ {AnyOf(s)}]
      BY <2>2
    <3> QED
      BY <3>2, <3>3
  <2>3. h[{}] = 0 /\ h = [s \in SUBSET U |-> h[s]]
    OBVIOUS
  <2> HIDE DEF h
  <2>4. h \in [SUBSET U -> Int]
    <3>1. ASSUME NEW s \in SUBSET U PROVE h[s] \in Int
      <4>1. CASE s = {}
        BY <2>3, <4>1
      <4>2. CASE s # {}
        BY <2>2, <4>2
      <4> QED
        BY <4>1, <4>2
    <3> QED
      BY <2>3, <3>1
  <2>5. ASSUME NEW s \in SUBSET U, Cardinality(s) <= m PROVE h[s] = g[s]
    BY <2>1, <2>2, <2>3, <2>5 DEF SumsUpTo
  <2>6. ASSUME NEW s \in SUBSET U, Cardinality(s) <= m + 1, s # {}
        PROVE  h[s] = A[AnyOf(s)] + h[s \ {AnyOf(s)}]
    <3>1. /\ s \ {AnyOf(s)} \in SUBSET U /\ Cardinality(s) \in Nat
          /\ Cardinality(s \ {AnyOf(s)}) = Cardinality(s) - 1
      BY <2>6, AnyOfIs, OneLess
    <3>2. h[s \ {AnyOf(s)}] = g[s \ {AnyOf(s)}]
      BY <2>5, <2>6, <3>1
    <3> QED
      BY <2>2, <2>6, <3>2
  <2>7. SumsUpTo(h, A, U, m + 1)
    BY <2>3, <2>4, <2>6 DEF SumsUpTo
  <2> QED
    BY <2>7
<1>3. PICK g : SumsUpTo(g, A, U, Cardinality(U))
  <2>1. Cardinality(U) \in Nat
    BY FS_CardinalityType
  <2>2. Cardinality(U) \in S
    <3> HIDE DEF S
    <3> QED
      BY <1>1, <1>2, <2>1, Induct, Zenon
  <2> QED
    BY <2>2
<1>4. ASSUME NEW s \in SUBSET U
      PROVE  g[s] = IF s = {} THEN 0 ELSE A[AnyOf(s)] + g[s \ {AnyOf(s)}]
  <2>1. Cardinality(s) <= Cardinality(U)
    BY FS_Subset
  <2> QED
    BY <1>3, <2>1 DEF SumsUpTo
<1>5. g \in [SUBSET U -> Int] /\ g = [s \in SUBSET U |-> g[s]]
  BY <1>3 DEF SumsUpTo
<1>6. Sums(g, A, U)
  BY <1>4, <1>5, Zenon DEF Sums
<1> QED
  BY <1>5, <1>6

\* The sum over a set does not depend on the set that the function is chosen for.
LEMMA SumsAgree ==
  ASSUME NEW U, IsFiniteSet(U), NEW T \in SUBSET U, NEW A, NEW g, NEW h,
         Sums(g, A, U), Sums(h, A, T)
  PROVE  \A s \in SUBSET T : h[s] = g[s]
<1> DEFINE S == {m \in Nat : \A s \in SUBSET T : Cardinality(s) = m => h[s] = g[s]}
<1>1. ASSUME NEW s \in SUBSET T
      PROVE  /\ h[s] = IF s = {} THEN 0 ELSE A[AnyOf(s)] + h[s \ {AnyOf(s)}]
             /\ g[s] = IF s = {} THEN 0 ELSE A[AnyOf(s)] + g[s \ {AnyOf(s)}]
             /\ IsFiniteSet(s) /\ Cardinality(s) \in Nat
  <2>1. s \in SUBSET U
    OBVIOUS
  <2>2. IsFiniteSet(s)
    BY <2>1, FS_Subset
  <2>3. Cardinality(s) \in Nat
    BY <2>2, FS_CardinalityType
  <2>4. h = [t \in SUBSET T |-> IF t = {} THEN 0 ELSE A[AnyOf(t)] + h[t \ {AnyOf(t)}]]
    BY Zenon DEF Sums
  <2>5. g = [t \in SUBSET U |-> IF t = {} THEN 0 ELSE A[AnyOf(t)] + g[t \ {AnyOf(t)}]]
    BY Zenon DEF Sums
  <2>6. h[s] = IF s = {} THEN 0 ELSE A[AnyOf(s)] + h[s \ {AnyOf(s)}]
    BY <2>4, Zenon
  <2>7. g[s] = IF s = {} THEN 0 ELSE A[AnyOf(s)] + g[s \ {AnyOf(s)}]
    BY <2>1, <2>5, Zenon
  <2> QED
    BY <2>2, <2>3, <2>6, <2>7
<1>2. 0 \in S
  <2>1. ASSUME NEW s \in SUBSET T, Cardinality(s) = 0 PROVE h[s] = g[s]
    <3>1. s = {}
      BY <1>1, <2>1, FS_EmptySet
    <3> QED
      BY <1>1, <3>1
  <2> QED
    BY <2>1
<1>3. ASSUME NEW m \in Nat, m \in S PROVE m + 1 \in S
  <2>1. ASSUME NEW s \in SUBSET T, Cardinality(s) = m + 1 PROVE h[s] = g[s]
    <3>1. s # {}
      BY <2>1, FS_EmptySet
    <3>2. s \ {AnyOf(s)} \in SUBSET T /\ Cardinality(s \ {AnyOf(s)}) = m
      <4>1. AnyOf(s) \in s
        BY <3>1, AnyOfIs
      <4>2. Cardinality(s \ {AnyOf(s)}) = Cardinality(s) - 1
        BY <1>1, <4>1, FS_RemoveElement
      <4> QED
        BY <2>1, <4>2
    <3>3. h[s \ {AnyOf(s)}] = g[s \ {AnyOf(s)}]
      BY <1>3, <3>2
    <3> QED
      BY <1>1, <3>1, <3>3
  <2> QED
    BY <2>1
<1>4. \A m \in Nat : m \in S
  <2> HIDE DEF S
  <2> QED
    BY <1>2, <1>3, Induct, Zenon
<1> SUFFICES ASSUME NEW s \in SUBSET T PROVE h[s] = g[s]
  OBVIOUS
<1>5. Cardinality(s) \in S
  BY <1>1, <1>4
<1> QED
  BY <1>5

\* SumFunctionOnSet is that function.
LEMMA SumIs ==
  ASSUME NEW U, IsFiniteSet(U), NEW A, \A x \in U : A[x] \in Int,
         NEW g \in [SUBSET U -> Int], Sums(g, A, U), NEW T \in SUBSET U
  PROVE  SumFunctionOnSet(A, T) = g[T]
<1> DEFINE Eq(f) == f = [s \in SUBSET T |->
                           IF s = {} THEN 0 ELSE A[CHOOSE x \in s : TRUE] + f[s \ {CHOOSE x \in s : TRUE}]]
           G == CHOOSE f : Eq(f)
<1>1. \E f : Eq(f)
  <2>1. IsFiniteSet(T)
    BY FS_Subset
  <2>2. PICK f : Sums(f, A, T)
    BY <2>1, SumsExist
  <2>3. Eq(f)
    BY <2>2, Zenon DEF Sums, AnyOf
  <2> QED
    BY <2>3, Zenon
<1>2. Eq(G)
  BY <1>1, Zenon
<1>3. Sums(G, A, T)
  BY <1>2, Zenon DEF Sums, AnyOf
<1>4. SumFunctionOnSet(A, T) = G[T]
  BY Zenon DEF SumFunctionOnSet, FoldFunctionOnSet, MapThenFoldSet
<1> HIDE DEF G
<1>5. G[T] = g[T]
  BY <1>3, SumsAgree
<1> QED
  BY <1>4, <1>5

\* One more element, and none.
LEMMA SumAdds ==
  ASSUME NEW U, IsFiniteSet(U), NEW A, \A x \in U : A[x] \in Int
  PROVE  /\ SumFunctionOnSet(A, {}) = 0
         /\ \A T \in SUBSET U : SumFunctionOnSet(A, T) \in Int
         /\ \A T \in SUBSET U : \A x \in T :
              SumFunctionOnSet(A, T) = SumFunctionOnSet(A, T \ {x}) + A[x]
<1>1. PICK g \in [SUBSET U -> Int] : Sums(g, A, U)
  BY SumsExist
<1>2. \A T \in SUBSET U : SumFunctionOnSet(A, T) = g[T]
  BY <1>1, SumIs
<1>3. ASSUME NEW s \in SUBSET U
      PROVE  g[s] = IF s = {} THEN 0 ELSE A[AnyOf(s)] + g[s \ {AnyOf(s)}]
  <2>1. g = [t \in SUBSET U |-> IF t = {} THEN 0 ELSE A[AnyOf(t)] + g[t \ {AnyOf(t)}]]
    BY <1>1, Zenon DEF Sums
  <2> QED
    BY <2>1, Zenon
<1> DEFINE S == {m \in Nat : \A s \in SUBSET U : \A x \in s : Cardinality(s) = m => g[s] = g[s \ {x}] + A[x]}
<1>4. 0 \in S
  <2>1. ASSUME NEW s \in SUBSET U, NEW x \in s, Cardinality(s) = 0 PROVE FALSE
    <3>1. IsFiniteSet(s)
      BY FS_Subset
    <3> QED
      BY <2>1, <3>1, FS_EmptySet
  <2> QED
    BY <2>1
<1>5. ASSUME NEW m \in Nat, m \in S PROVE m + 1 \in S
  <2>1. ASSUME NEW s \in SUBSET U, NEW x \in s, Cardinality(s) = m + 1 PROVE g[s] = g[s \ {x}] + A[x]
    <3> DEFINE c == AnyOf(s)
    <3>1. c \in s /\ s # {}
      BY AnyOfIs
    <3> HIDE DEF c
    <3>2. g[s] = A[c] + g[s \ {c}]
      BY <1>3, <3>1 DEF c
    <3>3. A[c] \in Int /\ A[x] \in Int
      BY <3>1
    <3>4. CASE c = x
      <4>1. g[s \ {c}] \in Int
        OBVIOUS
      <4> QED
        BY <3>2, <3>3, <3>4, <4>1
    <3>5. CASE c # x
      <4>1. /\ s \ {c} \in SUBSET U /\ Cardinality(s \ {c}) = m
            /\ s \ {x} \in SUBSET U /\ Cardinality(s \ {x}) = m
        BY <2>1, <3>1, OneLess
      <4>2. x \in s \ {c} /\ c \in s \ {x} /\ (s \ {c}) \ {x} = (s \ {x}) \ {c}
        BY <3>1, <3>5
      <4>3. g[s \ {c}] = g[(s \ {c}) \ {x}] + A[x]
        BY <1>5, <4>1, <4>2
      <4>4. g[s \ {x}] = g[(s \ {x}) \ {c}] + A[c]
        BY <1>5, <4>1, <4>2
      <4>5. g[(s \ {x}) \ {c}] \in Int /\ g[(s \ {c}) \ {x}] = g[(s \ {x}) \ {c}]
        BY <4>2
      <4>6. g[s] = A[c] + (g[(s \ {x}) \ {c}] + A[x])
        BY <3>2, <4>3, <4>5, Zenon
      <4> QED
        BY <3>3, <4>4, <4>5, <4>6
    <3> QED
      BY <3>4, <3>5
  <2> QED
    BY <2>1
<1>6. \A m \in Nat : m \in S
  <2> HIDE DEF S
  <2> QED
    BY <1>4, <1>5, Induct, Zenon
<1>7. ASSUME NEW T \in SUBSET U, NEW x \in T
      PROVE  SumFunctionOnSet(A, T) = SumFunctionOnSet(A, T \ {x}) + A[x]
  <2>1. Cardinality(T) \in S
    <3>1. Cardinality(T) \in Nat
      BY OneLess
    <3> QED
      BY <1>6, <3>1
  <2>2. g[T] = g[T \ {x}] + A[x]
    BY <2>1
  <2>3. T \ {x} \in SUBSET U
    OBVIOUS
  <2> QED
    BY <1>2, <2>2, <2>3
<1>8. {} \in SUBSET U
  OBVIOUS
<1>9. SumFunctionOnSet(A, {}) = 0
  BY <1>2, <1>3, <1>8
<1>10. \A T \in SUBSET U : SumFunctionOnSet(A, T) \in Int
  BY <1>2
<1> QED
  BY <1>7, <1>9, <1>10

\* The sum over two sets that are disjoint.
LEMMA SumUnion ==
  ASSUME NEW U, IsFiniteSet(U), NEW A, \A x \in U : A[x] \in Int,
         NEW V \in SUBSET U, NEW T \in SUBSET U, V \cap T = {}
  PROVE  SumFunctionOnSet(A, V \cup T) = SumFunctionOnSet(A, V) + SumFunctionOnSet(A, T)
<1> DEFINE f(s) == SumFunctionOnSet(A, s)
           S == {m \in Nat : \A s \in SUBSET T : Cardinality(s) = m => f(V \cup s) = f(V) + f(s)}
<1>1. /\ f({}) = 0 /\ \A s \in SUBSET U : f(s) \in Int
      /\ \A s \in SUBSET U : \A x \in s : f(s) = f(s \ {x}) + A[x]
  BY SumAdds
<1> HIDE DEF f
<1>2. 0 \in S
  <2>1. ASSUME NEW s \in SUBSET T, Cardinality(s) = 0 PROVE f(V \cup s) = f(V) + f(s)
    <3>1. IsFiniteSet(s)
      <4>1. s \in SUBSET U
        OBVIOUS
      <4> QED
        BY <4>1, FS_Subset
    <3>2. s = {} /\ V \cup s = V
      BY <2>1, <3>1, FS_EmptySet
    <3>3. f(V \cup s) = f(V) /\ f(s) = f({}) /\ f(V) \in Int
      BY <1>1, <3>2
    <3> QED
      BY <1>1, <3>3
  <2> QED
    BY <2>1
<1>3. ASSUME NEW m \in Nat, m \in S PROVE m + 1 \in S
  <2>1. ASSUME NEW s \in SUBSET T, Cardinality(s) = m + 1 PROVE f(V \cup s) = f(V) + f(s)
    <3>1. s # {}
      BY <2>1, FS_EmptySet
    <3>2. PICK x : x \in s
      BY <3>1
    <3>3. s \in SUBSET U /\ V \cup s \in SUBSET U /\ x \in V \cup s
      BY <3>2
    <3>4. s \ {x} \in SUBSET T /\ Cardinality(s \ {x}) = m /\ (V \cup s) \ {x} = V \cup (s \ {x})
      <4>1. Cardinality(s \ {x}) = Cardinality(s) - 1
        BY <3>2, <3>3, OneLess
      <4>2. x \notin V
        BY <3>2
      <4> QED
        BY <2>1, <4>1, <4>2
    <3>5. f(V \cup (s \ {x})) = f(V) + f(s \ {x})
      BY <1>3, <3>4
    <3>6. f(V \cup s) = f(V \cup (s \ {x})) + A[x] /\ f(s) = f(s \ {x}) + A[x]
      <4>1. f(V \cup s) = f((V \cup s) \ {x}) + A[x]
        BY <1>1, <3>3
      <4> QED
        BY <1>1, <3>2, <3>3, <3>4, <4>1
    <3>7. f(V) \in Int /\ f(s \ {x}) \in Int /\ A[x] \in Int
      <4>1. s \ {x} \in SUBSET U /\ x \in U
        BY <3>2, <3>3
      <4> QED
        BY <1>1, <4>1
    <3> QED
      BY <3>5, <3>6, <3>7
  <2> QED
    BY <2>1
<1>4. \A m \in Nat : m \in S
  <2> HIDE DEF S
  <2> QED
    BY <1>2, <1>3, Induct, Zenon
<1>5. Cardinality(T) \in S
  <2>1. IsFiniteSet(T)
    BY FS_Subset
  <2>2. Cardinality(T) \in Nat
    BY <2>1, FS_CardinalityType
  <2> QED
    BY <1>4, <2>2
<1>6. f(V \cup T) = f(V) + f(T)
  BY <1>5
<1> QED
  BY <1>6 DEF f

----------------------------------------------------------------------------
(* What the loops keep *)

LEMMA Places ==
  ASSUME NEW n \in Nat
  PROVE  0 \in 0..n /\ n \in 0..n /\ \A m \in 1..n : m - 1 \in 0..n /\ m \in 0..n
OBVIOUS

\* A loop that stays in one set.
LoopRun(X, base, step, seq, n, g, r) ==
  /\ Folds(g, base, step, seq, n)
  /\ r[0] = base /\ \A i \in 1..n : r[i] = step[r[i - 1], seq[i]]
  /\ \A i \in 0..n : r[i] \in X
  /\ r[n] = g[1..n]
LEMMA LoopsRun ==
  ASSUME NEW n \in Nat, NEW X, NEW base \in X, NEW V, NEW seq, \A m \in 1..n : seq[m] \in V,
         NEW step, \A x \in X : \A v \in V : step[x, v] \in X
  PROVE  \E g \in [SUBSET (1..n) -> X] : \E r : LoopRun(X, base, step, seq, n, g, r)
<1> DEFINE J == [m \in 0..n |-> X]
<1>1. \A m \in 0..n : J[m] = X
  OBVIOUS
<1>2. 0 \in 0..n /\ n \in 0..n /\ \A m \in 1..n : m - 1 \in 0..n /\ m \in 0..n
  BY Places, Zenon
<1> HIDE DEF J
<1>3. Steps(J, step, seq, n)
  <2>1. ASSUME NEW m \in 1..n
        PROVE  J[m - 1] \subseteq J[m] /\ \A x \in J[m - 1] : step[x, seq[m]] \in J[m]
    <3>1. J[m - 1] = X /\ J[m] = X
      BY <1>1, <1>2, Zenon
    <3>2. \A x \in X : step[x, seq[m]] \in X
      OBVIOUS
    <3> QED
      BY <3>1, <3>2
  <2> QED
    BY <2>1, Zenon DEF Steps
<1>4. base \in J[0] /\ J[n] = X
  BY <1>1, <1>2, Zenon
<1>5. Made(J, base, step, seq, n)
  BY <1>3, <1>4, FoldMakes, Zenon
<1>6. PICK g \in [SUBSET (1..n) -> J[n]] : \E r :
             Folds(g, base, step, seq, n) /\ Runs(J, base, step, seq, n, r) /\ r[n] = g[1..n]
  BY <1>5, Zenon DEF Made
<1>7. PICK r : Folds(g, base, step, seq, n) /\ Runs(J, base, step, seq, n, r) /\ r[n] = g[1..n]
  BY <1>6, Zenon
<1>8. g \in [SUBSET (1..n) -> X]
  BY <1>4
<1>9. \A i \in 0..n : r[i] \in X
  BY <1>1, <1>7, Zenon DEF Runs
<1>10. LoopRun(X, base, step, seq, n, g, r)
  BY <1>7, <1>9, Zenon DEF LoopRun, Runs
<1> QED
  BY <1>8, <1>10, Zenon

\* Of the sums found so far, the first greatest one is kept.
FirstBest(b, first, found, i) ==
  /\ b = first \/ \E x \in 1..i : b = found[x] /\ first.sum < b.sum
  /\ b.sum >= first.sum
  /\ \A x \in 1..i : b.sum >= found[x].sum
BestRun(first, found, n, r) ==
  r[0] = first /\ \A i \in 1..n : r[i] = Better(r[i - 1], found[i])
BestMade(first, found, n) ==
  \E r : BestRun(first, found, n, r) /\ BestOf(first, found) = r[n]
LEMMA BestRuns ==
  ASSUME NEW n \in Nat, NEW first, NEW found, DOMAIN found = 1..n
  PROVE  BestMade(first, found, n)
<1> DEFINE X == {first} \cup {found[x] : x \in 1..n}
           step == [q \in X \X X |-> Better(q[1], q[2])]
           Eq(f) == f = [s \in SUBSET DOMAIN found |->
                           IF s = {} THEN first ELSE Better(f[s \ {Max(s)}], found[Max(s)])]
           G == CHOOSE f : Eq(f)
<1>1. first \in X /\ \A m \in 1..n : found[m] \in X
  OBVIOUS
<1> HIDE DEF X
<1>2. ASSUME NEW x \in X, NEW v \in X PROVE step[x, v] = Better(x, v) /\ step[x, v] \in X
  <2>1. step[x, v] = Better(x, v)
    BY Zenon
  <2>2. Better(x, v) \in X
    BY DEF Better
  <2> QED
    BY <2>1, <2>2, Zenon
<1> HIDE DEF step
<1>3. PICK g \in [SUBSET (1..n) -> X] : \E r : LoopRun(X, first, step, found, n, g, r)
  BY <1>1, <1>2, LoopsRun, Zenon
<1>4. PICK r : LoopRun(X, first, step, found, n, g, r)
  BY <1>3, Zenon
<1>5. Eq(g)
  <2>1. ASSUME NEW s \in SUBSET (1..n), s # {}
        PROVE  step[g[s \ {Max(s)}], found[Max(s)]] = Better(g[s \ {Max(s)}], found[Max(s)])
    <3>1. Max(s) \in 1..n
      BY <2>1, GreatestIs, Zenon
    <3>2. s \ {Max(s)} \in SUBSET (1..n)
      OBVIOUS
    <3>3. g[s \ {Max(s)}] \in X
      BY <3>2
    <3> QED
      BY <1>1, <1>2, <3>1, <3>3, Zenon
  <2>2. \A s \in SUBSET (1..n) :
          g[s] = IF s = {} THEN first ELSE Better(g[s \ {Max(s)}], found[Max(s)])
    BY <1>4, <2>1, Zenon DEF LoopRun, Folds, Step
  <2>3. g = [s \in SUBSET (1..n) |-> g[s]]
    OBVIOUS
  <2> QED
    BY <2>2, <2>3, Zenon
<1>6. Eq(G)
  BY <1>5, Zenon
<1>7. BestOf(first, found) = G[DOMAIN found]
  BY Zenon DEF BestOf, FoldLeft, MapThenFoldSet
<1> HIDE DEF G
<1>8. G[1..n] = g[1..n]
  <2>1. {} \in SUBSET (1..n)
    OBVIOUS
  <2>2. Alike(G, g, n)
    BY <1>5, <1>6, <2>1, Zenon DEF Alike
  <2> QED
    BY <2>2, SameFold, Zenon
<1>9. BestRun(first, found, n, r)
  <2>1. ASSUME NEW i \in 1..n PROVE r[i] = Better(r[i - 1], found[i])
    <3>1. i - 1 \in 0..n
      OBVIOUS
    <3>2. r[i - 1] \in X
      BY <1>4, <3>1, Zenon DEF LoopRun
    <3> QED
      BY <1>1, <1>2, <1>4, <3>2, Zenon DEF LoopRun
  <2> QED
    BY <1>4, <2>1, Zenon DEF LoopRun, BestRun
<1> QED
  BY <1>4, <1>7, <1>8, <1>9, Zenon DEF LoopRun, BestMade

LEMMA BestOfIs ==
  ASSUME NEW n \in Nat, NEW first, first.sum \in Int, NEW found, DOMAIN found = 1..n,
         \A x \in 1..n : found[x].sum \in Int
  PROVE  BestOf(first, found).sum \in Int /\ FirstBest(BestOf(first, found), first, found, n)
<1>1. PICK r : BestRun(first, found, n, r) /\ BestOf(first, found) = r[n]
  BY BestRuns, Zenon DEF BestMade
<1> DEFINE In(i) == r[i].sum \in Int /\ FirstBest(r[i], first, found, i)
           T == {i \in Nat : i <= n => In(i)}
<1>2. 0 \in T
  BY <1>1 DEF BestRun, FirstBest
<1>3. ASSUME NEW i \in Nat, i \in T PROVE i + 1 \in T
  <2> SUFFICES ASSUME i + 1 <= n PROVE In(i + 1)
    OBVIOUS
  <2>1. i + 1 \in 1..n /\ (i + 1) - 1 = i /\ i <= n
    OBVIOUS
  <2>2. r[i].sum \in Int /\ FirstBest(r[i], first, found, i)
    BY <1>3, <2>1
  <2>3. r[i + 1] = Better(r[i], found[i + 1]) /\ found[i + 1].sum \in Int
    BY <1>1, <2>1, Zenon DEF BestRun
  <2>4. CASE r[i].sum < found[i + 1].sum
    <3>1. r[i + 1] = found[i + 1]
      BY <2>3, <2>4 DEF Better
    <3> QED
      BY <2>1, <2>2, <2>3, <2>4, <3>1 DEF FirstBest
  <2>5. CASE ~(r[i].sum < found[i + 1].sum)
    <3>1. r[i + 1] = r[i]
      BY <2>3, <2>5 DEF Better
    <3> QED
      BY <2>1, <2>2, <2>3, <2>5, <3>1 DEF FirstBest
  <2> QED
    BY <2>4, <2>5
<1>4. n \in T
  <2> HIDE DEF T
  <2> QED
    BY <1>2, <1>3, Induct, Zenon
<1>5. In(n)
  BY <1>4
<1> QED
  BY <1>1, <1>5

\* With no sum at first, and some that exceed the least integer.
LEMMA BestOfNothing ==
  ASSUME NEW n \in Nat \ {0}, NEW found, DOMAIN found = 1..n,
         \A x \in 1..n : found[x].sum \in Int /\ found[x].sum > IntMin
  PROVE  /\ \E x \in 1..n : BestOf(Nothing, found) = found[x]
         /\ \A x \in 1..n : BestOf(Nothing, found).sum >= found[x].sum
<1>1. Nothing.sum \in Int /\ Nothing.sum = IntMin /\ IntMin \in Int
  BY DEF Nothing, IntMin
<1>2. /\ BestOf(Nothing, found).sum \in Int
      /\ FirstBest(BestOf(Nothing, found), Nothing, found, n)
  BY <1>1, BestOfIs
<1>3. 1 \in 1..n
  OBVIOUS
<1>4. BestOf(Nothing, found) # Nothing
  BY <1>1, <1>2, <1>3 DEF FirstBest
<1> QED
  BY <1>2, <1>4 DEF FirstBest

----------------------------------------------------------------------------
(* Sums of subarrays *)

LEMMA SumOfIs ==
  ASSUME NEW n \in Nat, NEW A \in [0..(n - 1) -> Int]
  PROVE  \A i \in 0..n, j \in -1..(n - 1) :
           /\ SumOf(A, i, j) \in Int
           /\ i > j => SumOf(A, i, j) = 0
           /\ i <= j => SumOf(A, i, j) = SumOf(A, i, j - 1) + A[j]
<1> SUFFICES ASSUME NEW i \in 0..n, NEW j \in -1..(n - 1)
             PROVE  /\ SumOf(A, i, j) \in Int
                    /\ i > j => SumOf(A, i, j) = 0
                    /\ i <= j => SumOf(A, i, j) = SumOf(A, i, j - 1) + A[j]
  OBVIOUS
<1> DEFINE U == 0..(n - 1)
<1>1. IsFiniteSet(U) /\ \A x \in U : A[x] \in Int
  BY FS_Interval
<1>2. i..j \in SUBSET U
  OBVIOUS
<1> HIDE DEF U
<1>3. /\ SumFunctionOnSet(A, {}) = 0 /\ SumFunctionOnSet(A, i..j) \in Int
      /\ \A x \in i..j : SumFunctionOnSet(A, i..j) = SumFunctionOnSet(A, (i..j) \ {x}) + A[x]
  BY <1>1, <1>2, SumAdds
<1>4. i > j => i..j = {}
  OBVIOUS
<1>5. i <= j => j \in i..j /\ (i..j) \ {j} = i..(j - 1)
  OBVIOUS
<1> QED
  BY <1>3, <1>4, <1>5 DEF SumOf

\* An answer: a subarray whose sum no other one exceeds.
GreatestRange(A, n, a, i, j) ==
  /\ i \in 0..(n - 1) /\ j \in i..(n - 1) /\ a = SumOf(A, i, j)
  /\ \A x \in 0..(n - 1) : \A y \in x..(n - 1) : SumOf(A, x, y) <= a
LEMMA MaxIs ==
  ASSUME NEW S \in SUBSET Int, NEW m \in S, \A x \in S : x <= m
  PROVE  Max(S) = m
<1>1. \E x \in S : \A y \in S : x >= y
  OBVIOUS
<1>2. Max(S) \in S /\ \A y \in S : Max(S) >= y
  BY <1>1, Zenon DEF Max
<1>3. Max(S) >= m /\ Max(S) <= m /\ Max(S) \in Int /\ m \in Int
  BY <1>2
<1> QED
  BY <1>3
LEMMA GreatestRangeIs ==
  ASSUME NEW n \in Nat, NEW A \in [0..(n - 1) -> Int], NEW a, NEW i, NEW j, GreatestRange(A, n, a, i, j)
  PROVE  a = Max(SubarraySums(A, n)) /\ a = SumOf(A, i, j)
<1>1. ASSUME NEW r \in Ranges(n)
      PROVE  /\ r[1] \in 0..(n - 1) /\ r[2] \in r[1]..(n - 1) /\ SumOf(A, r[1], r[2]) \in Int
             /\ SumOf(A, r[1], r[2]) <= a
  <2>1. r[1] \in 0..(n - 1) /\ r[2] \in 0..(n - 1) /\ r[1] <= r[2]
    BY DEF Ranges
  <2>2. r[1] \in 0..n /\ r[2] \in -1..(n - 1) /\ r[2] \in r[1]..(n - 1)
    BY <2>1
  <2>3. SumOf(A, r[1], r[2]) \in Int
    BY <2>2, SumOfIs
  <2> QED
    BY <2>1, <2>2, <2>3 DEF GreatestRange
<1>2. <<i, j>> \in Ranges(n) /\ a = SumOf(A, <<i, j>>[1], <<i, j>>[2])
  BY DEF GreatestRange, Ranges
<1>3. a \in SubarraySums(A, n)
  BY <1>2, Zenon DEF SubarraySums
<1>4. SubarraySums(A, n) \in SUBSET Int /\ \A x \in SubarraySums(A, n) : x <= a
  BY <1>1 DEF SubarraySums
<1>5. Max(SubarraySums(A, n)) = a
  BY <1>3, <1>4, MaxIs
<1> QED
  BY <1>5 DEF GreatestRange

LEMMA RangeIs ==
  ASSUME NEW n \in Nat
  PROVE  /\ \A r \in Ranges(n) :
              r[1] \in 0..(n - 1) /\ r[2] \in r[1]..(n - 1) /\ r[2] \in 0..(n - 1) /\ r = <<r[1], r[2]>>
         /\ \A i \in 0..(n - 1) : \A j \in i..(n - 1) : <<i, j>> \in Ranges(n)
BY DEF Ranges

\* Two loops find the greatest of all.
LEMMA RangesFound ==
  ASSUME NEW n \in Nat \ {0}, NEW found,
         \A r \in Ranges(n) : found[r].sum \in Int /\ found[r].sum > IntMin
  PROVE  /\ \E r \in Ranges(n) : BestOfRanges(n, found) = found[r]
         /\ \A r \in Ranges(n) : BestOfRanges(n, found).sum >= found[r].sum
<1> DEFINE from(i) == [y \in 1..(n - i) |-> found[<<i, i + y - 1>>]]
           of(i) == BestOf(Nothing, from(i))
           rows == [x \in 1..n |-> of(x - 1)]
           a == BestOf(Nothing, rows)
<1>1. ASSUME NEW i \in 0..(n - 1)
      PROVE  /\ \E j \in i..(n - 1) : of(i) = found[<<i, j>>]
             /\ \A j \in i..(n - 1) : of(i).sum >= found[<<i, j>>].sum
  <2>1. n - i \in Nat \ {0} /\ DOMAIN from(i) = 1..(n - i)
    OBVIOUS
  <2>2. ASSUME NEW y \in 1..(n - i)
        PROVE  /\ i + y - 1 \in i..(n - 1) /\ from(i)[y] = found[<<i, i + y - 1>>]
               /\ from(i)[y].sum \in Int /\ from(i)[y].sum > IntMin
    <3>1. i + y - 1 \in i..(n - 1)
      OBVIOUS
    <3>2. from(i)[y] = found[<<i, i + y - 1>>]
      BY Zenon
    <3>3. <<i, i + y - 1>> \in Ranges(n)
      BY <3>1, RangeIs
    <3> HIDE DEF from
    <3> QED
      BY <3>1, <3>2, <3>3
  <2> HIDE DEF from
  <2>3. /\ \E y \in 1..(n - i) : of(i) = from(i)[y]
        /\ \A y \in 1..(n - i) : of(i).sum >= from(i)[y].sum
    BY <2>1, <2>2, BestOfNothing
  <2>4. ASSUME NEW j \in i..(n - 1) PROVE of(i).sum >= found[<<i, j>>].sum
    <3>1. j - i + 1 \in 1..(n - i) /\ i + (j - i + 1) - 1 = j
      OBVIOUS
    <3>2. from(i)[j - i + 1] = found[<<i, j>>]
      BY <2>2, <3>1
    <3> QED
      BY <2>3, <3>1, <3>2
  <2>5. \E j \in i..(n - 1) : of(i) = found[<<i, j>>]
    BY <2>2, <2>3, Zenon
  <2> QED
    BY <2>4, <2>5
<1>2. BestOfRanges(n, found) = a
  BY Zenon DEF BestOfRanges
<1> HIDE DEF of
<1>3. ASSUME NEW x \in 1..n
      PROVE  /\ rows[x] = of(x - 1) /\ x - 1 \in 0..(n - 1)
             /\ \E r \in Ranges(n) : rows[x] = found[r]
             /\ rows[x].sum \in Int /\ rows[x].sum > IntMin
  <2>1. rows[x] = of(x - 1) /\ x - 1 \in 0..(n - 1)
    OBVIOUS
  <2> HIDE DEF rows
  <2>2. PICK j \in (x - 1)..(n - 1) : of(x - 1) = found[<<x - 1, j>>]
    BY <1>1, <2>1, Zenon
  <2>3. <<x - 1, j>> \in Ranges(n)
    BY <2>1, RangeIs
  <2>4. rows[x] = found[<<x - 1, j>>]
    BY <2>1, <2>2
  <2> QED
    BY <2>1, <2>3, <2>4
<1>4. DOMAIN rows = 1..n
  OBVIOUS
<1> HIDE DEF rows
<1>5. PICK x \in 1..n : a = rows[x]
  BY <1>3, <1>4, BestOfNothing
<1>6. \A z \in 1..n : a.sum >= rows[z].sum
  BY <1>3, <1>4, BestOfNothing
<1>7. \E r \in Ranges(n) : a = found[r]
  BY <1>3, <1>5
<1> HIDE DEF a
<1>8. ASSUME NEW r \in Ranges(n) PROVE a.sum >= found[r].sum
  <2>1. r[1] \in 0..(n - 1) /\ r[2] \in r[1]..(n - 1) /\ r = <<r[1], r[2]>>
    BY RangeIs
  <2>2. r[1] + 1 \in 1..n /\ (r[1] + 1) - 1 = r[1]
    BY <2>1
  <2>3. a.sum >= of(r[1]).sum /\ of(r[1]).sum \in Int
    BY <1>3, <1>6, <2>2
  <2>4. of(r[1]).sum >= found[r].sum
    BY <1>1, <2>1
  <2>5. a.sum \in Int /\ found[r].sum \in Int
    BY <1>7
  <2> QED
    BY <2>3, <2>4, <2>5
<1> QED
  BY <1>2, <1>7, <1>8

LEMMA Algorithm1Finds ==
  ASSUME NEW n \in Nat \ {0}, NEW A \in [0..(n - 1) -> Int],
         \A i \in 0..(n - 1) : \A j \in i..(n - 1) : SumOf(A, i, j) > IntMin
  PROVE  LET a == Algorithm1(A, n) IN GreatestRange(A, n, a.sum, a.i, a.j)
<1> DEFINE found == [r \in Ranges(n) |-> [sum |-> SumOf(A, r[1], r[2]), i |-> r[1], j |-> r[2]]]
           a == BestOfRanges(n, found)
<1>1. ASSUME NEW r \in Ranges(n)
      PROVE  /\ found[r].sum = SumOf(A, r[1], r[2]) /\ found[r].i = r[1] /\ found[r].j = r[2]
             /\ r[1] \in 0..(n - 1) /\ r[2] \in r[1]..(n - 1)
             /\ found[r].sum \in Int /\ found[r].sum > IntMin
  <2>1. found[r].sum = SumOf(A, r[1], r[2]) /\ found[r].i = r[1] /\ found[r].j = r[2]
    OBVIOUS
  <2> HIDE DEF found
  <2>2. r[1] \in 0..(n - 1) /\ r[2] \in r[1]..(n - 1)
    BY RangeIs
  <2>3. r[1] \in 0..n /\ r[2] \in -1..(n - 1)
    BY <2>2
  <2>4. SumOf(A, r[1], r[2]) \in Int
    BY <2>3, SumOfIs
  <2> QED
    BY <2>1, <2>2, <2>4
<1>2. Algorithm1(A, n) = a
  BY Zenon DEF Algorithm1
<1> HIDE DEF found
<1>3. PICK r \in Ranges(n) : a = found[r]
  BY <1>1, RangesFound
<1>4. \A q \in Ranges(n) : a.sum >= found[q].sum
  BY <1>1, RangesFound
<1> HIDE DEF a
<1>5. ASSUME NEW i \in 0..(n - 1), NEW j \in i..(n - 1) PROVE SumOf(A, i, j) <= a.sum
  <2>1. <<i, j>> \in Ranges(n) /\ <<i, j>>[1] = i /\ <<i, j>>[2] = j
    BY RangeIs
  <2>2. found[<<i, j>>].sum = SumOf(A, i, j) /\ found[<<i, j>>].sum \in Int /\ a.sum \in Int
    BY <1>1, <1>3, <2>1
  <2> QED
    BY <1>4, <2>1, <2>2
<1>6. GreatestRange(A, n, a.sum, a.i, a.j)
  BY <1>1, <1>3, <1>5 DEF GreatestRange
<1> QED
  BY <1>2, <1>6

----------------------------------------------------------------------------
(* The program that passes once *)

PassAt == [tmp : Int, i : Int, best : {Nothing} \cup [sum : Int, i : Int, j : Int]]
PassStart == [tmp |-> 0, i |-> 0, best |-> Nothing]
PassRun(A, n, r) == r[0] = PassStart /\ \A x \in 1..n : r[x] = Pass(A, r[x - 1], x - 1)
PassMade(A, n) == \E r : PassRun(A, n, r) /\ Algorithm3(A, n) = r[n].best
LEMMA PassesRun ==
  ASSUME NEW n \in Nat, NEW A \in [0..(n - 1) -> Int]
  PROVE  PassMade(A, n)
<1> DEFINE X == PassAt
           seq == [x \in 1..n |-> x]
           step == [q \in X \X (1..n) |-> Pass(A, q[1], q[2] - 1)]
           Eq(f) == f = [s \in SUBSET DOMAIN seq |->
                           IF s = {} THEN PassStart ELSE Pass(A, f[s \ {Max(s)}], seq[Max(s)] - 1)]
           G == CHOOSE f : Eq(f)
<1>1. PassStart \in X /\ DOMAIN seq = 1..n /\ \A m \in 1..n : seq[m] = m
  BY DEF PassStart, PassAt
<1>2. ASSUME NEW x \in X, NEW v \in 1..n PROVE step[x, v] = Pass(A, x, v - 1) /\ step[x, v] \in X
  <2>1. step[x, v] = Pass(A, x, v - 1)
    BY Zenon
  <2>2. x.tmp \in Int /\ x.i \in Int /\ v - 1 \in 0..(n - 1) /\ A[v - 1] \in Int
    BY DEF PassAt
  <2>3. ASSUME NEW t \in Int, NEW i \in Int
        PROVE  Better(x.best, [sum |-> t, i |-> i, j |-> v - 1]) \in {Nothing} \cup [sum : Int, i : Int, j : Int]
    BY DEF Better, PassAt
  <2>4. Pass(A, x, v - 1) \in X
    BY <2>2, <2>3 DEF Pass, PassAt
  <2> QED
    BY <2>1, <2>4, Zenon
<1> HIDE DEF step, seq, X
<1>3. PICK g \in [SUBSET (1..n) -> X] : \E r : LoopRun(X, PassStart, step, seq, n, g, r)
  <2>1. \A m \in 1..n : seq[m] \in 1..n
    BY <1>1, Zenon
  <2> QED
    BY <1>1, <1>2, <2>1, LoopsRun, Zenon
<1>4. PICK r : LoopRun(X, PassStart, step, seq, n, g, r)
  BY <1>3, Zenon
<1>5. Eq(g)
  <2>1. ASSUME NEW s \in SUBSET (1..n), s # {}
        PROVE  step[g[s \ {Max(s)}], seq[Max(s)]] = Pass(A, g[s \ {Max(s)}], seq[Max(s)] - 1)
    <3>1. Max(s) \in 1..n
      BY <2>1, GreatestIs, Zenon
    <3>2. s \ {Max(s)} \in SUBSET (1..n)
      OBVIOUS
    <3>3. g[s \ {Max(s)}] \in X
      BY <3>2
    <3> QED
      BY <1>1, <1>2, <3>1, <3>3, Zenon
  <2>2. \A s \in SUBSET (1..n) :
          g[s] = IF s = {} THEN PassStart ELSE Pass(A, g[s \ {Max(s)}], seq[Max(s)] - 1)
    BY <1>4, <2>1, Zenon DEF LoopRun, Folds, Step
  <2>3. g = [s \in SUBSET (1..n) |-> g[s]]
    OBVIOUS
  <2> QED
    BY <1>1, <2>2, <2>3, Zenon
<1>6. Eq(G)
  BY <1>5, Zenon
<1>7. Algorithm3(A, n) = G[DOMAIN seq].best
  BY Zenon DEF Algorithm3, FoldLeft, MapThenFoldSet, PassStart, seq
<1> HIDE DEF G
<1>8. G[1..n] = g[1..n]
  <2>1. {} \in SUBSET (1..n)
    OBVIOUS
  <2>2. \A s \in SUBSET (1..n) :
          /\ G[s] = (IF s = {} THEN PassStart ELSE Pass(A, G[s \ {Max(s)}], seq[Max(s)] - 1))
          /\ g[s] = (IF s = {} THEN PassStart ELSE Pass(A, g[s \ {Max(s)}], seq[Max(s)] - 1))
    BY <1>1, <1>5, <1>6, Zenon
  <2>3. Alike(G, g, n)
    BY <2>1, <2>2, Zenon DEF Alike
  <2> QED
    BY <2>3, SameFold, Zenon
<1>9. PassRun(A, n, r)
  <2>1. ASSUME NEW i \in 1..n PROVE r[i] = Pass(A, r[i - 1], i - 1)
    <3>1. i - 1 \in 0..n
      OBVIOUS
    <3>2. r[i - 1] \in X
      BY <1>4, <3>1, Zenon DEF LoopRun
    <3> QED
      BY <1>1, <1>2, <1>4, <3>2, Zenon DEF LoopRun
  <2> QED
    BY <1>4, <2>1, Zenon DEF LoopRun, PassRun
<1> QED
  BY <1>1, <1>4, <1>7, <1>8, <1>9, Zenon DEF LoopRun, PassMade

\* Before element m: the greatest sum that ends there, and the greatest one so far.
PassInv(b, A, m) ==
  /\ b.tmp \in Int
  /\ m > 0 => /\ b.i \in 0..(m - 1) /\ b.tmp = SumOf(A, b.i, m - 1)
              /\ \A x \in 0..(m - 1) : SumOf(A, x, m - 1) <= b.tmp
              /\ GreatestRange(A, m, b.best.sum, b.best.i, b.best.j)
LEMMA PassGoesOn ==
  ASSUME NEW n \in Nat, NEW A \in [0..(n - 1) -> Int],
         \A x \in 0..(n - 1) : \A y \in x..(n - 1) : SumOf(A, x, y) > IntMin,
         NEW m \in 0..(n - 1), NEW b, PassInv(b, A, m), m = 0 => b = PassStart
  PROVE  PassInv(Pass(A, b, m), A, m + 1)
<1> DEFINE c == Pass(A, b, m)
           new == [sum |-> c.tmp, i |-> c.i, j |-> m]
<1>1. ASSUME NEW x \in 0..n, NEW y \in -1..(n - 1)
      PROVE  /\ SumOf(A, x, y) \in Int /\ (x > y => SumOf(A, x, y) = 0)
             /\ (x <= y => SumOf(A, x, y) = SumOf(A, x, y - 1) + A[y])
  BY SumOfIs
<1>2. A[m] \in Int /\ b.tmp \in Int
  BY DEF PassInv
<1>3. SumOf(A, m, m) = A[m]
  <2>1. SumOf(A, m, m) = SumOf(A, m, m - 1) + A[m] /\ SumOf(A, m, m - 1) = 0
    BY <1>1
  <2> QED
    BY <1>2, <2>1
<1>4. /\ c.tmp = (IF b.tmp > 0 THEN b.tmp + A[m] ELSE A[m])
      /\ c.i = (IF b.tmp > 0 THEN b.i ELSE m) /\ c.best = Better(b.best, new)
  BY DEF Pass
<1> HIDE DEF c
<1>5. c.i \in 0..m /\ c.tmp = SumOf(A, c.i, m) /\ c.tmp \in Int
  <2>1. CASE b.tmp > 0
    <3>1. m > 0
      BY <2>1 DEF PassStart
    <3>2. b.i \in 0..(m - 1) /\ b.tmp = SumOf(A, b.i, m - 1)
      BY <3>1 DEF PassInv
    <3>3. SumOf(A, b.i, m) = SumOf(A, b.i, m - 1) + A[m]
      <4>1. b.i \in 0..n /\ m \in -1..(n - 1) /\ b.i <= m
        BY <3>2
      <4> QED
        BY <1>1, <4>1
    <3>4. c.i = b.i /\ c.tmp = b.tmp + A[m]
      BY <1>4, <2>1
    <3> QED
      BY <1>2, <3>2, <3>3, <3>4
  <2>2. CASE ~(b.tmp > 0)
    <3>1. c.i = m /\ c.tmp = A[m]
      BY <1>4, <2>2
    <3> QED
      BY <1>2, <1>3, <3>1
  <2> QED
    BY <2>1, <2>2
<1>6. ASSUME NEW x \in 0..m PROVE SumOf(A, x, m) <= c.tmp /\ SumOf(A, x, m) \in Int
  <2>1. CASE x = m
    <3>1. c.tmp >= A[m]
      BY <1>2, <1>4
    <3> QED
      BY <1>2, <1>3, <2>1, <3>1
  <2>2. CASE x # m
    <3>1. x \in 0..(m - 1) /\ m > 0
      BY <2>2
    <3>2. SumOf(A, x, m) = SumOf(A, x, m - 1) + A[m] /\ SumOf(A, x, m - 1) \in Int
      <4>1. x \in 0..n /\ m \in -1..(n - 1) /\ m - 1 \in -1..(n - 1) /\ x <= m
        BY <3>1
      <4> QED
        BY <1>1, <4>1
    <3>3. SumOf(A, x, m - 1) <= b.tmp
      BY <3>1 DEF PassInv
    <3>4. c.tmp >= b.tmp + A[m]
      BY <1>2, <1>4
    <3> QED
      BY <1>2, <1>5, <3>2, <3>3, <3>4
  <2> QED
    BY <2>1, <2>2
<1>7. ASSUME NEW x \in 0..m, NEW y \in x..m PROVE SumOf(A, x, y) \in Int
  <2>1. x \in 0..n /\ y \in -1..(n - 1)
    OBVIOUS
  <2> QED
    BY <1>1, <2>1
<1>8. new.sum = c.tmp /\ new.i = c.i /\ new.j = m
  OBVIOUS
<1> HIDE DEF new
<1>9. GreatestRange(A, m + 1, c.best.sum, c.best.i, c.best.j)
  <2>0. (m + 1) - 1 = m
    OBVIOUS
  <2>1. CASE m = 0
    <3>1. b.best = Nothing /\ Nothing.sum = IntMin /\ IntMin \in Int
      BY <2>1 DEF PassStart, Nothing, IntMin
    <3>2. c.tmp > IntMin
      BY <1>5, <2>1
    <3>3. c.best = new
      BY <1>4, <1>8, <3>1, <3>2 DEF Better
    <3>4. \A x \in 0..m : \A y \in x..m : SumOf(A, x, y) <= c.tmp
      BY <1>6, <2>1
    <3> QED
      BY <1>5, <1>8, <2>0, <2>1, <3>3, <3>4 DEF GreatestRange
  <2>2. CASE m > 0
    <3>1. /\ b.best.i \in 0..(m - 1) /\ b.best.j \in b.best.i..(m - 1)
          /\ b.best.sum = SumOf(A, b.best.i, b.best.j)
          /\ \A x \in 0..(m - 1) : \A y \in x..(m - 1) : SumOf(A, x, y) <= b.best.sum
      BY <2>2 DEF PassInv, GreatestRange
    <3>2. b.best.sum \in Int
      <4>1. b.best.i \in 0..m /\ b.best.j \in b.best.i..m
        BY <3>1
      <4> QED
        BY <1>7, <3>1, <4>1
    <3>3. ASSUME NEW x \in 0..m, NEW y \in x..m
          PROVE  SumOf(A, x, y) <= b.best.sum \/ SumOf(A, x, y) <= c.tmp
      <4>1. CASE y = m
        BY <1>6, <4>1
      <4>2. CASE y # m
        <5>1. x \in 0..(m - 1) /\ y \in x..(m - 1)
          BY <4>2
        <5> QED
          BY <3>1, <5>1
      <4> QED
        BY <4>1, <4>2
    <3>4. CASE b.best.sum < c.tmp
      <4>1. c.best = new
        BY <1>4, <1>8, <3>4 DEF Better
      <4>2. ASSUME NEW x \in 0..m, NEW y \in x..m PROVE SumOf(A, x, y) <= c.tmp
        BY <1>5, <1>7, <3>2, <3>3, <3>4
      <4> QED
        BY <1>5, <1>8, <2>0, <4>1, <4>2 DEF GreatestRange
    <3>5. CASE ~(b.best.sum < c.tmp)
      <4>1. c.best = b.best
        BY <1>4, <1>8, <3>5 DEF Better
      <4>2. ASSUME NEW x \in 0..m, NEW y \in x..m PROVE SumOf(A, x, y) <= b.best.sum
        BY <1>5, <1>7, <3>2, <3>3, <3>5
      <4>3. b.best.i \in 0..m /\ b.best.j \in b.best.i..m
        BY <3>1
      <4> QED
        BY <2>0, <3>1, <4>1, <4>2, <4>3 DEF GreatestRange
    <3> QED
      BY <3>4, <3>5
  <2> QED
    BY <2>1, <2>2
<1>10. (m + 1) - 1 = m /\ m + 1 > 0
  OBVIOUS
<1>11. PassInv(c, A, m + 1)
  BY <1>5, <1>6, <1>9, <1>10 DEF PassInv
<1> QED
  BY <1>11 DEF c

LEMMA Algorithm3Finds ==
  ASSUME NEW n \in Nat \ {0}, NEW A \in [0..(n - 1) -> Int],
         \A x \in 0..(n - 1) : \A y \in x..(n - 1) : SumOf(A, x, y) > IntMin
  PROVE  LET a == Algorithm3(A, n) IN GreatestRange(A, n, a.sum, a.i, a.j)
<1>1. PICK r : PassRun(A, n, r) /\ Algorithm3(A, n) = r[n].best
  BY PassesRun, Zenon DEF PassMade
<1> DEFINE T == {m \in Nat : m <= n => PassInv(r[m], A, m)}
<1>2. 0 \in T
  BY <1>1 DEF PassRun, PassStart, PassInv
<1>3. ASSUME NEW m \in Nat, m \in T PROVE m + 1 \in T
  <2> SUFFICES ASSUME m + 1 <= n PROVE PassInv(r[m + 1], A, m + 1)
    OBVIOUS
  <2>1. m \in 0..(n - 1) /\ m + 1 \in 1..n /\ (m + 1) - 1 = m /\ m <= n
    OBVIOUS
  <2>2. PassInv(r[m], A, m)
    BY <1>3, <2>1
  <2>3. m = 0 => r[m] = PassStart
    BY <1>1 DEF PassRun
  <2>4. r[m + 1] = Pass(A, r[m], m)
    BY <1>1, <2>1, Zenon DEF PassRun
  <2> QED
    BY <2>1, <2>2, <2>3, <2>4, PassGoesOn
<1>4. n \in T
  <2> HIDE DEF T
  <2> QED
    BY <1>2, <1>3, Induct, Zenon
<1>5. PassInv(r[n], A, n)
  BY <1>4
<1> QED
  BY <1>1, <1>5 DEF PassInv

----------------------------------------------------------------------------
(* The program that halves *)

\* The recursive function inside Recur exists.
Halved(g, A, c) ==
  LET f == c[1]
      mid == c[2] \div 2
  IN CASE c[2] = 0 -> [sum |-> 0, at |-> <<>>]
       [] c[2] = 1 -> [sum |-> A[f], at |-> <<>>]
       [] OTHER -> Greatest(g[<<f, mid>>], g[<<f + mid, c[2] - mid>>], Centre(A, f, c[2]))
Recurs(g, A, n) == g = [c \in Nat \X (0..n) |-> Halved(g, A, c)]
LEMMA HalvesOf ==
  ASSUME NEW len \in Nat, len > 1
  PROVE  len \div 2 \in 1..(len - 1) /\ len - len \div 2 \in 1..(len - 1)
OBVIOUS
LEMMA RecursExists ==
  ASSUME NEW n \in Nat, NEW A
  PROVE  \E g : Recurs(g, A, n)
<1> DEFINE S == {m \in Nat : \E g : Recurs(g, A, m)}
<1>1. 0 \in S
  <2> DEFINE g == [c \in Nat \X (0..0) |-> Halved(A, A, c)]
  <2>1. ASSUME NEW c \in Nat \X (0..0) PROVE Halved(A, A, c) = Halved(g, A, c)
    <3>1. c[2] = 0
      OBVIOUS
    <3> QED
      BY <3>1 DEF Halved
  <2> DEFINE k == [c \in Nat \X (0..0) |-> Halved(g, A, c)]
  <2>2. g = k
    BY <2>1
  <2>3. Recurs(g, A, 0)
    BY <2>2, Zenon DEF Recurs
  <2> QED
    BY <2>3
<1>2. ASSUME NEW m \in Nat, m \in S PROVE m + 1 \in S
  <2>1. PICK g : Recurs(g, A, m)
    BY <1>2
  <2> DEFINE h == [c \in Nat \X (0..(m + 1)) |-> Halved(g, A, c)]
  <2>2. ASSUME NEW c \in Nat \X (0..m) PROVE h[c] = g[c]
    <3>1. c \in Nat \X (0..(m + 1))
      OBVIOUS
    <3>2. g[c] = Halved(g, A, c)
      BY <2>1, Zenon DEF Recurs
    <3> QED
      BY <3>1, <3>2, Zenon
  <2> HIDE DEF h
  <2>3. ASSUME NEW c \in Nat \X (0..(m + 1)) PROVE Halved(g, A, c) = Halved(h, A, c)
    <3>1. CASE c[2] = 0
      BY <3>1 DEF Halved
    <3>3. CASE c[2] = 1
      BY <3>3 DEF Halved
    <3>2. CASE c[2] # 0 /\ c[2] # 1
      <4> DEFINE mid == c[2] \div 2
      <4>1. c[1] \in Nat /\ c[2] \in Nat /\ c[2] > 1 /\ c[2] <= m + 1
        BY <3>2
      <4>2. mid \in 1..(c[2] - 1) /\ c[2] - mid \in 1..(c[2] - 1)
        BY <4>1, HalvesOf
      <4> HIDE DEF mid
      <4>3. <<c[1], mid>> \in Nat \X (0..m) /\ <<c[1] + mid, c[2] - mid>> \in Nat \X (0..m)
        BY <4>1, <4>2
      <4>4. h[<<c[1], mid>>] = g[<<c[1], mid>>] /\ h[<<c[1] + mid, c[2] - mid>>] = g[<<c[1] + mid, c[2] - mid>>]
        BY <2>2, <4>3, Zenon
      <4> QED
        BY <4>4, Zenon DEF Halved, mid
    <3> QED
      BY <3>1, <3>2, <3>3
  <2>4. h = [c \in Nat \X (0..(m + 1)) |-> Halved(h, A, c)]
    <3> DEFINE k == [c \in Nat \X (0..(m + 1)) |-> Halved(h, A, c)]
               j == [c \in Nat \X (0..(m + 1)) |-> Halved(g, A, c)]
    <3>1. j = k
      BY <2>3
    <3>2. h = j
      BY Zenon DEF h
    <3> QED
      BY <3>1, <3>2, Zenon
  <2>5. Recurs(h, A, m + 1)
    BY <2>4, Zenon DEF Recurs
  <2> QED
    BY <2>5
<1>3. n \in S
  <2> HIDE DEF S
  <2> QED
    BY <1>1, <1>2, Induct, Zenon
<1> QED
  BY <1>3

LEMMA RecurIs ==
  ASSUME NEW n \in Nat, NEW A
  PROVE  \A c \in Nat \X (0..n) : Recur(A, n)[c] = Halved(Recur(A, n), A, c)
<1> DEFINE R == CHOOSE g : Recurs(g, A, n)
<1>1. Recurs(R, A, n)
  BY RecursExists, Zenon
<1>2. Recur(A, n) = R
  BY Zenon DEF Recur, Recurs, Halved
<1>3. Recurs(Recur(A, n), A, n)
  BY <1>1, <1>2, Zenon
<1> QED
  BY <1>3, Zenon DEF Recurs

\* The sum of a range is that of its two parts.
LEMMA SumSplits ==
  ASSUME NEW n \in Nat, NEW A \in [0..(n - 1) -> Int],
         NEW i \in 0..(n - 1), NEW m \in i..(n - 1), NEW j \in m..(n - 1)
  PROVE  SumOf(A, i, j) = SumOf(A, i, m) + SumOf(A, m + 1, j)
<1> DEFINE U == 0..(n - 1)
<1>1. IsFiniteSet(U) /\ \A x \in U : A[x] \in Int
  BY FS_Interval
<1>2. /\ i..m \in SUBSET U /\ (m + 1)..j \in SUBSET U /\ (i..m) \cap ((m + 1)..j) = {}
      /\ i..j = (i..m) \cup ((m + 1)..j)
  OBVIOUS
<1> HIDE DEF U
<1> DEFINE V == i..m
           W == (m + 1)..j
<1>2a. V \in SUBSET U /\ W \in SUBSET U /\ V \cap W = {}
  BY <1>2
<1> HIDE DEF V, W
<1>3. SumFunctionOnSet(A, V \cup W) = SumFunctionOnSet(A, V) + SumFunctionOnSet(A, W)
  BY <1>1, <1>2a, SumUnion
<1> QED
  BY <1>2, <1>3, Zenon DEF SumOf, V, W

\* What there is of a part: no less than any element, no more than some range.
Bounded(s, A, f, l) ==
  /\ s \in Int
  /\ \A x \in f..l : A[x] <= s
  /\ \E i \in f..l : \E j \in i..l : s <= SumOf(A, i, j)
LEMMA CentreIs ==
  ASSUME NEW n \in Nat, NEW A \in [0..(n - 1) -> Int], LeastCentre \in Int, LeastCentre <= 0,
         \A x \in 0..(n - 1) : \A y \in x..(n - 1) : SumOf(A, x, y) > LeastCentre,
         NEW f \in Nat, NEW len \in Nat, len > 1, f + len <= n
  PROVE  /\ Centre(A, f, len).sum \in Int
         /\ \E i \in f..(f + len - 1) : \E j \in i..(f + len - 1) : Centre(A, f, len).sum <= SumOf(A, i, j)
<1> DEFINE mid == f + len \div 2
           least == [sum |-> LeastCentre, end |-> f]
           lsums == [x \in 1..(mid - f + 1) |-> [sum |-> SumOf(A, mid + 1 - x, mid), end |-> mid + 1 - x]]
           rsums == [x \in 1..(f + len - mid - 1) |-> [sum |-> SumOf(A, mid + 1, mid + x), end |-> mid + x]]
           lmax == BestOf(least, lsums)
           rmax == BestOf(least, rsums)
<1>1. Centre(A, f, len).sum = lmax.sum + rmax.sum
  <2>1. Centre(A, f, len) = [sum |-> lmax.sum + rmax.sum, at |-> <<lmax.end, rmax.end>>]
    BY Zenon DEF Centre
  <2> HIDE DEF lmax, rmax
  <2> QED
    BY <2>1
<1>2. mid \in f..(f + len - 1) /\ mid > f /\ mid \in Nat
  <2>1. len \div 2 \in 1..(len - 1)
    BY HalvesOf
  <2> QED
    BY <2>1
<1> HIDE DEF mid
<1>3. ASSUME NEW x \in 1..(mid - f + 1)
      PROVE  /\ mid + 1 - x \in f..mid /\ lsums[x].sum = SumOf(A, mid + 1 - x, mid)
             /\ SumOf(A, mid + 1 - x, mid) \in Int /\ SumOf(A, mid + 1 - x, mid) > LeastCentre
  <2>1. mid + 1 - x \in f..mid /\ mid + 1 - x \in 0..(n - 1) /\ mid \in (mid + 1 - x)..(n - 1)
    BY <1>2
  <2>2. mid + 1 - x \in 0..n /\ mid \in -1..(n - 1)
    BY <2>1
  <2>3. SumOf(A, mid + 1 - x, mid) \in Int
    BY <2>2, SumOfIs
  <2> QED
    BY <2>1, <2>3
<1>4. ASSUME NEW x \in 1..(f + len - mid - 1)
      PROVE  /\ mid + x \in (mid + 1)..(f + len - 1) /\ rsums[x].sum = SumOf(A, mid + 1, mid + x)
             /\ SumOf(A, mid + 1, mid + x) \in Int
  <2>1. mid + x \in (mid + 1)..(f + len - 1)
    BY <1>2
  <2>2. mid + 1 \in 0..n /\ mid + x \in -1..(n - 1)
    BY <1>2, <2>1
  <2>3. SumOf(A, mid + 1, mid + x) \in Int
    BY <2>2, SumOfIs
  <2> QED
    BY <2>1, <2>3
<1>5. /\ mid - f + 1 \in Nat \ {0} /\ DOMAIN lsums = 1..(mid - f + 1)
      /\ f + len - mid - 1 \in Nat /\ DOMAIN rsums = 1..(f + len - mid - 1)
      /\ least.sum = LeastCentre
  BY <1>2
<1> HIDE DEF lsums, rsums, least
<1>6. lmax.sum \in Int /\ FirstBest(lmax, least, lsums, mid - f + 1)
  BY <1>3, <1>5, BestOfIs
<1>7. rmax.sum \in Int /\ FirstBest(rmax, least, rsums, f + len - mid - 1)
  BY <1>4, <1>5, BestOfIs
<1> HIDE DEF lmax, rmax
<1>8. PICK x \in 1..(mid - f + 1) : lmax = lsums[x]
  <2>1. 1 \in 1..(mid - f + 1)
    BY <1>5
  <2>2. lmax.sum >= lsums[1].sum /\ lsums[1].sum > LeastCentre /\ lsums[1].sum \in Int
    BY <1>3, <1>6, <2>1 DEF FirstBest
  <2>3. lmax # least
    BY <1>5, <1>6, <2>2
  <2> QED
    BY <1>6, <2>3 DEF FirstBest
<1>9. lmax.sum = SumOf(A, mid + 1 - x, mid) /\ mid + 1 - x \in f..mid
  BY <1>3, <1>8
<1>10. CASE rmax = least
  <2>1. lmax.sum + rmax.sum <= SumOf(A, mid + 1 - x, mid)
    BY <1>5, <1>6, <1>9, <1>10
  <2>2. mid + 1 - x \in f..(f + len - 1) /\ mid \in (mid + 1 - x)..(f + len - 1)
    BY <1>2, <1>9
  <2>3. \E i \in f..(f + len - 1) : \E j \in i..(f + len - 1) : lmax.sum + rmax.sum <= SumOf(A, i, j)
    BY <2>1, <2>2, Zenon
  <2> QED
    BY <1>1, <1>6, <1>7, <2>3
<1>11. CASE rmax # least
  <2>1. PICK y \in 1..(f + len - mid - 1) : rmax = rsums[y]
    BY <1>7, <1>11 DEF FirstBest
  <2>2. rmax.sum = SumOf(A, mid + 1, mid + y) /\ mid + y \in (mid + 1)..(f + len - 1)
    BY <1>4, <2>1
  <2>3. /\ mid + 1 - x \in 0..(n - 1) /\ mid \in (mid + 1 - x)..(n - 1) /\ mid + y \in mid..(n - 1)
        /\ mid + 1 - x \in f..(f + len - 1) /\ mid + y \in (mid + 1 - x)..(f + len - 1)
    BY <1>2, <1>9, <2>2
  <2>4. SumOf(A, mid + 1 - x, mid + y) = SumOf(A, mid + 1 - x, mid) + SumOf(A, mid + 1, mid + y)
    BY <2>3, SumSplits
  <2>5. lmax.sum + rmax.sum <= SumOf(A, mid + 1 - x, mid + y)
    BY <1>6, <1>7, <1>9, <2>2, <2>4
  <2>6. \E i \in f..(f + len - 1) : \E j \in i..(f + len - 1) : lmax.sum + rmax.sum <= SumOf(A, i, j)
    BY <2>3, <2>5, Zenon
  <2> QED
    BY <1>1, <1>6, <1>7, <2>6
<1> QED
  BY <1>10, <1>11

\* Of the three the greatest is taken.
LEMMA GreatestTakes ==
  ASSUME NEW left, NEW right, NEW centre, left.sum \in Int, right.sum \in Int, centre.sum \in Int
  PROVE  LET s == Greatest(left, right, centre).sum
         IN s \in {left.sum, right.sum, centre.sum} /\ s >= left.sum /\ s >= right.sum
<1>1. CASE left.sum >= right.sum /\ left.sum >= centre.sum
  <2>1. Greatest(left, right, centre).sum = left.sum
    BY <1>1 DEF Greatest
  <2> QED
    BY <1>1, <2>1
<1>2. CASE right.sum > left.sum /\ right.sum > centre.sum
  <2>1. Greatest(left, right, centre).sum = right.sum
    BY <1>2 DEF Greatest
  <2> QED
    BY <1>2, <2>1
<1>3. CASE ~(left.sum >= right.sum /\ left.sum >= centre.sum) /\ ~(right.sum > left.sum /\ right.sum > centre.sum)
  <2>1. Greatest(left, right, centre).sum = centre.sum
    BY <1>3, Zenon DEF Greatest
  <2> QED
    BY <1>3, <2>1
<1> QED
  BY <1>1, <1>2, <1>3

LEMMA Algorithm2Finds ==
  ASSUME NEW n \in Nat \ {0}, NEW A \in [0..(n - 1) -> Int], LeastCentre \in Int, LeastCentre <= 0,
         \A x \in 0..(n - 1) : \A y \in x..(n - 1) : SumOf(A, x, y) > LeastCentre
  PROVE  Bounded(Algorithm2(A, n).sum, A, 0, n - 1)
<1> DEFINE R == Recur(A, n)
           T == {m \in Nat : \A len \in 1..m : \A f \in Nat :
                   f + len <= n => Bounded(R[<<f, len>>].sum, A, f, f + len - 1)}
<1>1. \A c \in Nat \X (0..n) : R[c] = Halved(R, A, c)
  BY RecurIs
<1> HIDE DEF R
<1>2. 0 \in T
  OBVIOUS
<1>3. ASSUME NEW m \in Nat, m \in T PROVE m + 1 \in T
  <2> SUFFICES ASSUME NEW f \in Nat, f + (m + 1) <= n
               PROVE  Bounded(R[<<f, m + 1>>].sum, A, f, f + (m + 1) - 1)
    <3>1. \A len \in 1..(m + 1) : len \in 1..m \/ len = m + 1
      OBVIOUS
    <3>2. ASSUME NEW len \in 1..(m + 1), NEW f \in Nat, f + len <= n
          PROVE  Bounded(R[<<f, len>>].sum, A, f, f + len - 1)
      <4>1. CASE len \in 1..m
        BY <1>3, <3>2, <4>1
      <4>2. CASE len = m + 1
        BY <3>2, <4>2
      <4> QED
        BY <3>1, <4>1, <4>2
    <3> QED
      BY <3>2
  <2>1. <<f, m + 1>> \in Nat \X (0..n)
    OBVIOUS
  <2>2. R[<<f, m + 1>>] = Halved(R, A, <<f, m + 1>>)
    BY <1>1, <2>1
  <2>3. CASE m = 0
    <3>1. R[<<f, m + 1>>].sum = A[f]
      BY <2>2, <2>3 DEF Halved
    <3>2. f \in 0..(n - 1) /\ f + (m + 1) - 1 = f /\ A[f] \in Int /\ f \in f..f
      BY <2>3
    <3>3. SumOf(A, f, f) = A[f]
      <4>1. f \in 0..n /\ f \in -1..(n - 1) /\ f - 1 \in -1..(n - 1) /\ f > f - 1
        BY <3>2
      <4>2. SumOf(A, f, f - 1) = 0
        BY <4>1, SumOfIs
      <4>3. f <= f
        BY <3>2
      <4>4. SumOf(A, f, f) = SumOf(A, f, f - 1) + A[f]
        <5>1. n \in Nat
          OBVIOUS
        <5> QED
          BY <4>1, <4>3, <5>1, SumOfIs, Zenon
      <4> QED
        BY <3>2, <4>2, <4>4
    <3>4. \A x \in f..f : x = f
      BY <3>2
    <3> QED
      BY <3>1, <3>2, <3>3, <3>4 DEF Bounded
  <2>4. CASE m # 0
    <3> DEFINE len == m + 1
               mid == len \div 2
               left == R[<<f, mid>>]
               right == R[<<f + mid, len - mid>>]
               centre == Centre(A, f, len)
    <3>0. len \in Nat /\ len > 1 /\ f + len <= n /\ len = m + 1
      BY <2>4
    <3>1. R[<<f, len>>] = Greatest(left, right, centre)
      <4>1. m + 1 # 0 /\ m + 1 # 1
        BY <2>4
      <4> QED
        BY <2>2, <4>1 DEF Halved
    <3>2. mid \in 1..(len - 1) /\ len - mid \in 1..(len - 1)
      BY <3>0, HalvesOf
    <3> HIDE DEF mid, len
    <3>3. Bounded(left.sum, A, f, f + mid - 1)
      <4>1. mid \in 1..m /\ f + mid <= n
        BY <3>0, <3>2
      <4> QED
        BY <1>3, <4>1
    <3>4. Bounded(right.sum, A, f + mid, f + len - 1)
      <4>1. len - mid \in 1..m /\ f + mid \in Nat /\ (f + mid) + (len - mid) <= n /\ (f + mid) + (len - mid) - 1 = f + len - 1
        BY <3>0, <3>2
      <4>2. Bounded(R[<<f + mid, len - mid>>].sum, A, f + mid, (f + mid) + (len - mid) - 1)
        BY <1>3, <4>1
      <4> QED
        BY <4>1, <4>2
    <3>5. centre.sum \in Int /\ \E i \in f..(f + len - 1) : \E j \in i..(f + len - 1) : centre.sum <= SumOf(A, i, j)
      BY <3>0, CentreIs
    <3> HIDE DEF left, right, centre
    <3> DEFINE s == R[<<f, len>>].sum
    <3>6. s \in {left.sum, right.sum, centre.sum} /\ s >= left.sum /\ s >= right.sum /\ s \in Int
          /\ left.sum \in Int /\ right.sum \in Int
      <4>1. left.sum \in Int /\ right.sum \in Int
        BY <3>3, <3>4 DEF Bounded
      <4> QED
        BY <3>1, <3>5, <4>1, GreatestTakes
    <3> HIDE DEF s
    <3>7. ASSUME NEW x \in f..(f + len - 1) PROVE A[x] <= s
      <4>0. A[x] \in Int
        BY <3>0
      <4>1. CASE x \in f..(f + mid - 1)
        <5>1. A[x] <= left.sum
          BY <3>3, <4>1 DEF Bounded
        <5> QED
          BY <3>6, <4>0, <5>1
      <4>2. CASE x \in (f + mid)..(f + len - 1)
        <5>1. A[x] <= right.sum
          BY <3>4, <4>2 DEF Bounded
        <5> QED
          BY <3>6, <4>0, <5>1
      <4>3. x \in f..(f + mid - 1) \/ x \in (f + mid)..(f + len - 1)
        BY <3>0, <3>2
      <4> QED
        BY <4>1, <4>2, <4>3
    <3>8. \E i \in f..(f + len - 1) : \E j \in i..(f + len - 1) : s <= SumOf(A, i, j)
      <4>1. CASE s = left.sum
        <5>1. PICK i \in f..(f + mid - 1) : \E j \in i..(f + mid - 1) : s <= SumOf(A, i, j)
          BY <3>3, <4>1 DEF Bounded
        <5>2. PICK j \in i..(f + mid - 1) : s <= SumOf(A, i, j)
          BY <5>1
        <5>3. i \in f..(f + len - 1) /\ j \in i..(f + len - 1)
          BY <3>0, <3>2
        <5> QED
          BY <5>2, <5>3
      <4>2. CASE s = right.sum
        <5>1. PICK i \in (f + mid)..(f + len - 1) : \E j \in i..(f + len - 1) : s <= SumOf(A, i, j)
          BY <3>4, <4>2 DEF Bounded
        <5>2. i \in f..(f + len - 1)
          BY <3>0, <3>2
        <5> QED
          BY <5>1, <5>2
      <4>3. CASE s = centre.sum
        BY <3>5, <4>3
      <4> QED
        BY <3>6, <4>1, <4>2, <4>3
    <3>9. Bounded(s, A, f, f + len - 1)
      BY <3>6, <3>7, <3>8 DEF Bounded
    <3> QED
      BY <3>9 DEF s, len
  <2> QED
    BY <2>3, <2>4
<1>4. n \in T
  <2> HIDE DEF T
  <2> QED
    BY <1>2, <1>3, Induct, Zenon
<1>5. Bounded(R[<<0, n>>].sum, A, 0, 0 + n - 1)
  <2>1. n \in 1..n /\ 0 \in Nat /\ 0 + n <= n
    OBVIOUS
  <2> QED
    BY <1>4, <2>1
<1>6. 0 + n - 1 = n - 1
  OBVIOUS
<1> QED
  BY <1>5, <1>6 DEF Algorithm2, R

----------------------------------------------------------------------------
(* The pass over the sums of rows *)

NegAt == [local : Int, start : Int, best : {Nothing} \cup [sum : Int, s : Int, e : Int]]
NegStart == [local |-> 0, start |-> 0, best |-> Nothing]
NegRun(A, n, r) == r[0] = NegStart /\ \A x \in 1..n : r[x] = PassNegative(A, r[x - 1], x - 1)
GreatestElement(A, n) ==
  BestOf([sum |-> A[0], s |-> 0, e |-> 0], [x \in 1..(n - 1) |-> [sum |-> A[x], s |-> x, e |-> x]])
NegMade(A, n) ==
  \E r : /\ NegRun(A, n, r) /\ \A x \in 0..n : r[x] \in NegAt
        /\ Algorithm5_sub(A, n) = IF r[n].best # Nothing THEN r[n].best ELSE GreatestElement(A, n)
LEMMA NegativePassesRun ==
  ASSUME NEW n \in Nat, NEW A \in [0..(n - 1) -> Int]
  PROVE  NegMade(A, n)
<1> DEFINE X == NegAt
           seq == [x \in 1..n |-> x]
           step == [q \in X \X (1..n) |-> PassNegative(A, q[1], q[2] - 1)]
           Eq(f) == f = [s \in SUBSET DOMAIN seq |->
                           IF s = {} THEN NegStart ELSE PassNegative(A, f[s \ {Max(s)}], seq[Max(s)] - 1)]
           G == CHOOSE f : Eq(f)
<1>1. NegStart \in X /\ DOMAIN seq = 1..n /\ \A m \in 1..n : seq[m] = m
  BY DEF NegStart, NegAt
<1>2. ASSUME NEW x \in X, NEW v \in 1..n PROVE step[x, v] = PassNegative(A, x, v - 1) /\ step[x, v] \in X
  <2>1. step[x, v] = PassNegative(A, x, v - 1)
    BY Zenon
  <2>2. x.local \in Int /\ x.start \in Int /\ v - 1 \in 0..(n - 1) /\ A[v - 1] \in Int
    BY DEF NegAt
  <2>3. ASSUME NEW t \in Int
        PROVE  Better(x.best, [sum |-> t, s |-> x.start, e |-> v - 1]) \in {Nothing} \cup [sum : Int, s : Int, e : Int]
    BY <2>2 DEF Better, NegAt
  <2>4. PassNegative(A, x, v - 1) \in X
    <3> DEFINE t == x.local + A[v - 1]
    <3>1. t \in Int /\ (v - 1) + 1 \in Int
      BY <2>2
    <3>2. CASE t < 0
      <4>1. PassNegative(A, x, v - 1) = [x EXCEPT !.local = 0, !.start = (v - 1) + 1]
        BY <3>2 DEF PassNegative
      <4>2. x.best \in {Nothing} \cup [sum : Int, s : Int, e : Int] /\ 0 \in Int
        BY DEF NegAt
      <4> HIDE DEF t
      <4>3. [[x EXCEPT !.local = 0] EXCEPT !.start = (v - 1) + 1] \in NegAt
        BY <3>1, <4>2 DEF NegAt
      <4> QED
        BY <4>1, <4>3
    <3>3. CASE ~(t < 0)
      <4> DEFINE z == Better(x.best, [sum |-> t, s |-> x.start, e |-> v - 1])
      <4>1. PassNegative(A, x, v - 1) = [x EXCEPT !.local = t, !.best = z]
        BY <3>3 DEF PassNegative
      <4>2. z \in {Nothing} \cup [sum : Int, s : Int, e : Int]
        BY <2>3, <3>1
      <4> HIDE DEF t, z
      <4> QED
        BY <3>1, <4>1, <4>2 DEF NegAt
    <3> QED
      BY <3>2, <3>3
  <2> QED
    BY <2>1, <2>4, Zenon
<1> HIDE DEF step, seq, X
<1>3. PICK g \in [SUBSET (1..n) -> X] : \E r : LoopRun(X, NegStart, step, seq, n, g, r)
  <2>1. \A m \in 1..n : seq[m] \in 1..n
    BY <1>1, Zenon
  <2> QED
    BY <1>1, <1>2, <2>1, LoopsRun, Zenon
<1>4. PICK r : LoopRun(X, NegStart, step, seq, n, g, r)
  BY <1>3, Zenon
<1>5. Eq(g)
  <2>1. ASSUME NEW s \in SUBSET (1..n), s # {}
        PROVE  step[g[s \ {Max(s)}], seq[Max(s)]] = PassNegative(A, g[s \ {Max(s)}], seq[Max(s)] - 1)
    <3>1. Max(s) \in 1..n
      BY <2>1, GreatestIs, Zenon
    <3>2. s \ {Max(s)} \in SUBSET (1..n)
      OBVIOUS
    <3>3. g[s \ {Max(s)}] \in X
      BY <3>2
    <3> QED
      BY <1>1, <1>2, <3>1, <3>3, Zenon
  <2>2. \A s \in SUBSET (1..n) :
          g[s] = IF s = {} THEN NegStart ELSE PassNegative(A, g[s \ {Max(s)}], seq[Max(s)] - 1)
    BY <1>4, <2>1, Zenon DEF LoopRun, Folds, Step
  <2>3. g = [s \in SUBSET (1..n) |-> g[s]]
    OBVIOUS
  <2> QED
    BY <1>1, <2>2, <2>3, Zenon
<1>6. Eq(G)
  BY <1>5, Zenon
<1>7. Algorithm5_sub(A, n) = IF G[DOMAIN seq].best # Nothing THEN G[DOMAIN seq].best ELSE GreatestElement(A, n)
  BY Zenon DEF Algorithm5_sub, GreatestElement, FoldLeft, MapThenFoldSet, NegStart, seq
<1> HIDE DEF G
<1>8. G[1..n] = g[1..n]
  <2>1. {} \in SUBSET (1..n)
    OBVIOUS
  <2>2. \A s \in SUBSET (1..n) :
          /\ G[s] = (IF s = {} THEN NegStart ELSE PassNegative(A, G[s \ {Max(s)}], seq[Max(s)] - 1))
          /\ g[s] = (IF s = {} THEN NegStart ELSE PassNegative(A, g[s \ {Max(s)}], seq[Max(s)] - 1))
    BY <1>1, <1>5, <1>6, Zenon
  <2>3. Alike(G, g, n)
    BY <2>1, <2>2, Zenon DEF Alike
  <2> QED
    BY <2>3, SameFold, Zenon
<1>9. NegRun(A, n, r)
  <2>1. ASSUME NEW i \in 1..n PROVE r[i] = PassNegative(A, r[i - 1], i - 1)
    <3>1. i - 1 \in 0..n
      OBVIOUS
    <3>2. r[i - 1] \in X
      BY <1>4, <3>1, Zenon DEF LoopRun
    <3> QED
      BY <1>1, <1>2, <1>4, <3>2, Zenon DEF LoopRun
  <2> QED
    BY <1>4, <2>1, Zenon DEF LoopRun, NegRun
<1>10. \A x \in 0..n : r[x] \in NegAt
  BY <1>4, Zenon DEF LoopRun, X
<1>11. Algorithm5_sub(A, n) = IF r[n].best # Nothing THEN r[n].best ELSE GreatestElement(A, n)
  <2>1. G[DOMAIN seq] = r[n]
    BY <1>1, <1>4, <1>8, Zenon DEF LoopRun
  <2> QED
    BY <1>7, <2>1, Zenon
<1> QED
  BY <1>9, <1>10, <1>11, Zenon DEF NegMade

\* Before element m: the greatest sum that ends there, of no elements perhaps, and the
\* greatest one so far that is not negative.
NegInv(b, A, m) ==
  /\ b \in NegAt /\ b.local >= 0 /\ b.start \in 0..m /\ b.local = SumOf(A, b.start, m - 1)
  /\ \A x \in 0..m : SumOf(A, x, m - 1) <= b.local
  /\ IF b.best = Nothing THEN \A x \in 0..(m - 1) : \A y \in x..(m - 1) : SumOf(A, x, y) < 0
     ELSE b.best.sum >= 0 /\ GreatestRange(A, m, b.best.sum, b.best.s, b.best.e)
LEMMA NegGoesOn ==
  ASSUME NEW n \in Nat, NEW A \in [0..(n - 1) -> Int], NEW m \in 0..(n - 1), NEW b, NegInv(b, A, m)
  PROVE  LET c == PassNegative(A, b, m) IN c \in NegAt => NegInv(c, A, m + 1)
<1> DEFINE c == PassNegative(A, b, m)
           local == b.local + A[m]
           new == [sum |-> local, s |-> b.start, e |-> m]
<1> SUFFICES ASSUME c \in NegAt PROVE NegInv(c, A, m + 1)
  OBVIOUS
<1>1. ASSUME NEW x \in 0..n, NEW y \in -1..(n - 1)
      PROVE  /\ SumOf(A, x, y) \in Int /\ (x > y => SumOf(A, x, y) = 0)
             /\ (x <= y => SumOf(A, x, y) = SumOf(A, x, y - 1) + A[y])
  BY SumOfIs
<1>2. A[m] \in Int /\ b.local \in Int /\ b.start \in 0..m /\ local \in Int /\ (m + 1) - 1 = m
  BY DEF NegInv, NegAt
<1>3. ASSUME NEW x \in 0..m PROVE SumOf(A, x, m) <= local /\ SumOf(A, x, m) \in Int
  <2>1. x \in 0..n /\ m \in -1..(n - 1) /\ m - 1 \in -1..(n - 1) /\ x <= m
    OBVIOUS
  <2>2. SumOf(A, x, m) = SumOf(A, x, m - 1) + A[m] /\ SumOf(A, x, m - 1) \in Int /\ SumOf(A, x, m) \in Int
    BY <1>1, <2>1
  <2>3. SumOf(A, x, m - 1) <= b.local
    BY DEF NegInv
  <2> QED
    BY <1>2, <2>2, <2>3
<1>4. local = SumOf(A, b.start, m)
  <2>1. b.start \in 0..n /\ m \in -1..(n - 1) /\ m - 1 \in -1..(n - 1) /\ b.start <= m
    BY <1>2
  <2>2. SumOf(A, b.start, m) = SumOf(A, b.start, m - 1) + A[m]
    BY <1>1, <2>1
  <2> QED
    BY <2>2 DEF NegInv
<1>5. ASSUME NEW x \in 0..m, NEW y \in x..m PROVE SumOf(A, x, y) \in Int
  <2>1. x \in 0..n /\ y \in -1..(n - 1)
    OBVIOUS
  <2> QED
    BY <1>1, <2>1
<1>6. SumOf(A, m + 1, m) = 0
  <2>1. m + 1 \in 0..n /\ m \in -1..(n - 1) /\ m + 1 > m
    OBVIOUS
  <2> QED
    BY <1>1, <2>1
<1>7. ASSUME NEW x \in 0..m, NEW y \in x..m
      PROVE  y = m \/ (x \in 0..(m - 1) /\ y \in x..(m - 1))
  OBVIOUS
<1>8. b.best = Nothing \/ b.best \in [sum : Int, s : Int, e : Int]
  BY DEF NegInv, NegAt
<1>9. b.best = Nothing => \A x \in 0..(m - 1) : \A y \in x..(m - 1) : SumOf(A, x, y) < 0
  BY DEF NegInv
<1>10. b.best # Nothing =>
         /\ b.best.sum >= 0 /\ b.best.sum \in Int
         /\ b.best.s \in 0..(m - 1) /\ b.best.e \in b.best.s..(m - 1)
         /\ b.best.sum = SumOf(A, b.best.s, b.best.e)
         /\ \A x \in 0..(m - 1) : \A y \in x..(m - 1) : SumOf(A, x, y) <= b.best.sum
  BY <1>8 DEF NegInv, GreatestRange
<1>11. CASE local < 0
  <2>1. c = [b EXCEPT !.local = 0, !.start = m + 1]
    BY <1>11 DEF PassNegative
  <2>2. c.local = 0 /\ c.start = m + 1 /\ c.best = b.best
    BY <2>1 DEF NegInv, NegAt
  <2> HIDE DEF c
  <2>3. ASSUME NEW x \in 0..(m + 1) PROVE SumOf(A, x, m) <= 0
    <3>1. x = m + 1 \/ x \in 0..m
      OBVIOUS
    <3> QED
      BY <1>2, <1>3, <1>6, <1>11, <3>1
  <2>6. c.local >= 0 /\ c.start \in 0..(m + 1) /\ c.local = SumOf(A, c.start, m)
    BY <1>2, <1>6, <2>2
  <2>4. CASE b.best = Nothing
    <3>1. ASSUME NEW x \in 0..m, NEW y \in x..m PROVE SumOf(A, x, y) < 0
      <4>1. CASE y = m
        BY <1>2, <1>3, <1>11, <4>1
      <4>2. CASE x \in 0..(m - 1) /\ y \in x..(m - 1)
        BY <1>9, <2>4, <4>2
      <4> QED
        BY <1>7, <4>1, <4>2
    <3> QED
      BY <1>2, <2>2, <2>3, <2>4, <2>6, <3>1, Zenon DEF NegInv
  <2>5. CASE b.best # Nothing
    <3>1. ASSUME NEW x \in 0..m, NEW y \in x..m PROVE SumOf(A, x, y) <= b.best.sum
      <4>1. CASE y = m
        BY <1>2, <1>3, <1>10, <1>11, <2>5, <4>1
      <4>2. CASE x \in 0..(m - 1) /\ y \in x..(m - 1)
        BY <1>10, <2>5, <4>2
      <4> QED
        BY <1>7, <4>1, <4>2
    <3>2. b.best.s \in 0..m /\ b.best.e \in b.best.s..m
      BY <1>10, <2>5
    <3>3. GreatestRange(A, m + 1, b.best.sum, b.best.s, b.best.e)
      BY <1>2, <1>10, <2>5, <3>1, <3>2 DEF GreatestRange
    <3> QED
      BY <1>2, <1>10, <2>2, <2>3, <2>5, <2>6, <3>3, Zenon DEF NegInv
  <2> QED
    BY <2>4, <2>5
<1>12. CASE ~(local < 0)
  <2>1. c = [b EXCEPT !.local = local, !.best = Better(b.best, new)]
    BY <1>12 DEF PassNegative
  <2>2. c.local = local /\ c.start = b.start /\ c.best = Better(b.best, new)
    BY <2>1 DEF NegInv, NegAt
  <2>2a. new.sum = local /\ new.s = b.start /\ new.e = m
    OBVIOUS
  <2>2b. Nothing.sum = IntMin /\ IntMin < 0 /\ IntMin \in Int
    BY DEF Nothing, IntMin
  <2> HIDE DEF c, new
  <2>3. ASSUME NEW x \in 0..(m + 1) PROVE SumOf(A, x, m) <= local
    <3>1. x = m + 1 \/ x \in 0..m
      OBVIOUS
    <3> QED
      BY <1>2, <1>3, <1>6, <1>12, <3>1
  <2>4. c.best # Nothing /\ c.best.sum >= 0 /\ GreatestRange(A, m + 1, c.best.sum, c.best.s, c.best.e)
    <3>1. CASE c.best = new
      <4>1. ASSUME NEW x \in 0..m, NEW y \in x..m PROVE SumOf(A, x, y) <= local
        <5>1. CASE y = m
          BY <1>3, <5>1
        <5>2. CASE b.best = Nothing /\ x \in 0..(m - 1) /\ y \in x..(m - 1)
          BY <1>2, <1>5, <1>9, <1>12, <5>2
        <5>3. CASE b.best # Nothing /\ x \in 0..(m - 1) /\ y \in x..(m - 1)
          <6>1. b.best # new => b.best.sum < new.sum
            BY <2>2, <3>1 DEF Better
          <6>2. b.best.sum <= local
            BY <1>2, <1>10, <2>2a, <5>3, <6>1
          <6>3. SumOf(A, x, y) <= b.best.sum /\ b.best.sum \in Int
            BY <1>10, <5>3
          <6>4. SumOf(A, x, y) \in Int
            BY <1>5
          <6> QED
            BY <1>2, <6>2, <6>3, <6>4
        <5> QED
          BY <1>7, <5>1, <5>2, <5>3
      <4>2. new # Nothing
        BY <1>2, <1>12, <2>2a, <2>2b
      <4>3. GreatestRange(A, m + 1, local, b.start, m)
        BY <1>2, <1>4, <4>1 DEF GreatestRange
      <4> QED
        BY <1>2, <1>12, <2>2a, <3>1, <4>2, <4>3
    <3>2. CASE c.best # new
      <4>1. c.best = b.best /\ ~(b.best.sum < local)
        BY <2>2, <2>2a, <3>2 DEF Better
      <4>2. b.best # Nothing
        BY <1>2, <1>12, <2>2b, <4>1
      <4>3. ASSUME NEW x \in 0..m, NEW y \in x..m PROVE SumOf(A, x, y) <= b.best.sum
        <5>1. b.best.sum >= local /\ b.best.sum \in Int
          BY <1>2, <1>10, <4>1, <4>2
        <5>2. CASE y = m
          BY <1>2, <1>3, <5>1, <5>2
        <5>3. CASE x \in 0..(m - 1) /\ y \in x..(m - 1)
          BY <1>10, <4>2, <5>3
        <5> QED
          BY <1>7, <5>2, <5>3
      <4>4. b.best.s \in 0..m /\ b.best.e \in b.best.s..m
        BY <1>10, <4>2
      <4>5. GreatestRange(A, m + 1, b.best.sum, b.best.s, b.best.e)
        BY <1>2, <1>10, <4>2, <4>3, <4>4 DEF GreatestRange
      <4> QED
        BY <1>10, <4>1, <4>2, <4>5
    <3> QED
      BY <3>1, <3>2
  <2>5. c.local >= 0 /\ c.start \in 0..(m + 1) /\ c.local = SumOf(A, c.start, m)
    BY <1>2, <1>4, <1>12, <2>2
  <2> QED
    BY <1>2, <2>2, <2>3, <2>4, <2>5 DEF NegInv
<1> QED
  BY <1>11, <1>12

\* Where every sum is negative: the greatest element.
LEMMA GreatestElementIs ==
  ASSUME NEW n \in Nat \ {0}, NEW A \in [0..(n - 1) -> Int],
         \A x \in 0..(n - 1) : \A y \in x..(n - 1) : SumOf(A, x, y) < 0
  PROVE  LET a == GreatestElement(A, n) IN GreatestRange(A, n, a.sum, a.s, a.e)
<1> DEFINE first == [sum |-> A[0], s |-> 0, e |-> 0]
           found == [x \in 1..(n - 1) |-> [sum |-> A[x], s |-> x, e |-> x]]
           a == BestOf(first, found)
<1>1. /\ n - 1 \in Nat /\ DOMAIN found = 1..(n - 1)
      /\ first.sum = A[0] /\ first.s = 0 /\ first.e = 0 /\ A[0] \in Int
  OBVIOUS
<1>2. ASSUME NEW x \in 1..(n - 1)
      PROVE  found[x].sum = A[x] /\ found[x].s = x /\ found[x].e = x /\ A[x] \in Int
  OBVIOUS
<1> HIDE DEF found, first
<1>3. a.sum \in Int /\ FirstBest(a, first, found, n - 1)
  BY <1>1, <1>2, BestOfIs
<1> HIDE DEF a
<1>4. \E z \in 0..(n - 1) : a.sum = A[z] /\ a.s = z /\ a.e = z
  BY <1>1, <1>2, <1>3 DEF FirstBest
<1>5. ASSUME NEW y \in 0..(n - 1) PROVE a.sum >= A[y] /\ A[y] \in Int
  <2>1. y = 0 \/ y \in 1..(n - 1)
    OBVIOUS
  <2> QED
    BY <1>1, <1>2, <1>3, <2>1 DEF FirstBest
<1>6. ASSUME NEW x \in 0..(n - 1), NEW y \in x..(n - 1)
      PROVE  SumOf(A, x, y) \in Int /\ SumOf(A, x, y) <= A[y] /\ (x = y => SumOf(A, x, y) = A[y])
  <2>1. /\ x \in 0..n /\ y \in -1..(n - 1) /\ y - 1 \in -1..(n - 1) /\ x <= y /\ A[y] \in Int /\ n \in Nat
    OBVIOUS
  <2>2. SumOf(A, x, y) = SumOf(A, x, y - 1) + A[y] /\ SumOf(A, x, y) \in Int
    BY <2>1, SumOfIs
  <2>3. SumOf(A, x, y - 1) \in Int /\ (x > y - 1 => SumOf(A, x, y - 1) = 0)
    BY <2>1, SumOfIs
  <2>4. CASE x = y
    BY <2>1, <2>2, <2>3, <2>4
  <2>5. CASE x # y
    <3>1. x \in 0..(n - 1) /\ y - 1 \in x..(n - 1)
      BY <2>5
    <3>2. SumOf(A, x, y - 1) < 0
      BY <3>1
    <3> QED
      BY <2>1, <2>2, <2>3, <2>5, <3>2
  <2> QED
    BY <2>4, <2>5
<1>7. PICK z \in 0..(n - 1) : a.sum = A[z] /\ a.s = z /\ a.e = z
  BY <1>4
<1>8. a.sum = SumOf(A, z, z)
  <2>1. z \in z..(n - 1)
    OBVIOUS
  <2> QED
    BY <1>6, <1>7, <2>1
<1>9. ASSUME NEW x \in 0..(n - 1), NEW y \in x..(n - 1) PROVE SumOf(A, x, y) <= a.sum
  <2>1. y \in 0..(n - 1)
    OBVIOUS
  <2> QED
    BY <1>3, <1>5, <1>6, <2>1
<1>10. GreatestRange(A, n, a.sum, a.s, a.e)
  <2>1. a.s \in 0..(n - 1) /\ a.e \in a.s..(n - 1) /\ a.sum = SumOf(A, a.s, a.e)
    BY <1>7, <1>8
  <2> QED
    BY <1>9, <2>1 DEF GreatestRange
<1> QED
  BY <1>10, Zenon DEF GreatestElement, a, first, found

LEMMA Algorithm5_subFinds ==
  ASSUME NEW n \in Nat \ {0}, NEW A \in [0..(n - 1) -> Int]
  PROVE  LET a == Algorithm5_sub(A, n) IN GreatestRange(A, n, a.sum, a.s, a.e)
<1>1. PICK r : /\ NegRun(A, n, r) /\ \A x \in 0..n : r[x] \in NegAt
               /\ Algorithm5_sub(A, n) = IF r[n].best # Nothing THEN r[n].best ELSE GreatestElement(A, n)
  <2>1. n \in Nat
    OBVIOUS
  <2> QED
    BY <2>1, NegativePassesRun, Zenon DEF NegMade
<1> DEFINE T == {m \in Nat : m <= n => NegInv(r[m], A, m)}
<1>2. 0 \in T
  <2>1. r[0] = NegStart /\ NegStart \in NegAt /\ NegStart.local = 0 /\ NegStart.start = 0 /\ NegStart.best = Nothing
    BY <1>1 DEF NegRun, NegStart, NegAt
  <2>2. 0 \in 0..n /\ 0 - 1 \in -1..(n - 1) /\ 0 > 0 - 1 /\ n \in Nat
    OBVIOUS
  <2>3. SumOf(A, 0, 0 - 1) = 0
    BY <2>2, SumOfIs
  <2>4. \A x \in 0..0 : x = 0
    OBVIOUS
  <2>5. NegInv(NegStart, A, 0)
    BY <2>1, <2>3, <2>4 DEF NegInv
  <2> QED
    BY <2>1, <2>5
<1>3. ASSUME NEW m \in Nat, m \in T PROVE m + 1 \in T
  <2> SUFFICES ASSUME m + 1 <= n PROVE NegInv(r[m + 1], A, m + 1)
    OBVIOUS
  <2>1. m \in 0..(n - 1) /\ m + 1 \in 1..n /\ m + 1 \in 0..n /\ (m + 1) - 1 = m /\ m <= n /\ n \in Nat
    OBVIOUS
  <2>2. NegInv(r[m], A, m)
    BY <1>3, <2>1
  <2>3. r[m + 1] = PassNegative(A, r[m], m) /\ r[m + 1] \in NegAt
    BY <1>1, <2>1, Zenon DEF NegRun
  <2> QED
    BY <2>1, <2>2, <2>3, NegGoesOn
<1>4. n \in T
  <2> HIDE DEF T
  <2> QED
    BY <1>2, <1>3, Induct, Zenon
<1>5. NegInv(r[n], A, n)
  BY <1>4
<1>6. CASE r[n].best # Nothing
  BY <1>1, <1>5, <1>6 DEF NegInv
<1>7. CASE r[n].best = Nothing
  <2>1. \A x \in 0..(n - 1) : \A y \in x..(n - 1) : SumOf(A, x, y) < 0
    BY <1>5, <1>7 DEF NegInv
  <2>2. Algorithm5_sub(A, n) = GreatestElement(A, n)
    BY <1>1, <1>7
  <2> QED
    BY <2>1, <2>2, GreatestElementIs
<1> QED
  BY <1>6, <1>7

----------------------------------------------------------------------------
(* Sums of rectangles *)

LEMMA SumInIs ==
  ASSUME NEW n \in Nat, NEW A \in [(0..(n - 1)) \X (0..(n - 1)) -> Int]
  PROVE  \A k, i \in 0..n, l, j \in -1..(n - 1) :
           SumIn(A, k, l, i, j) \in Int /\ (k > l \/ i > j => SumIn(A, k, l, i, j) = 0)
<1> DEFINE I == 0..(n - 1)
           U == I \X I
<1>1. IsFiniteSet(U) /\ \A x \in U : A[x] \in Int
  <2>1. IsFiniteSet(I)
    BY FS_Interval
  <2> HIDE DEF I
  <2>2. IsFiniteSet(U)
    BY <2>1, FS_Product
  <2> QED
    BY <2>2 DEF I
<1> SUFFICES ASSUME NEW k \in 0..n, NEW i \in 0..n, NEW l \in -1..(n - 1), NEW j \in -1..(n - 1)
             PROVE  SumIn(A, k, l, i, j) \in Int /\ (k > l \/ i > j => SumIn(A, k, l, i, j) = 0)
  OBVIOUS
<1> DEFINE R == (k..l) \X (i..j)
<1>2. R \in SUBSET U
  <2>1. k..l \subseteq I /\ i..j \subseteq I
    OBVIOUS
  <2> QED
    BY <2>1
<1>3. k > l \/ i > j => R = {}
  <2>1. k > l \/ i > j => k..l = {} \/ i..j = {}
    OBVIOUS
  <2> QED
    BY <2>1
<1> HIDE DEF U, R
<1>4. SumFunctionOnSet(A, {}) = 0 /\ SumFunctionOnSet(A, R) \in Int
  BY <1>1, <1>2, SumAdds
<1>5. SumIn(A, k, l, i, j) = SumFunctionOnSet(A, R)
  BY Zenon DEF SumIn, R
<1> QED
  BY <1>3, <1>4, <1>5

\* A rectangle is cut between two rows, or between two columns.
LEMMA RectangleSplits ==
  ASSUME NEW n \in Nat, NEW A \in [(0..(n - 1)) \X (0..(n - 1)) -> Int],
         NEW k \in 0..n, NEW i \in 0..n, NEW l \in (k - 1)..(n - 1), NEW j \in (i - 1)..(n - 1)
  PROVE  /\ \A m \in (k - 1)..l : SumIn(A, k, l, i, j) = SumIn(A, k, m, i, j) + SumIn(A, m + 1, l, i, j)
         /\ \A m \in (i - 1)..j : SumIn(A, k, l, i, j) = SumIn(A, k, l, i, m) + SumIn(A, k, l, m + 1, j)
<1> DEFINE I == 0..(n - 1)
           U == I \X I
<1>1. IsFiniteSet(U) /\ \A x \in U : A[x] \in Int
  <2>1. IsFiniteSet(I)
    BY FS_Interval
  <2> HIDE DEF I
  <2>2. IsFiniteSet(U)
    BY <2>1, FS_Product
  <2> QED
    BY <2>2 DEF I
<1>2. k..l \subseteq I /\ i..j \subseteq I
  OBVIOUS
<1>3. ASSUME NEW m \in (k - 1)..l
      PROVE  SumIn(A, k, l, i, j) = SumIn(A, k, m, i, j) + SumIn(A, m + 1, l, i, j)
  <2> DEFINE V == (k..m) \X (i..j)
             W == ((m + 1)..l) \X (i..j)
  <2>1. /\ k..l = (k..m) \cup ((m + 1)..l) /\ (k..m) \cap ((m + 1)..l) = {}
        /\ k..m \subseteq I /\ (m + 1)..l \subseteq I
    OBVIOUS
  <2> HIDE DEF I
  <2>2. (k..l) \X (i..j) = V \cup W
    BY <2>1
  <2>3. V \in SUBSET U /\ W \in SUBSET U /\ V \cap W = {}
    BY <1>2, <2>1
  <2> HIDE DEF U, V, W
  <2>4. SumFunctionOnSet(A, V \cup W) = SumFunctionOnSet(A, V) + SumFunctionOnSet(A, W)
    BY <1>1, <2>3, SumUnion
  <2> QED
    BY <2>2, <2>4, Zenon DEF SumIn, V, W
<1>4. ASSUME NEW m \in (i - 1)..j
      PROVE  SumIn(A, k, l, i, j) = SumIn(A, k, l, i, m) + SumIn(A, k, l, m + 1, j)
  <2> DEFINE V == (k..l) \X (i..m)
             W == (k..l) \X ((m + 1)..j)
  <2>1. /\ i..j = (i..m) \cup ((m + 1)..j) /\ (i..m) \cap ((m + 1)..j) = {}
        /\ i..m \subseteq I /\ (m + 1)..j \subseteq I
    OBVIOUS
  <2> HIDE DEF I
  <2>2. (k..l) \X (i..j) = V \cup W
    BY <2>1
  <2>3. V \in SUBSET U /\ W \in SUBSET U /\ V \cap W = {}
    BY <1>2, <2>1
  <2> HIDE DEF U, V, W
  <2>4. SumFunctionOnSet(A, V \cup W) = SumFunctionOnSet(A, V) + SumFunctionOnSet(A, W)
    BY <1>1, <2>3, SumUnion
  <2> QED
    BY <2>2, <2>4, Zenon DEF SumIn, V, W
<1> QED
  BY <1>3, <1>4

\* What the prefix sums give is the sum of the rectangle.
LEMMA AreaIs ==
  ASSUME NEW n \in Nat, NEW A \in [(0..(n - 1)) \X (0..(n - 1)) -> Int],
         NEW r \in Ranges(n), NEW c \in Ranges(n)
  PROVE  Area(A, r[1], c[1], r[2], c[2]) = SumIn(A, r[1], r[2], c[1], c[2])
<1> DEFINE k == r[1]
           l == r[2]
           i == c[1]
           j == c[2]
<1>0. k \in 0..(n - 1) /\ l \in k..(n - 1) /\ i \in 0..(n - 1) /\ j \in i..(n - 1)
  BY RangeIs
<1> HIDE DEF k, l, i, j
<1>1. /\ 0 \in 0..n /\ k \in 0..n /\ i \in 0..n /\ l \in -1..(n - 1) /\ j \in -1..(n - 1)
      /\ k - 1 \in -1..(n - 1) /\ i - 1 \in -1..(n - 1)
      /\ l \in (0 - 1)..(n - 1) /\ j \in (0 - 1)..(n - 1) /\ k - 1 \in (0 - 1)..(n - 1)
      /\ i - 1 \in (0 - 1)..j /\ k - 1 \in (0 - 1)..l /\ j \in (i - 1)..(n - 1)
      /\ (i - 1) + 1 = i /\ (k - 1) + 1 = k /\ (l + 1) - 1 = l /\ (j + 1) - 1 = j
  BY <1>0
<1>2. /\ SumIn(A, 0, l, 0, i - 1) \in Int /\ SumIn(A, 0, k - 1, 0, i - 1) \in Int
      /\ SumIn(A, 0, k - 1, i, j) \in Int /\ SumIn(A, k, l, i, j) \in Int
  BY <1>1, SumInIs
<1>3. SumIn(A, 0, l, 0, j) = SumIn(A, 0, l, 0, i - 1) + SumIn(A, 0, l, (i - 1) + 1, j)
  BY <1>1, RectangleSplits
<1>4. SumIn(A, 0, k - 1, 0, j) = SumIn(A, 0, k - 1, 0, i - 1) + SumIn(A, 0, k - 1, (i - 1) + 1, j)
  BY <1>1, RectangleSplits
<1>5. SumIn(A, 0, l, i, j) = SumIn(A, 0, k - 1, i, j) + SumIn(A, (k - 1) + 1, l, i, j)
  BY <1>1, RectangleSplits
<1>6. Area(A, k, i, l, j) = SumIn(A, 0, l, 0, j) - SumIn(A, 0, l, 0, i - 1)
                            - SumIn(A, 0, k - 1, 0, j) + SumIn(A, 0, k - 1, 0, i - 1)
  BY <1>1, Zenon DEF Area, PS
<1> QED
  BY <1>1, <1>2, <1>3, <1>4, <1>5, <1>6 DEF k, l, i, j

\* A sum of sums of rows is the sum of a rectangle.
LEMMA RowSumsAre ==
  ASSUME NEW n \in Nat, NEW A \in [(0..(n - 1)) \X (0..(n - 1)) -> Int], NEW c \in Ranges(n)
  PROVE  /\ RowSums(A, n, c) \in [0..(n - 1) -> Int]
         /\ \A k \in 0..(n - 1) : \A l \in k..(n - 1) :
              SumOf(RowSums(A, n, c), k, l) = SumIn(A, k, l, c[1], c[2])
<1> DEFINE tmp == RowSums(A, n, c)
<1>1. /\ c[1] \in 0..n /\ c[2] \in -1..(n - 1) /\ c[2] \in (c[1] - 1)..(n - 1)
  BY RangeIs
<1>2. ASSUME NEW k \in 0..(n - 1) PROVE tmp[k] = SumIn(A, k, k, c[1], c[2]) /\ tmp[k] \in Int
  <2>1. tmp[k] = SumIn(A, k, k, c[1], c[2])
    BY DEF RowSums
  <2>2. k \in 0..n /\ k \in -1..(n - 1)
    OBVIOUS
  <2>3. SumIn(A, k, k, c[1], c[2]) \in Int
    BY <1>1, <2>2, SumInIs, Zenon
  <2> QED
    BY <2>1, <2>3
<1>3. tmp \in [0..(n - 1) -> Int]
  <2>1. tmp = [k \in 0..(n - 1) |-> tmp[k]]
    BY DEF RowSums
  <2> QED
    BY <1>2, <2>1
<1> HIDE DEF tmp
<1> SUFFICES ASSUME NEW k \in 0..(n - 1), NEW l \in k..(n - 1)
             PROVE  SumOf(tmp, k, l) = SumIn(A, k, l, c[1], c[2])
  BY <1>3 DEF tmp
<1> DEFINE T == {d \in Nat : k + d <= n => SumOf(tmp, k, k + d - 1) = SumIn(A, k, k + d - 1, c[1], c[2])}
<1>4. 0 \in T
  <2>1. k \in 0..n /\ k + 0 - 1 \in -1..(n - 1) /\ k > k + 0 - 1
    OBVIOUS
  <2>2. SumOf(tmp, k, k + 0 - 1) = 0
    BY <1>3, <2>1, SumOfIs, Zenon
  <2>3. SumIn(A, k, k + 0 - 1, c[1], c[2]) = 0
    BY <1>1, <2>1, SumInIs, Zenon
  <2> QED
    BY <2>2, <2>3
<1>5. ASSUME NEW d \in Nat, d \in T PROVE d + 1 \in T
  <2> SUFFICES ASSUME k + (d + 1) <= n
               PROVE  SumOf(tmp, k, k + (d + 1) - 1) = SumIn(A, k, k + (d + 1) - 1, c[1], c[2])
    OBVIOUS
  <2> DEFINE e == k + d
  <2>1. /\ k + (d + 1) - 1 = e /\ k + d - 1 = e - 1 /\ e \in 0..(n - 1) /\ e \in -1..(n - 1) /\ k \in 0..n
        /\ k <= e /\ e - 1 \in (k - 1)..e /\ e \in (k - 1)..(n - 1) /\ (e - 1) + 1 = e /\ e - 1 \in -1..(n - 1)
    OBVIOUS
  <2>2. SumOf(tmp, k, k + d - 1) = SumIn(A, k, k + d - 1, c[1], c[2])
    BY <1>5
  <2> HIDE DEF e
  <2>3. SumOf(tmp, k, e) = SumOf(tmp, k, e - 1) + tmp[e]
    BY <1>3, <2>1, SumOfIs
  <2>4. SumIn(A, k, e, c[1], c[2]) = SumIn(A, k, e - 1, c[1], c[2]) + SumIn(A, (e - 1) + 1, e, c[1], c[2])
    BY <1>1, <2>1, RectangleSplits
  <2>5. tmp[e] = SumIn(A, e, e, c[1], c[2])
    BY <1>2, <2>1
  <2> QED
    BY <2>1, <2>2, <2>3, <2>4, <2>5
<1>6. l - k + 1 \in Nat /\ k + (l - k + 1) <= n /\ k + (l - k + 1) - 1 = l
  OBVIOUS
<1>7. l - k + 1 \in T
  <2> HIDE DEF T
  <2> QED
    BY <1>4, <1>5, <1>6, Induct, Zenon
<1> QED
  BY <1>6, <1>7

\* An answer: a rectangle whose sum no other one exceeds.
GreatestRectangle(A, n, a, r, c) ==
  /\ r \in Ranges(n) /\ c \in Ranges(n) /\ a = SumIn(A, r[1], r[2], c[1], c[2])
  /\ \A x \in Ranges(n) : \A y \in Ranges(n) : SumIn(A, x[1], x[2], y[1], y[2]) <= a
LEMMA RectangleIn ==
  ASSUME NEW n \in Nat, NEW A \in [(0..(n - 1)) \X (0..(n - 1)) -> Int], NEW r \in Ranges(n), NEW c \in Ranges(n)
  PROVE  SumIn(A, r[1], r[2], c[1], c[2]) \in Int
<1>1. /\ r[1] \in 0..n /\ r[2] \in -1..(n - 1) /\ c[1] \in 0..n /\ c[2] \in -1..(n - 1)
  BY RangeIs
<1> QED
  BY <1>1, SumInIs
LEMMA GreatestRectangleIs ==
  ASSUME NEW n \in Nat, NEW A \in [(0..(n - 1)) \X (0..(n - 1)) -> Int], NEW a, NEW r, NEW c,
         GreatestRectangle(A, n, a, r, c)
  PROVE  a = Max(RectangleSums(A, n)) /\ a = SumIn(A, r[1], r[2], c[1], c[2])
<1>1. r \in Ranges(n) /\ c \in Ranges(n) /\ a = SumIn(A, r[1], r[2], c[1], c[2])
  BY DEF GreatestRectangle
<1>2. a \in RectangleSums(A, n)
  BY <1>1 DEF RectangleSums
<1>3. ASSUME NEW s \in RectangleSums(A, n) PROVE s \in Int /\ s <= a
  <2>1. \E x \in Ranges(n) : \E y \in Ranges(n) : s = SumIn(A, x[1], x[2], y[1], y[2])
    BY DEF RectangleSums
  <2>2. PICK x \in Ranges(n) : \E y \in Ranges(n) : s = SumIn(A, x[1], x[2], y[1], y[2])
    BY <2>1
  <2>3. PICK y \in Ranges(n) : s = SumIn(A, x[1], x[2], y[1], y[2])
    BY <2>2
  <2>4. SumIn(A, x[1], x[2], y[1], y[2]) \in Int
    BY RectangleIn
  <2> QED
    BY <2>3, <2>4 DEF GreatestRectangle
<1>4. RectangleSums(A, n) \in SUBSET Int
  BY <1>3
<1>5. Max(RectangleSums(A, n)) = a
  BY <1>2, <1>3, <1>4, MaxIs
<1> QED
  BY <1>1, <1>5

LEMMA Algorithm4Finds ==
  ASSUME NEW n \in Nat \ {0}, NEW A \in [(0..(n - 1)) \X (0..(n - 1)) -> Int],
         \A r \in Ranges(n) : \A c \in Ranges(n) : SumIn(A, r[1], r[2], c[1], c[2]) > IntMin
  PROVE  LET a == Algorithm4(A, n) IN GreatestRectangle(A, n, a.sum, <<a.k, a.l>>, <<a.i, a.j>>)
<1> DEFINE at(c) == [r \in Ranges(n) |->
             [sum |-> Area(A, r[1], c[1], r[2], c[2]), k |-> r[1], i |-> c[1], l |-> r[2], j |-> c[2]]]
           found == [c \in Ranges(n) |-> BestOfRanges(n, at(c))]
           a == BestOfRanges(n, found)
           Sum(r, c) == SumIn(A, r[1], r[2], c[1], c[2])
<1>1. ASSUME NEW c \in Ranges(n), NEW r \in Ranges(n)
      PROVE  /\ at(c)[r].sum = Sum(r, c) /\ Sum(r, c) \in Int /\ Sum(r, c) > IntMin
             /\ at(c)[r].k = r[1] /\ at(c)[r].i = c[1] /\ at(c)[r].l = r[2] /\ at(c)[r].j = c[2]
  <2>1. /\ at(c)[r].sum = Area(A, r[1], c[1], r[2], c[2])
        /\ at(c)[r].k = r[1] /\ at(c)[r].i = c[1] /\ at(c)[r].l = r[2] /\ at(c)[r].j = c[2]
    OBVIOUS
  <2> HIDE DEF at
  <2>3. Area(A, r[1], c[1], r[2], c[2]) = Sum(r, c)
    <3>1. n \in Nat
      OBVIOUS
    <3> QED
      BY <3>1, AreaIs
  <2>4. Sum(r, c) \in Int
    BY RectangleIn
  <2> QED
    BY <2>1, <2>3, <2>4
<1>2. Algorithm4(A, n) = a
  BY Zenon DEF Algorithm4
<1> HIDE DEF at, Sum
<1>3. ASSUME NEW c \in Ranges(n)
      PROVE  /\ \E r \in Ranges(n) : found[c] = at(c)[r]
             /\ \A r \in Ranges(n) : found[c].sum >= at(c)[r].sum
  <2>1. found[c] = BestOfRanges(n, at(c))
    BY Zenon
  <2> HIDE DEF found
  <2>2. \A r \in Ranges(n) : at(c)[r].sum \in Int /\ at(c)[r].sum > IntMin
    BY <1>1
  <2> QED
    BY <2>1, <2>2, RangesFound
<1> HIDE DEF found
<1>4. \A c \in Ranges(n) : found[c].sum \in Int /\ found[c].sum > IntMin
  BY <1>1, <1>3
<1>5. PICK c \in Ranges(n) : a = found[c]
  BY <1>4, RangesFound
<1>6. \A y \in Ranges(n) : a.sum >= found[y].sum
  BY <1>4, RangesFound
<1> HIDE DEF a
<1>7. PICK r \in Ranges(n) : a = at(c)[r]
  BY <1>3, <1>5
<1>8. <<a.k, a.l>> = r /\ <<a.i, a.j>> = c /\ a.sum = Sum(r, c) /\ a.sum \in Int
  <2>1. r = <<r[1], r[2]>> /\ c = <<c[1], c[2]>>
    BY RangeIs
  <2> QED
    BY <1>1, <1>7, <2>1
<1>9. ASSUME NEW x \in Ranges(n), NEW y \in Ranges(n) PROVE Sum(x, y) <= a.sum
  <2>1. found[y].sum >= at(y)[x].sum /\ at(y)[x].sum = Sum(x, y) /\ Sum(x, y) \in Int
    BY <1>1, <1>3
  <2>2. a.sum >= found[y].sum /\ found[y].sum \in Int
    BY <1>4, <1>6
  <2> QED
    BY <1>8, <2>1, <2>2
<1>10. GreatestRectangle(A, n, a.sum, <<a.k, a.l>>, <<a.i, a.j>>)
  BY <1>8, <1>9, Zenon DEF GreatestRectangle, Sum
<1> QED
  BY <1>2, <1>10, Zenon

LEMMA Algorithm5Finds ==
  ASSUME NEW n \in Nat \ {0}, NEW A \in [(0..(n - 1)) \X (0..(n - 1)) -> Int],
         \A r \in Ranges(n) : \A c \in Ranges(n) : SumIn(A, r[1], r[2], c[1], c[2]) > IntMin
  PROVE  LET a == Algorithm5(A, n) IN GreatestRectangle(A, n, a.sum, <<a.k, a.l>>, <<a.i, a.j>>)
<1> DEFINE local(c) == Algorithm5_sub(RowSums(A, n, c), n)
           found == [c \in Ranges(n) |->
                       [sum |-> local(c).sum, k |-> local(c).s, i |-> c[1], l |-> local(c).e, j |-> c[2]]]
           a == BestOfRanges(n, found)
           Sum(r, c) == SumIn(A, r[1], r[2], c[1], c[2])
<1>1. Algorithm5(A, n) = a
  BY Zenon DEF Algorithm5
<1>2. ASSUME NEW c \in Ranges(n)
      PROVE  /\ found[c].sum = local(c).sum /\ found[c].k = local(c).s /\ found[c].i = c[1]
             /\ found[c].l = local(c).e /\ found[c].j = c[2]
  BY Zenon
<1> HIDE DEF found
<1>3. ASSUME NEW r \in Ranges(n), NEW c \in Ranges(n) PROVE Sum(r, c) \in Int /\ Sum(r, c) > IntMin
  <2>1. n \in Nat
    OBVIOUS
  <2> QED
    BY <2>1, RectangleIn
<1>4. ASSUME NEW c \in Ranges(n)
      PROVE  /\ <<local(c).s, local(c).e>> \in Ranges(n)
             /\ local(c).sum = Sum(<<local(c).s, local(c).e>>, c)
             /\ \A r \in Ranges(n) : Sum(r, c) <= local(c).sum
  <2> DEFINE tmp == RowSums(A, n, c)
  <2>1. /\ tmp \in [0..(n - 1) -> Int]
        /\ \A k \in 0..(n - 1) : \A l \in k..(n - 1) : SumOf(tmp, k, l) = SumIn(A, k, l, c[1], c[2])
    BY RowSumsAre
  <2> HIDE DEF tmp
  <2>2. GreatestRange(tmp, n, Algorithm5_sub(tmp, n).sum, Algorithm5_sub(tmp, n).s, Algorithm5_sub(tmp, n).e)
    BY <2>1, Algorithm5_subFinds
  <2> DEFINE s == local(c).s
             e == local(c).e
  <2>3. /\ s \in 0..(n - 1) /\ e \in s..(n - 1) /\ local(c).sum = SumOf(tmp, s, e)
        /\ \A x \in 0..(n - 1) : \A y \in x..(n - 1) : SumOf(tmp, x, y) <= local(c).sum
    BY <2>2, Zenon DEF GreatestRange, tmp
  <2> HIDE DEF s, e, local
  <2>4. <<s, e>> \in Ranges(n) /\ <<s, e>>[1] = s /\ <<s, e>>[2] = e
    BY <2>3, RangeIs
  <2>5. local(c).sum = Sum(<<s, e>>, c)
    BY <2>1, <2>3, <2>4
  <2>6. ASSUME NEW r \in Ranges(n) PROVE Sum(r, c) <= local(c).sum
    <3>1. r[1] \in 0..(n - 1) /\ r[2] \in r[1]..(n - 1)
      BY RangeIs
    <3>2. SumOf(tmp, r[1], r[2]) = Sum(r, c) /\ SumOf(tmp, r[1], r[2]) <= local(c).sum
      BY <2>1, <2>3, <3>1
    <3> QED
      BY <3>2
  <2> QED
    BY <2>4, <2>5, <2>6, Zenon DEF s, e
<1> HIDE DEF local, Sum
<1>5. \A c \in Ranges(n) : found[c].sum \in Int /\ found[c].sum > IntMin
  <2>1. ASSUME NEW c \in Ranges(n) PROVE found[c].sum \in Int /\ found[c].sum > IntMin
    <3>1. found[c].sum = Sum(<<local(c).s, local(c).e>>, c) /\ <<local(c).s, local(c).e>> \in Ranges(n)
      BY <1>2, <1>4
    <3> QED
      BY <1>3, <3>1
  <2> QED
    BY <2>1
<1>6. PICK c \in Ranges(n) : a = found[c]
  BY <1>5, RangesFound
<1>7. \A y \in Ranges(n) : a.sum >= found[y].sum
  BY <1>5, RangesFound
<1> HIDE DEF a
<1> DEFINE r == <<local(c).s, local(c).e>>
<1>8. <<a.k, a.l>> = r /\ <<a.i, a.j>> = c /\ a.sum = Sum(r, c) /\ a.sum \in Int /\ r \in Ranges(n)
  <2>1. c = <<c[1], c[2]>>
    BY RangeIs
  <2>2. a.k = local(c).s /\ a.l = local(c).e /\ a.i = c[1] /\ a.j = c[2] /\ a.sum = local(c).sum
    BY <1>2, <1>6
  <2>3. r \in Ranges(n) /\ a.sum = Sum(r, c)
    BY <1>4, <2>2
  <2>4. a.sum \in Int
    BY <1>5, <1>6
  <2> QED
    BY <2>1, <2>2, <2>3, <2>4
<1> HIDE DEF r
<1>9. ASSUME NEW x \in Ranges(n), NEW y \in Ranges(n) PROVE Sum(x, y) <= a.sum
  <2>1. found[y].sum >= Sum(x, y) /\ Sum(x, y) \in Int
    <3>1. Sum(x, y) <= local(y).sum /\ found[y].sum = local(y).sum /\ Sum(x, y) \in Int /\ found[y].sum \in Int
      BY <1>2, <1>3, <1>4, <1>5
    <3> QED
      BY <3>1
  <2>2. a.sum >= found[y].sum /\ found[y].sum \in Int
    BY <1>5, <1>7
  <2> QED
    BY <1>8, <2>1, <2>2
<1>10. GreatestRectangle(A, n, a.sum, <<a.k, a.l>>, <<a.i, a.j>>)
  BY <1>8, <1>9, Zenon DEF GreatestRectangle, Sum
<1> QED
  BY <1>1, <1>10, Zenon

----------------------------------------------------------------------------
(* The programs of HW1 *)

\* What each program answers.
AnswerOf(op, A, n) ==
  CASE op = 1 -> Algorithm1(A, n) [] op = 2 -> Algorithm2(A, n) [] op = 3 -> Algorithm3(A, n)
    [] op = 4 -> Algorithm4(A, n) [] op = 5 -> Algorithm5(A, n)
MaxSumRan ==
  \/ best.op = 0
  \/ \E A \in Lists, op \in 1..3 :
       best = [op |-> op, A |-> A, n |-> Size(A), answer |-> AnswerOf(op, A, Size(A))]
  \/ \E A \in Squares, op \in 4..5 :
       best = [op |-> op, A |-> A, n |-> SquareSize(A), answer |-> AnswerOf(op, A, SquareSize(A))]
LEMMA ListsAre ==
  ASSUME NEW A \in Lists
  PROVE  LET n == Size(A)
         IN /\ n \in Nat \ {0} /\ A \in [0..(n - 1) -> Int] /\ LeastCentre \in Int /\ LeastCentre <= 0
            /\ \A x \in 0..(n - 1) : \A y \in x..(n - 1) : SumOf(A, x, y) > LeastCentre /\ SumOf(A, x, y) > IntMin
<1> DEFINE n == Size(A)
<1>1. /\ n \in Nat \ {0} /\ A \in [0..(n - 1) -> Int]
      /\ \A x \in DOMAIN A : \A y \in x..(n - 1) : SumOf(A, x, y) > LeastCentre
      /\ LeastCentre \in IntMin..0
  BY MaxSumAssumption, Zenon
<1>1a. IntMin \in Int
  BY DEF IntMin
<1> HIDE DEF n
<1>2. LeastCentre \in Int /\ LeastCentre <= 0 /\ LeastCentre >= IntMin
  BY <1>1, <1>1a
<1>3. ASSUME NEW x \in 0..(n - 1), NEW y \in x..(n - 1)
      PROVE  SumOf(A, x, y) > LeastCentre /\ SumOf(A, x, y) > IntMin
  <2>1. SumOf(A, x, y) > LeastCentre
    BY <1>1
  <2>2. SumOf(A, x, y) \in Int
    <3>1. x \in 0..n /\ y \in -1..(n - 1) /\ n \in Nat
      BY <1>1
    <3> QED
      BY <1>1, <3>1, SumOfIs
  <2> QED
    BY <1>1a, <1>2, <2>1, <2>2
<1> QED
  BY <1>1, <1>2, <1>3 DEF n
LEMMA SquaresAre ==
  ASSUME NEW A \in Squares
  PROVE  LET n == SquareSize(A)
         IN /\ n \in Nat \ {0} /\ A \in [(0..(n - 1)) \X (0..(n - 1)) -> Int]
            /\ \A r \in Ranges(n) : \A c \in Ranges(n) : SumIn(A, r[1], r[2], c[1], c[2]) > IntMin
<1> DEFINE n == SquareSize(A)
<1>1. /\ n \in Nat \ {0} /\ A \in [(0..(n - 1)) \X (0..(n - 1)) -> Int]
      /\ \A k, l, i, j \in 0..(n - 1) : k <= l /\ i <= j => SumIn(A, k, l, i, j) > IntMin
  BY MaxSumAssumption, Zenon
<1> HIDE DEF n
<1>2. ASSUME NEW r \in Ranges(n), NEW c \in Ranges(n) PROVE SumIn(A, r[1], r[2], c[1], c[2]) > IntMin
  <2>1. /\ r[1] \in 0..(n - 1) /\ r[2] \in 0..(n - 1) /\ r[1] <= r[2]
        /\ c[1] \in 0..(n - 1) /\ c[2] \in 0..(n - 1) /\ c[1] <= c[2]
    BY DEF Ranges
  <2> QED
    BY <1>1, <2>1, Zenon
<1> QED
  BY <1>1, <1>2 DEF n

\* Some element is no less than any.
LEMMA SomeGreatest ==
  ASSUME NEW n \in Nat \ {0}, NEW A \in [0..(n - 1) -> Int]
  PROVE  \E z \in 0..(n - 1) : \A x \in 0..(n - 1) : A[x] <= A[z]
<1> DEFINE first == [sum |-> A[0]]
           found == [x \in 1..(n - 1) |-> [sum |-> A[x]]]
           a == BestOf(first, found)
<1>1. n - 1 \in Nat /\ DOMAIN found = 1..(n - 1) /\ first.sum = A[0] /\ A[0] \in Int /\ 0 \in 0..(n - 1)
  OBVIOUS
<1>2. ASSUME NEW x \in 1..(n - 1) PROVE found[x].sum = A[x] /\ A[x] \in Int /\ x \in 0..(n - 1)
  OBVIOUS
<1> HIDE DEF found, first
<1>3. a.sum \in Int /\ FirstBest(a, first, found, n - 1)
  BY <1>1, <1>2, BestOfIs
<1> HIDE DEF a
<1>4. PICK z \in 0..(n - 1) : a.sum = A[z]
  BY <1>1, <1>2, <1>3 DEF FirstBest
<1>5. ASSUME NEW x \in 0..(n - 1) PROVE A[x] <= A[z]
  <2>1. x = 0 \/ x \in 1..(n - 1)
    OBVIOUS
  <2>2. a.sum >= A[x]
    BY <1>1, <1>2, <1>3, <2>1 DEF FirstBest
  <2> QED
    BY <1>4, <2>2
<1> QED
  BY <1>5

\* A sum no less than any element and no more than some range is between the two greatest.
LEMMA BoundedIs ==
  ASSUME NEW n \in Nat \ {0}, NEW A \in [0..(n - 1) -> Int], NEW s, Bounded(s, A, 0, n - 1), NEW b, NEW i, NEW j,
         GreatestRange(A, n, b, i, j)
  PROVE  s <= Max(SubarraySums(A, n)) /\ s >= Max({A[x] : x \in DOMAIN A})
<1>1. b = Max(SubarraySums(A, n)) /\ b \in Int
  <2>1. n \in Nat
    OBVIOUS
  <2>2. b = Max(SubarraySums(A, n))
    BY <2>1, GreatestRangeIs
  <2>3. i \in 0..n /\ j \in -1..(n - 1) /\ b = SumOf(A, i, j)
    BY DEF GreatestRange
  <2> QED
    BY <2>1, <2>2, <2>3, SumOfIs
<1>2. s <= b
  <2>1. PICK x \in 0..(n - 1) : \E y \in x..(n - 1) : s <= SumOf(A, x, y)
    BY DEF Bounded
  <2>2. PICK y \in x..(n - 1) : s <= SumOf(A, x, y)
    BY <2>1
  <2>3. x \in 0..n /\ y \in -1..(n - 1) /\ n \in Nat
    OBVIOUS
  <2>4. SumOf(A, x, y) \in Int /\ SumOf(A, x, y) <= b
    BY <2>3, SumOfIs DEF GreatestRange
  <2> QED
    BY <1>1, <2>2, <2>4 DEF Bounded
<1> DEFINE S == {A[x] : x \in DOMAIN A}
<1>3. PICK z \in 0..(n - 1) : \A x \in 0..(n - 1) : A[x] <= A[z]
  BY SomeGreatest
<1>4. S \in SUBSET Int /\ A[z] \in S /\ \A x \in S : x <= A[z]
  BY <1>3
<1> HIDE DEF S
<1>5. Max(S) = A[z]
  BY <1>4, MaxIs
<1>6. s >= A[z]
  BY DEF Bounded
<1> QED
  BY <1>1, <1>2, <1>5, <1>6 DEF S

\* Whatever program ran, of whatever input, answers what its run shows.
LEMMA MaxSumRuns == MaxSumRan => BestSumsFound
<1> SUFFICES ASSUME MaxSumRan PROVE BestSumsFound
  OBVIOUS
<1>1. CASE best.op = 0
  BY <1>1 DEF BestSumsFound
<1>2. ASSUME NEW A \in Lists, NEW op \in 1..3,
             best = [op |-> op, A |-> A, n |-> Size(A), answer |-> AnswerOf(op, A, Size(A))]
      PROVE  BestSumsFound
  <2> DEFINE n == Size(A)
             a == AnswerOf(op, A, n)
  <2>1. best.op = op /\ best.A = A /\ best.n = n /\ best.answer = a
    BY <1>2
  <2>2. /\ n \in Nat \ {0} /\ n \in Nat /\ A \in [0..(n - 1) -> Int] /\ LeastCentre \in Int /\ LeastCentre <= 0
        /\ \A x \in 0..(n - 1) : \A y \in x..(n - 1) : SumOf(A, x, y) > LeastCentre
        /\ \A x \in 0..(n - 1) : \A y \in x..(n - 1) : SumOf(A, x, y) > IntMin
    BY ListsAre
  <2> HIDE DEF n
  <2>3. CASE op = 1
    <3>1. a = Algorithm1(A, n)
      BY <2>3 DEF AnswerOf
    <3> HIDE DEF a
    <3>2. GreatestRange(A, n, a.sum, a.i, a.j)
      BY <2>2, <3>1, Algorithm1Finds
    <3>3. a.sum = Max(SubarraySums(A, n)) /\ a.sum = SumOf(A, a.i, a.j)
      BY <2>2, <3>2, GreatestRangeIs
    <3> QED
      BY <2>1, <2>3, <3>3 DEF BestSumsFound
  <2>4. CASE op = 2
    <3>1. a = Algorithm2(A, n)
      BY <2>4 DEF AnswerOf
    <3> HIDE DEF a
    <3>2. Bounded(a.sum, A, 0, n - 1)
      BY <2>2, <3>1, Algorithm2Finds
    <3>3. LET b == Algorithm1(A, n) IN GreatestRange(A, n, b.sum, b.i, b.j)
      BY <2>2, Algorithm1Finds
    <3>4. a.sum <= Max(SubarraySums(A, n)) /\ a.sum >= Max({A[x] : x \in DOMAIN A})
      BY <2>2, <3>2, <3>3, BoundedIs
    <3> QED
      BY <2>1, <2>4, <3>4 DEF BestSumsFound
  <2>5. CASE op = 3
    <3>1. a = Algorithm3(A, n)
      BY <2>5 DEF AnswerOf
    <3> HIDE DEF a
    <3>2. GreatestRange(A, n, a.sum, a.i, a.j)
      BY <2>2, <3>1, Algorithm3Finds
    <3>3. a.sum = Max(SubarraySums(A, n)) /\ a.sum = SumOf(A, a.i, a.j)
      BY <2>2, <3>2, GreatestRangeIs
    <3> QED
      BY <2>1, <2>5, <3>3 DEF BestSumsFound
  <2> QED
    BY <2>3, <2>4, <2>5
<1>3. ASSUME NEW A \in Squares, NEW op \in 4..5,
             best = [op |-> op, A |-> A, n |-> SquareSize(A), answer |-> AnswerOf(op, A, SquareSize(A))]
      PROVE  BestSumsFound
  <2> DEFINE n == SquareSize(A)
             a == AnswerOf(op, A, n)
  <2>1. best.op = op /\ best.A = A /\ best.n = n /\ best.answer = a
    BY <1>3
  <2>2. /\ n \in Nat \ {0} /\ n \in Nat /\ A \in [(0..(n - 1)) \X (0..(n - 1)) -> Int]
        /\ \A r \in Ranges(n) : \A c \in Ranges(n) : SumIn(A, r[1], r[2], c[1], c[2]) > IntMin
    BY SquaresAre
  <2>3. a = (IF op = 4 THEN Algorithm4(A, n) ELSE Algorithm5(A, n))
    BY DEF AnswerOf
  <2> HIDE DEF n, a
  <2>4. GreatestRectangle(A, n, a.sum, <<a.k, a.l>>, <<a.i, a.j>>)
    <3>1. CASE op = 4
      BY <2>2, <2>3, <3>1, Algorithm4Finds
    <3>2. CASE op # 4
      BY <2>2, <2>3, <3>2, Algorithm5Finds
    <3> QED
      BY <3>1, <3>2
  <2>5. a.sum = Max(RectangleSums(A, n)) /\ a.sum = SumIn(A, a.k, a.l, a.i, a.j)
    <3> DEFINE r == <<a.k, a.l>>
               c == <<a.i, a.j>>
    <3>1. r[1] = a.k /\ r[2] = a.l /\ c[1] = a.i /\ c[2] = a.j
      OBVIOUS
    <3>2. GreatestRectangle(A, n, a.sum, r, c)
      BY <2>4
    <3> HIDE DEF r, c
    <3>3. a.sum = Max(RectangleSums(A, n)) /\ a.sum = SumIn(A, r[1], r[2], c[1], c[2])
      BY <2>2, <3>2, GreatestRectangleIs
    <3> QED
      BY <3>1, <3>3
  <2>6. op # 0 /\ op \notin {1, 3} /\ op # 2
    OBVIOUS
  <2> QED
    BY <2>1, <2>5, <2>6 DEF BestSumsFound
<1> QED
  BY <1>1, <1>2, <1>3 DEF MaxSumRan

\* In every state a program has run of no input yet, or of one.
LEMMA OnlyMaxSumRan == MaxSumSpec => []MaxSumRan
<1>1. MaxSumInit => MaxSumRan
  BY DEF MaxSumInit, MaxSumRan
<1>2. MaxSumRan /\ [MaxSumMain]_best => MaxSumRan'
  <2> SUFFICES ASSUME MaxSumRan, [MaxSumMain]_best PROVE MaxSumRan'
    OBVIOUS
  <2>1. CASE UNCHANGED best
    BY <2>1 DEF MaxSumRan
  <2>2. ASSUME NEW A \in Lists, NEW op \in 1..3,
               best' = [op |-> op, A |-> A, n |-> Size(A),
                        answer |-> CASE op = 1 -> Algorithm1(A, Size(A)) [] op = 2 -> Algorithm2(A, Size(A))
                                     [] op = 3 -> Algorithm3(A, Size(A))]
        PROVE  MaxSumRan'
    <3>1. AnswerOf(op, A, Size(A)) = CASE op = 1 -> Algorithm1(A, Size(A)) [] op = 2 -> Algorithm2(A, Size(A))
                                       [] op = 3 -> Algorithm3(A, Size(A))
      <4>1. op = 1 \/ op = 2 \/ op = 3
        OBVIOUS
      <4> QED
        BY <4>1 DEF AnswerOf
    <3>2. best' = [op |-> op, A |-> A, n |-> Size(A), answer |-> AnswerOf(op, A, Size(A))]
      BY <2>2, <3>1, Zenon
    <3> QED
      BY <3>2, Zenon DEF MaxSumRan
  <2>3. ASSUME NEW A \in Squares, NEW op \in 4..5,
               best' = [op |-> op, A |-> A, n |-> SquareSize(A),
                        answer |-> IF op = 4 THEN Algorithm4(A, SquareSize(A)) ELSE Algorithm5(A, SquareSize(A))]
        PROVE  MaxSumRan'
    <3>1. AnswerOf(op, A, SquareSize(A))
            = IF op = 4 THEN Algorithm4(A, SquareSize(A)) ELSE Algorithm5(A, SquareSize(A))
      <4>1. op = 4 \/ op = 5
        OBVIOUS
      <4> QED
        BY <4>1 DEF AnswerOf
    <3>2. best' = [op |-> op, A |-> A, n |-> SquareSize(A), answer |-> AnswerOf(op, A, SquareSize(A))]
      BY <2>3, <3>1, Zenon
    <3> QED
      BY <3>2, Zenon DEF MaxSumRan
  <2> QED
    BY <2>1, <2>2, <2>3, Zenon DEF MaxSumMain
<1> QED
  BY <1>1, <1>2, PTL DEF MaxSumSpec

\* The programs of HW1 answer the greatest sum of a subarray, or of a rectangle, and where
\* it is; the one that halves answers a sum that some range exceeds or has, and that no
\* element exceeds (main.c, Algorithm1 to Algorithm5).
THEOREM BestSumsAreFound == MaxSumSpec => []BestSumsFound
<1>1. MaxSumRan => BestSumsFound
  BY MaxSumRuns
<1> QED
  BY <1>1, OnlyMaxSumRan, PTL

----------------------------------------------------------------------------
(* Subset sums: the values that the recursive functions take *)

\* The rows of the table.
TableRun(g, set, L, m) ==
  g = [k \in 0..m |-> IF k = 0 THEN [j \in 0..L |-> j = 0 \/ j = set[0]] ELSE row(g[k - 1], set[k], L)]
LEMMA TableRuns ==
  ASSUME NEW n \in Nat \ {0}, NEW set, NEW L
  PROVE  \E g : TableRun(g, set, L, n - 1) /\ Table(set, n, L) = g
<1> DEFINE Lengths == {m \in Nat : \E g : TableRun(g, set, L, m)}
<1>1. 0 \in Lengths
  <2> DEFINE g == [k \in 0..0 |-> [j \in 0..L |-> j = 0 \/ j = set[0]]]
             h == [k \in 0..0 |-> IF k = 0 THEN [j \in 0..L |-> j = 0 \/ j = set[0]] ELSE row(g[k - 1], set[k], L)]
  <2>1. \A k \in 0..0 : k = 0
    OBVIOUS
  <2>2. g = h
    BY <2>1, Zenon
  <2>3. TableRun(g, set, L, 0)
    BY <2>2, Zenon DEF TableRun
  <2> QED
    BY <2>3
<1>2. ASSUME NEW m \in Nat, m \in Lengths PROVE m + 1 \in Lengths
  <2>1. PICK g : TableRun(g, set, L, m)
    BY <1>2
  <2> DEFINE h == [k \in 0..(m + 1) |-> IF k = 0 THEN [j \in 0..L |-> j = 0 \/ j = set[0]] ELSE row(g[k - 1], set[k], L)]
  <2>2. ASSUME NEW k \in 0..(m + 1), k # 0 PROVE k - 1 \in 0..m /\ k - 1 \in 0..(m + 1)
    BY <2>2
  <2>3. ASSUME NEW k \in 0..m PROVE h[k] = g[k]
    <3>1. k \in 0..(m + 1)
      OBVIOUS
    <3> QED
      BY <2>1, <3>1, Zenon DEF TableRun
  <2>4. \A k \in 0..(m + 1) : h[k] = IF k = 0 THEN [j \in 0..L |-> j = 0 \/ j = set[0]] ELSE row(g[k - 1], set[k], L)
    BY Zenon
  <2>5. h = [k \in 0..(m + 1) |-> h[k]]
    OBVIOUS
  <2> HIDE DEF h
  <2>6. ASSUME NEW k \in 0..(m + 1) PROVE h[k] = IF k = 0 THEN [j \in 0..L |-> j = 0 \/ j = set[0]] ELSE row(h[k - 1], set[k], L)
    <3>1. CASE k = 0
      BY <2>4, <3>1, Zenon
    <3>2. CASE k # 0
      <4>1. h[k - 1] = g[k - 1]
        BY <2>2, <2>3, <3>2, Zenon
      <4> QED
        BY <2>4, <3>2, <4>1, Zenon
    <3> QED
      BY <3>1, <3>2, Zenon
  <2>7. TableRun(h, set, L, m + 1)
    BY <2>5, <2>6, Zenon DEF TableRun
  <2>8. m + 1 \in Nat
    OBVIOUS
  <2> QED
    BY <2>7, <2>8, Zenon
<1>3. n - 1 \in Lengths
  <2> HIDE DEF Lengths
  <2>1. n - 1 \in Nat
    OBVIOUS
  <2> QED
    BY <1>1, <1>2, <2>1, Induct, Zenon
<1> DEFINE f == CHOOSE g : TableRun(g, set, L, n - 1)
<1>4. TableRun(f, set, L, n - 1)
  BY <1>3, Zenon
<1>5. Table(set, n, L) = f
  BY Zenon DEF Table, TableRun
<1> HIDE DEF f
<1> QED
  BY <1>4, <1>5, Zenon

\* What is left to select after k elements.
SelectRun(g, d, set, n, L, m) ==
  g = [k \in 0..m |-> IF k = 0 THEN [L |-> L, sel |-> {}] ELSE select(d, set, g[k - 1], n - k)]
LEMMA SelectRuns ==
  ASSUME NEW n \in Nat, NEW d, NEW set, NEW L
  PROVE  \E g : SelectRun(g, d, set, n, L, n) /\ Selected(d, set, n, L) = g[n].sel
<1> DEFINE Lengths == {m \in Nat : \E g : SelectRun(g, d, set, n, L, m)}
<1>1. 0 \in Lengths
  <2> DEFINE g == [k \in 0..0 |-> [L |-> L, sel |-> {}]]
             h == [k \in 0..0 |-> IF k = 0 THEN [L |-> L, sel |-> {}] ELSE select(d, set, g[k - 1], n - k)]
  <2>1. \A k \in 0..0 : k = 0
    OBVIOUS
  <2>2. g = h
    BY <2>1, Zenon
  <2>3. SelectRun(g, d, set, n, L, 0)
    BY <2>2, Zenon DEF SelectRun
  <2> QED
    BY <2>3
<1>2. ASSUME NEW m \in Nat, m \in Lengths PROVE m + 1 \in Lengths
  <2>1. PICK g : SelectRun(g, d, set, n, L, m)
    BY <1>2
  <2> DEFINE h == [k \in 0..(m + 1) |-> IF k = 0 THEN [L |-> L, sel |-> {}] ELSE select(d, set, g[k - 1], n - k)]
  <2>2. ASSUME NEW k \in 0..(m + 1), k # 0 PROVE k - 1 \in 0..m /\ k - 1 \in 0..(m + 1)
    BY <2>2
  <2>3. ASSUME NEW k \in 0..m PROVE h[k] = g[k]
    <3>1. k \in 0..(m + 1)
      OBVIOUS
    <3> QED
      BY <2>1, <3>1, Zenon DEF SelectRun
  <2>4. \A k \in 0..(m + 1) : h[k] = IF k = 0 THEN [L |-> L, sel |-> {}] ELSE select(d, set, g[k - 1], n - k)
    BY Zenon
  <2>5. h = [k \in 0..(m + 1) |-> h[k]]
    OBVIOUS
  <2> HIDE DEF h
  <2>6. ASSUME NEW k \in 0..(m + 1) PROVE h[k] = IF k = 0 THEN [L |-> L, sel |-> {}] ELSE select(d, set, h[k - 1], n - k)
    <3>1. CASE k = 0
      BY <2>4, <3>1, Zenon
    <3>2. CASE k # 0
      <4>1. h[k - 1] = g[k - 1]
        BY <2>2, <2>3, <3>2, Zenon
      <4> QED
        BY <2>4, <3>2, <4>1, Zenon
    <3> QED
      BY <3>1, <3>2, Zenon
  <2>7. SelectRun(h, d, set, n, L, m + 1)
    BY <2>5, <2>6, Zenon DEF SelectRun
  <2>8. m + 1 \in Nat
    OBVIOUS
  <2> QED
    BY <2>7, <2>8, Zenon
<1>3. n \in Lengths
  <2> HIDE DEF Lengths
  <2>1. n \in Nat
    OBVIOUS
  <2> QED
    BY <1>1, <1>2, <2>1, Induct, Zenon
<1> DEFINE f == CHOOSE g : SelectRun(g, d, set, n, L, n)
<1>4. SelectRun(f, d, set, n, L, n)
  BY <1>3, Zenon
<1>5. Selected(d, set, n, L) = f[n].sel
  BY Zenon DEF Selected, SelectRun
<1> HIDE DEF f
<1> QED
  BY <1>4, <1>5, Zenon

\* The pairs with one more element, and what is merged of them after k pairs.
Longer(P, x, idx) == [i \in 1..Len(P) |-> [sum |-> P[i].sum + x, mask |-> P[i].mask \cup {idx}]]
MergeRun(g, P, T, m) ==
  g = [k \in 0..m |-> IF k = 0 THEN [i |-> 1, j |-> 1, list |-> <<>>] ELSE TakeNext(P, T, g[k - 1])]
LEMMA MergeRuns ==
  ASSUME NEW P, Len(P) \in Nat, NEW x, NEW idx, NEW T, T = Longer(P, x, idx)
  PROVE  \E g : MergeRun(g, P, T, 2 * Len(P)) /\ merge(P, x, idx) = g[2 * Len(P)].list
<1> DEFINE Lengths == {m \in Nat : \E g : MergeRun(g, P, T, m)}
<1>1. 0 \in Lengths
  <2> DEFINE g == [k \in 0..0 |-> [i |-> 1, j |-> 1, list |-> <<>>]]
             h == [k \in 0..0 |-> IF k = 0 THEN [i |-> 1, j |-> 1, list |-> <<>>] ELSE TakeNext(P, T, g[k - 1])]
  <2>1. \A k \in 0..0 : k = 0
    OBVIOUS
  <2>2. g = h
    BY <2>1, Zenon
  <2>3. MergeRun(g, P, T, 0)
    BY <2>2, Zenon DEF MergeRun
  <2> QED
    BY <2>3
<1>2. ASSUME NEW m \in Nat, m \in Lengths PROVE m + 1 \in Lengths
  <2>1. PICK g : MergeRun(g, P, T, m)
    BY <1>2
  <2> DEFINE h == [k \in 0..(m + 1) |-> IF k = 0 THEN [i |-> 1, j |-> 1, list |-> <<>>] ELSE TakeNext(P, T, g[k - 1])]
  <2>2. ASSUME NEW k \in 0..(m + 1), k # 0 PROVE k - 1 \in 0..m /\ k - 1 \in 0..(m + 1)
    BY <2>2
  <2>3. ASSUME NEW k \in 0..m PROVE h[k] = g[k]
    <3>1. k \in 0..(m + 1)
      OBVIOUS
    <3> QED
      BY <2>1, <3>1, Zenon DEF MergeRun
  <2>4. \A k \in 0..(m + 1) : h[k] = IF k = 0 THEN [i |-> 1, j |-> 1, list |-> <<>>] ELSE TakeNext(P, T, g[k - 1])
    BY Zenon
  <2>5. h = [k \in 0..(m + 1) |-> h[k]]
    OBVIOUS
  <2> HIDE DEF h
  <2>6. ASSUME NEW k \in 0..(m + 1) PROVE h[k] = IF k = 0 THEN [i |-> 1, j |-> 1, list |-> <<>>] ELSE TakeNext(P, T, h[k - 1])
    <3>1. CASE k = 0
      BY <2>4, <3>1, Zenon
    <3>2. CASE k # 0
      <4>1. h[k - 1] = g[k - 1]
        BY <2>2, <2>3, <3>2, Zenon
      <4> QED
        BY <2>4, <3>2, <4>1, Zenon
    <3> QED
      BY <3>1, <3>2, Zenon
  <2>7. MergeRun(h, P, T, m + 1)
    BY <2>5, <2>6, Zenon DEF MergeRun
  <2>8. m + 1 \in Nat
    OBVIOUS
  <2> QED
    BY <2>7, <2>8, Zenon
<1>3. 2 * Len(P) \in Lengths
  <2> HIDE DEF Lengths
  <2>1. 2 * Len(P) \in Nat
    OBVIOUS
  <2> QED
    BY <1>1, <1>2, <2>1, Induct, Zenon
<1> DEFINE f == CHOOSE g : MergeRun(g, P, T, 2 * Len(P))
<1>4. MergeRun(f, P, T, 2 * Len(P))
  BY <1>3, Zenon
<1>5. merge(P, x, idx) = f[2 * Len(P)].list
  BY Zenon DEF merge, Longer, MergeRun
<1> HIDE DEF f
<1> QED
  BY <1>4, <1>5, Zenon

\* What is kept of the first k + 1 pairs.
TrimRun(g, P, n, e, m) ==
  g = [k \in 0..m |-> IF k = 0 THEN <<P[1]>> ELSE KeepNext(g[k - 1], P[k + 1], n, e)]
LEMMA TrimRuns ==
  ASSUME NEW P, Len(P) \in Nat \ {0}, NEW n, NEW e
  PROVE  \E g : TrimRun(g, P, n, e, Len(P) - 1) /\ trim(P, n, e) = g[Len(P) - 1]
<1> DEFINE Lengths == {m \in Nat : \E g : TrimRun(g, P, n, e, m)}
<1>1. 0 \in Lengths
  <2> DEFINE g == [k \in 0..0 |-> <<P[1]>>]
             h == [k \in 0..0 |-> IF k = 0 THEN <<P[1]>> ELSE KeepNext(g[k - 1], P[k + 1], n, e)]
  <2>1. \A k \in 0..0 : k = 0
    OBVIOUS
  <2>2. g = h
    BY <2>1, Zenon
  <2>3. TrimRun(g, P, n, e, 0)
    BY <2>2, Zenon DEF TrimRun
  <2> QED
    BY <2>3
<1>2. ASSUME NEW m \in Nat, m \in Lengths PROVE m + 1 \in Lengths
  <2>1. PICK g : TrimRun(g, P, n, e, m)
    BY <1>2
  <2> DEFINE h == [k \in 0..(m + 1) |-> IF k = 0 THEN <<P[1]>> ELSE KeepNext(g[k - 1], P[k + 1], n, e)]
  <2>2. ASSUME NEW k \in 0..(m + 1), k # 0 PROVE k - 1 \in 0..m /\ k - 1 \in 0..(m + 1)
    BY <2>2
  <2>3. ASSUME NEW k \in 0..m PROVE h[k] = g[k]
    <3>1. k \in 0..(m + 1)
      OBVIOUS
    <3> QED
      BY <2>1, <3>1, Zenon DEF TrimRun
  <2>4. \A k \in 0..(m + 1) : h[k] = IF k = 0 THEN <<P[1]>> ELSE KeepNext(g[k - 1], P[k + 1], n, e)
    BY Zenon
  <2>5. h = [k \in 0..(m + 1) |-> h[k]]
    OBVIOUS
  <2> HIDE DEF h
  <2>6. ASSUME NEW k \in 0..(m + 1) PROVE h[k] = IF k = 0 THEN <<P[1]>> ELSE KeepNext(h[k - 1], P[k + 1], n, e)
    <3>1. CASE k = 0
      BY <2>4, <3>1, Zenon
    <3>2. CASE k # 0
      <4>1. h[k - 1] = g[k - 1]
        BY <2>2, <2>3, <3>2, Zenon
      <4> QED
        BY <2>4, <3>2, <4>1, Zenon
    <3> QED
      BY <3>1, <3>2, Zenon
  <2>7. TrimRun(h, P, n, e, m + 1)
    BY <2>5, <2>6, Zenon DEF TrimRun
  <2>8. m + 1 \in Nat
    OBVIOUS
  <2> QED
    BY <2>7, <2>8, Zenon
<1>3. Len(P) - 1 \in Lengths
  <2> HIDE DEF Lengths
  <2>1. Len(P) - 1 \in Nat
    OBVIOUS
  <2> QED
    BY <1>1, <1>2, <2>1, Induct, Zenon
<1> DEFINE f == CHOOSE g : TrimRun(g, P, n, e, Len(P) - 1)
<1>4. TrimRun(f, P, n, e, Len(P) - 1)
  BY <1>3, Zenon
<1>5. trim(P, n, e) = f[Len(P) - 1]
  BY Zenon DEF trim, TrimRun
<1> HIDE DEF f
<1> QED
  BY <1>4, <1>5, Zenon

\* The lists after the first k elements.
ListsRun(g, n, S, L, e, m) ==
  g = [k \in 0..m |-> IF k = 0 THEN <<[sum |-> 0, mask |-> {}]>> ELSE AddElement(g[k - 1], S[k - 1], k - 1, n, L, e)]
LEMMA ListsRuns ==
  ASSUME NEW n \in Nat, NEW S, NEW L, NEW e
  PROVE  \E g : ListsRun(g, n, S, L, e, n) /\ SumLists(n, S, L, e) = g
<1> DEFINE Lengths == {m \in Nat : \E g : ListsRun(g, n, S, L, e, m)}
<1>1. 0 \in Lengths
  <2> DEFINE g == [k \in 0..0 |-> <<[sum |-> 0, mask |-> {}]>>]
             h == [k \in 0..0 |-> IF k = 0 THEN <<[sum |-> 0, mask |-> {}]>> ELSE AddElement(g[k - 1], S[k - 1], k - 1, n, L, e)]
  <2>1. \A k \in 0..0 : k = 0
    OBVIOUS
  <2>2. g = h
    BY <2>1, Zenon
  <2>3. ListsRun(g, n, S, L, e, 0)
    BY <2>2, Zenon DEF ListsRun
  <2> QED
    BY <2>3
<1>2. ASSUME NEW m \in Nat, m \in Lengths PROVE m + 1 \in Lengths
  <2>1. PICK g : ListsRun(g, n, S, L, e, m)
    BY <1>2
  <2> DEFINE h == [k \in 0..(m + 1) |-> IF k = 0 THEN <<[sum |-> 0, mask |-> {}]>> ELSE AddElement(g[k - 1], S[k - 1], k - 1, n, L, e)]
  <2>2. ASSUME NEW k \in 0..(m + 1), k # 0 PROVE k - 1 \in 0..m /\ k - 1 \in 0..(m + 1)
    BY <2>2
  <2>3. ASSUME NEW k \in 0..m PROVE h[k] = g[k]
    <3>1. k \in 0..(m + 1)
      OBVIOUS
    <3> QED
      BY <2>1, <3>1, Zenon DEF ListsRun
  <2>4. \A k \in 0..(m + 1) : h[k] = IF k = 0 THEN <<[sum |-> 0, mask |-> {}]>> ELSE AddElement(g[k - 1], S[k - 1], k - 1, n, L, e)
    BY Zenon
  <2>5. h = [k \in 0..(m + 1) |-> h[k]]
    OBVIOUS
  <2> HIDE DEF h
  <2>6. ASSUME NEW k \in 0..(m + 1) PROVE h[k] = IF k = 0 THEN <<[sum |-> 0, mask |-> {}]>> ELSE AddElement(h[k - 1], S[k - 1], k - 1, n, L, e)
    <3>1. CASE k = 0
      BY <2>4, <3>1, Zenon
    <3>2. CASE k # 0
      <4>1. h[k - 1] = g[k - 1]
        BY <2>2, <2>3, <3>2, Zenon
      <4> QED
        BY <2>4, <3>2, <4>1, Zenon
    <3> QED
      BY <3>1, <3>2, Zenon
  <2>7. ListsRun(h, n, S, L, e, m + 1)
    BY <2>5, <2>6, Zenon DEF ListsRun
  <2>8. m + 1 \in Nat
    OBVIOUS
  <2> QED
    BY <2>7, <2>8, Zenon
<1>3. n \in Lengths
  <2> HIDE DEF Lengths
  <2>1. n \in Nat
    OBVIOUS
  <2> QED
    BY <1>1, <1>2, <2>1, Induct, Zenon
<1> DEFINE f == CHOOSE g : ListsRun(g, n, S, L, e, n)
<1>4. ListsRun(f, n, S, L, e, n)
  BY <1>3, Zenon
<1>5. SumLists(n, S, L, e) = f
  BY Zenon DEF SumLists, ListsRun
<1> HIDE DEF f
<1> QED
  BY <1>4, <1>5, Zenon

----------------------------------------------------------------------------
(* Merging two lists of pairs *)

Pairs(n) == [sum : Nat, mask : SUBSET (0..(n - 1))]
Ascending(R) == \A a, b \in 1..Len(R) : a <= b => R[a].sum <= R[b].sum
Has(R, q) == \E a \in 1..Len(R) : R[a] = q

LEMMA PairsAre ==
  ASSUME NEW n \in Nat, NEW P \in Seq(Pairs(n))
  PROVE  /\ Len(P) \in Nat
         /\ \A a \in 1..Len(P) : /\ P[a] \in Pairs(n) /\ P[a].sum \in Nat
                                 /\ P[a].mask \in SUBSET (0..(n - 1))
<1>1. \A a \in 1..Len(P) : P[a] \in Pairs(n)
  OBVIOUS
<1>2. \A q \in Pairs(n) : q.sum \in Nat /\ q.mask \in SUBSET (0..(n - 1))
  BY DEF Pairs
<1>3. Len(P) \in Nat
  OBVIOUS
<1> QED
  BY <1>1, <1>2, <1>3, Zenon

\* A pair put at the end that is not below the others.
LEMMA AscendingAppend ==
  ASSUME NEW n \in Nat, NEW R \in Seq(Pairs(n)), Ascending(R), NEW q \in Pairs(n),
         \A a \in 1..Len(R) : R[a].sum <= q.sum
  PROVE  /\ Append(R, q) \in Seq(Pairs(n)) /\ Len(Append(R, q)) = Len(R) + 1
         /\ Append(R, q)[Len(R) + 1] = q /\ \A a \in 1..Len(R) : Append(R, q)[a] = R[a]
         /\ Ascending(Append(R, q))
         /\ \A p : Has(Append(R, q), p) <=> Has(R, p) \/ p = q
<1> DEFINE Q == Append(R, q)
<1>1. /\ Q \in Seq(Pairs(n)) /\ Len(Q) = Len(R) + 1 /\ Len(R) \in Nat
      /\ Q[Len(R) + 1] = q /\ \A a \in 1..Len(R) : Q[a] = R[a]
  OBVIOUS
<1> HIDE DEF Q
<1>2. Ascending(Q)
  <2> SUFFICES ASSUME NEW a \in 1..Len(Q), NEW b \in 1..Len(Q), a <= b PROVE Q[a].sum <= Q[b].sum
    BY DEF Ascending
  <2>1. q.sum \in Nat
    BY DEF Pairs
  <2>2. CASE b <= Len(R)
    <3>1. a \in 1..Len(R) /\ b \in 1..Len(R)
      BY <1>1, <2>2
    <3> QED
      BY <1>1, <3>1 DEF Ascending
  <2>3. CASE b = Len(R) + 1 /\ a <= Len(R)
    <3>1. a \in 1..Len(R)
      BY <1>1, <2>3
    <3> QED
      BY <1>1, <2>3, <3>1
  <2>4. CASE b = Len(R) + 1 /\ a = Len(R) + 1
    BY <1>1, <2>1, <2>4
  <2> QED
    BY <1>1, <2>2, <2>3, <2>4
<1>3. \A p : Has(Q, p) <=> Has(R, p) \/ p = q
  <2>1. 1..Len(Q) = (1..Len(R)) \cup {Len(R) + 1}
    BY <1>1
  <2> QED
    BY <1>1, <2>1, Zenon DEF Has
<1> QED
  BY <1>1, <1>2, <1>3, Zenon DEF Q

\* What the first m.i - 1 pairs of P and the first m.j - 1 of T are merged to.
MergeInv(m, P, T, k, n) ==
  /\ m \in [i : 1..(Len(P) + 1), j : 1..(Len(P) + 1), list : Seq(Pairs(n))]
  /\ m.i + m.j = k + 2 /\ Len(m.list) = k /\ Ascending(m.list)
  /\ \A c \in 1..k : /\ \A a \in m.i..Len(P) : m.list[c].sum <= P[a].sum
                     /\ \A b \in m.j..Len(T) : m.list[c].sum <= T[b].sum
  /\ \A a \in 1..(m.i - 1) : Has(m.list, P[a])
  /\ \A b \in 1..(m.j - 1) : Has(m.list, T[b])
  /\ \A p : Has(m.list, p) => Has(P, p) \/ Has(T, p)

LEMMA OneMore ==
  ASSUME NEW l \in Nat, NEW a \in 1..l
  PROVE  a + 1 \in 1..(l + 1)
OBVIOUS

LEMMA TakeKeeps ==
  ASSUME NEW n \in Nat, NEW P \in Seq(Pairs(n)), NEW T \in Seq(Pairs(n)), Len(T) = Len(P),
         Ascending(P), Ascending(T), NEW k \in 0..(2 * Len(P) - 1), NEW m, MergeInv(m, P, T, k, n)
  PROVE  MergeInv(TakeNext(P, T, m), P, T, k + 1, n)
<1> DEFINE l == Len(P)
           first == m.i <= Len(P) /\ (m.j > Len(T) \/ P[m.i].sum < T[m.j].sum)
           q == IF first THEN P[m.i] ELSE T[m.j]
           R == Append(m.list, q)
           i == IF first THEN m.i + 1 ELSE m.i
           j == IF first THEN m.j ELSE m.j + 1
           t == TakeNext(P, T, m)
<1>1. /\ l \in Nat /\ Len(T) = l /\ k \in Nat /\ k < 2 * l /\ m.i \in 1..(l + 1) /\ m.j \in 1..(l + 1)
      /\ m.i + m.j = k + 2 /\ m.list \in Seq(Pairs(n)) /\ Len(m.list) = k /\ Ascending(m.list)
  BY DEF MergeInv
<1>2. m = [i |-> m.i, j |-> m.j, list |-> m.list]
  BY DEF MergeInv
<1>3. t = [i |-> i, j |-> j, list |-> R]
  <2>1. t = IF first THEN [m EXCEPT !.i = m.i + 1, !.list = R] ELSE [m EXCEPT !.j = m.j + 1, !.list = R]
    BY DEF TakeNext
  <2> QED
    BY <1>2, <2>1
<1>4. \A a \in 1..l : P[a] \in Pairs(n) /\ P[a].sum \in Nat /\ T[a] \in Pairs(n) /\ T[a].sum \in Nat
  BY <1>1, PairsAre
<1>5. /\ first => m.i \in 1..l /\ \A b \in m.j..l : P[m.i].sum <= T[b].sum
      /\ ~first => m.j \in 1..l /\ \A a \in m.i..l : T[m.j].sum <= P[a].sum
  <2>1. CASE first
    <3>1. m.i \in 1..l
      BY <1>1, <2>1
    <3>2. ASSUME NEW b \in m.j..l PROVE P[m.i].sum <= T[b].sum
      <4>1. m.j \in 1..l /\ b \in 1..l /\ m.j <= b
        BY <1>1
      <4>2. T[m.j].sum <= T[b].sum
        BY <1>1, <4>1 DEF Ascending
      <4>3. P[m.i].sum < T[m.j].sum
        BY <1>1, <2>1, <4>1
      <4> QED
        BY <1>4, <3>1, <4>1, <4>2, <4>3
    <3> QED
      BY <2>1, <3>1, <3>2
  <2>2. CASE ~first
    <3>1. m.j \in 1..l
      BY <1>1, <2>2
    <3>2. ASSUME NEW a \in m.i..l PROVE T[m.j].sum <= P[a].sum
      <4>1. m.i \in 1..l /\ a \in 1..l /\ m.i <= a
        BY <1>1
      <4>2. P[m.i].sum <= P[a].sum
        BY <1>1, <4>1 DEF Ascending
      <4>3. T[m.j].sum <= P[m.i].sum
        BY <1>1, <1>4, <2>2, <3>1, <4>1
      <4> QED
        BY <1>4, <3>1, <4>1, <4>2, <4>3
    <3> QED
      BY <2>2, <3>1, <3>2
  <2> QED
    BY <2>1, <2>2
<1> HIDE DEF first
<1>6. q \in Pairs(n) /\ q.sum \in Nat
  BY <1>4, <1>5
<1>7. \A c \in 1..k : m.list[c].sum <= q.sum
  <2> SUFFICES ASSUME NEW c \in 1..k PROVE m.list[c].sum <= q.sum
    OBVIOUS
  <2>1. CASE first
    <3>1. m.i \in m.i..l
      BY <1>1, <1>5, <2>1
    <3> QED
      BY <2>1, <3>1 DEF MergeInv
  <2>2. CASE ~first
    <3>1. m.j \in m.j..l
      BY <1>1, <1>5, <2>2
    <3> QED
      BY <1>1, <2>2, <3>1 DEF MergeInv
  <2> QED
    BY <2>1, <2>2
<1>8. /\ R \in Seq(Pairs(n)) /\ Len(R) = k + 1 /\ R[k + 1] = q /\ \A a \in 1..k : R[a] = m.list[a]
      /\ Ascending(R) /\ \A p : Has(R, p) <=> Has(m.list, p) \/ p = q
  <2> HIDE DEF q
  <2>1. \A a \in 1..Len(m.list) : m.list[a].sum <= q.sum
    BY <1>1, <1>7
  <2>2. LET Q == Append(m.list, q) IN
          /\ Q \in Seq(Pairs(n)) /\ Len(Q) = Len(m.list) + 1
          /\ Q[Len(m.list) + 1] = q /\ \A a \in 1..Len(m.list) : Q[a] = m.list[a]
          /\ Ascending(Q) /\ \A p : Has(Q, p) <=> Has(m.list, p) \/ p = q
    BY <1>1, <1>6, <2>1, AscendingAppend
  <2> QED
    BY <1>1, <2>2
<1>9. i \in 1..(l + 1) /\ j \in 1..(l + 1) /\ i + j = (k + 1) + 2
  <2>1. CASE first
    <3>1. i = m.i + 1 /\ j = m.j
      BY <2>1
    <3>2. m.i \in 1..l /\ m.j \in 1..(l + 1) /\ m.i + m.j = k + 2 /\ l \in Nat /\ k \in Nat
      BY <1>1, <1>5, <2>1
    <3> HIDE DEF i, j, l
    <3>3. m.i \in Int /\ m.j \in Int
      BY <3>2
    <3>4. m.i + 1 \in 1..(l + 1)
      BY <3>2, OneMore
    <3>5. (m.i + 1) + m.j = (k + 1) + 2
      BY <3>2, <3>3
    <3> QED
      BY <3>1, <3>2, <3>4, <3>5, Zenon
  <2>2. CASE ~first
    <3>1. i = m.i /\ j = m.j + 1
      BY <2>2
    <3>2. m.j \in 1..l /\ m.i \in 1..(l + 1) /\ m.i + m.j = k + 2 /\ l \in Nat /\ k \in Nat
      BY <1>1, <1>5, <2>2
    <3> HIDE DEF i, j, l
    <3>3. m.i \in Int /\ m.j \in Int
      BY <3>2
    <3>4. m.j + 1 \in 1..(l + 1)
      BY <3>2, OneMore
    <3>5. m.i + (m.j + 1) = (k + 1) + 2
      BY <3>2, <3>3
    <3> QED
      BY <3>1, <3>2, <3>4, <3>5, Zenon
  <2> QED
    BY <2>1, <2>2
<1>10. ASSUME NEW c \in 1..(k + 1)
       PROVE  /\ \A a \in i..l : R[c].sum <= P[a].sum
              /\ \A b \in j..l : R[c].sum <= T[b].sum
  <2>1. CASE c \in 1..k
    <3>1. R[c] = m.list[c]
      BY <1>8, <2>1
    <3>2. \A a \in i..l : a \in m.i..l
      BY <1>1
    <3>3. \A b \in j..l : b \in m.j..Len(T)
      BY <1>1
    <3>4. /\ \A a \in m.i..Len(P) : m.list[c].sum <= P[a].sum
          /\ \A b \in m.j..Len(T) : m.list[c].sum <= T[b].sum
      BY <2>1 DEF MergeInv
    <3> QED
      BY <3>1, <3>2, <3>3, <3>4
  <2>2. CASE c = k + 1
    <3>1. R[c] = q
      BY <1>8, <2>2
    <3>2. ASSUME first
          PROVE  /\ \A a \in i..l : q.sum <= P[a].sum
                 /\ \A b \in j..l : q.sum <= T[b].sum
      <4>1. \A a \in i..l : a \in 1..l /\ m.i <= a /\ m.i \in 1..l
        BY <1>1, <1>5, <3>2
      <4>2. \A a \in i..l : P[m.i].sum <= P[a].sum
        BY <4>1 DEF Ascending
      <4> QED
        BY <1>5, <3>2, <4>2
    <3>3. ASSUME ~first
          PROVE  /\ \A a \in i..l : q.sum <= P[a].sum
                 /\ \A b \in j..l : q.sum <= T[b].sum
      <4>1. \A b \in j..l : b \in 1..Len(T) /\ m.j <= b /\ m.j \in 1..Len(T)
        BY <1>1, <1>5, <3>3
      <4>2. \A b \in j..l : T[m.j].sum <= T[b].sum
        BY <4>1 DEF Ascending
      <4> QED
        BY <1>5, <3>3, <4>2
    <3> QED
      BY <3>1, <3>2, <3>3
  <2>3. c \in 1..k \/ c = k + 1
    BY <1>1
  <2> QED
    BY <2>1, <2>2, <2>3, Zenon
<1>11. \A a \in 1..(i - 1) : Has(R, P[a])
  <2> SUFFICES ASSUME NEW a \in 1..(i - 1) PROVE Has(R, P[a])
    OBVIOUS
  <2>1. CASE a \in 1..(m.i - 1)
    BY <1>8, <2>1 DEF MergeInv
  <2>2. CASE a \notin 1..(m.i - 1)
    <3>1. first /\ a = m.i
      BY <1>1, <2>2
    <3> QED
      BY <1>8, <3>1
  <2> QED
    BY <2>1, <2>2
<1>12. \A b \in 1..(j - 1) : Has(R, T[b])
  <2> SUFFICES ASSUME NEW b \in 1..(j - 1) PROVE Has(R, T[b])
    OBVIOUS
  <2>1. CASE b \in 1..(m.j - 1)
    BY <1>8, <2>1 DEF MergeInv
  <2>2. CASE b \notin 1..(m.j - 1)
    <3>1. ~first /\ b = m.j
      BY <1>1, <2>2
    <3> QED
      BY <1>8, <3>1
  <2> QED
    BY <2>1, <2>2
<1>13. \A p : Has(R, p) => Has(P, p) \/ Has(T, p)
  <2>1. Has(P, q) \/ Has(T, q)
    BY <1>1, <1>5 DEF Has
  <2>2. \A p : Has(m.list, p) => Has(P, p) \/ Has(T, p)
    BY DEF MergeInv
  <2> HIDE DEF q, R
  <2> QED
    BY <1>8, <2>1, <2>2, Zenon
<1> HIDE DEF q, R, i, j, l
<1>14. [i |-> i, j |-> j, list |-> R] \in [i : 1..(Len(P) + 1), j : 1..(Len(P) + 1), list : Seq(Pairs(n))]
  BY <1>8, <1>9 DEF l
<1>15. MergeInv([i |-> i, j |-> j, list |-> R], P, T, k + 1, n)
  <2>1. Len(P) = l /\ Len(T) = l
    BY <1>1 DEF l
  <2> QED
    BY <1>8, <1>9, <1>10, <1>11, <1>12, <1>13, <1>14, <2>1 DEF MergeInv
<1> QED
  BY <1>3, <1>15, Zenon

\* What merge returns: all pairs, in the order of their sums.
With(p, x, idx) == [sum |-> p.sum + x, mask |-> p.mask \cup {idx}]
Merges(R, P, x, idx, n) ==
  /\ R \in Seq(Pairs(n)) /\ Ascending(R)
  /\ \A p : Has(P, p) => Has(R, p) /\ Has(R, With(p, x, idx))
  /\ \A q : Has(R, q) => Has(P, q) \/ \E p : Has(P, p) /\ q = With(p, x, idx)
LEMMA MergeIs ==
  ASSUME NEW n \in Nat, NEW P \in Seq(Pairs(n)), Ascending(P), NEW x \in Nat, NEW idx \in 0..(n - 1)
  PROVE  Merges(merge(P, x, idx), P, x, idx, n)
<1> DEFINE R == merge(P, x, idx)
           W(p) == With(p, x, idx)
           T == Longer(P, x, idx)
           l == Len(P)
<1>1. l \in Nat /\ \A a \in 1..l : P[a] \in Pairs(n) /\ P[a].sum \in Nat /\ P[a].mask \in SUBSET (0..(n - 1))
  BY PairsAre
<1>2. T \in Seq(Pairs(n)) /\ Len(T) = l /\ \A a \in 1..l : T[a] = W(P[a])
  <2>1. \A a \in 1..l : W(P[a]) \in Pairs(n)
    BY <1>1 DEF Pairs, With
  <2>2. T = [a \in 1..l |-> W(P[a])]
    BY Zenon DEF Longer, With
  <2> HIDE DEF W, T
  <2> QED
    BY <1>1, <2>1, <2>2
<1>3. Ascending(T)
  <2> SUFFICES ASSUME NEW a \in 1..l, NEW b \in 1..l, a <= b PROVE T[a].sum <= T[b].sum
    BY <1>2 DEF Ascending
  <2>1. P[a].sum <= P[b].sum /\ P[a].sum \in Nat /\ P[b].sum \in Nat
    BY <1>1 DEF Ascending
  <2>2. T[a] = W(P[a]) /\ T[b] = W(P[b])
    BY <1>2, Zenon
  <2>3. T[a].sum = P[a].sum + x /\ T[b].sum = P[b].sum + x
    BY <2>2 DEF With
  <2> QED
    BY <2>1, <2>3
<1> HIDE DEF T
<1>4. PICK g : MergeRun(g, P, T, 2 * l) /\ merge(P, x, idx) = g[2 * l].list
  BY <1>1, MergeRuns, Zenon DEF T
<1> DEFINE Good == {k \in Nat : k <= 2 * l => MergeInv(g[k], P, T, k, n)}
<1>5. g[0] = [i |-> 1, j |-> 1, list |-> <<>>] /\ \A k \in 1..(2 * l) : g[k] = TakeNext(P, T, g[k - 1])
  <2>1. 0 \in 0..(2 * l) /\ \A k \in 1..(2 * l) : k \in 0..(2 * l) /\ k # 0
    BY <1>1
  <2> QED
    BY <1>4, <2>1, Zenon DEF MergeRun
<1>6. 0 \in Good
  <2>1. <<>> \in Seq(Pairs(n)) /\ Len(<<>>) = 0 /\ Ascending(<<>>) /\ \A p : ~Has(<<>>, p)
    BY DEF Ascending, Has
  <2>2. [i |-> 1, j |-> 1, list |-> <<>>] \in [i : 1..(Len(P) + 1), j : 1..(Len(P) + 1), list : Seq(Pairs(n))]
    BY <1>1, <2>1
  <2>3. MergeInv([i |-> 1, j |-> 1, list |-> <<>>], P, T, 0, n)
    BY <1>1, <2>1, <2>2 DEF MergeInv
  <2> QED
    BY <1>5, <2>3
<1>7. ASSUME NEW k \in Nat, k \in Good PROVE k + 1 \in Good
  <2> SUFFICES ASSUME k + 1 <= 2 * l PROVE MergeInv(g[k + 1], P, T, k + 1, n)
    OBVIOUS
  <2>1. k \in 0..(2 * Len(P) - 1) /\ MergeInv(g[k], P, T, k, n) /\ k + 1 \in 1..(2 * l) /\ (k + 1) - 1 = k
    BY <1>1, <1>7
  <2>2. g[k + 1] = TakeNext(P, T, g[k])
    BY <1>5, <2>1
  <2> QED
    BY <1>2, <1>3, <2>1, <2>2, TakeKeeps
<1>8. MergeInv(g[2 * l], P, T, 2 * l, n)
  <2> HIDE DEF Good
  <2>1. \A k \in Nat : k \in Good
    BY <1>6, <1>7, Induct, Zenon
  <2>2. 2 * l \in Nat /\ 2 * l <= 2 * l
    BY <1>1
  <2> QED
    BY <2>1, <2>2 DEF Good
<1> HIDE DEF Good
<1> DEFINE m == g[2 * l]
<1> HIDE DEF m
<1>9. R \in Seq(Pairs(n)) /\ Ascending(R)
  BY <1>4, <1>8 DEF MergeInv, m
<1>10. m.i = l + 1 /\ m.j = l + 1 /\ m.list = R
  <2>1. m.i \in 1..(l + 1) /\ m.j \in 1..(l + 1) /\ m.i + m.j = 2 * l + 2
    BY <1>8 DEF MergeInv, m
  <2> QED
    BY <1>1, <1>4, <2>1 DEF m
<1>11. ASSUME NEW p, Has(P, p) PROVE Has(R, p) /\ Has(R, W(p))
  <2>1. PICK a \in 1..l : P[a] = p
    BY <1>11 DEF Has
  <2>2. a \in 1..(m.i - 1) /\ a \in 1..(m.j - 1)
    BY <1>1, <1>10
  <2>3. Has(m.list, P[a]) /\ Has(m.list, T[a])
    BY <1>8, <2>2 DEF MergeInv, m
  <2> QED
    BY <1>2, <1>10, <2>1, <2>3
<1>12. ASSUME NEW q, Has(R, q) PROVE Has(P, q) \/ \E p : Has(P, p) /\ q = W(p)
  <2>1. Has(P, q) \/ Has(T, q)
    BY <1>8, <1>10, <1>12 DEF MergeInv, m
  <2>2. ASSUME Has(T, q) PROVE \E p : Has(P, p) /\ q = W(p)
    <3>1. PICK a \in 1..l : T[a] = q
      BY <1>2, <2>2 DEF Has
    <3>2. Has(P, P[a]) /\ q = W(P[a])
      BY <1>2, <3>1 DEF Has
    <3> QED
      BY <3>2, Zenon
  <2> QED
    BY <2>1, <2>2
<1> HIDE DEF R
<1>13. Merges(R, P, x, idx, n)
  BY <1>9, <1>11, <1>12, Zenon DEF Merges, W
<1> QED
  BY <1>13, Zenon DEF R

----------------------------------------------------------------------------
(* Trimming a list, and cutting it off at the limit *)

\* Pair p may stand for q: it is not above it, and not below by more than delta.
Near(p, q, n, e) == p.sum <= q.sum /\ q.sum * (2 * n * e[2]) <= p.sum * (2 * n * e[2] + e[1])

LEMMA NearSelf ==
  ASSUME NEW n \in Nat, NEW e \in Nat \X Nat, NEW p, p.sum \in Nat
  PROVE  Near(p, p, n, e)
<1> DEFINE s == p.sum
           c == 2 * n * e[2]
           a == e[1]
<1>1. s \in Nat /\ a \in Nat /\ n \in Nat /\ e[2] \in Nat
  OBVIOUS
<1>2. n * e[2] \in Nat
  BY <1>1
<1>3. c \in Nat
  BY <1>1, <1>2
<1> HIDE DEF s, c, a
<1>4. s * (c + a) = s * c + s * a /\ s * a \in Nat /\ s * c \in Nat
  BY <1>1, <1>3
<1>5. s <= s /\ s * c <= s * (c + a)
  BY <1>1, <1>4
<1> QED
  BY <1>5 DEF Near, s, c, a

TrimInv(R, P, k, n, e) ==
  /\ R \in Seq(Pairs(n)) /\ Len(R) >= 1 /\ Ascending(R)
  /\ R[Len(R)].sum <= P[k + 1].sum
  /\ \A q : Has(R, q) => Has(P, q)
  /\ \A a \in 1..(k + 1) : \E p : Has(R, p) /\ Near(p, P[a], n, e)

LEMMA KeepKeeps ==
  ASSUME NEW n \in Nat, NEW e \in Nat \X Nat, NEW P \in Seq(Pairs(n)), Ascending(P),
         NEW k \in Nat, k + 2 <= Len(P), NEW R, TrimInv(R, P, k, n, e)
  PROVE  TrimInv(KeepNext(R, P[k + 2], n, e), P, k + 1, n, e)
<1> DEFINE q == P[k + 2]
           l == Len(R)
           over == q.sum * (2 * n * e[2]) > Last(R).sum * (2 * n * e[2] + e[1])
           Q == KeepNext(R, q, n, e)
<1>1. /\ R \in Seq(Pairs(n)) /\ Len(R) >= 1 /\ Ascending(R) /\ R[l].sum <= P[k + 1].sum
      /\ l \in Nat /\ Last(R) = R[l] /\ l \in 1..l
  BY DEF TrimInv, Last
<1>2. /\ q \in Pairs(n) /\ q.sum \in Nat /\ P[k + 1].sum \in Nat /\ Has(P, q)
      /\ k + 1 \in 1..Len(P) /\ k + 2 \in 1..Len(P)
  <2>1. Len(P) \in Nat
    OBVIOUS
  <2>2. k + 1 \in 1..Len(P) /\ k + 2 \in 1..Len(P)
    BY <2>1
  <2> QED
    BY <2>2, PairsAre DEF Has
<1>3. P[k + 1].sum <= q.sum
  BY <1>2 DEF Ascending
<1>4. \A a \in 1..l : R[a].sum \in Nat /\ R[a].sum <= R[l].sum
  BY <1>1, PairsAre DEF Ascending
<1>5. R[l].sum <= q.sum /\ \A a \in 1..l : R[a].sum <= q.sum
  <2>1. R[l].sum \in Nat
    BY <1>1, <1>4
  <2>2. R[l].sum <= q.sum
    BY <1>1, <1>2, <1>3, <2>1
  <2> QED
    BY <1>2, <1>4, <2>1, <2>2
<1>6. (k + 1) + 1 = k + 2 /\ \A a \in 1..((k + 1) + 1) : a \in 1..(k + 1) \/ a = k + 2
  OBVIOUS
<1>7. ASSUME NEW U, \A p : Has(R, p) => Has(U, p), \E p : Has(U, p) /\ Near(p, q, n, e)
      PROVE  \A a \in 1..((k + 1) + 1) : \E p : Has(U, p) /\ Near(p, P[a], n, e)
  <2> SUFFICES ASSUME NEW a \in 1..((k + 1) + 1) PROVE \E p : Has(U, p) /\ Near(p, P[a], n, e)
    OBVIOUS
  <2>1. CASE a \in 1..(k + 1)
    <3>1. \E p : Has(R, p) /\ Near(p, P[a], n, e)
      BY <2>1 DEF TrimInv
    <3> QED
      BY <1>7, <3>1, Zenon
  <2>2. CASE a = k + 2
    BY <1>7, <2>2, Zenon
  <2> QED
    BY <1>6, <2>1, <2>2, Zenon
<1>8. CASE over
  <2>1. Q = Append(R, q)
    BY <1>8 DEF KeepNext
  <2>2. /\ Q \in Seq(Pairs(n)) /\ Len(Q) = l + 1 /\ Q[l + 1] = q /\ Ascending(Q)
        /\ \A p : Has(Q, p) <=> Has(R, p) \/ p = q
    <3> HIDE DEF q, Q
    <3> QED
      BY <1>1, <1>2, <1>5, <2>1, AscendingAppend
  <2>3. Near(q, q, n, e)
    <3> HIDE DEF q
    <3> QED
      BY <1>2, NearSelf
  <2>4. \A a \in 1..((k + 1) + 1) : \E p : Has(Q, p) /\ Near(p, P[a], n, e)
    <3>1. Has(Q, q) /\ \A p : Has(R, p) => Has(Q, p)
      BY <2>2, Zenon
    <3>2. \E p : Has(Q, p) /\ Near(p, q, n, e)
      BY <2>3, <3>1, Zenon
    <3> HIDE DEF Q, q
    <3> QED
      BY <1>7, <3>1, <3>2
  <2>5. \A p : Has(Q, p) => Has(P, p)
    <3>1. \A p : Has(R, p) => Has(P, p)
      BY DEF TrimInv
    <3> QED
      BY <1>2, <2>2, <3>1, Zenon
  <2>6. Q[Len(Q)].sum <= P[(k + 1) + 1].sum /\ Len(Q) >= 1
    <3> HIDE DEF Q
    <3> QED
      BY <1>1, <1>2, <1>6, <2>2
  <2> HIDE DEF Q
  <2>7. TrimInv(Q, P, k + 1, n, e)
    BY <2>2, <2>4, <2>5, <2>6 DEF TrimInv
  <2> QED
    BY <2>7 DEF Q
<1>9. CASE ~over
  <2>1. Q = R
    BY <1>9 DEF KeepNext
  <2>2. q.sum * (2 * n * e[2]) <= R[l].sum * (2 * n * e[2] + e[1])
    <3>1. n * e[2] \in Nat /\ e[1] \in Nat
      OBVIOUS
    <3>2. 2 * n * e[2] \in Nat
      BY <3>1
    <3> DEFINE c == 2 * n * e[2]
    <3>3. c + e[1] \in Nat /\ c \in Nat
      BY <3>1, <3>2
    <3>4. R[l].sum \in Nat
      BY <1>1, <1>4
    <3> DEFINE x == q.sum
               y == R[l].sum
               f == c + e[1]
    <3>5. x \in Nat /\ y \in Nat /\ f \in Nat /\ ~(x * c > y * f)
      BY <1>1, <1>2, <1>9, <3>3, <3>4
    <3> HIDE DEF x, y, f, c
    <3>6. x * c <= y * f
      BY <3>3, <3>5
    <3> QED
      BY <3>6 DEF x, y, f, c
  <2>3. Near(R[l], q, n, e)
    BY <1>5, <2>2 DEF Near
  <2>4. \A a \in 1..((k + 1) + 1) : \E p : Has(R, p) /\ Near(p, P[a], n, e)
    <3>1. Has(R, R[l])
      BY <1>1, Zenon DEF Has
    <3>2. \E p : Has(R, p) /\ Near(p, q, n, e)
      BY <2>3, <3>1, Zenon
    <3> HIDE DEF q
    <3> QED
      BY <1>7, <3>2
  <2>5. R[l].sum <= P[(k + 1) + 1].sum
    BY <1>5, <1>6
  <2>6. \A p : Has(R, p) => Has(P, p)
    BY DEF TrimInv
  <2>7. TrimInv(R, P, k + 1, n, e)
    BY <1>1, <2>4, <2>5, <2>6 DEF TrimInv
  <2> QED
    BY <2>1, <2>7
<1> QED
  BY <1>8, <1>9

\* What trim returns: some of the pairs, one near each of them.
LEMMA TrimIs ==
  ASSUME NEW n \in Nat, NEW e \in Nat \X Nat, NEW P \in Seq(Pairs(n)), Ascending(P), Len(P) >= 1
  PROVE  LET R == trim(P, n, e)
         IN /\ R \in Seq(Pairs(n)) /\ Ascending(R)
            /\ \A q : Has(R, q) => Has(P, q)
            /\ \A q : Has(P, q) => \E p : Has(R, p) /\ Near(p, q, n, e)
<1> DEFINE l == Len(P) - 1
<1>1. Len(P) \in Nat \ {0} /\ l \in Nat /\ l + 1 = Len(P)
  OBVIOUS
<1>2. PICK g : TrimRun(g, P, n, e, l) /\ trim(P, n, e) = g[l]
  BY <1>1, TrimRuns, Zenon
<1>3. g[0] = <<P[1]>> /\ \A k \in 1..l : g[k] = KeepNext(g[k - 1], P[k + 1], n, e)
  <2>1. 0 \in 0..l /\ \A k \in 1..l : k \in 0..l /\ k # 0
    BY <1>1
  <2> QED
    BY <1>2, <2>1, Zenon DEF TrimRun
<1> DEFINE Good == {k \in Nat : k <= l => TrimInv(g[k], P, k, n, e)}
<1>4. 0 \in Good
  <2> DEFINE R == <<P[1]>>
  <2>1. P[1] \in Pairs(n) /\ P[1].sum \in Nat /\ 1 \in 1..Len(P)
    BY <1>1, PairsAre
  <2>2. R \in Seq(Pairs(n)) /\ Len(R) = 1 /\ R[1] = P[1]
    BY <2>1
  <2>3. Ascending(R)
    <3>1. \A a \in 1..1 : a = 1
      OBVIOUS
    <3> QED
      BY <2>1, <2>2, <3>1 DEF Ascending
  <2>4. \A q : Has(R, q) <=> q = P[1]
    <3>1. 1..1 = {1}
      OBVIOUS
    <3> QED
      BY <2>2, <3>1 DEF Has
  <2>5. Near(P[1], P[1], n, e) /\ Has(P, P[1])
    BY <2>1, NearSelf DEF Has
  <2>6. \A a \in 1..(0 + 1) : a = 1
    OBVIOUS
  <2> HIDE DEF R
  <2>7. R[Len(R)].sum <= P[0 + 1].sum /\ Len(R) >= 1
    BY <2>1, <2>2
  <2>8. \A a \in 1..(0 + 1) : \E p : Has(R, p) /\ Near(p, P[a], n, e)
    BY <2>4, <2>5, <2>6, Zenon
  <2>9. TrimInv(R, P, 0, n, e)
    BY <2>2, <2>3, <2>4, <2>5, <2>7, <2>8 DEF TrimInv
  <2> QED
    BY <1>3, <2>9 DEF R
<1>5. ASSUME NEW k \in Nat, k \in Good PROVE k + 1 \in Good
  <2> SUFFICES ASSUME k + 1 <= l PROVE TrimInv(g[k + 1], P, k + 1, n, e)
    OBVIOUS
  <2>1. k <= l /\ k + 1 \in 1..l /\ (k + 1) - 1 = k /\ (k + 1) + 1 = k + 2 /\ k + 2 <= Len(P)
    BY <1>1
  <2>2. TrimInv(g[k], P, k, n, e)
    BY <1>5, <2>1
  <2>3. g[k + 1] = KeepNext(g[k], P[k + 2], n, e)
    BY <1>3, <2>1
  <2> HIDE DEF l, Good
  <2>4. TrimInv(KeepNext(g[k], P[k + 2], n, e), P, k + 1, n, e)
    BY <2>1, <2>2, KeepKeeps
  <2> QED
    BY <2>3, <2>4
<1>6. TrimInv(g[l], P, l, n, e)
  <2> HIDE DEF Good
  <2>1. \A k \in Nat : k \in Good
    BY <1>4, <1>5, Induct, Zenon
  <2>2. l <= l
    BY <1>1
  <2> QED
    BY <1>1, <2>1, <2>2 DEF Good
<1> DEFINE R == trim(P, n, e)
<1> HIDE DEF Good, l
<1>7. TrimInv(R, P, l, n, e)
  BY <1>2, <1>6
<1> HIDE DEF R
<1>8. ASSUME NEW q, Has(P, q) PROVE \E p : Has(R, p) /\ Near(p, q, n, e)
  <2>1. PICK a \in 1..(l + 1) : P[a] = q
    BY <1>1, <1>8 DEF Has
  <2> QED
    BY <1>7, <2>1, Zenon DEF TrimInv
<1>9. /\ R \in Seq(Pairs(n)) /\ Ascending(R)
      /\ \A q : Has(R, q) => Has(P, q)
      /\ \A q : Has(P, q) => \E p : Has(R, p) /\ Near(p, q, n, e)
  BY <1>7, <1>8, Zenon DEF TrimInv
<1> QED
  BY <1>9, Zenon DEF R

\* What is left of a list: the pairs up to the limit.
LEMMA UpToLimitIs ==
  ASSUME NEW n \in Nat, NEW P \in Seq(Pairs(n)), Ascending(P), NEW L \in Nat,
         \E p : Has(P, p) /\ p.sum <= L
  PROVE  LET R == UpToLimit(P, L)
         IN /\ R \in Seq(Pairs(n)) /\ Ascending(R) /\ Len(R) >= 1
            /\ \A q : Has(R, q) <=> Has(P, q) /\ q.sum <= L
<1> DEFINE s == {i \in DOMAIN P : P[i].sum <= L}
           m == Max(s)
           R == UpToLimit(P, L)
<1>1. DOMAIN P = 1..Len(P) /\ Len(P) \in Nat
  OBVIOUS
<1>2. s \in SUBSET (1..Len(P)) /\ s # {}
  BY <1>1, Zenon DEF Has
<1>3. m \in s /\ \A x \in s : m >= x
  <2> HIDE DEF s
  <2> QED
    BY <1>1, <1>2, GreatestIs
<1>4. m \in 1..Len(P) /\ P[m].sum <= L
  BY <1>1, <1>3
<1>5. ASSUME NEW a \in 1..Len(P) PROVE P[a].sum <= L <=> a <= m
  <2>1. ASSUME P[a].sum <= L PROVE a <= m
    <3>1. a \in s
      BY <1>1, <2>1
    <3> QED
      BY <1>3, <1>4, <3>1
  <2>2. ASSUME a <= m PROVE P[a].sum <= L
    <3>1. P[a].sum <= P[m].sum /\ P[a].sum \in Nat /\ P[m].sum \in Nat
      BY <1>4, <2>2, PairsAre DEF Ascending
    <3> QED
      BY <1>4, <3>1
  <2> QED
    BY <2>1, <2>2
<1>6. R = SubSeq(P, 1, m)
  BY Zenon DEF UpToLimit
<1> HIDE DEF m, R, s
<1>7. R \in Seq(Pairs(n)) /\ Len(R) = m /\ \A a \in 1..m : R[a] = P[a]
  <2>1. m \in 0..Len(P) /\ m <= Len(P) /\ 1 \in 1..(Len(P) + 1)
    BY <1>1, <1>4
  <2>2. \A a \in 1..m : a \in 1..Len(P)
    BY <1>1, <1>4
  <2> QED
    BY <1>1, <1>4, <1>6, <2>1, <2>2
<1>8. Ascending(R)
  <2>1. \A a \in 1..m : a \in 1..Len(P)
    BY <1>1, <1>4
  <2> QED
    BY <1>7, <2>1 DEF Ascending
<1>9. \A q : Has(R, q) <=> Has(P, q) /\ q.sum <= L
  <2>1. ASSUME NEW q, Has(R, q) PROVE Has(P, q) /\ q.sum <= L
    <3>1. PICK a \in 1..m : R[a] = q
      BY <1>7, <2>1 DEF Has
    <3>2. a \in 1..Len(P) /\ a <= m
      BY <1>1, <1>4
    <3> QED
      BY <1>5, <1>7, <3>1, <3>2 DEF Has
  <2>2. ASSUME NEW q, Has(P, q), q.sum <= L PROVE Has(R, q)
    <3>1. PICK a \in 1..Len(P) : P[a] = q
      BY <2>2 DEF Has
    <3>2. a \in 1..m
      BY <1>4, <1>5, <2>2, <3>1
    <3> QED
      BY <1>7, <3>1, <3>2 DEF Has
  <2> QED
    BY <2>1, <2>2
<1>10. Len(R) >= 1
  BY <1>4, <1>7
<1>11. /\ R \in Seq(Pairs(n)) /\ Ascending(R) /\ Len(R) >= 1
       /\ \A q : Has(R, q) <=> Has(P, q) /\ q.sum <= L
  BY <1>7, <1>8, <1>9, <1>10
<1> QED
  BY <1>11, Zenon DEF R

----------------------------------------------------------------------------
(* Lists of the sums of subsets *)

\* Products over a common factor.
LEMMA TimesKeeps ==
  ASSUME NEW x \in Int, NEW y \in Int, NEW c \in Nat, x <= y
  PROVE  x * c <= y * c /\ x * c \in Int /\ y * c \in Int
<1> DEFINE d == y - x
<1>1. d \in Nat /\ y = x + d
  OBVIOUS
<1> HIDE DEF d
<1>2. d * c \in Nat /\ x * c \in Int /\ y * c \in Int
  BY <1>1
<1>3. y * c = x * c + d * c
  BY <1>1
<1> QED
  BY <1>2, <1>3
LEMMA TimesLess ==
  ASSUME NEW x \in Int, NEW y \in Int, NEW c \in Nat \ {0}, x * c <= y * c
  PROVE  x <= y
<1> SUFFICES ASSUME ~(x <= y) PROVE FALSE
  OBVIOUS
<1> DEFINE d == x - y
<1>1. d \in Nat /\ d >= 1 /\ x = y + d
  OBVIOUS
<1> HIDE DEF d
<1>2. d * c >= c /\ d * c \in Nat /\ y * c \in Int
  <2>1. 1 * c <= d * c
    BY <1>1, TimesKeeps
  <2> QED
    BY <1>1, <2>1
<1>3. x * c = y * c + d * c
  BY <1>1
<1> QED
  BY <1>2, <1>3

\* Adding an element to a sum and to the sum near it.
LEMMA NearPlus ==
  ASSUME NEW y \in Nat, NEW q \in Nat, NEW x \in Nat, NEW c \in Nat, NEW d \in Nat, c <= d, y * c <= q * d
  PROVE  (y + x) * c <= (q + x) * d
<1>1. x * c <= x * d
  <2>1. c * x <= d * x
    BY TimesKeeps
  <2> QED
    BY <2>1
<1>2. (y + x) * c = y * c + x * c /\ (q + x) * d = q * d + x * d
  OBVIOUS
<1>3. x * c \in Int /\ x * d \in Int /\ y * c \in Int /\ q * d \in Int
  OBVIOUS
<1> QED
  BY <1>1, <1>2, <1>3

\* Near a sum that is near: k = i a is what the first i trims have lost, out of c = n b.
LEMMA NearNear ==
  ASSUME NEW y \in Nat, NEW q \in Nat, NEW p \in Nat, NEW c \in Nat \ {0}, NEW a \in Nat, NEW k \in Nat,
         k <= c, y * c <= q * (c + k), q * (2 * c) <= p * (2 * c + a)
  PROVE  y * c <= p * (c + (k + a))
<1> DEFINE t == 2 * c
           f == c + k
           g == c + (k + a)
           h == t + a
<1>1. t \in Nat \ {0} /\ f \in Nat /\ g \in Nat /\ h \in Nat
  OBVIOUS
<1>2. y * c * t <= q * f * t
  BY <1>1, TimesKeeps
<1>3. q * t * f <= p * h * f
  BY <1>1, TimesKeeps
<1>4. h * f <= g * t
  <2>1. h * f = t * c + t * k + a * c + a * k
    OBVIOUS
  <2>2. g * t = t * c + t * k + t * a
    OBVIOUS
  <2>3. t * a = a * c + a * c
    OBVIOUS
  <2>4. k * a <= c * a
    BY TimesKeeps
  <2>5. /\ a * k \in Int /\ a * c \in Int /\ t * c \in Int /\ t * k \in Int /\ t * a \in Int
        /\ a * k <= a * c
    BY <2>4
  <2> HIDE DEF t, f, g, h
  <2> QED
    BY <2>1, <2>2, <2>3, <2>5
<1> HIDE DEF t, f, g, h
<1>5. h * f * p <= g * t * p
  BY <1>1, <1>4, TimesKeeps
<1>6. q * f * t = q * t * f /\ p * h * f = h * f * p /\ g * t * p = p * g * t
  BY <1>1
<1>7. y * c * t \in Int /\ q * t * f \in Int /\ p * h * f \in Int /\ p * g * t \in Int
  BY <1>1
<1>8. y * c * t <= p * g * t
  BY <1>2, <1>3, <1>5, <1>6, <1>7
<1>9. y * c <= p * g
  BY <1>1, <1>8, TimesLess
<1> QED
  BY <1>9 DEF g

\* The sums of the subsets of the first elements.
LEMMA FirstSums ==
  ASSUME NEW n \in Nat, NEW S \in [0..(n - 1) -> Nat]
  PROVE  /\ SumFunctionOnSet(S, {}) = 0
         /\ \A s \in SUBSET (0..(n - 1)) : SumFunctionOnSet(S, s) \in Nat
         /\ \A i \in 0..(n - 1) : \A s \in SUBSET (0..(n - 1)) :
              /\ i \in s => SumFunctionOnSet(S, s) = SumFunctionOnSet(S, s \ {i}) + S[i]
              /\ i \notin s => SumFunctionOnSet(S, s \cup {i}) = SumFunctionOnSet(S, s) + S[i]
<1> DEFINE U == 0..(n - 1)
           f(s) == SumFunctionOnSet(S, s)
<1>1. IsFiniteSet(U) /\ \A x \in U : S[x] \in Int /\ S[x] \in Nat
  <2>1. 0 \in Int /\ n - 1 \in Int /\ \A x \in U : S[x] \in Int /\ S[x] \in Nat
    OBVIOUS
  <2>2. IsFiniteSet(U)
    BY <2>1, FS_Interval, Zenon
  <2> QED
    BY <2>1, <2>2, Zenon
<1> HIDE DEF U
<1>2. f({}) = 0 /\ \A s \in SUBSET U : f(s) \in Int /\ \A x \in s : f(s) = f(s \ {x}) + S[x]
  BY <1>1, SumAdds, Zenon
<1> HIDE DEF f
<1> DEFINE Good == {i \in Nat : i <= n => \A s \in SUBSET (0..(i - 1)) : f(s) \in Nat}
<1>3. 0 \in Good
  <2>1. \A s \in SUBSET (0..(0 - 1)) : s = {}
    OBVIOUS
  <2>2. f({}) \in Nat
    BY <1>2
  <2> QED
    BY <2>1, <2>2, Zenon
<1>4. ASSUME NEW i \in Nat, i \in Good PROVE i + 1 \in Good
  <2> SUFFICES ASSUME i + 1 <= n, NEW s \in SUBSET (0..i) PROVE f(s) \in Nat
    OBVIOUS
  <2>1. s \in SUBSET U /\ s \ {i} \in SUBSET U /\ s \ {i} \in SUBSET (0..(i - 1)) /\ i \in U
    BY DEF U
  <2>2. f(s \ {i}) \in Nat
    BY <1>4, <2>1
  <2>3. CASE i \in s
    <3>1. f(s) = f(s \ {i}) + S[i]
      BY <1>2, <2>1, <2>3
    <3> QED
      BY <1>1, <2>1, <2>2, <3>1
  <2>4. CASE i \notin s
    <3>1. s \ {i} = s
      BY <2>4
    <3> QED
      BY <2>2, <3>1
  <2> QED
    BY <2>3, <2>4
<1>5. \A s \in SUBSET U : f(s) \in Nat
  <2> HIDE DEF Good
  <2>1. \A i \in Nat : i \in Good
    BY <1>3, <1>4, Induct, Zenon
  <2>2. n \in Good /\ n <= n
    BY <2>1
  <2> QED
    BY <2>2 DEF Good, U
<1>6. ASSUME NEW i \in U, NEW s \in SUBSET U
      PROVE  /\ i \in s => f(s) = f(s \ {i}) + S[i]
             /\ i \notin s => f(s \cup {i}) = f(s) + S[i]
  <2>1. i \notin s => s \cup {i} \in SUBSET U /\ (s \cup {i}) \ {i} = s /\ i \in s \cup {i}
    OBVIOUS
  <2> QED
    BY <1>2, <2>1, Zenon
<1> QED
  BY <1>2, <1>5, <1>6, Zenon DEF U, f

\* The list after the first i elements.  Each pair is a subset and its sum, up to the
\* limit, and each subset up to the limit has a pair near it.
ListInv(R, S, i, n, L, a, b) ==
  /\ R \in Seq(Pairs(n)) /\ Ascending(R) /\ Len(R) >= 1
  /\ \A q : Has(R, q) => /\ q.mask \in SUBSET (0..(i - 1)) /\ q.sum <= L
                         /\ SumFunctionOnSet(S, q.mask) = q.sum
  /\ \A s \in SUBSET (0..(i - 1)) :
       SumFunctionOnSet(S, s) <= L =>
         \E q : /\ Has(R, q) /\ q.sum <= SumFunctionOnSet(S, s)
                /\ SumFunctionOnSet(S, s) * (n * b) <= q.sum * (n * b + i * a)

\* No trimming is trimming by 0.
TrimmedBy(e, a, b) == (e = <<>> /\ a = 0 /\ b = 1) \/ e = <<a, b>>

LEMMA ShortenedIs ==
  ASSUME NEW n \in Nat \ {0}, NEW a \in Nat, NEW b \in Nat \ {0}, NEW e, TrimmedBy(e, a, b),
         NEW P \in Seq(Pairs(n)), Ascending(P), Len(P) >= 1
  PROVE  LET R == IF e = <<>> THEN P ELSE trim(P, n, e)
         IN /\ R \in Seq(Pairs(n)) /\ Ascending(R)
            /\ \A q : Has(R, q) => Has(P, q)
            /\ \A q : Has(P, q) => \E p : Has(R, p) /\ Near(p, q, n, <<a, b>>)
<1>1. <<a, b>> \in Nat \X Nat /\ n \in Nat
  OBVIOUS
<1>2. CASE e = <<>>
  <2>1. ASSUME NEW q, Has(P, q) PROVE Near(q, q, n, <<a, b>>)
    <3>1. q.sum \in Nat
      BY <2>1, PairsAre DEF Has
    <3> QED
      BY <1>1, <3>1, NearSelf
  <2> QED
    BY <1>2, <2>1, Zenon
<1>3. CASE e # <<>>
  <2>1. e = <<a, b>>
    BY <1>3, Zenon DEF TrimmedBy
  <2> QED
    BY <1>1, <1>3, <2>1, TrimIs
<1> QED
  BY <1>2, <1>3

LEMMA AddKeeps ==
  ASSUME NEW n \in Nat \ {0}, NEW a \in Nat, NEW b \in Nat \ {0}, a <= b, NEW e, TrimmedBy(e, a, b),
         NEW S \in [0..(n - 1) -> Nat], NEW L \in Nat, NEW i \in 0..(n - 1),
         NEW P, ListInv(P, S, i, n, L, a, b)
  PROVE  ListInv(AddElement(P, S[i], i, n, L, e), S, i + 1, n, L, a, b)
<1> DEFINE f(s) == SumFunctionOnSet(S, s)
           x == S[i]
           W(p) == With(p, x, i)
           M == merge(P, x, i)
           Q == IF e = <<>> THEN M ELSE trim(M, n, e)
           R == UpToLimit(Q, L)
<1>1. /\ i \in Nat /\ i < n /\ n \in Nat /\ x \in Nat
      /\ (i + 1) - 1 = i /\ 0..(i - 1) \subseteq 0..i /\ 0..i \subseteq 0..(n - 1)
  OBVIOUS
<1>2. /\ f({}) = 0 /\ \A s \in SUBSET (0..(n - 1)) : f(s) \in Nat
      /\ \A s \in SUBSET (0..(n - 1)) : /\ i \in s => f(s) = f(s \ {i}) + x
                                        /\ i \notin s => f(s \cup {i}) = f(s) + x
  BY <1>1, FirstSums, Zenon
<1> HIDE DEF f, x
<1>3. P \in Seq(Pairs(n)) /\ Ascending(P) /\ Len(P) >= 1
  BY DEF ListInv
<1>4. /\ \A q : Has(P, q) => q.mask \in SUBSET (0..(i - 1)) /\ q.sum <= L /\ f(q.mask) = q.sum
      /\ \A s \in SUBSET (0..(i - 1)) :
           f(s) <= L => \E q : /\ Has(P, q) /\ q.sum <= f(s)
                               /\ f(s) * (n * b) <= q.sum * (n * b + i * a)
  BY Zenon DEF ListInv, f
<1>5. /\ M \in Seq(Pairs(n)) /\ Ascending(M)
      /\ \A p : Has(P, p) => Has(M, p) /\ Has(M, W(p))
      /\ \A q : Has(M, q) => Has(P, q) \/ \E p : Has(P, p) /\ q = W(p)
  <2>1. Merges(M, P, x, i, n)
    BY <1>1, <1>3, MergeIs, Zenon DEF M
  <2> QED
    BY <2>1, Zenon DEF Merges, W
<1> HIDE DEF M
<1>6. Len(M) >= 1
  <2>1. Has(P, P[1])
    BY <1>3 DEF Has
  <2>2. Has(M, P[1])
    BY <1>5, <2>1, Zenon
  <2>3. Len(M) \in Nat
    BY <1>5
  <2> QED
    BY <2>2, <2>3 DEF Has
<1>7. /\ Q \in Seq(Pairs(n)) /\ Ascending(Q)
      /\ \A q : Has(Q, q) => Has(M, q)
      /\ \A q : Has(M, q) => \E p : Has(Q, p) /\ Near(p, q, n, <<a, b>>)
  BY <1>5, <1>6, ShortenedIs
<1> HIDE DEF Q
<1>8. \A V \in Seq(Pairs(n)) : \A q : Has(V, q) => q \in Pairs(n) /\ q.sum \in Nat
  BY PairsAre DEF Has
<1>9. \E p : Has(Q, p) /\ p.sum <= L
  <2>1. {} \in SUBSET (0..(i - 1)) /\ f({}) <= L
    BY <1>2
  <2>2. PICK q : Has(P, q) /\ q.sum <= 0
    BY <1>2, <1>4, <2>1
  <2>3. PICK p : Has(Q, p) /\ Near(p, q, n, <<a, b>>)
    BY <1>5, <1>7, <2>2, Zenon
  <2>4. p.sum \in Nat /\ q.sum \in Nat /\ p.sum <= q.sum
    BY <1>3, <1>7, <1>8, <2>2, <2>3 DEF Near
  <2>5. p.sum <= L
    BY <2>2, <2>4
  <2> QED
    BY <2>3, <2>5, Zenon
<1>10. /\ R \in Seq(Pairs(n)) /\ Ascending(R) /\ Len(R) >= 1
       /\ \A q : Has(R, q) <=> Has(Q, q) /\ q.sum <= L
  BY <1>7, <1>9, UpToLimitIs
<1>11. AddElement(P, S[i], i, n, L, e) = R
  BY Zenon DEF AddElement, R, Q, M, x
<1> HIDE DEF R, W
<1>12. ASSUME NEW q, Has(R, q)
       PROVE  q.mask \in SUBSET (0..i) /\ q.sum <= L /\ f(q.mask) = q.sum
  <2>1. Has(M, q) /\ q.sum <= L
    BY <1>7, <1>10, <1>12, Zenon
  <2>2. CASE Has(P, q)
    <3>1. q.mask \in SUBSET (0..(i - 1)) /\ f(q.mask) = q.sum
      BY <1>4, <2>2, Zenon
    <3> QED
      BY <1>1, <2>1, <3>1
  <2>3. ASSUME NEW p, Has(P, p), q = W(p)
        PROVE  q.mask \in SUBSET (0..i) /\ f(q.mask) = q.sum
    <3>1. p.mask \in SUBSET (0..(i - 1)) /\ f(p.mask) = p.sum
      BY <1>4, <2>3, Zenon
    <3>2. q.mask = p.mask \cup {i} /\ q.sum = p.sum + x
      BY <2>3 DEF W, With
    <3>3. i \notin p.mask /\ p.mask \in SUBSET (0..(n - 1)) /\ q.mask \in SUBSET (0..i)
      BY <1>1, <3>1, <3>2
    <3> QED
      BY <1>2, <3>1, <3>2, <3>3, Zenon
  <2>4. Has(P, q) \/ \E p : Has(P, p) /\ q = W(p)
    BY <1>5, <2>1, Zenon
  <2> QED
    BY <2>1, <2>2, <2>3, <2>4, Zenon
<1> DEFINE c == n * b
           k == i * a
<1>13. c \in Nat \ {0} /\ k \in Nat /\ k <= c /\ (i + 1) * a = k + a /\ 2 * n * b = 2 * c
  <2>1. i * a <= n * a
    BY <1>1, TimesKeeps
  <2>2. a * n <= b * n
    BY <1>1, TimesKeeps
  <2>3. 1 * b <= n * b
    BY TimesKeeps
  <2>4. i * a \in Int /\ n * a \in Int /\ n * b \in Int /\ i * a >= 0
    BY <1>1
  <2>5. a * n = n * a /\ b * n = n * b /\ 1 * b = b /\ b >= 1 /\ b \in Int
    OBVIOUS
  <2>8. n * a <= n * b /\ n * b >= b
    BY <2>2, <2>3, <2>5, Zenon
  <2>6. i * a <= n * b /\ n * b >= 1
    BY <2>1, <2>4, <2>5, <2>8
  <2>7. (i + 1) * a = i * a + a /\ 2 * n * b = 2 * (n * b)
    BY <1>1
  <2> QED
    BY <2>4, <2>6, <2>7
<1> HIDE DEF c, k
<1>14. ASSUME NEW s \in SUBSET (0..i), f(s) <= L
       PROVE  \E q : Has(M, q) /\ q.sum <= f(s) /\ f(s) * c <= q.sum * (c + k)
  <2>1. CASE i \notin s
    <3>1. s \in SUBSET (0..(i - 1))
      BY <1>1, <2>1
    <3>2. PICK q : Has(P, q) /\ q.sum <= f(s) /\ f(s) * (n * b) <= q.sum * (n * b + i * a)
      BY <1>4, <1>14, <3>1, Zenon
    <3> QED
      BY <1>5, <3>2, Zenon DEF c, k
  <2>2. CASE i \in s
    <3> DEFINE t == s \ {i}
    <3>1. t \in SUBSET (0..(i - 1)) /\ t \in SUBSET (0..(n - 1)) /\ s \in SUBSET (0..(n - 1))
      BY <1>1
    <3>2. f(s) = f(t) + x /\ f(t) \in Nat
      BY <1>2, <2>2, <3>1, Zenon
    <3> HIDE DEF t
    <3>3. f(t) <= L
      BY <1>1, <1>14, <3>2
    <3>4. PICK q : Has(P, q) /\ q.sum <= f(t) /\ f(t) * c <= q.sum * (c + k)
      BY <1>4, <3>1, <3>3, Zenon DEF c, k
    <3>5. q.sum \in Nat
      BY <1>3, <1>8, <3>4
    <3>6. (f(t) + x) * c <= (q.sum + x) * (c + k)
      <4>1. c \in Nat /\ c + k \in Nat /\ c <= c + k
        BY <1>13
      <4> QED
        BY <1>1, <3>2, <3>4, <3>5, <4>1, NearPlus, Zenon
    <3>7. W(q).sum = q.sum + x /\ q.sum + x <= f(s)
      BY <1>1, <3>2, <3>4, <3>5 DEF W, With
    <3>8. Has(M, W(q))
      BY <1>5, <3>4, Zenon
    <3> QED
      BY <3>2, <3>6, <3>7, <3>8, Zenon
  <2> QED
    BY <2>1, <2>2
<1>15. ASSUME NEW s \in SUBSET (0..i), f(s) <= L
       PROVE  \E p : Has(R, p) /\ p.sum <= f(s) /\ f(s) * c <= p.sum * (c + (k + a))
  <2>1. PICK q : Has(M, q) /\ q.sum <= f(s) /\ f(s) * c <= q.sum * (c + k)
    BY <1>14, <1>15
  <2>2. PICK p : Has(Q, p) /\ Near(p, q, n, <<a, b>>)
    BY <1>7, <2>1, Zenon
  <2>3. f(s) \in Nat /\ p.sum \in Nat /\ q.sum \in Nat
    BY <1>1, <1>2, <1>5, <1>7, <1>8, <2>1, <2>2
  <2>4. p.sum <= q.sum /\ q.sum * (2 * c) <= p.sum * (2 * c + a)
    <3>1. <<a, b>>[1] = a /\ <<a, b>>[2] = b
      OBVIOUS
    <3> QED
      BY <1>13, <2>2, <3>1, Zenon DEF Near
  <2>5. f(s) * c <= p.sum * (c + (k + a))
    BY <1>13, <2>1, <2>3, <2>4, NearNear
  <2>6. p.sum <= f(s) /\ p.sum <= L
    BY <1>15, <2>1, <2>3, <2>4
  <2>7. Has(R, p)
    BY <1>10, <2>2, <2>6, Zenon
  <2> QED
    BY <2>5, <2>6, <2>7, Zenon
<1>16. ListInv(R, S, i + 1, n, L, a, b)
  <2>1. (i + 1) - 1 = i /\ n * b = c /\ (i + 1) * a = k + a
    BY <1>1, <1>13 DEF c
  <2>2. \A q : Has(R, q) => q.mask \in SUBSET (0..((i + 1) - 1)) /\ q.sum <= L /\ f(q.mask) = q.sum
    BY <1>12, <2>1, Zenon
  <2>3. \A s \in SUBSET (0..((i + 1) - 1)) :
          f(s) <= L => \E q : /\ Has(R, q) /\ q.sum <= f(s)
                              /\ f(s) * (n * b) <= q.sum * (n * b + (i + 1) * a)
    BY <1>15, <2>1, Zenon
  <2> QED
    BY <1>10, <2>2, <2>3, Zenon DEF ListInv, f
<1> QED
  BY <1>11, <1>16, Zenon

\* A sum up to the limit, with its elements, at most a / b below the greatest.
Finds(q, n, S, L, a, b) ==
  /\ q.sum \in Nat /\ q.sum <= L /\ q.mask \in SUBSET (0..(n - 1))
  /\ SumFunctionOnSet(S, q.mask) = q.sum
  /\ \A s \in SUBSET (0..(n - 1)) :
       SumFunctionOnSet(S, s) <= L => SumFunctionOnSet(S, s) * b <= q.sum * (b + a)
\* The last pair of the last list is the greatest sum, or near it.
LEMMA ListsFind ==
  ASSUME NEW n \in Nat \ {0}, NEW a \in Nat, NEW b \in Nat \ {0}, a <= b, NEW e, TrimmedBy(e, a, b),
         NEW S \in [0..(n - 1) -> Nat], NEW L \in Nat
  PROVE  Finds(Last(SumLists(n, S, L, e)[n]), n, S, L, a, b)
<1> DEFINE f(s) == SumFunctionOnSet(S, s)
<1>1. PICK g : ListsRun(g, n, S, L, e, n) /\ SumLists(n, S, L, e) = g
  <2>1. n \in Nat
    OBVIOUS
  <2> QED
    BY <2>1, ListsRuns
<1>2. /\ g[0] = <<[sum |-> 0, mask |-> {}]>>
      /\ \A i \in 1..n : g[i] = AddElement(g[i - 1], S[i - 1], i - 1, n, L, e)
  <2>1. 0 \in 0..n /\ \A i \in 1..n : i \in 0..n /\ i # 0
    OBVIOUS
  <2> QED
    BY <1>1, <2>1, Zenon DEF ListsRun
<1>3. f({}) = 0 /\ \A s \in SUBSET (0..(n - 1)) : f(s) \in Nat
  <2>1. n \in Nat
    OBVIOUS
  <2> QED
    BY <2>1, FirstSums, Zenon
<1> HIDE DEF f
<1> DEFINE Good == {i \in Nat : i <= n => ListInv(g[i], S, i, n, L, a, b)}
<1>4. 0 \in Good
  <2> DEFINE p == [sum |-> 0, mask |-> {}]
             R == <<p>>
  <2>1. R \in Seq(Pairs(n)) /\ Len(R) = 1 /\ R[1] = p
    BY DEF Pairs
  <2>2. p.sum = 0 /\ p.mask = {}
    OBVIOUS
  <2> HIDE DEF p, R
  <2>3. 1..1 = {1} /\ 0 <= 0
    OBVIOUS
  <2>4. \A q : Has(R, q) <=> q = p
    BY <2>1, <2>3, Zenon DEF Has
  <2>5. Ascending(R)
    BY <2>1, <2>2, <2>3 DEF Ascending
  <2>6. \A q : Has(R, q) => q.mask \in SUBSET (0..(0 - 1)) /\ q.sum <= L /\ f(q.mask) = q.sum
    <3>1. {} \in SUBSET (0..(0 - 1)) /\ 0 <= L
      OBVIOUS
    <3> QED
      BY <1>3, <2>2, <2>4, <3>1, Zenon
  <2>7. ASSUME NEW s \in SUBSET (0..(0 - 1))
        PROVE  \E q : /\ Has(R, q) /\ q.sum <= f(s)
                      /\ f(s) * (n * b) <= q.sum * (n * b + 0 * a)
    <3>1. s = {}
      OBVIOUS
    <3>2. n * b \in Nat /\ 0 * a = 0
      OBVIOUS
    <3>3. 0 * (n * b) <= 0 * (n * b + 0 * a)
      BY <3>2
    <3> QED
      BY <1>3, <2>2, <2>3, <2>4, <3>1, <3>3, Zenon
  <2>8. Len(R) >= 1
    BY <2>1
  <2>9. ListInv(R, S, 0, n, L, a, b)
    BY <2>1, <2>5, <2>6, <2>7, <2>8, Zenon DEF ListInv, f
  <2> QED
    BY <1>2, <2>9, Zenon DEF R, p
<1>5. ASSUME NEW i \in Nat, i \in Good PROVE i + 1 \in Good
  <2> SUFFICES ASSUME i + 1 <= n PROVE ListInv(g[i + 1], S, i + 1, n, L, a, b)
    OBVIOUS
  <2>1. i <= n /\ i \in 0..(n - 1) /\ i + 1 \in 1..n /\ (i + 1) - 1 = i
    OBVIOUS
  <2>2. ListInv(g[i], S, i, n, L, a, b)
    BY <1>5, <2>1
  <2>3. g[i + 1] = AddElement(g[i], S[i], i, n, L, e)
    BY <1>2, <2>1
  <2> HIDE DEF Good
  <2>4. ListInv(AddElement(g[i], S[i], i, n, L, e), S, i + 1, n, L, a, b)
    BY <2>1, <2>2, AddKeeps
  <2> QED
    BY <2>3, <2>4, Zenon
<1> DEFINE R == g[n]
           q == Last(R)
<1>6. ListInv(R, S, n, n, L, a, b)
  <2> HIDE DEF Good
  <2>1. \A i \in Nat : i \in Good
    BY <1>4, <1>5, Induct, Zenon
  <2>2. n <= n /\ n \in Nat
    OBVIOUS
  <2> QED
    BY <2>1, <2>2 DEF Good
<1> HIDE DEF Good, R
<1>7. /\ R \in Seq(Pairs(n)) /\ Ascending(R) /\ Len(R) >= 1
      /\ \A p : Has(R, p) => p.mask \in SUBSET (0..(n - 1)) /\ p.sum <= L /\ f(p.mask) = p.sum
      /\ \A s \in SUBSET (0..(n - 1)) :
           f(s) <= L => \E p : Has(R, p) /\ p.sum <= f(s) /\ f(s) * (n * b) <= p.sum * (n * b + n * a)
  BY <1>6, Zenon DEF ListInv, f
<1>8. Has(R, q) /\ q.sum \in Nat /\ \A p : Has(R, p) => p.sum \in Nat /\ p.sum <= q.sum
  <2>1. Len(R) \in Nat /\ Len(R) \in 1..Len(R) /\ q = R[Len(R)]
    BY <1>7 DEF Last
  <2>2. Has(R, q) /\ q.sum \in Nat
    BY <1>7, <2>1, PairsAre DEF Has
  <2>3. ASSUME NEW p, Has(R, p) PROVE p.sum \in Nat /\ p.sum <= q.sum
    <3>1. PICK x \in 1..Len(R) : R[x] = p
      BY <2>3 DEF Has
    <3>2. R[x].sum <= R[Len(R)].sum
      BY <1>7, <2>1 DEF Ascending
    <3> QED
      BY <1>7, <2>1, <3>1, <3>2, PairsAre
  <2> QED
    BY <2>2, <2>3
<1> HIDE DEF q
<1>9. ASSUME NEW s \in SUBSET (0..(n - 1)), f(s) <= L PROVE f(s) * b <= q.sum * (b + a)
  <2>1. PICK p : Has(R, p) /\ f(s) * (n * b) <= p.sum * (n * b + n * a)
    BY <1>7, <1>9, Zenon
  <2>2. p.sum \in Nat /\ p.sum <= q.sum /\ f(s) \in Nat
    BY <1>3, <1>8, <2>1, Zenon
  <2> DEFINE y == f(s)
             u == p.sum
             w == q.sum
  <2>3. u \in Nat /\ w \in Nat /\ y \in Nat /\ u <= w /\ y * (n * b) <= u * (n * b + n * a)
    BY <1>8, <2>1, <2>2
  <2> HIDE DEF y, u, w
  <2>4. y * (n * b) = y * b * n /\ u * (n * b + n * a) = u * (b + a) * n
    BY <2>3
  <2>5. y * b \in Int /\ u * (b + a) \in Int /\ b + a \in Nat /\ y * b * n <= u * (b + a) * n
    BY <2>3, <2>4
  <2>6. y * b <= u * (b + a)
    BY <2>5, TimesLess
  <2>7. u * (b + a) <= w * (b + a) /\ w * (b + a) \in Int
    BY <2>3, <2>5, TimesKeeps
  <2>8. y * b <= w * (b + a)
    BY <2>5, <2>6, <2>7
  <2> QED
    BY <2>8 DEF y, w
<1>10. /\ q.sum \in Nat /\ q.sum <= L /\ q.mask \in SUBSET (0..(n - 1)) /\ f(q.mask) = q.sum
       /\ \A s \in SUBSET (0..(n - 1)) : f(s) <= L => f(s) * b <= q.sum * (b + a)
  BY <1>7, <1>8, <1>9, Zenon
<1> QED
  BY <1>1, <1>10, Zenon DEF Finds, f, q, R

----------------------------------------------------------------------------
(* The table of sums *)

\* Some of the first i elements add up to x.
Reach(S, i, x) == \E s \in SUBSET (0..(i - 1)) : SumFunctionOnSet(S, s) = x
RowIs(r, S, i, L) == r \in [0..L -> BOOLEAN] /\ \A x \in 0..L : r[x] <=> Reach(S, i + 1, x)

\* With one more element the sums without it and with it are reached.
LEMMA ReachMore ==
  ASSUME NEW n \in Nat, NEW S \in [0..(n - 1) -> Nat], NEW i \in 0..(n - 1), NEW x \in Nat
  PROVE  /\ Reach(S, i + 1, x) <=> Reach(S, i, x) \/ (x >= S[i] /\ Reach(S, i, x - S[i]))
         /\ Reach(S, 0, x) <=> x = 0
         /\ Reach(S, i, 0)
<1> DEFINE f(s) == SumFunctionOnSet(S, s)
           y == S[i]
<1>1. /\ i \in Nat /\ i < n /\ y \in Nat /\ (i + 1) - 1 = i
      /\ 0..(i - 1) \subseteq 0..i /\ 0..i \subseteq 0..(n - 1)
  OBVIOUS
<1>2. /\ f({}) = 0 /\ \A s \in SUBSET (0..(n - 1)) : f(s) \in Nat
      /\ \A s \in SUBSET (0..(n - 1)) : /\ i \in s => f(s) = f(s \ {i}) + y
                                        /\ i \notin s => f(s \cup {i}) = f(s) + y
  BY <1>1, FirstSums, Zenon
<1> HIDE DEF f, y
<1>3. \A k, z : Reach(S, k, z) <=> \E s \in SUBSET (0..(k - 1)) : f(s) = z
  BY Zenon DEF Reach, f
<1>4. ASSUME Reach(S, i + 1, x) PROVE Reach(S, i, x) \/ (x >= y /\ Reach(S, i, x - y))
  <2>1. PICK s \in SUBSET (0..i) : f(s) = x
    BY <1>1, <1>3, <1>4, Zenon
  <2>2. CASE i \notin s
    <3>1. s \in SUBSET (0..(i - 1))
      BY <1>1, <2>2
    <3> QED
      BY <1>3, <2>1, <3>1, Zenon
  <2>3. CASE i \in s
    <3>1. s \ {i} \in SUBSET (0..(i - 1)) /\ s \in SUBSET (0..(n - 1)) /\ s \ {i} \in SUBSET (0..(n - 1))
      BY <1>1
    <3>2. f(s) = f(s \ {i}) + y /\ f(s \ {i}) \in Nat
      BY <1>2, <2>3, <3>1, Zenon
    <3>3. x >= y /\ x - y = f(s \ {i})
      BY <1>1, <2>1, <3>2
    <3> QED
      BY <1>3, <3>1, <3>3, Zenon
  <2> QED
    BY <2>2, <2>3
<1>5. ASSUME Reach(S, i, x) PROVE Reach(S, i + 1, x)
  <2>1. PICK s \in SUBSET (0..(i - 1)) : f(s) = x
    BY <1>3, <1>5, Zenon
  <2>2. s \in SUBSET (0..((i + 1) - 1))
    BY <1>1
  <2> QED
    BY <1>3, <2>1, <2>2, Zenon
<1>6. ASSUME x >= y, Reach(S, i, x - y) PROVE Reach(S, i + 1, x)
  <2>1. PICK s \in SUBSET (0..(i - 1)) : f(s) = x - y
    BY <1>3, <1>6, Zenon
  <2>2. s \cup {i} \in SUBSET (0..((i + 1) - 1)) /\ s \in SUBSET (0..(n - 1)) /\ i \notin s
    BY <1>1
  <2>3. f(s \cup {i}) = (x - y) + y
    BY <1>2, <2>1, <2>2, Zenon
  <2>4. (x - y) + y = x
    BY <1>1
  <2> QED
    BY <1>3, <2>2, <2>3, <2>4, Zenon
<1>7. Reach(S, 0, x) <=> x = 0
  <2>1. \A s : s \in SUBSET (0..(0 - 1)) <=> s = {}
    OBVIOUS
  <2>2. Reach(S, 0, x) <=> \E s \in SUBSET (0..(0 - 1)) : f(s) = x
    BY <1>3, Zenon
  <2>3. Reach(S, 0, x) => x = 0
    BY <1>2, <2>1, <2>2, Zenon
  <2>4. x = 0 => f({}) = x
    BY <1>2, Zenon
  <2>5. {} \in SUBSET (0..(0 - 1))
    OBVIOUS
  <2>6. x = 0 => Reach(S, 0, x)
    BY <2>2, <2>4, <2>5, Zenon
  <2> QED
    BY <2>3, <2>6
<1>8. Reach(S, i, 0)
  <2>1. {} \in SUBSET (0..(i - 1))
    OBVIOUS
  <2> QED
    BY <1>2, <1>3, <2>1, Zenon
<1> QED
  BY <1>4, <1>5, <1>6, <1>7, <1>8, Zenon DEF y

LEMMA TableIs ==
  ASSUME NEW n \in Nat \ {0}, NEW S \in [0..(n - 1) -> Nat], NEW L \in Nat
  PROVE  \A i \in 0..(n - 1) : RowIs(Table(S, n, L)[i], S, i, L)
<1> DEFINE d == Table(S, n, L)
<1>1. PICK g : TableRun(g, S, L, n - 1) /\ Table(S, n, L) = g
  BY TableRuns
<1>2. /\ d[0] = [j \in 0..L |-> j = 0 \/ j = S[0]]
      /\ \A i \in 1..(n - 1) : d[i] = row(d[i - 1], S[i], L)
  <2>1. 0 \in 0..(n - 1) /\ \A i \in 1..(n - 1) : i \in 0..(n - 1) /\ i # 0
    OBVIOUS
  <2> QED
    BY <1>1, <2>1, Zenon DEF TableRun
<1> HIDE DEF d
<1> DEFINE Good == {i \in Nat : i <= n - 1 => RowIs(d[i], S, i, L)}
<1>3. 0 \in Good
  <2> DEFINE r == [j \in 0..L |-> j = 0 \/ j = S[0]]
  <2>1. r \in [0..L -> BOOLEAN]
    OBVIOUS
  <2>2. 0 \in 0..(n - 1) /\ n \in Nat /\ S[0] \in Nat
    OBVIOUS
  <2>3. ASSUME NEW x \in 0..L PROVE r[x] <=> Reach(S, 0 + 1, x)
    <3>1. x \in Nat /\ x - S[0] \in Int
      BY <2>2
    <3>2. Reach(S, 0 + 1, x) <=> Reach(S, 0, x) \/ (x >= S[0] /\ Reach(S, 0, x - S[0]))
      BY <2>2, <3>1, ReachMore, Zenon
    <3>3. Reach(S, 0, x) <=> x = 0
      BY <2>2, <3>1, ReachMore, Zenon
    <3>4. x >= S[0] => (Reach(S, 0, x - S[0]) <=> x = S[0])
      <4> SUFFICES ASSUME x >= S[0] PROVE Reach(S, 0, x - S[0]) <=> x = S[0]
        OBVIOUS
      <4>1. x - S[0] \in Nat /\ (x - S[0] = 0 <=> x = S[0])
        BY <2>2, <3>1
      <4>2. Reach(S, 0, x - S[0]) <=> x - S[0] = 0
        BY <2>2, <4>1, ReachMore, Zenon
      <4> QED
        BY <4>1, <4>2, Zenon
    <3>5. x = S[0] => x >= S[0]
      BY <2>2
    <3> QED
      BY <3>2, <3>3, <3>4, <3>5, Zenon
  <2> HIDE DEF r
  <2>4. RowIs(r, S, 0, L)
    BY <2>1, <2>3, Zenon DEF RowIs
  <2> QED
    BY <1>2, <2>4 DEF r
<1>4. ASSUME NEW i \in Nat, i \in Good PROVE i + 1 \in Good
  <2> SUFFICES ASSUME i + 1 <= n - 1 PROVE RowIs(d[i + 1], S, i + 1, L)
    OBVIOUS
  <2>1. i <= n - 1 /\ i + 1 \in 1..(n - 1) /\ i + 1 \in 0..(n - 1) /\ (i + 1) - 1 = i /\ n \in Nat
    OBVIOUS
  <2>2. RowIs(d[i], S, i, L)
    BY <1>4, <2>1
  <2> DEFINE y == S[i + 1]
             r == row(d[i], y, L)
  <2>3. d[i + 1] = r
    BY <1>2, <2>1
  <2>4. y \in Nat
    BY <2>1
  <2> HIDE DEF y
  <2>5. ASSUME NEW x \in 0..L
        PROVE  r[x] \in BOOLEAN /\ (r[x] <=> Reach(S, (i + 1) + 1, x))
    <3>1. x \in Nat
      OBVIOUS
    <3>2. r[x] = (x = 0 \/ d[i][x] \/ (x >= y /\ d[i][x - y]))
      BY DEF row
    <3>3. x >= y => x - y \in 0..L
      BY <2>4, <3>1
    <3>4. d[i][x] \in BOOLEAN /\ (d[i][x] <=> Reach(S, i + 1, x))
      BY <2>2 DEF RowIs
    <3>5. x >= y => d[i][x - y] \in BOOLEAN /\ (d[i][x - y] <=> Reach(S, i + 1, x - y))
      BY <2>2, <3>3 DEF RowIs
    <3>6. /\ Reach(S, (i + 1) + 1, x) <=> Reach(S, i + 1, x) \/ (x >= y /\ Reach(S, i + 1, x - y))
          /\ Reach(S, i + 1, 0)
      BY <2>1, <3>1, ReachMore, Zenon DEF y
    <3> HIDE DEF r
    <3>7. r[x] <=> Reach(S, (i + 1) + 1, x)
      BY <3>2, <3>4, <3>5, <3>6, Zenon
    <3>8. r[x] \in BOOLEAN
      BY <3>2, Zenon
    <3> QED
      BY <3>7, <3>8, Zenon
  <2>6. r \in [0..L -> BOOLEAN]
    <3>1. r = [j \in 0..L |-> r[j]]
      BY DEF row
    <3> HIDE DEF r
    <3> QED
      BY <2>5, <3>1
  <2> HIDE DEF r
  <2>7. RowIs(r, S, i + 1, L)
    BY <2>5, <2>6, Zenon DEF RowIs
  <2> QED
    BY <2>3, <2>7, Zenon
<1> HIDE DEF Good
<1>5. \A i \in Nat : i \in Good
  BY <1>3, <1>4, Induct, Zenon
<1>6. \A i \in 0..(n - 1) : i \in Nat /\ i <= n - 1
  OBVIOUS
<1> QED
  BY <1>5, <1>6 DEF Good, d

\* What is selected of the last k elements leaves a sum that the others reach.
LeftInv(p, S, n, L, k) ==
  /\ p.L \in 0..L /\ p.sel \in SUBSET ((n - k)..(n - 1))
  /\ SumFunctionOnSet(S, p.sel) + p.L = L
  /\ Reach(S, n - k, p.L)
LEMMA SelectKeeps ==
  ASSUME NEW n \in Nat \ {0}, NEW S \in [0..(n - 1) -> Nat], NEW L \in Nat, NEW k \in 0..(n - 1),
         NEW p, LeftInv(p, S, n, L, k)
  PROVE  LeftInv(select(Table(S, n, L), S, p, n - (k + 1)), S, n, L, k + 1)
<1> DEFINE i == n - (k + 1)
           d == Table(S, n, L)
           f(s) == SumFunctionOnSet(S, s)
           y == S[i]
           x == p.L
           sel == p.sel
           stays == IF i > 0 THEN d[i - 1][x] ELSE x = 0
<1>1. /\ i \in Nat /\ i \in 0..(n - 1) /\ n - k = i + 1 /\ n \in Nat /\ y \in Nat
      /\ i > 0 => i - 1 \in 0..(n - 1) /\ (i - 1) + 1 = i
  OBVIOUS
<1>2. x \in 0..L /\ x \in Nat /\ sel \in SUBSET ((i + 1)..(n - 1)) /\ f(sel) + x = L /\ Reach(S, i + 1, x)
  <2>1. x \in 0..L /\ sel \in SUBSET ((i + 1)..(n - 1)) /\ f(sel) + x = L /\ Reach(S, i + 1, x)
    BY <1>1, Zenon DEF LeftInv
  <2> QED
    BY <2>1
<1>3. select(d, S, p, i) = IF stays THEN p ELSE [L |-> x - y, sel |-> sel \cup {i}]
  BY Zenon DEF select
<1>4. \A t \in SUBSET (0..(n - 1)) : f(t) \in Nat /\ (i \notin t => f(t \cup {i}) = f(t) + y)
  BY <1>1, FirstSums, Zenon
<1>5. stays <=> Reach(S, i, x)
  <2>1. CASE i > 0
    <3>1. RowIs(d[i - 1], S, i - 1, L)
      BY <1>1, <2>1, TableIs
    <3>2. d[i - 1][x] <=> Reach(S, i, x)
      BY <1>1, <1>2, <2>1, <3>1, Zenon DEF RowIs
    <3> QED
      BY <2>1, <3>2
  <2>2. CASE i = 0
    <3>1. ~(i > 0)
      BY <2>2
    <3>2. Reach(S, 0, x) <=> x = 0
      BY <1>1, <1>2, ReachMore, Zenon
    <3> QED
      BY <2>2, <3>1, <3>2, Zenon
  <2> QED
    BY <1>1, <2>1, <2>2
<1>6. Reach(S, i + 1, x) <=> Reach(S, i, x) \/ (x >= y /\ Reach(S, i, x - y))
  BY <1>1, <1>2, ReachMore, Zenon
<1> HIDE DEF f, stays, d, x, y, sel
<1>7. sel \in SUBSET (0..(n - 1)) /\ i \notin sel /\ sel \in SUBSET (i..(n - 1)) /\ sel \cup {i} \in SUBSET (i..(n - 1))
  BY <1>1, <1>2
<1>8. CASE stays
  <2>1. LeftInv(p, S, n, L, k + 1)
    BY <1>2, <1>5, <1>7, <1>8, Zenon DEF LeftInv, f, x, sel
  <2> QED
    BY <1>3, <1>8, <2>1, Zenon DEF d
<1>9. CASE ~stays
  <2> DEFINE t == sel \cup {i}
             q == [L |-> x - y, sel |-> t]
  <2>1. x >= y /\ Reach(S, i, x - y)
    BY <1>2, <1>5, <1>6, <1>9, Zenon
  <2>2. x - y \in 0..L
    BY <1>1, <1>2, <2>1
  <2>3. f(t) = f(sel) + y /\ f(sel) \in Nat
    BY <1>4, <1>7, Zenon
  <2>4. f(t) + (x - y) = L
    BY <1>1, <1>2, <2>3
  <2>5. q.L = x - y /\ q.sel = t
    OBVIOUS
  <2>6. t \in SUBSET (i..(n - 1))
    BY <1>7
  <2> HIDE DEF q, t
  <2>7. LeftInv(q, S, n, L, k + 1)
    BY <2>1, <2>2, <2>4, <2>5, <2>6, Zenon DEF LeftInv, f
  <2>8. select(d, S, p, i) = q
    BY <1>3, <1>9, Zenon DEF q, t
  <2> QED
    BY <2>7, <2>8, Zenon DEF d
<1> QED
  BY <1>8, <1>9

LEMMA ByTableFinds ==
  ASSUME NEW n \in Nat \ {0}, NEW S \in [0..(n - 1) -> Nat], NEW L \in Nat
  PROVE  LET a == ByTable(S, n, L)
         IN /\ a.found <=> L > 0 /\ Reach(S, n, L)
            /\ a.found => SumFunctionOnSet(S, a.sel) = L
<1> DEFINE d == Table(S, n, L)
           a == ByTable(S, n, L)
           f(s) == SumFunctionOnSet(S, s)
<1>1. n \in Nat /\ n - 1 \in 0..(n - 1) /\ (n - 1) + 1 = n /\ L \in 0..L
  OBVIOUS
<1>2. d[n - 1][L] \in BOOLEAN /\ (d[n - 1][L] <=> Reach(S, n, L))
  <2>1. RowIs(d[n - 1], S, n - 1, L)
    BY <1>1, TableIs
  <2> HIDE DEF d
  <2>2. d[n - 1] \in [0..L -> BOOLEAN] /\ (d[n - 1][L] <=> Reach(S, n, L))
    BY <1>1, <2>1, Zenon DEF RowIs
  <2> QED
    BY <1>1, <2>2
<1>3. /\ a.found = (L > 0 /\ d[n - 1][L])
      /\ a.found => a.sel = Selected(d, S, n, L)
  BY DEF ByTable
<1>4. PICK g : SelectRun(g, d, S, n, L, n) /\ Selected(d, S, n, L) = g[n].sel
  BY <1>1, SelectRuns
<1>5. g[0] = [L |-> L, sel |-> {}] /\ \A k \in 1..n : g[k] = select(d, S, g[k - 1], n - k)
  <2>1. 0 \in 0..n /\ \A k \in 1..n : k \in 0..n /\ k # 0
    BY <1>1
  <2> QED
    BY <1>4, <2>1, Zenon DEF SelectRun
<1>6. ASSUME Reach(S, n, L) PROVE f(Selected(d, S, n, L)) = L
  <2> DEFINE Good == {k \in Nat : k <= n => LeftInv(g[k], S, n, L, k)}
  <2> HIDE DEF d
  <2>1. 0 \in Good
    <3> DEFINE p == [L |-> L, sel |-> {}]
    <3>1. p.L = L /\ p.sel = {} /\ n - 0 = n /\ {} \in SUBSET ((n - 0)..(n - 1)) /\ 0 + L = L
      OBVIOUS
    <3> HIDE DEF p
    <3>2. f({}) = 0
      BY <1>1, FirstSums, Zenon
    <3>3. LeftInv(p, S, n, L, 0)
      BY <1>1, <1>6, <3>1, <3>2, Zenon DEF LeftInv
    <3> QED
      BY <1>5, <3>3 DEF p
  <2>2. ASSUME NEW k \in Nat, k \in Good PROVE k + 1 \in Good
    <3> SUFFICES ASSUME k + 1 <= n PROVE LeftInv(g[k + 1], S, n, L, k + 1)
      OBVIOUS
    <3>1. k <= n /\ k \in 0..(n - 1) /\ k + 1 \in 1..n /\ (k + 1) - 1 = k
      BY <1>1
    <3>2. LeftInv(g[k], S, n, L, k)
      BY <2>2, <3>1
    <3>3. g[k + 1] = select(d, S, g[k], n - (k + 1))
      BY <1>5, <3>1, Zenon
    <3> HIDE DEF Good
    <3>4. LeftInv(select(Table(S, n, L), S, g[k], n - (k + 1)), S, n, L, k + 1)
      BY <3>1, <3>2, SelectKeeps
    <3> QED
      BY <3>3, <3>4, Zenon DEF d
  <2> HIDE DEF Good
  <2>3. \A k \in Nat : k \in Good
    BY <2>1, <2>2, Induct, Zenon
  <2>4. LeftInv(g[n], S, n, L, n)
    <3>1. n <= n
      BY <1>1
    <3> QED
      BY <1>1, <2>3, <3>1 DEF Good
  <2> DEFINE p == g[n]
  <2> HIDE DEF p
  <2>5. p.L \in Nat /\ f(p.sel) + p.L = L /\ Reach(S, n - n, p.L)
    BY <2>4 DEF LeftInv, p
  <2>6. n - n = 0 /\ 0 \in 0..(n - 1)
    BY <1>1
  <2>7. p.L = 0
    <3>1. p.L \in Nat /\ Reach(S, 0, p.L)
      BY <2>5, <2>6, Zenon
    <3> DEFINE x == p.L
    <3>2. x \in Nat /\ Reach(S, 0, x)
      BY <3>1
    <3> HIDE DEF x
    <3>3. Reach(S, 0, x) <=> x = 0
      BY <1>1, <2>6, <3>2, ReachMore
    <3> QED
      BY <3>2, <3>3 DEF x
  <2>8. f(p.sel) \in Nat
    <3>1. p.sel \in SUBSET ((n - n)..(n - 1))
      BY <2>4, Zenon DEF LeftInv, p
    <3>2. p.sel \in SUBSET (0..(n - 1))
      BY <2>6, <3>1, Zenon
    <3> QED
      BY <1>1, <3>2, FirstSums, Zenon
  <2> HIDE DEF f
  <2>9. f(p.sel) = L
    BY <2>5, <2>7, <2>8
  <2> QED
    BY <1>4, <2>9, Zenon DEF p
<1> HIDE DEF d, a, f
<1>7. a.found <=> L > 0 /\ Reach(S, n, L)
  BY <1>2, <1>3, Zenon
<1>8. a.found => f(a.sel) = L
  BY <1>3, <1>6, <1>7, Zenon
<1> QED
  BY <1>7, <1>8, Zenon DEF a, f

----------------------------------------------------------------------------
(* Both programs *)

LEMMA SubsetSumSets ==
  ASSUME NEW S \in Numbers
  PROVE  LET n == Cardinality(DOMAIN S)
         IN /\ n \in Nat \ {0} /\ S \in [0..(n - 1) -> Nat]
            /\ \A x : x \in SubsetSums(S) <=> Reach(S, n, x)
<1> DEFINE n == Cardinality(DOMAIN S)
<1>1. n \in Nat \ {0} /\ S \in [0..(n - 1) -> Nat]
  <2>1. n \in 1..31 /\ S \in [0..(n - 1) -> Nat]
    BY SubsetSumAssumption, Zenon
  <2> HIDE DEF n
  <2> QED
    BY <2>1
<1> HIDE DEF n
<1>2. DOMAIN S = 0..(n - 1)
  BY <1>1
<1>3. \A x : x \in SubsetSums(S) <=> Reach(S, n, x)
  BY <1>2, Zenon DEF SubsetSums, Reach
<1> QED
  BY <1>1, <1>3, Zenon DEF n

\* The programs select elements that have the sum wanted, the greatest sum up to the
\* limit, or one at most epsilon below it: table and selection of 3_2.c, and merge, trim,
\* exact and approx of 4_2.cpp.
THEOREM SubsetsAreFound == SubsetSumSpec => []SubsetsFound
<1>1. SubsetSumInit => SubsetsFound
  BY DEF SubsetSumInit, SubsetsFound
<1>2. SubsetsFound /\ [SubsetSumMain]_subset => SubsetsFound'
  <2> SUFFICES ASSUME SubsetsFound, [SubsetSumMain]_subset PROVE SubsetsFound'
    OBVIOUS
  <2>1. CASE UNCHANGED subset
    BY <2>1 DEF SubsetsFound
  <2>2. ASSUME NEW S \in Numbers, NEW L \in Limits,
               subset' = [op |-> "table", S |-> S, L |-> L, answer |-> ByTable(S, Cardinality(DOMAIN S), L)]
        PROVE  SubsetsFound'
    <3> DEFINE n == Cardinality(DOMAIN S)
               a == ByTable(S, n, L)
    <3>1. n \in Nat \ {0} /\ S \in [0..(n - 1) -> Nat] /\ \A x : x \in SubsetSums(S) <=> Reach(S, n, x)
      BY SubsetSumSets
    <3>2. L \in Nat
      BY SubsetSumAssumption
    <3> HIDE DEF n
    <3>3. (a.found <=> L > 0 /\ Reach(S, n, L)) /\ (a.found => SumFunctionOnSet(S, a.sel) = L)
      BY <3>1, <3>2, ByTableFinds
    <3> HIDE DEF a
    <3>4. subset' = [op |-> "table", S |-> S, L |-> L, answer |-> a]
      BY <2>2 DEF a, n
    <3>5. subset'.op = "table" /\ subset'.S = S /\ subset'.L = L /\ subset'.answer = a
      BY <3>4
    <3>6. (a.found <=> L > 0 /\ L \in SubsetSums(S)) /\ (a.found => SumFunctionOnSet(S, a.sel) = L)
      BY <3>1, <3>3, Zenon
    <3> QED
      BY <3>5, <3>6 DEF SubsetsFound
  <2>3. ASSUME NEW S \in Numbers, NEW L \in Limits, NEW e \in Epsilons,
               subset' = [op |-> "lists", S |-> S, L |-> L, e |-> e,
                          exact |-> exact(Cardinality(DOMAIN S), L, S),
                          approx |-> approx(Cardinality(DOMAIN S), e, L, S)]
        PROVE  SubsetsFound'
    <3> DEFINE n == Cardinality(DOMAIN S)
               q == exact(n, L, S)
               r == approx(n, e, L, S)
               f(s) == SumFunctionOnSet(S, s)
               T == {x \in SubsetSums(S) : x <= L}
    <3>1. n \in Nat \ {0} /\ S \in [0..(n - 1) -> Nat] /\ \A x : x \in SubsetSums(S) <=> Reach(S, n, x)
      BY SubsetSumSets
    <3>2. /\ L \in Nat /\ e \in (Nat \ {0}) \X (Nat \ {0})
          /\ e[1] \in Nat /\ e[2] \in Nat \ {0} /\ e[1] <= e[2] /\ e = <<e[1], e[2]>>
      BY SubsetSumAssumption
    <3> HIDE DEF n
    <3>3. /\ q.sum \in Nat /\ q.sum <= L /\ q.mask \in SUBSET (0..(n - 1)) /\ f(q.mask) = q.sum
          /\ \A s \in SUBSET (0..(n - 1)) : f(s) <= L => f(s) * 1 <= q.sum * (1 + 0)
      <4>1. TrimmedBy(<<>>, 0, 1)
        BY DEF TrimmedBy
      <4>2. 0 \in Nat /\ 1 \in Nat \ {0} /\ 0 <= 1
        OBVIOUS
      <4>3. Finds(Last(SumLists(n, S, L, <<>>)[n]), n, S, L, 0, 1)
        BY <3>1, <3>2, <4>1, <4>2, ListsFind, Zenon
      <4>4. Finds(q, n, S, L, 0, 1)
        BY <4>3, Zenon DEF exact
      <4> HIDE DEF q, f
      <4> QED
        BY <4>4, Zenon DEF Finds, f
    <3>4. /\ r.sum \in Nat /\ r.sum <= L /\ r.mask \in SUBSET (0..(n - 1)) /\ f(r.mask) = r.sum
          /\ \A s \in SUBSET (0..(n - 1)) : f(s) <= L => f(s) * e[2] <= r.sum * (e[2] + e[1])
      <4>1. TrimmedBy(e, e[1], e[2])
        BY <3>2 DEF TrimmedBy
      <4>2. e[1] \in Nat /\ e[2] \in Nat \ {0} /\ e[1] <= e[2] /\ L \in Nat
        BY <3>2
      <4> DEFINE x == e[1]
                 y == e[2]
      <4>3. x \in Nat /\ y \in Nat \ {0} /\ x <= y /\ TrimmedBy(e, x, y)
        BY <4>1, <4>2, Zenon
      <4> HIDE DEF x, y
      <4>4. Finds(Last(SumLists(n, S, L, e)[n]), n, S, L, x, y)
        BY <3>1, <4>2, <4>3, ListsFind, Zenon
      <4>5. Finds(r, n, S, L, e[1], e[2])
        BY <4>4, Zenon DEF approx, x, y
      <4> HIDE DEF r, f
      <4> QED
        BY <4>5, Zenon DEF Finds, f
    <3>5. \A s \in SUBSET (0..(n - 1)) : f(s) \in Nat
      <4>1. n \in Nat
        BY <3>1
      <4> QED
        BY <3>1, <4>1, FirstSums, Zenon
    <3>6. subset' = [op |-> "lists", S |-> S, L |-> L, e |-> e, exact |-> q, approx |-> r]
      BY <2>3, Zenon DEF n
    <3> HIDE DEF q, r, f
    <3>7. q.sum = Max(T)
      <4>1. \A x \in T : x \in Nat /\ x <= q.sum
        <5> SUFFICES ASSUME NEW x \in T PROVE x \in Nat /\ x <= q.sum
          OBVIOUS
        <5>1. PICK s \in SUBSET (0..(n - 1)) : f(s) = x
          BY <3>1, Zenon DEF Reach, f
        <5>2. f(s) <= L /\ f(s) \in Nat
          BY <3>5, <5>1
        <5>3. f(s) * 1 <= q.sum * (1 + 0)
          BY <3>3, <5>2, Zenon
        <5> QED
          BY <3>3, <5>1, <5>2, <5>3
      <4>2. q.sum \in T
        <5>1. Reach(S, n, q.sum)
          BY <3>3, Zenon DEF Reach, f
        <5> QED
          BY <3>1, <3>3, <5>1
      <4>3. T \in SUBSET Int
        BY <4>1
      <4> HIDE DEF T
      <4> QED
        BY <4>1, <4>2, <4>3, MaxIs
    <3>8. r.sum * (e[1] + e[2]) >= q.sum * e[2]
      <4>1. q.sum * e[2] <= r.sum * (e[2] + e[1])
        BY <3>3, <3>4, Zenon
      <4>2. e[2] + e[1] = e[1] + e[2] /\ e[1] + e[2] \in Nat
        BY <3>2
      <4>3. q.sum * e[2] <= r.sum * (e[1] + e[2])
        BY <4>1, <4>2, Zenon
      <4> QED
        BY <4>3
    <3>9. \A p \in {q, r} : f(p.mask) = p.sum
      BY <3>3, <3>4, Zenon
    <3>10. /\ subset'.op = "lists" /\ subset'.S = S /\ subset'.L = L /\ subset'.e = e
           /\ subset'.exact = q /\ subset'.approx = r
      BY <3>6
    <3> HIDE DEF T
    <3>11. \A p \in {subset'.exact, subset'.approx} : SumFunctionOnSet(subset'.S, p.mask) = p.sum
      BY <3>9, <3>10, Zenon DEF f
    <3> QED
      BY <3>4, <3>7, <3>8, <3>10, <3>11 DEF SubsetsFound, T
  <2> QED
    BY <2>1, <2>2, <2>3, Zenon DEF SubsetSumMain
<1> QED
  BY <1>1, <1>2, PTL DEF SubsetSumSpec

----------------------------------------------------------------------------
(* The triangulation: what the recursive functions are *)

\* The parts of at most m vertices.
PartsTo(n, m) == {p \in SubPolygons(n) : p[2] <= m}

\* The two smaller parts next to a triangle.
LEMMA SmallerParts ==
  ASSUME NEW n \in Nat, NEW m \in Nat, NEW f \in Nat, NEW s \in Nat, f + s <= n, s <= m + 1,
         NEW i \in 1..(s - 2)
  PROVE  <<f, i + 1>> \in PartsTo(n, m) /\ <<f + i, s - i>> \in PartsTo(n, m)
<1>1. /\ f \in 0..n /\ i + 1 \in 0..n /\ f + i \in 0..n /\ s - i \in 0..n
      /\ f + (i + 1) <= n /\ (f + i) + (s - i) <= n /\ i + 1 <= m /\ s - i <= m
  OBVIOUS
<1> QED
  BY <1>1 DEF PartsTo, SubPolygons

\* The parts cut so far, by their size.
CutRun(g, length, n, m) == g = [p \in PartsTo(n, m) |-> Cut(g, length, p)]
LEMMA CutSame ==
  ASSUME NEW n \in Nat, NEW m \in Nat, NEW g, NEW h, NEW length,
         \A p \in PartsTo(n, m) : g[p] = h[p], NEW p \in PartsTo(n, m + 1)
  PROVE  Cut(g, length, p) = Cut(h, length, p)
<1> DEFINE f == p[1]
           s == p[2]
<1>1. p = <<f, s>> /\ f \in Nat /\ s \in Nat /\ f + s <= n /\ s <= m + 1
  BY DEF PartsTo, SubPolygons
<1> HIDE DEF f, s
<1>2. \A i \in 1..(s - 2) : Through(g, length, p, i) = Through(h, length, p, i)
  <2> SUFFICES ASSUME NEW i \in 1..(s - 2) PROVE Through(g, length, p, i) = Through(h, length, p, i)
    OBVIOUS
  <2>1. g[<<f, i + 1>>] = h[<<f, i + 1>>] /\ g[<<f + i, s - i>>] = h[<<f + i, s - i>>]
    BY <1>1, SmallerParts, Zenon
  <2>2. p[1] = f /\ p[2] = s
    BY <1>1
  <2> QED
    BY <2>1, <2>2, Zenon DEF Through
<1> DEFINE ret(x) == Min({Through(x, length, p, i) : i \in 1..(s - 2)})
           has(x, r) == {i \in 1..(s - 2) : Through(x, length, p, i) = r}
<1>3. {Through(g, length, p, i) : i \in 1..(s - 2)} = {Through(h, length, p, i) : i \in 1..(s - 2)}
  BY <1>2
<1>4. ret(g) = ret(h)
  BY <1>3, Zenon
<1>5. \A r : has(g, r) = has(h, r)
  BY <1>2
<1>6. p[2] = s
  BY <1>1
<1>7. \A x : Cut(x, length, p) = IF s < 4 THEN [pair |-> 0, cost |-> 0] ELSE [pair |-> Min(has(x, ret(x))), cost |-> ret(x)]
  BY <1>6, Zenon DEF Cut
<1> HIDE DEF ret, has
<1> QED
  BY <1>4, <1>5, <1>7, Zenon

LEMMA CutRuns ==
  ASSUME NEW n \in Nat, NEW length
  PROVE  tri(length, n) = [p \in SubPolygons(n) |-> Cut(tri(length, n), length, p)]
<1> DEFINE S == {m \in Nat : \E g : CutRun(g, length, n, m)}
<1>1. 0 \in S
  <2> DEFINE g == [p \in PartsTo(n, 0) |-> Cut(length, length, p)]
             k == [p \in PartsTo(n, 0) |-> Cut(g, length, p)]
  <2>1. ASSUME NEW p \in PartsTo(n, 0) PROVE Cut(length, length, p) = Cut(g, length, p)
    <3>1. p[2] < 4
      BY DEF PartsTo, SubPolygons
    <3> QED
      BY <3>1 DEF Cut
  <2>2. g = k
    BY <2>1
  <2>3. CutRun(g, length, n, 0)
    BY <2>2, Zenon DEF CutRun
  <2> QED
    BY <2>3
<1>2. ASSUME NEW m \in Nat, m \in S PROVE m + 1 \in S
  <2>1. PICK g : CutRun(g, length, n, m)
    BY <1>2
  <2> DEFINE h == [p \in PartsTo(n, m + 1) |-> Cut(g, length, p)]
             k == [p \in PartsTo(n, m + 1) |-> Cut(h, length, p)]
  <2>2. \A p \in PartsTo(n, m) : p \in PartsTo(n, m + 1)
    BY DEF PartsTo, SubPolygons
  <2>3. \A p \in PartsTo(n, m) : g[p] = h[p]
    BY <2>1, <2>2, Zenon DEF CutRun
  <2> HIDE DEF h
  <2>4. \A p \in PartsTo(n, m + 1) : Cut(g, length, p) = Cut(h, length, p)
    <3> SUFFICES ASSUME NEW p \in PartsTo(n, m + 1) PROVE Cut(g, length, p) = Cut(h, length, p)
      OBVIOUS
    <3> QED
      BY <2>3, CutSame
  <2>5. h = k
    BY <2>4, Zenon DEF h
  <2>6. CutRun(h, length, n, m + 1)
    BY <2>5, Zenon DEF CutRun
  <2>7. m + 1 \in Nat
    OBVIOUS
  <2> QED
    BY <2>6, <2>7
<1>3. n \in S
  <2> HIDE DEF S
  <2> QED
    BY <1>1, <1>2, Induct, Zenon
<1>4. PartsTo(n, n) = SubPolygons(n)
  BY DEF PartsTo, SubPolygons
<1> DEFINE R == CHOOSE g : CutRun(g, length, n, n)
<1>5. CutRun(R, length, n, n)
  BY <1>3, Zenon
<1>6. tri(length, n) = R
  BY <1>4, Zenon DEF tri, CutRun
<1> HIDE DEF R
<1> QED
  BY <1>4, <1>5, <1>6, Zenon DEF CutRun

\* The least of some numbers.
LEMMA MinIs ==
  ASSUME NEW S \in SUBSET Nat, S # {}
  PROVE  Min(S) \in S /\ \A y \in S : Min(S) <= y
<1>1. \E x \in S : \A y \in S : x <= y
  BY LeastOf
<1> QED
  BY <1>1, Zenon DEF Min

\* A cut is where a part costs least.
CutAt(d, length, p) ==
  /\ d[p].cost \in Nat
  /\ p[2] < 4 => d[p].cost = 0
  /\ p[2] >= 4 => /\ d[p].pair \in 1..(p[2] - 2) /\ d[p].cost = Through(d, length, p, d[p].pair)
                  /\ \A i \in 1..(p[2] - 2) : d[p].cost <= Through(d, length, p, i)
LEMMA DistIs ==
  ASSUME NEW n \in Nat, NEW length \in [Chords(n) -> Nat],
         NEW a \in 0..(n - 1), NEW b \in 0..(n - 1), a < b, b - a < n - 1
  PROVE  /\ dist(length, a, b) \in Nat
         /\ dist(length, a, b) = IF b - a > 1 THEN length[<<a, b>>] ELSE 0
<1>1. CASE b - a = 1
  BY <1>1 DEF dist
<1>2. CASE b - a > 1
  <2>1. <<a, b>> \in Chords(n)
    BY <1>2 DEF Chords
  <2>2. dist(length, a, b) = length[<<a, b>>]
    BY <1>2 DEF dist, GlobalN
  <2> QED
    BY <1>2, <2>1, <2>2
<1> QED
  BY <1>1, <1>2

LEMMA TriIs ==
  ASSUME NEW n \in Nat, NEW length \in [Chords(n) -> Nat]
  PROVE  \A p \in SubPolygons(n) : CutAt(tri(length, n), length, p)
<1> DEFINE d == tri(length, n)
           S == {m \in Nat : \A p \in PartsTo(n, m) : CutAt(d, length, p)}
<1>1. d = [p \in SubPolygons(n) |-> Cut(d, length, p)]
  BY CutRuns, Zenon
<1> HIDE DEF d
<1>2. \A p \in SubPolygons(n) : d[p] = Cut(d, length, p)
  BY <1>1, Zenon
<1>3. ASSUME NEW p \in SubPolygons(n), p[2] < 4 PROVE CutAt(d, length, p)
  <2>1. d[p] = [pair |-> 0, cost |-> 0]
    BY <1>2, <1>3, Zenon DEF Cut
  <2>2. p[2] \in Nat
    BY DEF SubPolygons
  <2> QED
    BY <1>3, <2>1, <2>2 DEF CutAt
<1>4. 0 \in S
  <2>1. \A p \in PartsTo(n, 0) : p \in SubPolygons(n) /\ p[2] < 4
    BY DEF PartsTo, SubPolygons
  <2> QED
    BY <1>3, <2>1
<1>5. ASSUME NEW m \in Nat, m \in S, NEW p \in PartsTo(n, m + 1), p[2] >= 4 PROVE CutAt(d, length, p)
  <2> DEFINE f == p[1]
             s == p[2]
             c(i) == Through(d, length, p, i)
             C == {c(i) : i \in 1..(s - 2)}
             ret == Min(C)
             I == {i \in 1..(s - 2) : c(i) = ret}
  <2>1. p \in SubPolygons(n) /\ f \in Nat /\ s \in Nat /\ f + s <= n /\ s <= m + 1 /\ s >= 4
    BY <1>5 DEF PartsTo, SubPolygons
  <2>2. ASSUME NEW i \in 1..(s - 2) PROVE c(i) \in Nat
    <3> HIDE DEF s, f
    <3> DEFINE u == d[<<f, i + 1>>].cost
               v == d[<<f + i, s - i>>].cost
               x == dist(length, f, f + i)
               y == dist(length, f + i, f + s - 1)
    <3>1. <<f, i + 1>> \in PartsTo(n, m) /\ <<f + i, s - i>> \in PartsTo(n, m)
      BY <2>1, SmallerParts
    <3>2. u \in Nat /\ v \in Nat
      BY <1>5, <3>1 DEF CutAt
    <3>3. /\ f \in 0..(n - 1) /\ f + i \in 0..(n - 1) /\ f + s - 1 \in 0..(n - 1)
          /\ f < f + i /\ (f + i) - f < n - 1 /\ f + i < f + s - 1 /\ (f + s - 1) - (f + i) < n - 1
      BY <2>1
    <3>4. x \in Nat /\ y \in Nat
      BY <3>3, DistIs
    <3>5. c(i) = u + v + x + y
      BY Zenon DEF Through, f, s
    <3> HIDE DEF u, v, x, y
    <3> QED
      BY <3>2, <3>4, <3>5
  <2> HIDE DEF c
  <2>3. C \in SUBSET Nat /\ C # {}
    BY <2>1, <2>2
  <2>4. ret \in C /\ \A z \in C : ret <= z
    BY <2>3, MinIs
  <2> HIDE DEF ret
  <2>5. I \in SUBSET Nat /\ I # {}
    BY <2>4
  <2>6. Min(I) \in I
    BY <2>5, MinIs
  <2>7. d[p] = [pair |-> Min(I), cost |-> ret]
    <3>1. ~(s < 4)
      BY <2>1
    <3> QED
      BY <1>2, <2>1, <3>1, Zenon DEF Cut, c, ret
  <2>8. d[p].pair = Min(I) /\ d[p].cost = ret
    BY <2>7
  <2>9. d[p].pair \in 1..(s - 2) /\ c(d[p].pair) = ret
    BY <2>6, <2>8
  <2>10. \A i \in 1..(s - 2) : ret <= c(i)
    BY <2>4
  <2>11. ret \in Nat
    BY <2>3, <2>4
  <2> HIDE DEF I, C
  <2> QED
    BY <2>1, <2>8, <2>9, <2>10, <2>11 DEF CutAt, c
<1>6. ASSUME NEW m \in Nat, m \in S PROVE m + 1 \in S
  <2>1. ASSUME NEW p \in PartsTo(n, m + 1) PROVE CutAt(d, length, p)
    <3>1. p \in SubPolygons(n) /\ (p[2] < 4 \/ p[2] >= 4)
      BY DEF PartsTo, SubPolygons
    <3> QED
      BY <1>3, <1>5, <1>6, <3>1
  <2> QED
    BY <2>1
<1>7. n \in S
  <2> HIDE DEF S
  <2> QED
    BY <1>4, <1>6, Induct, Zenon
<1>8. \A p \in SubPolygons(n) : p \in PartsTo(n, n)
  BY DEF PartsTo, SubPolygons
<1> QED
  BY <1>7, <1>8 DEF d

\* Every part of four vertices is split by one of its own.
Split(d, n) == \A q \in SubPolygons(n) : q[2] >= 4 => d[q].pair \in 1..(q[2] - 2)

\* The chords listed so far, by the size of the parts.
PairRun(g, d, n, m) == g = [p \in PartsTo(n, m) |-> ChordsOf(g, d, p)]
LEMMA PairSame ==
  ASSUME NEW n \in Nat, NEW m \in Nat, NEW g, NEW h, NEW d,
         \A p \in PartsTo(n, m) : g[p] = h[p], NEW p \in PartsTo(n, m + 1), Split(d, n)
  PROVE  ChordsOf(g, d, p) = ChordsOf(h, d, p)
<1> DEFINE f == p[1]
           s == p[2]
<1>1. p = <<f, s>> /\ f \in Nat /\ s \in Nat /\ f + s <= n /\ s <= m + 1
  BY DEF PartsTo, SubPolygons
<1> HIDE DEF f, s
<1>2. CASE s < 4
  BY <1>1, <1>2 DEF ChordsOf
<1>3. CASE s >= 4
  <2> DEFINE i == d[p].pair
  <2>1. i \in 1..(s - 2)
    <3>1. p \in SubPolygons(n) /\ p[2] = s
      BY <1>1 DEF PartsTo
    <3> QED
      BY <1>3, <3>1 DEF Split
  <2> HIDE DEF i
  <2>2. g[<<f, i + 1>>] = h[<<f, i + 1>>] /\ g[<<f + i, s - i>>] = h[<<f + i, s - i>>]
    BY <1>1, <2>1, SmallerParts, Zenon
  <2>3. p[1] = f /\ p[2] = s
    BY <1>1
  <2> QED
    BY <2>2, <2>3, Zenon DEF ChordsOf, i
<1> QED
  BY <1>1, <1>2, <1>3

LEMMA PairRuns ==
  ASSUME NEW n \in Nat, NEW d, Split(d, n)
  PROVE  find_pairs(d, n) = [p \in SubPolygons(n) |-> ChordsOf(find_pairs(d, n), d, p)]
<1> DEFINE S == {m \in Nat : \E g : PairRun(g, d, n, m)}
<1>1. 0 \in S
  <2> DEFINE g == [p \in PartsTo(n, 0) |-> ChordsOf(d, d, p)]
             k == [p \in PartsTo(n, 0) |-> ChordsOf(g, d, p)]
  <2>1. ASSUME NEW p \in PartsTo(n, 0) PROVE ChordsOf(d, d, p) = ChordsOf(g, d, p)
    <3>1. p[2] < 4
      BY DEF PartsTo, SubPolygons
    <3> QED
      BY <3>1 DEF ChordsOf
  <2>2. g = k
    BY <2>1
  <2>3. PairRun(g, d, n, 0)
    BY <2>2, Zenon DEF PairRun
  <2> QED
    BY <2>3
<1>2. ASSUME NEW m \in Nat, m \in S PROVE m + 1 \in S
  <2>1. PICK g : PairRun(g, d, n, m)
    BY <1>2
  <2> DEFINE h == [p \in PartsTo(n, m + 1) |-> ChordsOf(g, d, p)]
             k == [p \in PartsTo(n, m + 1) |-> ChordsOf(h, d, p)]
  <2>2. \A p \in PartsTo(n, m) : p \in PartsTo(n, m + 1)
    BY DEF PartsTo, SubPolygons
  <2>3. \A p \in PartsTo(n, m) : g[p] = h[p]
    BY <2>1, <2>2, Zenon DEF PairRun
  <2> HIDE DEF h
  <2>4. \A p \in PartsTo(n, m + 1) : ChordsOf(g, d, p) = ChordsOf(h, d, p)
    <3> SUFFICES ASSUME NEW p \in PartsTo(n, m + 1) PROVE ChordsOf(g, d, p) = ChordsOf(h, d, p)
      OBVIOUS
    <3> QED
      BY <2>3, PairSame
  <2>5. h = k
    BY <2>4, Zenon DEF h
  <2>6. PairRun(h, d, n, m + 1)
    BY <2>5, Zenon DEF PairRun
  <2>7. m + 1 \in Nat
    OBVIOUS
  <2> QED
    BY <2>6, <2>7
<1>3. n \in S
  <2> HIDE DEF S
  <2> QED
    BY <1>1, <1>2, Induct, Zenon
<1>4. PartsTo(n, n) = SubPolygons(n)
  BY DEF PartsTo, SubPolygons
<1> DEFINE R == CHOOSE g : PairRun(g, d, n, n)
<1>5. PairRun(R, d, n, n)
  BY <1>3, Zenon
<1>6. find_pairs(d, n) = R
  BY <1>4, Zenon DEF find_pairs, PairRun
<1> HIDE DEF R
<1> QED
  BY <1>4, <1>5, <1>6, Zenon DEF PairRun

----------------------------------------------------------------------------
(* What a triangle leaves of a part: two sides and two smaller parts *)

\* The chords inside a part, of which a triangulation has Full(s), and the chord between
\* two vertices, if they are not next to each other.
Inner(f, s) == {c \in (f..(f + s - 1)) \X (f..(f + s - 1)) : c[2] - c[1] > 1 /\ c[2] - c[1] < s - 1}
Full(s) == IF s < 4 THEN 0 ELSE s - 3
Side(a, b) == IF b - a > 1 THEN {<<a, b>>} ELSE {}
NoneCross(T) == \A c, d \in T : ~Cross(c, d)

LEMMA InnerIs ==
  ASSUME NEW f \in Nat, NEW s \in Nat, NEW c
  PROVE  c \in Inner(f, s) <=> /\ c = <<c[1], c[2]>> /\ c[1] \in Nat /\ c[2] \in Nat
                               /\ f <= c[1] /\ c[1] < f + s /\ f <= c[2] /\ c[2] < f + s
                               /\ c[2] - c[1] > 1 /\ c[2] - c[1] < s - 1
BY DEF Inner

LEMMA SideIs ==
  ASSUME NEW a \in Nat, NEW b \in Nat, NEW c
  PROVE  c \in Side(a, b) <=> b - a > 1 /\ c = <<a, b>>
BY DEF Side

LEMMA PiecesApart ==
  ASSUME NEW f \in Nat, NEW s \in Nat, s >= 4, NEW k \in 1..(s - 2)
  PROVE  /\ Side(f, f + k) \in SUBSET Inner(f, s) /\ Side(f + k, f + s - 1) \in SUBSET Inner(f, s)
         /\ Inner(f, k + 1) \in SUBSET Inner(f, s) /\ Inner(f + k, s - k) \in SUBSET Inner(f, s)
         /\ Side(f, f + k) \cap Side(f + k, f + s - 1) = {}
         /\ (Side(f, f + k) \cup Side(f + k, f + s - 1)) \cap Inner(f, k + 1) = {}
         /\ (Side(f, f + k) \cup Side(f + k, f + s - 1) \cup Inner(f, k + 1)) \cap Inner(f + k, s - k) = {}
<1> DEFINE A == Side(f, f + k)
           B == Side(f + k, f + s - 1)
           C == Inner(f, k + 1)
           D == Inner(f + k, s - k)
<1>1. k \in Nat /\ k >= 1 /\ k <= s - 2 /\ f + k \in Nat /\ f + s - 1 \in Nat /\ k + 1 \in Nat /\ s - k \in Nat
  OBVIOUS
<1>2. \A c \in A : c[1] = f /\ c[2] = f + k /\ k > 1 /\ c = <<c[1], c[2]>>
  BY <1>1, SideIs
<1>3. \A c \in B : c[1] = f + k /\ c[2] = f + s - 1 /\ s - k > 2 /\ c = <<c[1], c[2]>>
  BY <1>1, SideIs
<1>4. \A c \in C : /\ c = <<c[1], c[2]>> /\ c[1] \in Nat /\ c[2] \in Nat
                   /\ f <= c[1] /\ c[2] <= f + k /\ c[2] - c[1] > 1 /\ c[2] - c[1] < k
  BY <1>1, InnerIs
<1>5. \A c \in D : /\ c = <<c[1], c[2]>> /\ c[1] \in Nat /\ c[2] \in Nat
                   /\ f + k <= c[1] /\ c[2] < f + s /\ c[2] - c[1] > 1 /\ c[2] - c[1] < s - k - 1
  BY <1>1, InnerIs
<1> HIDE DEF A, B, C, D
<1>6. \A c \in A : c \in Inner(f, s)
  BY <1>1, <1>2, InnerIs
<1>7. \A c \in B : c \in Inner(f, s)
  BY <1>1, <1>3, InnerIs
<1>8. \A c \in C : c \in Inner(f, s)
  BY <1>1, <1>4, InnerIs
<1>9. \A c \in D : c \in Inner(f, s)
  BY <1>1, <1>5, InnerIs
<1>10. A \cap B = {}
  BY <1>1, <1>2, <1>3
<1>11. (A \cup B) \cap C = {}
  BY <1>1, <1>2, <1>3, <1>4
<1>12. (A \cup B \cup C) \cap D = {}
  <2>1. A \cap D = {}
    BY <1>1, <1>2, <1>5
  <2>2. B \cap D = {}
    BY <1>1, <1>3, <1>5
  <2>3. C \cap D = {}
    BY <1>1, <1>4, <1>5
  <2> QED
    BY <2>1, <2>2, <2>3
<1> QED
  BY <1>6, <1>7, <1>8, <1>9, <1>10, <1>11, <1>12 DEF A, B, C, D

\* The sizes and the sums of four sets that are disjoint.
PiecesAdd(L, A, B, C, D) ==
  /\ Cardinality(A) \in Nat /\ Cardinality(B) \in Nat /\ Cardinality(C) \in Nat /\ Cardinality(D) \in Nat
  /\ Cardinality(A \cup B \cup C \cup D)
       = Cardinality(A) + Cardinality(B) + Cardinality(C) + Cardinality(D)
  /\ SumFunctionOnSet(L, A) \in Int /\ SumFunctionOnSet(L, B) \in Int
  /\ SumFunctionOnSet(L, C) \in Int /\ SumFunctionOnSet(L, D) \in Int
  /\ SumFunctionOnSet(L, A \cup B \cup C \cup D)
       = SumFunctionOnSet(L, A) + SumFunctionOnSet(L, B) + SumFunctionOnSet(L, C) + SumFunctionOnSet(L, D)
LEMMA FourPieces ==
  ASSUME NEW U, IsFiniteSet(U), NEW L, \A x \in U : L[x] \in Int,
         NEW A \in SUBSET U, NEW B \in SUBSET U, NEW C \in SUBSET U, NEW D \in SUBSET U,
         A \cap B = {}, (A \cup B) \cap C = {}, (A \cup B \cup C) \cap D = {}
  PROVE  PiecesAdd(L, A, B, C, D)
<1> DEFINE f(V) == SumFunctionOnSet(L, V)
           n(V) == Cardinality(V)
<1>1. ASSUME NEW V \in SUBSET U, NEW W \in SUBSET U, V \cap W = {}
      PROVE  /\ f(V) \in Int /\ f(W) \in Int /\ f(V \cup W) = f(V) + f(W)
             /\ n(V) \in Nat /\ n(W) \in Nat /\ n(V \cup W) = n(V) + n(W)
  <2>1. f(V) \in Int /\ f(W) \in Int
    BY SumAdds
  <2>2. f(V \cup W) = f(V) + f(W)
    BY <1>1, SumUnion
  <2>3. IsFiniteSet(V) /\ IsFiniteSet(W)
    BY FS_Subset
  <2>4. n(V) \in Nat /\ n(W) \in Nat
    BY <2>3, FS_CardinalityType
  <2>5. n(V \cup W) = n(V) + n(W) - n(V \cap W)
    BY <2>3, FS_Union
  <2>6. n(V \cap W) = 0
    BY <1>1, FS_EmptySet
  <2> QED
    BY <2>1, <2>2, <2>4, <2>5, <2>6
<1> HIDE DEF f, n
<1>2. f(A) \in Int /\ f(B) \in Int /\ f(A \cup B) = f(A) + f(B) /\ n(A) \in Nat /\ n(B) \in Nat /\ n(A \cup B) = n(A) + n(B)
  BY <1>1
<1>3. /\ f(C) \in Int /\ f(A \cup B \cup C) = f(A \cup B) + f(C)
      /\ n(C) \in Nat /\ n(A \cup B \cup C) = n(A \cup B) + n(C)
  <2>1. A \cup B \in SUBSET U
    OBVIOUS
  <2> QED
    BY <1>1, <2>1
<1>4. /\ f(D) \in Int /\ f(A \cup B \cup C \cup D) = f(A \cup B \cup C) + f(D)
      /\ n(D) \in Nat /\ n(A \cup B \cup C \cup D) = n(A \cup B \cup C) + n(D)
  <2>1. A \cup B \cup C \in SUBSET U
    OBVIOUS
  <2> QED
    BY <1>1, <2>1
<1> QED
  BY <1>2, <1>3, <1>4 DEF PiecesAdd, f, n

\* The chords of a polygon are finitely many, and those of its parts are among them.
LEMMA ChordsAre ==
  ASSUME NEW n \in Nat
  PROVE  /\ IsFiniteSet(Chords(n))
         /\ \A f, s \in Nat : f + s <= n => Inner(f, s) \in SUBSET Chords(n)
         /\ Chords(n) = Inner(0, n)
<1>1. IsFiniteSet((0..(n - 1)) \X (0..(n - 1)))
  <2>1. IsFiniteSet(0..(n - 1))
    BY FS_Interval
  <2> QED
    BY <2>1, FS_Product
<1>2. Chords(n) \in SUBSET ((0..(n - 1)) \X (0..(n - 1)))
  BY DEF Chords
<1>3. IsFiniteSet(Chords(n))
  BY <1>1, <1>2, FS_Subset
<1>4. ASSUME NEW f \in Nat, NEW s \in Nat, f + s <= n PROVE Inner(f, s) \in SUBSET Chords(n)
  <2>1. ASSUME NEW c \in Inner(f, s) PROVE c \in Chords(n)
    BY <1>4, <2>1, InnerIs DEF Chords
  <2> QED
    BY <2>1
<1>5. Chords(n) = Inner(0, n)
  <2>1. 0..(0 + n - 1) = 0..(n - 1)
    OBVIOUS
  <2> QED
    BY <2>1 DEF Chords, Inner
<1> QED
  BY <1>3, <1>4, <1>5

\* One side has the cost that the code takes.
LEMMA SideCosts ==
  ASSUME NEW n \in Nat, NEW length \in [Chords(n) -> Nat],
         NEW a \in 0..(n - 1), NEW b \in 0..(n - 1), a < b, b - a < n - 1
  PROVE  /\ Cardinality(Side(a, b)) = IF b - a > 1 THEN 1 ELSE 0
         /\ SumFunctionOnSet(length, Side(a, b)) = dist(length, a, b)
<1> DEFINE c == <<a, b>>
           U == Chords(n)
<1>1. IsFiniteSet(U) /\ \A x \in U : length[x] \in Int
  BY ChordsAre
<1>2. dist(length, a, b) = IF b - a > 1 THEN length[c] ELSE 0
  BY DistIs
<1>3. CASE b - a > 1
  <2>1. Side(a, b) = {c}
    BY <1>3 DEF Side
  <2>2. c \in U
    BY <1>3 DEF Chords
  <2> HIDE DEF c, U
  <2>3. {c} \in SUBSET U /\ c \in {c} /\ {c} \ {c} = {}
    BY <2>2
  <2>4. SumFunctionOnSet(length, {}) = 0
    BY <1>1, SumAdds
  <2>5. SumFunctionOnSet(length, {c}) = SumFunctionOnSet(length, {c} \ {c}) + length[c]
    BY <1>1, <2>3, SumAdds
  <2>6. SumFunctionOnSet(length, {c}) = length[c]
    BY <1>1, <2>2, <2>3, <2>4, <2>5
  <2> QED
    BY <1>2, <1>3, <2>1, <2>6, FS_Singleton
<1>4. CASE ~(b - a > 1)
  <2>1. Side(a, b) = {}
    BY <1>4 DEF Side
  <2> HIDE DEF U
  <2>2. SumFunctionOnSet(length, {}) = 0
    BY <1>1, SumAdds
  <2> QED
    BY <1>2, <1>4, <2>1, <2>2, FS_EmptySet
<1> QED
  BY <1>3, <1>4

----------------------------------------------------------------------------
(* No triangulation costs less *)

\* The sides of a triangle, and how many chords there are next to it.
LEMMA SidesAre ==
  ASSUME NEW n \in Nat, NEW length \in [Chords(n) -> Nat],
         NEW f \in Nat, NEW s \in Nat, f + s <= n, s >= 4, NEW k \in 1..(s - 2)
  PROVE  /\ Cardinality(Side(f, f + k)) = IF k > 1 THEN 1 ELSE 0
         /\ Cardinality(Side(f + k, f + s - 1)) = IF s - k > 2 THEN 1 ELSE 0
         /\ SumFunctionOnSet(length, Side(f, f + k)) = dist(length, f, f + k)
         /\ SumFunctionOnSet(length, Side(f + k, f + s - 1)) = dist(length, f + k, f + s - 1)
         /\ Cardinality(Side(f, f + k)) + Cardinality(Side(f + k, f + s - 1)) + Full(k + 1) + Full(s - k) = Full(s)
<1>1. /\ f \in 0..(n - 1) /\ f + k \in 0..(n - 1) /\ f + s - 1 \in 0..(n - 1)
      /\ f < f + k /\ (f + k) - f < n - 1 /\ f + k < f + s - 1 /\ (f + s - 1) - (f + k) < n - 1
      /\ ((f + k) - f > 1 <=> k > 1) /\ ((f + s - 1) - (f + k) > 1 <=> s - k > 2)
  OBVIOUS
<1>2. /\ Cardinality(Side(f, f + k)) = IF k > 1 THEN 1 ELSE 0
      /\ SumFunctionOnSet(length, Side(f, f + k)) = dist(length, f, f + k)
  BY <1>1, SideCosts
<1>3. /\ Cardinality(Side(f + k, f + s - 1)) = IF s - k > 2 THEN 1 ELSE 0
      /\ SumFunctionOnSet(length, Side(f + k, f + s - 1)) = dist(length, f + k, f + s - 1)
  BY <1>1, SideCosts
<1>4. (IF k > 1 THEN 1 ELSE 0) + (IF s - k > 2 THEN 1 ELSE 0) + Full(k + 1) + Full(s - k) = Full(s)
  BY DEF Full
<1> QED
  BY <1>2, <1>3, <1>4

\* Chords that do not cross each other leave a triangle on the first and the last
\* vertex: its third one is the last that has a chord to the first.
LEMMA TriangleLeft ==
  ASSUME NEW f \in Nat, NEW s \in Nat, s >= 4, NEW T \in SUBSET Inner(f, s), NoneCross(T)
  PROVE  \E k \in 1..(s - 2) :
           T \subseteq Side(f, f + k) \cup Side(f + k, f + s - 1) \cup Inner(f, k + 1) \cup Inner(f + k, s - k)
<1> DEFINE J == {j \in 1..(s - 2) : j = 1 \/ <<f, f + j>> \in T}
<1>1. J \in SUBSET (0..s) /\ 1 \in J
  OBVIOUS
<1>2. PICK k \in J : \A j \in J : j <= k
  BY <1>1, GreatestOf
<1>3. k \in 1..(s - 2) /\ k \in Nat /\ k >= 1 /\ k <= s - 2 /\ k + 1 \in Nat /\ s - k \in Nat /\ f + k \in Nat /\ f + s - 1 \in Nat
  BY <1>2
<1>4. k = 1 \/ <<f, f + k>> \in T
  BY <1>2
<1>5. ASSUME NEW c \in T
      PROVE  c \in Side(f, f + k) \/ c \in Side(f + k, f + s - 1) \/ c \in Inner(f, k + 1) \/ c \in Inner(f + k, s - k)
  <2> DEFINE x == c[1]
             y == c[2]
  <2>1. /\ c = <<x, y>> /\ x \in Nat /\ y \in Nat /\ f <= x /\ x < f + s /\ f <= y /\ y < f + s
        /\ y - x > 1 /\ y - x < s - 1
    BY InnerIs
  <2> HIDE DEF x, y
  <2>2. c[1] = x /\ c[2] = y
    BY <2>1
  <2>3. CASE x = f
    <3>1. y - f \in 1..(s - 2) /\ <<f, f + (y - f)>> = c
      BY <2>1, <2>3
    <3>2. y - f \in J
      BY <3>1
    <3>3. y <= f + k
      BY <1>2, <1>3, <2>1, <3>2
    <3>4. CASE y = f + k
      BY <1>3, <2>1, <2>3, <3>4, SideIs
    <3>5. CASE y < f + k
      <4>1. c[1] < f + (k + 1) /\ c[2] < f + (k + 1) /\ c[2] - c[1] < (k + 1) - 1
        BY <1>3, <2>1, <2>2, <2>3, <3>5
      <4>2. c \in Inner(f, k + 1)
        BY <1>3, <2>1, <2>2, <4>1, InnerIs
      <4> QED
        BY <4>2
    <3> QED
      BY <1>3, <2>1, <3>3, <3>4, <3>5
  <2>4. CASE f < x /\ x < f + k
    <3>1. <<f, f + k>> \in T
      BY <1>3, <1>4, <2>1, <2>4
    <3>2. ~Cross(<<f, f + k>>, c)
      BY <3>1 DEF NoneCross
    <3>3. y <= f + k
      BY <1>3, <2>1, <2>2, <2>4, <3>2 DEF Cross
    <3> QED
      BY <1>3, <2>1, <2>2, <2>4, <3>3, InnerIs
  <2>5. CASE f + k <= x
    <3>1. CASE x = f + k /\ y = f + s - 1
      BY <1>3, <2>1, <3>1, SideIs
    <3>2. CASE ~(x = f + k /\ y = f + s - 1)
      <4>1. /\ c[1] >= f + k /\ c[2] >= f + k /\ c[1] < (f + k) + (s - k) /\ c[2] < (f + k) + (s - k)
            /\ c[2] - c[1] < (s - k) - 1
        BY <1>3, <2>1, <2>2, <2>5, <3>2
      <4>2. c \in Inner(f + k, s - k)
        BY <1>3, <2>1, <2>2, <4>1, InnerIs
      <4> QED
        BY <4>2
    <3> QED
      BY <3>1, <3>2
  <2> QED
    BY <1>3, <2>1, <2>3, <2>4, <2>5
<1>6. T \subseteq Side(f, f + k) \cup Side(f + k, f + s - 1) \cup Inner(f, k + 1) \cup Inner(f + k, s - k)
  BY <1>5
<1> QED
  BY <1>3, <1>6

\* As many chords as a part has room for, and then no less than its cost.
NoneBelow(T, length, f, s, least) ==
  Cardinality(T) <= Full(s) /\ (Cardinality(T) = Full(s) => SumFunctionOnSet(length, T) >= least)
LEMMA SmallPart ==
  ASSUME NEW f \in Nat, NEW s \in Nat, s < 4, NEW T \in SUBSET Inner(f, s)
  PROVE  T = {}
<1>1. \A c \in Inner(f, s) : FALSE
  BY InnerIs
<1> QED
  BY <1>1

LEMMA NoneCheaper ==
  ASSUME NEW n \in Nat, NEW length \in [Chords(n) -> Nat], NEW d, \A p \in SubPolygons(n) : CutAt(d, length, p)
  PROVE  \A p \in SubPolygons(n) : \A T \in SUBSET Inner(p[1], p[2]) :
           NoneCross(T) => NoneBelow(T, length, p[1], p[2], d[p].cost)
<1> DEFINE Below(p) == \A T \in SUBSET Inner(p[1], p[2]) :
                         NoneCross(T) => NoneBelow(T, length, p[1], p[2], d[p].cost)
           S == {m \in Nat : \A p \in PartsTo(n, m) : Below(p)}
           U == Chords(n)
<1>1. IsFiniteSet(U) /\ \A x \in U : length[x] \in Int
  BY ChordsAre
<1>2. ASSUME NEW p \in SubPolygons(n), p[2] < 4 PROVE Below(p)
  <2> SUFFICES ASSUME NEW T \in SUBSET Inner(p[1], p[2]) PROVE NoneBelow(T, length, p[1], p[2], d[p].cost)
    OBVIOUS
  <2>1. p[1] \in Nat /\ p[2] \in Nat
    BY DEF SubPolygons
  <2>2. T = {}
    BY <1>2, <2>1, SmallPart
  <2>3. d[p].cost = 0
    BY <1>2 DEF CutAt
  <2>4. SumFunctionOnSet(length, {}) = 0
    BY <1>1, SumAdds
  <2>5. Cardinality({}) = 0 /\ Full(p[2]) = 0
    BY <1>2, <2>1, FS_EmptySet DEF Full
  <2> QED
    BY <2>2, <2>3, <2>4, <2>5 DEF NoneBelow
<1>3. ASSUME NEW m \in Nat, m \in S, NEW p \in PartsTo(n, m + 1), p[2] >= 4 PROVE Below(p)
  <2> DEFINE f == p[1]
             s == p[2]
  <2>1. p \in SubPolygons(n) /\ p = <<f, s>> /\ f \in Nat /\ s \in Nat /\ f + s <= n /\ s <= m + 1 /\ s >= 4
    BY <1>3 DEF PartsTo, SubPolygons
  <2> SUFFICES ASSUME NEW T \in SUBSET Inner(f, s), NoneCross(T) PROVE NoneBelow(T, length, f, s, d[p].cost)
    OBVIOUS
  <2>2. PICK k \in 1..(s - 2) :
          T \subseteq Side(f, f + k) \cup Side(f + k, f + s - 1) \cup Inner(f, k + 1) \cup Inner(f + k, s - k)
    BY <2>1, TriangleLeft
  <2>3. d[p].cost \in Nat /\ d[p].cost <= Through(d, length, p, k)
    BY <2>1, <2>2 DEF CutAt
  <2>3a. p[1] = f /\ p[2] = s
    OBVIOUS
  <2> HIDE DEF f, s
  <2> DEFINE A == T \cap Side(f, f + k)
             B == T \cap Side(f + k, f + s - 1)
             C == T \cap Inner(f, k + 1)
             D == T \cap Inner(f + k, s - k)
             u == d[<<f, k + 1>>].cost
             v == d[<<f + k, s - k>>].cost
             x == dist(length, f, f + k)
             y == dist(length, f + k, f + s - 1)
             sum(V) == SumFunctionOnSet(length, V)
             num(V) == Cardinality(V)
  <2>4. T = A \cup B \cup C \cup D
    BY <2>2
  <2>5. A \cap B = {} /\ (A \cup B) \cap C = {} /\ (A \cup B \cup C) \cap D = {}
    <3>1. /\ Side(f, f + k) \cap Side(f + k, f + s - 1) = {}
          /\ (Side(f, f + k) \cup Side(f + k, f + s - 1)) \cap Inner(f, k + 1) = {}
          /\ (Side(f, f + k) \cup Side(f + k, f + s - 1) \cup Inner(f, k + 1)) \cap Inner(f + k, s - k) = {}
      BY <2>1, PiecesApart
    <3> QED
      BY <3>1
  <2>6. T \in SUBSET U /\ A \in SUBSET U /\ B \in SUBSET U /\ C \in SUBSET U /\ D \in SUBSET U
    <3>1. Inner(f, s) \in SUBSET U
      BY <2>1, ChordsAre
    <3> QED
      BY <3>1
  <2>7. <<f, k + 1>> \in PartsTo(n, m) /\ <<f + k, s - k>> \in PartsTo(n, m)
    BY <2>1, SmallerParts
  <2>8. /\ Below(<<f, k + 1>>) /\ Below(<<f + k, s - k>>)
        /\ <<f, k + 1>> \in SubPolygons(n) /\ <<f + k, s - k>> \in SubPolygons(n)
    BY <1>3, <2>7 DEF PartsTo
  <2>9. NoneCross(C) /\ NoneCross(D)
    BY DEF NoneCross
  <2>10. NoneBelow(C, length, f, k + 1, u) /\ NoneBelow(D, length, f + k, s - k, v)
    <3>1. C \in SUBSET Inner(f, k + 1) /\ D \in SUBSET Inner(f + k, s - k)
      OBVIOUS
    <3>2. <<f, k + 1>>[1] = f /\ <<f, k + 1>>[2] = k + 1 /\ <<f + k, s - k>>[1] = f + k /\ <<f + k, s - k>>[2] = s - k
      OBVIOUS
    <3> HIDE DEF C, D
    <3> QED
      BY <2>8, <2>9, <3>1, <3>2
  <2>11. u \in Nat /\ v \in Nat
    BY <2>8 DEF CutAt
  <2>12. Through(d, length, p, k) = u + v + x + y
    BY <2>3a, Zenon DEF Through
  <2>13. /\ num(Side(f, f + k)) = (IF k > 1 THEN 1 ELSE 0) /\ num(Side(f + k, f + s - 1)) = (IF s - k > 2 THEN 1 ELSE 0)
         /\ sum(Side(f, f + k)) = x /\ sum(Side(f + k, f + s - 1)) = y
         /\ num(Side(f, f + k)) + num(Side(f + k, f + s - 1)) + Full(k + 1) + Full(s - k) = Full(s)
    BY <2>1, SidesAre
  <2>14. /\ num(A) \in Nat /\ num(B) \in Nat /\ num(C) \in Nat /\ num(D) \in Nat
         /\ num(A \cup B \cup C \cup D) = num(A) + num(B) + num(C) + num(D)
         /\ sum(A) \in Int /\ sum(B) \in Int /\ sum(C) \in Int /\ sum(D) \in Int
         /\ sum(A \cup B \cup C \cup D) = sum(A) + sum(B) + sum(C) + sum(D)
    <3> HIDE DEF A, B, C, D, U
    <3>1. PiecesAdd(length, A, B, C, D)
      BY <1>1, <2>5, <2>6, FourPieces, Zenon
    <3> QED
      BY <3>1, Zenon DEF PiecesAdd
  <2>15. /\ num(A) <= num(Side(f, f + k)) /\ (num(A) = num(Side(f, f + k)) => A = Side(f, f + k))
         /\ num(B) <= num(Side(f + k, f + s - 1)) /\ (num(B) = num(Side(f + k, f + s - 1)) => B = Side(f + k, f + s - 1))
    <3>1. IsFiniteSet(Side(f, f + k)) /\ IsFiniteSet(Side(f + k, f + s - 1))
      <4>1. Side(f, f + k) \in SUBSET U /\ Side(f + k, f + s - 1) \in SUBSET U
        <5>1. Inner(f, s) \in SUBSET U
          BY <2>1, ChordsAre
        <5>2. Side(f, f + k) \in SUBSET Inner(f, s) /\ Side(f + k, f + s - 1) \in SUBSET Inner(f, s)
          BY <2>1, PiecesApart
        <5> QED
          BY <5>1, <5>2
      <4> QED
        BY <1>1, <4>1, FS_Subset
    <3>2. A \in SUBSET Side(f, f + k) /\ B \in SUBSET Side(f + k, f + s - 1)
      OBVIOUS
    <3> HIDE DEF A, B
    <3> QED
      BY <3>1, <3>2, FS_Subset
  <2>16. Full(k + 1) \in Nat /\ Full(s - k) \in Nat /\ Full(s) \in Nat
    BY <2>1 DEF Full
  <2>17. num(Side(f, f + k)) \in Nat /\ num(Side(f + k, f + s - 1)) \in Nat
    BY <2>13
  <2>18. num(T) = num(A) + num(B) + num(C) + num(D) /\ sum(T) = sum(A) + sum(B) + sum(C) + sum(D)
    BY <2>4, <2>14
  <2>19. num(C) <= Full(k + 1) /\ num(D) <= Full(s - k)
    BY <2>10 DEF NoneBelow
  <2>20. num(T) <= Full(s)
    BY <2>13, <2>14, <2>15, <2>16, <2>17, <2>18, <2>19
  <2>21. ASSUME num(T) = Full(s) PROVE sum(T) >= d[p].cost
    <3>1. /\ num(A) = num(Side(f, f + k)) /\ num(B) = num(Side(f + k, f + s - 1))
          /\ num(C) = Full(k + 1) /\ num(D) = Full(s - k)
      <4> DEFINE M == Side(f, f + k)
                 N == Side(f + k, f + s - 1)
                 a == num(A)
                 b == num(B)
                 g == num(C)
                 h == num(D)
                 i == num(M)
                 j == num(N)
                 w == Full(k + 1)
                 z == Full(s - k)
      <4>1. /\ a \in Nat /\ b \in Nat /\ g \in Nat /\ h \in Nat /\ i \in Nat /\ j \in Nat /\ w \in Nat /\ z \in Nat
            /\ a <= i /\ b <= j /\ g <= w /\ h <= z /\ i + j + w + z = Full(s) /\ a + b + g + h = Full(s)
        BY <2>13, <2>14, <2>15, <2>16, <2>17, <2>18, <2>19, <2>21
      <4> HIDE DEF a, b, g, h, i, j, w, z
      <4>2. a = i /\ b = j /\ g = w /\ h = z
        BY <4>1
      <4> QED
        BY <4>2 DEF a, b, g, h, i, j, w, z
    <3>2. sum(A) = x /\ sum(B) = y
      BY <2>13, <2>15, <3>1
    <3>3. sum(C) >= u /\ sum(D) >= v
      BY <2>10, <3>1 DEF NoneBelow
    <3> HIDE DEF u, v, x, y, sum
    <3> QED
      BY <2>3, <2>11, <2>12, <2>14, <2>18, <3>2, <3>3
  <2> QED
    BY <2>20, <2>21 DEF NoneBelow
<1>4. 0 \in S
  <2>1. \A p \in PartsTo(n, 0) : p \in SubPolygons(n) /\ p[2] < 4
    BY DEF PartsTo, SubPolygons
  <2> HIDE DEF Below
  <2> QED
    BY <1>2, <2>1
<1>5. ASSUME NEW m \in Nat, m \in S PROVE m + 1 \in S
  <2>1. ASSUME NEW p \in PartsTo(n, m + 1) PROVE Below(p)
    <3>1. p \in SubPolygons(n) /\ (p[2] < 4 \/ p[2] >= 4)
      BY DEF PartsTo, SubPolygons
    <3> HIDE DEF Below
    <3> QED
      BY <1>2, <1>3, <1>5, <3>1
  <2> HIDE DEF Below
  <2> QED
    BY <2>1
<1>6. n \in S
  <2> HIDE DEF S
  <2> QED
    BY <1>4, <1>5, Induct, Zenon
<1>7. \A p \in SubPolygons(n) : p \in PartsTo(n, n)
  BY DEF PartsTo, SubPolygons
<1> HIDE DEF Below
<1>8. \A p \in SubPolygons(n) : Below(p)
  BY <1>6, <1>7
<1> QED
  BY <1>8 DEF Below

----------------------------------------------------------------------------
(* The chords listed are a triangulation that costs what tri finds *)

\* Two lists after each other, and a list of one chord or none.
LEMMA ListsJoin ==
  ASSUME NEW S, NEW u \in Seq(S), NEW v \in Seq(S)
  PROVE  u \o v \in Seq(S) /\ Len(u \o v) = Len(u) + Len(v) /\ ToSet(u \o v) = ToSet(u) \cup ToSet(v)
<1>1. u \o v \in Seq(S) /\ Len(u \o v) = Len(u) + Len(v) /\ Len(u) \in Nat /\ Len(v) \in Nat
  OBVIOUS
<1>2. DOMAIN u = 1..Len(u) /\ DOMAIN v = 1..Len(v) /\ DOMAIN (u \o v) = 1..(Len(u) + Len(v))
  OBVIOUS
<1>3. ASSUME NEW x PROVE x \in ToSet(u \o v) => x \in ToSet(u) \/ x \in ToSet(v)
  BY <1>1, <1>2 DEF ToSet
<1>4. ASSUME NEW x, x \in ToSet(u) PROVE x \in ToSet(u \o v)
  <2>1. PICK i \in 1..Len(u) : u[i] = x
    BY <1>2, <1>4 DEF ToSet
  <2>2. i \in 1..(Len(u) + Len(v)) /\ (u \o v)[i] = x
    BY <1>1, <2>1
  <2> QED
    BY <1>2, <2>2 DEF ToSet
<1>5. ASSUME NEW x, x \in ToSet(v) PROVE x \in ToSet(u \o v)
  <2>1. PICK i \in 1..Len(v) : v[i] = x
    BY <1>2, <1>5 DEF ToSet
  <2>2. Len(u) + i \in 1..(Len(u) + Len(v)) /\ (u \o v)[Len(u) + i] = x
    BY <1>1, <2>1
  <2> QED
    BY <1>2, <2>2 DEF ToSet
<1>6. ToSet(u \o v) = ToSet(u) \cup ToSet(v)
  BY <1>3, <1>4, <1>5
<1> QED
  BY <1>1, <1>6

LEMMA OneOrNone ==
  ASSUME NEW S, NEW c, NEW holds \in BOOLEAN, holds => c \in S
  PROVE  LET u == IF holds THEN <<c>> ELSE <<>>
         IN u \in Seq(S) /\ Len(u) = (IF holds THEN 1 ELSE 0) /\ ToSet(u) = IF holds THEN {c} ELSE {}
<1>1. CASE holds
  <2>1. ToSet(<<c>>) = {c}
    BY DEF ToSet
  <2> QED
    BY <1>1, <2>1
<1>2. CASE ~holds
  <2>1. ToSet(<<>>) = {}
    BY DEF ToSet
  <2> QED
    BY <1>2, <2>1
<1> QED
  BY <1>1, <1>2

\* Triangulations of two parts and the sides of their triangle do not cross.
LEMMA PiecesCrossNot ==
  ASSUME NEW f \in Nat, NEW s \in Nat, s >= 4, NEW k \in 1..(s - 2),
         NEW V \in SUBSET Inner(f, k + 1), NEW W \in SUBSET Inner(f + k, s - k), NoneCross(V), NoneCross(W)
  PROVE  NoneCross(Side(f, f + k) \cup Side(f + k, f + s - 1) \cup V \cup W)
<1> DEFINE A == Side(f, f + k)
           B == Side(f + k, f + s - 1)
           X == A \cup V
           Y == B \cup W
<1>1. k \in Nat /\ k >= 1 /\ k <= s - 2 /\ f + k \in Nat /\ f + s - 1 \in Nat /\ k + 1 \in Nat /\ s - k \in Nat
  OBVIOUS
<1>2. \A c \in A : c[1] = f /\ c[2] = f + k
  BY <1>1, SideIs
<1>3. \A c \in B : c[1] = f + k /\ c[2] = f + s - 1
  BY <1>1, SideIs
<1>4. \A c \in V : c[1] \in Nat /\ c[2] \in Nat /\ f <= c[1] /\ c[2] <= f + k /\ c[1] < c[2]
  BY <1>1, InnerIs
<1>5. \A c \in W : c[1] \in Nat /\ c[2] \in Nat /\ f + k <= c[1] /\ c[2] <= f + s - 1 /\ c[1] < c[2]
  BY <1>1, InnerIs
<1>6. \A c \in X : c[1] \in Nat /\ c[2] \in Nat /\ f <= c[1] /\ c[2] <= f + k /\ c[1] < c[2]
  BY <1>1, <1>2, <1>4
<1>7. \A c \in Y : c[1] \in Nat /\ c[2] \in Nat /\ f + k <= c[1] /\ c[2] <= f + s - 1 /\ c[1] < c[2]
  BY <1>1, <1>3, <1>5
<1> HIDE DEF A, B
<1>8. \A c \in X : \A d \in X : ~Cross(c, d)
  <2>1. \A c \in A : \A d \in X : ~Cross(c, d) /\ ~Cross(d, c)
    BY <1>1, <1>2, <1>6 DEF Cross
  <2>2. \A c, d \in V : ~Cross(c, d)
    BY DEF NoneCross
  <2> QED
    BY <2>1, <2>2
<1>9. \A c \in Y : \A d \in Y : ~Cross(c, d)
  <2>1. \A c \in B : \A d \in Y : ~Cross(c, d) /\ ~Cross(d, c)
    BY <1>1, <1>3, <1>7 DEF Cross
  <2>2. \A c, d \in W : ~Cross(c, d)
    BY DEF NoneCross
  <2> QED
    BY <2>1, <2>2
<1>10. \A c \in X : \A d \in Y : ~Cross(c, d) /\ ~Cross(d, c)
  BY <1>1, <1>6, <1>7 DEF Cross
<1>11. \A c \in X \cup Y : \A d \in X \cup Y : ~Cross(c, d)
  <2> HIDE DEF X, Y
  <2> QED
    BY <1>8, <1>9, <1>10
<1>12. A \cup B \cup V \cup W = X \cup Y
  OBVIOUS
<1>13. NoneCross(X \cup Y)
  BY <1>11 DEF NoneCross
<1> QED
  BY <1>12, <1>13 DEF A, B

\* A list of chords that is a triangulation of a part, with its cost.
Triangulates(l, length, f, s, c) ==
  /\ l \in Seq(Inner(f, s)) /\ Len(l) = Full(s)
  /\ ToSet(l) \in SUBSET Inner(f, s)
  /\ Cardinality(ToSet(l)) = Full(s)
  /\ NoneCross(ToSet(l))
  /\ SumFunctionOnSet(length, ToSet(l)) = c
LEMMA PairsTriangulate ==
  ASSUME NEW n \in Nat, NEW length \in [Chords(n) -> Nat], NEW d, \A p \in SubPolygons(n) : CutAt(d, length, p)
  PROVE  \A p \in SubPolygons(n) : Triangulates(find_pairs(d, n)[p], length, p[1], p[2], d[p].cost)
<1> DEFINE idx == find_pairs(d, n)
           Good(p) == Triangulates(idx[p], length, p[1], p[2], d[p].cost)
           S == {m \in Nat : \A p \in PartsTo(n, m) : Good(p)}
           U == Chords(n)
<1>1. IsFiniteSet(U) /\ \A x \in U : length[x] \in Int
  BY ChordsAre
<1>2. Split(d, n)
  BY DEF Split, CutAt
<1>3. idx = [p \in SubPolygons(n) |-> ChordsOf(idx, d, p)]
  BY <1>2, PairRuns, Zenon
<1>4. \A p \in SubPolygons(n) : idx[p] = ChordsOf(idx, d, p)
  <2> HIDE DEF idx
  <2> QED
    BY <1>3, Zenon
<1> HIDE DEF idx
<1>5. ASSUME NEW p \in SubPolygons(n), p[2] < 4 PROVE Good(p)
  <2>1. p[1] \in Nat /\ p[2] \in Nat
    BY DEF SubPolygons
  <2>2. idx[p] = <<>>
    BY <1>4, <1>5, Zenon DEF ChordsOf
  <2>3. d[p].cost = 0
    BY <1>5 DEF CutAt
  <2>4. SumFunctionOnSet(length, {}) = 0
    BY <1>1, SumAdds
  <2>5. Cardinality({}) = 0 /\ Full(p[2]) = 0
    BY <1>5, <2>1, FS_EmptySet DEF Full
  <2>6. <<>> \in Seq(Inner(p[1], p[2])) /\ Len(<<>>) = 0 /\ ToSet(<<>>) = {} /\ NoneCross({})
    BY DEF ToSet, NoneCross
  <2> QED
    BY <2>2, <2>3, <2>4, <2>5, <2>6 DEF Triangulates
<1>6. ASSUME NEW m \in Nat, m \in S, NEW p \in PartsTo(n, m + 1), p[2] >= 4 PROVE Good(p)
  <2> DEFINE f == p[1]
             s == p[2]
             k == d[p].pair
             I == Inner(f, s)
             A == Side(f, f + k)
             B == Side(f + k, f + s - 1)
             u == IF k > 1 THEN <<<<f, f + k>>>> ELSE <<>>
             v == IF s - k > 2 THEN <<<<f + k, f + s - 1>>>> ELSE <<>>
             w == IF s < GlobalN THEN <<<<f, f + s - 1>>>> ELSE <<>>
             l == idx[<<f, k + 1>>]
             r == idx[<<f + k, s - k>>]
  <2>1. p \in SubPolygons(n) /\ f \in Nat /\ s \in Nat /\ f + s <= n /\ s <= m + 1 /\ s >= 4
    BY <1>6 DEF PartsTo, SubPolygons
  <2>2. k \in 1..(s - 2) /\ d[p].cost = Through(d, length, p, k)
    BY <2>1 DEF CutAt
  <2>3. idx[p] = u \o v \o w \o l \o r
    <3>1. ~(s < 4)
      BY <2>1
    <3> QED
      BY <1>4, <2>1, <3>1, Zenon DEF ChordsOf
  <2>4. w = <<>>
    BY <2>1 DEF GlobalN
  <2>5. p[1] = f /\ p[2] = s
    OBVIOUS
  <2>5a. Through(d, length, p, k)
           = d[<<f, k + 1>>].cost + d[<<f + k, s - k>>].cost + dist(length, f, f + k) + dist(length, f + k, f + s - 1)
    BY Zenon DEF Through
  <2> HIDE DEF f, s, k, w
  <2>6. /\ <<f, k + 1>> \in PartsTo(n, m) /\ <<f + k, s - k>> \in PartsTo(n, m)
        /\ <<f, k + 1>> \in SubPolygons(n) /\ <<f + k, s - k>> \in SubPolygons(n)
    <3>1. <<f, k + 1>> \in PartsTo(n, m) /\ <<f + k, s - k>> \in PartsTo(n, m)
      BY <2>1, <2>2, SmallerParts
    <3> QED
      BY <3>1 DEF PartsTo
  <2>7. /\ Triangulates(l, length, f, k + 1, d[<<f, k + 1>>].cost)
        /\ Triangulates(r, length, f + k, s - k, d[<<f + k, s - k>>].cost)
    <3>1. Good(<<f, k + 1>>) /\ Good(<<f + k, s - k>>)
      BY <1>6, <2>6
    <3>2. <<f, k + 1>>[1] = f /\ <<f, k + 1>>[2] = k + 1 /\ <<f + k, s - k>>[1] = f + k /\ <<f + k, s - k>>[2] = s - k
      OBVIOUS
    <3> QED
      BY <3>1, <3>2, Zenon
  <2> DEFINE C == ToSet(l)
             D == ToSet(r)
             x == d[<<f, k + 1>>].cost
             y == d[<<f + k, s - k>>].cost
  <2>8. /\ l \in Seq(Inner(f, k + 1)) /\ Len(l) = Full(k + 1) /\ C \in SUBSET Inner(f, k + 1)
        /\ Cardinality(C) = Full(k + 1) /\ NoneCross(C) /\ SumFunctionOnSet(length, C) = x
    BY <2>7, Zenon DEF Triangulates
  <2>9. /\ r \in Seq(Inner(f + k, s - k)) /\ Len(r) = Full(s - k) /\ D \in SUBSET Inner(f + k, s - k)
        /\ Cardinality(D) = Full(s - k) /\ NoneCross(D) /\ SumFunctionOnSet(length, D) = y
    BY <2>7, Zenon DEF Triangulates
  <2> HIDE DEF l, r, x, y
  <2>10. /\ A \in SUBSET I /\ B \in SUBSET I /\ Inner(f, k + 1) \in SUBSET I /\ Inner(f + k, s - k) \in SUBSET I
         /\ A \cap B = {} /\ (A \cup B) \cap Inner(f, k + 1) = {}
         /\ (A \cup B \cup Inner(f, k + 1)) \cap Inner(f + k, s - k) = {}
    BY <2>1, <2>2, PiecesApart
  <2>11. /\ u \in Seq(I) /\ Len(u) = (IF k > 1 THEN 1 ELSE 0) /\ ToSet(u) = A
    <3>1. (f + k) - f > 1 <=> k > 1
      BY <2>1, <2>2
    <3>2. A = IF k > 1 THEN {<<f, f + k>>} ELSE {}
      BY <3>1 DEF Side
    <3>3. k > 1 => <<f, f + k>> \in I
      BY <2>10, <3>2
    <3>4. (k > 1) \in BOOLEAN
      OBVIOUS
    <3> HIDE DEF A, I
    <3> QED
      BY <3>2, <3>3, <3>4, OneOrNone
  <2>12. /\ v \in Seq(I) /\ Len(v) = (IF s - k > 2 THEN 1 ELSE 0) /\ ToSet(v) = B
    <3>1. (f + s - 1) - (f + k) > 1 <=> s - k > 2
      BY <2>1, <2>2
    <3>2. B = IF s - k > 2 THEN {<<f + k, f + s - 1>>} ELSE {}
      BY <3>1 DEF Side
    <3>3. s - k > 2 => <<f + k, f + s - 1>> \in I
      BY <2>10, <3>2
    <3>4. (s - k > 2) \in BOOLEAN
      OBVIOUS
    <3> HIDE DEF B, I
    <3> QED
      BY <3>2, <3>3, <3>4, OneOrNone
  <2>13. l \in Seq(I) /\ r \in Seq(I)
    <3>1. Inner(f, k + 1) \subseteq I /\ Inner(f + k, s - k) \subseteq I
      BY <2>10
    <3> HIDE DEF I
    <3> QED
      BY <2>8, <2>9, <3>1
  <2> HIDE DEF A, B, C, D, I, u, v
  <2>14. /\ idx[p] \in Seq(I) /\ Len(idx[p]) = Len(u) + Len(v) + Len(l) + Len(r)
         /\ ToSet(idx[p]) = A \cup B \cup C \cup D
    <3>1. u \o v \in Seq(I) /\ Len(u \o v) = Len(u) + Len(v) /\ ToSet(u \o v) = A \cup B
      BY <2>11, <2>12, ListsJoin
    <3>2. u \o v \o w = u \o v
      BY <2>4, <3>1
    <3>3. u \o v \o l \in Seq(I) /\ Len(u \o v \o l) = Len(u) + Len(v) + Len(l) /\ ToSet(u \o v \o l) = A \cup B \cup C
      <4> DEFINE z == u \o v
      <4>1. z \in Seq(I) /\ Len(z) = Len(u) + Len(v) /\ ToSet(z) = A \cup B
        BY <3>1
      <4> HIDE DEF z
      <4>2. z \o l \in Seq(I) /\ Len(z \o l) = Len(z) + Len(l) /\ ToSet(z \o l) = ToSet(z) \cup ToSet(l)
        BY <2>13, <4>1, ListsJoin
      <4> QED
        BY <4>1, <4>2 DEF z, C
    <3>4. /\ u \o v \o l \o r \in Seq(I) /\ Len(u \o v \o l \o r) = Len(u) + Len(v) + Len(l) + Len(r)
          /\ ToSet(u \o v \o l \o r) = A \cup B \cup C \cup D
      <4> DEFINE z == u \o v \o l
      <4>1. z \in Seq(I) /\ Len(z) = Len(u) + Len(v) + Len(l) /\ ToSet(z) = A \cup B \cup C
        BY <3>3
      <4> HIDE DEF z
      <4>2. z \o r \in Seq(I) /\ Len(z \o r) = Len(z) + Len(r) /\ ToSet(z \o r) = ToSet(z) \cup ToSet(r)
        BY <2>13, <4>1, ListsJoin
      <4> QED
        BY <4>1, <4>2 DEF z, D
    <3> QED
      BY <2>3, <3>2, <3>4
  <2>15. I \in SUBSET U /\ A \in SUBSET U /\ B \in SUBSET U /\ C \in SUBSET U /\ D \in SUBSET U
    <3>1. I \in SUBSET U
      BY <2>1, ChordsAre DEF I
    <3> QED
      BY <2>8, <2>9, <2>10, <3>1
  <2>16. A \cap B = {} /\ (A \cup B) \cap C = {} /\ (A \cup B \cup C) \cap D = {}
    BY <2>8, <2>9, <2>10
  <2>17. PiecesAdd(length, A, B, C, D)
    <3> HIDE DEF U
    <3> QED
      BY <1>1, <2>15, <2>16, FourPieces, Zenon
  <2>18. /\ Cardinality(A) = (IF k > 1 THEN 1 ELSE 0) /\ Cardinality(B) = (IF s - k > 2 THEN 1 ELSE 0)
         /\ SumFunctionOnSet(length, A) = dist(length, f, f + k)
         /\ SumFunctionOnSet(length, B) = dist(length, f + k, f + s - 1)
         /\ Cardinality(A) + Cardinality(B) + Full(k + 1) + Full(s - k) = Full(s)
    BY <2>1, <2>2, SidesAre DEF A, B
  <2>19. Len(idx[p]) = Full(s) /\ Cardinality(ToSet(idx[p])) = Full(s)
    BY <2>8, <2>9, <2>11, <2>12, <2>14, <2>17, <2>18 DEF PiecesAdd
  <2>20. SumFunctionOnSet(length, ToSet(idx[p])) = d[p].cost
    <3>1. x \in Nat /\ y \in Nat
      BY <2>6 DEF CutAt, x, y
    <3>2. d[p].cost = x + y + dist(length, f, f + k) + dist(length, f + k, f + s - 1)
      BY <2>2, <2>5a DEF x, y
    <3> QED
      BY <2>8, <2>9, <2>14, <2>17, <2>18, <3>1, <3>2 DEF PiecesAdd
  <2>21. NoneCross(ToSet(idx[p]))
    <3>1. NoneCross(Side(f, f + k) \cup Side(f + k, f + s - 1) \cup C \cup D)
      BY <2>1, <2>2, <2>8, <2>9, PiecesCrossNot, Zenon
    <3> QED
      BY <2>14, <3>1, Zenon DEF A, B
  <2>22. ToSet(idx[p]) \in SUBSET I
    BY <2>8, <2>9, <2>10, <2>14
  <2> QED
    BY <2>5, <2>14, <2>19, <2>20, <2>21, <2>22 DEF Triangulates, I
<1>7. 0 \in S
  <2>1. \A p \in PartsTo(n, 0) : p \in SubPolygons(n) /\ p[2] < 4
    BY DEF PartsTo, SubPolygons
  <2> HIDE DEF Good
  <2> QED
    BY <1>5, <2>1
<1>8. ASSUME NEW m \in Nat, m \in S PROVE m + 1 \in S
  <2>1. ASSUME NEW p \in PartsTo(n, m + 1) PROVE Good(p)
    <3>1. p \in SubPolygons(n) /\ (p[2] < 4 \/ p[2] >= 4)
      BY DEF PartsTo, SubPolygons
    <3> HIDE DEF Good
    <3> QED
      BY <1>5, <1>6, <1>8, <3>1
  <2> HIDE DEF Good
  <2> QED
    BY <2>1
<1>9. n \in S
  <2> HIDE DEF S
  <2> QED
    BY <1>7, <1>8, Induct, Zenon
<1>10. \A p \in SubPolygons(n) : p \in PartsTo(n, n)
  BY DEF PartsTo, SubPolygons
<1> HIDE DEF Good
<1>11. \A p \in SubPolygons(n) : Good(p)
  BY <1>9, <1>10
<1> QED
  BY <1>11 DEF Good, idx

----------------------------------------------------------------------------
(* Sorting the chords *)

LEMMA CmpIs ==
  ASSUME NEW a \in Nat \X Nat, NEW b \in Nat \X Nat, NEW c \in Nat \X Nat
  PROVE  /\ cmp(a, b) \/ cmp(b, a)
         /\ cmp(a, b) /\ cmp(b, c) => cmp(a, c)
<1> DEFINE x == a[1]
           y == b[1]
           z == c[1]
           u == a[2]
           v == b[2]
           w == c[2]
<1>1. x \in Nat /\ y \in Nat /\ z \in Nat /\ u \in Nat /\ v \in Nat /\ w \in Nat
  OBVIOUS
<1>2. /\ cmp(a, b) <=> x < y \/ (x = y /\ u <= v)
      /\ cmp(b, a) <=> y < x \/ (y = x /\ v <= u)
      /\ cmp(b, c) <=> y < z \/ (y = z /\ v <= w)
      /\ cmp(a, c) <=> x < z \/ (x = z /\ u <= w)
  BY Zenon DEF cmp
<1> HIDE DEF x, y, z, u, v, w
<1> QED
  BY <1>1, <1>2

\* The places of the first k elements, in an order that cmp agrees with.
Orders(p, s, k) ==
  /\ p \in [1..k -> 1..k]
  /\ \A i, j \in 1..k : i < j => p[i] # p[j] /\ cmp(s[p[i]], s[p[j]])
  /\ \A t \in 1..k : \E i \in 1..k : p[i] = t
LEMMA OrderMore ==
  ASSUME NEW n \in Nat, NEW s \in [1..n -> Nat \X Nat], NEW k \in Nat, k < n, NEW p, Orders(p, s, k)
  PROVE  \E q : Orders(q, s, k + 1)
<1> DEFINE x == s[k + 1]
           y(i) == s[p[i]]
           M == {j \in 0..k : \A i \in 1..j : cmp(y(i), x)}
<1>1. /\ p \in [1..k -> 1..k] /\ \A t \in 1..k : \E i \in 1..k : p[i] = t
      /\ \A i, j \in 1..k : i < j => p[i] # p[j] /\ cmp(y(i), y(j))
  BY DEF Orders
<1>2. x \in Nat \X Nat /\ \A i \in 1..k : y(i) \in Nat \X Nat /\ p[i] \in 1..k
  <2>1. k + 1 \in 1..n /\ \A i \in 1..k : p[i] \in 1..k
    <3>1. p \in [1..k -> 1..k]
      BY <1>1
    <3>2. k + 1 \in 1..n
      OBVIOUS
    <3> QED
      BY <3>1, <3>2
  <2>2. \A i \in 1..k : p[i] \in 1..n
    BY <2>1
  <2> QED
    BY <2>1, <2>2
<1>3. M \in SUBSET (0..k) /\ 0 \in M
  OBVIOUS
<1>4. PICK m \in M : \A j \in M : j <= m
  <2> HIDE DEF M
  <2> QED
    BY <1>3, GreatestOf
<1> HIDE DEF x, y
<1>5. m \in 0..k /\ \A i \in 1..m : cmp(y(i), x)
  BY <1>4
<1>6. ASSUME NEW j \in (m + 1)..k PROVE cmp(x, y(j))
  <2>1. m + 1 \in 1..k /\ j \in 1..k /\ ~(m + 1 <= m)
    BY <1>5
  <2>2. ~cmp(y(m + 1), x)
    <3> SUFFICES ASSUME cmp(y(m + 1), x) PROVE FALSE
      OBVIOUS
    <3>1. \A i \in 1..(m + 1) : i \in 1..m \/ i = m + 1
      BY <1>5
    <3>2. m + 1 \in M
      BY <1>5, <2>1, <3>1
    <3> QED
      BY <1>4, <2>1, <3>2
  <2>3. cmp(x, y(m + 1))
    BY <1>2, <2>1, <2>2, CmpIs
  <2>4. CASE j = m + 1
    BY <2>3, <2>4
  <2>5. CASE j > m + 1
    <3>1. cmp(y(m + 1), y(j))
      BY <1>1, <2>1, <2>5
    <3>2. y(m + 1) \in Nat \X Nat /\ y(j) \in Nat \X Nat
      BY <1>2, <2>1
    <3> QED
      BY <1>2, <2>3, <3>1, <3>2, CmpIs
  <2> QED
    BY <2>1, <2>4, <2>5
<1> HIDE DEF M
<1> DEFINE q == [i \in 1..(k + 1) |-> IF i <= m THEN p[i] ELSE IF i = m + 1 THEN k + 1 ELSE p[i - 1]]
<1>7. ASSUME NEW i \in 1..(k + 1)
      PROVE  \/ i <= m /\ i \in 1..k /\ q[i] = p[i]
             \/ i = m + 1 /\ q[i] = k + 1
             \/ i > m + 1 /\ i - 1 \in 1..k /\ i - 1 >= m + 1 /\ q[i] = p[i - 1]
  BY <1>5
<1>8. q = [i \in 1..(k + 1) |-> q[i]]
  OBVIOUS
<1> HIDE DEF q
<1>9. q \in [1..(k + 1) -> 1..(k + 1)]
  <2>1. ASSUME NEW i \in 1..(k + 1) PROVE q[i] \in 1..(k + 1)
    <3>1. q[i] \in 1..k \/ q[i] = k + 1
      BY <1>2, <1>7
    <3> QED
      BY <3>1
  <2> QED
    BY <1>8, <2>1
<1>10. ASSUME NEW i \in 1..(k + 1), NEW j \in 1..(k + 1), i < j PROVE q[i] # q[j] /\ cmp(s[q[i]], s[q[j]])
  <2>1. CASE i <= m /\ j <= m
    <3>1. i \in 1..k /\ j \in 1..k /\ q[i] = p[i] /\ q[j] = p[j]
      BY <1>5, <1>7, <2>1
    <3> QED
      BY <1>1, <1>10, <3>1 DEF y
  <2>2. CASE i <= m /\ j = m + 1
    <3>1. i \in 1..m /\ i \in 1..k /\ q[i] = p[i] /\ q[j] = k + 1
      BY <1>5, <1>7, <2>2
    <3>2. p[i] \in 1..k /\ cmp(y(i), x)
      BY <1>2, <1>5, <3>1
    <3> QED
      BY <3>1, <3>2 DEF x, y
  <2>3. CASE i <= m /\ j > m + 1
    <3>1. i \in 1..k /\ j - 1 \in 1..k /\ i < j - 1 /\ q[i] = p[i] /\ q[j] = p[j - 1]
      BY <1>5, <1>7, <2>3
    <3> QED
      BY <1>1, <3>1 DEF y
  <2>4. CASE i = m + 1
    <3>1. j - 1 \in (m + 1)..k /\ j - 1 \in 1..k /\ q[i] = k + 1 /\ q[j] = p[j - 1]
      BY <1>5, <1>7, <1>10, <2>4
    <3>2. p[j - 1] \in 1..k /\ cmp(x, y(j - 1))
      BY <1>2, <1>6, <3>1
    <3> QED
      BY <3>1, <3>2 DEF x, y
  <2>5. CASE i > m + 1
    <3>1. i - 1 \in 1..k /\ j - 1 \in 1..k /\ i - 1 < j - 1 /\ q[i] = p[i - 1] /\ q[j] = p[j - 1]
      BY <1>5, <1>7, <1>10, <2>5
    <3> QED
      BY <1>1, <3>1 DEF y
  <2> QED
    BY <1>5, <1>10, <2>1, <2>2, <2>3, <2>4, <2>5
<1>11. ASSUME NEW t \in 1..(k + 1) PROVE \E i \in 1..(k + 1) : q[i] = t
  <2>1. CASE t = k + 1
    <3>1. m + 1 \in 1..(k + 1) /\ q[m + 1] = k + 1
      BY <1>5, <1>7
    <3> QED
      BY <2>1, <3>1
  <2>2. CASE t \in 1..k
    <3>1. PICK i \in 1..k : p[i] = t
      BY <1>1, <2>2
    <3>2. CASE i <= m
      <4>1. i \in 1..(k + 1) /\ q[i] = p[i]
        BY <1>5, <1>7, <3>2
      <4> QED
        BY <3>1, <4>1
    <3>3. CASE i > m
      <4>1. i + 1 \in 1..(k + 1) /\ q[i + 1] = p[(i + 1) - 1] /\ (i + 1) - 1 = i
        BY <1>5, <1>7, <3>3
      <4> QED
        BY <3>1, <4>1
    <3> QED
      BY <1>5, <3>2, <3>3
  <2> QED
    BY <2>1, <2>2
<1>12. Orders(q, s, k + 1)
  BY <1>9, <1>10, <1>11 DEF Orders
<1> QED
  BY <1>12

\* qsort keeps the elements and puts them in order.
LEMMA QsortSorts ==
  ASSUME NEW s \in Seq(Nat \X Nat)
  PROVE  /\ Len(qsort(s)) = Len(s) /\ DOMAIN qsort(s) = 1..Len(s) /\ ToSet(qsort(s)) = ToSet(s)
         /\ \A i, j \in 1..Len(s) : i < j => cmp(qsort(s)[i], qsort(s)[j])
         /\ Cardinality(ToSet(s)) = Len(s) => \A i, j \in 1..Len(s) : i < j => qsort(s)[i] # qsort(s)[j]
<1> DEFINE n == Len(s)
           K == {k \in Nat : k <= n => \E p : Orders(p, s, k)}
           Good(p) == \A i, j \in DOMAIN s : i < j => cmp(s[p[i]], s[p[j]])
           order == CHOOSE p \in Bijection(DOMAIN s, DOMAIN s) : Good(p)
           r == qsort(s)
<1>1. n \in Nat /\ DOMAIN s = 1..n /\ s \in [1..n -> Nat \X Nat]
  OBVIOUS
<1> HIDE DEF n
<1>2. 0 \in K
  <2>1. Orders([i \in 1..0 |-> i], s, 0)
    BY DEF Orders
  <2> QED
    BY <2>1
<1>3. \A k \in Nat : k \in K => k + 1 \in K
  <2> SUFFICES ASSUME NEW k \in Nat, k \in K, k + 1 <= n PROVE \E p : Orders(p, s, k + 1)
    OBVIOUS
  <2>1. k < n
    BY <1>1
  <2>2. PICK p : Orders(p, s, k)
    BY <1>1, <2>1
  <2>3. \E q : Orders(q, s, k + 1)
    BY <1>1, <2>1, <2>2, OrderMore, Zenon
  <2> QED
    BY <2>3, Zenon
<1>4. n \in K
  <2> HIDE DEF K
  <2> QED
    BY <1>1, <1>2, <1>3, Induct, Zenon
<1>5. PICK p : Orders(p, s, n)
  BY <1>1, <1>4
<1>6. p \in Bijection(DOMAIN s, DOMAIN s) /\ Good(p)
  <2>1. p \in [1..n -> 1..n] /\ \A t \in 1..n : \E i \in 1..n : p[i] = t
    BY <1>5 DEF Orders
  <2>2. \A i, j \in 1..n : i < j => p[i] # p[j] /\ cmp(s[p[i]], s[p[j]])
    BY <1>5 DEF Orders
  <2>3. ASSUME NEW i \in 1..n, NEW j \in 1..n, p[i] = p[j] PROVE i = j
    BY <1>1, <2>2, <2>3
  <2> QED
    BY <1>1, <2>1, <2>2, <2>3 DEF Bijection, Injection, Surjection, IsInjective
<1>7. order \in Bijection(DOMAIN s, DOMAIN s) /\ Good(order)
  <2> HIDE DEF Good
  <2> QED
    BY <1>6, Zenon
<1>8. r = [i \in DOMAIN s |-> s[order[i]]]
  BY Zenon DEF qsort
<1> HIDE DEF order, r
<1>9. /\ order \in [1..n -> 1..n] /\ \A t \in 1..n : \E i \in 1..n : order[i] = t
      /\ \A i, j \in 1..n : order[i] = order[j] => i = j
      /\ \A i, j \in 1..n : i < j => cmp(s[order[i]], s[order[j]])
  BY <1>1, <1>7 DEF Bijection, Injection, Surjection, IsInjective
<1>10. r \in [1..n -> Nat \X Nat] /\ \A i \in 1..n : r[i] = s[order[i]]
  BY <1>1, <1>8, <1>9
<1>11. Len(r) = n /\ DOMAIN r = 1..n
  BY <1>1, <1>10
<1>12. ToSet(r) = ToSet(s)
  <2>1. ASSUME NEW x \in ToSet(r) PROVE x \in ToSet(s)
    <3>1. PICK i \in 1..n : r[i] = x
      BY <1>11, <2>1 DEF ToSet
    <3> QED
      BY <1>1, <1>9, <1>10, <3>1 DEF ToSet
  <2>2. ASSUME NEW x \in ToSet(s) PROVE x \in ToSet(r)
    <3>1. PICK t \in 1..n : s[t] = x
      BY <1>1, <2>2 DEF ToSet
    <3>2. PICK i \in 1..n : order[i] = t
      BY <1>9
    <3>3. r[i] = x
      BY <1>10, <3>1, <3>2
    <3> QED
      BY <1>11, <3>3 DEF ToSet
  <2> QED
    BY <2>1, <2>2
<1>13. \A i, j \in 1..n : i < j => cmp(r[i], r[j])
  BY <1>9, <1>10
<1>14. ASSUME Cardinality(ToSet(s)) = n, NEW i \in 1..n, NEW j \in 1..n, i < j PROVE r[i] # r[j]
  <2> DEFINE T == ToSet(s)
  <2>1. IsFiniteSet(1..n) /\ Cardinality(1..n) = n
    <3>1. IsFiniteSet(1..n) /\ Cardinality(1..n) = IF 1 > n THEN 0 ELSE n - 1 + 1
      BY <1>1, FS_Interval
    <3> QED
      BY <1>1, <3>1
  <2>2. s \in Surjection(1..n, T)
    BY <1>1 DEF Surjection, ToSet
  <2> HIDE DEF T
  <2>3. Cardinality(T) = Cardinality(1..n)
    BY <1>14, <2>1 DEF T
  <2>4. s \in Injection(1..n, T)
    BY <2>1, <2>2, <2>3, FS_Surjection
  <2>5. order[i] \in 1..n /\ order[j] \in 1..n /\ order[i] # order[j]
    <3>1. i # j
      BY <1>1, <1>14
    <3>2. order[i] \in 1..n /\ order[j] \in 1..n
      BY <1>9
    <3> QED
      BY <1>9, <3>1, <3>2, Zenon
  <2>6. s[order[i]] # s[order[j]]
    BY <1>1, <2>4, <2>5 DEF Injection, IsInjective
  <2> QED
    BY <1>10, <2>6
<1> QED
  BY <1>11, <1>12, <1>13, <1>14 DEF n, r

\* The chords that are printed are a triangulation of the polygon, in ascending order,
\* and no triangulation costs less than the total that is printed: tri, find_pairs and
\* qsort with cmp of 3_1.c.
THEOREM TriangulationIsLeast == PolygonSpec => []LeastTriangulation
<1>1. PolygonInit => LeastTriangulation
  BY DEF PolygonInit, LeastTriangulation
<1>2. LeastTriangulation /\ [PolygonMain]_polygon => LeastTriangulation'
  <2> SUFFICES ASSUME LeastTriangulation, [PolygonMain]_polygon PROVE LeastTriangulation'
    OBVIOUS
  <2>1. CASE UNCHANGED polygon
    BY <2>1 DEF LeastTriangulation
  <2>2. CASE PolygonMain
    <3>1. PICK p \in Polygons :
            polygon' = [op |-> "done", n |-> p.n, length |-> p.length,
                        total |-> tri(p.length, p.n)[<<0, p.n>>].cost,
                        idx |-> qsort(find_pairs(tri(p.length, p.n), p.n)[<<0, p.n>>])]
      BY <2>2 DEF PolygonMain
    <3> DEFINE n == p.n
               L == p.length
               d == tri(L, n)
               w == <<0, n>>
               l == find_pairs(d, n)[w]
               r == qsort(l)
               total == d[w].cost
               T == ToSet(l)
    <3>2. n \in Nat /\ n >= 3 /\ L \in [Chords(n) -> Nat]
      BY PolygonAssumption
    <3>3. polygon'.op = "done" /\ polygon'.n = n /\ polygon'.length = L /\ polygon'.total = total /\ polygon'.idx = r
      BY <3>1
    <3> HIDE DEF n, L
    <3>4. w \in SubPolygons(n) /\ w[1] = 0 /\ w[2] = n
      BY <3>2 DEF SubPolygons
    <3>5. \A q \in SubPolygons(n) : CutAt(d, L, q)
      BY <3>2, TriIs
    <3> HIDE DEF d
    <3>6. Triangulates(l, L, 0, n, total)
      <4>1. Triangulates(find_pairs(d, n)[w], L, w[1], w[2], d[w].cost)
        BY <3>2, <3>4, <3>5, PairsTriangulate, Zenon
      <4> QED
        BY <3>4, <4>1, Zenon
    <3>7. \A t \in SUBSET Inner(0, n) : NoneCross(t) => NoneBelow(t, L, 0, n, total)
      <4>1. \A t \in SUBSET Inner(w[1], w[2]) : NoneCross(t) => NoneBelow(t, L, w[1], w[2], d[w].cost)
        BY <3>2, <3>4, <3>5, NoneCheaper, Zenon
      <4> QED
        BY <3>4, <4>1, Zenon
    <3> HIDE DEF w, l, r, total
    <3>8. Inner(0, n) = Chords(n) /\ Full(n) = n - 3 /\ n - 3 \in Nat
      BY <3>2, ChordsAre DEF Full
    <3>9. /\ l \in Seq(Chords(n)) /\ Len(l) = n - 3 /\ T \in SUBSET Chords(n) /\ Cardinality(T) = n - 3
          /\ NoneCross(T) /\ SumFunctionOnSet(L, T) = total
      BY <3>6, <3>8 DEF Triangulates
    <3>10. l \in Seq(Nat \X Nat)
      <4>1. Chords(n) \subseteq Nat \X Nat
        BY DEF Chords
      <4> QED
        BY <3>9, <4>1
    <3>11. /\ Len(r) = n - 3 /\ DOMAIN r = 1..(n - 3) /\ ToSet(r) = T
           /\ \A i, j \in 1..(n - 3) : i < j => cmp(r[i], r[j])
           /\ \A i, j \in 1..(n - 3) : i < j => r[i] # r[j]
      BY <3>9, <3>10, QsortSorts DEF r
    <3>12. T \in Triangulations(n)
      <4>1. \A c, e \in T : ~Cross(c, e)
        BY <3>9 DEF NoneCross
      <4>2. T \in kSubset(n - 3, Chords(n))
        BY <3>9 DEF kSubset
      <4> QED
        BY <4>1, <4>2 DEF Triangulations
    <3>13. ASSUME NEW t \in Triangulations(n) PROVE SumFunctionOnSet(L, t) >= total
      <4>1. t \in SUBSET Inner(0, n) /\ Cardinality(t) = Full(n) /\ NoneCross(t)
        BY <3>8 DEF Triangulations, kSubset, NoneCross
      <4> QED
        BY <3>7, <4>1 DEF NoneBelow
    <3> HIDE DEF T
    <3>14. \A i, j \in DOMAIN r : i < j => r[i] # r[j] /\ cmp(r[i], r[j])
      BY <3>11
    <3> QED
      BY <3>3, <3>9, <3>11, <3>12, <3>13, <3>14 DEF LeastTriangulation
  <2> QED
    BY <2>1, <2>2
<1> QED
  BY <1>1, <1>2, PTL DEF PolygonSpec
=============================================================================
