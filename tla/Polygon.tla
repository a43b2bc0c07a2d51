------------------------------- MODULE Polygon -------------------------------
(***************************************************************************)
(* The minimum triangulation of a convex polygon (CSE3081/HW3, 3_1.c).  The *)
(* lengths of the chords are a function from pairs <<i, j>> with i < j to   *)
(* numbers, which stands for the points.                                    *)
(***************************************************************************)
EXTENDS Integers, Sequences, SequencesExt, FiniteSets, FiniteSetsExt

CONSTANT Polygons     \* records [n, length]

Chords(n) == {c \in (0..(n - 1)) \X (0..(n - 1)) : c[2] - c[1] > 1 /\ c[2] - c[1] < n - 1}

ASSUME PolygonAssumption ==
  \A p \in Polygons : p.n \in Nat /\ p.n >= 3 /\ p.length \in [Chords(p.n) -> Nat]

VARIABLE polygon      \* the polygon and the answer for it

PolygonInit == polygon = [op |-> "none"]

\* Two vertices next to each other have no chord.  (The global n that dist and
\* find_pairs read is 0: main reads the number of points into a local one.)
GlobalN == 0
dist(length, a, b) == IF b - a = 1 \/ b - a = GlobalN - 1 THEN 0 ELSE length[<<a, b>>]

\* The smaller polygons: <<f, s>> has the s vertices from f on.
SubPolygons(n) == {p \in (0..n) \X (0..n) : p[1] + p[2] <= n}

\* The cost of a part whose first and last vertices make a triangle with vertex f + i.
Through(d, length, p, i) ==
  LET f == p[1]
      s == p[2]
  IN d[<<f, i + 1>>].cost + d[<<f + i, s - i>>].cost
       + dist(length, f, f + i) + dist(length, f + i, f + s - 1)
\* Mutant of Cut: the loop over i ends one too early.
Cut_short(d, length, p) ==
  LET ret == Min({Through(d, length, p, i) : i \in 1..(p[2] - 3)})
  IN IF p[2] < 4 THEN [pair |-> 0, cost |-> 0]
     ELSE [pair |-> Min({i \in 1..(p[2] - 3) : Through(d, length, p, i) = ret}), cost |-> ret]
\* The least of these costs, and the first i that has it.
Cut(d, length, p) ==
  LET ret == Min({Through(d, length, p, i) : i \in 1..(p[2] - 2)})
  IN IF p[2] < 4 THEN [pair |-> 0, cost |-> 0]
     ELSE [pair |-> Min({i \in 1..(p[2] - 2) : Through(d, length, p, i) = ret}), cost |-> ret]
tri(length, n) == LET d[p \in SubPolygons(n)] == Cut(d, length, p) IN d

\* The chords of a triangulation, in the order of the recursion.
ChordsOf(idx, d, p) ==
  LET f == p[1]
      s == p[2]
      cur == d[p].pair
      chord(holds, i, j) == IF holds THEN <<<<i, j>>>> ELSE <<>>
  IN IF s < 4 THEN <<>>
     ELSE chord(cur > 1, f, f + cur) \o chord(s - cur > 2, f + cur, f + s - 1)
          \o chord(s < GlobalN, f, f + s - 1)
          \o idx[<<f, cur + 1>>] \o idx[<<f + cur, s - cur>>]
find_pairs(d, n) == LET idx[p \in SubPolygons(n)] == ChordsOf(idx, d, p) IN idx

\* cmp finds a not after b; qsort puts the chords in that order.
cmp(a, b) == a[1] < b[1] \/ (a[1] = b[1] /\ a[2] <= b[2])
qsort(s) ==
  LET order == CHOOSE p \in Bijection(DOMAIN s, DOMAIN s) :
                 \A i, j \in DOMAIN s : i < j => cmp(s[p[i]], s[p[j]])
  IN [i \in DOMAIN s |-> s[order[i]]]

\* main, for one test case.
PolygonMain ==
  /\ polygon.op = "none"
  /\ \E p \in Polygons :
       LET d == tri(p.length, p.n) IN
         polygon' = [op |-> "done", n |-> p.n, length |-> p.length,
                     total |-> d[<<0, p.n>>].cost, idx |-> qsort(find_pairs(d, p.n)[<<0, p.n>>])]
PolygonSpec == PolygonInit /\ [][PolygonMain]_polygon

----------------------------------------------------------------------------
\* Properties

Cross(c, d) == c[1] < d[1] /\ d[1] < c[2] /\ c[2] < d[2]
Triangulations(n) == {t \in kSubset(n - 3, Chords(n)) : \A c, d \in t : ~Cross(c, d)}
\* The chords printed are a triangulation, in ascending order and each one once, and
\* their length is the total printed, which no triangulation is below.
LeastTriangulation ==
  LET cost(t) == SumFunctionOnSet(polygon.length, t)
      idx == polygon.idx
  IN polygon.op = "done" =>
       /\ Len(idx) = polygon.n - 3
       /\ \A i, j \in DOMAIN idx : i < j => idx[i] # idx[j] /\ cmp(idx[i], idx[j])
       /\ ToSet(idx) \in Triangulations(polygon.n)
       /\ polygon.total = cost(ToSet(idx))
       /\ \A t \in Triangulations(polygon.n) : cost(t) >= polygon.total
=============================================================================
