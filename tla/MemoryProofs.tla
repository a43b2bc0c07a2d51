----------------------------- MODULE MemoryProofs -----------------------------
(***************************************************************************)
(* Proofs about AddressSpace and Memory, for any number of processes,      *)
(* threads, pages and blocks: every page of the pools is free or has one   *)
(* holder, whatever fails and whenever a switch comes; the active page     *)
(* directory is alive; the allocators never hand out anything twice.       *)
(***************************************************************************)
EXTENDS Memory, AddressSpace, FiniteSetTheorems, SequenceTheorems, WellFoundedInduction, TLAPS

LEMMA SmallestPage ==
  ASSUME NEW S \in SUBSET Nat, S # {}
  PROVE  \E n \in S : \A m \in S : n <= m
<1> DEFINE R == {p \in Nat \X Nat : p[1] < p[2]}
<1>1. IsWellFoundedOn(R, Nat)
  BY NatLessThanWellFounded DEF OpToRel
<1>2. \A m, n \in Nat : <<m, n>> \in R <=> m < n
  OBVIOUS
<1> HIDE DEF R
<1>3. PICK n \in S : \A m \in S : ~(<<m, n>> \in R)
  BY <1>1, WFMin
<1>4. ASSUME NEW m \in S PROVE n <= m
  <2>1. m \in Nat /\ n \in Nat /\ ~(<<m, n>> \in R)
    BY <1>3
  <2> QED
    BY <1>2, <2>1
<1> QED
  BY <1>4

----------------------------------------------------------------------------
(* What holds of the address spaces *)

\* Where a process can be.
Doing ==
  [at : {"none", "create", "activate", "copy", "user", "null"}]
  \cup [at : {"page"}, copy : KernelPages, todo : Seq(Nat)]
  \cup [at : {"install"}, copy : KernelPages, todo : Seq(Nat), page : UserPages]
  \cup [at : {"done"}, copy : KernelPages, ok : BOOLEAN]
  \cup [at : {"grow"}, v : 1..VPages]
  \cup [at : {"grown"}, v : 1..(VPages - 1), page : UserPages]
  \cup [at : {"base", "destroy"}, pd : KernelPages]

SpaceTypeOK ==
  /\ free_pages \subseteq KernelPages \cup UserPages
  /\ tables \in [KernelPages -> [TableNos -> KernelPages \cup {0}]]
  /\ ptes \in [KernelPages -> [PteNos -> UserPages \cup {0}]]
  /\ pagedir \in [Users \cup {Kernel} -> KernelPages \cup {0}] /\ pagedir[Kernel] = 0
  /\ running \in Users \cup {Kernel}
  /\ doing \in [Users -> Doing]
  /\ free_pages \cap lost = {}

\* The pages that are left to load end with the stack's.
TodoFor(d) ==
  d.at \in {"page", "install"} =>
    /\ d.todo # <<>> => d.todo[Len(d.todo)] = VPages
    /\ d.at = "install" => d.todo # <<>> /\ Head(d.todo) \in 0..VPages
TodoOK == \A u \in Users : TodoFor(doing[u])

\* Who has a page directory.
Without == {"none", "create", "base", "destroy"}
DirectoriesOK ==
  \A u \in Users : doing[u].at # "null" => (pagedir[u] = 0 <=> doing[u].at \in Without)

\* No stale entries: only a directory has tables, only a table has pages.
Clean ==
  /\ \A d \in KernelPages, i \in TableNos : tables[d][i] # 0 =>
       \E u \in Users : \/ pagedir[u] = d
                        \/ doing[u].at \in {"base", "destroy"} /\ doing[u].pd = d
  /\ \A t \in KernelPages, j \in PteNos : ptes[t][j] # 0 =>
       \E d \in KernelPages, i \in TableNos : tables[d][i] = t

\* Every page has one holder, and the free and the lost have none.
Held(r) ==
  CASE r[1] = "directory" -> pagedir[r[2]]
    [] r[1] = "dying" -> IF doing[r[2]].at \in {"base", "destroy"} THEN doing[r[2]].pd ELSE 0
    [] r[1] = "local" -> IF doing[r[2]].at \in {"install", "grown"} THEN doing[r[2]].page ELSE 0
    [] r[1] = "copy" ->
         IF doing[r[2]].at \in {"page", "install", "done"} THEN doing[r[2]].copy ELSE 0
    [] r[1] = "table" -> tables[r[2]][r[3]]
    [] r[1] = "frame" -> ptes[r[2]][r[3]]
held == [r \in Roles |-> Held(r)]

AllPages == KernelPages \cup UserPages
\* h: who holds what; taken: the pages somebody holds.
Exact(h, taken) ==
  /\ \A r, q \in Roles : h[r] = h[q] /\ h[r] # 0 => r = q
  /\ \A r \in Roles : h[r] # 0 => h[r] \in taken
  /\ \A p \in taken : \E r \in Roles : h[r] = p
PagesHeld == Exact(held, AllPages \ (free_pages \cup lost))

\* The page the fault handler will install is not there yet.
Missing == \A u \in Users : doing[u].at = "grown" => ~MappedAt(u, doing[u].v)

\* The active directory is the running thread's, or that of the kernel where load and
\* process_exit switch.
ActiveFor(c, pd, d) ==
  /\ d.at = "activate" => c \in {InitPageDir, pd}
  /\ d.at = "base" => c \in {InitPageDir, d.pd}
  /\ d.at \notin {"activate", "base"} => c = activated(pd)
Activated ==
  /\ running = Kernel => cr3 = InitPageDir
  /\ \A u \in Users : running = u => ActiveFor(cr3, pagedir[u], doing[u])

SpaceInv ==
  /\ SpaceTypeOK /\ TodoOK /\ DirectoriesOK /\ Clean /\ PagesHeld /\ Missing /\ Activated

----------------------------------------------------------------------------
(* The roles *)

Dir(u) == <<"directory", u, 0>>
Dying(u) == <<"dying", u, 0>>
Local(u) == <<"local", u, 0>>
Copied(u) == <<"copy", u, 0>>
TableAt(d, i) == <<"table", d, i>>
FrameAt(t, j) == <<"frame", t, j>>

LEMMA RoleIs ==
  ASSUME NEW r \in Roles
  PROVE  \/ \E u \in Users : r \in {Dir(u), Dying(u), Local(u), Copied(u)}
         \/ \E d \in KernelPages, i \in TableNos : r = TableAt(d, i)
         \/ \E t \in KernelPages, j \in PteNos : r = FrameAt(t, j)
<1>1. CASE r \in {"directory", "dying", "local", "copy"} \X Users \X {0}
  BY <1>1 DEF Dir, Dying, Local, Copied
<1>2. CASE r \in {"table"} \X KernelPages \X TableNos
  BY <1>2 DEF TableAt
<1>3. CASE r \in {"frame"} \X KernelPages \X PteNos
  BY <1>3 DEF FrameAt
<1> QED
  BY <1>1, <1>2, <1>3 DEF Roles

LEMMA AreRoles ==
  /\ \A u \in Users : /\ Dir(u) \in Roles /\ Dying(u) \in Roles
                      /\ Local(u) \in Roles /\ Copied(u) \in Roles
  /\ \A d \in KernelPages, i \in TableNos : TableAt(d, i) \in Roles
  /\ \A t \in KernelPages, j \in PteNos : FrameAt(t, j) \in Roles
BY DEF Roles, Dir, Dying, Local, Copied, TableAt, FrameAt

LEMMA RolesDiffer ==
  /\ \A u, v \in Users :
       /\ Dir(u) \notin {Dying(v), Local(v), Copied(v)} /\ (Dir(u) = Dir(v) => u = v)
       /\ Dying(u) \notin {Local(v), Copied(v)} /\ (Dying(u) = Dying(v) => u = v)
       /\ Local(u) # Copied(v) /\ (Local(u) = Local(v) => u = v)
       /\ Copied(u) = Copied(v) => u = v
  /\ \A u \in Users, d \in KernelPages, i \in TableNos :
       TableAt(d, i) \notin {Dir(u), Dying(u), Local(u), Copied(u)}
  /\ \A u \in Users, t \in KernelPages, j \in PteNos :
       FrameAt(t, j) \notin {Dir(u), Dying(u), Local(u), Copied(u)}
  /\ \A d, t \in KernelPages, i \in TableNos, j \in PteNos : TableAt(d, i) # FrameAt(t, j)
  /\ \A d, e \in KernelPages, i, k \in TableNos :
       TableAt(d, i) = TableAt(e, k) => d = e /\ i = k
  /\ \A d, e \in KernelPages, i, k \in PteNos :
       FrameAt(d, i) = FrameAt(e, k) => d = e /\ i = k
BY DEF Dir, Dying, Local, Copied, TableAt, FrameAt

LEMMA HeldIs ==
  /\ \A u \in Users :
       /\ Held(Dir(u)) = pagedir[u]
       /\ Held(Dying(u)) = IF doing[u].at \in {"base", "destroy"} THEN doing[u].pd ELSE 0
       /\ Held(Local(u)) = IF doing[u].at \in {"install", "grown"} THEN doing[u].page ELSE 0
       /\ Held(Copied(u)) = IF doing[u].at \in {"page", "install", "done"} THEN doing[u].copy
                            ELSE 0
  /\ \A d \in KernelPages, i \in TableNos : Held(TableAt(d, i)) = tables[d][i]
  /\ \A t \in KernelPages, j \in PteNos : Held(FrameAt(t, j)) = ptes[t][j]
BY DEF Held, Dir, Dying, Local, Copied, TableAt, FrameAt

\* A page taken, given back, and passed on.
LEMMA Takes ==
  ASSUME NEW S, NEW h, h = [r \in Roles |-> h[r]], Exact(h, S), NEW r \in Roles, NEW p,
         h[r] = 0, p \notin S, p # 0, 0 \notin S
  PROVE  Exact([h EXCEPT ![r] = p], S \cup {p})
<1> DEFINE g == [h EXCEPT ![r] = p]
<1>1. g[r] = p /\ \A q \in Roles : q # r => g[q] = h[q]
  OBVIOUS
<1> HIDE DEF g
<1>2. \A q \in Roles : q # r => g[q] # p
  BY <1>1 DEF Exact
<1>3. \A q, s \in Roles : g[q] = g[s] /\ g[q] # 0 => q = s
  BY <1>1, <1>2 DEF Exact
<1>4. \A q \in Roles : g[q] # 0 => g[q] \in S \cup {p}
  BY <1>1 DEF Exact
<1>5. ASSUME NEW x \in S \cup {p} PROVE \E q \in Roles : g[q] = x
  <2>1. CASE x \in S
    <3>1. PICK q \in Roles : h[q] = x
      BY <2>1 DEF Exact
    <3>2. q # r
      BY <2>1, <3>1
    <3> QED
      BY <1>1, <2>1, <3>1, <3>2
  <2> QED
    BY <1>1, <2>1
<1>6. Exact(g, S \cup {p})
  BY <1>3, <1>4, <1>5 DEF Exact
<1> QED
  BY <1>6 DEF g

LEMMA Gives ==
  ASSUME NEW S, NEW h, h = [r \in Roles |-> h[r]], Exact(h, S), NEW r \in Roles, h[r] # 0
  PROVE  Exact([h EXCEPT ![r] = 0], S \ {h[r]})
BY DEF Exact

LEMMA PassesOn ==
  ASSUME NEW S, NEW h, h = [r \in Roles |-> h[r]], Exact(h, S), NEW r \in Roles, h[r] # 0,
         NEW q \in Roles, h[q] = 0
  PROVE  Exact([h EXCEPT ![r] = 0, ![q] = h[r]], S)
BY DEF Exact

\* A step changes what the roles in K hold, and no others.
OthersKeep(K) == \A r \in Roles \ K : Held(r)' = Held(r)

LEMMA PageNumbers ==
  /\ 0 \notin KernelPages \cup UserPages /\ 0 # InitPageDir
  /\ InitPageDir \notin KernelPages \cup UserPages /\ KernelPages \cap UserPages = {}
  /\ KernelPages \cup UserPages \subseteq Nat /\ Kernel \notin Users
BY AddressSpaceAssumption

LEMMA TakesPage ==
  ASSUME SpaceTypeOK, PagesHeld, NEW k \in Roles, NEW p \in free_pages,
         Held(k) = 0, Held(k)' = p, OthersKeep({k}),
         free_pages' = free_pages \ {p}, lost' = lost
  PROVE  PagesHeld'
<1> DEFINE S == AllPages \ (free_pages \cup lost)
           h == held
<1>1. p \in AllPages /\ p \notin lost /\ p \notin S /\ p # 0 /\ 0 \notin S
  BY PageNumbers DEF SpaceTypeOK, AllPages
<1>2. h = [r \in Roles |-> h[r]] /\ Exact(h, S) /\ h[k] = 0
  BY DEF held, PagesHeld
<1>3. held' = [h EXCEPT ![k] = p]
  BY DEF held, OthersKeep
<1>4. (AllPages \ (free_pages \cup lost))' = S \cup {p}
  BY <1>1 DEF AllPages
<1> HIDE DEF S, h
<1>5. Exact([h EXCEPT ![k] = p], S \cup {p})
  BY <1>1, <1>2, Takes
<1> QED
  BY <1>3, <1>4, <1>5 DEF PagesHeld, Exact

LEMMA GivesPage ==
  ASSUME SpaceTypeOK, PagesHeld, NEW k \in Roles, NEW p, p # 0,
         Held(k) = p, Held(k)' = 0, OthersKeep({k}),
         \/ free_pages' = free_pages \cup {p} /\ lost' = lost
         \/ free_pages' = free_pages /\ lost' = lost \cup {p}
  PROVE  PagesHeld' /\ p \in AllPages /\ p \notin free_pages \cup lost
<1> DEFINE S == AllPages \ (free_pages \cup lost)
           h == held
<1>1. h = [r \in Roles |-> h[r]] /\ Exact(h, S) /\ h[k] = p
  BY DEF held, PagesHeld
<1>2. p \in S
  BY <1>1 DEF Exact
<1>3. held' = [h EXCEPT ![k] = 0]
  <2>1. \A r \in Roles : Held(r)' = IF r = k THEN 0 ELSE Held(r)
    BY DEF OthersKeep
  <2>2. held' = [r \in Roles |-> IF r = k THEN 0 ELSE Held(r)]
    BY <2>1 DEF held
  <2> QED
    BY <2>2 DEF held
<1>4. (AllPages \ (free_pages \cup lost))' = S \ {p}
  BY <1>2 DEF AllPages
<1>5. p \in AllPages /\ p \notin free_pages \cup lost
  BY <1>2
<1> HIDE DEF S, h
<1>6. Exact([h EXCEPT ![k] = 0], S \ {p})
  BY <1>1, Gives
<1> QED
  BY <1>3, <1>4, <1>5, <1>6 DEF PagesHeld, Exact

LEMMA PassesPage ==
  ASSUME SpaceTypeOK, PagesHeld, NEW k \in Roles, NEW q \in Roles, NEW p, p # 0,
         Held(k) = p, Held(k)' = 0, Held(q) = 0, Held(q)' = p, OthersKeep({k, q}),
         free_pages' = free_pages, lost' = lost
  PROVE  PagesHeld'
<1> DEFINE S == AllPages \ (free_pages \cup lost)
           h == held
<1>1. h = [r \in Roles |-> h[r]] /\ Exact(h, S) /\ h[k] = p /\ h[q] = 0 /\ k # q
  BY DEF held, PagesHeld
<1>2. held' = [h EXCEPT ![k] = 0, ![q] = p]
  BY <1>1 DEF held, OthersKeep
<1>3. (AllPages \ (free_pages \cup lost))' = S
  BY DEF AllPages
<1> HIDE DEF S, h
<1>4. Exact([h EXCEPT ![k] = 0, ![q] = p], S)
  <2>1. h = [r \in Roles |-> h[r]] /\ Exact(h, S) /\ h[k] # 0 /\ h[q] = 0 /\ p = h[k]
    BY <1>1
  <2>2. Exact([h EXCEPT ![k] = 0, ![q] = h[k]], S)
    BY <2>1, PassesOn
  <2> QED
    BY <2>1, <2>2
<1> QED
  BY <1>2, <1>3, <1>4, ZenonT(60) DEF PagesHeld, Exact

LEMMA KeepsPages ==
  ASSUME PagesHeld, OthersKeep({}), free_pages' = free_pages, lost' = lost
  PROVE  PagesHeld'
<1>1. held' = held
  BY DEF held, OthersKeep
<1>2. (AllPages \ (free_pages \cup lost))' = AllPages \ (free_pages \cup lost)
  BY DEF AllPages
<1> QED
  BY <1>1, <1>2 DEF PagesHeld, Exact

\* A step of the process u that touches no page table.
LEMMA OthersHold ==
  ASSUME NEW u \in Users, tables' = tables, ptes' = ptes,
         \A v \in Users \ {u} : pagedir'[v] = pagedir[v] /\ doing'[v] = doing[v]
  PROVE  OthersKeep({Dir(u), Dying(u), Local(u), Copied(u)})
<1> SUFFICES ASSUME NEW r \in Roles \ {Dir(u), Dying(u), Local(u), Copied(u)}
             PROVE  Held(r)' = Held(r)
  BY DEF OthersKeep
<1>1. CASE \E v \in Users : r \in {Dir(v), Dying(v), Local(v), Copied(v)}
  <2>1. PICK v \in Users : r \in {Dir(v), Dying(v), Local(v), Copied(v)}
    BY <1>1
  <2>2. pagedir'[v] = pagedir[v] /\ doing'[v] = doing[v]
    BY <2>1
  <2> QED
    BY <2>1, <2>2 DEF Held, Dir, Dying, Local, Copied
<1>2. CASE \E d \in KernelPages, i \in TableNos : r = TableAt(d, i)
  BY <1>2 DEF Held, TableAt
<1>3. CASE \E t \in KernelPages, j \in PteNos : r = FrameAt(t, j)
  BY <1>3 DEF Held, FrameAt
<1> QED
  BY <1>1, <1>2, <1>3, RoleIs

----------------------------------------------------------------------------
(* Steps of load and of the page fault handler that touch no page table *)

Exiting == {"base", "destroy"}

LEMMA ProcessMoves ==
  ASSUME SpaceInv, NEW u \in Users, NEW d \in Doing, doing' = [doing EXCEPT ![u] = d],
         tables' = tables, ptes' = ptes, pagedir' = pagedir, running' = running,
         doing[u].at \notin Exiting, d.at \notin Exiting,
         free_pages' \subseteq AllPages, free_pages' \cap lost' = {}, PagesHeld',
         TodoFor(d), d.at # "null" => (pagedir[u] = 0 <=> d.at \in Without),
         d.at = "grown" => ~MappedAt(u, d.v), Activated'
  PROVE  SpaceInv'
<1> USE DEF SpaceInv
<1>1. /\ doing \in [Users -> Doing] /\ doing'[u] = d
      /\ \A v \in Users \ {u} : doing'[v] = doing[v]
  BY DEF SpaceTypeOK
<1>2. SpaceTypeOK'
  BY <1>1 DEF SpaceTypeOK, AllPages
<1>3. TodoOK'
  BY <1>1 DEF TodoOK
<1>4. DirectoriesOK'
  BY <1>1 DEF DirectoriesOK
<1>5. Clean'
  <2>1. ASSUME NEW e \in KernelPages, NEW i \in TableNos, tables[e][i] # 0
        PROVE  \E v \in Users : \/ pagedir'[v] = e
                                \/ doing'[v].at \in Exiting /\ doing'[v].pd = e
    <3>1. PICK v \in Users : \/ pagedir[v] = e
                             \/ doing[v].at \in Exiting /\ doing[v].pd = e
      BY <2>1 DEF Clean, Exiting
    <3> QED
      BY <1>1, <3>1
  <2> QED
    BY <2>1 DEF Clean, Exiting
<1>6. Missing'
  <2>1. ASSUME NEW v \in Users, doing'[v].at = "grown"
        PROVE  ~MappedAt(v, doing[v].v)'
    <3>1. CASE v = u
      BY <1>1, <2>1, <3>1 DEF MappedAt, Table
    <3>2. CASE v # u
      BY <1>1, <2>1, <3>2 DEF Missing, MappedAt, Table
    <3> QED
      BY <3>1, <3>2
  <2> QED
    BY <2>1 DEF Missing
<1> QED
  BY <1>2, <1>3, <1>4, <1>5, <1>6

\* The same directory stays active.
LEMMA StaysActive ==
  ASSUME SpaceInv, NEW u \in Users, NEW d, doing' = [doing EXCEPT ![u] = d],
         pagedir' = pagedir, running' = running, cr3' = cr3,
         doing[u].at \notin {"activate", "base"}, d.at \notin {"activate", "base"}
  PROVE  Activated'
<1>1. /\ doing'[u] = d /\ \A v \in Users \ {u} : doing'[v] = doing[v]
      /\ Activated /\ Kernel \notin Users
  BY PageNumbers DEF SpaceInv, SpaceTypeOK
<1>2. running = u => ActiveFor(cr3, pagedir[u], d)
  BY <1>1 DEF Activated, ActiveFor
<1> QED
  BY <1>1, <1>2 DEF Activated

\* What such a step leaves to the roles of u.
LEMMA ProcessHolds ==
  ASSUME SpaceInv, NEW u \in Users, NEW d, doing' = [doing EXCEPT ![u] = d],
         tables' = tables, ptes' = ptes, pagedir' = pagedir,
         doing[u].at \notin Exiting, d.at \notin Exiting
  PROVE  /\ OthersKeep({Local(u), Copied(u)})
         /\ Held(Local(u)) = (IF doing[u].at \in {"install", "grown"} THEN doing[u].page ELSE 0)
         /\ Held(Local(u))' = (IF d.at \in {"install", "grown"} THEN d.page ELSE 0)
         /\ Held(Copied(u)) = (IF doing[u].at \in {"page", "install", "done"} THEN doing[u].copy
                               ELSE 0)
         /\ Held(Copied(u))' = (IF d.at \in {"page", "install", "done"} THEN d.copy ELSE 0)
<1>1. doing'[u] = d /\ \A v \in Users \ {u} : doing'[v] = doing[v]
  BY DEF SpaceInv, SpaceTypeOK
<1>2. OthersKeep({Dir(u), Dying(u), Local(u), Copied(u)})
  BY <1>1, OthersHold
<1>3. Held(Dir(u))' = Held(Dir(u)) /\ Held(Dying(u))' = Held(Dying(u))
  BY <1>1 DEF Held, Dir, Dying, Exiting
<1>4. OthersKeep({Local(u), Copied(u)})
  BY <1>2, <1>3 DEF OthersKeep
<1>5. /\ Held(Local(u))' = (IF d.at \in {"install", "grown"} THEN d.page ELSE 0)
      /\ Held(Copied(u))' = (IF d.at \in {"page", "install", "done"} THEN d.copy ELSE 0)
  BY <1>1 DEF Held, Local, Copied
<1> QED
  BY <1>4, <1>5, HeldIs

LEMMA DoingIs ==
  ASSUME NEW d \in Doing
  PROVE  /\ d.at \in {"page", "install"} => d.copy \in KernelPages /\ d.todo \in Seq(Nat)
         /\ d.at = "done" => d.copy \in KernelPages
         /\ d.at \in {"install", "grown"} => d.page \in UserPages
         /\ d.at \in {"grow", "grown"} => d.v \in 1..VPages
         /\ d.at = "grown" => d.v < VPages
         /\ d.at \in {"base", "destroy"} => d.pd \in KernelPages
BY AddressSpaceAssumption DEF Doing

LEMMA PageOfIs ==
  ASSUME SpaceTypeOK, NEW pool \in SUBSET AllPages, PageOf(pool) # 0
  PROVE  PageOf(pool) \in free_pages /\ PageOf(pool) \in pool
<1>1. free_pages \cap pool # {} /\ free_pages \cap pool \in SUBSET Nat
  BY PageNumbers DEF PageOf, AllPages
<1>2. \E p \in free_pages \cap pool : \A q \in free_pages \cap pool : p <= q
  BY <1>1, SmallestPage
<1> QED
  BY <1>1, <1>2 DEF PageOf

LEMMA PoolPages ==
  ASSUME SpaceTypeOK
  PROVE  /\ palloc_user # 0 => palloc_user \in free_pages /\ palloc_user \in UserPages
         /\ palloc_kernel # 0 => palloc_kernel \in free_pages /\ palloc_kernel \in KernelPages
BY PageOfIs DEF palloc_user, palloc_kernel, AllPages

\* A step to d that gets no page and gives none back.
LEMMA QuietMove ==
  ASSUME SpaceInv, NEW u \in Users, NEW d \in Doing, doing' = [doing EXCEPT ![u] = d],
         tables' = tables, ptes' = ptes, pagedir' = pagedir, running' = running,
         free_pages' = free_pages, lost' = lost,
         doing[u].at \notin Exiting, d.at \notin Exiting \cup {"page", "install", "grown"},
         doing[u].at \notin {"install", "grown"},
         doing[u].at = "page" => d.at = "done" /\ d.copy = doing[u].copy,
         doing[u].at # "page" => d.at # "done" /\ doing[u].at # "done",
         d.at # "null" => (pagedir[u] = 0 <=> d.at \in Without), Activated'
  PROVE  SpaceInv'
<1>1. OthersKeep({})
  <2>1. OthersKeep({Local(u), Copied(u)})
    BY ProcessHolds
  <2>2. Held(Local(u))' = Held(Local(u)) /\ Held(Copied(u))' = Held(Copied(u))
    BY ProcessHolds
  <2> QED
    BY <2>1, <2>2 DEF OthersKeep
<1>2. PagesHeld'
  BY <1>1, KeepsPages DEF SpaceInv
<1>3. free_pages' \subseteq AllPages /\ free_pages' \cap lost' = {}
  BY DEF SpaceInv, SpaceTypeOK, AllPages
<1>4. TodoFor(d)
  BY DEF TodoFor
<1> QED
  BY <1>2, <1>3, <1>4, ProcessMoves

LEMMA NewProcessKeeps ==
  ASSUME SpaceInv, NEW u \in Users, NewProcess(u)
  PROVE  SpaceInv'
<1> DEFINE d == [at |-> "create"]
<1>1. /\ doing[u].at = "none" /\ doing' = [doing EXCEPT ![u] = d]
      /\ tables' = tables /\ ptes' = ptes /\ pagedir' = pagedir /\ running' = running
      /\ free_pages' = free_pages /\ lost' = lost /\ cr3' = cr3
  BY DEF NewProcess, GoTo, Go
<1>2. d \in Doing /\ d.at = "create"
  BY DEF Doing
<1>3. pagedir[u] = 0
  BY <1>1 DEF SpaceInv, DirectoriesOK, Without
<1> HIDE DEF d
<1>4. Activated'
  BY <1>1, <1>2, StaysActive
<1> QED
  BY <1>1, <1>2, <1>3, <1>4, QuietMove DEF Exiting, Without

LEMMA LoadActivateKeeps ==
  ASSUME SpaceInv, NEW u \in Users, LoadActivate(u)
  PROVE  SpaceInv'
<1> DEFINE d == [at |-> "copy"]
<1>1. /\ doing[u].at = "activate" /\ doing' = [doing EXCEPT ![u] = d] /\ running = u
      /\ tables' = tables /\ ptes' = ptes /\ pagedir' = pagedir /\ running' = running
      /\ free_pages' = free_pages /\ lost' = lost /\ cr3' = activated(pagedir[u])
  BY DEF LoadActivate, GoTo, Go, IsDoing
<1>2. d \in Doing /\ d.at = "copy"
  BY DEF Doing
<1>3. pagedir[u] # 0
  BY <1>1 DEF SpaceInv, DirectoriesOK, Without
<1> HIDE DEF d
<1>4. Activated'
  <2>1. doing'[u] = d /\ running' = u /\ u # Kernel
    BY <1>1, PageNumbers DEF SpaceInv, SpaceTypeOK
  <2>2. ActiveFor(cr3', pagedir'[u], doing'[u])
    BY <1>1, <1>2, <2>1 DEF ActiveFor
  <2> QED
    BY <2>1, <2>2 DEF Activated
<1> QED
  BY <1>1, <1>2, <1>3, <1>4, QuietMove DEF Exiting, Without

LEMMA StackFaultKeeps ==
  ASSUME SpaceInv, NEW u \in Users, StackFault(u)
  PROVE  SpaceInv'
<1>1. PICK v \in 1..(VPages - 1) : doing' = [doing EXCEPT ![u] = [at |-> "grow", v |-> v]]
  BY DEF StackFault, Go
<1> DEFINE d == [at |-> "grow", v |-> v]
<1>2. /\ doing[u].at = "user" /\ doing' = [doing EXCEPT ![u] = d]
      /\ tables' = tables /\ ptes' = ptes /\ pagedir' = pagedir /\ running' = running
      /\ free_pages' = free_pages /\ lost' = lost /\ cr3' = cr3
  BY <1>1 DEF StackFault, IsDoing
<1>3. v \in 1..VPages
  BY AddressSpaceAssumption
<1>4. d \in Doing /\ d.at = "grow"
  BY <1>3 DEF Doing
<1>5. pagedir[u] # 0
  BY <1>2 DEF SpaceInv, DirectoriesOK, Without
<1> HIDE DEF d
<1>6. Activated'
  BY <1>2, <1>4, StaysActive
<1> QED
  BY <1>2, <1>4, <1>5, <1>6, QuietMove DEF Exiting, Without

LEMMA ExitsKeeps ==
  ASSUME SpaceInv, NEW u \in Users, Exits(u)
  PROVE  SpaceInv'
<1> DEFINE d == [at |-> "null"]
<1>1. /\ doing[u].at = "user" /\ doing' = [doing EXCEPT ![u] = d]
      /\ tables' = tables /\ ptes' = ptes /\ pagedir' = pagedir /\ running' = running
      /\ free_pages' = free_pages /\ lost' = lost /\ cr3' = cr3
  BY DEF Exits, GoTo, Go, IsDoing
<1>2. d \in Doing /\ d.at = "null"
  BY DEF Doing
<1> HIDE DEF d
<1>3. Activated'
  BY <1>1, <1>2, StaysActive
<1> QED
  BY <1>1, <1>2, <1>3, QuietMove DEF Exiting, Without

LEMMA LoadCopyKeeps ==
  ASSUME SpaceInv, NEW u \in Users, LoadCopy(u)
  PROVE  SpaceInv'
<1> DEFINE p == palloc_kernel
<1>1. /\ doing[u].at = "copy" /\ running = u
      /\ tables' = tables /\ ptes' = ptes /\ pagedir' = pagedir /\ running' = running
      /\ lost' = lost /\ cr3' = cr3
  BY DEF LoadCopy, IsDoing
<1>2. pagedir[u] # 0
  BY <1>1 DEF SpaceInv, DirectoriesOK, Without
<1>3. CASE p = 0
  <2> DEFINE d == [at |-> "null"]
  <2>1. doing' = [doing EXCEPT ![u] = d] /\ free_pages' = free_pages
    BY <1>3 DEF LoadCopy, GoTo, Go
  <2>2. d \in Doing /\ d.at = "null"
    BY DEF Doing
  <2> HIDE DEF d
  <2>3. Activated'
    BY <1>1, <2>1, <2>2, StaysActive
  <2> QED
    BY <1>1, <2>1, <2>2, <2>3, QuietMove DEF Exiting, Without
<1>4. CASE p # 0
  <2>1. p \in free_pages /\ p \in KernelPages
    BY <1>4, PoolPages DEF SpaceInv
  <2>2. PICK d \in Doing : /\ doing' = [doing EXCEPT ![u] = d] /\ d.copy = p /\ TodoFor(d)
                           /\ d.at \in {"page", "done"}
    <3>1. CASE \E prog \in Programs :
                 Go(u, [at |-> "page", copy |-> p, todo |-> Append(prog, VPages)])
      <4>1. PICK prog \in Programs :
                   Go(u, [at |-> "page", copy |-> p, todo |-> Append(prog, VPages)])
        BY <3>1
      <4> DEFINE todo == Append(prog, VPages)
                 d == [at |-> "page", copy |-> p, todo |-> todo]
      <4>2. prog \in Seq(Nat) /\ VPages \in Nat
        BY AddressSpaceAssumption
      <4>3. todo \in Seq(Nat) /\ todo[Len(todo)] = VPages
        BY <4>2
      <4> HIDE DEF todo
      <4>4. d \in Doing /\ d.copy = p /\ d.at = "page" /\ d.todo = todo
        BY <2>1, <4>3 DEF Doing
      <4>5. doing' = [doing EXCEPT ![u] = d]
        BY <4>1 DEF Go, todo
      <4> HIDE DEF d
      <4>6. TodoFor(d)
        BY <4>3, <4>4 DEF TodoFor
      <4> QED
        BY <4>4, <4>5, <4>6
    <3>2. CASE Go(u, [at |-> "done", copy |-> p, ok |-> FALSE])
      <4> DEFINE d == [at |-> "done", copy |-> p, ok |-> FALSE]
      <4>1. d \in Doing /\ d.copy = p /\ d.at = "done"
        BY <2>1 DEF Doing
      <4>2. doing' = [doing EXCEPT ![u] = d]
        BY <3>2 DEF Go
      <4> HIDE DEF d
      <4>3. TodoFor(d)
        BY <4>1 DEF TodoFor
      <4> QED
        BY <4>1, <4>2, <4>3
    <3> QED
      BY <1>4, <3>1, <3>2 DEF LoadCopy
  <2>3. free_pages' = free_pages \ {p}
    BY <1>4 DEF LoadCopy
  <2>4. PagesHeld'
    <3>1. /\ OthersKeep({Local(u), Copied(u)}) /\ Held(Local(u)) = 0 /\ Held(Local(u))' = 0
          /\ Held(Copied(u)) = 0 /\ Held(Copied(u))' = p
      BY <1>1, <2>2, ProcessHolds DEF Exiting
    <3>2. OthersKeep({Copied(u)})
      BY <3>1 DEF OthersKeep
    <3> QED
      BY <1>1, <2>1, <2>3, <3>1, <3>2, AreRoles, TakesPage DEF SpaceInv
  <2>5. Activated'
    BY <1>1, <2>2, StaysActive
  <2>6. free_pages' \subseteq AllPages /\ free_pages' \cap lost' = {}
    BY <1>1, <2>3 DEF SpaceInv, SpaceTypeOK, AllPages
  <2> QED
    BY <1>1, <1>2, <2>2, <2>4, <2>5, <2>6, ProcessMoves DEF Exiting, Without
<1> QED
  BY <1>3, <1>4

\* The end of a load before the page got; and a page got for the first of the rest.
LEMMA LoadEndsKeeps ==
  ASSUME SpaceInv, NEW u \in Users, doing[u].at = "page", NEW ok \in BOOLEAN, LoadEnds(u, ok),
         tables' = tables, ptes' = ptes, pagedir' = pagedir, running' = running,
         free_pages' = free_pages, lost' = lost, cr3' = cr3
  PROVE  SpaceInv'
<1> DEFINE d == [at |-> "done", copy |-> doing[u].copy, ok |-> ok]
<1>1. doing' = [doing EXCEPT ![u] = d] /\ doing[u].copy \in KernelPages /\ pagedir[u] # 0
  BY DoingIs DEF LoadEnds, Go, SpaceInv, SpaceTypeOK, DirectoriesOK, Without
<1>2. d \in Doing /\ d.at = "done" /\ d.copy = doing[u].copy
  BY <1>1 DEF Doing
<1> HIDE DEF d
<1>3. Activated'
  BY <1>1, <1>2, StaysActive
<1> QED
  BY <1>1, <1>2, <1>3, QuietMove DEF Exiting, Without

LEMMA GetsPageKeeps ==
  ASSUME SpaceInv, NEW u \in Users, doing[u].at = "page", GetsPage(u),
         doing[u].todo # <<>>, Head(doing[u].todo) \in 0..VPages,
         tables' = tables, ptes' = ptes, pagedir' = pagedir, running' = running,
         lost' = lost, cr3' = cr3
  PROVE  SpaceInv'
<1> DEFINE p == palloc_user
           d == [at |-> "install", copy |-> doing[u].copy, todo |-> doing[u].todo, page |-> p]
<1>1. /\ doing' = [doing EXCEPT ![u] = d] /\ p # 0 /\ free_pages' = free_pages \ {p}
      /\ p \in free_pages /\ p \in UserPages
  BY PoolPages DEF GetsPage, Go, SpaceInv
<1>2. /\ doing[u] \in Doing /\ doing[u].copy \in KernelPages /\ doing[u].todo \in Seq(Nat)
      /\ pagedir[u] # 0 /\ TodoFor(doing[u])
  BY DoingIs DEF SpaceInv, SpaceTypeOK, DirectoriesOK, Without, TodoOK
<1>3. /\ d \in Doing /\ d.at = "install" /\ d.copy = doing[u].copy
      /\ d.todo = doing[u].todo /\ d.page = p
  BY <1>1, <1>2 DEF Doing
<1> HIDE DEF d, p
<1>4. PagesHeld'
  <2>1. /\ OthersKeep({Local(u), Copied(u)})
        /\ Held(Local(u)) = 0 /\ Held(Local(u))' = p
        /\ Held(Copied(u)) = doing[u].copy /\ Held(Copied(u))' = d.copy
    BY <1>1, <1>3, ProcessHolds DEF Exiting
  <2>2. OthersKeep({Local(u)})
    BY <1>3, <2>1 DEF OthersKeep
  <2> QED
    BY <1>1, <2>1, <2>2, AreRoles, TakesPage DEF SpaceInv
<1>5. Activated'
  BY <1>1, <1>3, StaysActive
<1>6. free_pages' \subseteq AllPages /\ free_pages' \cap lost' = {}
  BY <1>1 DEF SpaceInv, SpaceTypeOK, AllPages
<1>7. TodoFor(d)
  BY <1>2, <1>3 DEF TodoFor
<1> QED
  BY <1>1, <1>2, <1>3, <1>4, <1>5, <1>6, <1>7, ProcessMoves DEF Exiting, Without

LEMMA LoadPageKeeps ==
  ASSUME SpaceInv, NEW u \in Users, LoadPage(u)
  PROVE  SpaceInv'
<1>1. /\ doing[u].at = "page" /\ Len(doing[u].todo) > 1
      /\ tables' = tables /\ ptes' = ptes /\ pagedir' = pagedir /\ running' = running
      /\ lost' = lost /\ cr3' = cr3
  BY DEF LoadPage, IsDoing
<1>2. CASE validate_segment(Head(doing[u].todo)) /\ GetsPage(u)
  <2>1. doing[u].todo \in Seq(Nat)
    BY <1>1, DoingIs DEF SpaceInv, SpaceTypeOK
  <2>2. doing[u].todo # <<>> /\ Head(doing[u].todo) \in 0..VPages
    BY <1>1, <1>2, <2>1, AddressSpaceAssumption DEF validate_segment
  <2> QED
    BY <1>1, <1>2, <2>2, GetsPageKeeps
<1>3. CASE LoadEnds(u, FALSE) /\ UNCHANGED free_pages
  BY <1>1, <1>3, LoadEndsKeeps
<1> QED
  BY <1>2, <1>3 DEF LoadPage

LEMMA SetupStackKeeps ==
  ASSUME SpaceInv, NEW u \in Users, SetupStack(u)
  PROVE  SpaceInv'
<1>1. /\ doing[u].at = "page" /\ Len(doing[u].todo) <= 1
      /\ tables' = tables /\ ptes' = ptes /\ pagedir' = pagedir /\ running' = running
      /\ lost' = lost /\ cr3' = cr3
  BY DEF SetupStack, IsDoing
<1>2. CASE doing[u].todo # <<>> /\ GetsPage(u)
  <2>1. doing[u].todo \in Seq(Nat) /\ TodoFor(doing[u])
    BY <1>1, DoingIs DEF SpaceInv, SpaceTypeOK, TodoOK
  <2>2. Len(doing[u].todo) = 1 /\ doing[u].todo[Len(doing[u].todo)] = VPages
    <3>1. Len(doing[u].todo) \in Nat /\ Len(doing[u].todo) # 0
      BY <1>2, <2>1
    <3>2. doing[u].todo[Len(doing[u].todo)] = VPages
      BY <1>1, <1>2, <2>1 DEF TodoFor
    <3>3. Len(doing[u].todo) = 1
      <4> DEFINE n == Len(doing[u].todo)
      <4>1. n \in Nat /\ n # 0 /\ n <= 1
        BY <1>1, <3>1
      <4> HIDE DEF n
      <4>2. n = 1
        BY <4>1
      <4> QED
        BY <4>2 DEF n
    <3> QED
      BY <3>2, <3>3
  <2>3. Head(doing[u].todo) = VPages /\ VPages \in 0..VPages
    BY <1>2, <2>1, <2>2, AddressSpaceAssumption
  <2> QED
    BY <1>1, <1>2, <2>3, GetsPageKeeps
<1>3. CASE \E ok \in BOOLEAN : LoadEnds(u, ok) /\ UNCHANGED free_pages
  BY <1>1, <1>3, LoadEndsKeeps
<1> QED
  BY <1>2, <1>3 DEF SetupStack

LEMMA LoadDoneKeeps ==
  ASSUME SpaceInv, NEW u \in Users, LoadDone(u)
  PROVE  SpaceInv'
<1> DEFINE d == [at |-> IF doing[u].ok THEN "user" ELSE "null"]
           p == doing[u].copy
<1>1. /\ doing[u].at = "done" /\ doing' = [doing EXCEPT ![u] = d]
      /\ tables' = tables /\ ptes' = ptes /\ pagedir' = pagedir /\ running' = running
      /\ lost' = lost /\ cr3' = cr3 /\ free_pages' = free_pages \cup {p}
  BY DEF LoadDone, GoTo, Go, IsDoing
<1>2. d \in Doing /\ d.at \in {"user", "null"}
  BY DEF Doing
<1>3. p \in KernelPages /\ p # 0 /\ pagedir[u] # 0
  BY <1>1, DoingIs, PageNumbers DEF SpaceInv, SpaceTypeOK, DirectoriesOK, Without
<1> HIDE DEF d, p
<1>4. PagesHeld' /\ p \in AllPages /\ p \notin free_pages \cup lost
  <2>1. /\ OthersKeep({Local(u), Copied(u)})
        /\ Held(Local(u)) = 0 /\ Held(Local(u))' = 0
        /\ Held(Copied(u)) = p /\ Held(Copied(u))' = 0
    BY <1>1, <1>2, ProcessHolds DEF Exiting, p
  <2>2. OthersKeep({Copied(u)})
    BY <2>1 DEF OthersKeep
  <2> QED
    BY <1>1, <1>3, <2>1, <2>2, AreRoles, GivesPage DEF SpaceInv
<1>5. Activated'
  BY <1>1, <1>2, StaysActive
<1>6. free_pages' \subseteq AllPages /\ free_pages' \cap lost' = {}
  BY <1>1, <1>4 DEF SpaceInv, SpaceTypeOK, AllPages
<1>7. TodoFor(d)
  BY <1>2 DEF TodoFor
<1> QED
  BY <1>1, <1>2, <1>3, <1>4, <1>5, <1>6, <1>7, ProcessMoves DEF Exiting, Without

LEMMA GrowStackKeeps ==
  ASSUME SpaceInv, NEW u \in Users, GrowStack(u)
  PROVE  SpaceInv'
<1> DEFINE v == doing[u].v
           p == palloc_user
<1>1. /\ doing[u].at = "grow"
      /\ tables' = tables /\ ptes' = ptes /\ pagedir' = pagedir /\ running' = running
      /\ lost' = lost /\ cr3' = cr3
  BY DEF GrowStack, IsDoing
<1>2. v \in 1..VPages /\ pagedir[u] # 0 /\ VPages \in Nat
  BY <1>1, DoingIs, AddressSpaceAssumption
     DEF SpaceInv, SpaceTypeOK, DirectoriesOK, Without
<1>3. CASE v = VPages \/ MappedAt(u, v) \/ p = 0
  <2>1. PICK d \in Doing : /\ doing' = [doing EXCEPT ![u] = d] /\ free_pages' = free_pages
                           /\ d.at \in {"user", "grow", "null"}
    <3>1. CASE v = VPages
      <4>1. doing' = [doing EXCEPT ![u] = [at |-> "user"]] /\ free_pages' = free_pages
        BY <1>2, <3>1 DEF GrowStack, GoTo, Go
      <4>2. [at |-> "user"] \in Doing
        BY DEF Doing
      <4> QED
        BY <4>1, <4>2
    <3>2. CASE v < VPages /\ MappedAt(u, v)
      <4>1. /\ doing' = [doing EXCEPT ![u] = [at |-> "grow", v |-> v + 1]]
            /\ free_pages' = free_pages
        BY <1>2, <3>2 DEF GrowStack, Go
      <4>2. v + 1 \in 1..VPages
        BY <1>2, <3>2
      <4>3. [at |-> "grow", v |-> v + 1] \in Doing
        BY <4>2 DEF Doing
      <4> QED
        BY <4>1, <4>3
    <3>3. CASE v < VPages /\ ~MappedAt(u, v)
      <4>1. doing' = [doing EXCEPT ![u] = [at |-> "null"]] /\ free_pages' = free_pages
        BY <1>2, <1>3, <3>3 DEF GrowStack, GoTo, Go
      <4>2. [at |-> "null"] \in Doing
        BY DEF Doing
      <4> QED
        BY <4>1, <4>2
    <3> QED
      BY <1>2, <3>1, <3>2, <3>3
  <2>2. Activated'
    BY <1>1, <2>1, StaysActive
  <2> QED
    BY <1>1, <1>2, <2>1, <2>2, QuietMove DEF Exiting, Without
<1>4. CASE v < VPages /\ ~MappedAt(u, v) /\ p # 0
  <2> DEFINE d == [at |-> "grown", v |-> v, page |-> p]
  <2>1. doing' = [doing EXCEPT ![u] = d] /\ free_pages' = free_pages \ {p}
    BY <1>2, <1>4 DEF GrowStack, Go
  <2>2. p \in free_pages /\ p \in UserPages
    BY <1>4, PoolPages DEF SpaceInv
  <2>3. d \in Doing /\ d.at = "grown" /\ d.v = v /\ d.page = p
    <3>1. v \in 1..(VPages - 1)
      BY <1>2, <1>4
    <3> QED
      BY <2>2, <3>1 DEF Doing
  <2> HIDE DEF d, p
  <2>4. PagesHeld'
    <3>1. /\ OthersKeep({Local(u), Copied(u)})
          /\ Held(Local(u)) = 0 /\ Held(Local(u))' = p
          /\ Held(Copied(u)) = 0 /\ Held(Copied(u))' = 0
      BY <1>1, <2>1, <2>3, ProcessHolds DEF Exiting
    <3>2. OthersKeep({Local(u)})
      BY <3>1 DEF OthersKeep
    <3> QED
      BY <1>1, <2>1, <2>2, <3>1, <3>2, AreRoles, TakesPage DEF SpaceInv
  <2>5. Activated'
    BY <1>1, <2>1, <2>3, StaysActive
  <2>6. free_pages' \subseteq AllPages /\ free_pages' \cap lost' = {}
    BY <1>1, <2>1 DEF SpaceInv, SpaceTypeOK, AllPages
  <2>7. TodoFor(d)
    BY <2>3 DEF TodoFor
  <2> QED
    BY <1>1, <1>2, <1>4, <2>1, <2>3, <2>4, <2>5, <2>6, <2>7, ProcessMoves DEF Exiting, Without
<1> QED
  BY <1>2, <1>3, <1>4

----------------------------------------------------------------------------
(* Steps that make, pass on and destroy a page directory *)

\* The directory the process uses, or is destroying.
Own(pd, d) == {pd} \cup (IF d.at \in Exiting THEN {d.pd} ELSE {})

LEMMA DirectoryMoves ==
  ASSUME SpaceInv, NEW u \in Users, NEW d \in Doing, NEW pd \in KernelPages \cup {0},
         doing' = [doing EXCEPT ![u] = d], pagedir' = [pagedir EXCEPT ![u] = pd],
         tables' = tables, ptes' = ptes, running' \in Users \cup {Kernel},
         free_pages' \subseteq AllPages, free_pages' \cap lost' = {}, PagesHeld', Activated',
         d.at \notin {"page", "install", "grown"},
         d.at # "null" => (pd = 0 <=> d.at \in Without),
         \A e \in Own(pagedir[u], doing[u]) \ Own(pd, d) :
           e = 0 \/ tables[e] = NoTables
  PROVE  SpaceInv'
<1> USE DEF SpaceInv
<1>1. /\ doing'[u] = d /\ \A v \in Users \ {u} : doing'[v] = doing[v]
      /\ pagedir'[u] = pd /\ \A v \in Users \ {u} : pagedir'[v] = pagedir[v]
      /\ pagedir' \in [Users \cup {Kernel} -> KernelPages \cup {0}] /\ pagedir'[Kernel] = 0
  BY PageNumbers DEF SpaceTypeOK
<1>2. SpaceTypeOK'
  BY <1>1 DEF SpaceTypeOK, AllPages
<1>3. TodoOK' /\ DirectoriesOK'
  BY <1>1 DEF TodoOK, TodoFor, DirectoriesOK
<1>4. Clean'
  <2>1. ASSUME NEW e \in KernelPages, NEW i \in TableNos, tables[e][i] # 0
        PROVE  \E v \in Users : \/ pagedir'[v] = e
                                \/ doing'[v].at \in Exiting /\ doing'[v].pd = e
    <3>1. PICK v \in Users : \/ pagedir[v] = e
                             \/ doing[v].at \in Exiting /\ doing[v].pd = e
      BY <2>1 DEF Clean, Exiting
    <3>2. CASE v = u
      <4>1. e \in Own(pagedir[u], doing[u]) /\ e # 0
        BY <3>1, <3>2, PageNumbers DEF Own
      <4>2. tables[e] # NoTables
        BY <2>1 DEF NoTables
      <4>3. e \in Own(pd, d)
        BY <4>1, <4>2
      <4> QED
        BY <1>1, <4>3 DEF Own
    <3> QED
      BY <1>1, <3>1, <3>2
  <2> QED
    BY <2>1 DEF Clean, Exiting
<1>5. Missing'
  <2>1. ASSUME NEW v \in Users, doing'[v].at = "grown"
        PROVE  ~MappedAt(v, doing[v].v)'
    <3>1. v # u
      BY <1>1, <2>1
    <3> QED
      BY <1>1, <2>1, <3>1 DEF Missing, MappedAt, Table
  <2> QED
    BY <2>1 DEF Missing
<1> QED
  BY <1>2, <1>3, <1>4, <1>5

\* Nobody holds a free page, so it has no entries left.
LEMMA FreeIsClean ==
  ASSUME SpaceInv, NEW p \in free_pages, p \in KernelPages
  PROVE  tables[p] = NoTables /\ ptes[p] = NoPages
<1> USE DEF SpaceInv
<1>1. \A r \in Roles : Held(r) # p
  <2>1. \A r \in Roles : held[r] = Held(r)
    BY DEF held
  <2> QED
    BY <2>1, PageNumbers DEF PagesHeld, Exact, SpaceTypeOK
<1>2. ASSUME NEW i \in TableNos PROVE tables[p][i] = 0
  <2>1. ASSUME NEW u \in Users PROVE pagedir[u] # p /\ ~(doing[u].at \in Exiting /\ doing[u].pd = p)
    <3>1. Held(Dir(u)) # p /\ Held(Dying(u)) # p
      BY <1>1, AreRoles
    <3> QED
      BY <3>1, HeldIs DEF Exiting
  <2> QED
    BY <2>1 DEF Clean, Exiting
<1>3. ASSUME NEW j \in PteNos PROVE ptes[p][j] = 0
  <2>1. ASSUME NEW d \in KernelPages, NEW i \in TableNos PROVE tables[d][i] # p
    <3>1. Held(TableAt(d, i)) # p
      BY <1>1, AreRoles
    <3> QED
      BY <3>1, HeldIs
  <2> QED
    BY <2>1 DEF Clean
<1>4. tables[p] = [i \in TableNos |-> tables[p][i]] /\ ptes[p] = [j \in PteNos |-> ptes[p][j]]
  BY DEF SpaceTypeOK
<1> QED
  BY <1>2, <1>3, <1>4 DEF NoTables, NoPages

LEMMA PagedirCreateKeeps ==
  ASSUME SpaceInv, NEW u \in Users, PagedirCreate(u)
  PROVE  SpaceInv'
<1> DEFINE p == palloc_kernel
<1>1. /\ doing[u].at = "create" /\ running = u /\ ptes' = ptes /\ running' = running
      /\ lost' = lost /\ cr3' = cr3
  BY DEF PagedirCreate, IsDoing
<1>2. /\ pagedir[u] = 0 /\ u # Kernel
      /\ doing \in [Users -> Doing] /\ pagedir \in [Users \cup {Kernel} -> KernelPages \cup {0}]
      /\ tables \in [KernelPages -> [TableNos -> KernelPages \cup {0}]]
  BY <1>1, PageNumbers DEF SpaceInv, DirectoriesOK, Without, SpaceTypeOK
<1>3. CASE p = 0
  <2> DEFINE d == [at |-> "null"]
  <2>1. /\ doing' = [doing EXCEPT ![u] = d] /\ free_pages' = free_pages
        /\ tables' = tables /\ pagedir' = pagedir
    BY <1>3 DEF PagedirCreate, GoTo, Go
  <2>2. d \in Doing /\ d.at = "null"
    BY DEF Doing
  <2> HIDE DEF d
  <2>3. Activated'
    BY <1>1, <2>1, <2>2, StaysActive
  <2> QED
    BY <1>1, <2>1, <2>2, <2>3, QuietMove DEF Exiting, Without
<1>4. CASE p # 0
  <2> DEFINE d == [at |-> "activate"]
  <2>1. /\ doing' = [doing EXCEPT ![u] = d] /\ pagedir' = [pagedir EXCEPT ![u] = p]
        /\ tables' = [tables EXCEPT ![p] = NoTables] /\ free_pages' = free_pages \ {p}
    BY <1>4 DEF PagedirCreate, GoTo, Go
  <2>2. p \in free_pages /\ p \in KernelPages
    BY <1>4, PoolPages DEF SpaceInv
  <2>3. d \in Doing /\ d.at = "activate"
    BY DEF Doing
  <2> HIDE DEF d, p
  <2>4. tables' = tables
    BY <1>2, <2>1, <2>2, FreeIsClean
  <2>5. /\ doing'[u] = d /\ \A v \in Users \ {u} : doing'[v] = doing[v]
        /\ pagedir'[u] = p /\ \A v \in Users \ {u} : pagedir'[v] = pagedir[v]
    BY <1>2, <2>1
  <2>6. PagesHeld'
    <3>1. OthersKeep({Dir(u), Dying(u), Local(u), Copied(u)})
      BY <1>1, <2>4, <2>5, OthersHold
    <3>2. /\ Held(Dir(u)) = 0 /\ Held(Dir(u))' = p
          /\ Held(Dying(u)) = 0 /\ Held(Dying(u))' = 0
          /\ Held(Local(u)) = 0 /\ Held(Local(u))' = 0
          /\ Held(Copied(u)) = 0 /\ Held(Copied(u))' = 0
      BY <1>1, <1>2, <2>3, <2>5 DEF Held, Dir, Dying, Local, Copied
    <3>3. OthersKeep({Dir(u)})
      BY <3>1, <3>2 DEF OthersKeep
    <3> QED
      BY <1>1, <2>1, <2>2, <3>2, <3>3, AreRoles, TakesPage DEF SpaceInv
  <2>7. Activated'
    <3>1. cr3 = InitPageDir
      BY <1>1, <1>2 DEF SpaceInv, Activated, ActiveFor, activated
    <3>2. ActiveFor(cr3', pagedir'[u], doing'[u])
      BY <1>1, <2>3, <2>5, <3>1 DEF ActiveFor
    <3> QED
      BY <1>1, <1>2, <3>2 DEF Activated
  <2>8. free_pages' \subseteq AllPages /\ free_pages' \cap lost' = {}
    BY <1>1, <2>1 DEF SpaceInv, SpaceTypeOK, AllPages
  <2>9. \A e \in Own(pagedir[u], doing[u]) \ Own(p, d) : e = 0 \/ tables[e] = NoTables
    BY <1>1, <1>2 DEF Own, Exiting
  <2>10. p # 0 /\ running' \in Users \cup {Kernel}
    BY <1>1, <1>4 DEF p
  <2> QED
    BY <1>1, <2>1, <2>2, <2>3, <2>4, <2>6, <2>7, <2>8, <2>9, <2>10, DirectoryMoves DEF Without
<1> QED
  BY <1>3, <1>4

\* Such a step touches only the roles of u.
LEMMA DirectoryHolds ==
  ASSUME SpaceInv, NEW u \in Users, NEW d, NEW pd,
         doing' = [doing EXCEPT ![u] = d], pagedir' = [pagedir EXCEPT ![u] = pd],
         tables' = tables, ptes' = ptes,
         doing[u].at \notin {"page", "install", "done", "grown"},
         d.at \notin {"page", "install", "done", "grown"}
  PROVE  /\ OthersKeep({Dir(u), Dying(u)})
         /\ Held(Dir(u)) = pagedir[u] /\ Held(Dir(u))' = pd
         /\ Held(Dying(u)) = (IF doing[u].at \in Exiting THEN doing[u].pd ELSE 0)
         /\ Held(Dying(u))' = (IF d.at \in Exiting THEN d.pd ELSE 0)
         /\ doing'[u] = d /\ \A v \in Users \ {u} : doing'[v] = doing[v]
         /\ pagedir'[u] = pd /\ \A v \in Users \ {u} : pagedir'[v] = pagedir[v]
<1>1. /\ doing'[u] = d /\ \A v \in Users \ {u} : doing'[v] = doing[v]
      /\ pagedir'[u] = pd /\ \A v \in Users \ {u} : pagedir'[v] = pagedir[v]
  BY DEF SpaceInv, SpaceTypeOK
<1>2. OthersKeep({Dir(u), Dying(u), Local(u), Copied(u)})
  BY <1>1, OthersHold
<1>3. Held(Local(u))' = Held(Local(u)) /\ Held(Copied(u))' = Held(Copied(u))
  BY <1>1 DEF Held, Local, Copied
<1>4. OthersKeep({Dir(u), Dying(u)})
  BY <1>2, <1>3 DEF OthersKeep
<1>5. Held(Dir(u))' = pd /\ Held(Dying(u))' = (IF d.at \in Exiting THEN d.pd ELSE 0)
  BY <1>1 DEF Held, Dir, Dying, Exiting
<1> QED
  BY <1>1, <1>4, <1>5, HeldIs DEF Exiting

LEMMA ExitNullKeeps ==
  ASSUME SpaceInv, NEW u \in Users, ExitNull(u)
  PROVE  SpaceInv'
<1> DEFINE p == pagedir[u]
<1>1. /\ doing[u].at = "null" /\ running = u
      /\ tables' = tables /\ ptes' = ptes /\ lost' = lost /\ free_pages' = free_pages
      /\ pagedir' = [pagedir EXCEPT ![u] = 0]
  BY DEF ExitNull, IsDoing
<1>2. /\ p \in KernelPages \cup {0} /\ u # Kernel /\ Kernel \notin Users
      /\ free_pages' \subseteq AllPages /\ free_pages' \cap lost' = {}
  BY <1>1, PageNumbers DEF SpaceInv, SpaceTypeOK, AllPages
<1>3. \A e \in Own(p, doing[u]) : e = p
  BY <1>1 DEF Own, Exiting
<1>4. CASE p = 0
  <2> DEFINE d == DoesNothing
  <2>1. doing' = [doing EXCEPT ![u] = d] /\ running' = Kernel /\ cr3' = InitPageDir
    BY <1>4 DEF ExitNull, Go
  <2>2. d \in Doing /\ d.at = "none"
    BY DEF Doing, DoesNothing
  <2> HIDE DEF d
  <2>3. OthersKeep({})
    <3>1. /\ OthersKeep({Dir(u), Dying(u)})
          /\ Held(Dir(u)) = 0 /\ Held(Dir(u))' = 0
          /\ Held(Dying(u)) = 0 /\ Held(Dying(u))' = 0
      BY <1>1, <1>4, <2>1, <2>2, DirectoryHolds DEF Exiting
    <3> QED
      BY <3>1 DEF OthersKeep
  <2>4. PagesHeld'
    BY <1>1, <2>3, KeepsPages DEF SpaceInv
  <2>5. Activated'
    BY <1>2, <2>1 DEF Activated
  <2>6. \A e \in Own(pagedir[u], doing[u]) \ Own(0, d) : e = 0 \/ tables[e] = NoTables
    BY <1>3, <1>4
  <2>7. d.at # "null" => (0 = 0 <=> d.at \in Without)
    BY <2>2 DEF Without
  <2> QED
    BY <1>1, <1>2, <2>1, <2>2, <2>4, <2>5, <2>6, <2>7, DirectoryMoves
<1>5. CASE p # 0
  <2> DEFINE d == [at |-> "base", pd |-> p]
  <2>1. doing' = [doing EXCEPT ![u] = d] /\ running' = running /\ cr3' = cr3
    BY <1>5 DEF ExitNull, Go
  <2>2. d \in Doing /\ d.at = "base" /\ d.pd = p
    BY <1>2, <1>5 DEF Doing
  <2> HIDE DEF d
  <2>3. /\ OthersKeep({Dir(u), Dying(u)})
        /\ Held(Dir(u)) = p /\ Held(Dir(u))' = 0
        /\ Held(Dying(u)) = 0 /\ Held(Dying(u))' = p
        /\ doing'[u] = d /\ pagedir'[u] = 0
    BY <1>1, <2>1, <2>2, DirectoryHolds, ZenonT(60) DEF Exiting
  <2>4. PagesHeld'
    BY <1>1, <1>5, <2>3, AreRoles, PassesPage DEF SpaceInv
  <2>5. Activated'
    <3>1. cr3 = p
      BY <1>1, <1>5 DEF SpaceInv, Activated, ActiveFor, activated
    <3>2. ActiveFor(cr3', pagedir'[u], doing'[u])
      BY <2>1, <2>2, <2>3, <3>1 DEF ActiveFor
    <3> QED
      BY <1>1, <1>2, <2>1, <3>2 DEF Activated
  <2>6. \A e \in Own(pagedir[u], doing[u]) \ Own(0, d) : e = 0 \/ tables[e] = NoTables
    BY <1>3, <2>2 DEF Own, Exiting
  <2>7. d.at # "null" => (0 = 0 <=> d.at \in Without)
    BY <2>2 DEF Without
  <2>8. running' \in Users \cup {Kernel}
    BY <1>1, <2>1
  <2> QED
    BY <1>1, <1>2, <2>1, <2>2, <2>4, <2>5, <2>6, <2>7, <2>8, DirectoryMoves
<1> QED
  BY <1>4, <1>5

LEMMA ExitBaseKeeps ==
  ASSUME SpaceInv, NEW u \in Users, ExitBase(u)
  PROVE  SpaceInv'
<1> DEFINE p == doing[u].pd
<1>1. /\ doing[u].at = "base" /\ running = u
      /\ doing' = [doing EXCEPT ![u] = [doing[u] EXCEPT !.at = "destroy"]]
      /\ tables' = tables /\ ptes' = ptes /\ lost' = lost /\ free_pages' = free_pages
      /\ pagedir' = pagedir /\ running' = running /\ cr3' = InitPageDir
  BY DEF ExitBase, IsDoing, Go
<1>2. /\ doing[u] \in Doing /\ pagedir[u] = 0 /\ p \in KernelPages
      /\ pagedir' = [pagedir EXCEPT ![u] = 0] /\ Kernel \notin Users
      /\ free_pages' \subseteq AllPages /\ free_pages' \cap lost' = {}
  BY <1>1, DoingIs, PageNumbers
     DEF SpaceInv, SpaceTypeOK, AllPages, DirectoriesOK, Without
<1>3. [doing[u] EXCEPT !.at = "destroy"] \in [at : {"destroy"}, pd : {p}]
  <2>1. doing[u] \in [at : {"base", "destroy"}, pd : {p}]
    BY <1>1, <1>2 DEF Doing
  <2> QED
    BY <2>1 DEF Doing
<1>4. PICK d \in Doing : d.at = "destroy" /\ d.pd = p /\ doing' = [doing EXCEPT ![u] = d]
  <2>1. [doing[u] EXCEPT !.at = "destroy"] \in Doing
    BY <1>2, <1>3 DEF Doing
  <2> QED
    BY <1>1, <1>3, <2>1
<1>5. /\ OthersKeep({Dir(u), Dying(u)})
      /\ Held(Dir(u)) = 0 /\ Held(Dir(u))' = 0
      /\ Held(Dying(u)) = p /\ Held(Dying(u))' = p
      /\ doing'[u] = d /\ pagedir'[u] = 0
  <2>1. /\ doing[u].at \notin {"page", "install", "done", "grown"} /\ doing[u].at \in Exiting
        /\ d.at \notin {"page", "install", "done", "grown"} /\ d.at \in Exiting
    BY <1>1, <1>4 DEF Exiting
  <2> HIDE DEF p
  <2>2. doing' = [doing EXCEPT ![u] = d] /\ pagedir' = [pagedir EXCEPT ![u] = 0]
    BY <1>2, <1>4
  <2>3. /\ OthersKeep({Dir(u), Dying(u)})
        /\ Held(Dir(u)) = pagedir[u] /\ Held(Dir(u))' = 0
        /\ Held(Dying(u)) = (IF doing[u].at \in Exiting THEN doing[u].pd ELSE 0)
        /\ Held(Dying(u))' = (IF d.at \in Exiting THEN d.pd ELSE 0)
        /\ doing'[u] = d /\ pagedir'[u] = 0
    <3>1. tables' = tables /\ ptes' = ptes
      BY <1>1
    <3> QED
      BY <2>1, <2>2, <3>1, DirectoryHolds
  <2> QED
    BY <1>2, <1>4, <2>1, <2>3 DEF p
<1>6. PagesHeld'
  <2>1. OthersKeep({})
    BY <1>5 DEF OthersKeep
  <2> QED
    BY <1>1, <2>1, KeepsPages DEF SpaceInv
<1>7. Activated'
  <2>1. ActiveFor(cr3', pagedir'[u], doing'[u])
    BY <1>1, <1>4, <1>5 DEF ActiveFor, activated
  <2> QED
    BY <1>1, <1>2, <2>1 DEF Activated
<1>8. \A e \in Own(pagedir[u], doing[u]) \ Own(0, d) : e = 0 \/ tables[e] = NoTables
  BY <1>1, <1>2, <1>4 DEF Own, Exiting
<1>9. d.at # "null" => (0 = 0 <=> d.at \in Without)
  BY <1>4 DEF Without
<1>10. /\ running' \in Users \cup {Kernel} /\ tables' = tables /\ ptes' = ptes
       /\ d.at \notin {"page", "install", "grown"} /\ doing' = [doing EXCEPT ![u] = d]
  BY <1>1, <1>4
<1> QED
  BY <1>2, <1>6, <1>7, <1>8, <1>9, <1>10, DirectoryMoves

LEMMA DestroyDirectoryKeeps ==
  ASSUME SpaceInv, NEW u \in Users, DestroyDirectory(u)
  PROVE  SpaceInv'
<1> DEFINE p == doing[u].pd
           d == DoesNothing
<1>1. /\ doing[u].at = "destroy" /\ running = u /\ doing' = [doing EXCEPT ![u] = d]
      /\ tables' = tables /\ ptes' = ptes /\ lost' = lost /\ free_pages' = free_pages \cup {p}
      /\ pagedir' = pagedir /\ running' = Kernel /\ cr3' = activated(pagedir[Kernel])
      /\ tables[p] = NoTables
  BY DEF DestroyDirectory, IsDoing, Go
<1>2. /\ pagedir[u] = 0 /\ p \in KernelPages /\ p # 0
      /\ pagedir' = [pagedir EXCEPT ![u] = 0] /\ Kernel \notin Users
  BY <1>1, DoingIs, PageNumbers DEF SpaceInv, SpaceTypeOK, DirectoriesOK, Without
<1>3. d \in Doing /\ d.at = "none"
  BY DEF Doing, DoesNothing
<1> HIDE DEF d
<1>4. /\ OthersKeep({Dir(u), Dying(u)})
      /\ Held(Dir(u)) = 0 /\ Held(Dir(u))' = 0
      /\ Held(Dying(u)) = p /\ Held(Dying(u))' = 0
  BY <1>1, <1>2, <1>3, DirectoryHolds DEF Exiting
<1>5. PagesHeld' /\ p \in AllPages /\ p \notin free_pages \cup lost
  <2>1. OthersKeep({Dying(u)})
    BY <1>4 DEF OthersKeep
  <2> QED
    BY <1>1, <1>2, <1>4, <2>1, AreRoles, GivesPage DEF SpaceInv
<1>6. Activated'
  BY <1>1, <1>2 DEF Activated, activated, SpaceInv, SpaceTypeOK
<1>7. \A e \in Own(pagedir[u], doing[u]) \ Own(0, d) : e = 0 \/ tables[e] = NoTables
  BY <1>1, <1>2 DEF Own, Exiting
<1>8. d.at # "null" => (0 = 0 <=> d.at \in Without)
  BY <1>3 DEF Without
<1>9. free_pages' \subseteq AllPages /\ free_pages' \cap lost' = {}
  BY <1>1, <1>5 DEF SpaceInv, SpaceTypeOK, AllPages
<1> QED
  BY <1>1, <1>2, <1>3, <1>5, <1>6, <1>7, <1>8, <1>9, DirectoryMoves

LEMMA SwitchToKeeps ==
  ASSUME SpaceInv, NEW t \in Users \cup {Kernel}, SwitchTo(t)
  PROVE  SpaceInv'
<1>1. /\ free_pages' = free_pages /\ tables' = tables /\ ptes' = ptes /\ pagedir' = pagedir
      /\ doing' = doing /\ lost' = lost /\ running' = t /\ cr3' = activated(pagedir[t])
  BY DEF SwitchTo
<1>2. SpaceTypeOK' /\ TodoOK' /\ DirectoriesOK' /\ Clean' /\ Missing'
  BY <1>1 DEF SpaceInv, SpaceTypeOK, TodoOK, DirectoriesOK, Clean, Missing, MappedAt, Table
<1>3. PagesHeld'
  <2>1. OthersKeep({})
    BY <1>1 DEF OthersKeep, Held
  <2> QED
    BY <1>1, <2>1, KeepsPages DEF SpaceInv
<1>4. Activated'
  <2>1. t = Kernel => cr3' = InitPageDir
    BY <1>1 DEF SpaceInv, SpaceTypeOK, activated
  <2>2. ASSUME t \in Users PROVE ActiveFor(cr3', pagedir[t], doing[t])
    <3>1. doing[t].at = "activate" => pagedir[t] # 0
      BY <2>2 DEF SpaceInv, DirectoriesOK, Without
    <3>2. doing[t].at = "base" => pagedir[t] = 0
      BY <2>2 DEF SpaceInv, DirectoriesOK, Without
    <3> QED
      BY <1>1, <3>1, <3>2 DEF ActiveFor, activated
  <2> QED
    BY <1>1, <2>1, <2>2 DEF Activated
<1> QED
  BY <1>2, <1>3, <1>4 DEF SpaceInv

----------------------------------------------------------------------------
(* Steps that change page tables *)

LEMMA Places ==
  ASSUME NEW v \in 0..VPages
  PROVE  pd_no(v) \in TableNos /\ pt_no(v) \in PteNos
<1>1. VPages \in Nat /\ TableSize \in Nat /\ TableSize > 0 /\ v \in Nat /\ v <= VPages
  BY AddressSpaceAssumption
<1>2. v % TableSize \in 0..(TableSize - 1)
  BY <1>1, SMTT(30)
<1>3. \A m \in Nat : m \div TableSize \in Nat
  BY <1>1, SMTT(30)
<1>4. v \div TableSize <= VPages \div TableSize
  BY <1>1, SMTT(30)
<1>5. v \div TableSize \in 0..(VPages \div TableSize)
  BY <1>1, <1>3, <1>4
<1> QED
  BY <1>2, <1>5 DEF pd_no, pt_no, TableNos, PteNos

\* What pagedir_set_page of page at v in u's directory changes: the table at its place,
\* now pt, and one entry of pt, which was empty.
Sets(u, d, i, t, j, page) ==
  /\ d = pagedir[u] /\ d \in KernelPages /\ i \in TableNos /\ t \in KernelPages /\ j \in PteNos
  /\ t # 0 /\ tables[d][i] \in {0, t}
  /\ tables[d][i] = 0 => t \in free_pages
  /\ tables' = [tables EXCEPT ![d][i] = t]
  /\ ptes[t][j] = 0 /\ ptes' = [ptes EXCEPT ![t][j] = page]
  /\ free_pages' = free_pages \ {t}

LEMMA SetPageIs ==
  ASSUME SpaceInv, NEW u \in Users, pagedir[u] # 0, NEW v \in 0..VPages, NEW page,
         ~MappedAt(u, v), CanSetPage(u, v), SetPage(u, v, page),
         free_pages' = free_pages \ {tables'[pagedir[u]][pd_no(v)]}
  PROVE  \E d, t \in KernelPages, i \in TableNos, j \in PteNos : Sets(u, d, i, t, j, page)
<1> DEFINE d == pagedir[u]
           i == pd_no(v)
           j == pt_no(v)
           t == IF tables[d][i] # 0 THEN tables[d][i] ELSE palloc_kernel
<1>1. d \in KernelPages /\ i \in TableNos /\ j \in PteNos
  BY Places DEF SpaceInv, SpaceTypeOK
<1>2. t \in KernelPages /\ t # 0 /\ (tables[d][i] = 0 => t \in free_pages)
  BY <1>1, PoolPages, PageNumbers DEF SpaceInv, SpaceTypeOK, CanSetPage, Table
<1>3. ptes[t][j] = 0
  <2>1. CASE tables[d][i] # 0
    BY <2>1 DEF MappedAt, Table
  <2>2. CASE tables[d][i] = 0
    <3>1. ptes[t] = NoPages
      BY <1>2, <2>2, FreeIsClean
    <3> QED
      BY <1>1, <3>1 DEF NoPages
  <2> QED
    BY <2>1, <2>2
<1>4. /\ tables' = [tables EXCEPT ![d][i] = t]
      /\ ptes' = [ptes EXCEPT ![t][j] = page]
  <2> DEFINE old == IF tables[d][i] # 0 THEN ptes[t] ELSE NoPages
  <2>1. /\ tables' = [tables EXCEPT ![d][i] = t]
        /\ ptes' = [ptes EXCEPT ![t] = [old EXCEPT ![j] = page]]
    BY DEF SetPage, Table
  <2>2. old = ptes[t]
    BY <1>2, FreeIsClean
  <2> HIDE DEF old, t, i, j, d
  <2> QED
    BY <2>1, <2>2
<1>5. free_pages' = free_pages \ {t}
  <2>1. tables'[d][i] = t
    BY <1>1, <1>4 DEF SpaceInv, SpaceTypeOK
  <2> QED
    BY <2>1
<1> HIDE DEF t, i, j
<1>6. Sets(u, d, i, t, j, page)
  BY <1>1, <1>2, <1>3, <1>4, <1>5 DEF Sets, t
<1> QED
  BY <1>1, <1>2, <1>6

\* What is where afterwards.
LEMMA SetsIs ==
  ASSUME SpaceInv, NEW u \in Users, NEW d \in KernelPages, NEW t \in KernelPages,
         NEW i \in TableNos, NEW j \in PteNos, NEW page \in UserPages,
         Sets(u, d, i, t, j, page)
  PROVE  /\ tables' \in [KernelPages -> [TableNos -> KernelPages \cup {0}]]
         /\ ptes' \in [KernelPages -> [PteNos -> UserPages \cup {0}]]
         /\ tables'[d][i] = t /\ ptes'[t][j] = page
         /\ \A e \in KernelPages, k \in TableNos :
              e # d \/ k # i => tables'[e][k] = tables[e][k]
         /\ \A e \in KernelPages, k \in PteNos :
              e # t \/ k # j => ptes'[e][k] = ptes[e][k]
<1>1. /\ tables \in [KernelPages -> [TableNos -> KernelPages \cup {0}]]
      /\ ptes \in [KernelPages -> [PteNos -> UserPages \cup {0}]]
      /\ tables' = [tables EXCEPT ![d][i] = t] /\ ptes' = [ptes EXCEPT ![t][j] = page]
  BY DEF SpaceInv, SpaceTypeOK, Sets
<1> QED
  BY <1>1

LEMMA SetPageHolds ==
  ASSUME SpaceInv, NEW u \in Users, NEW d \in KernelPages, NEW t \in KernelPages,
         NEW i \in TableNos, NEW j \in PteNos, NEW page \in UserPages,
         Sets(u, d, i, t, j, page), lost' = lost, pagedir' = pagedir,
         \A w \in Users \ {u} : doing'[w] = doing[w],
         Held(Dying(u))' = Held(Dying(u)), Held(Copied(u))' = Held(Copied(u)),
         Held(Local(u)) = page, Held(Local(u))' = 0
  PROVE  PagesHeld'
<1> DEFINE l == Local(u)
           f == FrameAt(t, j)
           k == TableAt(d, i)
<1>1. l \in Roles /\ f \in Roles /\ k \in Roles /\ l # f /\ l # k /\ f # k
  BY AreRoles, RolesDiffer
<1>2. page # 0 /\ Held(k)' = t /\ Held(f) = 0 /\ Held(f)' = page
  <2>1. tables'[d][i] = t /\ ptes'[t][j] = page /\ ptes[t][j] = 0
    <3>1. tables'[d][i] = t /\ ptes'[t][j] = page
      BY SetsIs
    <3> QED
      BY <3>1 DEF Sets
  <2>2. Held(k)' = tables'[d][i] /\ Held(f)' = ptes'[t][j] /\ Held(f) = ptes[t][j]
    BY DEF Held, TableAt, FrameAt
  <2> QED
    BY <2>1, <2>2, PageNumbers
<1>3. OthersKeep({l, f, k})
  <2> SUFFICES ASSUME NEW r \in Roles, r # l, r # f, r # k PROVE Held(r)' = Held(r)
    BY DEF OthersKeep
  <2>1. CASE \E w \in Users : r \in {Dir(w), Dying(w), Local(w), Copied(w)}
    <3>1. PICK w \in Users : r \in {Dir(w), Dying(w), Local(w), Copied(w)}
      BY <2>1
    <3>2. CASE w = u
      <4>1. Held(Dir(u))' = Held(Dir(u))
        BY DEF Held, Dir
      <4> QED
        BY <3>1, <3>2, <4>1
    <3>3. CASE w # u
      BY <3>1, <3>3 DEF Held, Dir, Dying, Local, Copied
    <3> QED
      BY <3>2, <3>3
  <2>2. CASE \E e \in KernelPages, m \in TableNos : r = TableAt(e, m)
    <3>1. PICK e \in KernelPages, m \in TableNos : r = TableAt(e, m)
      BY <2>2
    <3>2. e # d \/ m # i
      BY <3>1
    <3>3. tables'[e][m] = tables[e][m]
      BY <3>2, SetsIs
    <3> QED
      BY <3>1, <3>3 DEF Held, TableAt
  <2>3. CASE \E e \in KernelPages, m \in PteNos : r = FrameAt(e, m)
    <3>1. PICK e \in KernelPages, m \in PteNos : r = FrameAt(e, m)
      BY <2>3
    <3>2. e # t \/ m # j
      BY <3>1
    <3>3. ptes'[e][m] = ptes[e][m]
      BY <3>2, SetsIs
    <3> QED
      BY <3>1, <3>3 DEF Held, FrameAt
  <2> QED
    BY <2>1, <2>2, <2>3, RoleIs
<1>4. CASE tables[d][i] # 0
  <2>1. Held(k) = t
    BY <1>4, HeldIs DEF Sets
  <2>2. OthersKeep({l, f})
    BY <1>2, <1>3, <2>1 DEF OthersKeep
  <2>3. free_pages' = free_pages
    <3>1. held[k] = t /\ t # 0
      BY <1>1, <2>1 DEF held, Sets
    <3>2. t \notin free_pages
      BY <1>1, <3>1 DEF SpaceInv, PagesHeld, Exact
    <3> QED
      BY <3>2 DEF Sets
  <2> QED
    BY <1>1, <1>2, <2>2, <2>3, PassesPage DEF SpaceInv
<1>5. CASE tables[d][i] = 0
  <2> DEFINE S == AllPages \ (free_pages \cup lost)
             h == held
             g == [h EXCEPT ![k] = t]
  <2>1. t \in AllPages /\ t \notin S /\ t # 0 /\ 0 \notin S /\ Held(k) = 0
    BY <1>5, HeldIs, PageNumbers DEF Sets, AllPages
  <2>2. h = [r \in Roles |-> h[r]] /\ Exact(h, S) /\ h[k] = 0 /\ h[l] = page /\ h[f] = 0
    BY <1>1, <1>2, <2>1 DEF held, SpaceInv, PagesHeld
  <2>3. (AllPages \ (free_pages \cup lost))' = S \cup {t}
    <3>1. t \notin lost
      BY <1>5 DEF Sets, SpaceInv, SpaceTypeOK
    <3> QED
      BY <2>1, <3>1 DEF AllPages, Sets
  <2>4. Exact(g, S \cup {t})
    BY <1>1, <2>1, <2>2, Takes
  <2>5. g = [r \in Roles |-> g[r]] /\ g[l] = page /\ g[f] = 0 /\ g[k] = t
    BY <1>1, <2>2
  <2>6. Exact([g EXCEPT ![l] = 0, ![f] = page], S \cup {t})
    <3> HIDE DEF g, S, h
    <3> QED
      BY <1>1, <1>2, <2>4, <2>5, PassesOn
  <2>7. held' = [g EXCEPT ![l] = 0, ![f] = page]
    <3>1. \A r \in Roles : Held(r)' = IF r = l THEN 0 ELSE IF r = f THEN page
                                      ELSE IF r = k THEN t ELSE h[r]
      BY <1>1, <1>2, <1>3 DEF OthersKeep, held
    <3>2. held' = [r \in Roles |-> IF r = l THEN 0 ELSE IF r = f THEN page
                                   ELSE IF r = k THEN t ELSE h[r]]
      BY <3>1 DEF held
    <3> HIDE DEF h
    <3> QED
      BY <1>1, <2>2, <3>2
  <2> HIDE DEF S, g
  <2> QED
    BY <2>3, <2>6, <2>7 DEF PagesHeld, Exact
<1> QED
  BY <1>4, <1>5

LEMMA SetPageKeeps ==
  ASSUME SpaceInv, NEW u \in Users, NEW d \in KernelPages, NEW t \in KernelPages,
         NEW i \in TableNos, NEW j \in PteNos, NEW page \in UserPages,
         Sets(u, d, i, t, j, page), lost' = lost, pagedir' = pagedir, running' = running,
         cr3' = cr3, NEW e \in Doing, doing' = [doing EXCEPT ![u] = e], TodoFor(e),
         doing[u].at \in {"install", "grown"}, doing[u].page = page, e.at \in {"page", "grow"},
         doing[u].at = "install" <=> e.at = "page", e.at = "page" => e.copy = doing[u].copy
  PROVE  SpaceInv'
<1> USE DEF SpaceInv
<1>1. /\ doing'[u] = e /\ \A w \in Users \ {u} : doing'[w] = doing[w]
      /\ pagedir[u] = d /\ d # 0
  BY PageNumbers DEF SpaceTypeOK, Sets
<1>2. PagesHeld'
  <2>1. /\ Held(Dying(u))' = Held(Dying(u)) /\ Held(Copied(u))' = Held(Copied(u))
        /\ Held(Local(u)) = page /\ Held(Local(u))' = 0
    BY <1>1 DEF Held, Dying, Copied, Local
  <2> QED
    BY <1>1, <2>1, SetPageHolds
<1>3. SpaceTypeOK'
  <2>1. doing' \in [Users -> Doing] /\ free_pages' \subseteq free_pages
    BY DEF SpaceTypeOK, Sets
  <2> QED
    BY <2>1, SetsIs DEF SpaceTypeOK
<1>4. TodoOK' /\ DirectoriesOK'
  BY <1>1 DEF TodoOK, DirectoriesOK, Without
<1>5. Activated'
  BY StaysActive
<1>6. /\ tables'[d][i] = t
      /\ \A b \in KernelPages, k \in TableNos : b # d \/ k # i => tables'[b][k] = tables[b][k]
      /\ \A b \in KernelPages, k \in PteNos : b # t \/ k # j => ptes'[b][k] = ptes[b][k]
  BY SetsIs
<1>7. Clean'
  <2>1. ASSUME NEW b \in KernelPages, NEW k \in TableNos, tables'[b][k] # 0
        PROVE  \E w \in Users : \/ pagedir'[w] = b
                                \/ doing'[w].at \in Exiting /\ doing'[w].pd = b
    <3>1. CASE b = d
      BY <1>1, <3>1
    <3>2. CASE b # d
      <4>1. tables[b][k] # 0
        BY <1>6, <2>1, <3>2
      <4>2. PICK w \in Users : \/ pagedir[w] = b
                               \/ doing[w].at \in Exiting /\ doing[w].pd = b
        BY <4>1 DEF Clean, Exiting
      <4>3. w # u
        BY <1>1, <3>2, <4>2 DEF Exiting
      <4> QED
        BY <1>1, <4>2, <4>3
    <3> QED
      BY <3>1, <3>2
  <2>2. ASSUME NEW b \in KernelPages, NEW k \in PteNos, ptes'[b][k] # 0
        PROVE  \E c \in KernelPages, m \in TableNos : tables'[c][m] = b
    <3>1. CASE b = t
      BY <1>6, <3>1
    <3>2. CASE b # t
      <4>1. ptes[b][k] # 0
        BY <1>6, <2>2, <3>2
      <4>2. PICK c \in KernelPages, m \in TableNos : tables[c][m] = b
        BY <4>1 DEF Clean
      <4>3. c # d \/ m # i
        BY <3>2, <4>2, PageNumbers DEF Sets
      <4> QED
        BY <1>6, <4>2, <4>3
    <3> QED
      BY <3>1, <3>2
  <2> QED
    BY <2>1, <2>2 DEF Clean, Exiting
<1>8. Missing'
  <2> SUFFICES ASSUME NEW w \in Users, doing'[w].at = "grown"
               PROVE  ~MappedAt(w, doing[w].v)'
    BY DEF Missing
  <2> DEFINE c == pagedir[w]
             k == pd_no(doing[w].v)
             n == pt_no(doing[w].v)
  <2>1. w # u /\ doing'[w] = doing[w]
    BY <1>1
  <2>2. c \in KernelPages /\ c # 0 /\ k \in TableNos /\ n \in PteNos
    <3>1. doing[w].v \in 0..VPages
      BY <2>1, DoingIs, AddressSpaceAssumption DEF SpaceTypeOK
    <3>2. c # 0
      BY <2>1 DEF DirectoriesOK, Without
    <3> QED
      BY <3>1, <3>2, Places DEF SpaceTypeOK
  <2>3. ~(tables[c][k] # 0 /\ ptes[tables[c][k]][n] # 0)
    BY <2>1 DEF Missing, MappedAt, Table
  <2>4. c # d
    <3>1. held[Dir(w)] = c /\ held[Dir(u)] = d /\ Dir(w) # Dir(u)
      BY <1>1, <2>1, AreRoles, RolesDiffer, HeldIs DEF held
    <3> QED
      BY <2>2, <3>1, AreRoles DEF PagesHeld, Exact
  <2>5. tables'[c][k] = tables[c][k]
    BY <1>6, <2>2, <2>4
  <2>6. tables'[c][k] # 0 => tables'[c][k] # t
    <3>1. /\ held'[TableAt(c, k)] = tables'[c][k] /\ held'[TableAt(d, i)] = t
          /\ TableAt(c, k) # TableAt(d, i)
      <4>1. TableAt(c, k) \in Roles /\ TableAt(d, i) \in Roles /\ TableAt(c, k) # TableAt(d, i)
        BY <2>2, <2>4, AreRoles, RolesDiffer
      <4>2. Held(TableAt(c, k))' = tables'[c][k] /\ Held(TableAt(d, i))' = tables'[d][i]
        BY <2>1 DEF Held, TableAt
      <4>3. /\ held'[TableAt(c, k)] = Held(TableAt(c, k))'
            /\ held'[TableAt(d, i)] = Held(TableAt(d, i))'
        BY <2>1, <4>1 DEF held
      <4> QED
        BY <1>6, <4>1, <4>2, <4>3
    <3> QED
      BY <1>2, <2>2, <3>1, AreRoles DEF PagesHeld, Exact
  <2>7. ~(tables'[c][k] # 0 /\ ptes'[tables'[c][k]][n] # 0)
    BY <1>6, <2>2, <2>3, <2>5, <2>6 DEF SpaceTypeOK
  <2> QED
    BY <2>1, <2>7 DEF MappedAt, Table
<1> QED
  BY <1>2, <1>3, <1>4, <1>5, <1>7, <1>8

LEMMA InstallPageKeeps ==
  ASSUME SpaceInv, NEW u \in Users, InstallPage(u)
  PROVE  SpaceInv'
<1> DEFINE v == Head(doing[u].todo)
           page == doing[u].page
           copy == doing[u].copy
<1>1. /\ doing[u].at = "install" /\ running = u
      /\ lost' = lost /\ pagedir' = pagedir /\ running' = running /\ cr3' = cr3
  BY DEF InstallPage, IsDoing
<1>2. /\ doing[u] \in Doing /\ copy \in KernelPages /\ doing[u].todo \in Seq(Nat)
      /\ page \in UserPages /\ page # 0 /\ copy # 0 /\ pagedir[u] # 0
      /\ TodoFor(doing[u]) /\ doing[u].todo # <<>> /\ v \in 0..VPages
  BY <1>1, DoingIs, PageNumbers
     DEF SpaceInv, SpaceTypeOK, DirectoriesOK, Without, TodoOK, TodoFor
<1>3. CASE ~MappedAt(u, v) /\ CanSetPage(u, v)
  <2> DEFINE todo == Tail(doing[u].todo)
             e == [at |-> "page", copy |-> copy, todo |-> todo]
  <2>1. /\ SetPage(u, v, page) /\ doing' = [doing EXCEPT ![u] = e]
        /\ free_pages' = free_pages \ {tables'[pagedir[u]][pd_no(v)]}
    BY <1>3 DEF InstallPage, Go
  <2>2. PICK d \in KernelPages, t \in KernelPages, i \in TableNos, j \in PteNos :
               Sets(u, d, i, t, j, page)
    <3> HIDE DEF page, v, e
    <3> QED
      BY <1>2, <1>3, <2>1, SetPageIs
  <2>3. todo \in Seq(Nat) /\ (todo # <<>> => todo[Len(todo)] = VPages)
    <3>1. doing[u].todo[Len(doing[u].todo)] = VPages
      BY <1>1, <1>2 DEF TodoFor
    <3> QED
      BY <1>2, <3>1
  <2> HIDE DEF todo
  <2>4. e \in Doing /\ e.at = "page" /\ e.copy = copy /\ e.todo = todo
    BY <1>2, <2>3 DEF Doing
  <2> HIDE DEF e
  <2>5. TodoFor(e)
    BY <2>3, <2>4 DEF TodoFor
  <2> QED
    BY <1>1, <1>2, <2>1, <2>2, <2>4, <2>5, SetPageKeeps
<1>4. CASE ~(~MappedAt(u, v) /\ CanSetPage(u, v))
  <2> DEFINE e == [at |-> "done", copy |-> copy, ok |-> FALSE]
  <2>1. /\ doing' = [doing EXCEPT ![u] = e] /\ tables' = tables /\ ptes' = ptes
        /\ free_pages' = free_pages \cup {page}
    BY <1>4 DEF InstallPage, Go
  <2>2. e \in Doing /\ e.at = "done" /\ e.copy = copy
    BY <1>2 DEF Doing
  <2> HIDE DEF e
  <2>3. PagesHeld' /\ page \in AllPages /\ page \notin free_pages \cup lost
    <3>1. /\ OthersKeep({Local(u), Copied(u)})
          /\ Held(Local(u)) = page /\ Held(Local(u))' = 0
          /\ Held(Copied(u)) = copy /\ Held(Copied(u))' = copy
      BY <1>1, <2>1, <2>2, ProcessHolds DEF Exiting
    <3>2. OthersKeep({Local(u)})
      BY <3>1 DEF OthersKeep
    <3> QED
      BY <1>1, <1>2, <2>1, <3>1, <3>2, AreRoles, GivesPage DEF SpaceInv
  <2>4. Activated'
    BY <1>1, <2>1, <2>2, StaysActive
  <2>5. free_pages' \subseteq AllPages /\ free_pages' \cap lost' = {}
    BY <1>1, <2>1, <2>3 DEF SpaceInv, SpaceTypeOK, AllPages
  <2>6. TodoFor(e)
    BY <2>2 DEF TodoFor
  <2> QED
    BY <1>1, <1>2, <2>1, <2>2, <2>3, <2>4, <2>5, <2>6, ProcessMoves DEF Exiting, Without
<1> QED
  BY <1>3, <1>4

LEMMA GrowInstallKeeps ==
  ASSUME SpaceInv, NEW u \in Users, GrowInstall(u)
  PROVE  SpaceInv'
<1> DEFINE v == doing[u].v
           page == doing[u].page
<1>1. /\ doing[u].at = "grown" /\ running = u
      /\ pagedir' = pagedir /\ running' = running /\ cr3' = cr3
  BY DEF GrowInstall, IsDoing
<1>2. /\ doing[u] \in Doing /\ page \in UserPages /\ page # 0 /\ pagedir[u] # 0
      /\ v \in 1..VPages /\ v \in 0..VPages /\ VPages \in Nat /\ ~MappedAt(u, v)
  BY <1>1, DoingIs, PageNumbers, AddressSpaceAssumption
     DEF SpaceInv, SpaceTypeOK, DirectoriesOK, Without, Missing
<1>3. CASE CanSetPage(u, v)
  <2> DEFINE e == [at |-> "grow", v |-> v + 1]
  <2>1. /\ SetPage(u, v, page) /\ doing' = [doing EXCEPT ![u] = e] /\ lost' = lost
        /\ free_pages' = free_pages \ {tables'[pagedir[u]][pd_no(v)]}
    BY <1>3 DEF GrowInstall, Go
  <2>2. PICK d \in KernelPages, t \in KernelPages, i \in TableNos, j \in PteNos :
               Sets(u, d, i, t, j, page)
    <3> HIDE DEF page, v, e
    <3> QED
      BY <1>2, <1>3, <2>1, SetPageIs
  <2>3. v < VPages
    BY <1>1, <1>2, DoingIs
  <2>4. e \in Doing /\ e.at = "grow"
    <3>1. v + 1 \in 1..VPages
      BY <1>2, <2>3
    <3> QED
      BY <3>1 DEF Doing
  <2> HIDE DEF e
  <2>5. TodoFor(e)
    BY <2>4 DEF TodoFor
  <2> QED
    BY <1>1, <1>2, <2>1, <2>2, <2>4, <2>5, SetPageKeeps
<1>4. CASE ~CanSetPage(u, v)
  <2> DEFINE e == [at |-> "null"]
  <2>1. /\ doing' = [doing EXCEPT ![u] = e] /\ tables' = tables /\ ptes' = ptes
        /\ free_pages' = free_pages /\ lost' = lost \cup {page}
    BY <1>4 DEF GrowInstall, GoTo, Go
  <2>2. e \in Doing /\ e.at = "null"
    BY <1>2 DEF Doing
  <2> HIDE DEF e
  <2>3. PagesHeld' /\ page \in AllPages /\ page \notin free_pages \cup lost
    <3>1. /\ OthersKeep({Local(u), Copied(u)})
          /\ Held(Local(u)) = page /\ Held(Local(u))' = 0
          /\ Held(Copied(u)) = 0 /\ Held(Copied(u))' = 0
      BY <1>1, <2>1, <2>2, ProcessHolds DEF Exiting
    <3>2. OthersKeep({Local(u)})
      BY <3>1 DEF OthersKeep
    <3> QED
      BY <1>1, <1>2, <2>1, <3>1, <3>2, AreRoles, GivesPage DEF SpaceInv
  <2>4. Activated'
    BY <1>1, <2>1, <2>2, StaysActive
  <2>5. free_pages' \subseteq AllPages /\ free_pages' \cap lost' = {}
    BY <1>1, <2>1, <2>3 DEF SpaceInv, SpaceTypeOK, AllPages
  <2>6. TodoFor(e)
    BY <2>2 DEF TodoFor
  <2> QED
    BY <1>1, <1>2, <2>1, <2>2, <2>3, <2>4, <2>5, <2>6, ProcessMoves DEF Exiting, Without
<1> QED
  BY <1>3, <1>4

\* A step that only takes entries away.
LEMMA EntriesGo ==
  ASSUME SpaceInv, pagedir' = pagedir, doing' = doing, running' = running, cr3' = cr3,
         tables' \in [KernelPages -> [TableNos -> KernelPages \cup {0}]],
         ptes' \in [KernelPages -> [PteNos -> UserPages \cup {0}]],
         \A d \in KernelPages, i \in TableNos : tables'[d][i] \in {0, tables[d][i]},
         \A t \in KernelPages, j \in PteNos : ptes'[t][j] \in {0, ptes[t][j]},
         \A t \in KernelPages, j \in PteNos : ptes'[t][j] # 0 =>
           \E d \in KernelPages, i \in TableNos : tables'[d][i] = t,
         free_pages' \subseteq AllPages, free_pages' \cap lost' = {}, PagesHeld'
  PROVE  SpaceInv'
<1> USE DEF SpaceInv
<1>1. SpaceTypeOK' /\ TodoOK' /\ DirectoriesOK' /\ Activated'
  BY DEF SpaceTypeOK, AllPages, TodoOK, DirectoriesOK, Activated
<1>2. Clean'
  <2>1. ASSUME NEW d \in KernelPages, NEW i \in TableNos, tables'[d][i] # 0
        PROVE  \E u \in Users : \/ pagedir[u] = d
                                \/ doing[u].at \in {"base", "destroy"} /\ doing[u].pd = d
    <3>1. tables[d][i] # 0
      BY <2>1
    <3> QED
      BY <3>1 DEF Clean
  <2> QED
    BY <2>1 DEF Clean
<1>3. Missing'
  <2> SUFFICES ASSUME NEW u \in Users, doing[u].at = "grown"
               PROVE  ~MappedAt(u, doing[u].v)'
    BY DEF Missing
  <2> DEFINE c == pagedir[u]
             k == pd_no(doing[u].v)
             n == pt_no(doing[u].v)
  <2>1. c \in KernelPages /\ k \in TableNos /\ n \in PteNos
    <3>1. doing[u].v \in 0..VPages
      BY DoingIs, AddressSpaceAssumption DEF SpaceTypeOK
    <3>2. c # 0
      BY DEF DirectoriesOK, Without
    <3> QED
      BY <3>1, <3>2, Places DEF SpaceTypeOK
  <2>2. ~(tables[c][k] # 0 /\ ptes[tables[c][k]][n] # 0)
    BY DEF Missing, MappedAt, Table
  <2>3. ~(tables'[c][k] # 0 /\ ptes'[tables'[c][k]][n] # 0)
    BY <2>1, <2>2 DEF SpaceTypeOK
  <2> QED
    BY <2>3 DEF MappedAt, Table
<1> QED
  BY <1>1, <1>2, <1>3

LEMMA DestroyTableKeeps ==
  ASSUME SpaceInv, NEW u \in Users, DestroyTable(u)
  PROVE  SpaceInv'
<1> DEFINE p == doing[u].pd
<1>1. /\ doing[u].at = "destroy" /\ running = u
      /\ pagedir' = pagedir /\ doing' = doing /\ running' = running /\ cr3' = cr3
      /\ lost' = lost
  BY DEF DestroyTable, IsDoing
<1>2. /\ p \in KernelPages
      /\ tables \in [KernelPages -> [TableNos -> KernelPages \cup {0}]]
      /\ ptes \in [KernelPages -> [PteNos -> UserPages \cup {0}]]
      /\ free_pages \subseteq AllPages /\ free_pages \cap lost = {}
  BY <1>1, DoingIs, SMTT(30) DEF SpaceInv, SpaceTypeOK, AllPages
<1>3. PICK i \in TableNos :
        LET pt == tables[p][i]
            pages == {ptes[pt][j] : j \in PteNos} \ {0}
        IN /\ pt # 0
           /\ IF pages = {}
              THEN /\ free_pages' = free_pages \cup {pt}
                   /\ tables' = [tables EXCEPT ![p][i] = 0]
                   /\ ptes' = ptes
              ELSE LET j == CHOOSE j \in PteNos :
                              ptes[pt][j] # 0 /\ \A k \in PteNos : k < j => ptes[pt][k] = 0
                   IN /\ free_pages' = free_pages \cup {ptes[pt][j]}
                      /\ ptes' = [ptes EXCEPT ![pt][j] = 0]
                      /\ tables' = tables
  BY DEF DestroyTable
<1> DEFINE pt == tables[p][i]
           pages == {ptes[pt][j] : j \in PteNos} \ {0}
<1>4. pt \in KernelPages /\ pt # 0
  <2>1. pt # 0
    BY <1>3
  <2> QED
    BY <1>2, <2>1, SMTT(30)
<1>5. CASE pages = {}
  <2>1. /\ free_pages' = free_pages \cup {pt} /\ ptes' = ptes
        /\ tables' = [tables EXCEPT ![p][i] = 0]
    BY <1>3, <1>5
  <2>2. \A j \in PteNos : ptes[pt][j] = 0
    BY <1>5
  <2> HIDE DEF p, pages
  <2>3. /\ tables' \in [KernelPages -> [TableNos -> KernelPages \cup {0}]]
        /\ tables'[p][i] = 0
        /\ \A d \in KernelPages, m \in TableNos :
             d # p \/ m # i => tables'[d][m] = tables[d][m]
    BY <1>2, <2>1
  <2>4. \A d \in KernelPages, m \in TableNos : tables'[d][m] \in {0, tables[d][m]}
    BY <2>3
  <2>5. ASSUME NEW t \in KernelPages, NEW j \in PteNos, ptes'[t][j] # 0
        PROVE  \E d \in KernelPages, m \in TableNos : tables'[d][m] = t
    <3>1. PICK d \in KernelPages, m \in TableNos : tables[d][m] = t
      BY <2>1, <2>5 DEF SpaceInv, Clean
    <3>2. t # pt
      BY <2>1, <2>2, <2>5
    <3>3. tables'[d][m] = t
      BY <2>3, <3>1, <3>2
    <3> QED
      BY <3>3
  <2>6. PagesHeld' /\ pt \in AllPages /\ pt \notin free_pages \cup lost
    <3>1. PICK a \in KernelPages, c \in KernelPages : a = p /\ c = pt
      BY <1>2, <1>4
    <3>2. /\ Held(TableAt(a, i)) = tables[a][i] /\ Held(TableAt(a, i))' = tables'[a][i]
          /\ TableAt(a, i) \in Roles
      BY AreRoles DEF Held, TableAt
    <3>3. OthersKeep({TableAt(a, i)})
      <4> SUFFICES ASSUME NEW r \in Roles, r # TableAt(a, i) PROVE Held(r)' = Held(r)
        BY DEF OthersKeep
      <4>1. CASE \E d \in KernelPages, m \in TableNos : r = TableAt(d, m)
        <5>1. PICK d \in KernelPages, m \in TableNos : r = TableAt(d, m)
          BY <4>1
        <5>2. tables'[d][m] = tables[d][m]
          BY <2>3, <3>1, <5>1
        <5> QED
          BY <5>1, <5>2 DEF Held, TableAt
      <4>2. CASE \E w \in Users : r \in {Dir(w), Dying(w), Local(w), Copied(w)}
        BY <1>1, <4>2 DEF Held, Dir, Dying, Local, Copied
      <4>3. CASE \E t \in KernelPages, j \in PteNos : r = FrameAt(t, j)
        BY <2>1, <4>3 DEF Held, FrameAt
      <4> QED
        BY <4>1, <4>2, <4>3, RoleIs
    <3>4. Held(TableAt(a, i)) = c /\ Held(TableAt(a, i))' = 0 /\ c # 0
      BY <1>4, <2>3, <3>1, <3>2
    <3>5. free_pages' = free_pages \cup {c} /\ lost' = lost
      BY <1>1, <2>1, <3>1
    <3>6. PagesHeld' /\ c \in AllPages /\ c \notin free_pages \cup lost
      BY <3>2, <3>3, <3>4, <3>5, GivesPage DEF SpaceInv
    <3> QED
      BY <3>1, <3>6
  <2>7. free_pages' \subseteq AllPages /\ free_pages' \cap lost' = {}
    BY <1>1, <1>2, <2>1, <2>6
  <2> QED
    BY <1>1, <1>2, <2>1, <2>3, <2>4, <2>5, <2>6, <2>7, EntriesGo
<1>6. CASE pages # {}
  <2> DEFINE J == {j \in PteNos : ptes[pt][j] # 0}
             j == CHOOSE j \in PteNos :
                    ptes[pt][j] # 0 /\ \A k \in PteNos : k < j => ptes[pt][k] = 0
             fr == ptes[pt][j]
  <2>1. /\ free_pages' = free_pages \cup {fr} /\ tables' = tables
        /\ ptes' = [ptes EXCEPT ![pt][j] = 0]
    BY <1>3, <1>6
  <2>2. j \in PteNos /\ ptes[pt][j] # 0
    <3>1. J # {} /\ J \in SUBSET Nat /\ PteNos \subseteq Nat
      BY <1>6 DEF PteNos
    <3>2. PICK k \in J : \A m \in J : k <= m
      BY <3>1, SmallestPage
    <3>3. k \in PteNos /\ ptes[pt][k] # 0 /\ \A m \in PteNos : m < k => ptes[pt][m] = 0
      <4>1. ASSUME NEW m \in PteNos, m < k PROVE m \notin J
        BY <3>1, <3>2, <4>1
      <4> QED
        BY <4>1
    <3> QED
      BY <3>3
  <2>3. fr \in AllPages /\ fr # 0
    <3> HIDE DEF p, pt, j, pages
    <3> QED
      BY <1>2, <1>4, <2>2 DEF AllPages
  <2> HIDE DEF p, pt, j, pages
  <2>4. /\ ptes' \in [KernelPages -> [PteNos -> UserPages \cup {0}]]
        /\ ptes'[pt][j] = 0
        /\ \A t \in KernelPages, m \in PteNos :
             t # pt \/ m # j => ptes'[t][m] = ptes[t][m]
    BY <1>2, <1>4, <2>1, <2>2
  <2>5. \A t \in KernelPages, m \in PteNos : ptes'[t][m] \in {0, ptes[t][m]}
    BY <2>4
  <2>6. ASSUME NEW t \in KernelPages, NEW m \in PteNos, ptes'[t][m] # 0
        PROVE  \E d \in KernelPages, n \in TableNos : tables'[d][n] = t
    <3>1. ptes[t][m] # 0
      BY <2>5, <2>6
    <3> QED
      BY <2>1, <3>1 DEF SpaceInv, Clean
  <2>7. PagesHeld' /\ fr \in AllPages /\ fr \notin free_pages \cup lost
    <3>1. PICK a \in KernelPages, b \in PteNos : a = pt /\ b = j
      BY <1>4, <2>2
    <3>2. /\ Held(FrameAt(a, b)) = ptes[a][b] /\ Held(FrameAt(a, b))' = ptes'[a][b]
          /\ FrameAt(a, b) \in Roles
      BY AreRoles DEF Held, FrameAt
    <3>3. OthersKeep({FrameAt(a, b)})
      <4> SUFFICES ASSUME NEW r \in Roles, r # FrameAt(a, b) PROVE Held(r)' = Held(r)
        BY DEF OthersKeep
      <4>1. CASE \E t \in KernelPages, m \in PteNos : r = FrameAt(t, m)
        <5>1. PICK t \in KernelPages, m \in PteNos : r = FrameAt(t, m)
          BY <4>1
        <5>2. ptes'[t][m] = ptes[t][m]
          BY <2>4, <3>1, <5>1
        <5> QED
          BY <5>1, <5>2 DEF Held, FrameAt
      <4>2. CASE \E w \in Users : r \in {Dir(w), Dying(w), Local(w), Copied(w)}
        BY <1>1, <4>2 DEF Held, Dir, Dying, Local, Copied
      <4>3. CASE \E d \in KernelPages, m \in TableNos : r = TableAt(d, m)
        BY <2>1, <4>3 DEF Held, TableAt
      <4> QED
        BY <4>1, <4>2, <4>3, RoleIs
    <3>4. Held(FrameAt(a, b)) = fr /\ Held(FrameAt(a, b))' = 0
      BY <2>4, <3>1, <3>2
    <3> QED
      BY <1>1, <2>1, <2>3, <3>2, <3>3, <3>4, GivesPage DEF SpaceInv
  <2>8. free_pages' \subseteq AllPages /\ free_pages' \cap lost' = {}
    BY <1>1, <1>2, <2>1, <2>7
  <2>9. tables' \in [KernelPages -> [TableNos -> KernelPages \cup {0}]]
        /\ \A d \in KernelPages, m \in TableNos : tables'[d][m] \in {0, tables[d][m]}
    BY <1>2, <2>1
  <2> QED
    BY <1>1, <2>4, <2>5, <2>6, <2>7, <2>8, <2>9, EntriesGo, SMTT(30)
<1> QED
  BY <1>5, <1>6, SMTT(30)

----------------------------------------------------------------------------
(* The invariant, and what follows from it *)

LEMMA SpaceInitOK == SpaceInit => SpaceInv
<1> SUFFICES ASSUME SpaceInit PROVE SpaceInv
  OBVIOUS
<1>1. /\ free_pages = AllPages \ lost /\ running = Kernel /\ cr3 = InitPageDir
      /\ tables = [p \in KernelPages |-> NoTables] /\ ptes = [p \in KernelPages |-> NoPages]
      /\ pagedir = [t \in Users \cup {Kernel} |-> 0]
      /\ doing = [u \in Users |-> DoesNothing]
  BY DEF SpaceInit, AllPages
<1>2. DoesNothing \in Doing /\ DoesNothing.at = "none"
  BY DEF DoesNothing, Doing
<1>3. /\ NoTables \in [TableNos -> KernelPages \cup {0}] /\ \A i \in TableNos : NoTables[i] = 0
      /\ NoPages \in [PteNos -> UserPages \cup {0}] /\ \A j \in PteNos : NoPages[j] = 0
  BY DEF NoTables, NoPages
<1>4. SpaceTypeOK
  BY <1>1, <1>2, <1>3 DEF SpaceTypeOK, AllPages
<1>5. TodoOK /\ DirectoriesOK /\ Clean /\ Missing /\ Activated
  BY <1>1, <1>2, <1>3, PageNumbers
     DEF TodoOK, TodoFor, DirectoriesOK, Without, Clean, Missing, Activated
<1>6. PagesHeld
  <2>1. ASSUME NEW r \in Roles PROVE Held(r) = 0
    <3>1. CASE \E u \in Users : r \in {Dir(u), Dying(u), Local(u), Copied(u)}
      <4>1. PICK u \in Users : r \in {Dir(u), Dying(u), Local(u), Copied(u)}
        BY <3>1
      <4>2. pagedir[u] = 0 /\ doing[u].at = "none"
        BY <1>1, <1>2
      <4> QED
        BY <4>1, <4>2, HeldIs
    <3>2. CASE \E d \in KernelPages, i \in TableNos : r = TableAt(d, i)
      BY <1>1, <1>3, <3>2, HeldIs
    <3>3. CASE \E t \in KernelPages, j \in PteNos : r = FrameAt(t, j)
      BY <1>1, <1>3, <3>3, HeldIs
    <3> QED
      BY <3>1, <3>2, <3>3, RoleIs
  <2>2. \A r \in Roles : held[r] = 0
    BY <2>1 DEF held
  <2>3. AllPages \ (free_pages \cup lost) = {}
    BY <1>1
  <2> QED
    BY <2>2, <2>3 DEF PagesHeld, Exact
<1> QED
  BY <1>4, <1>5, <1>6 DEF SpaceInv

LEMMA SpaceStutters ==
  ASSUME SpaceInv, UNCHANGED spaceVars
  PROVE  SpaceInv'
<1>1. /\ free_pages' = free_pages /\ tables' = tables /\ ptes' = ptes /\ pagedir' = pagedir
      /\ doing' = doing /\ lost' = lost /\ running' = running /\ cr3' = cr3
  BY DEF spaceVars
<1>2. OthersKeep({})
  BY <1>1 DEF OthersKeep, Held
<1>3. PagesHeld'
  BY <1>1, <1>2, KeepsPages DEF SpaceInv
<1>4. SpaceTypeOK' /\ TodoOK' /\ DirectoriesOK' /\ Clean' /\ Missing' /\ Activated'
  BY <1>1 DEF SpaceInv, SpaceTypeOK, TodoOK, DirectoriesOK, Clean, Missing, MappedAt, Table,
              Activated
<1> QED
  BY <1>3, <1>4 DEF SpaceInv

LEMMA SpaceKeeps == SpaceInv /\ [SpaceNext]_spaceVars => SpaceInv'
<1> SUFFICES ASSUME SpaceInv, [SpaceNext]_spaceVars PROVE SpaceInv'
  OBVIOUS
<1>1. ASSUME NEW t \in Users \cup {Kernel}, SwitchTo(t) PROVE SpaceInv'
  BY <1>1, SwitchToKeeps
<1>2. ASSUME NEW u \in Users, SpaceStep(u) PROVE SpaceInv'
  BY <1>2, NewProcessKeeps, PagedirCreateKeeps, LoadActivateKeeps, LoadCopyKeeps,
     LoadPageKeeps, SetupStackKeeps, InstallPageKeeps, LoadDoneKeeps, StackFaultKeeps,
     GrowStackKeeps, GrowInstallKeeps, ExitsKeeps, ExitNullKeeps, ExitBaseKeeps,
     DestroyTableKeeps, DestroyDirectoryKeeps DEF SpaceStep
<1> QED
  BY <1>1, <1>2, SpaceStutters DEF SpaceNext

THEOREM SpaceInvariant == SpaceSpec => []SpaceInv
BY SpaceInitOK, SpaceKeeps, PTL DEF SpaceSpec

\* What a process' directories are held as.
LEMMA DirectoriesHeld ==
  ASSUME SpaceInv
  PROVE  /\ \A u \in Users : pagedir[u] # 0 => pagedir[u] \in KernelPages \ free_pages
         /\ \A u \in Users : doing[u].at \in Exiting =>
              /\ doing[u].pd \in KernelPages \ free_pages
              /\ \A w \in Users : pagedir[w] # doing[u].pd
              /\ \A w \in Users : doing[w].at \in Exiting /\ doing[w].pd = doing[u].pd => w = u
<1>1. \A r, q \in Roles : held[r] = held[q] /\ held[r] # 0 => r = q
  BY DEF SpaceInv, PagesHeld, Exact
<1>2. \A r \in Roles : held[r] # 0 => held[r] \notin free_pages
  BY DEF SpaceInv, PagesHeld, Exact
<1>3. \A u \in Users : /\ held[Dir(u)] = pagedir[u]
                       /\ doing[u].at \in Exiting => held[Dying(u)] = doing[u].pd
  BY AreRoles, HeldIs DEF held, Exiting
<1>4. \A u \in Users : doing[u].at \in Exiting => doing[u].pd \in KernelPages /\ doing[u].pd # 0
  BY DoingIs, PageNumbers DEF SpaceInv, SpaceTypeOK, Exiting
<1>5. \A u \in Users : pagedir[u] \in KernelPages \cup {0}
  BY DEF SpaceInv, SpaceTypeOK
<1>6. \A u, w \in Users : /\ Dir(u) \in Roles /\ Dying(w) \in Roles /\ Dir(u) # Dying(w)
                          /\ Dying(u) = Dying(w) => u = w
  BY AreRoles, RolesDiffer
<1>7. ASSUME NEW u \in Users, pagedir[u] # 0 PROVE pagedir[u] \in KernelPages \ free_pages
  BY <1>2, <1>3, <1>5, <1>6, <1>7
<1>8. ASSUME NEW u \in Users, doing[u].at \in Exiting
      PROVE  /\ doing[u].pd \in KernelPages \ free_pages
             /\ \A w \in Users : pagedir[w] # doing[u].pd
             /\ \A w \in Users : doing[w].at \in Exiting /\ doing[w].pd = doing[u].pd => w = u
  <2>1. doing[u].pd \in KernelPages \ free_pages
    BY <1>2, <1>3, <1>4, <1>6, <1>8
  <2>2. ASSUME NEW w \in Users PROVE pagedir[w] # doing[u].pd
    BY <1>1, <1>3, <1>4, <1>6, <1>8
  <2>3. ASSUME NEW w \in Users, doing[w].at \in Exiting, doing[w].pd = doing[u].pd PROVE w = u
    BY <1>1, <1>3, <1>4, <1>6, <1>8, <2>3
  <2> QED
    BY <2>1, <2>2, <2>3
<1> QED
  BY <1>7, <1>8

\* The active page directory is never free and never one that is being destroyed: the
\* order of process_exit and of the switches (process.c:157).
THEOREM DirectoriesLive == SpaceSpec => []DirectoryAlive
<1>1. SpaceInv => DirectoryAlive
  <2> SUFFICES ASSUME SpaceInv PROVE DirectoryAlive
    OBVIOUS
  <2>1. free_pages \subseteq AllPages /\ InitPageDir \notin AllPages
    BY PageNumbers DEF SpaceInv, SpaceTypeOK, AllPages
  <2>2. CASE running = Kernel
    <3>1. cr3 = InitPageDir /\ Kernel \notin Users
      BY <2>2, PageNumbers DEF SpaceInv, Activated
    <3>2. \A u \in Users : doing[u].at = "destroy" => doing[u].pd \in AllPages
      BY DirectoriesHeld DEF Exiting, AllPages
    <3> QED
      BY <2>1, <2>2, <3>1, <3>2 DEF DirectoryAlive
  <2>3. CASE running # Kernel
    <3> DEFINE u == running
    <3>1. u \in Users /\ ActiveFor(cr3, pagedir[u], doing[u])
      BY <2>3 DEF SpaceInv, SpaceTypeOK, Activated
    <3>2. doing[u].at = "activate" => pagedir[u] # 0
      BY <3>1 DEF SpaceInv, DirectoriesOK, Without
    <3>3. \/ cr3 = InitPageDir
          \/ cr3 = pagedir[u] /\ pagedir[u] # 0
          \/ cr3 = doing[u].pd /\ doing[u].at = "base"
      BY <3>1, <3>2 DEF ActiveFor, activated
    <3>4. cr3 \notin free_pages
      BY <2>1, <3>1, <3>3, DirectoriesHeld DEF Exiting
    <3>5. ASSUME NEW w \in Users, doing[w].at = "destroy" PROVE cr3 # doing[w].pd
      <4>1. doing[w].pd \in AllPages
        BY <3>5, DirectoriesHeld DEF Exiting, AllPages
      <4> QED
        BY <2>1, <3>1, <3>3, <3>5, <4>1, DirectoriesHeld DEF Exiting
    <3>6. ASSUME doing[u].at = "user" PROVE cr3 = pagedir[u] /\ cr3 # InitPageDir
      <4>1. pagedir[u] # 0
        BY <3>1, <3>6 DEF SpaceInv, DirectoriesOK, Without
      <4>2. pagedir[u] \in AllPages
        BY <3>1, <4>1, DirectoriesHeld DEF AllPages
      <4> QED
        BY <2>1, <3>1, <3>6, <4>1, <4>2 DEF ActiveFor, activated
    <3> QED
      BY <3>4, <3>5, <3>6 DEF DirectoryAlive
  <2> QED
    BY <2>2, <2>3
<1> QED
  BY <1>1, SpaceInvariant, PTL

\* Every page of the pools is free, or forgotten by the fault handler, or has one
\* holder in one address space; no failed load and no exit loses one.
THEOREM PagesAreApart == SpaceSpec => []SpacesDisjoint
<1>1. SpaceInv => SpacesDisjoint
  <2> SUFFICES ASSUME SpaceInv PROVE SpacesDisjoint
    OBVIOUS
  <2>1. ASSUME NEW r \in Roles PROVE PageHeld(r) = held[r]
    <3>0. held[r] = Held(r)
      BY DEF held
    <3>1. CASE \E u \in Users : r \in {Dir(u), Dying(u), Local(u), Copied(u)}
      BY <3>0, <3>1 DEF PageHeld, Held, Dir, Dying, Local, Copied
    <3>2. CASE \E d \in KernelPages, i \in TableNos : r = TableAt(d, i)
      <4>1. PICK d \in KernelPages, i \in TableNos : r = TableAt(d, i)
        BY <3>2
      <4>2. PageHeld(r) = IF d \in free_pages THEN 0 ELSE tables[d][i]
        BY <4>1 DEF PageHeld, TableAt
      <4>3. d \in free_pages => tables[d][i] = 0
        BY FreeIsClean DEF NoTables
      <4> QED
        BY <3>0, <4>1, <4>2, <4>3, HeldIs
    <3>3. CASE \E t \in KernelPages, j \in PteNos : r = FrameAt(t, j)
      <4>1. PICK t \in KernelPages, j \in PteNos : r = FrameAt(t, j)
        BY <3>3
      <4>2. PageHeld(r) = IF t \in free_pages THEN 0 ELSE ptes[t][j]
        BY <4>1 DEF PageHeld, FrameAt
      <4>3. t \in free_pages => ptes[t][j] = 0
        BY FreeIsClean DEF NoPages
      <4> QED
        BY <3>0, <4>1, <4>2, <4>3, HeldIs
    <3> QED
      BY <3>1, <3>2, <3>3, RoleIs
  <2>2. ASSUME NEW p \in KernelPages \cup UserPages
        PROVE  Cardinality({r \in Roles : PageHeld(r) = p}) =
                 IF p \in free_pages \cup lost THEN 0 ELSE 1
    <3> DEFINE H == {r \in Roles : PageHeld(r) = p}
    <3>1. p # 0 /\ p \in AllPages
      BY PageNumbers DEF AllPages
    <3>2. CASE p \in free_pages \cup lost
      <4>1. \A r \in Roles : held[r] # p
        BY <3>1, <3>2 DEF SpaceInv, PagesHeld, Exact
      <4>2. H = {}
        BY <2>1, <4>1
      <4> QED
        BY <3>2, <4>2, FS_EmptySet
    <3>3. CASE p \notin free_pages \cup lost
      <4>1. PICK r \in Roles : held[r] = p
        BY <3>1, <3>3 DEF SpaceInv, PagesHeld, Exact
      <4>2. \A q \in Roles : held[q] = p => q = r
        BY <3>1, <4>1 DEF SpaceInv, PagesHeld, Exact
      <4>3. H = {r}
        BY <2>1, <4>1, <4>2
      <4> QED
        BY <3>3, <4>3, FS_Singleton
    <3> QED
      BY <3>2, <3>3
  <2> QED
    BY <2>2 DEF SpacesDisjoint
<1> QED
  BY <1>1, SpaceInvariant, PTL

----------------------------------------------------------------------------
(* What holds of the allocators *)

PageGroups == {g \in Nat \X (Nat \ {0}) : g[1] + g[2] <= PageCnt}
Blocks == Pages \X Indices
Uses == {"pages", "arena"}

\* Where a thread can be.
Running ==
  [at : {"out", "malloc", "pop"}]
  \cup [at : {"pool"}, cnt : Nat \ {0}, for : Uses]
  \cup [at : {"scan"}, cnt : Nat \ {0}, for : Uses, idx : Nat, bit : Nat]
  \cup [at : {"clear"}, left : (SUBSET Pages) \ {{}}, for : Uses]
  \cup [at : {"free"}, block : Blocks]
  \cup [at : {"remove"}, arena : Pages, idx : 0..blocks_per_arena]

MemTypeOK ==
  /\ used_map \subseteq Pages
  /\ arenas \in [Pages -> Nat \cup {-1}]
  /\ free_list \in Seq(Blocks)
  /\ groups \in [MemThreads -> SUBSET PageGroups]
  /\ blocks \in [MemThreads -> SUBSET Blocks]
  /\ run \in [MemThreads -> Running]

\* Who holds which lock.
NeedsDesc(r) == r.at \in {"pop", "remove"} \/ (r.at \in {"pool", "scan", "clear"} /\ r.for = "arena")
LocksFor(t, r, pool, desc) == (r.at = "scan" => pool = t) /\ (NeedsDesc(r) => desc = t)
LocksKept == \A t \in MemThreads : LocksFor(t, run[t], pool_lock, desc_lock)

\* The bits tested so far are clear and stay clear.
ScanFor(r, used) ==
  r.at = "scan" =>
    /\ r.bit <= r.cnt /\ (r.bit > 0 => r.idx + r.cnt <= PageCnt)
    /\ Group(r.idx, r.bit) \cap used = {}
ScansOK == \A t \in MemThreads : ScanFor(run[t], used_map)

\* A page for an arena is asked for when there are no blocks, a block taken when there
\* are some; an arena is dissolved when none of its blocks is in use.
RequestFor(r, list) ==
  /\ r.at \in {"pool", "scan"} /\ r.for = "arena" => r.cnt = 1 /\ list = <<>>
  /\ r.at = "pop" => list # <<>>
RequestsOK == \A t \in MemThreads : RequestFor(run[t], free_list)
RemovalsOK ==
  \A t \in MemThreads : Is(t, "remove") => arenas[run[t].arena] >= blocks_per_arena

\* h says what each member of D has: everything in S is with one of them.
Apart(D, h, S) ==
  /\ \A c, d \in D : \A x \in h[c] : x \in h[d] => c = d
  /\ \A c \in D : h[c] \subseteq S
  /\ \A x \in S : \E c \in D : x \in h[c]

\* Who uses pages, and which.
Claims ==
  ({"group"} \X MemThreads \X PageGroups) \cup ({"clear"} \X MemThreads \X {0})
  \cup ({"arena"} \X Pages \X {0})
Claimed(c) ==
  CASE c[1] = "group" -> IF c[3] \in groups[c[2]] THEN Group(c[3][1], c[3][2]) ELSE {}
    [] c[1] = "clear" -> IF Is(c[2], "clear") THEN run[c[2]].left ELSE {}
    [] c[1] = "arena" -> IF arenas[c[2]] >= 0 THEN {c[2]} ELSE {}
claimed == [c \in Claims |-> Claimed(c)]
PagesApart == Apart(Claims, claimed, used_map)

\* Who has blocks, and which: threads, calls of free, the free list, and those that take
\* an arena's blocks off it.
Keepers == ({"thread", "freeing", "removed"} \X MemThreads) \cup {<<"list", NoLock>>}
Kept(k) ==
  CASE k[1] = "thread" -> blocks[k[2]]
    [] k[1] = "freeing" -> IF Is(k[2], "free") THEN {run[k[2]].block} ELSE {}
    [] k[1] = "removed" -> IF Is(k[2], "remove")
                           THEN {<<run[k[2]].arena, i>> : i \in 0..(run[k[2]].idx - 1)} ELSE {}
    [] k[1] = "list" -> ToSet(free_list)
kept == [k \in Keepers |-> Kept(k)]
Live == {b \in Blocks : arenas[b[1]] >= 0}
BlocksApart == Apart(Keepers, kept, Live)

\* The free list repeats nothing; an arena counts its blocks that no thread has.
Distinct(s) == \A i, j \in DOMAIN s : s[i] = s[j] => i = j
Loose(a) == {idx \in Indices : Holders(<<a, idx>>) = {}}
CountsOK == \A a \in Pages : arenas[a] >= 0 => arenas[a] = Cardinality(Loose(a))

MemInv ==
  /\ MemTypeOK /\ LocksKept /\ ScansOK /\ RequestsOK /\ RemovalsOK
  /\ PagesApart /\ BlocksApart /\ Distinct(free_list) /\ CountsOK

----------------------------------------------------------------------------
(* Things that change hands *)

LEMMA Adds ==
  ASSUME NEW D, NEW h, NEW S, Apart(D, h, S), NEW c \in D, NEW X, X \cap S = {}, NEW g,
         g[c] = h[c] \cup X, \A d \in D \ {c} : g[d] = h[d]
  PROVE  Apart(D, g, S \cup X)
<1>1. ASSUME NEW e \in D, NEW d \in D, NEW x \in g[e], x \in g[d] PROVE e = d
  <2>1. CASE x \in X
    BY <1>1, <2>1 DEF Apart
  <2>2. CASE x \notin X
    <3>1. x \in h[e] /\ x \in h[d]
      BY <1>1, <2>2
    <3> QED
      BY <3>1 DEF Apart
  <2> QED
    BY <2>1, <2>2
<1>2. \A d \in D : g[d] \subseteq S \cup X
  BY DEF Apart
<1>3. ASSUME NEW x \in S \cup X PROVE \E d \in D : x \in g[d]
  <2>1. CASE x \in X
    BY <2>1
  <2>2. CASE x \in S
    <3>1. PICK d \in D : x \in h[d]
      BY <2>2 DEF Apart
    <3> QED
      BY <3>1
  <2> QED
    BY <2>1, <2>2
<1> QED
  BY <1>1, <1>2, <1>3 DEF Apart

LEMMA Drops ==
  ASSUME NEW D, NEW h, NEW S, Apart(D, h, S), NEW c \in D, NEW X, X \subseteq h[c], NEW g,
         g[c] = h[c] \ X, \A d \in D \ {c} : g[d] = h[d]
  PROVE  Apart(D, g, S \ X)
<1>1. \A d \in D : g[d] \subseteq h[d]
  OBVIOUS
<1>2. \A e, d \in D : \A x \in g[e] : x \in g[d] => e = d
  BY <1>1 DEF Apart
<1>3. ASSUME NEW d \in D PROVE g[d] \subseteq S \ X
  BY <1>1 DEF Apart
<1>4. ASSUME NEW x \in S \ X PROVE \E d \in D : x \in g[d]
  <2>1. PICK d \in D : x \in h[d]
    BY DEF Apart
  <2>2. x \in g[d]
    BY <2>1
  <2> QED
    BY <2>2
<1> QED
  BY <1>2, <1>3, <1>4 DEF Apart

LEMMA Moves ==
  ASSUME NEW D, NEW h, NEW S, Apart(D, h, S), NEW c \in D, NEW e \in D, c # e, NEW X,
         X \subseteq h[c], NEW g, g[c] = h[c] \ X, g[e] = h[e] \cup X,
         \A d \in D \ {c, e} : g[d] = h[d]
  PROVE  Apart(D, g, S)
<1> DEFINE f == [d \in D |-> IF d = c THEN h[c] \ X ELSE h[d]]
<1>1. f[c] = h[c] \ X /\ f[e] = h[e] /\ \A d \in D \ {c} : f[d] = h[d]
  OBVIOUS
<1>2. X \subseteq S
  BY DEF Apart
<1> HIDE DEF f
<1>3. Apart(D, f, S \ X)
  BY <1>1, Drops
<1>4. g[e] = f[e] \cup X /\ \A d \in D \ {e} : g[d] = f[d]
  BY <1>1
<1>5. Apart(D, g, (S \ X) \cup X)
  BY <1>3, <1>4, Adds
<1>6. (S \ X) \cup X = S
  BY <1>2
<1> QED
  BY <1>5, <1>6

----------------------------------------------------------------------------
(* Claims to pages, keepers of blocks *)

GroupOf(t, g) == <<"group", t, g>>
ClearOf(t) == <<"clear", t, 0>>
ArenaAt(a) == <<"arena", a, 0>>
ByThread(t) == <<"thread", t>>
Freeing(t) == <<"freeing", t>>
Removed(t) == <<"removed", t>>
TheList == <<"list", NoLock>>

OthersClaim(K) == \A c \in Claims \ K : Claimed(c)' = Claimed(c)
OthersKept(K) == \A k \in Keepers \ K : Kept(k)' = Kept(k)

LEMMA ClaimCases ==
  ASSUME NEW c \in Claims
  PROVE  \/ \E t \in MemThreads, g \in PageGroups : c = GroupOf(t, g)
         \/ \E t \in MemThreads : c = ClearOf(t)
         \/ \E a \in Pages : c = ArenaAt(a)
<1>1. CASE c \in {"group"} \X MemThreads \X PageGroups
  BY <1>1 DEF GroupOf
<1>2. CASE c \in {"clear"} \X MemThreads \X {0}
  BY <1>2 DEF ClearOf
<1>3. CASE c \in {"arena"} \X Pages \X {0}
  BY <1>3 DEF ArenaAt
<1> QED
  BY <1>1, <1>2, <1>3 DEF Claims

LEMMA AreClaims ==
  /\ \A t \in MemThreads, g \in PageGroups : GroupOf(t, g) \in Claims
  /\ \A t \in MemThreads : ClearOf(t) \in Claims
  /\ \A a \in Pages : ArenaAt(a) \in Claims
  /\ \A t, u \in MemThreads, g \in PageGroups : GroupOf(t, g) # ClearOf(u)
  /\ \A t \in MemThreads, g \in PageGroups, a \in Pages : GroupOf(t, g) # ArenaAt(a)
  /\ \A t \in MemThreads, a \in Pages : ClearOf(t) # ArenaAt(a)
BY DEF Claims, GroupOf, ClearOf, ArenaAt

LEMMA ClaimedIs ==
  /\ \A t \in MemThreads, g \in PageGroups :
       Claimed(GroupOf(t, g)) = IF g \in groups[t] THEN Group(g[1], g[2]) ELSE {}
  /\ \A t \in MemThreads : Claimed(ClearOf(t)) = IF Is(t, "clear") THEN run[t].left ELSE {}
  /\ \A a \in Pages : Claimed(ArenaAt(a)) = IF arenas[a] >= 0 THEN {a} ELSE {}
BY DEF Claimed, GroupOf, ClearOf, ArenaAt

\* The claims a step of t touches: G of its groups, A of the arenas.
LEMMA OtherClaims ==
  ASSUME NEW t \in MemThreads, NEW G, NEW A,
         \A u \in MemThreads \ {t} : run'[u] = run[u] /\ groups'[u] = groups[u],
         \A g \in PageGroups \ G : g \in groups'[t] <=> g \in groups[t],
         \A a \in Pages \ A : arenas'[a] >= 0 <=> arenas[a] >= 0
  PROVE  OthersClaim({ClearOf(t)} \cup {GroupOf(t, g) : g \in G} \cup {ArenaAt(a) : a \in A})
<1> DEFINE K == {ClearOf(t)} \cup {GroupOf(t, g) : g \in G} \cup {ArenaAt(a) : a \in A}
<1> SUFFICES ASSUME NEW c \in Claims, c \notin K PROVE Claimed(c)' = Claimed(c)
  BY DEF OthersClaim
<1>1. CASE \E u \in MemThreads, g \in PageGroups : c = GroupOf(u, g)
  <2>1. PICK u \in MemThreads, g \in PageGroups : c = GroupOf(u, g)
    BY <1>1
  <2>2. g \in groups'[u] <=> g \in groups[u]
    BY <2>1
  <2> QED
    BY <2>1, <2>2 DEF Claimed, GroupOf
<1>2. CASE \E u \in MemThreads : c = ClearOf(u)
  <2>1. PICK u \in MemThreads : c = ClearOf(u)
    BY <1>2
  <2>2. run'[u] = run[u]
    BY <2>1
  <2> QED
    BY <2>1, <2>2 DEF Claimed, ClearOf, Is
<1>3. CASE \E a \in Pages : c = ArenaAt(a)
  <2>1. PICK a \in Pages : c = ArenaAt(a)
    BY <1>3
  <2>2. arenas'[a] >= 0 <=> arenas[a] >= 0
    BY <2>1
  <2> QED
    BY <2>1, <2>2 DEF Claimed, ArenaAt
<1> QED
  BY <1>1, <1>2, <1>3, ClaimCases

LEMMA ClaimAdds ==
  ASSUME PagesApart, NEW c \in Claims, NEW X, X \cap used_map = {}, OthersClaim({c}),
         Claimed(c)' = Claimed(c) \cup X, used_map' = used_map \cup X
  PROVE  PagesApart'
<1>1. PICK g : g = claimed'
  OBVIOUS
<1>2. g[c] = claimed[c] \cup X /\ \A d \in Claims \ {c} : g[d] = claimed[d]
  BY <1>1 DEF claimed, OthersClaim
<1>3. Apart(Claims, g, used_map \cup X)
  BY <1>2, Adds DEF PagesApart
<1> QED
  BY <1>1, <1>3 DEF PagesApart, Apart

LEMMA ClaimDrops ==
  ASSUME PagesApart, NEW c \in Claims, NEW X, X \subseteq Claimed(c), OthersClaim({c}),
         Claimed(c)' = Claimed(c) \ X, used_map' = used_map \ X
  PROVE  PagesApart'
<1>1. PICK g : g = claimed'
  OBVIOUS
<1>2. /\ g[c] = claimed[c] \ X /\ \A d \in Claims \ {c} : g[d] = claimed[d]
      /\ X \subseteq claimed[c]
  BY <1>1 DEF claimed, OthersClaim
<1>3. Apart(Claims, g, used_map \ X)
  BY <1>2, Drops DEF PagesApart
<1> QED
  BY <1>1, <1>3 DEF PagesApart, Apart

LEMMA ClaimMoves ==
  ASSUME PagesApart, NEW c \in Claims, NEW e \in Claims, c # e, NEW X, X \subseteq Claimed(c),
         OthersClaim({c, e}), Claimed(c)' = Claimed(c) \ X, Claimed(e)' = Claimed(e) \cup X,
         used_map' = used_map
  PROVE  PagesApart'
<1>1. PICK g : g = claimed'
  OBVIOUS
<1>2. /\ g[c] = claimed[c] \ X /\ g[e] = claimed[e] \cup X
      /\ \A d \in Claims \ {c, e} : g[d] = claimed[d]
      /\ X \subseteq claimed[c]
  BY <1>1 DEF claimed, OthersClaim
<1>3. Apart(Claims, g, used_map)
  <2>1. PICK h : h = claimed
    OBVIOUS
  <2> QED
    BY <1>2, <2>1, Moves DEF PagesApart
<1> QED
  BY <1>1, <1>3 DEF PagesApart, Apart

LEMMA ClaimsStay ==
  ASSUME PagesApart, OthersClaim({}), used_map' = used_map
  PROVE  PagesApart'
<1>1. claimed' = claimed
  BY DEF claimed, OthersClaim
<1> QED
  BY <1>1 DEF PagesApart, Apart

LEMMA KeeperCases ==
  ASSUME NEW k \in Keepers
  PROVE  k = TheList \/ \E t \in MemThreads : k \in {ByThread(t), Freeing(t), Removed(t)}
<1>1. CASE k \in {"thread", "freeing", "removed"} \X MemThreads
  BY <1>1 DEF ByThread, Freeing, Removed
<1>2. CASE k = <<"list", NoLock>>
  BY <1>2 DEF TheList
<1> QED
  BY <1>1, <1>2 DEF Keepers

LEMMA AreKeepers ==
  /\ TheList \in Keepers
  /\ \A t \in MemThreads : /\ ByThread(t) \in Keepers /\ Freeing(t) \in Keepers
                           /\ Removed(t) \in Keepers
  /\ \A t, u \in MemThreads :
       /\ TheList \notin {ByThread(t), Freeing(t), Removed(t)}
       /\ ByThread(t) \notin {Freeing(u), Removed(u)} /\ Freeing(t) # Removed(u)
       /\ (ByThread(t) = ByThread(u) => t = u) /\ (Freeing(t) = Freeing(u) => t = u)
       /\ (Removed(t) = Removed(u) => t = u)
BY DEF Keepers, ByThread, Freeing, Removed, TheList

LEMMA KeptIs ==
  /\ Kept(TheList) = ToSet(free_list)
  /\ \A t \in MemThreads :
       /\ Kept(ByThread(t)) = blocks[t]
       /\ Kept(Freeing(t)) = IF Is(t, "free") THEN {run[t].block} ELSE {}
       /\ Kept(Removed(t)) = IF Is(t, "remove")
                             THEN {<<run[t].arena, i>> : i \in 0..(run[t].idx - 1)} ELSE {}
BY DEF Kept, ByThread, Freeing, Removed, TheList

LEMMA OtherKeepers ==
  ASSUME NEW t \in MemThreads,
         \A u \in MemThreads \ {t} : run'[u] = run[u] /\ blocks'[u] = blocks[u]
  PROVE  OthersKept({ByThread(t), Freeing(t), Removed(t), TheList})
<1> SUFFICES ASSUME NEW k \in Keepers, k \notin {ByThread(t), Freeing(t), Removed(t), TheList}
             PROVE  Kept(k)' = Kept(k)
  BY DEF OthersKept
<1>1. PICK u \in MemThreads : k \in {ByThread(u), Freeing(u), Removed(u)}
  BY KeeperCases
<1>2. run'[u] = run[u] /\ blocks'[u] = blocks[u]
  BY <1>1
<1>3. CASE k = ByThread(u)
  BY <1>2, <1>3 DEF Kept, ByThread
<1>4. CASE k = Freeing(u)
  BY <1>2, <1>4 DEF Kept, Freeing, Is
<1>5. CASE k = Removed(u)
  <2>1. PICK r : r = run[u] /\ r = run'[u]
    BY <1>2
  <2> DEFINE R == IF r.at = "remove" THEN {<<r.arena, i>> : i \in 0..(r.idx - 1)} ELSE {}
  <2>2. Kept(k) = R
    BY <1>5, <2>1 DEF Kept, Removed, Is
  <2>3. Kept(k)' = R
    BY <1>5, <2>1 DEF Kept, Removed, Is
  <2> QED
    BY <2>2, <2>3
<1> QED
  BY <1>1, <1>3, <1>4, <1>5

LEMMA KeeperAdds ==
  ASSUME BlocksApart, NEW c \in Keepers, NEW X, X \cap Live = {}, OthersKept({c}),
         Kept(c)' = Kept(c) \cup X, Live' = Live \cup X
  PROVE  BlocksApart'
<1>1. PICK g : g = kept'
  OBVIOUS
<1>2. g[c] = kept[c] \cup X /\ \A d \in Keepers \ {c} : g[d] = kept[d]
  BY <1>1 DEF kept, OthersKept
<1>3. Apart(Keepers, g, Live \cup X)
  BY <1>2, Adds DEF BlocksApart
<1> QED
  BY <1>1, <1>3 DEF BlocksApart, Apart

LEMMA KeeperDrops ==
  ASSUME BlocksApart, NEW c \in Keepers, NEW X, X \subseteq Kept(c), OthersKept({c}),
         Kept(c)' = Kept(c) \ X, Live' = Live \ X
  PROVE  BlocksApart'
<1>1. PICK g : g = kept'
  OBVIOUS
<1>2. /\ g[c] = kept[c] \ X /\ \A d \in Keepers \ {c} : g[d] = kept[d]
      /\ X \subseteq kept[c]
  BY <1>1 DEF kept, OthersKept
<1>3. Apart(Keepers, g, Live \ X)
  BY <1>2, Drops DEF BlocksApart
<1> QED
  BY <1>1, <1>3 DEF BlocksApart, Apart

LEMMA KeeperMoves ==
  ASSUME BlocksApart, NEW c \in Keepers, NEW e \in Keepers, c # e, NEW X, X \subseteq Kept(c),
         OthersKept({c, e}), Kept(c)' = Kept(c) \ X, Kept(e)' = Kept(e) \cup X, Live' = Live
  PROVE  BlocksApart'
<1>1. PICK g : g = kept'
  OBVIOUS
<1>2. /\ g[c] = kept[c] \ X /\ g[e] = kept[e] \cup X
      /\ \A d \in Keepers \ {c, e} : g[d] = kept[d]
      /\ X \subseteq kept[c]
  BY <1>1 DEF kept, OthersKept
<1>3. Apart(Keepers, g, Live)
  <2>1. PICK h : h = kept
    OBVIOUS
  <2> QED
    BY <1>2, <2>1, Moves DEF BlocksApart
<1> QED
  BY <1>1, <1>3 DEF BlocksApart, Apart

LEMMA KeepersStay ==
  ASSUME BlocksApart, OthersKept({}), Live' = Live
  PROVE  BlocksApart'
<1>1. kept' = kept
  BY DEF kept, OthersKept
<1> QED
  BY <1>1 DEF BlocksApart, Apart

----------------------------------------------------------------------------
(* Locks, counts, and steps that move no page and no block *)

LEMMA MemNumbers ==
  /\ PageCnt \in Nat /\ PageCnt > 0 /\ blocks_per_arena \in Nat /\ blocks_per_arena > 0
  /\ BigSizes \subseteq Nat \ {0} /\ NoLock \notin MemThreads
  /\ \A p : p \in Pages <=> p \in Nat /\ p < PageCnt
  /\ \A i : i \in Indices <=> i \in Nat /\ i < blocks_per_arena
<1>1. /\ PageCnt \in Nat /\ PageCnt > 0 /\ blocks_per_arena \in Nat /\ blocks_per_arena > 0
      /\ BigSizes \subseteq Nat \ {0} /\ NoLock \notin MemThreads
  BY MemoryAssumption
<1> QED
  BY <1>1 DEF Pages, Indices

LEMMA RunIs ==
  ASSUME NEW r \in Running
  PROVE  /\ r.at \in {"pool", "scan"} => r.cnt \in Nat \ {0} /\ r.for \in Uses
         /\ r.at = "scan" => r.idx \in Nat /\ r.bit \in Nat
         /\ r.at = "clear" => r.left \subseteq Pages /\ r.left # {} /\ r.for \in Uses
         /\ r.at = "free" => r.block \in Blocks
         /\ r.at = "remove" => r.arena \in Pages /\ r.idx \in 0..blocks_per_arena
BY DEF Running

\* A step of t that takes a free lock or releases its own.
LEMMA LocksMove ==
  ASSUME MemInv, NEW t \in MemThreads, NEW r, run' = [run EXCEPT ![t] = r],
         pool_lock' = pool_lock \/ pool_lock \in {NoLock, t},
         desc_lock' = desc_lock \/ desc_lock \in {NoLock, t},
         LocksFor(t, r, pool_lock', desc_lock')
  PROVE  LocksKept'
<1>1. run'[t] = r /\ \A u \in MemThreads \ {t} : run'[u] = run[u]
  BY DEF MemInv, MemTypeOK
<1>2. ASSUME NEW u \in MemThreads, u # t PROVE LocksFor(u, run'[u], pool_lock', desc_lock')
  <2>1. LocksFor(u, run[u], pool_lock, desc_lock) /\ u # NoLock
    BY MemNumbers DEF MemInv, LocksKept
  <2> QED
    BY <1>1, <1>2, <2>1 DEF LocksFor
<1> QED
  BY <1>1, <1>2 DEF LocksKept

LEMMA OthersWait ==
  ASSUME MemInv, NEW t \in MemThreads
  PROVE  /\ desc_lock \in {NoLock, t} => \A u \in MemThreads \ {t} : ~NeedsDesc(run[u])
         /\ pool_lock \in {NoLock, t} => \A u \in MemThreads \ {t} : run[u].at # "scan"
BY MemNumbers DEF MemInv, LocksKept, LocksFor

\* Whether a thread has a block, to use or to free.
Has(t, b) == b \in blocks[t] \/ (Is(t, "free") /\ run[t].block = b)

LEMMA HoldersSame ==
  ASSUME NEW b, \A t \in MemThreads : Has(t, b)' <=> Has(t, b)
  PROVE  Holders(b)' = Holders(b)
<1>1. Holders(b) = {t \in MemThreads : Has(t, b)}
  BY DEF Holders, Has
<1>2. Holders(b)' = {t \in MemThreads : Has(t, b)'}
  BY DEF Holders, Has
<1> QED
  BY <1>1, <1>2

LEMMA LooseSame ==
  ASSUME NEW a \in Pages, \A t \in MemThreads, i \in Indices : Has(t, <<a, i>>)' <=> Has(t, <<a, i>>)
  PROVE  Loose(a)' = Loose(a)
<1>1. \A i \in Indices : Holders(<<a, i>>)' = Holders(<<a, i>>)
  BY HoldersSame
<1> QED
  BY <1>1 DEF Loose

LEMMA IndexCount == IsFiniteSet(Indices) /\ Cardinality(Indices) = blocks_per_arena
<1>1. /\ 0 \in Int /\ blocks_per_arena - 1 \in Int /\ ~(0 > blocks_per_arena - 1)
      /\ blocks_per_arena - 1 - 0 + 1 = blocks_per_arena
  BY MemNumbers
<1> QED
  BY <1>1, FS_Interval DEF Indices

LEMMA LooseIs ==
  ASSUME NEW a \in Pages
  PROVE  /\ Loose(a) \subseteq Indices /\ IsFiniteSet(Loose(a)) /\ Cardinality(Loose(a)) \in Nat
         /\ Cardinality(Loose(a)) <= blocks_per_arena
         /\ Cardinality(Loose(a)) = blocks_per_arena => Loose(a) = Indices
         /\ \A i \in Indices : i \in Loose(a) <=> \A t \in MemThreads : ~Has(t, <<a, i>>)
<1>1. IsFiniteSet(Indices) /\ Cardinality(Indices) = blocks_per_arena
  BY IndexCount
<1>2. Loose(a) \subseteq Indices
  BY DEF Loose
<1>3. /\ IsFiniteSet(Loose(a)) /\ Cardinality(Loose(a)) <= blocks_per_arena
      /\ Cardinality(Loose(a)) = blocks_per_arena => Loose(a) = Indices
  BY <1>1, <1>2, FS_Subset
<1>4. \A i \in Indices : i \in Loose(a) <=> \A t \in MemThreads : ~Has(t, <<a, i>>)
  BY DEF Loose, Holders, Has
<1> QED
  BY <1>2, <1>3, <1>4, FS_CardinalityType

\* A step that leaves what threads have as it is.
LEMMA CountsStay ==
  ASSUME CountsOK,
         \A a \in Pages : arenas'[a] >= 0 => arenas'[a] = arenas[a],
         \A t \in MemThreads, b \in Blocks : b[1] \in Pages /\ arenas'[b[1]] >= 0 =>
           (Has(t, b)' <=> Has(t, b))
  PROVE  CountsOK'
<1> SUFFICES ASSUME NEW a \in Pages, arenas'[a] >= 0
             PROVE  arenas'[a] = Cardinality(Loose(a))'
  BY DEF CountsOK
<1>1. ASSUME NEW t \in MemThreads, NEW i \in Indices
      PROVE  Has(t, <<a, i>>)' <=> Has(t, <<a, i>>)
  BY DEF Blocks
<1>2. Loose(a)' = Loose(a)
  BY <1>1, LooseSame
<1> QED
  BY <1>2 DEF CountsOK

\* Steps of t, at r afterwards, that leave the pages to whom they are with; and the
\* blocks; what the others have tested and asked for.
LEMMA PagesKeep ==
  ASSUME MemInv, NEW t \in MemThreads, NEW r, run' = [run EXCEPT ![t] = r],
         used_map' = used_map, groups' = groups,
         \A a \in Pages : arenas'[a] >= 0 <=> arenas[a] >= 0,
         run[t].at # "clear", r.at # "clear"
  PROVE  PagesApart'
<1>1. run'[t] = r /\ \A u \in MemThreads \ {t} : run'[u] = run[u]
  BY DEF MemInv, MemTypeOK
<1>2. OthersClaim({ClearOf(t)})
  <2>1. OthersClaim({ClearOf(t)} \cup {GroupOf(t, g) : g \in {}} \cup {ArenaAt(a) : a \in {}})
    BY <1>1, OtherClaims
  <2> QED
    BY <2>1 DEF OthersClaim
<1>3. Claimed(ClearOf(t))' = {} /\ Claimed(ClearOf(t)) = {}
  BY <1>1 DEF Claimed, ClearOf, Is
<1>4. OthersClaim({})
  BY <1>2, <1>3 DEF OthersClaim
<1> QED
  BY <1>4, ClaimsStay DEF MemInv

LEMMA BlocksKeep ==
  ASSUME MemInv, NEW t \in MemThreads, NEW r, run' = [run EXCEPT ![t] = r],
         arenas' = arenas, free_list' = free_list, blocks' = blocks,
         run[t].at \notin {"free", "remove"}, r.at \notin {"free", "remove"}
  PROVE  BlocksApart' /\ Distinct(free_list)' /\ CountsOK' /\ RemovalsOK'
<1> USE DEF MemInv
<1>1. run'[t] = r /\ \A u \in MemThreads \ {t} : run'[u] = run[u]
  BY DEF MemTypeOK
<1>2. BlocksApart'
  <2>1. OthersKept({ByThread(t), Freeing(t), Removed(t), TheList})
    BY <1>1, OtherKeepers
  <2>2. /\ Kept(TheList)' = Kept(TheList) /\ Kept(ByThread(t))' = Kept(ByThread(t))
        /\ Kept(Freeing(t))' = {} /\ Kept(Freeing(t)) = {}
        /\ Kept(Removed(t))' = {} /\ Kept(Removed(t)) = {}
    BY <1>1 DEF Kept, ByThread, Freeing, Removed, TheList, Is
  <2>3. OthersKept({})
    BY <2>1, <2>2 DEF OthersKept
  <2>4. Live' = Live
    BY DEF Live
  <2> QED
    BY <2>3, <2>4, KeepersStay
<1>3. CountsOK'
  <2>1. ASSUME NEW u \in MemThreads, NEW b \in Blocks PROVE Has(u, b)' <=> Has(u, b)
    BY <1>1 DEF Has, Is
  <2> QED
    BY <2>1, CountsStay
<1>4. RemovalsOK' /\ Distinct(free_list)'
  BY <1>1 DEF RemovalsOK, Is, Distinct
<1> QED
  BY <1>2, <1>3, <1>4

LEMMA OthersScan ==
  ASSUME MemInv, NEW t \in MemThreads, NEW r, run' = [run EXCEPT ![t] = r],
         ScanFor(r, used_map'), used_map' \subseteq used_map \/ pool_lock \in {NoLock, t}
  PROVE  ScansOK'
<1>1. run'[t] = r /\ \A u \in MemThreads \ {t} : run'[u] = run[u]
  BY DEF MemInv, MemTypeOK
<1>2. ASSUME NEW u \in MemThreads, u # t PROVE ScanFor(run'[u], used_map')
  <2>1. ScanFor(run[u], used_map)
    BY DEF MemInv, ScansOK
  <2>2. CASE used_map' \subseteq used_map
    BY <1>1, <1>2, <2>1, <2>2 DEF ScanFor
  <2>3. CASE pool_lock \in {NoLock, t}
    BY <1>1, <1>2, <2>3, OthersWait DEF ScanFor
  <2> QED
    BY <2>2, <2>3
<1> QED
  BY <1>1, <1>2 DEF ScansOK

LEMMA OthersRequest ==
  ASSUME MemInv, NEW t \in MemThreads, NEW r, run' = [run EXCEPT ![t] = r],
         RequestFor(r, free_list'), free_list' = free_list \/ desc_lock \in {NoLock, t}
  PROVE  RequestsOK'
<1>1. run'[t] = r /\ \A u \in MemThreads \ {t} : run'[u] = run[u]
  BY DEF MemInv, MemTypeOK
<1>2. ASSUME NEW u \in MemThreads, u # t PROVE RequestFor(run'[u], free_list')
  <2>1. RequestFor(run[u], free_list)
    BY DEF MemInv, RequestsOK
  <2>2. CASE desc_lock \in {NoLock, t}
    BY <1>1, <1>2, <2>2, OthersWait DEF RequestFor, NeedsDesc
  <2> QED
    BY <1>1, <1>2, <2>1, <2>2
<1> QED
  BY <1>1, <1>2 DEF RequestsOK

LEMMA MemMoves ==
  ASSUME MemInv, NEW t \in MemThreads, NEW r \in Running, run' = [run EXCEPT ![t] = r],
         UNCHANGED <<used_map, arenas, free_list, groups, blocks>>,
         run[t].at \notin {"clear", "free", "remove"}, r.at \notin {"clear", "free", "remove"},
         LocksKept', ScanFor(r, used_map), RequestFor(r, free_list)
  PROVE  MemInv'
<1>1. MemTypeOK'
  BY DEF MemInv, MemTypeOK
<1>2. PagesApart'
  BY PagesKeep
<1>3. BlocksApart' /\ Distinct(free_list)' /\ CountsOK' /\ RemovalsOK'
  BY BlocksKeep
<1>4. ScansOK' /\ RequestsOK'
  BY OthersScan, OthersRequest
<1> QED
  BY <1>1, <1>2, <1>3, <1>4 DEF MemInv

LEMMA GetPagesKeeps ==
  ASSUME MemInv, NEW t \in MemThreads, GetPages(t)
  PROVE  MemInv'
<1>1. PICK cnt \in BigSizes : run' = [run EXCEPT ![t] = WantPages(cnt, "pages")]
  BY DEF GetPages, Enter
<1>2. /\ run[t].at = "out" /\ pool_lock' = pool_lock /\ desc_lock' = desc_lock
      /\ UNCHANGED <<used_map, arenas, free_list, groups, blocks>>
  BY DEF GetPages, Is
<1> DEFINE r == WantPages(cnt, "pages")
<1>3. r \in Running /\ r.at = "pool" /\ r.for = "pages"
  BY MemNumbers DEF WantPages, Running, Uses
<1> HIDE DEF r
<1>4. LocksKept'
  BY <1>1, <1>2, <1>3, LocksMove DEF LocksFor, NeedsDesc, r
<1>5. ScanFor(r, used_map) /\ RequestFor(r, free_list)
  BY <1>3 DEF ScanFor, RequestFor
<1> QED
  BY <1>1, <1>2, <1>3, <1>4, <1>5, MemMoves DEF r

LEMMA MallocKeeps ==
  ASSUME MemInv, NEW t \in MemThreads, Malloc(t)
  PROVE  MemInv'
<1> DEFINE r == [at |-> "malloc"]
<1>1. /\ run[t].at = "out" /\ run' = [run EXCEPT ![t] = r]
      /\ pool_lock' = pool_lock /\ desc_lock' = desc_lock
      /\ UNCHANGED <<used_map, arenas, free_list, groups, blocks>>
  BY DEF Malloc, Is, Enter
<1>2. r \in Running /\ r.at = "malloc"
  BY DEF Running
<1> HIDE DEF r
<1>3. LocksKept'
  BY <1>1, <1>2, LocksMove DEF LocksFor, NeedsDesc
<1>4. ScanFor(r, used_map) /\ RequestFor(r, free_list)
  BY <1>2 DEF ScanFor, RequestFor
<1> QED
  BY <1>1, <1>2, <1>3, <1>4, MemMoves

LEMMA MallocAcquireKeeps ==
  ASSUME MemInv, NEW t \in MemThreads, MallocAcquire(t)
  PROVE  MemInv'
<1>1. /\ run[t].at = "malloc" /\ desc_lock = NoLock /\ desc_lock' = t
      /\ pool_lock' = pool_lock
      /\ UNCHANGED <<used_map, arenas, free_list, groups, blocks>>
      /\ run' = [run EXCEPT ![t] = IF free_list = <<>> THEN WantPages(1, "arena")
                                                       ELSE [at |-> "pop"]]
  BY DEF MallocAcquire, Is, Enter
<1>2. PICK r \in Running : /\ run' = [run EXCEPT ![t] = r] /\ r.at \in {"pool", "pop"}
                           /\ RequestFor(r, free_list)
  <2>1. CASE free_list = <<>>
    <3> DEFINE r == WantPages(1, "arena")
    <3>1. r \in Running /\ r.at = "pool" /\ r.for = "arena" /\ r.cnt = 1
      BY DEF WantPages, Running, Uses
    <3>2. run' = [run EXCEPT ![t] = r]
      BY <1>1, <2>1
    <3> HIDE DEF r
    <3> QED
      BY <2>1, <3>1, <3>2 DEF RequestFor
  <2>2. CASE free_list # <<>>
    <3> DEFINE r == [at |-> "pop"]
    <3>1. r \in Running /\ r.at = "pop"
      BY DEF Running
    <3>2. run' = [run EXCEPT ![t] = r]
      BY <1>1, <2>2
    <3> HIDE DEF r
    <3> QED
      BY <2>2, <3>1, <3>2 DEF RequestFor
  <2> QED
    BY <2>1, <2>2
<1>3. LocksKept'
  BY <1>1, <1>2, LocksMove DEF LocksFor
<1>4. ScanFor(r, used_map)
  BY <1>2 DEF ScanFor
<1> QED
  BY <1>1, <1>2, <1>3, <1>4, MemMoves

LEMMA PoolAcquireKeeps ==
  ASSUME MemInv, NEW t \in MemThreads, PoolAcquire(t)
  PROVE  MemInv'
<1> DEFINE r == [at |-> "scan", cnt |-> run[t].cnt, for |-> run[t].for, idx |-> 0, bit |-> 0]
<1>1. /\ run[t].at = "pool" /\ pool_lock = NoLock /\ pool_lock' = t /\ desc_lock' = desc_lock
      /\ run' = [run EXCEPT ![t] = r]
      /\ UNCHANGED <<used_map, arenas, free_list, groups, blocks>>
  BY DEF PoolAcquire, Is, Enter
<1>2. run[t] \in Running /\ run[t].cnt \in Nat \ {0} /\ run[t].for \in Uses
  BY <1>1, RunIs DEF MemInv, MemTypeOK
<1>3. /\ r \in Running /\ r.at = "scan" /\ r.cnt = run[t].cnt /\ r.for = run[t].for
      /\ r.idx = 0 /\ r.bit = 0
  BY <1>2 DEF Running
<1> HIDE DEF r
<1>4. LocksKept'
  <2>1. LocksFor(t, r, pool_lock', desc_lock')
    BY <1>1, <1>3 DEF MemInv, LocksKept, LocksFor, NeedsDesc
  <2> QED
    BY <1>1, <2>1, LocksMove
<1>5. ScanFor(r, used_map)
  <2>1. Group(0, 0) = {}
    BY DEF Group
  <2> QED
    BY <1>2, <1>3, <2>1 DEF ScanFor
<1>6. RequestFor(r, free_list)
  BY <1>1, <1>3 DEF MemInv, RequestsOK, RequestFor
<1> QED
  BY <1>1, <1>3, <1>4, <1>5, <1>6, MemMoves

LEMMA ScanBitKeeps ==
  ASSUME MemInv, NEW t \in MemThreads, ScanBit(t)
  PROVE  MemInv'
<1> DEFINE i == run[t].idx
           b == run[t].bit
           n == run[t].cnt
<1>1. /\ run[t].at = "scan" /\ pool_lock' = pool_lock /\ desc_lock' = desc_lock
      /\ b < n /\ i + n <= PageCnt
      /\ run' = [run EXCEPT ![t] = IF i + b \in used_map
                                   THEN [run[t] EXCEPT !.idx = @ + 1, !.bit = 0]
                                   ELSE [run[t] EXCEPT !.bit = @ + 1]]
      /\ UNCHANGED <<used_map, arenas, free_list, groups, blocks>>
  BY DEF ScanBit, Is, Enter
<1>2. /\ run[t] \in [at : {"scan"}, cnt : Nat \ {0}, for : Uses, idx : Nat, bit : Nat]
      /\ i \in Nat /\ b \in Nat /\ n \in Nat \ {0}
  <2>1. run[t] \in Running
    BY DEF MemInv, MemTypeOK
  <2>2. run[t] \in [at : {"scan"}, cnt : Nat \ {0}, for : Uses, idx : Nat, bit : Nat]
    BY <1>1, <2>1 DEF Running
  <2> QED
    BY <2>2
<1>3. Group(i, b) \cap used_map = {}
  BY <1>1 DEF MemInv, ScansOK, ScanFor
<1>4. PICK r \in Running : /\ run' = [run EXCEPT ![t] = r] /\ r.at = "scan"
                           /\ r.cnt = n /\ r.for = run[t].for /\ ScanFor(r, used_map)
  <2>1. CASE i + b \in used_map
    <3> DEFINE r == [run[t] EXCEPT !.idx = @ + 1, !.bit = 0]
    <3>1. /\ r \in [at : {"scan"}, cnt : Nat \ {0}, for : Uses, idx : Nat, bit : Nat]
          /\ r.cnt = n /\ r.for = run[t].for /\ r.idx = i + 1 /\ r.bit = 0
      <4>1. PICK q \in [at : {"scan"}, cnt : Nat \ {0}, for : Uses, idx : Nat, bit : Nat] :
                   q = run[t]
        BY <1>2
      <4> DEFINE s == [q EXCEPT !.idx = q.idx + 1]
      <4>2. /\ s \in [at : {"scan"}, cnt : Nat \ {0}, for : Uses, idx : Nat, bit : Nat]
            /\ s.cnt = q.cnt /\ s.for = q.for /\ s.idx = q.idx + 1
        OBVIOUS
      <4>3. r = [s EXCEPT !.bit = 0]
        BY <4>1
      <4> HIDE DEF r, s
      <4> QED
        BY <4>1, <4>2, <4>3
    <3>2. run' = [run EXCEPT ![t] = r]
      BY <1>1, <2>1
    <3> HIDE DEF r
    <3>3. Group(i + 1, 0) = {}
      BY <1>2 DEF Group
    <3>4. ScanFor(r, used_map)
      BY <1>2, <3>1, <3>3 DEF ScanFor
    <3>5. r \in Running /\ r.at = "scan"
      BY <3>1 DEF Running
    <3> QED
      BY <3>1, <3>2, <3>4, <3>5
  <2>2. CASE i + b \notin used_map
    <3> DEFINE r == [run[t] EXCEPT !.bit = @ + 1]
    <3>1. /\ r \in [at : {"scan"}, cnt : Nat \ {0}, for : Uses, idx : Nat, bit : Nat]
          /\ r.cnt = n /\ r.for = run[t].for /\ r.idx = i /\ r.bit = b + 1
      BY <1>2
    <3>2. run' = [run EXCEPT ![t] = r]
      BY <1>1, <2>2
    <3> HIDE DEF r
    <3>3. Group(i, b + 1) = Group(i, b) \cup {i + b}
      <4> HIDE DEF i, b
      <4>1. \A p \in Int : p \in i .. (i + (b + 1) - 1) <=> p \in i .. (i + b - 1) \/ p = i + b
        BY <1>2
      <4>2. i .. (i + (b + 1) - 1) \subseteq Int /\ i .. (i + b - 1) \subseteq Int /\ i + b \in Int
        BY <1>2
      <4> QED
        BY <4>1, <4>2 DEF Group
    <3>4. ScanFor(r, used_map)
      <4>1. Group(i, b + 1) \cap used_map = {}
        BY <1>3, <2>2, <3>3
      <4>2. b + 1 <= n
        BY <1>1, <1>2
      <4> QED
        BY <1>1, <3>1, <4>1, <4>2 DEF ScanFor
    <3>5. r \in Running /\ r.at = "scan"
      BY <3>1 DEF Running
    <3> QED
      BY <3>1, <3>2, <3>4, <3>5
  <2> QED
    BY <2>1, <2>2
<1>5. LocksKept'
  <2>1. LocksFor(t, r, pool_lock', desc_lock')
    BY <1>1, <1>4 DEF MemInv, LocksKept, LocksFor, NeedsDesc
  <2> QED
    BY <1>1, <1>4, <2>1, LocksMove
<1>6. RequestFor(r, free_list)
  BY <1>1, <1>4 DEF MemInv, RequestsOK, RequestFor
<1> QED
  BY <1>1, <1>4, <1>5, <1>6, MemMoves

LEMMA ScanFailedKeeps ==
  ASSUME MemInv, NEW t \in MemThreads, ScanFailed(t)
  PROVE  MemInv'
<1> DEFINE r == Out
<1>1. /\ run[t].at = "scan" /\ pool_lock' = NoLock
      /\ desc_lock' = IF run[t].for = "arena" THEN NoLock ELSE desc_lock
      /\ run' = [run EXCEPT ![t] = r]
      /\ UNCHANGED <<used_map, arenas, free_list, groups, blocks>>
  BY DEF ScanFailed, Is, Enter
<1>2. r \in Running /\ r.at = "out"
  BY DEF Running, Out
<1> HIDE DEF r
<1>3. pool_lock = t /\ (run[t].for = "arena" => desc_lock = t)
  BY <1>1 DEF MemInv, LocksKept, LocksFor, NeedsDesc
<1>4. LocksKept'
  BY <1>1, <1>2, <1>3, LocksMove DEF LocksFor, NeedsDesc
<1>5. ScanFor(r, used_map) /\ RequestFor(r, free_list)
  BY <1>2 DEF ScanFor, RequestFor
<1> QED
  BY <1>1, <1>2, <1>4, <1>5, MemMoves

----------------------------------------------------------------------------
(* Steps that give pages and blocks, or take them *)

\* What is claimed is used, and by one only; the same for blocks.
LEMMA ClaimedOnce ==
  ASSUME MemInv
  PROVE  /\ \A c \in Claims : Claimed(c) \subseteq used_map
         /\ \A c, d \in Claims : \A p \in Claimed(c) : p \in Claimed(d) => c = d
         /\ \A p \in used_map : \E c \in Claims : p \in Claimed(c)
<1>1. \A c \in Claims : claimed[c] = Claimed(c)
  BY DEF claimed
<1> QED
  BY <1>1 DEF MemInv, PagesApart, Apart

LEMMA KeptOnce ==
  ASSUME MemInv
  PROVE  /\ \A k \in Keepers : Kept(k) \subseteq Live
         /\ \A k, l \in Keepers : \A b \in Kept(k) : b \in Kept(l) => k = l
         /\ \A b \in Live : \E k \in Keepers : b \in Kept(k)
<1>1. \A k \in Keepers : kept[k] = Kept(k)
  BY DEF kept
<1> QED
  BY <1>1 DEF MemInv, BlocksApart, Apart

LEMMA HasIs ==
  ASSUME MemInv, NEW t \in MemThreads, NEW b, Has(t, b)
  PROVE  \E k \in {ByThread(t), Freeing(t)} : b \in Kept(k)
BY KeptIs DEF Has

LEMMA HasOnce ==
  ASSUME MemInv, NEW t \in MemThreads, NEW b, Has(t, b)
  PROVE  /\ b \in Live /\ b \in Blocks /\ arenas[b[1]] >= 0
         /\ \A u \in MemThreads : Has(u, b) => u = t
         /\ b \notin ToSet(free_list) /\ \A u \in MemThreads : b \notin Kept(Removed(u))
         /\ Is(t, "free") /\ run[t].block = b => b \notin blocks[t]
<1>1. PICK k \in {ByThread(t), Freeing(t)} : b \in Kept(k)
  BY HasIs
<1>2. k \in Keepers
  BY AreKeepers
<1>3. b \in Live /\ b \in Blocks /\ arenas[b[1]] >= 0
  BY <1>1, <1>2, KeptOnce DEF Live
<1>4. ASSUME NEW u \in MemThreads, Has(u, b) PROVE u = t
  <2>1. PICK l \in {ByThread(u), Freeing(u)} : b \in Kept(l)
    BY <1>4, HasIs
  <2>2. l = k
    BY <1>1, <1>2, <2>1, AreKeepers, KeptOnce
  <2> QED
    BY <2>1, <2>2, AreKeepers
<1>5. b \notin Kept(TheList) /\ \A u \in MemThreads : b \notin Kept(Removed(u))
  BY <1>1, <1>2, AreKeepers, KeptOnce
<1>6. ASSUME Is(t, "free"), run[t].block = b PROVE b \notin blocks[t]
  <2>1. b \in Kept(Freeing(t))
    BY <1>6, KeptIs
  <2>2. b \notin Kept(ByThread(t))
    BY <2>1, AreKeepers, KeptOnce
  <2> QED
    BY <2>2, KeptIs
<1> QED
  BY <1>3, <1>4, <1>5, <1>6, KeptIs

\* The group a scan has found is free.
LEMMA ScanIs ==
  ASSUME MemInv, NEW t \in MemThreads, Is(t, "scan"), run[t].bit = run[t].cnt
  PROVE  \E g \in PageGroups :
           /\ g[1] = run[t].idx /\ g[2] = run[t].cnt /\ g = <<run[t].idx, run[t].cnt>>
           /\ g[1] \in Group(g[1], g[2])
           /\ Group(g[1], g[2]) \subseteq Pages /\ Group(g[1], g[2]) \cap used_map = {}
<1> DEFINE i == run[t].idx
           n == run[t].cnt
<1>1. run[t].at = "scan" /\ run[t] \in Running
  BY DEF MemInv, MemTypeOK, Is
<1>2. i \in Nat /\ n \in Nat /\ n > 0 /\ run[t].bit = n
  BY <1>1, RunIs
<1>3. i + n <= PageCnt /\ Group(i, n) \cap used_map = {}
  BY <1>1, <1>2 DEF MemInv, ScansOK, ScanFor
<1> HIDE DEF i, n
<1>4. i \in Group(i, n)
  BY <1>2 DEF Group
<1>5. Group(i, n) \subseteq Pages
  <2>1. ASSUME NEW p \in i .. (i + n - 1) PROVE p \in Nat /\ p < PageCnt
    BY <1>2, <1>3, MemNumbers
  <2> QED
    BY <2>1, MemNumbers DEF Group
<1>6. <<i, n>> \in PageGroups
  BY <1>2, <1>3 DEF PageGroups
<1> QED
  BY <1>3, <1>4, <1>5, <1>6 DEF i, n

LEMMA PagesFoundKeep ==
  ASSUME MemInv, NEW t \in MemThreads, ScanFound(t), run[t].for # "arena"
  PROVE  MemInv'
<1> USE DEF MemInv
<1> DEFINE r == Out
<1>1. /\ Is(t, "scan") /\ run[t].at = "scan" /\ run[t].bit = run[t].cnt
      /\ used_map' = used_map \cup Group(run[t].idx, run[t].cnt)
      /\ pool_lock' = NoLock /\ desc_lock' = desc_lock
      /\ run' = [run EXCEPT ![t] = r]
      /\ groups' = [groups EXCEPT ![t] = @ \cup {<<run[t].idx, run[t].cnt>>}]
      /\ arenas' = arenas /\ free_list' = free_list /\ blocks' = blocks
  BY DEF ScanFound, Is, Enter
<1>2. r \in Running /\ r.at = "out"
  BY DEF Running, Out
<1> HIDE DEF r
<1>3. PICK g \in PageGroups :
        /\ g = <<run[t].idx, run[t].cnt>> /\ g[1] \in Group(g[1], g[2])
        /\ g[1] = run[t].idx /\ g[2] = run[t].cnt
        /\ Group(g[1], g[2]) \subseteq Pages /\ Group(g[1], g[2]) \cap used_map = {}
  BY <1>1, ScanIs
<1>4. PICK X : X = Group(g[1], g[2])
  OBVIOUS
<1>5. /\ used_map' = used_map \cup X /\ groups' = [groups EXCEPT ![t] = @ \cup {g}]
      /\ X \subseteq Pages /\ X \cap used_map = {} /\ X # {}
  BY <1>1, <1>3, <1>4
<1>6. pool_lock = t
  BY <1>1 DEF LocksKept, LocksFor
<1>7. MemTypeOK'
  BY <1>1, <1>2, <1>5 DEF MemTypeOK
<1>8. LocksKept'
  BY <1>1, <1>2, <1>6, LocksMove DEF LocksFor, NeedsDesc
<1>9. ScansOK' /\ RequestsOK'
  <2>1. ScanFor(r, used_map') /\ RequestFor(r, free_list')
    BY <1>2 DEF ScanFor, RequestFor
  <2> QED
    BY <1>1, <1>6, <2>1, OthersScan, OthersRequest
<1>10. PagesApart'
  <2>1. /\ run'[t] = r /\ \A u \in MemThreads \ {t} : run'[u] = run[u] /\ groups'[u] = groups[u]
        /\ groups'[t] = groups[t] \cup {g}
    BY <1>1, <1>5 DEF MemTypeOK
  <2>2. OthersClaim({ClearOf(t)} \cup {GroupOf(t, f) : f \in {g}} \cup {ArenaAt(a) : a \in {}})
    BY <1>1, <2>1, OtherClaims
  <2>3. Claimed(ClearOf(t))' = {} /\ Claimed(ClearOf(t)) = {}
    BY <1>1, <1>2, <2>1 DEF Claimed, ClearOf, Is
  <2>4. OthersClaim({GroupOf(t, g)})
    BY <2>2, <2>3 DEF OthersClaim
  <2>5. Claimed(GroupOf(t, g))' = X
    BY <1>4, <2>1 DEF Claimed, GroupOf
  <2>6. Claimed(GroupOf(t, g)) = {}
    <3>1. Claimed(GroupOf(t, g)) \subseteq used_map
      BY AreClaims, ClaimedOnce
    <3>2. Claimed(GroupOf(t, g)) \in {X, {}}
      BY <1>4, ClaimedIs
    <3> QED
      BY <1>5, <3>1, <3>2
  <2> QED
    BY <1>5, <2>4, <2>5, <2>6, AreClaims, ClaimAdds
<1>11. BlocksApart' /\ Distinct(free_list)' /\ CountsOK' /\ RemovalsOK'
  BY <1>1, <1>2, BlocksKeep
<1> QED
  BY <1>7, <1>8, <1>9, <1>10, <1>11

LEMMA FreePagesKeeps ==
  ASSUME MemInv, NEW t \in MemThreads, FreePages(t)
  PROVE  MemInv'
<1> USE DEF MemInv
<1>1. PICK g \in groups[t] :
        /\ run' = [run EXCEPT ![t] = [at |-> "clear", left |-> Group(g[1], g[2]),
                                      for |-> "pages"]]
        /\ groups' = [groups EXCEPT ![t] = @ \ {g}]
  BY DEF FreePages, Enter
<1>2. /\ run[t].at = "out" /\ used_map' = used_map /\ pool_lock' = pool_lock
      /\ desc_lock' = desc_lock /\ arenas' = arenas /\ free_list' = free_list
      /\ blocks' = blocks
  BY DEF FreePages, Is
<1>3. g \in PageGroups
  BY DEF MemTypeOK
<1>4. PICK X : X = Group(g[1], g[2])
  OBVIOUS
<1>5. Claimed(GroupOf(t, g)) = X /\ X \subseteq Pages /\ X # {}
  <2>1. Claimed(GroupOf(t, g)) = X
    BY <1>3, <1>4, ClaimedIs
  <2>2. X \subseteq used_map
    BY <1>3, <2>1, AreClaims, ClaimedOnce
  <2>3. g[1] \in Group(g[1], g[2])
    BY <1>3 DEF PageGroups, Group
  <2> QED
    BY <1>4, <2>1, <2>2, <2>3 DEF MemTypeOK
<1> DEFINE r == [at |-> "clear", left |-> X, for |-> "pages"]
<1>6. r \in Running /\ r.at = "clear" /\ r.left = X /\ r.for = "pages"
  BY <1>5 DEF Running, Uses
<1>7. run' = [run EXCEPT ![t] = r]
  BY <1>1, <1>4
<1> HIDE DEF r
<1>8. MemTypeOK'
  BY <1>1, <1>2, <1>6, <1>7 DEF MemTypeOK
<1>9. LocksKept'
  BY <1>2, <1>6, <1>7, LocksMove DEF LocksFor, NeedsDesc
<1>10. ScansOK' /\ RequestsOK'
  <2>1. ScanFor(r, used_map') /\ RequestFor(r, free_list')
    BY <1>6 DEF ScanFor, RequestFor
  <2> QED
    BY <1>2, <1>7, <2>1, OthersScan, OthersRequest
<1>11. PagesApart'
  <2>1. /\ run'[t] = r /\ \A u \in MemThreads \ {t} : run'[u] = run[u] /\ groups'[u] = groups[u]
        /\ groups'[t] = groups[t] \ {g}
    BY <1>1, <1>7 DEF MemTypeOK
  <2>2. OthersClaim({ClearOf(t)} \cup {GroupOf(t, f) : f \in {g}} \cup {ArenaAt(a) : a \in {}})
    BY <1>2, <2>1, OtherClaims
  <2>3. OthersClaim({GroupOf(t, g), ClearOf(t)})
    BY <2>2 DEF OthersClaim
  <2>4. Claimed(ClearOf(t))' = X /\ Claimed(ClearOf(t)) = {}
    BY <1>2, <1>6, <2>1 DEF Claimed, ClearOf, Is
  <2>5. Claimed(GroupOf(t, g))' = {}
    BY <2>1 DEF Claimed, GroupOf
  <2> QED
    <3>1. GroupOf(t, g) \in Claims /\ ClearOf(t) \in Claims /\ GroupOf(t, g) # ClearOf(t)
      BY <1>3, AreClaims
    <3>2. /\ X \subseteq Claimed(GroupOf(t, g))
          /\ Claimed(GroupOf(t, g))' = Claimed(GroupOf(t, g)) \ X
          /\ Claimed(ClearOf(t))' = Claimed(ClearOf(t)) \cup X
      BY <1>5, <2>4, <2>5
    <3> QED
      BY <1>2, <2>3, <3>1, <3>2, ClaimMoves
<1>12. BlocksApart' /\ Distinct(free_list)' /\ CountsOK' /\ RemovalsOK'
  BY <1>2, <1>6, <1>7, BlocksKeep
<1> QED
  BY <1>8, <1>9, <1>10, <1>11, <1>12

LEMMA ClearBitKeeps ==
  ASSUME MemInv, NEW t \in MemThreads, ClearBit(t)
  PROVE  MemInv'
<1> USE DEF MemInv
<1>1. run[t].at = "clear" /\ run[t] \in Running
  BY DEF ClearBit, Is, MemTypeOK
<1>2. run[t].left \subseteq Pages /\ run[t].left # {} /\ run[t].for \in Uses
  BY <1>1, RunIs
<1>3. FrontPage(run[t].left) \in run[t].left
  <2>1. run[t].left \in SUBSET Nat
    BY <1>2, MemNumbers
  <2>2. \E p \in run[t].left : \A q \in run[t].left : p <= q
    BY <1>2, <2>1, SmallestPage
  <2> QED
    BY <2>2 DEF FrontPage
<1>4. PICK p, left : p = FrontPage(run[t].left) /\ left = run[t].left \ {p}
  OBVIOUS
<1>5. /\ used_map' = used_map \ {p}
      /\ run' = [run EXCEPT ![t] = IF left = {} THEN Out ELSE [run[t] EXCEPT !.left = left]]
      /\ desc_lock' = IF left = {} /\ run[t].for = "arena" THEN NoLock ELSE desc_lock
      /\ pool_lock' = pool_lock /\ arenas' = arenas /\ free_list' = free_list
      /\ groups' = groups /\ blocks' = blocks
  BY <1>4 DEF ClearBit, Enter
<1>6. p \in Pages /\ p \in run[t].left /\ left \subseteq Pages
  BY <1>2, <1>3, <1>4
<1>7. PICK r \in Running :
        /\ run' = [run EXCEPT ![t] = r] /\ r.at \in {"out", "clear"}
        /\ left = {} => r.at = "out"
        /\ left # {} => r.at = "clear" /\ r.left = left /\ r.for = run[t].for
  <2>1. CASE left = {}
    <3>1. Out \in Running /\ Out.at = "out"
      BY DEF Running, Out
    <3> QED
      BY <1>5, <2>1, <3>1
  <2>2. CASE left # {}
    <3> DEFINE r == [run[t] EXCEPT !.left = left]
    <3>1. run[t] \in [at : {"clear"}, left : (SUBSET Pages) \ {{}}, for : Uses]
      BY <1>1 DEF Running
    <3>2. /\ r \in [at : {"clear"}, left : (SUBSET Pages) \ {{}}, for : Uses]
          /\ r.left = left /\ r.for = run[t].for
      BY <1>6, <2>2, <3>1
    <3>3. run' = [run EXCEPT ![t] = r]
      BY <1>5, <2>2
    <3> HIDE DEF r
    <3>4. r \in Running /\ r.at = "clear"
      BY <3>2 DEF Running
    <3> QED
      BY <2>2, <3>2, <3>3, <3>4
  <2> QED
    BY <2>1, <2>2
<1>8. MemTypeOK'
  BY <1>5, <1>7 DEF MemTypeOK
<1>9. LocksKept'
  <2>1. run[t].for = "arena" => desc_lock = t
    BY <1>1 DEF LocksKept, LocksFor, NeedsDesc
  <2>2. LocksFor(t, r, pool_lock', desc_lock')
    BY <1>5, <1>7, <2>1 DEF LocksFor, NeedsDesc
  <2> QED
    BY <1>5, <1>7, <2>1, <2>2, LocksMove
<1>10. ScansOK' /\ RequestsOK'
  <2>1. ScanFor(r, used_map') /\ RequestFor(r, free_list')
    BY <1>7 DEF ScanFor, RequestFor
  <2>2. used_map' \subseteq used_map
    BY <1>5
  <2> QED
    BY <1>5, <1>7, <2>1, <2>2, OthersScan, OthersRequest
<1>11. PagesApart'
  <2>1. run'[t] = r /\ \A u \in MemThreads \ {t} : run'[u] = run[u]
    BY <1>7 DEF MemTypeOK
  <2>2. OthersClaim({ClearOf(t)} \cup {GroupOf(t, f) : f \in {}} \cup {ArenaAt(a) : a \in {}})
    BY <1>5, <2>1, OtherClaims
  <2>3. OthersClaim({ClearOf(t)})
    BY <2>2 DEF OthersClaim
  <2>4. Claimed(ClearOf(t)) = run[t].left
    BY <1>1, ClaimedIs DEF Is
  <2>5. Claimed(ClearOf(t))' = left
    <3>1. Claimed(ClearOf(t))' = IF r.at = "clear" THEN r.left ELSE {}
      BY <2>1 DEF Claimed, ClearOf, Is
    <3> QED
      BY <1>7, <3>1
  <2>6. {p} \subseteq Claimed(ClearOf(t)) /\ Claimed(ClearOf(t))' = Claimed(ClearOf(t)) \ {p}
    BY <1>4, <1>6, <2>4, <2>5
  <2> QED
    BY <1>5, <2>3, <2>6, AreClaims, ClaimDrops
<1>12. BlocksApart' /\ Distinct(free_list)' /\ CountsOK' /\ RemovalsOK'
  BY <1>1, <1>5, <1>7, BlocksKeep
<1> QED
  BY <1>8, <1>9, <1>10, <1>11, <1>12

\* The blocks of a page.
BlocksOf(a) == {<<a, i>> : i \in Indices}

LEMMA ArenaFoundKeeps ==
  ASSUME MemInv, NEW t \in MemThreads, ScanFound(t), run[t].for = "arena"
  PROVE  MemInv'
<1> USE DEF MemInv
<1> DEFINE r == [at |-> "pop"]
<1>1. /\ Is(t, "scan") /\ run[t].at = "scan" /\ run[t].bit = run[t].cnt
      /\ used_map' = used_map \cup Group(run[t].idx, run[t].cnt)
      /\ pool_lock' = NoLock /\ desc_lock' = desc_lock
      /\ arenas' = [arenas EXCEPT ![run[t].idx] = blocks_per_arena]
      /\ free_list' = free_list \o [k \in 1..blocks_per_arena |-> <<run[t].idx, k - 1>>]
      /\ run' = [run EXCEPT ![t] = r]
      /\ groups' = groups /\ blocks' = blocks
  BY DEF ScanFound, NewArena, arena_to_block, Is, Enter
<1>2. r \in Running /\ r.at = "pop"
  BY DEF Running
<1> HIDE DEF r
<1>3. run[t].cnt = 1 /\ free_list = <<>> /\ pool_lock = t /\ desc_lock = t
  BY <1>1 DEF RequestsOK, RequestFor, LocksKept, LocksFor, NeedsDesc
<1>4. PICK a \in Pages : a = run[t].idx /\ a \notin used_map /\ used_map' = used_map \cup {a}
  <2>1. PICK g \in PageGroups :
          /\ g[1] = run[t].idx /\ g[2] = run[t].cnt
          /\ Group(g[1], g[2]) \subseteq Pages /\ Group(g[1], g[2]) \cap used_map = {}
    BY <1>1, ScanIs
  <2>2. Group(g[1], g[2]) = {g[1]}
    <3>1. g[1] \in Nat /\ g[2] = 1
      BY <1>3, <2>1 DEF PageGroups
    <3> QED
      BY <3>1 DEF Group
  <2> QED
    BY <1>1, <2>1, <2>2
<1> DEFINE L == [k \in 1..blocks_per_arena |-> <<a, k - 1>>]
<1>5. free_list' = L /\ arenas' = [arenas EXCEPT ![a] = blocks_per_arena]
  <2>1. L \in Seq(Blocks)
    <3>1. \A k \in 1..blocks_per_arena : k - 1 \in Indices
      BY MemNumbers
    <3>2. L \in [1..blocks_per_arena -> Blocks]
      BY <3>1 DEF Blocks
    <3> HIDE DEF L
    <3> QED
      BY <3>2, MemNumbers
  <2>2. <<>> \o L = L
    <3> HIDE DEF L
    <3> QED
      BY <2>1
  <2> QED
    BY <1>1, <1>3, <1>4, <2>2
<1>6. L \in Seq(Blocks) /\ ToSet(L) = BlocksOf(a) /\ Distinct(L) /\ L # <<>>
  <2>1. \A k \in 1..blocks_per_arena : k - 1 \in Indices
    BY MemNumbers
  <2>2. \A i \in Indices : i + 1 \in 1..blocks_per_arena /\ (i + 1) - 1 = i
    BY MemNumbers
  <2>3. L \in [1..blocks_per_arena -> Blocks]
    BY <2>1 DEF Blocks
  <2>4. DOMAIN L = 1..blocks_per_arena /\ 1 \in DOMAIN L
    BY MemNumbers
  <2>5. ToSet(L) = BlocksOf(a)
    <3>1. ASSUME NEW k \in DOMAIN L PROVE L[k] \in BlocksOf(a)
      BY <2>1, <2>4 DEF BlocksOf
    <3>2. ASSUME NEW i \in Indices PROVE \E k \in DOMAIN L : L[k] = <<a, i>>
      <4>1. i + 1 \in DOMAIN L /\ L[i + 1] = <<a, i>>
        BY <2>2, <2>4
      <4> QED
        BY <4>1
    <3> QED
      BY <3>1, <3>2 DEF ToSet, BlocksOf
  <2>6. Distinct(L)
    <3>1. ASSUME NEW i \in 1..blocks_per_arena, NEW j \in 1..blocks_per_arena,
                 <<a, i - 1>> = <<a, j - 1>>
          PROVE  i = j
      <4>1. i - 1 = j - 1
        BY <3>1
      <4> QED
        BY <4>1
    <3> QED
      BY <2>4, <3>1 DEF Distinct
  <2>7. L \in Seq(Blocks)
    BY <2>3, MemNumbers
  <2>8. L # <<>>
    BY <2>4
  <2> QED
    BY <2>5, <2>6, <2>7, <2>8
<1> HIDE DEF L
<1>7. arenas[a] < 0 /\ arenas[a] \in Int
  <2>1. ~(arenas[a] >= 0)
    <3>1. Claimed(ArenaAt(a)) \subseteq used_map
      BY AreClaims, ClaimedOnce
    <3> QED
      BY <1>4, <3>1, ClaimedIs
  <2>2. arenas[a] \in Int
    BY DEF MemTypeOK
  <2> QED
    BY <2>1, <2>2
<1>8. /\ arenas' \in [Pages -> Nat \cup {-1}] /\ arenas'[a] = blocks_per_arena
      /\ arenas'[a] >= 0 /\ \A b \in Pages \ {a} : arenas'[b] = arenas[b]
  BY <1>5, MemNumbers DEF MemTypeOK
<1>9. MemTypeOK'
  <2>1. used_map' \subseteq Pages /\ run' \in [MemThreads -> Running]
    BY <1>1, <1>2, <1>4 DEF MemTypeOK
  <2> QED
    BY <1>1, <1>5, <1>6, <1>8, <2>1 DEF MemTypeOK
<1>10. LocksKept'
  BY <1>1, <1>2, <1>3, LocksMove DEF LocksFor, NeedsDesc
<1>11. ScansOK' /\ RequestsOK'
  <2>1. ScanFor(r, used_map') /\ RequestFor(r, free_list')
    BY <1>2, <1>5, <1>6 DEF ScanFor, RequestFor
  <2> QED
    BY <1>1, <1>3, <2>1, OthersScan, OthersRequest
<1>12. /\ run'[t] = r /\ \A u \in MemThreads \ {t} : run'[u] = run[u] /\ groups'[u] = groups[u]
       /\ groups'[t] = groups[t]
  BY <1>1 DEF MemTypeOK
<1>13. PagesApart'
  <2>1. OthersClaim({ClearOf(t)} \cup {GroupOf(t, f) : f \in {}} \cup {ArenaAt(b) : b \in {a}})
    BY <1>8, <1>12, OtherClaims
  <2>2. Claimed(ClearOf(t))' = {} /\ Claimed(ClearOf(t)) = {}
    BY <1>1, <1>2, <1>12 DEF Claimed, ClearOf, Is
  <2>3. OthersClaim({ArenaAt(a)})
    BY <2>1, <2>2 DEF OthersClaim
  <2>4. Claimed(ArenaAt(a))' = {a}
    BY <1>8 DEF Claimed, ArenaAt
  <2>5. Claimed(ArenaAt(a)) = {}
    <3>1. ~(arenas[a] >= 0)
      BY <1>7
    <3> QED
      BY <3>1, ClaimedIs
  <2>6. {a} \cap used_map = {} /\ Claimed(ArenaAt(a))' = Claimed(ArenaAt(a)) \cup {a}
    BY <1>4, <2>4, <2>5
  <2> QED
    BY <1>4, <2>3, <2>6, AreClaims, ClaimAdds
<1>14. BlocksApart'
  <2>1. OthersKept({ByThread(t), Freeing(t), Removed(t), TheList})
    BY <1>1, <1>12, OtherKeepers
  <2>2. Kept(ByThread(t))' = Kept(ByThread(t))
    BY <1>1 DEF Kept, ByThread
  <2>3. /\ Kept(Freeing(t))' = {} /\ Kept(Freeing(t)) = {}
        /\ Kept(Removed(t))' = {} /\ Kept(Removed(t)) = {}
    BY <1>1, <1>2, <1>12 DEF Kept, Freeing, Removed, Is
  <2>4. OthersKept({TheList})
    BY <2>1, <2>2, <2>3 DEF OthersKept
  <2>5. Kept(TheList)' = ToSet(L) /\ Kept(TheList) = {}
    BY <1>3, <1>5 DEF Kept, TheList, ToSet
  <2>6. PICK X : X = BlocksOf(a)
    OBVIOUS
  <2>7. X \cap Live = {}
    <3>1. \A b \in X : b[1] = a
      BY <2>6 DEF BlocksOf
    <3> QED
      BY <1>7, <3>1 DEF Live
  <2>8. Live' = Live \cup X
    <3>1. ASSUME NEW b \in Blocks PROVE arenas'[b[1]] >= 0 <=> arenas[b[1]] >= 0 \/ b \in X
      <4>1. b[1] \in Pages /\ b[2] \in Indices /\ b = <<b[1], b[2]>>
        BY DEF Blocks
      <4>2. b[1] = a => b \in X
        BY <2>6, <4>1 DEF BlocksOf
      <4>3. b \in X => b[1] = a
        BY <2>6 DEF BlocksOf
      <4> QED
        BY <1>8, <4>1, <4>2, <4>3
    <3>2. X \subseteq Blocks
      BY <2>6 DEF BlocksOf, Blocks
    <3> QED
      BY <3>1, <3>2 DEF Live
  <2>9. Kept(TheList)' = Kept(TheList) \cup X
    BY <1>6, <2>5, <2>6
  <2> QED
    BY <2>4, <2>7, <2>8, <2>9, AreKeepers, KeeperAdds
<1>15. CountsOK'
  <2>1. ASSUME NEW b \in Blocks, NEW u \in MemThreads PROVE Has(u, b)' <=> Has(u, b)
    BY <1>1, <1>2, <1>12 DEF Has, Is
  <2>2. ASSUME NEW c \in Pages PROVE Loose(c)' = Loose(c)
    <3>1. ASSUME NEW u \in MemThreads, NEW i \in Indices
          PROVE  Has(u, <<c, i>>)' <=> Has(u, <<c, i>>)
      BY <2>1 DEF Blocks
    <3> QED
      BY <3>1, LooseSame
  <2>3. Loose(a) = Indices
    <3>1. ASSUME NEW u \in MemThreads, NEW i \in Indices PROVE ~Has(u, <<a, i>>)
      <4>1. ~(arenas[<<a, i>>[1]] >= 0)
        BY <1>7
      <4> QED
        BY <4>1, HasOnce
    <3> QED
      BY <3>1, LooseIs
  <2>4. Cardinality(Indices) = blocks_per_arena
    BY IndexCount
  <2>5. ASSUME NEW c \in Pages, arenas'[c] >= 0 PROVE arenas'[c] = Cardinality(Loose(c))'
    <3>1. CASE c = a
      BY <1>8, <2>2, <2>3, <2>4, <3>1
    <3>2. CASE c # a
      BY <1>8, <2>2, <2>5, <3>2 DEF CountsOK
    <3> QED
      BY <3>1, <3>2
  <2> QED
    BY <2>5 DEF CountsOK
<1>16. RemovalsOK'
  <2>1. \A u \in MemThreads : run'[u].at # "remove"
    BY <1>2, <1>3, <1>12, OthersWait DEF NeedsDesc
  <2> QED
    BY <2>1 DEF RemovalsOK, Is
<1>17. Distinct(free_list)'
  BY <1>5, <1>6 DEF Distinct
<1> QED
  BY <1>9, <1>10, <1>11, <1>13, <1>14, <1>15, <1>16, <1>17

\* The free list with a block taken from its front, from anywhere, or put in front.
LEMMA ListTail ==
  ASSUME NEW S, NEW s \in Seq(S), s # <<>>, Distinct(s)
  PROVE  /\ Head(s) \in S /\ Head(s) \in ToSet(s) /\ Tail(s) \in Seq(S)
         /\ Distinct(Tail(s)) /\ ToSet(Tail(s)) = ToSet(s) \ {Head(s)}
<1> DEFINE n == Len(s)
           q == Tail(s)
<1>1. n \in Nat /\ n >= 1 /\ DOMAIN s = 1..n /\ q \in Seq(S) /\ Len(q) = n - 1 /\ Head(s) = s[1]
  OBVIOUS
<1>2. DOMAIN q = 1..(n - 1)
  BY <1>1
<1>3. \A i \in 1..(n - 1) : q[i] = s[i + 1] /\ i + 1 \in 1..n
  BY <1>1
<1>4. 1 \in 1..n /\ \A j \in 1..n : j # 1 => j - 1 \in 1..(n - 1) /\ (j - 1) + 1 = j
  BY <1>1
<1> HIDE DEF n, q
<1>5. \A i, j \in 1..n : s[i] = s[j] => i = j
  BY <1>1 DEF Distinct
<1>6. Distinct(q)
  <2>1. ASSUME NEW i \in 1..(n - 1), NEW j \in 1..(n - 1), q[i] = q[j] PROVE i = j
    <3>1. i + 1 = j + 1
      BY <1>3, <1>5, <2>1
    <3> QED
      BY <3>1
  <2> QED
    BY <1>2, <2>1 DEF Distinct
<1>7. ToSet(q) = ToSet(s) \ {s[1]}
  <2>1. ASSUME NEW i \in 1..(n - 1) PROVE q[i] \in ToSet(s) /\ q[i] # s[1]
    <3>1. i + 1 # 1
      OBVIOUS
    <3> QED
      BY <1>1, <1>3, <1>4, <1>5, <3>1 DEF ToSet
  <2>2. ASSUME NEW j \in 1..n, s[j] # s[1] PROVE s[j] \in ToSet(q)
    <3>1. j - 1 \in 1..(n - 1) /\ q[j - 1] = s[j]
      BY <1>3, <1>4, <2>2
    <3> QED
      BY <1>2, <3>1 DEF ToSet
  <2> QED
    BY <1>1, <1>2, <2>1, <2>2 DEF ToSet
<1>8. Head(s) \in S /\ Head(s) \in ToSet(s)
  BY <1>1, <1>4 DEF ToSet
<1> QED
  BY <1>1, <1>6, <1>7, <1>8 DEF q

LEMMA ListRemoveAt ==
  ASSUME NEW S, NEW s \in Seq(S), NEW k \in DOMAIN s, Distinct(s)
  PROVE  /\ RemoveAt(s, k) \in Seq(S) /\ Distinct(RemoveAt(s, k))
         /\ ToSet(RemoveAt(s, k)) = ToSet(s) \ {s[k]}
<1> DEFINE n == Len(s)
           q == RemoveAt(s, k)
<1>1. n \in Nat /\ DOMAIN s = 1..n /\ k \in 1..n
  OBVIOUS
<1>2. /\ q \in Seq(S) /\ Len(q) = n - 1
      /\ \A i \in 1..(n - 1) : q[i] = IF i < k THEN s[i] ELSE s[i + 1]
  <2> DEFINE u == SubSeq(s, 1, k - 1)
             v == SubSeq(s, k + 1, n)
  <2>1. u \in Seq(S) /\ Len(u) = k - 1 /\ \A i \in 1..(k - 1) : u[i] = s[i]
    BY <1>1
  <2>2. v \in Seq(S) /\ Len(v) = n - k /\ \A i \in 1..(n - k) : v[i] = s[k + i]
    BY <1>1
  <2>3. q = u \o v
    BY DEF RemoveAt
  <2> HIDE DEF u, v, n, q
  <2>4. Len(q) = (k - 1) + (n - k) /\ q \in Seq(S)
    BY <2>1, <2>2, <2>3
  <2>5. \A i \in 1..((k - 1) + (n - k)) : q[i] = IF i <= k - 1 THEN u[i] ELSE v[i - (k - 1)]
    BY <2>1, <2>2, <2>3
  <2>6. (k - 1) + (n - k) = n - 1
    BY <1>1
  <2>7. ASSUME NEW i \in 1..(n - 1), i < k PROVE q[i] = s[i]
    <3>1. i <= k - 1 /\ i \in 1..(k - 1)
      BY <1>1, <2>7
    <3> QED
      BY <2>1, <2>5, <2>6, <3>1
  <2>8. ASSUME NEW i \in 1..(n - 1), ~(i < k) PROVE q[i] = s[i + 1]
    <3>1. ~(i <= k - 1) /\ i - (k - 1) \in 1..(n - k) /\ k + (i - (k - 1)) = i + 1
      BY <1>1, <2>8
    <3> QED
      BY <2>2, <2>5, <2>6, <3>1
  <2> QED
    BY <2>4, <2>6, <2>7, <2>8
<1>3. DOMAIN q = 1..(n - 1)
  BY <1>1, <1>2
<1> DEFINE at(i) == IF i < k THEN i ELSE i + 1
<1>4. \A i \in 1..(n - 1) : at(i) \in 1..n /\ at(i) # k
  BY <1>1
<1>5. \A i, j \in 1..(n - 1) : at(i) = at(j) => i = j
  BY <1>1
<1>6. \A j \in 1..n : j # k => \E i \in 1..(n - 1) : at(i) = j
  <2>1. ASSUME NEW j \in 1..n, j < k PROVE j \in 1..(n - 1) /\ at(j) = j
    BY <1>1, <2>1
  <2>2. ASSUME NEW j \in 1..n, j > k PROVE j - 1 \in 1..(n - 1) /\ at(j - 1) = j
    BY <1>1, <2>2
  <2> QED
    BY <1>1, <2>1, <2>2
<1>7. \A i \in 1..(n - 1) : q[i] = s[at(i)]
  BY <1>2
<1> HIDE DEF n, q, at
<1>8. \A i, j \in 1..n : s[i] = s[j] => i = j
  BY <1>1 DEF Distinct
<1>9. Distinct(q)
  BY <1>3, <1>4, <1>5, <1>7, <1>8 DEF Distinct
<1>10. ToSet(q) = ToSet(s) \ {s[k]}
  <2>1. ASSUME NEW i \in 1..(n - 1) PROVE q[i] \in ToSet(s) /\ q[i] # s[k]
    BY <1>1, <1>4, <1>7, <1>8 DEF ToSet
  <2>2. ASSUME NEW j \in 1..n, s[j] # s[k] PROVE s[j] \in ToSet(q)
    <3>1. PICK i \in 1..(n - 1) : at(i) = j
      BY <1>6, <2>2
    <3> QED
      BY <1>3, <1>7, <3>1 DEF ToSet
  <2> QED
    BY <1>1, <1>3, <2>1, <2>2 DEF ToSet
<1> QED
  BY <1>2, <1>9, <1>10 DEF q

LEMMA ListCons ==
  ASSUME NEW S, NEW s \in Seq(S), NEW b \in S, b \notin ToSet(s), Distinct(s)
  PROVE  /\ <<b>> \o s \in Seq(S) /\ Distinct(<<b>> \o s)
         /\ ToSet(<<b>> \o s) = ToSet(s) \cup {b}
<1> DEFINE n == Len(s)
           q == <<b>> \o s
<1>1. n \in Nat /\ DOMAIN s = 1..n
  OBVIOUS
<1>2. /\ q \in Seq(S) /\ DOMAIN q = 1..(n + 1) /\ q[1] = b
      /\ \A j \in 1..(n + 1) : j # 1 => q[j] = s[j - 1] /\ j - 1 \in 1..n
  BY <1>1
<1>3. 1 \in 1..(n + 1) /\ \A i \in 1..n : i + 1 \in 1..(n + 1) /\ i + 1 # 1 /\ (i + 1) - 1 = i
  BY <1>1
<1> HIDE DEF n, q
<1>4. \A i \in 1..n : s[i] # b
  BY <1>1 DEF ToSet
<1>5. \A i, j \in 1..n : s[i] = s[j] => i = j
  BY <1>1 DEF Distinct
<1>6. Distinct(q)
  <2>1. ASSUME NEW i \in 1..(n + 1), NEW j \in 1..(n + 1), q[i] = q[j], i # 1, j # 1 PROVE i = j
    <3>1. i - 1 = j - 1
      BY <1>2, <1>5, <2>1
    <3> QED
      BY <3>1
  <2>2. \A i \in 1..(n + 1) : i # 1 => q[i] # q[1]
    BY <1>2, <1>4
  <2> QED
    BY <1>2, <1>3, <2>1, <2>2 DEF Distinct
<1>7. ToSet(q) = ToSet(s) \cup {b}
  <2>1. ASSUME NEW j \in 1..(n + 1) PROVE q[j] \in ToSet(s) \cup {b}
    BY <1>1, <1>2 DEF ToSet
  <2>2. b \in ToSet(q)
    BY <1>2, <1>3 DEF ToSet
  <2>3. ASSUME NEW i \in 1..n PROVE s[i] \in ToSet(q)
    <3>1. i + 1 \in DOMAIN q /\ q[i + 1] = s[i]
      BY <1>2, <1>3
    <3> QED
      BY <3>1 DEF ToSet
  <2> QED
    BY <1>1, <1>2, <2>1, <2>2, <2>3 DEF ToSet
<1> QED
  BY <1>2, <1>6, <1>7 DEF q

\* An arena's block taken by a thread, and given back.
LEMMA LooseLoses ==
  ASSUME NEW a \in Pages, NEW i \in Indices,
         \A t \in MemThreads, j \in Indices \ {i} : Has(t, <<a, j>>)' <=> Has(t, <<a, j>>),
         \E t \in MemThreads : Has(t, <<a, i>>)'
  PROVE  Loose(a)' = Loose(a) \ {i}
<1>1. \A j \in Indices \ {i} : Holders(<<a, j>>)' = Holders(<<a, j>>)
  BY HoldersSame
<1>2. Holders(<<a, i>>)' # {}
  BY DEF Holders, Has
<1>3. Loose(a)' = {j \in Indices : Holders(<<a, j>>)' = {}}
  BY DEF Loose
<1> QED
  BY <1>1, <1>2, <1>3 DEF Loose

LEMMA LooseGains ==
  ASSUME NEW a \in Pages, NEW i \in Indices,
         \A t \in MemThreads, j \in Indices \ {i} : Has(t, <<a, j>>)' <=> Has(t, <<a, j>>),
         \A t \in MemThreads : ~Has(t, <<a, i>>)'
  PROVE  Loose(a)' = Loose(a) \cup {i}
<1>1. \A j \in Indices \ {i} : Holders(<<a, j>>)' = Holders(<<a, j>>)
  BY HoldersSame
<1>2. Holders(<<a, i>>)' = {}
  BY DEF Holders, Has
<1>3. Loose(a)' = {j \in Indices : Holders(<<a, j>>)' = {}}
  BY DEF Loose
<1> QED
  BY <1>1, <1>2, <1>3 DEF Loose

\* A step that changes what threads have of one arena only.
LEMMA CountsAt ==
  ASSUME CountsOK, NEW a \in Pages, \A c \in Pages \ {a} : arenas'[c] = arenas[c],
         \A t \in MemThreads, c \in Pages \ {a}, i \in Indices :
           Has(t, <<c, i>>)' <=> Has(t, <<c, i>>),
         arenas'[a] >= 0 => arenas'[a] = Cardinality(Loose(a)')
  PROVE  CountsOK'
<1>1. ASSUME NEW c \in Pages \ {a}, arenas'[c] >= 0 PROVE arenas'[c] = Cardinality(Loose(c)')
  <2>1. Loose(c)' = Loose(c)
    BY LooseSame
  <2> QED
    BY <1>1, <2>1 DEF CountsOK
<1> QED
  BY <1>1 DEF CountsOK

LEMMA PopKeeps ==
  ASSUME MemInv, NEW t \in MemThreads, Pop(t)
  PROVE  MemInv'
<1> USE DEF MemInv
<1>1. PICK b, r :
        /\ b = Head(free_list) /\ r = Out /\ run[t].at = "pop"
        /\ free_list' = Tail(free_list)
        /\ arenas' = [arenas EXCEPT ![b[1]] = @ - 1]
        /\ blocks' = [blocks EXCEPT ![t] = @ \cup {b}]
        /\ desc_lock' = NoLock /\ run' = [run EXCEPT ![t] = r]
        /\ used_map' = used_map /\ pool_lock' = pool_lock /\ groups' = groups
  BY DEF Pop, Is, Enter, block_to_arena
<1>2. r \in Running /\ r.at = "out"
  BY <1>1 DEF Running, Out
<1>3. desc_lock = t /\ free_list # <<>>
  BY <1>1 DEF LocksKept, LocksFor, NeedsDesc, RequestsOK, RequestFor
<1>4. free_list \in Seq(Blocks) /\ Distinct(free_list)
  BY DEF MemTypeOK
<1>5. /\ b \in Blocks /\ b \in ToSet(free_list) /\ free_list' \in Seq(Blocks)
      /\ Distinct(free_list)' /\ ToSet(free_list') = ToSet(free_list) \ {b}
  <2>1. Distinct(Tail(free_list)) /\ free_list' = Tail(free_list)
    BY <1>1, <1>3, <1>4, ListTail
  <2>2. Distinct(free_list')
    BY <2>1
  <2>3. Distinct(free_list)'
    BY <2>2 DEF Distinct
  <2> QED
    BY <1>1, <1>3, <1>4, <2>1, <2>3, ListTail
<1>6. PICK a \in Pages, i \in Indices : b = <<a, i>>
  BY <1>5 DEF Blocks
<1>7. /\ arenas' = [arenas EXCEPT ![a] = arenas[a] - 1]
      /\ run'[t] = r /\ \A u \in MemThreads \ {t} : run'[u] = run[u] /\ blocks'[u] = blocks[u]
      /\ blocks'[t] = blocks[t] \cup {b}
  <2>1. b[1] = a
    BY <1>6
  <2>2. arenas' = [arenas EXCEPT ![a] = arenas[a] - 1]
    BY <1>1, <2>1
  <2>3. run'[t] = r /\ \A u \in MemThreads \ {t} : run'[u] = run[u]
    BY <1>1 DEF MemTypeOK
  <2>4. blocks'[t] = blocks[t] \cup {b} /\ \A u \in MemThreads \ {t} : blocks'[u] = blocks[u]
    BY <1>1 DEF MemTypeOK
  <2> QED
    BY <2>2, <2>3, <2>4
<1>8. arenas[a] >= 0 /\ \A u \in MemThreads : ~Has(u, b)
  <2>1. b \in Kept(TheList)
    BY <1>5, KeptIs
  <2>2. b \in Live
    BY <2>1, AreKeepers, KeptOnce
  <2>3. arenas[a] >= 0
    BY <1>6, <2>2 DEF Live
  <2> QED
    BY <1>5, <2>3, HasOnce
<1>9. /\ Loose(a)' = Loose(a) \ {i} /\ i \in Loose(a)
      /\ \A u \in MemThreads, c \in Pages \ {a}, j \in Indices : Has(u, <<c, j>>)' <=> Has(u, <<c, j>>)
  <2>1. ASSUME NEW u \in MemThreads, NEW c, c # b PROVE Has(u, c)' <=> Has(u, c)
    <3>1. c \in blocks'[u] <=> c \in blocks[u]
      BY <1>7, <2>1
    <3>2. (Is(u, "free") /\ run[u].block = c)' <=> (Is(u, "free") /\ run[u].block = c)
      BY <1>1, <1>2, <1>7 DEF Is
    <3> QED
      BY <3>1, <3>2 DEF Has
  <2>2. Has(t, <<a, i>>)'
    BY <1>6, <1>7 DEF Has
  <2>3. Loose(a)' = Loose(a) \ {i}
    BY <1>6, <2>1, <2>2, LooseLoses
  <2>4. i \in Loose(a)
    BY <1>6, <1>8, LooseIs
  <2> QED
    BY <1>6, <2>1, <2>3, <2>4
<1>10. /\ arenas'[a] = arenas[a] - 1 /\ arenas'[a] >= 0 /\ arenas'[a] \in Nat
       /\ arenas'[a] = Cardinality(Loose(a)')
       /\ \A c \in Pages \ {a} : arenas'[c] = arenas[c]
  <2>1. PICK S : S = Loose(a) /\ IsFiniteSet(S) /\ Cardinality(S) \in Nat
    BY LooseIs
  <2>2. arenas[a] = Cardinality(S)
    BY <1>8, <2>1 DEF CountsOK
  <2>3. Cardinality(S \ {i}) = Cardinality(S) - 1 /\ Cardinality(S \ {i}) \in Nat
    BY <1>9, <2>1, FS_RemoveElement, FS_CardinalityType
  <2>4. Loose(a)' = S \ {i}
    BY <1>9, <2>1
  <2>5. arenas'[a] = arenas[a] - 1 /\ \A c \in Pages \ {a} : arenas'[c] = arenas[c]
    BY <1>7 DEF MemTypeOK
  <2> QED
    BY <2>1, <2>2, <2>3, <2>4, <2>5
<1>11. \A c \in Pages : arenas'[c] >= 0 <=> arenas[c] >= 0
  BY <1>8, <1>10
<1>12. MemTypeOK'
  <2>1. arenas' \in [Pages -> Nat \cup {-1}]
    BY <1>7, <1>10 DEF MemTypeOK
  <2> QED
    BY <1>1, <1>2, <1>5, <2>1 DEF MemTypeOK
<1>13. LocksKept'
  BY <1>1, <1>2, <1>3, LocksMove DEF LocksFor, NeedsDesc
<1>14. ScansOK' /\ RequestsOK'
  <2>1. ScanFor(r, used_map') /\ RequestFor(r, free_list')
    BY <1>2 DEF ScanFor, RequestFor
  <2>2. used_map' \subseteq used_map
    BY <1>1
  <2> QED
    BY <1>1, <1>3, <2>1, <2>2, OthersScan, OthersRequest
<1>15. PagesApart'
  BY <1>1, <1>2, <1>11, PagesKeep
<1>16. BlocksApart'
  <2>1. OthersKept({ByThread(t), Freeing(t), Removed(t), TheList})
    BY <1>7, OtherKeepers
  <2>2. /\ Kept(Freeing(t))' = {} /\ Kept(Freeing(t)) = {}
        /\ Kept(Removed(t))' = {} /\ Kept(Removed(t)) = {}
    BY <1>1, <1>2, <1>7 DEF Kept, Freeing, Removed, Is
  <2>3. OthersKept({TheList, ByThread(t)})
    BY <2>1, <2>2 DEF OthersKept
  <2>4. Live' = Live
    BY <1>11 DEF Live, Blocks
  <2>5. /\ {b} \subseteq Kept(TheList) /\ Kept(TheList)' = Kept(TheList) \ {b}
        /\ Kept(ByThread(t))' = Kept(ByThread(t)) \cup {b}
    BY <1>5, <1>7 DEF Kept, ByThread, TheList
  <2> QED
    BY <2>3, <2>4, <2>5, AreKeepers, KeeperMoves, ZenonT(60)
<1>17. CountsOK'
  BY <1>9, <1>10, CountsAt
<1>18. RemovalsOK'
  <2>1. \A u \in MemThreads : run'[u].at # "remove"
    BY <1>2, <1>3, <1>7, OthersWait DEF NeedsDesc
  <2> QED
    BY <2>1 DEF RemovalsOK, Is
<1> QED
  BY <1>5, <1>12, <1>13, <1>14, <1>15, <1>16, <1>17, <1>18

LEMMA FreeKeeps ==
  ASSUME MemInv, NEW t \in MemThreads, Free(t)
  PROVE  MemInv'
<1> USE DEF MemInv
<1>1. PICK b \in blocks[t] :
        /\ run[t].at = "out"
        /\ blocks' = [blocks EXCEPT ![t] = @ \ {b}]
        /\ run' = [run EXCEPT ![t] = [at |-> "free", block |-> b]]
        /\ used_map' = used_map /\ pool_lock' = pool_lock /\ desc_lock' = desc_lock
        /\ arenas' = arenas /\ free_list' = free_list /\ groups' = groups
  BY DEF Free, Is, Enter
<1>2. b \in Blocks
  BY DEF MemTypeOK
<1>3. PICK r \in Running : r = [at |-> "free", block |-> b] /\ r.at = "free" /\ r.block = b
  <2>1. [at |-> "free", block |-> b] \in [at : {"free"}, block : Blocks]
    BY <1>2
  <2>2. [at |-> "free", block |-> b] \in Running
    BY <2>1 DEF Running
  <2> QED
    BY <2>2
<1>4. /\ run' = [run EXCEPT ![t] = r]
      /\ run'[t] = r /\ \A u \in MemThreads \ {t} : run'[u] = run[u] /\ blocks'[u] = blocks[u]
      /\ blocks'[t] = blocks[t] \ {b}
  BY <1>1, <1>3 DEF MemTypeOK
<1>5. MemTypeOK'
  BY <1>1, <1>4 DEF MemTypeOK
<1>6. LocksKept'
  BY <1>1, <1>3, <1>4, LocksMove DEF LocksFor, NeedsDesc
<1>7. ScansOK' /\ RequestsOK'
  <2>1. ScanFor(r, used_map') /\ RequestFor(r, free_list')
    BY <1>3 DEF ScanFor, RequestFor
  <2>2. used_map' \subseteq used_map
    BY <1>1
  <2> QED
    BY <1>1, <1>4, <2>1, <2>2, OthersScan, OthersRequest
<1>8. PagesApart'
  BY <1>1, <1>3, <1>4, PagesKeep
<1>9. BlocksApart'
  <2>1. OthersKept({ByThread(t), Freeing(t), Removed(t), TheList})
    BY <1>4, OtherKeepers
  <2>2. /\ Kept(TheList)' = Kept(TheList)
        /\ Kept(Removed(t))' = {} /\ Kept(Removed(t)) = {}
    BY <1>1, <1>3, <1>4 DEF Kept, TheList, Removed, Is
  <2>3. OthersKept({ByThread(t), Freeing(t)})
    BY <2>1, <2>2 DEF OthersKept
  <2>4. Live' = Live
    BY <1>1 DEF Live
  <2>5. /\ {b} \subseteq Kept(ByThread(t)) /\ Kept(ByThread(t))' = Kept(ByThread(t)) \ {b}
        /\ Kept(Freeing(t))' = Kept(Freeing(t)) \cup {b}
    BY <1>1, <1>3, <1>4 DEF Kept, ByThread, Freeing, Is
  <2> QED
    BY <2>3, <2>4, <2>5, AreKeepers, KeeperMoves, ZenonT(60)
<1>10. CountsOK'
  <2>1. ASSUME NEW u \in MemThreads, NEW c \in Blocks PROVE Has(u, c)' <=> Has(u, c)
    <3>1. CASE u = t
      <4>1. Has(t, c)' <=> c \in blocks'[t] \/ c = b
        BY <1>3, <1>4 DEF Has, Is
      <4>2. Has(t, c) <=> c \in blocks[t]
        BY <1>1 DEF Has, Is
      <4> QED
        BY <1>1, <1>4, <3>1, <4>1, <4>2
    <3>2. CASE u # t
      BY <1>4, <3>2 DEF Has, Is
    <3> QED
      BY <3>1, <3>2
  <2> QED
    BY <1>1, <2>1, CountsStay
<1>11. RemovalsOK' /\ Distinct(free_list)'
  BY <1>1, <1>3, <1>4 DEF RemovalsOK, Is, Distinct
<1> QED
  BY <1>5, <1>6, <1>7, <1>8, <1>9, <1>10, <1>11

LEMMA FreeLockedKeeps ==
  ASSUME MemInv, NEW t \in MemThreads, FreeLocked(t)
  PROVE  MemInv'
<1> USE DEF MemInv
<1>1. PICK b, a :
        /\ b = run[t].block /\ a = b[1] /\ run[t].at = "free" /\ desc_lock = NoLock
        /\ free_list' = <<b>> \o free_list
        /\ arenas' = [arenas EXCEPT ![a] = @ + 1]
        /\ desc_lock' = IF arenas[a] + 1 >= blocks_per_arena THEN t ELSE NoLock
        /\ run' = [run EXCEPT ![t] = IF arenas[a] + 1 >= blocks_per_arena
                                     THEN [at |-> "remove", arena |-> a, idx |-> 0] ELSE Out]
        /\ used_map' = used_map /\ pool_lock' = pool_lock /\ groups' = groups /\ blocks' = blocks
  BY DEF FreeLocked, Is, Enter, block_to_arena
<1>2. b \in Blocks /\ Has(t, b)
  <2>1. run[t] \in Running
    BY DEF MemTypeOK
  <2> QED
    BY <1>1, <2>1, RunIs DEF Has, Is
<1>3. /\ b \in Live /\ arenas[a] >= 0 /\ (\A u \in MemThreads : Has(u, b) => u = t)
      /\ b \notin ToSet(free_list) /\ b \notin blocks[t]
  BY <1>1, <1>2, HasOnce DEF Is
<1>4. PICK i \in Indices : a \in Pages /\ b = <<a, i>>
  BY <1>1, <1>2 DEF Blocks
<1>5. PICK r \in Running :
        /\ run' = [run EXCEPT ![t] = r] /\ r.at \in {"out", "remove"}
        /\ r.at = "out" => desc_lock' = NoLock
        /\ r.at = "remove" => /\ r.arena = a /\ r.idx = 0 /\ desc_lock' = t
                              /\ arenas[a] + 1 >= blocks_per_arena
  <2>1. CASE arenas[a] + 1 >= blocks_per_arena
    <3>1. PICK r : r = [at |-> "remove", arena |-> a, idx |-> 0]
      OBVIOUS
    <3>2. 0 \in 0..blocks_per_arena
      BY MemNumbers
    <3>3. r \in [at : {"remove"}, arena : Pages, idx : 0..blocks_per_arena]
      BY <1>4, <3>1, <3>2
    <3>4. r \in Running
      BY <3>3 DEF Running
    <3> QED
      BY <1>1, <2>1, <3>1, <3>4
  <2>2. CASE ~(arenas[a] + 1 >= blocks_per_arena)
    <3>1. Out \in Running /\ Out.at = "out"
      BY DEF Running, Out
    <3> QED
      BY <1>1, <2>2, <3>1
  <2> QED
    BY <2>1, <2>2
<1>6. run'[t] = r /\ \A u \in MemThreads \ {t} : run'[u] = run[u] /\ blocks'[u] = blocks[u]
  BY <1>1, <1>5 DEF MemTypeOK
<1>7. /\ free_list' \in Seq(Blocks) /\ Distinct(free_list)'
      /\ ToSet(free_list') = ToSet(free_list) \cup {b}
  <2>1. free_list \in Seq(Blocks) /\ Distinct(free_list)
    BY DEF MemTypeOK
  <2>2. Distinct(<<b>> \o free_list)
    BY <1>2, <1>3, <2>1, ListCons
  <2>3. Distinct(free_list')
    BY <1>1, <2>2
  <2>4. Distinct(free_list)'
    BY <2>3 DEF Distinct
  <2> QED
    BY <1>1, <1>2, <1>3, <2>1, <2>4, ListCons
<1>8. /\ Loose(a)' = Loose(a) \cup {i} /\ i \notin Loose(a)
      /\ \A u \in MemThreads, c \in Pages \ {a}, j \in Indices : Has(u, <<c, j>>)' <=> Has(u, <<c, j>>)
  <2>1. ASSUME NEW u \in MemThreads, NEW c, c # b PROVE Has(u, c)' <=> Has(u, c)
    <3>1. c \in blocks'[u] <=> c \in blocks[u]
      BY <1>1
    <3>2. (Is(u, "free") /\ run[u].block = c)' <=> (Is(u, "free") /\ run[u].block = c)
      BY <1>1, <1>5, <1>6, <2>1 DEF Is
    <3> QED
      BY <3>1, <3>2 DEF Has
  <2>2. ASSUME NEW u \in MemThreads PROVE ~Has(u, b)'
    <3>1. CASE u = t
      BY <1>1, <1>3, <1>5, <1>6, <3>1 DEF Has, Is
    <3>2. CASE u # t
      <4>1. ~Has(u, b)
        BY <1>3, <3>2
      <4> QED
        BY <1>1, <1>6, <3>2, <4>1 DEF Has, Is
    <3> QED
      BY <3>1, <3>2
  <2>3. \A u \in MemThreads : ~Has(u, <<a, i>>)'
    BY <1>4, <2>2
  <2>4. Loose(a)' = Loose(a) \cup {i}
    BY <1>4, <2>1, <2>3, LooseGains
  <2>5. i \notin Loose(a)
    BY <1>2, <1>4, LooseIs
  <2> QED
    BY <1>4, <2>1, <2>4, <2>5
<1>9. /\ arenas'[a] = arenas[a] + 1 /\ arenas'[a] \in Nat /\ arenas[a] \in Nat
      /\ arenas'[a] = Cardinality(Loose(a)')
      /\ \A c \in Pages \ {a} : arenas'[c] = arenas[c]
  <2>1. PICK S : S = Loose(a) /\ IsFiniteSet(S) /\ Cardinality(S) \in Nat
    BY <1>4, LooseIs
  <2>2. arenas[a] = Cardinality(S)
    BY <1>3, <1>4, <2>1 DEF CountsOK
  <2>3. Cardinality(S \cup {i}) = Cardinality(S) + 1
    BY <1>8, <2>1, FS_AddElement
  <2>4. Loose(a)' = S \cup {i}
    BY <1>8, <2>1
  <2>5. arenas'[a] = arenas[a] + 1 /\ \A c \in Pages \ {a} : arenas'[c] = arenas[c]
    BY <1>1, <1>4 DEF MemTypeOK
  <2> QED
    BY <2>1, <2>2, <2>3, <2>4, <2>5
<1>10. \A c \in Pages : arenas'[c] >= 0 <=> arenas[c] >= 0
  BY <1>9
<1>11. MemTypeOK'
  <2>1. arenas' \in [Pages -> Nat \cup {-1}]
    BY <1>1, <1>9 DEF MemTypeOK
  <2> QED
    BY <1>1, <1>5, <1>7, <2>1 DEF MemTypeOK
<1>12. LocksKept'
  <2>1. LocksFor(t, r, pool_lock', desc_lock')
    BY <1>5 DEF LocksFor, NeedsDesc
  <2> QED
    BY <1>1, <1>5, <2>1, LocksMove
<1>13. ScansOK' /\ RequestsOK'
  <2>1. ScanFor(r, used_map') /\ RequestFor(r, free_list')
    BY <1>5 DEF ScanFor, RequestFor
  <2>2. used_map' \subseteq used_map
    BY <1>1
  <2> QED
    BY <1>1, <1>5, <2>1, <2>2, OthersScan, OthersRequest
<1>14. PagesApart'
  BY <1>1, <1>5, <1>10, PagesKeep
<1>15. BlocksApart'
  <2>1. OthersKept({ByThread(t), Freeing(t), Removed(t), TheList})
    BY <1>6, OtherKeepers
  <2>2. Kept(ByThread(t))' = Kept(ByThread(t)) /\ Kept(Removed(t)) = {}
    BY <1>1 DEF Kept, ByThread, Removed, Is
  <2>3. Kept(Removed(t))' = {}
    <3>1. Kept(Removed(t))' = IF r.at = "remove" THEN {<<r.arena, j>> : j \in 0..(r.idx - 1)} ELSE {}
      BY <1>6 DEF Kept, Removed, Is
    <3>2. r.at = "remove" => 0..(r.idx - 1) = {}
      BY <1>5
    <3> QED
      BY <3>1, <3>2
  <2>4. OthersKept({Freeing(t), TheList})
    BY <2>1, <2>2, <2>3 DEF OthersKept
  <2>5. Live' = Live
    BY <1>10 DEF Live, Blocks
  <2>6. /\ {b} \subseteq Kept(Freeing(t)) /\ Kept(Freeing(t))' = Kept(Freeing(t)) \ {b}
        /\ Kept(TheList)' = Kept(TheList) \cup {b}
    BY <1>1, <1>5, <1>6, <1>7 DEF Kept, Freeing, TheList, Is
  <2>7. BlocksApart /\ Freeing(t) \in Keepers /\ TheList \in Keepers /\ Freeing(t) # TheList
    BY AreKeepers
  <2> QED
    BY <2>4, <2>5, <2>6, <2>7, KeeperMoves
<1>16. CountsOK'
  BY <1>4, <1>8, <1>9, CountsAt
<1>17. RemovalsOK'
  <2>1. \A u \in MemThreads \ {t} : run'[u].at # "remove"
    BY <1>1, <1>6, OthersWait DEF NeedsDesc
  <2>2. r.at = "remove" => arenas'[r.arena] >= blocks_per_arena
    BY <1>5, <1>9
  <2> QED
    BY <1>6, <2>1, <2>2 DEF RemovalsOK, Is
<1> QED
  BY <1>7, <1>11, <1>12, <1>13, <1>14, <1>15, <1>16, <1>17

\* When an arena is dissolved, its blocks not yet taken off the free list are there.
LEMMA StillListed ==
  ASSUME MemInv, NEW t \in MemThreads, Is(t, "remove"), run[t].idx < blocks_per_arena
  PROVE  /\ run[t].idx \in Indices /\ run[t].arena \in Pages
         /\ <<run[t].arena, run[t].idx>> \in ToSet(free_list)
<1> USE DEF MemInv
<1>1. PICK a \in Pages, i \in Indices : a = run[t].arena /\ i = run[t].idx
  <2>1. run[t] \in Running /\ run[t].at = "remove"
    BY DEF MemTypeOK, Is
  <2>2. run[t].arena \in Pages /\ run[t].idx \in 0..blocks_per_arena
    BY <2>1, RunIs
  <2> QED
    BY <2>2, MemNumbers
<1>2. arenas[a] >= blocks_per_arena /\ arenas[a] \in Int
  BY <1>1 DEF RemovalsOK, MemTypeOK
<1>3. Loose(a) = Indices
  <2>1. PICK S : S = Loose(a) /\ Cardinality(S) \in Nat /\ Cardinality(S) <= blocks_per_arena
                 /\ (Cardinality(S) = blocks_per_arena => S = Indices)
    BY LooseIs
  <2>2. arenas[a] >= 0
    BY <1>2, MemNumbers
  <2>3. arenas[a] = Cardinality(S)
    BY <2>1, <2>2 DEF CountsOK
  <2>4. Cardinality(S) = blocks_per_arena
    BY <1>2, <2>1, <2>3, MemNumbers
  <2> QED
    BY <2>1, <2>4
<1>4. \A u \in MemThreads : ~Has(u, <<a, i>>)
  BY <1>3, LooseIs
<1>5. <<a, i>> \in Live
  <2>1. arenas[a] >= 0
    BY <1>2, MemNumbers
  <2> QED
    BY <2>1 DEF Live, Blocks
<1>6. PICK k \in Keepers : <<a, i>> \in Kept(k)
  BY <1>5, KeptOnce
<1>7. ASSUME NEW u \in MemThreads PROVE k \notin {ByThread(u), Freeing(u)}
  <2>1. <<a, i>> \notin blocks[u] /\ ~(Is(u, "free") /\ run[u].block = <<a, i>>)
    BY <1>4 DEF Has
  <2> QED
    BY <1>6, <2>1, KeptIs
<1>8. ASSUME NEW u \in MemThreads PROVE k # Removed(u)
  <2>1. CASE u = t
    <3>1. Kept(Removed(t)) = {<<a, j>> : j \in 0..(i - 1)}
      BY <1>1, KeptIs
    <3>2. i \notin 0..(i - 1)
      BY MemNumbers
    <3> QED
      BY <1>6, <2>1, <3>1, <3>2
  <2>2. CASE u # t
    <3>1. desc_lock = t
      BY DEF LocksKept, LocksFor, NeedsDesc, Is
    <3>2. run[u].at # "remove"
      BY <2>2, <3>1, OthersWait DEF NeedsDesc
    <3> QED
      BY <1>6, <3>2, KeptIs DEF Is
  <2> QED
    BY <2>1, <2>2
<1>9. k = TheList
  BY <1>7, <1>8, KeeperCases
<1> QED
  BY <1>1, <1>6, <1>9, KeptIs

LEMMA ListRemoveKeeps ==
  ASSUME MemInv, NEW t \in MemThreads, ListRemove(t)
  PROVE  MemInv'
<1> USE DEF MemInv
<1>1. Is(t, "remove") /\ run[t].at = "remove" /\ run[t].idx < blocks_per_arena
  BY DEF ListRemove, Is
<1>2. PICK a \in Pages, i \in Indices :
        a = run[t].arena /\ i = run[t].idx /\ <<a, i>> \in ToSet(free_list)
  BY <1>1, StillListed
<1>3. PICK k \in DOMAIN free_list :
        /\ free_list[k] = <<a, i>> /\ free_list' = RemoveAt(free_list, k)
        /\ run' = [run EXCEPT ![t] = [run[t] EXCEPT !.idx = @ + 1]]
        /\ used_map' = used_map /\ pool_lock' = pool_lock /\ desc_lock' = desc_lock
        /\ arenas' = arenas /\ groups' = groups /\ blocks' = blocks
  <2>1. \E k \in DOMAIN free_list : free_list[k] = <<a, i>>
    BY <1>2 DEF ToSet
  <2>2. PICK k : k = CHOOSE j \in DOMAIN free_list : free_list[j] = <<a, i>>
    OBVIOUS
  <2>3. k \in DOMAIN free_list /\ free_list[k] = <<a, i>>
    BY <2>1, <2>2
  <2>4. free_list' = RemoveAt(free_list, k)
    BY <1>2, <2>2 DEF ListRemove, arena_to_block
  <2> QED
    BY <2>3, <2>4 DEF ListRemove, Enter
<1>4. PICK r \in Running :
        run' = [run EXCEPT ![t] = r] /\ r.at = "remove" /\ r.arena = a /\ r.idx = i + 1
  <2>1. run[t] \in [at : {"remove"}, arena : Pages, idx : 0..blocks_per_arena]
    BY <1>1 DEF MemTypeOK, Running
  <2>2. i + 1 \in 0..blocks_per_arena
    BY MemNumbers
  <2>3. PICK r : r = [run[t] EXCEPT !.idx = @ + 1]
    OBVIOUS
  <2>4. /\ r \in [at : {"remove"}, arena : Pages, idx : 0..blocks_per_arena]
        /\ r.at = "remove" /\ r.arena = a /\ r.idx = i + 1
    BY <1>2, <2>1, <2>2, <2>3
  <2>5. r \in Running
    BY <2>4 DEF Running
  <2> QED
    BY <1>3, <2>3, <2>4, <2>5
<1>5. run'[t] = r /\ \A u \in MemThreads \ {t} : run'[u] = run[u] /\ blocks'[u] = blocks[u]
  BY <1>3, <1>4 DEF MemTypeOK
<1>6. /\ free_list' \in Seq(Blocks) /\ Distinct(free_list)'
      /\ ToSet(free_list') = ToSet(free_list) \ {<<a, i>>}
  <2>1. free_list \in Seq(Blocks) /\ Distinct(free_list)
    BY DEF MemTypeOK
  <2>2. Distinct(RemoveAt(free_list, k))
    BY <2>1, ListRemoveAt
  <2>3. Distinct(free_list')
    BY <1>3, <2>2
  <2>4. Distinct(free_list)'
    BY <2>3 DEF Distinct
  <2> QED
    BY <1>3, <2>1, <2>4, ListRemoveAt
<1>7. desc_lock = t
  BY <1>1 DEF LocksKept, LocksFor, NeedsDesc
<1>8. MemTypeOK'
  BY <1>3, <1>4, <1>6 DEF MemTypeOK
<1>9. LocksKept'
  <2>1. LocksFor(t, r, pool_lock', desc_lock')
    BY <1>3, <1>4, <1>7 DEF LocksFor
  <2> QED
    BY <1>3, <1>4, <2>1, LocksMove
<1>10. ScansOK' /\ RequestsOK'
  <2>1. ScanFor(r, used_map') /\ RequestFor(r, free_list')
    BY <1>4 DEF ScanFor, RequestFor
  <2>2. used_map' \subseteq used_map
    BY <1>3
  <2> QED
    BY <1>4, <1>7, <2>1, <2>2, OthersScan, OthersRequest
<1>11. PagesApart'
  BY <1>1, <1>3, <1>4, PagesKeep
<1>12. BlocksApart'
  <2>1. OthersKept({ByThread(t), Freeing(t), Removed(t), TheList})
    BY <1>5, OtherKeepers
  <2>2. /\ Kept(ByThread(t))' = Kept(ByThread(t))
        /\ Kept(Freeing(t)) = {} /\ Kept(Freeing(t))' = {}
    BY <1>1, <1>3, <1>4, <1>5 DEF Kept, ByThread, Freeing, Is
  <2>3. OthersKept({TheList, Removed(t)})
    BY <2>1, <2>2 DEF OthersKept
  <2>4. Live' = Live
    BY <1>3 DEF Live
  <2>5. {<<a, i>>} \subseteq Kept(TheList) /\ Kept(TheList)' = Kept(TheList) \ {<<a, i>>}
    BY <1>2, <1>6 DEF Kept, TheList
  <2>6. Kept(Removed(t))' = Kept(Removed(t)) \cup {<<a, i>>}
    <3>1. Kept(Removed(t)) = {<<a, j>> : j \in 0..(i - 1)}
      BY <1>1, <1>2, KeptIs
    <3>2. Kept(Removed(t))' = {<<a, j>> : j \in 0..(r.idx - 1)}
      BY <1>4, <1>5 DEF Kept, Removed, Is
    <3>3. 0..(r.idx - 1) = 0..(i - 1) \cup {i}
      BY <1>4, MemNumbers
    <3> QED
      BY <3>1, <3>2, <3>3
  <2>7. BlocksApart /\ Removed(t) \in Keepers /\ TheList \in Keepers /\ Removed(t) # TheList
    BY AreKeepers
  <2> QED
    BY <2>3, <2>4, <2>5, <2>6, <2>7, KeeperMoves
<1>13. CountsOK'
  <2>1. ASSUME NEW u \in MemThreads, NEW c \in Blocks PROVE Has(u, c)' <=> Has(u, c)
    BY <1>1, <1>3, <1>4, <1>5 DEF Has, Is
  <2> QED
    BY <1>3, <2>1, CountsStay
<1>14. RemovalsOK'
  <2>1. arenas[a] >= blocks_per_arena
    BY <1>1, <1>2 DEF RemovalsOK
  <2> QED
    BY <1>3, <1>4, <1>5, <2>1 DEF RemovalsOK, Is
<1> QED
  BY <1>6, <1>8, <1>9, <1>10, <1>11, <1>12, <1>13, <1>14

LEMMA FreeArenaKeeps ==
  ASSUME MemInv, NEW t \in MemThreads, FreeArena(t)
  PROVE  MemInv'
<1> USE DEF MemInv
<1>1. PICK a :
        /\ a = run[t].arena /\ run[t].at = "remove" /\ run[t].idx >= blocks_per_arena
        /\ arenas' = [arenas EXCEPT ![a] = -1]
        /\ run' = [run EXCEPT ![t] = [at |-> "clear", left |-> {a}, for |-> "arena"]]
        /\ used_map' = used_map /\ pool_lock' = pool_lock /\ desc_lock' = desc_lock
        /\ free_list' = free_list /\ groups' = groups /\ blocks' = blocks
  BY DEF FreeArena, Is, Enter
<1>2. a \in Pages /\ run[t].idx = blocks_per_arena
  <2>1. run[t] \in Running
    BY DEF MemTypeOK
  <2>2. a \in Pages /\ run[t].idx \in 0..blocks_per_arena
    BY <1>1, <2>1, RunIs
  <2> QED
    BY <1>1, <2>2, MemNumbers
<1>3. PICK r \in Running :
        run' = [run EXCEPT ![t] = r] /\ r.at = "clear" /\ r.left = {a} /\ r.for = "arena"
  <2>1. PICK r : r = [at |-> "clear", left |-> {a}, for |-> "arena"]
    OBVIOUS
  <2>2. r \in [at : {"clear"}, left : (SUBSET Pages) \ {{}}, for : Uses]
    BY <1>2, <2>1 DEF Uses
  <2>3. r \in Running
    BY <2>2 DEF Running
  <2> QED
    BY <1>1, <2>1, <2>3
<1>4. /\ run'[t] = r
      /\ \A u \in MemThreads \ {t} : run'[u] = run[u] /\ blocks'[u] = blocks[u] /\ groups'[u] = groups[u]
  BY <1>1, <1>3 DEF MemTypeOK
<1>5. desc_lock = t
  BY <1>1 DEF LocksKept, LocksFor, NeedsDesc
<1>6. arenas[a] >= 0
  <2>1. arenas[a] >= blocks_per_arena /\ arenas[a] \in Int
    BY <1>1, <1>2 DEF RemovalsOK, Is, MemTypeOK
  <2> QED
    BY <2>1, MemNumbers
<1>7. /\ arenas' \in [Pages -> Nat \cup {-1}] /\ ~(arenas'[a] >= 0)
      /\ \A c \in Pages \ {a} : arenas'[c] = arenas[c]
  <2>1. arenas \in [Pages -> Nat \cup {-1}] /\ arenas' = [arenas EXCEPT ![a] = -1]
    BY <1>1 DEF MemTypeOK
  <2>2. ~(-1 >= 0) /\ -1 \in Nat \cup {-1}
    OBVIOUS
  <2>3. arenas'[a] = -1 /\ \A c \in Pages \ {a} : arenas'[c] = arenas[c]
    BY <1>2, <2>1
  <2>4. arenas' \in [Pages -> Nat \cup {-1}]
    BY <1>2, <2>1, <2>2
  <2>5. ~(arenas'[a] >= 0)
    BY <2>3
  <2>6. \A c \in Pages \ {a} : arenas'[c] = arenas[c]
    BY <2>3
  <2> QED
    BY <2>4, <2>5, <2>6
<1>8. MemTypeOK'
  <2>1. arenas' \in [Pages -> Nat \cup {-1}]
    BY <1>7
  <2>2. run' \in [MemThreads -> Running]
    BY <1>3 DEF MemTypeOK
  <2> QED
    BY <1>1, <2>1, <2>2 DEF MemTypeOK
<1>9. LocksKept'
  <2>1. LocksFor(t, r, pool_lock', desc_lock')
    BY <1>1, <1>3, <1>5 DEF LocksFor
  <2> QED
    BY <1>1, <1>3, <2>1, LocksMove
<1>10. ScansOK' /\ RequestsOK'
  <2>1. ScanFor(r, used_map') /\ RequestFor(r, free_list')
    BY <1>3 DEF ScanFor, RequestFor
  <2>2. used_map' \subseteq used_map
    BY <1>1
  <2> QED
    BY <1>1, <1>3, <2>1, <2>2, OthersScan, OthersRequest
<1>11. PagesApart'
  <2>1. OthersClaim({ClearOf(t)} \cup {GroupOf(t, f) : f \in {}} \cup {ArenaAt(b) : b \in {a}})
    BY <1>1, <1>4, <1>7, OtherClaims
  <2>2. OthersClaim({ArenaAt(a), ClearOf(t)})
    BY <2>1 DEF OthersClaim
  <2>3. Claimed(ArenaAt(a)) = {a} /\ Claimed(ClearOf(t)) = {}
    BY <1>1, <1>2, <1>6, ClaimedIs DEF Is
  <2>4. Claimed(ArenaAt(a))' = {} /\ Claimed(ClearOf(t))' = {a}
    BY <1>3, <1>4, <1>7 DEF Claimed, ArenaAt, ClearOf, Is
  <2>5. /\ {a} \subseteq Claimed(ArenaAt(a)) /\ Claimed(ArenaAt(a))' = Claimed(ArenaAt(a)) \ {a}
        /\ Claimed(ClearOf(t))' = Claimed(ClearOf(t)) \cup {a}
    BY <2>3, <2>4
  <2>6. ArenaAt(a) \in Claims /\ ClearOf(t) \in Claims /\ ArenaAt(a) # ClearOf(t)
    BY <1>2, AreClaims
  <2> QED
    BY <1>1, <2>2, <2>5, <2>6, ClaimMoves
<1>12. BlocksApart'
  <2>1. OthersKept({ByThread(t), Freeing(t), Removed(t), TheList})
    BY <1>4, OtherKeepers
  <2>2. /\ Kept(ByThread(t))' = Kept(ByThread(t)) /\ Kept(TheList)' = Kept(TheList)
        /\ Kept(Freeing(t)) = {} /\ Kept(Freeing(t))' = {} /\ Kept(Removed(t))' = {}
    BY <1>1, <1>3, <1>4 DEF Kept, ByThread, Freeing, TheList, Removed, Is
  <2>3. OthersKept({Removed(t)})
    BY <2>1, <2>2 DEF OthersKept
  <2>4. Kept(Removed(t)) = BlocksOf(a)
    <3>1. Kept(Removed(t)) = {<<a, j>> : j \in 0..(blocks_per_arena - 1)}
      BY <1>1, <1>2, KeptIs DEF Is
    <3> QED
      BY <3>1 DEF BlocksOf, Indices
  <2>5. Live' = Live \ BlocksOf(a)
    <3>1. ASSUME NEW b \in Blocks PROVE b \in BlocksOf(a) <=> b[1] = a
      BY DEF Blocks, BlocksOf
    <3> QED
      BY <1>7, <3>1 DEF Live, Blocks
  <2>6. /\ BlocksOf(a) \subseteq Kept(Removed(t))
        /\ Kept(Removed(t))' = Kept(Removed(t)) \ BlocksOf(a)
    BY <2>2, <2>4
  <2>7. BlocksApart /\ Removed(t) \in Keepers
    BY AreKeepers
  <2> QED
    BY <2>3, <2>5, <2>6, <2>7, KeeperDrops
<1>13. CountsOK'
  <2>1. ASSUME NEW u \in MemThreads, NEW c \in Blocks PROVE Has(u, c)' <=> Has(u, c)
    BY <1>1, <1>3, <1>4 DEF Has, Is
  <2>2. \A c \in Pages : arenas'[c] >= 0 => arenas'[c] = arenas[c]
    BY <1>7
  <2> QED
    BY <2>1, <2>2, CountsStay
<1>14. RemovalsOK'
  <2>1. \A u \in MemThreads : run'[u].at # "remove"
    BY <1>3, <1>4, <1>5, OthersWait DEF NeedsDesc
  <2> QED
    BY <2>1 DEF RemovalsOK, Is
<1>15. Distinct(free_list)'
  BY <1>1 DEF Distinct
<1> QED
  BY <1>8, <1>9, <1>10, <1>11, <1>12, <1>13, <1>14, <1>15

----------------------------------------------------------------------------
(* The allocators, taken together *)

LEMMA MemInitOK == MemoryInit => MemInv
<1> SUFFICES ASSUME MemoryInit PROVE MemInv
  OBVIOUS
<1> USE DEF MemoryInit
<1>1. MemTypeOK
  <2>1. Out \in Running
    BY DEF Running, Out
  <2> QED
    BY <2>1 DEF MemTypeOK
<1>2. \A t \in MemThreads : run[t].at = "out"
  BY DEF Out
<1>3. \A p \in Pages : ~(arenas[p] >= 0)
  OBVIOUS
<1>4. LocksKept /\ ScansOK /\ RequestsOK /\ RemovalsOK
  BY <1>2 DEF LocksKept, LocksFor, NeedsDesc, ScansOK, ScanFor, RequestsOK, RequestFor,
              RemovalsOK, Is
<1>5. PagesApart
  <2>1. ASSUME NEW c \in Claims PROVE Claimed(c) = {}
    <3>1. CASE \E t \in MemThreads, g \in PageGroups : c = GroupOf(t, g)
      BY <3>1, ClaimedIs
    <3>2. CASE \E t \in MemThreads : c = ClearOf(t)
      BY <1>2, <3>2, ClaimedIs DEF Is
    <3>3. CASE \E a \in Pages : c = ArenaAt(a)
      BY <1>3, <3>3, ClaimedIs
    <3> QED
      BY <3>1, <3>2, <3>3, ClaimCases
  <2>2. \A c \in Claims : claimed[c] = {}
    BY <2>1 DEF claimed
  <2> QED
    BY <2>2 DEF PagesApart, Apart
<1>6. BlocksApart
  <2>1. ASSUME NEW k \in Keepers PROVE Kept(k) = {}
    <3>1. CASE k = TheList
      BY <3>1, KeptIs DEF ToSet
    <3>2. CASE \E t \in MemThreads : k \in {ByThread(t), Freeing(t), Removed(t)}
      BY <1>2, <3>2, KeptIs DEF Is
    <3> QED
      BY <3>1, <3>2, KeeperCases
  <2>2. \A k \in Keepers : kept[k] = {}
    BY <2>1 DEF kept
  <2>3. Live = {}
    BY <1>3 DEF Live, Blocks
  <2> QED
    BY <2>2, <2>3 DEF BlocksApart, Apart
<1>7. Distinct(free_list) /\ CountsOK
  BY <1>3 DEF Distinct, CountsOK
<1> QED
  BY <1>1, <1>4, <1>5, <1>6, <1>7 DEF MemInv

LEMMA ScanFoundKeeps ==
  ASSUME MemInv, NEW t \in MemThreads, ScanFound(t)
  PROVE  MemInv'
BY PagesFoundKeep, ArenaFoundKeeps

LEMMA MemStutters ==
  ASSUME MemInv, UNCHANGED memVars
  PROVE  MemInv'
<1> USE DEF MemInv, memVars
<1>1. MemTypeOK' /\ LocksKept' /\ ScansOK' /\ RequestsOK' /\ RemovalsOK' /\ Distinct(free_list)'
  BY DEF MemTypeOK, LocksKept, ScansOK, RequestsOK, RemovalsOK, Is, Distinct
<1>2. \A c \in Claims : Claimed(c)' = Claimed(c)
  BY DEF Claimed, Is
<1>3. \A k \in Keepers : Kept(k)' = Kept(k)
  BY DEF Kept, Is
<1>4. PagesApart'
  BY <1>2, ClaimsStay DEF OthersClaim
<1>5. Live' = Live
  BY DEF Live
<1>6. BlocksApart'
  BY <1>3, <1>5, KeepersStay DEF OthersKept
<1>7. CountsOK'
  <2>1. ASSUME NEW u \in MemThreads, NEW c \in Blocks PROVE Has(u, c)' <=> Has(u, c)
    BY DEF Has, Is
  <2> QED
    BY <2>1, CountsStay
<1> QED
  BY <1>1, <1>4, <1>6, <1>7

LEMMA MemKeeps == MemInv /\ [MemoryNext]_memVars => MemInv'
<1> SUFFICES ASSUME MemInv, [MemoryNext]_memVars PROVE MemInv'
  OBVIOUS
<1>1. ASSUME NEW t \in MemThreads, MemoryStep(t) PROVE MemInv'
  BY <1>1, GetPagesKeeps, PoolAcquireKeeps, ScanBitKeeps, ScanFoundKeeps, ScanFailedKeeps,
     FreePagesKeeps, ClearBitKeeps, MallocKeeps, MallocAcquireKeeps, PopKeeps, FreeKeeps,
     FreeLockedKeeps, ListRemoveKeeps, FreeArenaKeeps DEF MemoryStep
<1> QED
  BY <1>1, MemStutters DEF MemoryNext

\* In every state of every instance each page that is marked used has one claim on it and
\* each block of each arena one keeper (palloc.c, malloc.c).
THEOREM MemInvariant == MemorySpec => []MemInv
BY MemInitOK, MemKeeps, PTL DEF MemorySpec

LEMMA PagesOnce == MemInv => PagesOwnedOnce
<1> SUFFICES ASSUME MemInv, NEW p \in Pages
    PROVE  Cardinality(GroupsWith(p)) + Cardinality(Clearing(p))
             + (IF arenas[p] >= 0 THEN 1 ELSE 0) = IF p \in used_map THEN 1 ELSE 0
  BY DEF PagesOwnedOnce
<1>1. /\ \A t \in MemThreads : groups[t] \subseteq PageGroups
      /\ \A t \in MemThreads, g \in PageGroups :
           p \in Claimed(GroupOf(t, g)) <=> g \in groups[t] /\ p \in Group(g[1], g[2])
      /\ \A t \in MemThreads :
           p \in Claimed(ClearOf(t)) <=> Is(t, "clear") /\ p \in run[t].left
      /\ \A a \in Pages : p \in Claimed(ArenaAt(a)) <=> a = p /\ arenas[p] >= 0
  <2>1. \A t \in MemThreads : groups[t] \subseteq PageGroups
    BY DEF MemInv, MemTypeOK
  <2> QED
    BY <2>1, ClaimedIs
<1>2. ASSUME NEW u PROVE u \in GroupsWith(p) <=>
        \E t \in MemThreads, g \in PageGroups : u = <<t, g>> /\ p \in Claimed(GroupOf(t, g))
  <2>1. ASSUME u \in GroupsWith(p)
        PROVE  \E t \in MemThreads, g \in PageGroups : u = <<t, g>> /\ p \in Claimed(GroupOf(t, g))
    <3>1. PICK t \in MemThreads : \E g \in groups[t] : u = <<t, g>> /\ p \in Group(g[1], g[2])
      BY <2>1 DEF GroupsWith
    <3>2. PICK g \in groups[t] : u = <<t, g>> /\ p \in Group(g[1], g[2])
      BY <3>1
    <3> QED
      BY <1>1, <3>2
  <2>2. ASSUME NEW t \in MemThreads, NEW g \in PageGroups, u = <<t, g>>, p \in Claimed(GroupOf(t, g))
        PROVE  u \in GroupsWith(p)
    BY <1>1, <2>2 DEF GroupsWith
  <2> QED
    BY <2>1, <2>2
<1>3. ASSUME NEW t PROVE t \in Clearing(p) <=> t \in MemThreads /\ p \in Claimed(ClearOf(t))
  BY <1>1 DEF Clearing
<1>4. arenas[p] >= 0 <=> p \in Claimed(ArenaAt(p))
  BY <1>1
<1>5. Cardinality({}) = 0 /\ \A u : Cardinality({u}) = 1
  BY FS_EmptySet, FS_Singleton
<1>6. CASE p \notin used_map
  <2>1. \A c \in Claims : p \notin Claimed(c)
    BY <1>6, ClaimedOnce
  <2>2. GroupsWith(p) = {} /\ Clearing(p) = {} /\ ~(arenas[p] >= 0)
    BY <1>2, <1>3, <1>4, <2>1, AreClaims
  <2> QED
    BY <1>5, <1>6, <2>2
<1>7. CASE p \in used_map
  <2>1. PICK c \in Claims : p \in Claimed(c) /\ \A d \in Claims : p \in Claimed(d) => d = c
    BY <1>7, ClaimedOnce
  <2>2. CASE \E t \in MemThreads, g \in PageGroups : c = GroupOf(t, g)
    <3>1. PICK t \in MemThreads, g \in PageGroups : c = GroupOf(t, g)
      BY <2>2
    <3>2. Clearing(p) = {} /\ ~(arenas[p] >= 0)
      BY <1>3, <1>4, <2>1, <3>1, AreClaims
    <3>3. GroupsWith(p) = {<<t, g>>}
      <4>1. \A u \in MemThreads, h \in PageGroups : GroupOf(u, h) = GroupOf(t, g) => u = t /\ h = g
        BY DEF GroupOf
      <4>2. \A u \in MemThreads, h \in PageGroups : p \in Claimed(GroupOf(u, h)) <=> u = t /\ h = g
        BY <2>1, <3>1, <4>1, AreClaims
      <4>3. \A u : u \in GroupsWith(p) <=> u = <<t, g>>
        BY <1>2, <4>2
      <4> QED
        BY <4>3
    <3>4. Cardinality(GroupsWith(p)) = 1 /\ Cardinality(Clearing(p)) = 0
      BY <1>5, <3>2, <3>3
    <3> QED
      BY <1>7, <3>2, <3>4
  <2>3. CASE \E t \in MemThreads : c = ClearOf(t)
    <3>1. PICK t \in MemThreads : c = ClearOf(t)
      BY <2>3
    <3>2. GroupsWith(p) = {} /\ ~(arenas[p] >= 0)
      BY <1>2, <1>4, <2>1, <3>1, AreClaims
    <3>3. Clearing(p) = {t}
      <4>1. \A u \in MemThreads : ClearOf(u) = ClearOf(t) => u = t
        BY DEF ClearOf
      <4>2. \A u \in MemThreads : p \in Claimed(ClearOf(u)) <=> u = t
        BY <2>1, <3>1, <4>1, AreClaims
      <4>3. \A u : u \in Clearing(p) <=> u = t
        BY <1>3, <4>2
      <4> QED
        BY <4>3
    <3>4. Cardinality(GroupsWith(p)) = 0 /\ Cardinality(Clearing(p)) = 1
      BY <1>5, <3>2, <3>3
    <3> QED
      BY <1>7, <3>2, <3>4
  <2>4. CASE \E a \in Pages : c = ArenaAt(a)
    <3>1. arenas[p] >= 0
      BY <1>1, <2>1, <2>4
    <3>2. GroupsWith(p) = {} /\ Clearing(p) = {}
      BY <1>2, <1>3, <2>1, <2>4, AreClaims
    <3> QED
      BY <1>5, <1>7, <3>1, <3>2
  <2> QED
    BY <2>1, <2>2, <2>3, <2>4, ClaimCases
<1> QED
  BY <1>6, <1>7

\* No page is given to two users, and none stays marked that nobody uses, for any number
\* of threads and pages, although free clears the map without the lock (palloc.c:80, 141).
THEOREM PagesUsedOnce == MemorySpec => []PagesOwnedOnce
BY MemInvariant, PagesOnce, PTL

LEMMA BlocksOnce == MemInv => BlocksOwnedOnce
<1> SUFFICES ASSUME MemInv PROVE BlocksOwnedOnce
  OBVIOUS
<1>1. \A i, j \in DOMAIN free_list : free_list[i] = free_list[j] => i = j
  BY DEF MemInv, Distinct
<1>2. ASSUME NEW a \in Pages, arenas[a] >= 0
      PROVE  arenas[a] = Cardinality({idx \in Indices : Holders(arena_to_block(a, idx)) = {}})
  <2>1. Loose(a) = {idx \in Indices : Holders(arena_to_block(a, idx)) = {}}
    BY DEF Loose, arena_to_block
  <2>2. arenas[a] = Cardinality(Loose(a))
    BY <1>2 DEF MemInv, CountsOK
  <2> QED
    BY <2>1, <2>2
<1>3. ASSUME NEW a \in Pages, NEW idx \in Indices, NEW b, b = <<a, idx>>
      PROVE  /\ Cardinality(Holders(b)) <= (IF arenas[a] >= 0 THEN 1 ELSE 0)
             /\ b \in ToSet(free_list) <=> arenas[a] >= 0 /\ Holders(b) = {} /\ ~TakenOff(a, idx)
  <2>1. b \in Blocks /\ (b \in Live <=> arenas[a] >= 0) /\ b[1] = a
    BY <1>3 DEF Blocks, Live
  <2>2. \A t : t \in Holders(b) <=> t \in MemThreads /\ Has(t, b)
    BY DEF Holders, Has
  <2>3. Cardinality({}) = 0 /\ \A u : Cardinality({u}) = 1
    BY FS_EmptySet, FS_Singleton
  <2>4. TakenOff(a, idx) <=> \E t \in MemThreads : b \in Kept(Removed(t))
    <3>1. ASSUME NEW t \in MemThreads, Is(t, "remove")
          PROVE  b \in Kept(Removed(t)) <=> run[t].arena = a /\ idx < run[t].idx
      <4>1. Kept(Removed(t)) = {<<run[t].arena, i>> : i \in 0..(run[t].idx - 1)}
        BY <3>1, KeptIs
      <4>2. run[t].idx \in Nat
        <5>1. run[t] \in Running /\ run[t].at = "remove"
          BY <3>1 DEF MemInv, MemTypeOK, Is
        <5>2. run[t].idx \in 0..blocks_per_arena
          BY <5>1, RunIs
        <5> QED
          BY <5>2, MemNumbers
      <4>3. idx \in 0..(run[t].idx - 1) <=> idx < run[t].idx
        BY <4>2, MemNumbers
      <4> QED
        BY <1>3, <4>1, <4>3
    <3>2. ASSUME NEW t \in MemThreads, b \in Kept(Removed(t)) PROVE Is(t, "remove")
      BY <3>2, KeptIs
    <3> QED
      BY <3>1, <3>2 DEF TakenOff
  <2>5. CASE \E t \in MemThreads : Has(t, b)
    <3>1. PICK t \in MemThreads : Has(t, b)
      BY <2>5
    <3>2. arenas[a] >= 0 /\ b \notin ToSet(free_list) /\ \A u \in MemThreads : Has(u, b) => u = t
      BY <2>1, <3>1, HasOnce
    <3>3. Holders(b) = {t}
      BY <2>2, <3>1, <3>2
    <3> QED
      BY <2>3, <3>2, <3>3
  <2>6. CASE ~ \E t \in MemThreads : Has(t, b)
    <3>1. Holders(b) = {}
      BY <2>2, <2>6
    <3>2. b \in ToSet(free_list) <=> b \in Kept(TheList)
      BY KeptIs
    <3>3. \A t \in MemThreads : b \notin Kept(ByThread(t)) /\ b \notin Kept(Freeing(t))
      BY <2>6, KeptIs DEF Has
    <3>4. b \in Kept(TheList) => b \in Live /\ ~TakenOff(a, idx)
      BY <2>4, AreKeepers, KeptOnce
    <3>5. b \in Live /\ ~TakenOff(a, idx) => b \in Kept(TheList)
      <4> SUFFICES ASSUME b \in Live, ~TakenOff(a, idx) PROVE b \in Kept(TheList)
        OBVIOUS
      <4>1. PICK k \in Keepers : b \in Kept(k)
        BY KeptOnce
      <4> QED
        BY <2>4, <3>3, <4>1, KeeperCases
    <3> QED
      BY <2>1, <2>3, <3>1, <3>2, <3>4, <3>5
  <2> QED
    BY <2>5, <2>6
<1> QED
  BY <1>1, <1>2, <1>3 DEF BlocksOwnedOnce, arena_to_block

\* malloc gives no block to two threads and free gives no arena back that has a block in
\* use, for any number of threads, pages and blocks to an arena (malloc.c:149, 242).
THEOREM BlocksUsedOnce == MemorySpec => []BlocksOwnedOnce
BY MemInvariant, BlocksOnce, PTL
=============================================================================
