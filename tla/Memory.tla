------------------------------- MODULE Memory -------------------------------
(***************************************************************************)
(* The page allocator (threads/palloc.c) and the block allocator on top of *)
(* it (threads/malloc.c), for one pool and one descriptor: threads get and *)
(* free groups of pages and blocks, and are preempted between any two      *)
(* tests or changes of a bit of the pool's map, which palloc_free_multiple *)
(* changes without the pool's lock.                                        *)
(***************************************************************************)
EXTENDS Integers, Sequences, SequencesExt, FiniteSets

CONSTANTS
  MemThreads,        \* the threads
  PageCnt,           \* pages in the pool
  blocks_per_arena,
  BigSizes,          \* page counts of palloc_get_multiple and big blocks
  NoLock             \* the holder of a lock that is free

ASSUME MemoryAssumption ==
  /\ PageCnt \in Nat \ {0} /\ blocks_per_arena \in Nat \ {0}
  /\ BigSizes \subseteq Nat \ {0} /\ NoLock \notin MemThreads

Pages == 0..(PageCnt - 1)
Group(start, cnt) == start .. (start + cnt - 1)

\* A block is known by its arena and its index there.
block_to_arena(b) == b[1]
arena_to_block(a, idx) == <<a, idx>>

VARIABLES
  used_map,    \* the pages marked used
  pool_lock,
  desc_lock,
  arenas,      \* the free_cnt of each page that is an arena; -1: not an arena
  free_list,   \* free blocks <<arena, index>>
  groups,      \* page groups <<start, cnt>> each thread has got
  blocks,      \* blocks each thread has got
  run          \* where each thread is in the allocator, and its locals there

memVars == <<used_map, pool_lock, desc_lock, arenas, free_list, groups, blocks,
             run>>

\* A thread outside the allocator.
Out == [at |-> "out"]
Is(t, label) == run[t].at = label
Enter(t, r) == run' = [run EXCEPT ![t] = r]

MemoryInit ==
  /\ used_map = {}
  /\ pool_lock = NoLock /\ desc_lock = NoLock
  /\ arenas = [p \in Pages |-> -1]
  /\ free_list = <<>>
  /\ groups = [t \in MemThreads |-> {}]
  /\ blocks = [t \in MemThreads |-> {}]
  /\ run = [t \in MemThreads |-> Out]

----------------------------------------------------------------------------
\* palloc.c

\* palloc_get_multiple, called for a user of pages or for malloc's arena.
WantPages(cnt, for) == [at |-> "pool", cnt |-> cnt, for |-> for]

GetPages(t) ==
  /\ Is(t, "out")
  /\ \E cnt \in BigSizes : Enter(t, WantPages(cnt, "pages"))
  /\ UNCHANGED <<used_map, pool_lock, desc_lock, arenas, free_list, groups, blocks>>

\* Mutant of PoolAcquire: the pool is scanned without its lock.
PoolAcquire_unlocked(t) ==
  /\ Is(t, "pool")
  /\ Enter(t, [at |-> "scan", cnt |-> run[t].cnt, for |-> run[t].for,
               idx |-> 0, bit |-> 0])
  /\ UNCHANGED <<used_map, pool_lock, desc_lock, arenas, free_list, groups, blocks>>

PoolAcquire(t) ==
  /\ Is(t, "pool") /\ pool_lock = NoLock
  /\ pool_lock' = t
  /\ Enter(t, [at |-> "scan", cnt |-> run[t].cnt, for |-> run[t].for,
               idx |-> 0, bit |-> 0])
  /\ UNCHANGED <<used_map, desc_lock, arenas, free_list, groups, blocks>>

\* bitmap_scan: one bitmap_test of bitmap_contains.
ScanBit(t) ==
  /\ Is(t, "scan")
  /\ run[t].bit < run[t].cnt /\ run[t].idx + run[t].cnt <= PageCnt
  /\ Enter(t, IF run[t].idx + run[t].bit \in used_map
              THEN [run[t] EXCEPT !.idx = @ + 1, !.bit = 0]
              ELSE [run[t] EXCEPT !.bit = @ + 1])
  /\ UNCHANGED <<used_map, pool_lock, desc_lock, arenas, free_list, groups, blocks>>

\* The arena of a fresh page, its blocks on the free list: malloc goes on.
NewArena(t, a) ==
  /\ arenas' = [arenas EXCEPT ![a] = blocks_per_arena]
  /\ free_list' = free_list \o [i \in 1..blocks_per_arena |-> arena_to_block(a, i - 1)]
  /\ Enter(t, [at |-> "pop"])
  /\ UNCHANGED <<groups, desc_lock>>

\* bitmap_set_multiple for the group found; no one else sets bits meanwhile.
ScanFound(t) ==
  /\ Is(t, "scan") /\ run[t].bit = run[t].cnt
  /\ used_map' = used_map \cup Group(run[t].idx, run[t].cnt)
  /\ pool_lock' = NoLock
  /\ IF run[t].for = "arena"
     THEN NewArena(t, run[t].idx)
     ELSE /\ groups' = [groups EXCEPT ![t] = @ \cup {<<run[t].idx, run[t].cnt>>}]
          /\ Enter(t, Out)
          /\ UNCHANGED <<arenas, free_list, desc_lock>>
  /\ UNCHANGED blocks

\* No such group: null, which malloc returns to its caller.
ScanFailed(t) ==
  /\ Is(t, "scan") /\ run[t].idx + run[t].cnt > PageCnt
  /\ pool_lock' = NoLock
  /\ desc_lock' = IF run[t].for = "arena" THEN NoLock ELSE desc_lock
  /\ Enter(t, Out)
  /\ UNCHANGED <<used_map, arenas, free_list, groups, blocks>>

\* palloc_free_multiple: its assertion, and then bit after bit.
FreePages(t) ==
  /\ Is(t, "out")
  /\ \E g \in groups[t] :
       /\ Enter(t, [at |-> "clear", left |-> Group(g[1], g[2]), for |-> "pages"])
       /\ groups' = [groups EXCEPT ![t] = @ \ {g}]
  /\ UNCHANGED <<used_map, pool_lock, desc_lock, arenas, free_list, blocks>>

FrontPage(s) == CHOOSE p \in s : \A q \in s : p <= q

\* One bitmap_reset; at the end free releases the descriptor.
ClearBit(t) ==
  /\ Is(t, "clear")
  /\ LET p == FrontPage(run[t].left)
         left == run[t].left \ {p}
     IN /\ used_map' = used_map \ {p}
        /\ Enter(t, IF left = {} THEN Out ELSE [run[t] EXCEPT !.left = left])
        /\ desc_lock' = IF left = {} /\ run[t].for = "arena" THEN NoLock
                                                             ELSE desc_lock
  /\ UNCHANGED <<pool_lock, arenas, free_list, groups, blocks>>

----------------------------------------------------------------------------
\* malloc.c

\* malloc of a block, alone or for realloc, which frees the old one afterwards.
Malloc(t) ==
  /\ Is(t, "out")
  /\ Enter(t, [at |-> "malloc"])
  /\ UNCHANGED <<used_map, pool_lock, desc_lock, arenas, free_list, groups, blocks>>

MallocAcquire(t) ==
  /\ Is(t, "malloc") /\ desc_lock = NoLock
  /\ desc_lock' = t
  /\ Enter(t, IF free_list = <<>> THEN WantPages(1, "arena") ELSE [at |-> "pop"])
  /\ UNCHANGED <<used_map, pool_lock, arenas, free_list, groups, blocks>>

Pop(t) ==
  /\ Is(t, "pop")
  /\ LET b == Head(free_list)
     IN /\ free_list' = Tail(free_list)
        /\ arenas' = [arenas EXCEPT ![block_to_arena(b)] = @ - 1]
        /\ blocks' = [blocks EXCEPT ![t] = @ \cup {b}]
  /\ desc_lock' = NoLock
  /\ Enter(t, Out)
  /\ UNCHANGED <<used_map, pool_lock, groups>>

Free(t) ==
  /\ Is(t, "out")
  /\ \E b \in blocks[t] :
       /\ blocks' = [blocks EXCEPT ![t] = @ \ {b}]
       /\ Enter(t, [at |-> "free", block |-> b])
  /\ UNCHANGED <<used_map, pool_lock, desc_lock, arenas, free_list, groups>>

\* Mutant of FreeLocked: the blocks of an unused arena stay on the free list.
FreeLocked_stay(t) ==
  /\ Is(t, "free") /\ desc_lock = NoLock
  /\ LET b == run[t].block
         a == block_to_arena(b)
         unused == arenas[a] + 1 >= blocks_per_arena
     IN /\ free_list' = <<b>> \o free_list
        /\ arenas' = [arenas EXCEPT ![a] = IF unused THEN -1 ELSE @ + 1]
        /\ desc_lock' = IF unused THEN t ELSE NoLock
        /\ Enter(t, IF unused THEN [at |-> "clear", left |-> {a}, for |-> "arena"]
                              ELSE Out)
  /\ UNCHANGED <<used_map, pool_lock, groups, blocks>>

\* Under the lock the block goes onto the free list; when it was the arena's last
\* one in use, all of them come off it again.
FreeLocked(t) ==
  /\ Is(t, "free") /\ desc_lock = NoLock
  /\ LET b == run[t].block
         a == block_to_arena(b)
         unused == arenas[a] + 1 >= blocks_per_arena
     IN /\ free_list' = <<b>> \o free_list
        /\ arenas' = [arenas EXCEPT ![a] = @ + 1]
        /\ desc_lock' = IF unused THEN t ELSE NoLock
        /\ Enter(t, IF unused THEN [at |-> "remove", arena |-> a, idx |-> 0] ELSE Out)
  /\ UNCHANGED <<used_map, pool_lock, groups, blocks>>

\* One list_remove of that loop.
ListRemove(t) ==
  /\ Is(t, "remove") /\ run[t].idx < blocks_per_arena
  /\ LET b == arena_to_block(run[t].arena, run[t].idx)
     IN free_list' = RemoveAt(free_list, CHOOSE i \in DOMAIN free_list : free_list[i] = b)
  /\ Enter(t, [run[t] EXCEPT !.idx = @ + 1])
  /\ UNCHANGED <<used_map, pool_lock, desc_lock, arenas, groups, blocks>>

\* Then the arena's page goes back to the pool.
FreeArena(t) ==
  /\ Is(t, "remove") /\ run[t].idx >= blocks_per_arena
  /\ arenas' = [arenas EXCEPT ![run[t].arena] = -1]
  /\ Enter(t, [at |-> "clear", left |-> {run[t].arena}, for |-> "arena"])
  /\ UNCHANGED <<used_map, pool_lock, desc_lock, free_list, groups, blocks>>

MemoryStep(t) ==
  \/ GetPages(t) \/ PoolAcquire(t) \/ ScanBit(t) \/ ScanFound(t) \/ ScanFailed(t)
  \/ FreePages(t) \/ ClearBit(t)
  \/ Malloc(t) \/ MallocAcquire(t) \/ Pop(t) \/ Free(t) \/ FreeLocked(t)
  \/ ListRemove(t) \/ FreeArena(t)

MemoryNext == \E t \in MemThreads : MemoryStep(t)
MemorySpec == MemoryInit /\ [][MemoryNext]_memVars

----------------------------------------------------------------------------
\* Properties

GroupsWith(p) ==
  {u \in MemThreads \X UNION {groups[t] : t \in MemThreads} :
     u[2] \in groups[u[1]] /\ p \in Group(u[2][1], u[2][2])}
Clearing(p) == {t \in MemThreads : Is(t, "clear") /\ p \in run[t].left}

\* A page that is marked used has exactly one user (a caller, an arena, or the
\* thread that is giving it back) and a page that is not has none, although the
\* map is scanned under the lock and cleared without it (palloc.c:80 and 141).
PagesOwnedOnce ==
  \A p \in Pages :
    Cardinality(GroupsWith(p)) + Cardinality(Clearing(p)) + (IF arenas[p] >= 0 THEN 1 ELSE 0)
      = IF p \in used_map THEN 1 ELSE 0

Indices == 0..(blocks_per_arena - 1)
Holders(b) ==
  {t \in MemThreads : b \in blocks[t] \/ (Is(t, "free") /\ run[t].block = b)}
TakenOff(a, idx) ==
  \E t \in MemThreads : Is(t, "remove") /\ run[t].arena = a /\ idx < run[t].idx

\* Every block of every arena is with at most one thread, and if with none it is
\* once on the free list, or has been taken off it with the whole arena; the
\* arena's count is that of its blocks nobody has; and there are no others.  So
\* malloc never hands out a block twice, and free gives an arena back exactly when
\* all its blocks are free (malloc.c:149 and 242).
BlocksOwnedOnce ==
  /\ \A i, j \in DOMAIN free_list : free_list[i] = free_list[j] => i = j
  /\ \A a \in Pages :
       /\ arenas[a] >= 0 =>
            arenas[a] = Cardinality({idx \in Indices : Holders(arena_to_block(a, idx)) = {}})
       /\ \A idx \in Indices :
            LET b == arena_to_block(a, idx)
            IN /\ Cardinality(Holders(b)) <= (IF arenas[a] >= 0 THEN 1 ELSE 0)
               /\ b \in ToSet(free_list) <=>
                    arenas[a] >= 0 /\ Holders(b) = {} /\ ~TakenOff(a, idx)
=============================================================================
