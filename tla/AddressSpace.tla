---------------------------- MODULE AddressSpace ----------------------------
(***************************************************************************)
(* Page directories and the pages of user processes: load and its helpers  *)
(* and process_exit of userprog/process.c, userprog/pagedir.c, the growth  *)
(* of the stack in the page fault handler (userprog/exception.c, built     *)
(* with VM) and the switch of the active page directory at every context   *)
(* switch, which may come between any two accesses to a page table.        *)
(***************************************************************************)
EXTENDS Integers, Sequences, FiniteSets

CONSTANTS
  Users,          \* processes, one after another under each name
  Kernel,         \* a kernel thread
  KernelPages, UserPages,  \* the pages of the two pools, as numbers
  Reserved,       \* sets of pages others may hold throughout
  InitPageDir,    \* the page directory of the kernel
  VPages,         \* virtual pages of a process, 0 up to the highest
  TableSize,      \* pages that a page table maps
  Programs,       \* the virtual pages an executable asks for, in order
  MaxExecs        \* processes before the model stops

ASSUME AddressSpaceAssumption ==
  /\ KernelPages \cap UserPages = {} /\ KernelPages \cup UserPages \subseteq Nat \ {0}
  /\ InitPageDir \notin KernelPages \cup UserPages /\ InitPageDir # 0
  /\ VPages \in Nat /\ TableSize \in Nat \ {0} /\ MaxExecs \in Nat
  /\ Programs \subseteq Seq(Nat) /\ Kernel \notin Users

TableNos == 0..(VPages \div TableSize)
PteNos == 0..(TableSize - 1)
pd_no(v) == v \div TableSize
pt_no(v) == v % TableSize

VARIABLES
  free_pages,      \* the free pages of both pools
  tables,    \* the page table each page directory has at each place, 0 if none
  ptes,      \* the page each page table maps at each place, 0 if none
  pagedir,   \* of each thread; 0 when it has none
  cr3,       \* the active page directory
  running,   \* the running thread
  doing,     \* where each process is, and its locals
  lost,      \* pages that others hold, and those nobody refers to any more
  execs,     \* processes started
  pd_panic   \* the kernel has panicked

spaceVars == <<free_pages, tables, ptes, pagedir, cr3, running, doing, lost, execs, pd_panic>>

NoTables == [i \in TableNos |-> 0]
NoPages == [i \in PteNos |-> 0]
DoesNothing == [at |-> "none"]

SpaceInit ==
  /\ lost \in Reserved
  /\ free_pages = (KernelPages \cup UserPages) \ lost
  /\ tables = [p \in KernelPages |-> NoTables]
  /\ ptes = [p \in KernelPages |-> NoPages]
  /\ pagedir = [t \in Users \cup {Kernel} |-> 0]
  /\ cr3 = InitPageDir /\ running = Kernel
  /\ doing = [u \in Users |-> DoesNothing]
  /\ execs = 0 /\ pd_panic = FALSE

\* The first free page of a pool; 0 when there is none.
PageOf(pool) == IF free_pages \cap pool = {} THEN 0
                ELSE CHOOSE p \in free_pages \cap pool : \A q \in free_pages \cap pool : p <= q
palloc_user == PageOf(UserPages)
palloc_kernel == PageOf(KernelPages)

IsDoing(u, label) == ~pd_panic /\ running = u /\ doing[u].at = label
Go(u, r) == doing' = [doing EXCEPT ![u] = r]
GoTo(u, label) == Go(u, [at |-> label])
activated(pd) == IF pd = 0 THEN InitPageDir ELSE pd

\* A context switch to a thread that can run: process_activate.
SwitchTo(t) ==
  /\ ~pd_panic /\ t # running
  /\ t # Kernel => doing[t].at # "none"
  /\ running' = t
  /\ cr3' = activated(pagedir[t])
  /\ UNCHANGED <<free_pages, tables, ptes, pagedir, doing, lost, execs, pd_panic>>

NewProcess(u) ==
  /\ ~pd_panic /\ running = Kernel /\ doing[u].at = "none" /\ execs < MaxExecs
  /\ execs' = execs + 1
  /\ GoTo(u, "create")
  /\ UNCHANGED <<free_pages, tables, ptes, pagedir, cr3, running, lost, pd_panic>>

----------------------------------------------------------------------------
\* load

\* pagedir_create.  Where it fails, load frees fn_copy, which it has not set yet.
PagedirCreate(u) ==
  /\ IsDoing(u, "create")
  /\ IF palloc_kernel # 0
     THEN /\ pagedir' = [pagedir EXCEPT ![u] = palloc_kernel]
          /\ tables' = [tables EXCEPT ![palloc_kernel] = NoTables]
          /\ free_pages' = free_pages \ {palloc_kernel}
          /\ GoTo(u, "activate") /\ UNCHANGED pd_panic
     ELSE /\ pd_panic' \in BOOLEAN
          /\ GoTo(u, "null") /\ UNCHANGED <<pagedir, tables, free_pages>>
  /\ UNCHANGED <<ptes, cr3, running, lost, execs>>

LoadActivate(u) ==
  /\ IsDoing(u, "activate")
  /\ cr3' = activated(pagedir[u])
  /\ GoTo(u, "copy")
  /\ UNCHANGED <<free_pages, tables, ptes, pagedir, running, lost, execs, pd_panic>>

\* fn_copy, then the program's pages and the stack's, if the file can be opened and
\* its headers are good.
LoadCopy(u) ==
  /\ IsDoing(u, "copy")
  /\ IF palloc_kernel = 0 THEN GoTo(u, "null") /\ UNCHANGED free_pages
     ELSE /\ free_pages' = free_pages \ {palloc_kernel}
          /\ \/ \E prog \in Programs :
                  Go(u, [at |-> "page", copy |-> palloc_kernel, todo |-> Append(prog, VPages)])
             \/ Go(u, [at |-> "done", copy |-> palloc_kernel, ok |-> FALSE])
  /\ UNCHANGED <<tables, ptes, pagedir, cr3, running, lost, execs, pd_panic>>

LoadEnds(u, ok) == Go(u, [at |-> "done", copy |-> doing[u].copy, ok |-> ok])
GetsPage(u) ==
  /\ palloc_user # 0
  /\ free_pages' = free_pages \ {palloc_user}
  /\ Go(u, [at |-> "install", copy |-> doing[u].copy, todo |-> doing[u].todo,
            page |-> palloc_user])

\* validate_segment: not page 0, and nothing that reaches the end of user memory.
validate_segment(v) == v \in 1..(VPages - 1)

\* load_segment gets a page, which a failing read gives back; without a page, with a
\* bad segment or a bad file the load fails.
LoadPage(u) ==
  /\ IsDoing(u, "page") /\ Len(doing[u].todo) > 1
  /\ \/ validate_segment(Head(doing[u].todo)) /\ GetsPage(u)
     \/ LoadEnds(u, FALSE) /\ UNCHANGED free_pages
  /\ UNCHANGED <<tables, ptes, pagedir, cr3, running, lost, execs, pd_panic>>

\* setup_stack, for the highest page, after the segments; then the load is done.
SetupStack(u) ==
  /\ IsDoing(u, "page") /\ Len(doing[u].todo) <= 1
  /\ \/ doing[u].todo = <<>> /\ LoadEnds(u, TRUE) /\ UNCHANGED free_pages
     \/ doing[u].todo # <<>> /\ GetsPage(u)
     \/ doing[u].todo # <<>> /\ palloc_user = 0 /\ LoadEnds(u, FALSE) /\ UNCHANGED free_pages
  /\ UNCHANGED <<tables, ptes, pagedir, cr3, running, lost, execs, pd_panic>>

\* pagedir_get_page, and pagedir_set_page of page at v, which makes a page table
\* where there is none.
Table(u, v) == tables[pagedir[u]][pd_no(v)]
MappedAt(u, v) == Table(u, v) # 0 /\ ptes[Table(u, v)][pt_no(v)] # 0
CanSetPage(u, v) == Table(u, v) # 0 \/ palloc_kernel # 0
SetPage(u, v, page) ==
  LET pt == IF Table(u, v) # 0 THEN Table(u, v) ELSE palloc_kernel
      old == IF Table(u, v) # 0 THEN ptes[pt] ELSE NoPages
  IN /\ tables' = [tables EXCEPT ![pagedir[u]][pd_no(v)] = pt]
     /\ ptes' = [ptes EXCEPT ![pt] = [old EXCEPT ![pt_no(v)] = page]]

\* Mutant of InstallPage: a page that could not be installed is not given back.
InstallPage_kept(u) ==
  /\ IsDoing(u, "install")
  /\ LET v == Head(doing[u].todo)
         page == doing[u].page
     IN IF ~MappedAt(u, v) /\ CanSetPage(u, v)
        THEN /\ SetPage(u, v, page)
             /\ free_pages' = free_pages \ {tables'[pagedir[u]][pd_no(v)]}
             /\ Go(u, [at |-> "page", copy |-> doing[u].copy, todo |-> Tail(doing[u].todo)])
        ELSE /\ Go(u, [at |-> "done", copy |-> doing[u].copy, ok |-> FALSE])
             /\ UNCHANGED <<tables, ptes, free_pages>>
  /\ UNCHANGED <<pagedir, cr3, running, lost, execs, pd_panic>>

\* install_page, and what load_segment and setup_stack do when it fails.
InstallPage(u) ==
  /\ IsDoing(u, "install")
  /\ LET v == Head(doing[u].todo)
         page == doing[u].page
     IN IF ~MappedAt(u, v) /\ CanSetPage(u, v)
        THEN /\ SetPage(u, v, page)
             /\ free_pages' = free_pages \ {tables'[pagedir[u]][pd_no(v)]}
             /\ Go(u, [at |-> "page", copy |-> doing[u].copy, todo |-> Tail(doing[u].todo)])
        ELSE /\ free_pages' = free_pages \cup {page}
             /\ Go(u, [at |-> "done", copy |-> doing[u].copy, ok |-> FALSE])
             /\ UNCHANGED <<tables, ptes>>
  /\ UNCHANGED <<pagedir, cr3, running, lost, execs, pd_panic>>

\* The end of load: the process starts, or exits.
LoadDone(u) ==
  /\ IsDoing(u, "done")
  /\ free_pages' = free_pages \cup {doing[u].copy}
  /\ GoTo(u, IF doing[u].ok THEN "user" ELSE "null")
  /\ UNCHANGED <<tables, ptes, pagedir, cr3, running, lost, execs, pd_panic>>

----------------------------------------------------------------------------
\* page_fault with VM

\* A write near the stack pointer, at v: the pages from there to the stack's first
\* one are to be there.
StackFault(u) ==
  /\ IsDoing(u, "user")
  /\ \E v \in 1..(VPages - 1) : ~MappedAt(u, v) /\ Go(u, [at |-> "grow", v |-> v])
  /\ UNCHANGED <<free_pages, tables, ptes, pagedir, cr3, running, lost, execs, pd_panic>>

\* One round of its loop gets a page for v, if v has none.
GrowStack(u) ==
  /\ IsDoing(u, "grow")
  /\ LET v == doing[u].v
     IN \/ v = VPages /\ GoTo(u, "user") /\ UNCHANGED free_pages
        \/ /\ v < VPages /\ MappedAt(u, v)
           /\ Go(u, [at |-> "grow", v |-> v + 1]) /\ UNCHANGED free_pages
        \/ /\ v < VPages /\ ~MappedAt(u, v) /\ palloc_user = 0
           /\ GoTo(u, "null") /\ UNCHANGED free_pages
        \/ /\ v < VPages /\ ~MappedAt(u, v) /\ palloc_user # 0
           /\ free_pages' = free_pages \ {palloc_user}
           /\ Go(u, [at |-> "grown", v |-> v, page |-> palloc_user])
  /\ UNCHANGED <<tables, ptes, pagedir, cr3, running, lost, execs, pd_panic>>

\* pagedir_set_page in the handler, which forgets the page when there is no memory
\* for a page table.
GrowInstall(u) ==
  /\ IsDoing(u, "grown")
  /\ LET v == doing[u].v
     IN IF CanSetPage(u, v)
        THEN /\ SetPage(u, v, doing[u].page)
             /\ free_pages' = free_pages \ {tables'[pagedir[u]][pd_no(v)]}
             /\ Go(u, [at |-> "grow", v |-> v + 1])
             /\ UNCHANGED lost
        ELSE /\ lost' = lost \cup {doing[u].page}
             /\ GoTo(u, "null")
             /\ UNCHANGED <<free_pages, tables, ptes>>
  /\ UNCHANGED <<pagedir, cr3, running, execs, pd_panic>>

----------------------------------------------------------------------------
\* process_exit

Exits(u) ==
  /\ IsDoing(u, "user")
  /\ GoTo(u, "null")
  /\ UNCHANGED <<free_pages, tables, ptes, pagedir, cr3, running, lost, execs, pd_panic>>

\* Mutant of ExitNull: the thread keeps the page directory until it is destroyed.
ExitNull_late(u) ==
  /\ IsDoing(u, "null")
  /\ Go(u, IF pagedir[u] = 0 THEN DoesNothing ELSE [at |-> "base", pd |-> pagedir[u]])
  /\ running' = IF pagedir[u] = 0 THEN Kernel ELSE running
  /\ cr3' = IF pagedir[u] = 0 THEN InitPageDir ELSE cr3
  /\ UNCHANGED <<free_pages, tables, ptes, pagedir, lost, execs, pd_panic>>

ExitNull(u) ==
  /\ IsDoing(u, "null")
  /\ Go(u, IF pagedir[u] = 0 THEN DoesNothing ELSE [at |-> "base", pd |-> pagedir[u]])
  /\ pagedir' = [pagedir EXCEPT ![u] = 0]
  /\ running' = IF pagedir[u] = 0 THEN Kernel ELSE running
  /\ cr3' = IF pagedir[u] = 0 THEN InitPageDir ELSE cr3
  /\ UNCHANGED <<free_pages, tables, ptes, lost, execs, pd_panic>>

ExitBase(u) ==
  /\ IsDoing(u, "base")
  /\ cr3' = InitPageDir
  /\ Go(u, [doing[u] EXCEPT !.at = "destroy"])
  /\ UNCHANGED <<free_pages, tables, ptes, pagedir, running, lost, execs, pd_panic>>

\* pagedir_destroy: the pages of a page table, the table, the next table.
DestroyTable(u) ==
  /\ IsDoing(u, "destroy")
  /\ \E i \in TableNos :
       LET pt == tables[doing[u].pd][i]
           pages == {ptes[pt][j] : j \in PteNos} \ {0}
       IN /\ pt # 0 /\ \A j \in TableNos : j < i => tables[doing[u].pd][j] = 0
          /\ IF pages = {}
             THEN /\ free_pages' = free_pages \cup {pt}
                  /\ tables' = [tables EXCEPT ![doing[u].pd][i] = 0]
                  /\ UNCHANGED ptes
             ELSE LET j == CHOOSE j \in PteNos :
                             ptes[pt][j] # 0 /\ \A k \in PteNos : k < j => ptes[pt][k] = 0
                  IN /\ free_pages' = free_pages \cup {ptes[pt][j]}
                     /\ ptes' = [ptes EXCEPT ![pt][j] = 0]
                     /\ UNCHANGED tables
  /\ UNCHANGED <<pagedir, cr3, running, doing, lost, execs, pd_panic>>

\* The directory itself; then the thread dies and the kernel thread runs.
DestroyDirectory(u) ==
  /\ IsDoing(u, "destroy") /\ tables[doing[u].pd] = NoTables
  /\ free_pages' = free_pages \cup {doing[u].pd}
  /\ Go(u, DoesNothing)
  /\ running' = Kernel /\ cr3' = activated(pagedir[Kernel])
  /\ UNCHANGED <<tables, ptes, pagedir, lost, execs, pd_panic>>

SpaceStep(u) ==
  \/ NewProcess(u) \/ PagedirCreate(u) \/ LoadActivate(u) \/ LoadCopy(u) \/ LoadPage(u)
  \/ SetupStack(u) \/ InstallPage(u) \/ LoadDone(u) \/ StackFault(u) \/ GrowStack(u) \/ GrowInstall(u)
  \/ Exits(u) \/ ExitNull(u) \/ ExitBase(u) \/ DestroyTable(u) \/ DestroyDirectory(u)
SpaceNext ==
  \/ \E t \in Users \cup {Kernel} : SwitchTo(t)
  \/ \E u \in Users : SpaceStep(u)
SpaceSpec == SpaceInit /\ [][SpaceNext]_spaceVars

----------------------------------------------------------------------------
\* Properties

\* The active page directory is never one that is free or being destroyed, however
\* the timer switches threads during an exit ("Correct ordering here is crucial",
\* process.c:157), and a process in user mode runs on its own.
DirectoryAlive ==
  /\ cr3 \notin free_pages
  /\ \A u \in Users :
       /\ doing[u].at = "destroy" => cr3 # doing[u].pd
       /\ doing[u].at = "user" /\ running = u => cr3 = pagedir[u] /\ cr3 # InitPageDir

\* What may hold a page: a process' directory, the one it is destroying, the page it
\* has just got, its fn_copy; an entry of a directory and of a page table.
Roles ==
  ({"directory", "dying", "local", "copy"} \X Users \X {0})
  \cup ({"table"} \X KernelPages \X TableNos) \cup ({"frame"} \X KernelPages \X PteNos)
PageHeld(r) ==
  LET During(labels, page) == IF doing[r[2]].at \in labels THEN page ELSE 0
      InPage(page) == IF r[2] \in free_pages THEN 0 ELSE page
  IN CASE r[1] = "directory" -> pagedir[r[2]]
       [] r[1] = "dying" -> During({"base", "destroy"}, doing[r[2]].pd)
       [] r[1] = "local" -> During({"install", "grown"}, doing[r[2]].page)
       [] r[1] = "copy" -> During({"page", "install", "done"}, doing[r[2]].copy)
       [] r[1] = "table" -> InPage(tables[r[2]][r[3]])
       [] r[1] = "frame" -> InPage(ptes[r[2]][r[3]])

\* Every page is free or used once: as a page directory, by one directory as a page
\* table, by one page table as a frame, or by the call that has just got it; but for
\* the pages the fault handler forgets.  So a failed load or an exit leaves no page
\* behind, and no page is in two address spaces (process.c:366-371, pagedir.c:26).
SpacesDisjoint ==
  \A p \in KernelPages \cup UserPages :
    Cardinality({r \in Roles : PageHeld(r) = p}) =
      IF p \in free_pages \cup lost THEN 0 ELSE 1
=============================================================================
