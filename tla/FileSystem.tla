----------------------------- MODULE FileSystem -----------------------------
(***************************************************************************)
(* The file system of the USERPROG kernel: the file system calls           *)
(* (userprog/syscall.c), open files (filesys/file.c), open inodes          *)
(* (filesys/inode.c), the root directory (filesys/directory.c) and the     *)
(* free map (filesys/free-map.c), with what is on the disk and what is in  *)
(* memory only.  Programs run one at a time (OneInFilesys of Process), so  *)
(* one call is under way at a time; a step is a block write with what the  *)
(* code does in memory up to the next one, and the power may fail between  *)
(* any two of them.  Sizes and positions count sectors.                    *)
(***************************************************************************)
EXTENDS Integers, Sequences, FiniteSets

CONSTANTS
  Procs,        \* the threads that load and run programs
  Names,        \* file names
  Slots,        \* the entries the root directory has room for
  LastSector,   \* the sectors of the disk are 0..LastSector
  Sizes,        \* initial sizes passed to create
  MaxFd,        \* bound: files a program opens before it exits (the table: 126)
  Values,       \* contents of a sector of data; 0 is all zeros
  Null,
  Gone          \* an exited thread, as the holder of the lock

\* do_format: the free map's inode and the root directory's, then their data.
FREE_MAP_SECTOR == 0
ROOT_DIR_SECTOR == 1
Formatted == {FREE_MAP_SECTOR, ROOT_DIR_SECTOR, 2, 3}
Sectors == 0..LastSector

\* struct inode_disk, dir_entry, inode and file.
InodeDisk == [start : Sectors, length : Nat]
DirEntry == [name : Names, inode_sector : Sectors]
Inode == [open_cnt : Nat, removed : BOOLEAN, deny_write_cnt : Nat, start : Sectors,
          length : Nat]
OpenFile == [inode : Sectors, pos : Nat, deny_write : BOOLEAN]

ASSUME FileSystemAssumption ==
  /\ LastSector \in Nat /\ LastSector >= 3 /\ Slots \subseteq Nat
  /\ Sizes \subseteq Nat /\ MaxFd \in Nat /\ 0 \in Values
  /\ Null \notin Sectors \cup Procs \cup {Gone} /\ Gone \notin Procs
  /\ Null \notin Values \cup InodeDisk \cup DirEntry \cup Inode \cup OpenFile

VARIABLES
  diskMap,      \* on disk: the sectors marked used in the free map file
  diskInode,    \* on disk: the inode_disk in each sector, if one was written
  diskDir,      \* on disk: the entries of the root directory
  diskData,     \* on disk: the data in each sector; Null where no file has any
  free_map,     \* the sectors marked used in memory
  open_inodes,  \* the struct inode of each sector that is open
  fdTable,      \* the struct file of descriptors 2, 3, ...; Null once closed
  curFile,      \* the executable each thread runs
  fLock,        \* holder of the lock around open, read and write
  status,       \* "none", "live", or "gone": ended without closing its files
  op            \* the call under way: where it is, and its locals

disk == <<diskMap, diskInode, diskDir, diskData>>
memory == <<free_map, open_inodes>>
threads == <<fdTable, curFile, fLock, status>>
vars == <<disk, memory, threads, op>>

Idle == [at |-> "idle"]
Ready(p) == op = Idle /\ status[p] = "live"
At(label) == op.at = label

Span(start, cnt) == start .. (start + cnt - 1)
Extent(sector, i) == {sector} \cup Span(i.start, i.length)

\* byte_to_sector, for a position in inode i's data.
InData(i, pos) == pos < i.length
byte_to_sector(i, pos) == i.start + pos

FileSystemInit ==
  /\ diskMap = Formatted
  /\ diskInode = [s \in Sectors |-> Null]
  /\ diskDir = [e \in Slots |-> Null]
  /\ diskData = [s \in Sectors |-> Null]
  /\ free_map = Formatted
  /\ open_inodes = [s \in Sectors |-> Null]
  /\ fdTable = [p \in Procs |-> <<>>]
  /\ curFile = [p \in Procs |-> Null]
  /\ fLock = Null
  /\ status = [p \in Procs |-> "none"]
  /\ op = Idle

----------------------------------------------------------------------------
\* The free map

\* bitmap_scan: where cnt consecutive sectors are free.
Groups(cnt) == {s \in Sectors : /\ s + cnt - 1 <= LastSector
                                /\ Span(s, cnt) \cap free_map = {}}
FirstGroup(cnt) == CHOOSE s \in Groups(cnt) : \A r \in Groups(cnt) : s <= r

\* Mutant of Allocate: the map on the disk is left for later.
Allocate_in_memory(start, cnt) ==
  /\ free_map' = free_map \cup Span(start, cnt)
  /\ UNCHANGED diskMap

\* free_map_allocate, when the map can be written; otherwise it takes the bits
\* back and nothing has changed.
Allocate(start, cnt) ==
  /\ free_map' = free_map \cup Span(start, cnt)
  /\ diskMap' = free_map'

\* free_map_release, which ignores whether the map could be written.
ReleaseSectors(start, cnt) ==
  /\ free_map' = free_map \ Span(start, cnt)
  /\ diskMap' \in {free_map', diskMap}

\* What is left in sectors that no file refers to is forgotten: reading it before
\* it is written again would be an error here.
Forget(sectors) ==
  /\ diskInode' = [s \in Sectors |-> IF s \in sectors THEN Null ELSE diskInode[s]]
  /\ diskData' = [s \in Sectors |-> IF s \in sectors THEN Null ELSE diskData[s]]

----------------------------------------------------------------------------
\* Open inodes

\* Mutant of OpenedInode: inode_open does not look for an inode that is open.
OpenedInode_anew(s) ==
  [open_cnt |-> 1, removed |-> FALSE, deny_write_cnt |-> 0,
   start |-> diskInode[s].start, length |-> diskInode[s].length]

\* inode_open and inode_reopen.
OpenedInode(s) ==
  IF open_inodes[s] # Null
  THEN [open_inodes[s] EXCEPT !.open_cnt = @ + 1]
  ELSE [open_cnt |-> 1, removed |-> FALSE, deny_write_cnt |-> 0,
        start |-> diskInode[s].start, length |-> diskInode[s].length]

\* Mutant of InodeClose: a removed file's sectors go whoever closes it.
InodeClose_eager(s, i, next) ==
  /\ open_inodes' = [open_inodes EXCEPT ![s] =
       IF i.open_cnt > 1 THEN [i EXCEPT !.open_cnt = @ - 1] ELSE Null]
  /\ op' = IF i.removed
           THEN [at |-> "release_inode", sector |-> s, start |-> i.start,
                 length |-> i.length, next |-> next]
           ELSE next

\* inode_close of inode i of sector s; then the call goes on with next.
InodeClose(s, i, next) ==
  IF i.open_cnt > 1
  THEN /\ open_inodes' = [open_inodes EXCEPT ![s] = [i EXCEPT !.open_cnt = @ - 1]]
       /\ op' = next
  ELSE /\ open_inodes' = [open_inodes EXCEPT ![s] = Null]
       /\ op' = IF i.removed
                THEN [at |-> "release_inode", sector |-> s, start |-> i.start,
                      length |-> i.length, next |-> next]
                ELSE next

\* inode_close gives a removed file's inode back to the free map, then its data.
ReleaseInode ==
  /\ At("release_inode")
  /\ ReleaseSectors(op.sector, 1)
  /\ Forget({op.sector})
  /\ op' = [op EXCEPT !.at = "release_data"]
  /\ UNCHANGED <<diskDir, open_inodes, threads>>

ReleaseData ==
  /\ At("release_data")
  /\ ReleaseSectors(op.start, op.length)
  /\ Forget(Span(op.start, op.length))
  /\ op' = op.next
  /\ UNCHANGED <<diskDir, open_inodes, threads>>

\* file_close.
AllowWrite(f, i) ==
  IF f.deny_write THEN [i EXCEPT !.deny_write_cnt = @ - 1] ELSE i
FileClose(f, next) ==
  InodeClose(f.inode, AllowWrite(f, open_inodes[f.inode]), next)

----------------------------------------------------------------------------
\* create

CreateAllocInode(p) ==
  /\ Ready(p) /\ Groups(1) # {}
  /\ \E name \in Names, length \in Sizes :
       op' = [at |-> "create_data", name |-> name, length |-> length,
              sector |-> FirstGroup(1), start |-> 0]
  /\ Allocate(FirstGroup(1), 1)
  /\ UNCHANGED <<diskInode, diskDir, diskData, open_inodes, threads>>

\* inode_create.
CreateAllocData ==
  /\ At("create_data") /\ Groups(op.length) # {}
  /\ Allocate(FirstGroup(op.length), op.length)
  /\ op' = [op EXCEPT !.at = "create_inode", !.start = FirstGroup(op.length)]
  /\ UNCHANGED <<diskInode, diskDir, diskData, open_inodes, threads>>

\* inode_create fails: no memory, no space, or the map cannot be written.
CreateNoData ==
  /\ At("create_data")
  /\ op' = [op EXCEPT !.at = "create_release", !.length = 0]
  /\ UNCHANGED <<disk, memory, threads>>

CreateWriteInode ==
  /\ At("create_inode")
  /\ diskInode' = [diskInode EXCEPT ![op.sector] =
                     [start |-> op.start, length |-> op.length]]
  /\ op' = [op EXCEPT !.at = "create_zeros"]
  /\ UNCHANGED <<diskMap, diskDir, diskData, memory, threads>>

CreateZeros ==
  /\ At("create_zeros")
  /\ diskData' = [s \in Sectors |->
                    IF s \in Span(op.start, op.length) THEN 0 ELSE diskData[s]]
  /\ op' = [op EXCEPT !.at = "create_entry"]
  /\ UNCHANGED <<diskMap, diskInode, diskDir, memory, threads>>

\* lookup.
Entries(name) == {e \in Slots : diskDir[e] # Null /\ diskDir[e].name = name}
Files == {diskDir[e].inode_sector : e \in {e \in Slots : diskDir[e] # Null}}
FreeEntries == {e \in Slots : diskDir[e] = Null}

\* dir_add.
CreateEntry ==
  /\ At("create_entry")
  /\ Entries(op.name) = {} /\ FreeEntries # {}
  /\ LET free == CHOOSE e \in FreeEntries : \A f \in FreeEntries : e <= f
     IN diskDir' = [diskDir EXCEPT ![free] =
                      [name |-> op.name, inode_sector |-> op.sector]]
  /\ op' = Idle
  /\ UNCHANGED <<diskMap, diskInode, diskData, memory, threads>>

\* The name is taken, or the directory is full: its data stays allocated.
CreateNoEntry ==
  /\ At("create_entry")
  /\ Entries(op.name) # {} \/ FreeEntries = {}
  /\ op' = [op EXCEPT !.at = "create_release"]
  /\ UNCHANGED <<disk, memory, threads>>

CreateRelease ==
  /\ At("create_release")
  /\ ReleaseSectors(op.sector, 1)
  /\ Forget({op.sector} \cup Span(op.start, op.length))
  /\ op' = Idle
  /\ UNCHANGED <<diskDir, open_inodes, threads>>

----------------------------------------------------------------------------
\* remove

\* dir_remove up to the erased entry and the mark in the inode, which is open.
RemoveEntry(p) ==
  /\ Ready(p)
  /\ \E name \in Names : \E e \in Entries(name) :
       LET s == diskDir[e].inode_sector
       IN /\ diskDir' = [diskDir EXCEPT ![e] = Null]
          /\ open_inodes' = [open_inodes EXCEPT ![s] =
                               [OpenedInode(s) EXCEPT !.removed = TRUE]]
          /\ op' = [at |-> "remove_close", sector |-> s]
  /\ UNCHANGED <<diskMap, diskInode, diskData, free_map, threads>>

RemoveClose ==
  /\ At("remove_close")
  /\ InodeClose(op.sector, open_inodes[op.sector], Idle)
  /\ UNCHANGED <<disk, free_map, threads>>

----------------------------------------------------------------------------
\* open, close, read, write and seek

\* filesys_open: the inode of a name, opened.
OpenByName(s, deny) ==
  /\ open_inodes' = [open_inodes EXCEPT ![s] =
       [OpenedInode(s) EXCEPT !.deny_write_cnt = IF deny THEN @ + 1 ELSE @]]

FileOf(s, deny) == [inode |-> s, pos |-> 0, deny_write |-> deny]

Open(p) ==
  /\ Ready(p) /\ fLock = Null /\ Len(fdTable[p]) < MaxFd
  /\ \E s \in Files :
       /\ OpenByName(s, FALSE)
       /\ fdTable' = [fdTable EXCEPT ![p] = Append(@, FileOf(s, FALSE))]
  /\ UNCHANGED <<disk, free_map, curFile, fLock, status, op>>

\* The descriptors that have a file.  A bad one ends the program, and a closed
\* one does nothing to close, read and write but panics seek, tell and filesize.
OpenFds(p) == {d \in 1..Len(fdTable[p]) : fdTable[p][d] # Null}

Close(p) ==
  /\ Ready(p)
  /\ \E d \in OpenFds(p) :
       /\ FileClose(fdTable[p][d], Idle)
       /\ fdTable' = [fdTable EXCEPT ![p][d] = Null]
  /\ UNCHANGED <<disk, free_map, curFile, fLock, status>>

Seek(p) ==
  /\ Ready(p)
  /\ \E d \in OpenFds(p), pos \in {0} \cup Sizes :
       fdTable' = [fdTable EXCEPT ![p][d].pos = pos]
  /\ UNCHANGED <<disk, memory, curFile, fLock, status, op>>

\* inode_read_at gets a sector's worth, nothing from the end of the file on; without
\* memory for a bounce buffer it returns less, as if the program had asked for less.
CanReadAt(i, pos) == InData(i, pos)

Read(p) ==
  /\ Ready(p) /\ fLock = Null
  /\ \E d \in OpenFds(p) :
       LET f == fdTable[p][d]
       IN /\ CanReadAt(open_inodes[f.inode], f.pos)
          /\ fdTable' = [fdTable EXCEPT ![p][d].pos = @ + 1]
  /\ UNCHANGED <<disk, memory, curFile, fLock, status, op>>

\* syscall_write up to the first sector.
Write(p) ==
  /\ Ready(p) /\ fLock = Null
  /\ \E d \in OpenFds(p), value \in Values \ {0} :
       op' = [at |-> "write", proc |-> p, fd |-> d, value |-> value, done |-> 0]
  /\ fLock' = p
  /\ UNCHANGED <<disk, memory, fdTable, curFile, status>>

\* Mutant of WriteSector: inode_write_at does not look at deny_write_cnt.
WriteSector_always ==
  /\ At("write")
  /\ LET f == fdTable[op.proc][op.fd]
         i == open_inodes[f.inode]
     IN /\ InData(i, f.pos + op.done)
        /\ diskData' = [diskData EXCEPT ![byte_to_sector(i, f.pos + op.done)] = op.value]
  /\ op' = [op EXCEPT !.done = @ + 1]
  /\ UNCHANGED <<diskMap, diskInode, diskDir, memory, threads>>

\* One turn of the loop of inode_write_at.
WriteSector ==
  /\ At("write")
  /\ LET f == fdTable[op.proc][op.fd]
         i == open_inodes[f.inode]
     IN /\ i.deny_write_cnt = 0
        /\ InData(i, f.pos + op.done)
        /\ diskData' = [diskData EXCEPT ![byte_to_sector(i, f.pos + op.done)] = op.value]
  /\ op' = [op EXCEPT !.done = @ + 1]
  /\ UNCHANGED <<diskMap, diskInode, diskDir, memory, threads>>

\* All written, the end of the file, writes denied, or no memory.
WriteDone ==
  /\ At("write")
  /\ fdTable' = [fdTable EXCEPT ![op.proc][op.fd].pos = @ + op.done]
  /\ fLock' = Null
  /\ op' = Idle
  /\ UNCHANGED <<disk, memory, curFile, status>>

----------------------------------------------------------------------------
\* Programs come and go

\* load: the executable stays open, and may not be written meanwhile.
Load(p) ==
  /\ op = Idle /\ status[p] = "none" /\ fLock = Null
  /\ \E s \in Files :
       /\ OpenByName(s, TRUE)
       /\ curFile' = [curFile EXCEPT ![p] = FileOf(s, TRUE)]
  /\ status' = [status EXCEPT ![p] = "live"]
  /\ UNCHANGED <<disk, free_map, fdTable, fLock, op>>

\* load fails after filesys_open: nobody closes the file.
LoadFails(p) ==
  /\ op = Idle /\ status[p] = "none" /\ fLock = Null
  /\ \E s \in Files :
       /\ OpenByName(s, FALSE)
       /\ curFile' = [curFile EXCEPT ![p] = FileOf(s, FALSE)]
  /\ status' = [status EXCEPT ![p] = "gone"]
  /\ UNCHANGED <<disk, free_map, fdTable, fLock, op>>

\* The kernel's own thread, which has no executable, puts files on the disk and
\* removes them while no program runs (filesys/fsutil.c).
FsutilActions(p) ==
  /\ op = Idle /\ \A q \in Procs : status[q] # "live"
  /\ status[p] = "none" /\ fdTable[p] = <<>>
  /\ status' = [status EXCEPT ![p] = "live"]
  /\ UNCHANGED <<disk, memory, fdTable, curFile, fLock, op>>

\* kill: the process ends by thread_exit and closes nothing.
Kill(p) ==
  /\ Ready(p) /\ curFile[p] # Null
  /\ status' = [status EXCEPT ![p] = "gone"]
  /\ UNCHANGED <<disk, memory, fdTable, curFile, fLock, op>>

Exiting(p) == [at |-> "exit", proc |-> p]

Exit(p) ==
  /\ Ready(p)
  /\ op' = Exiting(p)
  /\ UNCHANGED <<disk, memory, threads>>

\* A page fault while the kernel copies from or to the program's buffer: read
\* and write are left for syscall_exit, and the lock stays as it is.
Fault ==
  /\ At("write") /\ curFile[op.proc] # Null
  /\ op' = Exiting(op.proc)
  /\ UNCHANGED <<disk, memory, threads>>

\* syscall_exit closes the descriptors from the last on, then the executable.
ExitClose ==
  /\ At("exit") /\ fdTable[op.proc] # <<>>
  /\ LET table == fdTable[op.proc]
         f == table[Len(table)]
     IN /\ IF f = Null
           THEN UNCHANGED open_inodes /\ op' = op
           ELSE FileClose(f, op)
        /\ fdTable' = [fdTable EXCEPT ![op.proc] = SubSeq(table, 1, Len(table) - 1)]
  /\ UNCHANGED <<disk, free_map, curFile, fLock, status>>

ExitThread ==
  /\ At("exit") /\ fdTable[op.proc] = <<>>
  /\ IF curFile[op.proc] = Null
     THEN UNCHANGED open_inodes /\ op' = Idle
     ELSE FileClose(curFile[op.proc], Idle)
  /\ curFile' = [curFile EXCEPT ![op.proc] = Null]
  /\ status' = [status EXCEPT ![op.proc] = "none"]
  /\ fLock' = IF fLock = op.proc THEN Gone ELSE fLock
  /\ UNCHANGED <<disk, free_map, fdTable>>

\* The power fails, the kernel panics or halts; then filesys_init reads the
\* free map from the disk.
Restart ==
  /\ free_map' = diskMap
  /\ open_inodes' = [s \in Sectors |-> Null]
  /\ fdTable' = [p \in Procs |-> <<>>]
  /\ curFile' = [p \in Procs |-> Null]
  /\ fLock' = Null
  /\ status' = [p \in Procs |-> "none"]
  /\ op' = Idle
  /\ Forget(Sectors \ UNION {Extent(s, diskInode[s]) : s \in Files})
  /\ UNCHANGED <<diskMap, diskDir>>

\* syscall_handler: the calls that change files or descriptors, and exit, where a bad
\* pointer or number ends too; filesize and tell change nothing.
syscall_handler(p) ==
  \/ CreateAllocInode(p) \/ RemoveEntry(p) \/ Open(p) \/ Close(p) \/ Seek(p) \/ Read(p)
  \/ Write(p) \/ Exit(p)

FileSystemNext ==
  \/ \E p \in Procs :
       syscall_handler(p) \/ Load(p) \/ LoadFails(p) \/ FsutilActions(p) \/ Kill(p)
  \/ CreateAllocData \/ CreateNoData \/ CreateWriteInode \/ CreateZeros
  \/ CreateEntry \/ CreateNoEntry \/ CreateRelease
  \/ RemoveClose \/ ReleaseInode \/ ReleaseData
  \/ WriteSector \/ WriteDone \/ Fault \/ ExitClose \/ ExitThread
  \/ Restart

FileSystemSpec == FileSystemInit /\ [][FileSystemNext]_vars

----------------------------------------------------------------------------
\* Properties

\* Whatever the moment of a power failure, the files that have a name have all
\* their sectors marked used in the map on the disk, and share none: create
\* marks, writes the inode and then the entry (filesys_create), remove erases
\* the entry before it gives the sectors back (dir_remove, inode_close).
MountSafe ==
  \A e \in Slots : diskDir[e] # Null =>
    LET mine == Extent(diskDir[e].inode_sector, diskInode[diskDir[e].inode_sector])
    IN /\ mine \subseteq diskMap \ Formatted
       /\ \A d \in Slots \ {e} : diskDir[d] # Null =>
            /\ diskDir[d].name # diskDir[e].name
            /\ mine \cap Extent(diskDir[d].inode_sector,
                               diskInode[diskDir[d].inode_sector]) = {}

\* The struct files that exist, by who has them and where: 0 for curFile.
Handles ==
  {h \in Procs \X (1..MaxFd) :
     h[2] \in 1..Len(fdTable[h[1]]) /\ fdTable[h[1]][h[2]] # Null}
  \cup {<<p, 0>> : p \in {p \in Procs : curFile[p] # Null}}
File(h) == IF h[2] = 0 THEN curFile[h[1]] ELSE fdTable[h[1]][h[2]]
HandlesOf(s) == {h \in Handles : File(h).inode = s}

\* An inode is open as often as there are struct files of it, counting those
\* lost by a failed load or a kill and the remove under way, and its writes are
\* denied once for each program that runs it; so it is closed by its last user
\* (inode_close), and its sectors, removed or not, are not free before that.
InodesCounted ==
  \A s \in Sectors :
    LET i == open_inodes[s]
        removing == IF At("remove_close") /\ op.sector = s THEN 1 ELSE 0
        users == Cardinality(HandlesOf(s)) + removing
    IN /\ (i = Null) = (users = 0)
       /\ i # Null =>
            /\ i.open_cnt = users
            /\ i.deny_write_cnt = Cardinality({h \in HandlesOf(s) : File(h).deny_write})
            /\ i.removed = (s \notin Files)
            /\ Extent(s, i) \subseteq free_map

\* Nobody changes a program while it runs: load denies writes to its executable
\* (file_deny_write) until the program's end, and none of its sectors is given
\* to another file or cleared.
ProgramsKept ==
  [][\A p \in Procs :
       status[p] = "live" /\ curFile[p] # Null /\ curFile'[p] = curFile[p] =>
         LET i == open_inodes[curFile[p].inode]
         IN \A s \in Span(i.start, i.length) : diskData'[s] = diskData[s]]_vars

\* The file system implements the file store: the calls of one program never
\* reach another file's data, and a restart loses no named file.
InodeOf(s) == IF open_inodes[s] # Null THEN open_inodes[s] ELSE diskInode[s]
Exists(s) == s \in Files \/ open_inodes[s] # Null
Store == INSTANCE FileStore WITH
  Files <- Sectors,
  names <- [n \in Names |-> IF Entries(n) = {} THEN Null
              ELSE diskDir[CHOOSE e \in Entries(n) : TRUE].inode_sector],
  body <- [s \in Sectors |-> IF ~Exists(s) THEN Null
             ELSE [k \in 1..InodeOf(s).length |-> diskData[InodeOf(s).start + k - 1]]],
  held <- {s \in Sectors : open_inodes[s] # Null}
ImplementsFileStore == Store!Spec
=============================================================================
