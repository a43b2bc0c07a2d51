-------------------------- MODULE FileSystemProofs --------------------------
(***************************************************************************)
(* Proofs about FileSystem, for any number of programs, files and sectors: *)
(* no power failure leaves two files with one sector, an inode is open as  *)
(* long as it has users, nobody changes a program that runs, and the file  *)
(* system implements FileStore.  The argument is one of ownership: every   *)
(* sector that is marked used belongs to one file that has a name or is    *)
(* open, or to the call under way, or has leaked.                          *)
(***************************************************************************)
EXTENDS FileSystem, FiniteSetTheorems, SequenceTheorems, WellFoundedInduction, TLAPS

\* The call under way.
OpOK ==
  \/ op = Idle
  \/ op \in [at : {"create_data", "create_inode", "create_zeros", "create_entry",
                   "create_release"},
             name : Names, length : Nat, sector : Sectors, start : Sectors]
     /\ (op.at # "create_release" => op.length \in Sizes)
  \/ op \in [at : {"remove_close"}, sector : Sectors]
  \/ op \in [at : {"release_inode", "release_data"}, sector : Sectors, start : Sectors,
             length : Nat, next : {Idle} \cup {Exiting(p) : p \in Procs}]
  \/ op \in [at : {"write"}, proc : Procs, fd : Nat, value : Values, done : Nat]
     /\ op.fd \in OpenFds(op.proc)
  \/ op \in [at : {"exit"}, proc : Procs]

FileTypeOK ==
  /\ diskInode \in [Sectors -> InodeDisk \cup {Null}]
  /\ diskDir \in [Slots -> DirEntry \cup {Null}]
  /\ diskData \in [Sectors -> Values \cup {Null}]
  /\ open_inodes \in [Sectors -> Inode \cup {Null}]
  /\ fdTable \in [Procs -> Seq(OpenFile \cup {Null})]
  /\ \A p \in Procs : Len(fdTable[p]) <= MaxFd
  /\ curFile \in [Procs -> OpenFile \cup {Null}]
  /\ status \in [Procs -> {"none", "live", "gone"}]
  /\ OpOK

\* What belongs to the file whose inode is in sector s, and to the call.
Mine(s) == Extent(s, InodeOf(s))
CallOwns ==
  IF op.at \in {"create_data"} THEN {op.sector}
  ELSE IF op.at \in {"create_inode", "create_zeros", "create_entry", "create_release",
                     "release_inode"} THEN Extent(op.sector, op)
  ELSE IF op.at = "release_data" THEN Span(op.start, op.length)
  ELSE {}

\* The map on the disk marks every sector that the one in memory marks.
MapsOK == free_map \subseteq diskMap /\ diskMap \subseteq Sectors

OwnersApart ==
  /\ \A s \in Sectors : Exists(s) => /\ Mine(s) \subseteq free_map \ Formatted
                                     /\ Mine(s) \cap CallOwns = {}
  /\ \A s, r \in Sectors : Exists(s) /\ Exists(r) /\ s # r => Mine(s) \cap Mine(r) = {}
  /\ CallOwns \subseteq free_map \ Formatted
  /\ Formatted \subseteq free_map /\ MapsOK

\* No file has its inode's sector among those of its data.
CallApart ==
  op.at \in {"create_inode", "create_zeros", "create_entry", "create_release",
            "release_inode"} => op.sector \notin Span(op.start, op.length)
DataApart ==
  /\ \A s \in Sectors : Exists(s) => s \notin Span(InodeOf(s).start, InodeOf(s).length)
  /\ CallApart

\* Names and files correspond one to one; an inode in memory is that on the disk.
NamesApart ==
  /\ \A d, e \in Slots : diskDir[d] # Null /\ diskDir[e] # Null /\ d # e =>
       /\ diskDir[d].name # diskDir[e].name
       /\ diskDir[d].inode_sector # diskDir[e].inode_sector
  /\ \A s \in Files :
       /\ diskInode[s] # Null
       /\ open_inodes[s] # Null => /\ open_inodes[s].start = diskInode[s].start
                                   /\ open_inodes[s].length = diskInode[s].length
  /\ op.at \in {"create_zeros", "create_entry"} =>
       diskInode[op.sector] = [start |-> op.start, length |-> op.length]
  /\ op.at = "create_entry" => \A x \in Span(op.start, op.length) : diskData[x] = 0

\* The executable of a program that runs is denied to writers.
ExecutablesDenied ==
  \A p \in Procs :
    /\ status[p] = "none" => curFile[p] = Null
    /\ status[p] = "live" /\ curFile[p] # Null => curFile[p].deny_write

\* What InodesCounted says of sector s.
Removing(s) == IF At("remove_close") /\ op.sector = s THEN 1 ELSE 0
Denying(s) == {h \in HandlesOf(s) : File(h).deny_write}
Counted(s) ==
  /\ IsFiniteSet(HandlesOf(s))
  /\ open_inodes[s] = Null => HandlesOf(s) = {} /\ Removing(s) = 0
  /\ open_inodes[s] # Null =>
       /\ open_inodes[s].open_cnt = Cardinality(HandlesOf(s)) + Removing(s)
       /\ open_inodes[s].open_cnt > 0
       /\ open_inodes[s].deny_write_cnt = Cardinality(Denying(s))
       /\ open_inodes[s].removed = (s \notin Files)
AllCounted == \A s \in Sectors : Counted(s)

FileInv ==
  FileTypeOK /\ OwnersApart /\ DataApart /\ NamesApart /\ ExecutablesDenied /\ AllCounted

----------------------------------------------------------------------------
(* What the proofs use of the constants and of the data *)

LEMMA Constants ==
  /\ Sectors \subseteq Nat /\ Slots \subseteq Nat /\ Sizes \subseteq Nat /\ MaxFd \in Nat
  /\ 0 \in Sectors /\ 0 \in Values
  /\ Null \notin Sectors /\ Null \notin Procs
  /\ Null \notin Values /\ Null \notin InodeDisk /\ Null \notin DirEntry /\ Null \notin Inode
  /\ Null \notin OpenFile
  BY FileSystemAssumption DEF Sectors

\* An entry of the directory names a sector.
LEMMA FilesInSectors ==
  ASSUME FileTypeOK
  PROVE  Files \subseteq Sectors
<1> SUFFICES ASSUME NEW s \in Files PROVE s \in Sectors
  OBVIOUS
<1>1. PICK e \in Slots : diskDir[e] # Null /\ s = diskDir[e].inode_sector
  BY DEF Files
<1>2. diskDir[e] \in DirEntry
  BY <1>1 DEF FileTypeOK
<1> QED
  BY <1>1, <1>2 DEF DirEntry

\* A nonempty set of numbers has a least element.
LEMMA LeastNumber ==
  ASSUME NEW S \in SUBSET Nat, S # {}
  PROVE  \E n \in S : \A m \in S : n <= m
<1> DEFINE R == {p \in Nat \X Nat : p[1] < p[2]}
<1>1. IsWellFoundedOn(R, Nat)
  BY NatLessThanWellFounded DEF OpToRel
<1>2. \A m, n \in Nat : <<m, n>> \in R <=> m < n
  OBVIOUS
<1> HIDE DEF R
<1>3. PICK n \in S : \A m \in S : ~(<<m, n>> \in R)
  BY <1>1, WFMin
<1>4. ASSUME NEW m \in S PROVE n <= m
  <2>1. m \in Nat /\ n \in Nat /\ ~(<<m, n>> \in R)
    BY <1>3
  <2> QED
    BY <2>1, <1>2
<1> QED
  BY <1>4

\* bitmap_scan finds free sectors.
LEMMA FirstGroupFree ==
  ASSUME NEW cnt, Groups(cnt) # {}
  PROVE  /\ FirstGroup(cnt) \in Sectors
         /\ Span(FirstGroup(cnt), cnt) \cap free_map = {}
         /\ cnt \in Nat => Span(FirstGroup(cnt), cnt) \subseteq Sectors
<1>1. Groups(cnt) \in SUBSET Nat
  BY Constants DEF Groups
<1>2. \E s \in Groups(cnt) : \A r \in Groups(cnt) : s <= r
  BY <1>1, LeastNumber
<1>3. FirstGroup(cnt) \in Groups(cnt)
  BY <1>2 DEF FirstGroup
<1>4. FirstGroup(cnt) \in Sectors /\ FirstGroup(cnt) + cnt - 1 <= LastSector
  BY <1>3 DEF Groups
<1>5. cnt \in Nat => Span(FirstGroup(cnt), cnt) \subseteq Sectors
  BY <1>4, FileSystemAssumption DEF Span, Sectors
<1> QED
  BY <1>3, <1>5 DEF Groups

LEMMA OneSector == \A s \in Sectors : Span(s, 1) = {s}
  BY Constants DEF Span

\* The locals a call has at each place.
LEMMA CallShape ==
  ASSUME OpOK
  PROVE  /\ op.at \in {"create_data", "create_inode", "create_zeros", "create_entry",
                       "create_release"} =>
              /\ op \in [at : {"create_data", "create_inode", "create_zeros", "create_entry",
                               "create_release"},
                         name : Names, length : Nat, sector : Sectors, start : Sectors]
              /\ op.at # "create_release" => op.length \in Sizes
         /\ op.at = "remove_close" => op.sector \in Sectors
         /\ op.at \in {"release_inode", "release_data"} =>
              op \in [at : {"release_inode", "release_data"}, sector : Sectors, start : Sectors,
                      length : Nat, next : {Idle} \cup {Exiting(p) : p \in Procs}]
         /\ op.at = "write" =>
              /\ op \in [at : {"write"}, proc : Procs, fd : Nat, value : Values, done : Nat]
              /\ op.fd \in OpenFds(op.proc)
         /\ op.at = "exit" => op \in [at : {"exit"}, proc : Procs]
  BY DEF OpOK, Idle

----------------------------------------------------------------------------
(* Who has which file open *)

\* The struct file of p at descriptor slot d, 0 being its executable.
FileAt(p, d) ==
  IF d = 0 THEN curFile[p]
  ELSE IF d \in 1..Len(fdTable[p]) THEN fdTable[p][d] ELSE Null

Places == Procs \X (0..MaxFd)

\* Every struct file but the one at p's place d stays.
OthersKept(p, d) ==
  \A q \in Procs, e \in 0..MaxFd : q # p \/ e # d => (FileAt(q, e))' = FileAt(q, e)

\* The last entry of p's table goes.
Shrinks(p) ==
  fdTable' = [fdTable EXCEPT ![p] = SubSeq(fdTable[p], 1, Len(fdTable[p]) - 1)]

LEMMA HandlesAre ==
  /\ Handles = {h \in Places : FileAt(h[1], h[2]) # Null}
  /\ \A h \in Handles : File(h) = FileAt(h[1], h[2])
<1>1. ASSUME NEW h \in Handles
      PROVE  h \in Places /\ FileAt(h[1], h[2]) # Null /\ File(h) = FileAt(h[1], h[2])
  <2>1. CASE \E p \in Procs : h = <<p, 0>> /\ curFile[p] # Null
    BY <2>1, Constants DEF Places, FileAt, File
  <2>2. CASE /\ h \in Procs \X (1..MaxFd)
             /\ h[2] \in 1..Len(fdTable[h[1]]) /\ fdTable[h[1]][h[2]] # Null
    BY <2>2, Constants DEF Places, FileAt, File
  <2> QED
    BY <2>1, <2>2 DEF Handles
<1>2. ASSUME NEW h \in Places, FileAt(h[1], h[2]) # Null PROVE h \in Handles
  <2>1. PICK p \in Procs, d \in 0..MaxFd : h = <<p, d>>
    BY DEF Places
  <2>2. CASE d = 0
    BY <1>2, <2>1, <2>2 DEF FileAt, Handles
  <2>3. CASE d # 0
    BY <1>2, <2>1, <2>3, Constants DEF FileAt, Handles
  <2> QED
    BY <2>2, <2>3
<1> QED
  BY <1>1, <1>2

\* The same for the next state.
LEMMA HandlesWillBe ==
  /\ Handles' = {h \in Places : (FileAt(h[1], h[2]))' # Null}
  /\ \A h \in Handles' : (File(h))' = (FileAt(h[1], h[2]))'
<1>1. ASSUME NEW h \in Handles'
      PROVE  h \in Places /\ (FileAt(h[1], h[2]))' # Null /\ (File(h))' = (FileAt(h[1], h[2]))'
  <2>1. CASE \E p \in Procs : h = <<p, 0>> /\ curFile'[p] # Null
    BY <2>1, Constants DEF Places, FileAt, File
  <2>2. CASE /\ h \in Procs \X (1..MaxFd)
             /\ h[2] \in 1..Len(fdTable'[h[1]]) /\ fdTable'[h[1]][h[2]] # Null
    BY <2>2, Constants DEF Places, FileAt, File
  <2> QED
    BY <2>1, <2>2 DEF Handles
<1>2. ASSUME NEW h \in Places, (FileAt(h[1], h[2]))' # Null PROVE h \in Handles'
  <2>1. PICK p \in Procs, d \in 0..MaxFd : h = <<p, d>>
    BY DEF Places
  <2>2. CASE d = 0
    BY <1>2, <2>1, <2>2 DEF FileAt, Handles
  <2>3. CASE d # 0
    BY <1>2, <2>1, <2>3, Constants DEF FileAt, Handles
  <2> QED
    BY <2>2, <2>3
<1> QED
  BY <1>1, <1>2

\* The struct files there are stay, though their positions may change.
LEMMA HandlesKept ==
  ASSUME \A p \in Procs, d \in 0..MaxFd :
           /\ ((FileAt(p, d))' = Null) = (FileAt(p, d) = Null)
           /\ FileAt(p, d) # Null => /\ (FileAt(p, d))'.inode = FileAt(p, d).inode
                                     /\ (FileAt(p, d))'.deny_write = FileAt(p, d).deny_write
  PROVE  \A s \in Sectors : /\ (HandlesOf(s))' = HandlesOf(s)
                            /\ (Denying(s))' = Denying(s)
<1>1. \A h \in Places :
        /\ ((FileAt(h[1], h[2]))' = Null) = (FileAt(h[1], h[2]) = Null)
        /\ FileAt(h[1], h[2]) # Null =>
             /\ (FileAt(h[1], h[2]))'.inode = FileAt(h[1], h[2]).inode
             /\ (FileAt(h[1], h[2]))'.deny_write = FileAt(h[1], h[2]).deny_write
  BY DEF Places
<1>2. Handles' = Handles
  BY <1>1, HandlesAre, HandlesWillBe
<1>3. \A h \in Handles : /\ (File(h))'.inode = File(h).inode
                         /\ (File(h))'.deny_write = File(h).deny_write
  BY <1>1, <1>2, HandlesAre, HandlesWillBe
<1> TAKE s \in Sectors
<1>4. (HandlesOf(s))' = HandlesOf(s)
  BY <1>2, <1>3 DEF HandlesOf
<1>5. (Denying(s))' = Denying(s)
  BY <1>3, <1>4 DEF Denying, HandlesOf
<1> QED
  BY <1>4, <1>5

\* One struct file of an inode comes, or goes.
LEMMA HandleAdded ==
  ASSUME NEW p \in Procs, NEW d \in 0..MaxFd, FileAt(p, d) = Null,
         NEW f \in OpenFile, (FileAt(p, d))' = f,
         OthersKept(p, d)
  PROVE  /\ \A s \in Sectors \ {f.inode} : /\ (HandlesOf(s))' = HandlesOf(s)
                                           /\ (Denying(s))' = Denying(s)
         /\ (HandlesOf(f.inode))' = HandlesOf(f.inode) \cup {<<p, d>>}
         /\ (Denying(f.inode))' = IF f.deny_write THEN Denying(f.inode) \cup {<<p, d>>}
                                                  ELSE Denying(f.inode)
         /\ <<p, d>> \notin HandlesOf(f.inode) /\ <<p, d>> \notin Denying(f.inode)
<1> DEFINE here == <<p, d>>
<1>1. /\ here \in Places /\ here[1] = p /\ here[2] = d
      /\ \A h \in Places : h # here => (FileAt(h[1], h[2]))' = FileAt(h[1], h[2])
  BY DEF Places, OthersKept
<1> HIDE DEF here
<1>2. /\ here \notin Handles /\ Handles' = Handles \cup {here}
      /\ \A h \in Handles : (File(h))' = File(h)
      /\ (File(here))' = f
  BY <1>1, HandlesAre, HandlesWillBe, Constants
<1>3. \A s \in Sectors :
        (HandlesOf(s))' = IF f.inode = s THEN HandlesOf(s) \cup {here} ELSE HandlesOf(s)
  BY <1>2 DEF HandlesOf
<1>4. \A s \in Sectors :
        (Denying(s))' = IF f.inode = s /\ f.deny_write THEN Denying(s) \cup {here}
                                                       ELSE Denying(s)
  <2> TAKE s \in Sectors
  <2>1. \A h \in HandlesOf(s) : (File(h))' = File(h)
    BY <1>2 DEF HandlesOf
  <2>2. CASE f.inode = s
    BY <1>2, <1>3, <2>1, <2>2 DEF Denying
  <2>3. CASE f.inode # s
    BY <1>2, <1>3, <2>1, <2>3 DEF Denying
  <2> QED
    BY <2>2, <2>3
<1>5. here \notin HandlesOf(f.inode) /\ here \notin Denying(f.inode)
  BY <1>2 DEF HandlesOf, Denying
<1>6. f.inode \in Sectors
  BY DEF OpenFile
<1> QED
  BY <1>3, <1>4, <1>5, <1>6 DEF here

LEMMA HandleRemoved ==
  ASSUME NEW p \in Procs, NEW d \in 0..MaxFd, (FileAt(p, d))' = Null,
         NEW f \in OpenFile, FileAt(p, d) = f,
         OthersKept(p, d)
  PROVE  /\ \A s \in Sectors \ {f.inode} : /\ (HandlesOf(s))' = HandlesOf(s)
                                           /\ (Denying(s))' = Denying(s)
         /\ (HandlesOf(f.inode))' = HandlesOf(f.inode) \ {<<p, d>>}
         /\ (Denying(f.inode))' = IF f.deny_write THEN Denying(f.inode) \ {<<p, d>>}
                                                  ELSE Denying(f.inode)
         /\ <<p, d>> \in HandlesOf(f.inode)
         /\ f.deny_write => <<p, d>> \in Denying(f.inode)
<1> DEFINE here == <<p, d>>
<1>1. /\ here \in Places /\ here[1] = p /\ here[2] = d
      /\ \A h \in Places : h # here => (FileAt(h[1], h[2]))' = FileAt(h[1], h[2])
  BY DEF Places, OthersKept
<1> HIDE DEF here
<1>2. /\ here \in Handles /\ Handles' = Handles \ {here}
      /\ \A h \in Handles' : (File(h))' = File(h)
      /\ File(here) = f
  BY <1>1, HandlesAre, HandlesWillBe, Constants
<1>3. \A s \in Sectors :
        (HandlesOf(s))' = IF f.inode = s THEN HandlesOf(s) \ {here} ELSE HandlesOf(s)
  BY <1>2 DEF HandlesOf
<1>4. \A s \in Sectors :
        (Denying(s))' = IF f.inode = s /\ f.deny_write THEN Denying(s) \ {here}
                                                       ELSE Denying(s)
  <2> TAKE s \in Sectors
  <2>1. \A h \in (HandlesOf(s))' : (File(h))' = File(h)
    BY <1>2 DEF HandlesOf
  <2>2. CASE f.inode = s
    BY <1>2, <1>3, <2>1, <2>2 DEF Denying
  <2>3. CASE f.inode # s
    BY <1>2, <1>3, <2>1, <2>3 DEF Denying
  <2> QED
    BY <2>2, <2>3
<1>5. here \in HandlesOf(f.inode) /\ (f.deny_write => here \in Denying(f.inode))
  BY <1>2 DEF HandlesOf, Denying
<1>6. f.inode \in Sectors
  BY DEF OpenFile
<1> QED
  BY <1>3, <1>4, <1>5, <1>6 DEF here

\* Denying writes is being a user.
LEMMA DenyingFinite ==
  ASSUME NEW s, IsFiniteSet(HandlesOf(s))
  PROVE  /\ IsFiniteSet(Denying(s)) /\ Cardinality(Denying(s)) \in Nat
         /\ Cardinality(HandlesOf(s)) \in Nat
<1>1. Denying(s) \in SUBSET HandlesOf(s)
  BY DEF Denying
<1>2. IsFiniteSet(Denying(s))
  BY <1>1, FS_Subset
<1> QED
  BY <1>2, FS_CardinalityType

----------------------------------------------------------------------------
(* What a step leaves as it is *)

USE Constants

\* The files there are, when the directory and the open inodes do not change and
\* no inode of a file is overwritten.
LEMMA FilesKept ==
  ASSUME FileTypeOK, UNCHANGED <<diskDir, open_inodes>>,
         \A s \in Files : diskInode'[s] = diskInode[s]
  PROVE  /\ Files' = Files
         /\ \A s \in Sectors : /\ (Exists(s))' = Exists(s)
                               /\ Exists(s) => /\ (Mine(s))' = Mine(s)
                                               /\ (InodeOf(s))' = InodeOf(s)
<1>1. Files' = Files
  BY DEF Files
<1>2. ASSUME NEW s \in Sectors PROVE (Exists(s))' = Exists(s)
  BY <1>1 DEF Exists
<1>3. ASSUME NEW s \in Sectors, Exists(s)
      PROVE  (Mine(s))' = Mine(s) /\ (InodeOf(s))' = InodeOf(s)
  <2>1. (InodeOf(s))' = InodeOf(s)
    BY <1>3 DEF InodeOf, Exists
  <2> QED
    BY <2>1 DEF Mine, Extent
<1> QED
  BY <1>1, <1>2, <1>3

\* The call takes the free sectors A and gives back R, which are its own.
LEMMA ApartKept ==
  ASSUME OwnersApart, NEW A, NEW R,
         \A s \in Sectors : /\ (Exists(s))' => Exists(s)
                            /\ Exists(s) => (Mine(s))' = Mine(s),
         A \cap free_map = {}, R \subseteq CallOwns,
         free_map' = (free_map \ R) \cup A, MapsOK',
         CallOwns' \subseteq (CallOwns \ R) \cup A
  PROVE  OwnersApart'
<1>1. ASSUME NEW s \in Sectors, (Exists(s))'
      PROVE  /\ (Mine(s))' \subseteq free_map' \ Formatted
             /\ (Mine(s))' \cap CallOwns' = {}
  <2>1. /\ (Mine(s))' = Mine(s) /\ Mine(s) \subseteq free_map \ Formatted
        /\ Mine(s) \cap CallOwns = {}
    BY <1>1 DEF OwnersApart
  <2> QED
    BY <2>1
<1>2. ASSUME NEW s \in Sectors, NEW r \in Sectors, (Exists(s))', (Exists(r))', s # r
      PROVE  (Mine(s))' \cap (Mine(r))' = {}
  BY <1>2 DEF OwnersApart
<1>3. CallOwns' \subseteq free_map' \ Formatted /\ Formatted \subseteq free_map'
  BY DEF OwnersApart
<1> QED
  BY <1>1, <1>2, <1>3 DEF OwnersApart

\* Nobody's struct files change.
LEMMA HandlesSame ==
  ASSUME UNCHANGED <<fdTable, curFile>>
  PROVE  \A s \in Sectors : (HandlesOf(s))' = HandlesOf(s) /\ (Denying(s))' = Denying(s)
<1>1. \A p \in Procs, d \in 0..MaxFd : (FileAt(p, d))' = FileAt(p, d)
  BY DEF FileAt
<1> QED
  BY <1>1, HandlesKept

\* Nor the open inodes, nor what they are open for.
LEMMA CountsKept ==
  ASSUME AllCounted, open_inodes' = open_inodes,
         \A s \in Sectors : /\ (HandlesOf(s))' = HandlesOf(s)
                            /\ (Denying(s))' = Denying(s)
                            /\ (Removing(s))' = Removing(s)
                            /\ open_inodes[s] # Null => (s \in Files') = (s \in Files)
  PROVE  AllCounted'
  BY DEF AllCounted, Counted

\* The call under way removes no file, before the step and after it.
LEMMA NotRemoving ==
  /\ op.at # "remove_close" => \A s \in Sectors : Removing(s) = 0
  /\ op'.at # "remove_close" => \A s \in Sectors : (Removing(s))' = 0
  BY DEF Removing, At

\* The names, when directory, open inodes and the inodes of files do not change.
LEMMA NamesKept ==
  ASSUME NamesApart, UNCHANGED <<diskDir, open_inodes>>,
         \A s \in Files : diskInode'[s] = diskInode[s],
         op'.at \in {"create_zeros", "create_entry"} =>
           diskInode'[op'.sector] = [start |-> op'.start, length |-> op'.length],
         op'.at = "create_entry" => \A x \in Span(op'.start, op'.length) : diskData'[x] = 0
  PROVE  NamesApart'
<1>1. Files' = Files
  BY DEF Files
<1> QED
  BY <1>1 DEF NamesApart

\* A call that changes neither threads nor open inodes keeps the invariant if it
\* keeps its own sectors apart from those of the files.
LEMMA CallKeeps ==
  ASSUME FileInv, NEW A, NEW R,
         UNCHANGED <<diskDir, open_inodes, fdTable, curFile, status>>,
         \A s \in Files : diskInode'[s] = diskInode[s],
         diskInode' \in [Sectors -> InodeDisk \cup {Null}],
         diskData' \in [Sectors -> Values \cup {Null}],
         OpOK', CallApart', op.at # "remove_close", op'.at # "remove_close",
         A \cap free_map = {}, R \subseteq CallOwns,
         free_map' = (free_map \ R) \cup A, MapsOK',
         CallOwns' \subseteq (CallOwns \ R) \cup A,
         op'.at \in {"create_zeros", "create_entry"} =>
           diskInode'[op'.sector] = [start |-> op'.start, length |-> op'.length],
         op'.at = "create_entry" => \A x \in Span(op'.start, op'.length) : diskData'[x] = 0
  PROVE  FileInv'
<1>0. FileTypeOK /\ OwnersApart /\ DataApart /\ NamesApart /\ ExecutablesDenied /\ AllCounted
  BY DEF FileInv
<1>1. FileTypeOK'
  BY <1>0 DEF FileTypeOK
<1>2. OwnersApart'
  BY <1>0, FilesKept, ApartKept
<1>3. NamesApart'
  BY <1>0, NamesKept
<1>4. ExecutablesDenied'
  BY <1>0 DEF ExecutablesDenied
<1>5. AllCounted'
  BY <1>0, FilesKept, HandlesSame, NotRemoving, CountsKept
<1>6. DataApart'
  BY <1>0, FilesKept DEF DataApart
<1> QED
  BY <1>1, <1>2, <1>3, <1>4, <1>5, <1>6 DEF FileInv

\* The same for a call that allocates and releases nothing.
LEMMA CallStays ==
  ASSUME FileInv,
         UNCHANGED <<diskDir, open_inodes, fdTable, curFile, status, free_map, diskMap>>,
         \A s \in Files : diskInode'[s] = diskInode[s],
         diskInode' \in [Sectors -> InodeDisk \cup {Null}],
         diskData' \in [Sectors -> Values \cup {Null}],
         OpOK', CallApart', op.at # "remove_close", op'.at # "remove_close",
         CallOwns' \subseteq CallOwns,
         op'.at \in {"create_zeros", "create_entry"} =>
           diskInode'[op'.sector] = [start |-> op'.start, length |-> op'.length],
         op'.at = "create_entry" => \A x \in Span(op'.start, op'.length) : diskData'[x] = 0
  PROVE  FileInv'
<1> DEFINE none == {}
<1>1. /\ none \cap free_map = {} /\ none \subseteq CallOwns
      /\ free_map' = (free_map \ none) \cup none /\ MapsOK'
      /\ CallOwns' \subseteq (CallOwns \ none) \cup none
  BY DEF FileInv, OwnersApart, MapsOK
<1> HIDE DEF none
<1> QED
  BY <1>1, CallKeeps

\* Allocating and releasing, in memory and on the disk.
LEMMA MapsAgree ==
  ASSUME OwnersApart, NEW start, NEW cnt
  PROVE  /\ Allocate(start, cnt) /\ Span(start, cnt) \subseteq Sectors =>
              free_map' = (free_map \ {}) \cup Span(start, cnt) /\ MapsOK'
         /\ ReleaseSectors(start, cnt) =>
              free_map' = (free_map \ Span(start, cnt)) \cup {} /\ MapsOK'
  BY DEF Allocate, ReleaseSectors, OwnersApart, MapsOK

\* Forgetting sectors of the call's own touches no file.
LEMMA ForgetKeeps ==
  ASSUME FileTypeOK, OwnersApart, NEW S, S \subseteq CallOwns, Forget(S)
  PROVE  /\ diskInode' \in [Sectors -> InodeDisk \cup {Null}]
         /\ diskData' \in [Sectors -> Values \cup {Null}]
         /\ \A s \in Files : diskInode'[s] = diskInode[s]
<1>1. diskInode' \in [Sectors -> InodeDisk \cup {Null}]
      /\ diskData' \in [Sectors -> Values \cup {Null}]
  BY DEF Forget, FileTypeOK
<1>2. ASSUME NEW s \in Files PROVE diskInode'[s] = diskInode[s]
  <2>1. s \in Sectors
    BY FilesInSectors
  <2>2. s \in Mine(s) /\ Mine(s) \cap CallOwns = {}
    BY <2>1 DEF OwnersApart, Exists, Mine, Extent
  <2> QED
    BY <2>1, <2>2 DEF Forget
<1> QED
  BY <1>1, <1>2

----------------------------------------------------------------------------
(* create *)

LEMMA AllocInodeKeeps ==
  ASSUME FileInv, NEW p \in Procs, CreateAllocInode(p)
  PROVE  FileInv'
<1>1. op = Idle /\ OwnersApart /\ FileTypeOK
  BY DEF CreateAllocInode, Ready, FileInv
<1>2. PICK name \in Names, length \in Sizes :
        op' = [at |-> "create_data", name |-> name, length |-> length,
               sector |-> FirstGroup(1), start |-> 0]
  BY DEF CreateAllocInode
<1>3. /\ FirstGroup(1) \in Sectors /\ Span(FirstGroup(1), 1) = {FirstGroup(1)}
      /\ {FirstGroup(1)} \cap free_map = {} /\ {FirstGroup(1)} \subseteq Sectors
  BY FirstGroupFree, OneSector DEF CreateAllocInode
<1>4. /\ free_map' = (free_map \ {}) \cup {FirstGroup(1)} /\ MapsOK'
  BY <1>1, <1>3, MapsAgree DEF CreateAllocInode
<1>5. UNCHANGED <<diskDir, open_inodes, fdTable, curFile, status, diskInode, diskData>>
  BY DEF CreateAllocInode, threads
<1>6. OpOK' /\ op'.at = "create_data" /\ CallOwns' = {FirstGroup(1)}
  BY <1>2, <1>3 DEF OpOK, CallOwns
<1>7. op.at = "idle" /\ CallApart'
  BY <1>1, <1>6 DEF Idle, CallApart
<1>8. /\ diskInode' \in [Sectors -> InodeDisk \cup {Null}]
      /\ diskData' \in [Sectors -> Values \cup {Null}]
  BY <1>1, <1>5 DEF FileTypeOK
<1> QED
  BY <1>3, <1>4, <1>5, <1>6, <1>7, <1>8, CallKeeps

LEMMA AllocDataKeeps ==
  ASSUME FileInv, CreateAllocData
  PROVE  FileInv'
<1>1. /\ FileTypeOK /\ OwnersApart /\ op.at = "create_data"
      /\ op \in [at : {"create_data"}, name : Names, length : Sizes, sector : Sectors,
                 start : Sectors]
  <2>1. OpOK /\ op.at = "create_data"
    BY DEF FileInv, FileTypeOK, CreateAllocData, At
  <2> QED
    BY <2>1, CallShape DEF FileInv
<1> DEFINE start == FirstGroup(op.length)
<1>2. op' = [op EXCEPT !.at = "create_inode", !.start = start]
  BY DEF CreateAllocData
<1>3. /\ start \in Sectors /\ Span(start, op.length) \cap free_map = {}
      /\ Span(start, op.length) \subseteq Sectors
  BY <1>1, FirstGroupFree DEF CreateAllocData
<1>4. free_map' = (free_map \ {}) \cup Span(start, op.length) /\ MapsOK'
  BY <1>1, <1>3, MapsAgree DEF CreateAllocData
<1>5. UNCHANGED <<diskDir, open_inodes, fdTable, curFile, status, diskInode, diskData>>
  BY DEF CreateAllocData, threads
<1> HIDE DEF start
<1>6. /\ OpOK' /\ CallApart' /\ op'.at = "create_inode"
      /\ CallOwns' \subseteq (CallOwns \ {}) \cup Span(start, op.length)
  <2>1. op' \in [at : {"create_inode"}, name : Names, length : Sizes, sector : Sectors,
                 start : Sectors]
    BY <1>1, <1>2, <1>3
  <2>2. op'.length = op.length /\ op'.start = start /\ op'.sector = op.sector
    BY <1>1, <1>2
  <2>3. OpOK'
    BY <2>1 DEF OpOK
  <2>4. CallOwns' = {op.sector} \cup Span(start, op.length) /\ CallOwns = {op.sector}
    BY <1>1, <2>1, <2>2 DEF CallOwns, Extent
  <2>5. op.sector \notin Span(start, op.length)
    BY <1>1, <1>3, <2>4 DEF OwnersApart
  <2>6. CallApart'
    BY <2>2, <2>5 DEF CallApart
  <2> QED
    BY <2>1, <2>3, <2>4, <2>6
<1>7. /\ diskInode' \in [Sectors -> InodeDisk \cup {Null}]
      /\ diskData' \in [Sectors -> Values \cup {Null}]
  BY <1>1, <1>5 DEF FileTypeOK
<1> QED
  BY <1>1, <1>3, <1>4, <1>5, <1>6, <1>7, CallKeeps

\* inode_create fails.
LEMMA NoDataKeeps ==
  ASSUME FileInv, CreateNoData
  PROVE  FileInv'
<1>1. /\ FileTypeOK /\ OwnersApart /\ op.at = "create_data"
      /\ op \in [at : {"create_data"}, name : Names, length : Sizes, sector : Sectors,
                 start : Sectors]
  <2>1. OpOK /\ op.at = "create_data"
    BY DEF FileInv, FileTypeOK, CreateNoData, At
  <2> QED
    BY <2>1, CallShape DEF FileInv
<1>2. op' = [op EXCEPT !.at = "create_release", !.length = 0]
  BY DEF CreateNoData
<1>3. UNCHANGED <<diskMap, free_map, diskDir, open_inodes, fdTable, curFile, status,
                  diskInode, diskData>>
  BY DEF CreateNoData, disk, memory, threads
<1>4. /\ op' \in [at : {"create_release"}, name : Names, length : {0}, sector : Sectors,
                  start : Sectors]
      /\ op'.sector = op.sector /\ op'.start = op.start
  BY <1>1, <1>2
<1>5. OpOK'
  BY <1>4 DEF OpOK
<1>6. CallOwns' \subseteq CallOwns /\ CallApart'
  <2>1. op.start \in Nat
    BY <1>1
  <2>2. Span(op.start, 0) = {}
    BY <2>1 DEF Span
  <2> QED
    BY <1>1, <1>4, <2>2 DEF CallOwns, Extent, CallApart
<1>7. /\ diskInode' \in [Sectors -> InodeDisk \cup {Null}]
      /\ diskData' \in [Sectors -> Values \cup {Null}]
  BY <1>1, <1>3 DEF FileTypeOK
<1> QED
  BY <1>1, <1>3, <1>4, <1>5, <1>6, <1>7, CallStays

LEMMA WriteInodeKeeps ==
  ASSUME FileInv, CreateWriteInode
  PROVE  FileInv'
<1>1. /\ FileTypeOK /\ OwnersApart /\ op.at = "create_inode"
      /\ op \in [at : {"create_inode"}, name : Names, length : Sizes, sector : Sectors,
                 start : Sectors]
  <2>1. OpOK /\ op.at = "create_inode"
    BY DEF FileInv, FileTypeOK, CreateWriteInode, At
  <2> QED
    BY <2>1, CallShape DEF FileInv
<1> DEFINE i == [start |-> op.start, length |-> op.length]
<1>2. /\ op' = [op EXCEPT !.at = "create_zeros"]
      /\ diskInode' = [diskInode EXCEPT ![op.sector] = i]
  BY DEF CreateWriteInode
<1>3. UNCHANGED <<diskMap, free_map, diskDir, open_inodes, fdTable, curFile, status, diskData>>
  BY DEF CreateWriteInode, memory, threads
<1>4. /\ op' \in [at : {"create_zeros"}, name : Names, length : Sizes, sector : Sectors,
                  start : Sectors]
      /\ op'.sector = op.sector /\ op'.start = op.start /\ op'.length = op.length
  BY <1>1, <1>2
<1>5. OpOK' /\ CallOwns' = CallOwns /\ CallApart'
  <2>1. op.sector \notin Span(op.start, op.length)
    BY <1>1 DEF FileInv, DataApart, CallApart
  <2> QED
    BY <1>1, <1>4, <2>1 DEF OpOK, CallOwns, Extent, CallApart
<1>6. i \in InodeDisk
  BY <1>1 DEF InodeDisk
<1>7. /\ diskInode' \in [Sectors -> InodeDisk \cup {Null}]
      /\ diskData' \in [Sectors -> Values \cup {Null}]
      /\ diskInode'[op'.sector] = [start |-> op'.start, length |-> op'.length]
  BY <1>1, <1>2, <1>3, <1>4, <1>6 DEF FileTypeOK
<1>8. ASSUME NEW s \in Files PROVE diskInode'[s] = diskInode[s]
  <2>1. s \in Sectors
    BY <1>1, FilesInSectors
  <2>2. s \in Mine(s) /\ Mine(s) \cap CallOwns = {} /\ op.sector \in CallOwns
    BY <1>1, <2>1 DEF OwnersApart, Exists, Mine, Extent, CallOwns
  <2> QED
    BY <1>1, <1>2, <2>1, <2>2 DEF FileTypeOK
<1> QED
  BY <1>1, <1>3, <1>4, <1>5, <1>7, <1>8, CallStays

LEMMA ZerosKeeps ==
  ASSUME FileInv, CreateZeros
  PROVE  FileInv'
<1>1. /\ FileTypeOK /\ OwnersApart /\ NamesApart /\ op.at = "create_zeros"
      /\ op \in [at : {"create_zeros"}, name : Names, length : Sizes, sector : Sectors,
                 start : Sectors]
  <2>1. OpOK /\ op.at = "create_zeros"
    BY DEF FileInv, FileTypeOK, CreateZeros, At
  <2> QED
    BY <2>1, CallShape DEF FileInv
<1>2. /\ op' = [op EXCEPT !.at = "create_entry"]
      /\ diskData' = [s \in Sectors |->
                        IF s \in Span(op.start, op.length) THEN 0 ELSE diskData[s]]
  BY DEF CreateZeros
<1>3. UNCHANGED <<diskMap, free_map, diskDir, open_inodes, fdTable, curFile, status, diskInode>>
  BY DEF CreateZeros, memory, threads
<1>4. /\ op' \in [at : {"create_entry"}, name : Names, length : Sizes, sector : Sectors,
                  start : Sectors]
      /\ op'.sector = op.sector /\ op'.start = op.start /\ op'.length = op.length
  BY <1>1, <1>2
<1>5. OpOK' /\ CallOwns' = CallOwns /\ CallApart'
  <2>1. op.sector \notin Span(op.start, op.length)
    BY <1>1 DEF FileInv, DataApart, CallApart
  <2> QED
    BY <1>1, <1>4, <2>1 DEF OpOK, CallOwns, Extent, CallApart
<1>6. /\ diskInode' \in [Sectors -> InodeDisk \cup {Null}]
      /\ diskData' \in [Sectors -> Values \cup {Null}]
      /\ diskInode'[op'.sector] = [start |-> op'.start, length |-> op'.length]
  <2>1. diskInode[op.sector] = [start |-> op.start, length |-> op.length]
    BY <1>1 DEF NamesApart
  <2>2. diskData' \in [Sectors -> Values \cup {Null}]
    BY <1>1, <1>2 DEF FileTypeOK
  <2> QED
    BY <1>1, <1>3, <1>4, <2>1, <2>2 DEF FileTypeOK
<1>7. \A x \in Span(op'.start, op'.length) : diskData'[x] = 0
  <2>1. Span(op.start, op.length) \subseteq Sectors
    BY <1>1 DEF OwnersApart, MapsOK, CallOwns, Extent
  <2> QED
    BY <1>2, <1>4, <2>1
<1> QED
  BY <1>1, <1>3, <1>4, <1>5, <1>6, <1>7, CallStays

\* dir_add: what belonged to the call belongs to the new file.
LEMMA EntryKeeps ==
  ASSUME FileInv, CreateEntry
  PROVE  FileInv'
<1>1. /\ FileTypeOK /\ OwnersApart /\ DataApart /\ NamesApart /\ ExecutablesDenied /\ AllCounted
      /\ op.at = "create_entry"
      /\ op \in [at : {"create_entry"}, name : Names, length : Sizes, sector : Sectors,
                 start : Sectors]
  <2>1. OpOK /\ op.at = "create_entry"
    BY DEF FileInv, FileTypeOK, CreateEntry, At
  <2> QED
    BY <2>1, CallShape DEF FileInv
<1> DEFINE free == CHOOSE e \in FreeEntries : \A f \in FreeEntries : e <= f
           entry == [name |-> op.name, inode_sector |-> op.sector]
<1>2. free \in Slots /\ diskDir[free] = Null
  <2>1. FreeEntries \in SUBSET Nat /\ FreeEntries # {}
    BY DEF FreeEntries, CreateEntry
  <2>2. \E e \in FreeEntries : \A f \in FreeEntries : e <= f
    BY <2>1, LeastNumber
  <2>3. free \in FreeEntries
    BY <2>2
  <2> QED
    BY <2>3 DEF FreeEntries
<1>3. /\ diskDir' = [diskDir EXCEPT ![free] = entry] /\ op' = Idle
      /\ UNCHANGED <<diskMap, free_map, open_inodes, fdTable, curFile, status, diskInode, diskData>>
  BY DEF CreateEntry, memory, threads
<1>4. entry \in DirEntry /\ entry.name = op.name /\ entry.inode_sector = op.sector
  BY <1>1 DEF DirEntry
<1> HIDE DEF free, entry
<1>5. FileTypeOK'
  <2>1. diskDir' \in [Slots -> DirEntry \cup {Null}]
    BY <1>1, <1>3, <1>4 DEF FileTypeOK
  <2>2. OpOK'
    BY <1>3 DEF OpOK
  <2> QED
    BY <1>1, <1>3, <2>1, <2>2 DEF FileTypeOK
<1>0. PICK mine \in Sectors : mine = op.sector
  BY <1>1
<1>6. Files' = Files \cup {mine}
  <2>1. /\ \A e \in Slots : diskDir'[e] = IF e = free THEN entry ELSE diskDir[e]
        /\ entry # Null
    BY <1>1, <1>3, <1>4 DEF FileTypeOK
  <2> QED
    BY <1>0, <1>2, <1>4, <2>1 DEF Files
<1>7. mine \notin Files /\ open_inodes[mine] = Null
  <2>1. mine \in CallOwns /\ mine \in Mine(mine)
    BY <1>0, <1>1 DEF CallOwns, Mine, Extent
  <2>2. ~Exists(mine)
    BY <1>1, <2>1 DEF OwnersApart
  <2> QED
    BY <2>2 DEF Exists
<1>8. \A s \in Sectors :
        /\ (Exists(s))' = (Exists(s) \/ s = mine)
        /\ s # mine => (Mine(s))' = Mine(s) /\ (InodeOf(s))' = InodeOf(s)
  BY <1>3, <1>6 DEF Exists, Mine, InodeOf
<1>9. (Mine(mine))' = CallOwns /\ CallOwns' = {}
  <2>1. (InodeOf(mine))' = [start |-> op.start, length |-> op.length]
    BY <1>0, <1>1, <1>3, <1>7 DEF InodeOf, NamesApart
  <2>2. CallOwns = Extent(mine, op)
    BY <1>0, <1>1 DEF CallOwns
  <2>3. (Mine(mine))' = CallOwns
    BY <2>1, <2>2 DEF Mine, Extent
  <2> QED
    BY <1>3, <2>3 DEF CallOwns, Idle
<1>10. OwnersApart'
  <2>1. ASSUME NEW s \in Sectors, (Exists(s))'
        PROVE  /\ (Mine(s))' \subseteq free_map' \ Formatted
               /\ (Mine(s))' \cap CallOwns' = {}
    <3>1. CallOwns \subseteq free_map \ Formatted /\ free_map' = free_map
      BY <1>1, <1>3 DEF OwnersApart
    <3>2. CASE s = mine
      BY <1>9, <3>1, <3>2
    <3>3. CASE s # mine
      <4>1. Exists(s) /\ (Mine(s))' = Mine(s)
        BY <1>8, <2>1, <3>3
      <4> QED
        BY <1>1, <1>9, <3>1, <4>1 DEF OwnersApart
    <3> QED
      BY <3>2, <3>3
  <2>2. ASSUME NEW s \in Sectors, NEW r \in Sectors, (Exists(s))', (Exists(r))', s # r
        PROVE  (Mine(s))' \cap (Mine(r))' = {}
    <3>1. \A x \in Sectors \ {mine} : (Exists(x))' =>
            /\ (Mine(x))' = Mine(x) /\ Exists(x) /\ (Mine(x))' \cap (Mine(mine))' = {}
      BY <1>1, <1>8, <1>9 DEF OwnersApart
    <3>2. CASE s # mine /\ r # mine
      BY <1>1, <2>2, <3>1, <3>2 DEF OwnersApart
    <3> QED
      BY <2>2, <3>1, <3>2
  <2>3. CallOwns' \subseteq free_map' \ Formatted /\ Formatted \subseteq free_map' /\ MapsOK'
    BY <1>1, <1>3, <1>9 DEF OwnersApart, MapsOK
  <2> QED
    BY <2>1, <2>2, <2>3 DEF OwnersApart
<1>11. NamesApart'
  <2>1. \A e \in Slots : diskDir'[e] = IF e = free THEN entry ELSE diskDir[e]
    BY <1>1, <1>3 DEF FileTypeOK
  <2>2. \A e \in Slots : diskDir[e] # Null =>
          diskDir[e].name # op.name /\ diskDir[e].inode_sector # op.sector
    BY <1>0, <1>7 DEF CreateEntry, Entries, Files
  <2>3. \A d, e \in Slots : diskDir'[d] # Null /\ diskDir'[e] # Null /\ d # e =>
          /\ diskDir'[d].name # diskDir'[e].name
          /\ diskDir'[d].inode_sector # diskDir'[e].inode_sector
    BY <1>1, <1>2, <1>4, <2>1, <2>2 DEF NamesApart
  <2>4. diskInode[mine] # Null
    <3>1. diskInode[mine] = [start |-> op.start, length |-> op.length]
      BY <1>0, <1>1 DEF NamesApart
    <3>2. [start |-> op.start, length |-> op.length] \in InodeDisk
      BY <1>1 DEF InodeDisk
    <3> QED
      BY <3>1, <3>2
  <2>5. \A s \in Files' :
          /\ diskInode'[s] # Null
          /\ open_inodes'[s] # Null => /\ open_inodes'[s].start = diskInode'[s].start
                                       /\ open_inodes'[s].length = diskInode'[s].length
    BY <1>1, <1>3, <1>6, <1>7, <2>4 DEF NamesApart
  <2> QED
    BY <1>3, <2>3, <2>5 DEF NamesApart, Idle
<1>12. ExecutablesDenied'
  BY <1>1, <1>3 DEF ExecutablesDenied
<1>13. AllCounted'
  <2>1. op.at # "remove_close" /\ op'.at # "remove_close"
    BY <1>1, <1>3 DEF Idle
  <2>2. \A s \in Sectors : open_inodes[s] # Null => (s \in Files') = (s \in Files)
    BY <1>6, <1>7
  <2> QED
    BY <1>1, <1>3, <2>1, <2>2, HandlesSame, NotRemoving, CountsKept
<1>14. DataApart'
  <2>1. mine \notin Span(op.start, op.length)
    BY <1>0, <1>1 DEF DataApart, CallApart
  <2>2. (InodeOf(mine))' = [start |-> op.start, length |-> op.length]
    BY <1>0, <1>1, <1>3, <1>7 DEF InodeOf, NamesApart
  <2>3. mine \notin Span((InodeOf(mine))'.start, (InodeOf(mine))'.length)
    BY <2>1, <2>2
  <2>4. \A s \in Sectors : (Exists(s))' =>
          s \notin Span((InodeOf(s))'.start, (InodeOf(s))'.length)
    BY <1>1, <1>8, <2>3 DEF DataApart
  <2> QED
    BY <1>3, <2>4 DEF DataApart, CallApart, Idle
<1> QED
  BY <1>5, <1>10, <1>11, <1>12, <1>13, <1>14 DEF FileInv

LEMMA NoEntryKeeps ==
  ASSUME FileInv, CreateNoEntry
  PROVE  FileInv'
<1>1. /\ FileTypeOK /\ op.at = "create_entry"
      /\ op \in [at : {"create_entry"}, name : Names, length : Sizes, sector : Sectors,
                 start : Sectors]
  <2>1. OpOK /\ op.at = "create_entry"
    BY DEF FileInv, FileTypeOK, CreateNoEntry, At
  <2> QED
    BY <2>1, CallShape DEF FileInv
<1>2. /\ op' = [op EXCEPT !.at = "create_release"]
      /\ UNCHANGED <<diskMap, free_map, diskDir, open_inodes, fdTable, curFile, status,
                     diskInode, diskData>>
  BY DEF CreateNoEntry, disk, memory, threads
<1>3. /\ op' \in [at : {"create_release"}, name : Names, length : Sizes, sector : Sectors,
                  start : Sectors]
      /\ op'.sector = op.sector /\ op'.start = op.start /\ op'.length = op.length
  BY <1>1, <1>2
<1>4. OpOK' /\ CallOwns' = CallOwns /\ CallApart'
  <2>1. op.sector \notin Span(op.start, op.length)
    BY <1>1 DEF FileInv, DataApart, CallApart
  <2> QED
    BY <1>1, <1>3, <2>1 DEF OpOK, CallOwns, Extent, CallApart
<1>5. /\ diskInode' \in [Sectors -> InodeDisk \cup {Null}]
      /\ diskData' \in [Sectors -> Values \cup {Null}]
  BY <1>1, <1>2 DEF FileTypeOK
<1> QED
  BY <1>1, <1>2, <1>3, <1>4, <1>5, CallStays

LEMMA ReleaseKeeps ==
  ASSUME FileInv, CreateRelease
  PROVE  FileInv'
<1>1. /\ FileTypeOK /\ OwnersApart /\ op.at = "create_release" /\ op.sector \in Sectors
  <2>1. OpOK /\ op.at = "create_release"
    BY DEF FileInv, FileTypeOK, CreateRelease, At
  <2> QED
    BY <2>1, CallShape DEF FileInv
<1>2. CallOwns = Extent(op.sector, op)
  BY <1>1 DEF CallOwns
<1>3. /\ ReleaseSectors(op.sector, 1) /\ op' = Idle
      /\ Forget({op.sector} \cup Span(op.start, op.length))
      /\ UNCHANGED <<diskDir, open_inodes, fdTable, curFile, status>>
  BY DEF CreateRelease, threads
<1>4. Span(op.sector, 1) = {op.sector} /\ {op.sector} \subseteq CallOwns
  BY <1>1, <1>2, OneSector DEF Extent
<1>5. free_map' = (free_map \ {op.sector}) \cup {} /\ MapsOK'
  BY <1>1, <1>3, <1>4, MapsAgree
<1>6. /\ diskInode' \in [Sectors -> InodeDisk \cup {Null}]
      /\ diskData' \in [Sectors -> Values \cup {Null}]
      /\ \A s \in Files : diskInode'[s] = diskInode[s]
  <2> DEFINE S == {op.sector} \cup Span(op.start, op.length)
  <2>1. S \subseteq CallOwns /\ Forget(S)
    BY <1>2, <1>3 DEF Extent
  <2> HIDE DEF S
  <2> QED
    BY <1>1, <2>1, ForgetKeeps
<1>7. OpOK' /\ CallApart' /\ CallOwns' = {} /\ op'.at = "idle"
  BY <1>3 DEF OpOK, CallOwns, CallApart, Idle
<1> DEFINE R == {op.sector}
           none == {}
<1>8. /\ none \cap free_map = {} /\ R \subseteq CallOwns
      /\ free_map' = (free_map \ R) \cup none
      /\ CallOwns' \subseteq (CallOwns \ R) \cup none
  BY <1>4, <1>5, <1>7
<1> HIDE DEF R, none
<1> QED
  BY <1>1, <1>3, <1>5, <1>6, <1>7, <1>8, CallKeeps

----------------------------------------------------------------------------
(* The last close of a removed file, and steps that only move on *)

LEMMA ReleaseInodeKeeps ==
  ASSUME FileInv, ReleaseInode
  PROVE  FileInv'
<1>1. /\ FileTypeOK /\ OwnersApart /\ op.at = "release_inode"
      /\ op \in [at : {"release_inode"}, sector : Sectors, start : Sectors,
                 length : Nat, next : {Idle} \cup {Exiting(p) : p \in Procs}]
  <2>1. OpOK /\ op.at = "release_inode"
    BY DEF FileInv, FileTypeOK, ReleaseInode, At
  <2> QED
    BY <2>1, CallShape DEF FileInv
<1>2. CallOwns = {op.sector} \cup Span(op.start, op.length)
  BY <1>1 DEF CallOwns, Extent
<1>3. /\ ReleaseSectors(op.sector, 1) /\ op' = [op EXCEPT !.at = "release_data"]
      /\ Forget({op.sector})
      /\ UNCHANGED <<diskDir, open_inodes, fdTable, curFile, status>>
  BY DEF ReleaseInode, threads
<1> DEFINE R == {op.sector}
           none == {}
<1>4. Span(op.sector, 1) = R /\ R \subseteq CallOwns
  BY <1>1, <1>2, OneSector
<1>5. free_map' = (free_map \ R) \cup none /\ MapsOK' /\ none \cap free_map = {}
  BY <1>1, <1>3, <1>4, MapsAgree
<1>6. /\ op' \in [at : {"release_data"}, sector : Sectors, start : Sectors,
                  length : Nat, next : {Idle} \cup {Exiting(p) : p \in Procs}]
      /\ op'.start = op.start /\ op'.length = op.length
  BY <1>1, <1>3
<1>7. OpOK' /\ CallApart'
  BY <1>6 DEF OpOK, CallApart
<1>8. CallOwns' \subseteq (CallOwns \ R) \cup none
  <2>1. CallOwns' = Span(op.start, op.length)
    BY <1>6 DEF CallOwns
  <2>2. CallOwns' \cap R = {}
    BY <1>1, <2>1 DEF FileInv, DataApart, CallApart
  <2> QED
    BY <1>2, <2>1, <2>2
<1> HIDE DEF R, none
<1>9. /\ diskInode' \in [Sectors -> InodeDisk \cup {Null}]
      /\ diskData' \in [Sectors -> Values \cup {Null}]
      /\ \A s \in Files : diskInode'[s] = diskInode[s]
  BY <1>1, <1>3, <1>4, ForgetKeeps DEF R
<1>10. op'.at = "release_data"
  BY <1>6
<1> QED
  BY <1>1, <1>3, <1>4, <1>5, <1>7, <1>8, <1>9, <1>10, CallKeeps

LEMMA ReleaseDataKeeps ==
  ASSUME FileInv, ReleaseData
  PROVE  FileInv'
<1>1. /\ FileTypeOK /\ OwnersApart /\ op.at = "release_data"
      /\ op.next \in {Idle} \cup {Exiting(p) : p \in Procs}
  <2>1. OpOK /\ op.at = "release_data"
    BY DEF FileInv, FileTypeOK, ReleaseData, At
  <2> QED
    BY <2>1, CallShape DEF FileInv
<1> DEFINE R == Span(op.start, op.length)
           none == {}
<1>2. CallOwns = R
  BY <1>1 DEF CallOwns
<1>3. /\ ReleaseSectors(op.start, op.length) /\ op' = op.next /\ Forget(R)
      /\ UNCHANGED <<diskDir, open_inodes, fdTable, curFile, status>>
  BY DEF ReleaseData, threads
<1>4. free_map' = (free_map \ R) \cup none /\ MapsOK' /\ none \cap free_map = {}
  BY <1>1, <1>3, MapsAgree
<1>5. /\ OpOK' /\ CallApart' /\ CallOwns' = {}
      /\ op'.at \in {"idle", "exit"}
  <2>1. op' = Idle \/ \E p \in Procs : op' = [at |-> "exit", proc |-> p]
    BY <1>1, <1>3 DEF Exiting
  <2>2. op'.at \in {"idle", "exit"}
    BY <2>1 DEF Idle
  <2>3. OpOK'
    BY <2>1 DEF OpOK
  <2> QED
    BY <2>2, <2>3 DEF CallApart, CallOwns
<1>6. CallOwns' \subseteq (CallOwns \ R) \cup none /\ R \subseteq CallOwns
  BY <1>2, <1>5
<1> HIDE DEF R, none
<1>7. /\ diskInode' \in [Sectors -> InodeDisk \cup {Null}]
      /\ diskData' \in [Sectors -> Values \cup {Null}]
      /\ \A s \in Files : diskInode'[s] = diskInode[s]
  BY <1>1, <1>3, <1>6, ForgetKeeps
<1> QED
  BY <1>1, <1>3, <1>4, <1>5, <1>6, <1>7, CallKeeps

\* A step that moves the call or the positions of struct files, and nothing else.
LEMMA MoveKeeps ==
  ASSUME FileInv, UNCHANGED <<diskMap, diskInode, diskDir, diskData, free_map, open_inodes>>,
         fdTable' \in [Procs -> Seq(OpenFile \cup {Null})],
         \A p \in Procs : Len(fdTable'[p]) <= MaxFd,
         curFile' \in [Procs -> OpenFile \cup {Null}],
         status' \in [Procs -> {"none", "live", "gone"}], OpOK',
         \A p \in Procs, d \in 0..MaxFd :
           /\ ((FileAt(p, d))' = Null) = (FileAt(p, d) = Null)
           /\ FileAt(p, d) # Null => /\ (FileAt(p, d))'.inode = FileAt(p, d).inode
                                     /\ (FileAt(p, d))'.deny_write = FileAt(p, d).deny_write,
         op.at \in {"idle", "write", "exit"}, op'.at \in {"idle", "write", "exit"},
         ExecutablesDenied'
  PROVE  FileInv'
<1>1. FileTypeOK /\ OwnersApart /\ DataApart /\ NamesApart /\ ExecutablesDenied /\ AllCounted
  BY DEF FileInv
<1>2. FileTypeOK'
  BY <1>1 DEF FileTypeOK
<1>3. /\ Files' = Files
      /\ \A s \in Sectors : /\ (Exists(s))' = Exists(s)
                            /\ Exists(s) => /\ (Mine(s))' = Mine(s)
                                            /\ (InodeOf(s))' = InodeOf(s)
  BY <1>1, FilesKept
<1>4. CallOwns = {} /\ CallOwns' = {} /\ CallApart'
  BY DEF CallOwns, CallApart
<1>5. OwnersApart'
  BY <1>1, <1>3, <1>4 DEF OwnersApart, MapsOK
<1>6. DataApart'
  BY <1>1, <1>3, <1>4 DEF DataApart
<1>7. NamesApart'
  BY <1>1, NamesKept
<1>8. AllCounted'
  <2>1. \A s \in Sectors : /\ (HandlesOf(s))' = HandlesOf(s)
                           /\ (Denying(s))' = Denying(s)
    BY HandlesKept
  <2> QED
    BY <1>1, <1>3, <2>1, NotRemoving, CountsKept
<1> QED
  BY <1>2, <1>5, <1>6, <1>7, <1>8 DEF FileInv

\* The same, if no struct file changes.
LEMMA OnlyCall ==
  ASSUME FileInv, UNCHANGED <<diskMap, diskInode, diskDir, diskData, free_map, open_inodes>>,
         UNCHANGED <<fdTable, curFile>>,
         status' \in [Procs -> {"none", "live", "gone"}], OpOK',
         op.at \in {"idle", "write", "exit"}, op'.at \in {"idle", "write", "exit"},
         ExecutablesDenied'
  PROVE  FileInv'
<1>1. \A p \in Procs, d \in 0..MaxFd : (FileAt(p, d))' = FileAt(p, d)
  BY DEF FileAt
<1> QED
  BY <1>1, MoveKeeps DEF FileInv, FileTypeOK

\* Entry d of p's table gets file f, or its file a new position.
Puts(p, d, f) == fdTable' = [fdTable EXCEPT ![p][d] = f]
Moves(p, d, pos) == fdTable' = [fdTable EXCEPT ![p][d].pos = pos]

LEMMA TablePut ==
  ASSUME FileTypeOK, NEW p \in Procs, NEW d \in 1..Len(fdTable[p]),
         NEW f \in OpenFile \cup {Null}, Puts(p, d, f)
  PROVE  /\ fdTable' \in [Procs -> Seq(OpenFile \cup {Null})]
         /\ \A q \in Procs : Len(fdTable'[q]) <= MaxFd
         /\ d \in 1..MaxFd
         /\ FileAt(p, d) = fdTable[p][d] /\ fdTable'[p][d] = f
         /\ curFile' = curFile =>
              /\ (FileAt(p, d))' = f
              /\ OthersKept(p, d)
<1>1. /\ fdTable \in [Procs -> Seq(OpenFile \cup {Null})] /\ Len(fdTable[p]) \in Nat
      /\ Len(fdTable[p]) <= MaxFd
  BY DEF FileTypeOK
<1> DEFINE row == [fdTable[p] EXCEPT ![d] = f]
<1>2. /\ row \in Seq(OpenFile \cup {Null}) /\ Len(row) = Len(fdTable[p]) /\ row[d] = f
      /\ \A e \in 1..Len(fdTable[p]) : e # d => row[e] = fdTable[p][e]
  BY <1>1, ExceptSeq
<1>3. fdTable' = [fdTable EXCEPT ![p] = row]
  BY DEF Puts
<1> HIDE DEF row
<1>4. /\ fdTable' \in [Procs -> Seq(OpenFile \cup {Null})]
      /\ \A q \in Procs : /\ Len(fdTable'[q]) = Len(fdTable[q])
                          /\ fdTable'[q] = IF q = p THEN row ELSE fdTable[q]
  BY <1>1, <1>2, <1>3
<1>5. d \in 1..MaxFd /\ FileAt(p, d) = fdTable[p][d] /\ fdTable'[p][d] = f
  BY <1>1, <1>2, <1>4 DEF FileAt
<1>6. ASSUME curFile' = curFile
      PROVE  /\ (FileAt(p, d))' = f
             /\ OthersKept(p, d)
  <2>1. (FileAt(p, d))' = f
    BY <1>1, <1>2, <1>4 DEF FileAt
  <2>2. ASSUME NEW q \in Procs, NEW e \in 0..MaxFd, q # p \/ e # d
        PROVE  (FileAt(q, e))' = FileAt(q, e)
    BY <1>1, <1>2, <1>4, <1>6, <2>2 DEF FileAt
  <2> QED
    BY <2>1, <2>2 DEF OthersKept
<1> QED
  BY <1>4, <1>5, <1>6 DEF FileTypeOK

\* A new position in an open file.
LEMMA PositionKeeps ==
  ASSUME FileInv, UNCHANGED <<diskMap, diskInode, diskDir, diskData, free_map, open_inodes>>,
         UNCHANGED <<curFile, status>>,
         NEW p \in Procs, NEW d \in OpenFds(p), NEW pos \in Nat, Moves(p, d, pos),
         op.at \in {"idle", "write", "exit"}, op' = Idle
  PROVE  FileInv'
<1>1. /\ FileTypeOK /\ d \in 1..Len(fdTable[p]) /\ fdTable[p][d] \in OpenFile
  <2>1. FileTypeOK /\ d \in 1..Len(fdTable[p]) /\ fdTable[p][d] # Null
    BY DEF FileInv, OpenFds
  <2>2. fdTable[p] \in Seq(OpenFile \cup {Null})
    BY <2>1 DEF FileTypeOK
  <2> QED
    BY <2>1, <2>2
<1>2. PICK f \in OpenFile : /\ f = [fdTable[p][d] EXCEPT !.pos = pos]
                           /\ f.inode = fdTable[p][d].inode
                           /\ f.deny_write = fdTable[p][d].deny_write
  <2> DEFINE moved == [fdTable[p][d] EXCEPT !.pos = pos]
  <2>1. /\ moved \in OpenFile /\ moved.inode = fdTable[p][d].inode
        /\ moved.deny_write = fdTable[p][d].deny_write
    BY <1>1 DEF OpenFile
  <2> QED
    BY <2>1
<1>3. Puts(p, d, f)
  BY <1>2 DEF Puts, Moves
<1>4. /\ fdTable' \in [Procs -> Seq(OpenFile \cup {Null})]
      /\ \A q \in Procs : Len(fdTable'[q]) <= MaxFd
      /\ FileAt(p, d) = fdTable[p][d] /\ (FileAt(p, d))' = f
      /\ OthersKept(p, d)
  <2>1. f \in OpenFile \cup {Null} /\ d \in 1..Len(fdTable[p]) /\ FileTypeOK
    BY <1>1
  <2>2. curFile' = curFile
    OBVIOUS
  <2> QED
    BY <1>3, <2>1, <2>2, TablePut
<1>5. ASSUME NEW q \in Procs, NEW e \in 0..MaxFd
      PROVE  /\ ((FileAt(q, e))' = Null) = (FileAt(q, e) = Null)
             /\ FileAt(q, e) # Null =>
                  /\ (FileAt(q, e))'.inode = FileAt(q, e).inode
                  /\ (FileAt(q, e))'.deny_write = FileAt(q, e).deny_write
  <2>1. CASE q = p /\ e = d
    BY <1>1, <1>2, <1>4, <2>1
  <2>2. CASE q # p \/ e # d
    BY <1>4, <2>2 DEF OthersKept
  <2> QED
    BY <2>1, <2>2
<1>6. OpOK' /\ op'.at = "idle"
  BY DEF OpOK, Idle
<1>7. ExecutablesDenied'
  BY DEF FileInv, ExecutablesDenied
<1>8. /\ curFile' \in [Procs -> OpenFile \cup {Null}]
      /\ status' \in [Procs -> {"none", "live", "gone"}]
  BY <1>1 DEF FileTypeOK
<1> QED
  BY <1>4, <1>5, <1>6, <1>7, <1>8, MoveKeeps

LEMMA SeekKeeps ==
  ASSUME FileInv, NEW p \in Procs, Seek(p)
  PROVE  FileInv'
<1>1. PICK d \in OpenFds(p), pos \in {0} \cup Sizes : Moves(p, d, pos)
  BY DEF Seek, Moves
<1>2. /\ pos \in Nat /\ op.at = "idle" /\ op' = Idle
      /\ UNCHANGED <<diskMap, diskInode, diskDir, diskData, free_map, open_inodes>>
      /\ UNCHANGED <<curFile, status>>
  BY DEF Seek, Ready, Idle, disk, memory
<1> QED
  BY <1>1, <1>2, PositionKeeps

LEMMA ReadKeeps ==
  ASSUME FileInv, NEW p \in Procs, Read(p)
  PROVE  FileInv'
<1>1. PICK d \in OpenFds(p) : fdTable' = [fdTable EXCEPT ![p][d].pos = @ + 1]
  BY DEF Read
<1>2. /\ op.at = "idle" /\ op' = Idle
      /\ UNCHANGED <<diskMap, diskInode, diskDir, diskData, free_map, open_inodes>>
      /\ UNCHANGED <<curFile, status>>
  BY DEF Read, Ready, Idle, disk, memory
<1>3. fdTable[p][d].pos + 1 \in Nat
  <2>1. fdTable[p] \in Seq(OpenFile \cup {Null}) /\ d \in 1..Len(fdTable[p])
        /\ fdTable[p][d] # Null
    BY DEF OpenFds, FileInv, FileTypeOK
  <2>2. fdTable[p][d] \in OpenFile
    BY <2>1
  <2> QED
    BY <2>2 DEF OpenFile
<1>4. PICK pos \in Nat : pos = fdTable[p][d].pos + 1
  BY <1>3
<1>5. Moves(p, d, pos)
  BY <1>1, <1>4 DEF Moves
<1> QED
  BY <1>2, <1>5, PositionKeeps

LEMMA WriteDoneKeeps ==
  ASSUME FileInv, WriteDone
  PROVE  FileInv'
<1>1. /\ op.at = "write" /\ op.proc \in Procs /\ op.fd \in OpenFds(op.proc) /\ op.done \in Nat
  <2>1. OpOK /\ op.at = "write"
    BY DEF FileInv, FileTypeOK, WriteDone, At
  <2> QED
    BY <2>1, CallShape
<1>0. PICK p \in Procs : p = op.proc
  BY <1>1
<1>2. PICK d \in OpenFds(p) : p = op.proc /\ d = op.fd
  BY <1>0, <1>1
<1>3. /\ op' = Idle
      /\ UNCHANGED <<diskMap, diskInode, diskDir, diskData, free_map, open_inodes>>
      /\ UNCHANGED <<curFile, status>>
      /\ fdTable' = [fdTable EXCEPT ![p][d].pos = @ + op.done]
  BY <1>2 DEF WriteDone, disk, memory
<1>4. d \in OpenFds(p) /\ fdTable[p][d].pos + op.done \in Nat
  <2>1. fdTable[p] \in Seq(OpenFile \cup {Null}) /\ d \in 1..Len(fdTable[p])
        /\ fdTable[p][d] # Null
    BY <1>1, <1>2 DEF OpenFds, FileInv, FileTypeOK
  <2>2. fdTable[p][d] \in OpenFile
    BY <2>1
  <2> QED
    BY <1>1, <1>2, <2>2 DEF OpenFile
<1>5. PICK pos \in Nat : pos = fdTable[p][d].pos + op.done
  BY <1>4
<1>6. Moves(p, d, pos)
  BY <1>3, <1>5 DEF Moves
<1> QED
  BY <1>1, <1>3, <1>4, <1>6, PositionKeeps

LEMMA WriteKeeps ==
  ASSUME FileInv, NEW p \in Procs, Write(p)
  PROVE  FileInv'
<1>1. PICK d \in OpenFds(p), value \in Values \ {0} :
        op' = [at |-> "write", proc |-> p, fd |-> d, value |-> value, done |-> 0]
  BY DEF Write
<1>2. /\ op.at = "idle" /\ op'.at = "write"
      /\ UNCHANGED <<diskMap, diskInode, diskDir, diskData, free_map, open_inodes>>
      /\ UNCHANGED <<fdTable, curFile, status>>
  BY <1>1 DEF Write, Ready, Idle, disk, memory
<1>3. OpOK'
  <2>1. op'.fd \in (OpenFds(p))' /\ op'.proc = p
    BY <1>1, <1>2 DEF OpenFds
  <2>2. d \in Nat
    BY DEF OpenFds
  <2>3. op' \in [at : {"write"}, proc : Procs, fd : Nat, value : Values, done : Nat]
    BY <1>1, <2>2
  <2> QED
    BY <2>1, <2>3 DEF OpOK, OpenFds
<1>4. ExecutablesDenied' /\ status' \in [Procs -> {"none", "live", "gone"}]
  BY <1>2 DEF FileInv, FileTypeOK, ExecutablesDenied
<1> QED
  BY <1>2, <1>3, <1>4, OnlyCall

LEMMA WriteSectorKeeps ==
  ASSUME FileInv, WriteSector
  PROVE  FileInv'
<1>1. /\ FileTypeOK /\ op.at = "write"
      /\ op \in [at : {"write"}, proc : Procs, fd : Nat, value : Values, done : Nat]
      /\ op.fd \in OpenFds(op.proc)
  <2>1. OpOK /\ op.at = "write"
    BY SMTT(30) DEF FileInv, FileTypeOK, WriteSector, At
  <2> QED
    BY <2>1, CallShape DEF FileInv
<1>2. /\ op' = [op EXCEPT !.done = @ + 1]
      /\ \E x : diskData' = [diskData EXCEPT ![x] = op.value]
      /\ UNCHANGED <<diskMap, diskInode, diskDir, free_map, open_inodes, fdTable, curFile, status>>
  BY DEF WriteSector, memory, threads
<1>3. op' \in [at : {"write"}, proc : Procs, fd : Nat, value : Values, done : Nat]
      /\ op'.fd = op.fd /\ op'.proc = op.proc
  BY <1>1, <1>2
<1>4. OpOK' /\ CallApart' /\ CallOwns' \subseteq CallOwns
  BY <1>1, <1>2, <1>3 DEF OpOK, OpenFds, CallApart, CallOwns
<1>5. /\ diskInode' \in [Sectors -> InodeDisk \cup {Null}]
      /\ diskData' \in [Sectors -> Values \cup {Null}]
  BY <1>1, <1>2 DEF FileTypeOK
<1> QED
  BY <1>1, <1>2, <1>3, <1>4, <1>5, CallStays

LEMMA FaultKeeps ==
  ASSUME FileInv, Fault
  PROVE  FileInv'
<1>1. op.at = "write" /\ op.proc \in Procs
  BY CallShape DEF FileInv, FileTypeOK, Fault, At
<1>2. /\ op' = Exiting(op.proc)
      /\ UNCHANGED <<diskMap, diskInode, diskDir, diskData, free_map, open_inodes>>
      /\ UNCHANGED <<fdTable, curFile, status>>
  BY DEF Fault, disk, memory, threads
<1>3. OpOK' /\ op'.at = "exit"
  BY <1>1, <1>2 DEF OpOK, Exiting
<1>4. ExecutablesDenied' /\ status' \in [Procs -> {"none", "live", "gone"}]
  BY <1>2 DEF FileInv, FileTypeOK, ExecutablesDenied
<1> QED
  BY <1>1, <1>2, <1>3, <1>4, OnlyCall

LEMMA ExitKeeps ==
  ASSUME FileInv, NEW p \in Procs, Exit(p)
  PROVE  FileInv'
<1>1. /\ op.at = "idle" /\ op' = Exiting(p)
      /\ UNCHANGED <<diskMap, diskInode, diskDir, diskData, free_map, open_inodes>>
      /\ UNCHANGED <<fdTable, curFile, status>>
  BY DEF Exit, Ready, Idle, disk, memory, threads
<1>2. OpOK' /\ op'.at = "exit"
  BY <1>1 DEF OpOK, Exiting
<1>3. ExecutablesDenied' /\ status' \in [Procs -> {"none", "live", "gone"}]
  BY <1>1 DEF FileInv, FileTypeOK, ExecutablesDenied
<1> QED
  BY <1>1, <1>2, <1>3, OnlyCall

LEMMA KillKeeps ==
  ASSUME FileInv, NEW p \in Procs, Kill(p)
  PROVE  FileInv'
<1>1. /\ op = Idle /\ op' = Idle /\ op.at = "idle"
      /\ UNCHANGED <<diskMap, diskInode, diskDir, diskData, free_map, open_inodes>>
      /\ UNCHANGED <<fdTable, curFile>>
  BY DEF Kill, Ready, Idle, disk, memory
<1>2. OpOK'
  BY <1>1 DEF OpOK
<1>3. ExecutablesDenied' /\ status' \in [Procs -> {"none", "live", "gone"}]
  BY <1>1 DEF FileInv, FileTypeOK, ExecutablesDenied, Kill
<1> QED
  BY <1>1, <1>2, <1>3, OnlyCall

LEMMA FsutilKeeps ==
  ASSUME FileInv, NEW p \in Procs, FsutilActions(p)
  PROVE  FileInv'
<1>1. /\ op = Idle /\ op' = Idle /\ op.at = "idle"
      /\ UNCHANGED <<diskMap, diskInode, diskDir, diskData, free_map, open_inodes>>
      /\ UNCHANGED <<fdTable, curFile>>
  BY DEF FsutilActions, Idle, disk, memory
<1>2. OpOK'
  BY <1>1 DEF OpOK
<1>3. ExecutablesDenied' /\ status' \in [Procs -> {"none", "live", "gone"}]
  BY <1>1 DEF FileInv, FileTypeOK, ExecutablesDenied, FsutilActions
<1> QED
  BY <1>1, <1>2, <1>3, OnlyCall

----------------------------------------------------------------------------
(* Closing *)

\* One user of inode s goes; i is the inode without that user's denial of writes.
LEMMA CloseKeeps ==
  ASSUME FileInv, UNCHANGED <<diskMap, diskInode, diskDir, diskData, free_map>>,
         NEW s \in Sectors, open_inodes[s] # Null, CallOwns = {},
         NEW i \in Inode, i.open_cnt = open_inodes[s].open_cnt,
         i.removed = open_inodes[s].removed, i.start = open_inodes[s].start,
         i.length = open_inodes[s].length,
         NEW next \in {Idle} \cup {Exiting(p) : p \in Procs}, InodeClose(s, i, next),
         fdTable' \in [Procs -> Seq(OpenFile \cup {Null})],
         \A p \in Procs : Len(fdTable'[p]) <= MaxFd,
         curFile' \in [Procs -> OpenFile \cup {Null}],
         status' \in [Procs -> {"none", "live", "gone"}],
         ExecutablesDenied',
         \A r \in Sectors \ {s} : /\ (HandlesOf(r))' = HandlesOf(r)
                                  /\ (Denying(r))' = Denying(r)
                                  /\ Removing(r) = 0,
         IsFiniteSet((HandlesOf(s))'),
         Cardinality((HandlesOf(s))') = Cardinality(HandlesOf(s)) + Removing(s) - 1,
         i.deny_write_cnt = Cardinality((Denying(s))')
  PROVE  FileInv'
<1>0. FileTypeOK /\ OwnersApart /\ DataApart /\ NamesApart /\ ExecutablesDenied /\ AllCounted
  BY DEF FileInv
<1>1. Files' = Files
  BY DEF Files
<1>2. /\ next.at \in {"idle", "exit"}
      /\ next = Idle \/ next \in [at : {"exit"}, proc : Procs]
  BY DEF Idle, Exiting
<1>3. /\ open_inodes[s].open_cnt = Cardinality(HandlesOf(s)) + Removing(s)
      /\ open_inodes[s].removed = (s \notin Files)
      /\ Cardinality((HandlesOf(s))') \in Nat
  BY <1>0, FS_CardinalityType DEF AllCounted, Counted
<1>4. Cardinality((HandlesOf(s))') = i.open_cnt - 1
  <2>1. Cardinality(HandlesOf(s)) \in Nat /\ Removing(s) \in {0, 1}
    BY <1>0, FS_CardinalityType DEF AllCounted, Counted, Removing
  <2> QED
    BY <1>3, <2>1
<1>5. /\ i.open_cnt \in Nat /\ i.start \in Sectors /\ i.length \in Nat
      /\ i.removed \in BOOLEAN /\ i.deny_write_cnt \in Nat
  BY DEF Inode
<1> DEFINE rest == [i EXCEPT !.open_cnt = @ - 1]
           releasing == [at |-> "release_inode", sector |-> s, start |-> i.start,
                         length |-> i.length, next |-> next]
<1>6. \/ /\ i.open_cnt > 1 /\ open_inodes' = [open_inodes EXCEPT ![s] = rest] /\ op' = next
      \/ /\ i.open_cnt <= 1 /\ open_inodes' = [open_inodes EXCEPT ![s] = Null]
         /\ IF i.removed THEN op' = releasing ELSE op' = next
  BY <1>5 DEF InodeClose
<1>7. i.open_cnt > 1 =>
        /\ rest \in Inode /\ rest.open_cnt = i.open_cnt - 1 /\ rest.removed = i.removed
        /\ rest.deny_write_cnt = i.deny_write_cnt
        /\ rest.start = i.start /\ rest.length = i.length
  BY <1>5 DEF Inode
<1>8. /\ releasing.at = "release_inode" /\ releasing.sector = s
      /\ releasing.start = i.start /\ releasing.length = i.length
      /\ releasing \in [at : {"release_inode"}, sector : Sectors, start : Sectors,
                        length : Nat, next : {Idle} \cup {Exiting(p) : p \in Procs}]
  BY <1>5
<1> HIDE DEF rest, releasing
<1>9. /\ \A r \in Sectors \ {s} : open_inodes'[r] = open_inodes[r]
      /\ open_inodes'[s] = IF i.open_cnt > 1 THEN rest ELSE Null
      /\ open_inodes' \in [Sectors -> Inode \cup {Null}]
  BY <1>0, <1>5, <1>6, <1>7 DEF FileTypeOK
<1>10. op'.at \in {"idle", "exit", "release_inode"} /\ OpOK'
  <2>1. op' = next \/ op' = releasing
    BY <1>6
  <2> QED
    BY <1>2, <1>8, <2>1 DEF OpOK
<1>11. FileTypeOK'
  BY <1>0, <1>9, <1>10 DEF FileTypeOK
<1>12. \A r \in Sectors \ {s} : /\ (Exists(r))' = Exists(r)
                                /\ (Mine(r))' = Mine(r) /\ (InodeOf(r))' = InodeOf(r)
  BY <1>1, <1>9 DEF Exists, Mine, InodeOf
<1>13. /\ Exists(s) /\ InodeOf(s).start = i.start /\ InodeOf(s).length = i.length
       /\ Mine(s) = {s} \cup Span(i.start, i.length)
  BY DEF Exists, InodeOf, Mine, Extent
\* What was the file's is the file's or, if it is to be released, the call's.
<1>14. /\ (Exists(s))' => /\ (Mine(s))' = Mine(s) /\ CallOwns' = {} /\ op' = next
                          /\ (InodeOf(s))'.start = i.start
                          /\ (InodeOf(s))'.length = i.length
       /\ ~(Exists(s))' => CallOwns' = Mine(s) /\ op' = releasing
  <2>1. CASE i.open_cnt > 1
    <3>1. (Exists(s))' /\ (InodeOf(s))' = rest /\ op' = next
      BY <1>6, <1>7, <1>9, <2>1 DEF Exists, InodeOf
    <3>2. (Mine(s))' = Mine(s)
      BY <1>7, <1>13, <2>1, <3>1 DEF Mine, Extent
    <3>3. CallOwns' = {}
      BY <1>2, <3>1 DEF CallOwns
    <3> QED
      BY <1>7, <2>1, <3>1, <3>2, <3>3
  <2>2. CASE ~(i.open_cnt > 1) /\ ~i.removed
    <3>1. s \in Files /\ op' = next /\ open_inodes'[s] = Null
      BY <1>3, <1>5, <1>6, <1>9, <2>2
    <3>2. /\ (Exists(s))' /\ (InodeOf(s))' = diskInode[s]
          /\ diskInode[s].start = i.start /\ diskInode[s].length = i.length
      BY <1>0, <1>1, <3>1 DEF Exists, InodeOf, NamesApart
    <3>3. (Mine(s))' = Mine(s)
      BY <1>13, <3>2 DEF Mine, Extent
    <3>4. CallOwns' = {}
      BY <1>2, <3>1 DEF CallOwns
    <3> QED
      BY <3>1, <3>2, <3>3, <3>4
  <2>3. CASE ~(i.open_cnt > 1) /\ i.removed
    <3>1. s \notin Files /\ op' = releasing /\ open_inodes'[s] = Null
      BY <1>3, <1>5, <1>6, <1>9, <2>3
    <3>2. ~(Exists(s))'
      BY <1>1, <3>1 DEF Exists
    <3>3. CallOwns' = Mine(s)
      BY <1>8, <1>13, <3>1 DEF CallOwns, Extent
    <3> QED
      BY <3>1, <3>2, <3>3
  <2> QED
    BY <2>1, <2>2, <2>3
<1>15. OwnersApart'
  <2>1. ASSUME NEW r \in Sectors, (Exists(r))'
        PROVE  /\ (Mine(r))' \subseteq free_map' \ Formatted
               /\ (Mine(r))' \cap CallOwns' = {}
               /\ Exists(r) /\ (Mine(r))' = Mine(r)
    <3>1. Exists(r) /\ (Mine(r))' = Mine(r)
      BY <1>12, <1>13, <1>14, <2>1
    <3>2. CallOwns' = {} \/ (CallOwns' = Mine(s) /\ r # s)
      BY <1>14, <2>1
    <3> QED
      BY <1>0, <1>13, <3>1, <3>2 DEF OwnersApart
  <2>2. CallOwns' \subseteq free_map' \ Formatted
    BY <1>0, <1>13, <1>14 DEF OwnersApart
  <2> QED
    BY <1>0, <2>1, <2>2 DEF OwnersApart, MapsOK
<1>16. DataApart'
  <2>1. s \notin Span(i.start, i.length)
    BY <1>0, <1>13 DEF DataApart
  <2>2. \A r \in Sectors : (Exists(r))' =>
          r \notin Span((InodeOf(r))'.start, (InodeOf(r))'.length)
    <3> TAKE r \in Sectors
    <3>1. CASE r = s
      BY <1>14, <2>1, <3>1
    <3>2. CASE r # s
      BY <1>0, <1>12, <3>2 DEF DataApart
    <3> QED
      BY <3>1, <3>2
  <2>3. CallApart'
    BY <1>2, <1>8, <1>14, <2>1 DEF CallApart
  <2> QED
    BY <2>2, <2>3 DEF DataApart
<1>17. NamesApart'
  <2>1. ASSUME NEW r \in Files
        PROVE  /\ diskInode'[r] # Null
               /\ open_inodes'[r] # Null => /\ open_inodes'[r].start = diskInode'[r].start
                                            /\ open_inodes'[r].length = diskInode'[r].length
    <3>1. r \in Sectors
      BY <1>0, FilesInSectors
    <3>2. open_inodes'[r] # Null =>
            /\ open_inodes[r] # Null
            /\ open_inodes'[r].start = open_inodes[r].start
            /\ open_inodes'[r].length = open_inodes[r].length
      BY <1>7, <1>9, <3>1
    <3> QED
      BY <1>0, <3>1, <3>2 DEF NamesApart
  <2> QED
    BY <1>0, <1>1, <1>10, <2>1 DEF NamesApart
<1>18. AllCounted'
  <2>1. ASSUME NEW r \in Sectors PROVE (Counted(r))'
    <3>1. (Removing(r))' = 0
      BY <1>10 DEF Removing, At
    <3>2. CASE r # s
      BY <1>0, <1>1, <1>9, <3>1, <3>2 DEF AllCounted, Counted
    <3>3. CASE r = s
      <4>1. CASE i.open_cnt > 1
        <5>1. /\ open_inodes'[s] = rest /\ rest # Null
              /\ rest.open_cnt = Cardinality((HandlesOf(s))') /\ rest.open_cnt > 0
              /\ rest.deny_write_cnt = Cardinality((Denying(s))')
              /\ rest.removed = (s \notin Files')
          BY <1>1, <1>3, <1>4, <1>5, <1>7, <1>9, <4>1
        <5>2. /\ open_inodes'[r] = rest /\ (HandlesOf(r))' = (HandlesOf(s))'
              /\ (Denying(r))' = (Denying(s))'
          BY <3>3, <5>1
        <5>3. Cardinality((HandlesOf(s))') + 0 = Cardinality((HandlesOf(s))')
          BY <1>3
        <5>4. open_inodes'[r].open_cnt = Cardinality((HandlesOf(r))') + (Removing(r))'
          BY <3>1, <5>1, <5>2, <5>3
        <5> QED
          BY <3>3, <5>1, <5>2, <5>4 DEF Counted
      <4>2. CASE ~(i.open_cnt > 1)
        <5>1. Cardinality((HandlesOf(s))') = 0
          BY <1>3, <1>4, <1>5, <4>2
        <5>2. (HandlesOf(s))' = {}
          BY <5>1, FS_EmptySet
        <5> QED
          BY <1>9, <3>1, <3>3, <4>2, <5>2 DEF Counted
      <4> QED
        BY <4>1, <4>2
    <3> QED
      BY <3>2, <3>3
  <2> QED
    BY <2>1 DEF AllCounted
<1> QED
  BY <1>11, <1>15, <1>16, <1>17, <1>18 DEF FileInv

\* file_close of the file at p's place d.
LEMMA FileCloseKeeps ==
  ASSUME FileInv, UNCHANGED <<diskMap, diskInode, diskDir, diskData, free_map>>,
         CallOwns = {}, op.at # "remove_close",
         NEW p \in Procs, NEW d \in 0..MaxFd, NEW f \in OpenFile, FileAt(p, d) = f,
         (FileAt(p, d))' = Null,
         OthersKept(p, d),
         NEW next \in {Idle} \cup {Exiting(q) : q \in Procs}, FileClose(f, next),
         fdTable' \in [Procs -> Seq(OpenFile \cup {Null})],
         \A q \in Procs : Len(fdTable'[q]) <= MaxFd,
         curFile' \in [Procs -> OpenFile \cup {Null}],
         status' \in [Procs -> {"none", "live", "gone"}],
         ExecutablesDenied'
  PROVE  FileInv'
<1> DEFINE here == <<p, d>>
<1>1. PICK s \in Sectors : s = f.inode
  BY DEF OpenFile
<1>2. /\ \A r \in Sectors \ {s} : /\ (HandlesOf(r))' = HandlesOf(r)
                                  /\ (Denying(r))' = Denying(r)
      /\ (HandlesOf(s))' = HandlesOf(s) \ {here} /\ here \in HandlesOf(s)
      /\ (Denying(s))' = IF f.deny_write THEN Denying(s) \ {here} ELSE Denying(s)
      /\ f.deny_write => here \in Denying(s)
  <2>1. /\ \A r \in Sectors \ {f.inode} : /\ (HandlesOf(r))' = HandlesOf(r)
                                          /\ (Denying(r))' = Denying(r)
        /\ (HandlesOf(f.inode))' = HandlesOf(f.inode) \ {<<p, d>>}
        /\ (Denying(f.inode))' = IF f.deny_write THEN Denying(f.inode) \ {<<p, d>>}
                                                 ELSE Denying(f.inode)
        /\ <<p, d>> \in HandlesOf(f.inode)
        /\ f.deny_write => <<p, d>> \in Denying(f.inode)
    BY HandleRemoved
  <2> QED
    BY <1>1, <2>1
<1>3. \A r \in Sectors : Removing(r) = 0
  BY NotRemoving
<1>4. /\ IsFiniteSet(HandlesOf(s)) /\ open_inodes[s] # Null
      /\ open_inodes[s].deny_write_cnt = Cardinality(Denying(s))
  BY <1>2 DEF FileInv, AllCounted, Counted
<1>5. open_inodes[s] \in Inode
  BY <1>4 DEF FileInv, FileTypeOK
<1> HIDE DEF here
<1>6. /\ IsFiniteSet((HandlesOf(s))')
      /\ Cardinality((HandlesOf(s))') = Cardinality(HandlesOf(s)) - 1
      /\ Cardinality(HandlesOf(s)) \in Nat
  BY <1>2, <1>4, FS_RemoveElement, FS_CardinalityType
<1>7. IsFiniteSet(Denying(s)) /\ Cardinality(Denying(s)) \in Nat
  BY <1>4, DenyingFinite
<1>8. f.deny_write =>
        /\ Cardinality((Denying(s))') = Cardinality(Denying(s)) - 1
        /\ Cardinality((Denying(s))') \in Nat
  <2> SUFFICES ASSUME f.deny_write
               PROVE  /\ Cardinality((Denying(s))') = Cardinality(Denying(s)) - 1
                      /\ Cardinality((Denying(s))') \in Nat
    OBVIOUS
  <2>1. (Denying(s))' = Denying(s) \ {here} /\ here \in Denying(s)
    BY <1>2
  <2> QED
    BY <1>7, <2>1, FS_RemoveElement, FS_CardinalityType
<1>9. PICK i : i = AllowWrite(f, open_inodes[s])
  OBVIOUS
<1>10. /\ i \in Inode /\ i.open_cnt = open_inodes[s].open_cnt
       /\ i.removed = open_inodes[s].removed /\ i.start = open_inodes[s].start
       /\ i.length = open_inodes[s].length
       /\ i.deny_write_cnt = Cardinality((Denying(s))')
  <2>1. CASE f.deny_write
    <3>1. i = [open_inodes[s] EXCEPT !.deny_write_cnt = @ - 1]
      BY <1>9, <2>1 DEF AllowWrite
    <3>2. open_inodes[s].deny_write_cnt - 1 = Cardinality((Denying(s))')
          /\ Cardinality((Denying(s))') \in Nat
      BY <1>4, <1>8, <2>1
    <3> QED
      BY <1>5, <3>1, <3>2 DEF Inode
  <2>2. CASE ~f.deny_write
    BY <1>2, <1>4, <1>5, <1>9, <2>2 DEF AllowWrite
  <2> QED
    BY <2>1, <2>2
<1>11. InodeClose(s, i, next)
  BY <1>1, <1>9 DEF FileClose
<1>12. Cardinality((HandlesOf(s))') = Cardinality(HandlesOf(s)) + Removing(s) - 1
  <2>1. Removing(s) = 0
    BY <1>3
  <2> QED
    BY <1>6, <2>1
<1> QED
  BY <1>2, <1>3, <1>4, <1>6, <1>10, <1>11, <1>12, CloseKeeps

LEMMA RemoveCloseKeeps ==
  ASSUME FileInv, RemoveClose
  PROVE  FileInv'
<1>1. op.at = "remove_close" /\ op.sector \in Sectors
  BY CallShape DEF FileInv, FileTypeOK, RemoveClose, At
<1>2. PICK s \in Sectors : s = op.sector
  BY <1>1
<1>3. /\ InodeClose(s, open_inodes[s], Idle)
      /\ UNCHANGED <<diskMap, diskInode, diskDir, diskData, free_map>>
      /\ UNCHANGED <<fdTable, curFile, status>>
  BY <1>2 DEF RemoveClose, disk, threads
<1>4. Removing(s) = 1 /\ \A r \in Sectors \ {s} : Removing(r) = 0
  BY <1>1, <1>2 DEF Removing, At
<1>5. /\ open_inodes[s] # Null /\ IsFiniteSet(HandlesOf(s))
      /\ open_inodes[s].deny_write_cnt = Cardinality(Denying(s))
  BY <1>4 DEF FileInv, AllCounted, Counted
<1>6. \A r \in Sectors : (HandlesOf(r))' = HandlesOf(r) /\ (Denying(r))' = Denying(r)
  BY <1>3, HandlesSame
<1>7. PICK i \in Inode : i = open_inodes[s]
  BY <1>5 DEF FileInv, FileTypeOK
<1>8. /\ IsFiniteSet((HandlesOf(s))')
      /\ Cardinality((HandlesOf(s))') = Cardinality(HandlesOf(s)) + Removing(s) - 1
      /\ i.deny_write_cnt = Cardinality((Denying(s))')
  <2>1. Cardinality(HandlesOf(s)) \in Nat
    BY <1>5, FS_CardinalityType
  <2>2. (HandlesOf(s))' = HandlesOf(s) /\ (Denying(s))' = Denying(s)
    BY <1>6
  <2> QED
    BY <1>4, <1>5, <1>7, <2>1, <2>2
<1>9. CallOwns = {}
  BY <1>1 DEF CallOwns
<1>10. /\ fdTable' \in [Procs -> Seq(OpenFile \cup {Null})]
       /\ \A q \in Procs : Len(fdTable'[q]) <= MaxFd
       /\ curFile' \in [Procs -> OpenFile \cup {Null}]
       /\ status' \in [Procs -> {"none", "live", "gone"}]
       /\ ExecutablesDenied'
  BY <1>3 DEF FileInv, FileTypeOK, ExecutablesDenied
<1>11. InodeClose(s, i, Idle) /\ Idle \in {Idle} \cup {Exiting(p) : p \in Procs}
  BY <1>3, <1>7
<1> DEFINE next == Idle
<1>12. InodeClose(s, i, next) /\ next \in {Idle} \cup {Exiting(p) : p \in Procs}
  BY <1>11
<1> HIDE DEF next
<1> QED
  BY <1>3, <1>4, <1>5, <1>6, <1>7, <1>8, <1>9, <1>10, <1>12, CloseKeeps

LEMMA CloseCallKeeps ==
  ASSUME FileInv, NEW p \in Procs, Close(p)
  PROVE  FileInv'
<1>1. PICK d \in OpenFds(p) : FileClose(fdTable[p][d], Idle) /\ Puts(p, d, Null)
  BY DEF Close, Puts
<1>2. /\ op.at = "idle"
      /\ UNCHANGED <<diskMap, diskInode, diskDir, diskData, free_map>>
      /\ UNCHANGED <<curFile, status>>
  BY DEF Close, Ready, Idle, disk
<1>3. d \in 1..Len(fdTable[p]) /\ fdTable[p][d] # Null /\ FileTypeOK
  BY DEF OpenFds, FileInv
<1>4. PICK f \in OpenFile : f = fdTable[p][d]
  <2>1. fdTable[p] \in Seq(OpenFile \cup {Null})
    BY <1>3 DEF FileTypeOK
  <2> QED
    BY <1>3, <2>1
<1> DEFINE gone == Null
           next == Idle
<1>5. Puts(p, d, gone) /\ gone \in OpenFile \cup {Null} /\ FileClose(f, next)
      /\ next \in {Idle} \cup {Exiting(q) : q \in Procs} /\ gone = Null
  BY <1>1, <1>4
<1> HIDE DEF gone, next
<1>6. curFile' = curFile
  BY <1>2
<1>7. /\ fdTable' \in [Procs -> Seq(OpenFile \cup {Null})]
      /\ \A q \in Procs : Len(fdTable'[q]) <= MaxFd
      /\ d \in 1..MaxFd
      /\ FileAt(p, d) = f /\ (FileAt(p, d))' = Null
      /\ OthersKept(p, d)
  BY <1>3, <1>4, <1>5, <1>6, TablePut
<1>8. d \in 0..MaxFd
  BY <1>7
<1>9. CallOwns = {} /\ op.at # "remove_close"
  BY <1>2 DEF CallOwns
<1>10. /\ curFile' \in [Procs -> OpenFile \cup {Null}]
       /\ status' \in [Procs -> {"none", "live", "gone"}] /\ ExecutablesDenied'
  BY <1>2, <1>3 DEF FileTypeOK, FileInv, ExecutablesDenied
<1> QED
  BY <1>2, <1>5, <1>7, <1>8, <1>9, <1>10, FileCloseKeeps

\* p's table loses its last entry.
LEMMA TableShrinks ==
  ASSUME FileTypeOK, NEW p \in Procs, fdTable[p] # <<>>, curFile' = curFile,
         Shrinks(p), NEW last, last = Len(fdTable[p])
  PROVE  /\ fdTable' \in [Procs -> Seq(OpenFile \cup {Null})]
         /\ \A q \in Procs : Len(fdTable'[q]) <= MaxFd
         /\ last \in 1..MaxFd /\ fdTable[p][last] \in OpenFile \cup {Null}
         /\ FileAt(p, last) = fdTable[p][last] /\ (FileAt(p, last))' = Null
         /\ OthersKept(p, last)
<1> DEFINE row == SubSeq(fdTable[p], 1, last - 1)
<1>1. /\ fdTable[p] \in Seq(OpenFile \cup {Null}) /\ last \in Nat /\ last > 0
      /\ last <= MaxFd
  BY EmptySeq DEF FileTypeOK
<1>2. /\ row \in Seq(OpenFile \cup {Null}) /\ Len(row) = last - 1
      /\ \A e \in 1..(last - 1) : row[e] = fdTable[p][e]
  BY <1>1
<1>3. fdTable' = [fdTable EXCEPT ![p] = row]
  BY DEF Shrinks
<1> HIDE DEF row
<1>4. /\ fdTable' \in [Procs -> Seq(OpenFile \cup {Null})]
      /\ \A q \in Procs : fdTable'[q] = IF q = p THEN row ELSE fdTable[q]
  BY <1>2, <1>3 DEF FileTypeOK
<1>5. \A q \in Procs : Len(fdTable'[q]) <= MaxFd
  BY <1>1, <1>2, <1>4 DEF FileTypeOK
<1>6. /\ last \in 1..MaxFd /\ fdTable[p][last] \in OpenFile \cup {Null}
      /\ FileAt(p, last) = fdTable[p][last]
  BY <1>1 DEF FileAt
<1>7. (FileAt(p, last))' = Null
  BY <1>1, <1>2, <1>4, <1>6 DEF FileAt
<1>8. ASSUME NEW q \in Procs, NEW e \in 0..MaxFd, q # p \/ e # last
      PROVE  (FileAt(q, e))' = FileAt(q, e)
  BY <1>1, <1>2, <1>4, <1>6, <1>8 DEF FileAt
<1> QED
  BY <1>4, <1>5, <1>6, <1>7, <1>8 DEF OthersKept

LEMMA ExitCloseKeeps ==
  ASSUME FileInv, ExitClose
  PROVE  FileInv'
<1>1. op.at = "exit" /\ op \in [at : {"exit"}, proc : Procs] /\ FileTypeOK
  BY CallShape DEF FileInv, FileTypeOK, ExitClose, At
<1>2. PICK p \in Procs : p = op.proc
  BY <1>1
<1>3. op = Exiting(p)
  BY <1>1, <1>2 DEF Exiting
<1>4. PICK last : last = Len(fdTable[p])
  OBVIOUS
<1>5. /\ fdTable[p] # <<>>
      /\ Shrinks(p) /\ UNCHANGED <<diskMap, diskInode, diskDir, diskData, free_map>>
      /\ curFile' = curFile /\ status' = status
      /\ IF fdTable[p][last] = Null
         THEN UNCHANGED open_inodes /\ op' = op
         ELSE FileClose(fdTable[p][last], op)
  BY <1>2, <1>4 DEF ExitClose, Shrinks, disk
<1>6. /\ fdTable' \in [Procs -> Seq(OpenFile \cup {Null})]
      /\ \A q \in Procs : Len(fdTable'[q]) <= MaxFd
      /\ last \in 1..MaxFd /\ fdTable[p][last] \in OpenFile \cup {Null}
      /\ FileAt(p, last) = fdTable[p][last] /\ (FileAt(p, last))' = Null
      /\ OthersKept(p, last)
  BY <1>1, <1>4, <1>5, TableShrinks
<1>7. /\ curFile' \in [Procs -> OpenFile \cup {Null}]
      /\ status' \in [Procs -> {"none", "live", "gone"}] /\ ExecutablesDenied'
  BY <1>1, <1>5 DEF FileTypeOK, FileInv, ExecutablesDenied
<1>8. CASE fdTable[p][last] = Null
  <2>1. UNCHANGED open_inodes /\ op' = op
    BY <1>5, <1>8
  <2>2. \A q \in Procs, e \in 0..MaxFd : (FileAt(q, e))' = FileAt(q, e)
    BY <1>6, <1>8 DEF OthersKept
  <2>3. OpOK'
    BY <1>1, <2>1 DEF OpOK
  <2> QED
    BY <1>1, <1>5, <1>6, <1>7, <2>1, <2>2, <2>3, MoveKeeps
<1>9. CASE fdTable[p][last] # Null
  <2>1. PICK f \in OpenFile : f = fdTable[p][last]
    BY <1>6, <1>9
  <2>2. PICK next \in {Idle} \cup {Exiting(q) : q \in Procs} : next = op
    BY <1>3
  <2>3. FileClose(f, next)
    BY <1>5, <1>9, <2>1, <2>2
  <2>4. CallOwns = {} /\ op.at # "remove_close"
    BY <1>1 DEF CallOwns
  <2>5. last \in 0..MaxFd /\ FileAt(p, last) = f
    BY <1>6, <2>1
  <2> QED
    BY <1>5, <1>6, <1>7, <2>3, <2>4, <2>5, FileCloseKeeps
<1> QED
  BY <1>8, <1>9

LEMMA ExitThreadKeeps ==
  ASSUME FileInv, ExitThread
  PROVE  FileInv'
<1>1. op.at = "exit" /\ op.proc \in Procs /\ FileTypeOK
  BY CallShape DEF FileInv, FileTypeOK, ExitThread, At
<1>2. PICK p \in Procs : p = op.proc
  BY <1>1
<1>3. /\ fdTable' = fdTable
      /\ UNCHANGED <<diskMap, diskInode, diskDir, diskData, free_map>>
      /\ curFile' = [curFile EXCEPT ![p] = Null]
      /\ status' = [status EXCEPT ![p] = "none"]
      /\ IF curFile[p] = Null
         THEN UNCHANGED open_inodes /\ op' = Idle
         ELSE FileClose(curFile[p], Idle)
  BY <1>2 DEF ExitThread, disk
<1>4. /\ fdTable' \in [Procs -> Seq(OpenFile \cup {Null})]
      /\ \A q \in Procs : Len(fdTable'[q]) <= MaxFd
      /\ curFile' \in [Procs -> OpenFile \cup {Null}]
      /\ status' \in [Procs -> {"none", "live", "gone"}]
      /\ \A q \in Procs : /\ curFile'[q] = IF q = p THEN Null ELSE curFile[q]
                          /\ status'[q] = IF q = p THEN "none" ELSE status[q]
  BY <1>1, <1>3 DEF FileTypeOK
<1>5. ExecutablesDenied'
  BY <1>4 DEF FileInv, ExecutablesDenied
<1>6. /\ FileAt(p, 0) = curFile[p] /\ (FileAt(p, 0))' = Null
      /\ OthersKept(p, 0)
  BY <1>3, <1>4 DEF FileAt, OthersKept
<1>7. CASE curFile[p] = Null
  <2>1. \A q \in Procs, e \in 0..MaxFd : (FileAt(q, e))' = FileAt(q, e)
    BY <1>6, <1>7 DEF OthersKept
  <2>2. UNCHANGED open_inodes /\ op' = Idle
    BY <1>3, <1>7
  <2>3. OpOK' /\ op'.at = "idle"
    BY <2>2 DEF OpOK, Idle
  <2> QED
    BY <1>1, <1>3, <1>4, <1>5, <2>1, <2>2, <2>3, MoveKeeps
<1>8. CASE curFile[p] # Null
  <2>1. PICK f \in OpenFile : f = curFile[p]
    BY <1>1, <1>8 DEF FileTypeOK
  <2> DEFINE next == Idle
             d == 0
  <2>2. FileClose(f, next) /\ next \in {Idle} \cup {Exiting(q) : q \in Procs}
    BY <1>3, <1>8, <2>1
  <2>3. CallOwns = {} /\ op.at # "remove_close"
    BY <1>1 DEF CallOwns
  <2>4. /\ d \in 0..MaxFd /\ FileAt(p, d) = f /\ (FileAt(p, d))' = Null
        /\ OthersKept(p, d)
    BY <1>6, <2>1
  <2> HIDE DEF next, d
  <2> QED
    BY <1>3, <1>4, <1>5, <2>2, <2>3, <2>4, FileCloseKeeps
<1> QED
  BY <1>7, <1>8

----------------------------------------------------------------------------
(* Opening and removing *)

\* inode_open finds or makes an inode like the one on the disk.
LEMMA OpenedIs ==
  ASSUME FileInv, NEW s \in Sectors, s \in Files
  PROVE  /\ OpenedInode(s) \in Inode
         /\ OpenedInode(s).open_cnt = Cardinality(HandlesOf(s)) + Removing(s) + 1
         /\ OpenedInode(s).open_cnt > 0
         /\ OpenedInode(s).deny_write_cnt = Cardinality(Denying(s))
         /\ ~OpenedInode(s).removed
         /\ OpenedInode(s).start = InodeOf(s).start
         /\ OpenedInode(s).length = InodeOf(s).length
<1>1. FileTypeOK /\ NamesApart /\ Counted(s)
  BY DEF FileInv, AllCounted
<1>2. /\ Cardinality(HandlesOf(s)) \in Nat /\ Cardinality(Denying(s)) \in Nat
      /\ Removing(s) \in {0, 1}
  BY <1>1, DenyingFinite DEF Counted, Removing
<1>3. CASE open_inodes[s] # Null
  <2>1. open_inodes[s] \in Inode
    BY <1>1, <1>3 DEF FileTypeOK
  <2>2. OpenedInode(s) = [open_inodes[s] EXCEPT !.open_cnt = @ + 1]
    BY <1>3 DEF OpenedInode
  <2>3. InodeOf(s) = open_inodes[s]
    BY <1>3 DEF InodeOf
  <2>4. /\ open_inodes[s].open_cnt = Cardinality(HandlesOf(s)) + Removing(s)
        /\ open_inodes[s].deny_write_cnt = Cardinality(Denying(s))
        /\ open_inodes[s].removed = (s \notin Files)
    BY <1>1, <1>3 DEF Counted
  <2>5. /\ OpenedInode(s) \in Inode
        /\ OpenedInode(s).open_cnt = open_inodes[s].open_cnt + 1
        /\ OpenedInode(s).deny_write_cnt = open_inodes[s].deny_write_cnt
        /\ OpenedInode(s).removed = open_inodes[s].removed
        /\ OpenedInode(s).start = open_inodes[s].start
        /\ OpenedInode(s).length = open_inodes[s].length
    BY <2>1, <2>2 DEF Inode
  <2>6. ~OpenedInode(s).removed
    BY <2>4, <2>5
  <2>7. /\ OpenedInode(s).open_cnt = Cardinality(HandlesOf(s)) + Removing(s) + 1
        /\ OpenedInode(s).open_cnt > 0
    BY <1>2, <2>4, <2>5
  <2> QED
    BY <2>3, <2>4, <2>5, <2>6, <2>7
<1>4. CASE open_inodes[s] = Null
  <2>1. diskInode[s] \in InodeDisk
    <3>1. diskInode[s] # Null
      BY <1>1 DEF NamesApart
    <3> QED
      BY <1>1, <3>1 DEF FileTypeOK
  <2>2. OpenedInode(s) = [open_cnt |-> 1, removed |-> FALSE, deny_write_cnt |-> 0,
                          start |-> diskInode[s].start, length |-> diskInode[s].length]
    BY <1>4 DEF OpenedInode
  <2>3. InodeOf(s) = diskInode[s]
    BY <1>4 DEF InodeOf
  <2>4. HandlesOf(s) = {} /\ Removing(s) = 0
    BY <1>1, <1>4 DEF Counted
  <2>5. Denying(s) = {}
    BY <2>4 DEF Denying
  <2>6. Cardinality(HandlesOf(s)) = 0 /\ Cardinality(Denying(s)) = 0
    BY <2>4, <2>5, FS_EmptySet
  <2>7. OpenedInode(s) \in Inode
    BY <2>1, <2>2 DEF Inode, InodeDisk
  <2> QED
    BY <2>2, <2>3, <2>4, <2>6, <2>7
<1> QED
  BY <1>3, <1>4

\* One more user of the named file s, at p's place d.
LEMMA OpenKeeps ==
  ASSUME FileInv, UNCHANGED <<diskMap, diskInode, diskDir, diskData, free_map>>,
         op = Idle, op' = Idle,
         NEW s \in Files, NEW deny \in BOOLEAN, OpenByName(s, deny),
         NEW p \in Procs, NEW d \in 0..MaxFd, FileAt(p, d) = Null,
         (FileAt(p, d))' = FileOf(s, deny), OthersKept(p, d),
         fdTable' \in [Procs -> Seq(OpenFile \cup {Null})],
         \A q \in Procs : Len(fdTable'[q]) <= MaxFd,
         curFile' \in [Procs -> OpenFile \cup {Null}],
         status' \in [Procs -> {"none", "live", "gone"}],
         ExecutablesDenied'
  PROVE  FileInv'
<1>0. FileTypeOK /\ OwnersApart /\ DataApart /\ NamesApart /\ ExecutablesDenied /\ AllCounted
  BY DEF FileInv
<1>1. s \in Sectors /\ Files' = Files
  <2>1. s \in Sectors
    BY <1>0, FilesInSectors
  <2>2. Files' = Files
    BY DEF Files
  <2> QED
    BY <2>1, <2>2
<1> DEFINE here == <<p, d>>
           opened == [OpenedInode(s) EXCEPT !.deny_write_cnt = IF deny THEN @ + 1 ELSE @]
<1>2. PICK f \in OpenFile : f = FileOf(s, deny)
  BY <1>1 DEF FileOf, OpenFile
<1>3. f.inode = s /\ f.deny_write = deny
  BY <1>2 DEF FileOf
<1>4. /\ \A r \in Sectors \ {f.inode} : /\ (HandlesOf(r))' = HandlesOf(r)
                                        /\ (Denying(r))' = Denying(r)
      /\ (HandlesOf(f.inode))' = HandlesOf(f.inode) \cup {<<p, d>>}
      /\ (Denying(f.inode))' = IF f.deny_write THEN Denying(f.inode) \cup {<<p, d>>}
                                               ELSE Denying(f.inode)
      /\ <<p, d>> \notin HandlesOf(f.inode) /\ <<p, d>> \notin Denying(f.inode)
  <2>1. (FileAt(p, d))' = f
    BY <1>2
  <2> QED
    BY <2>1, HandleAdded
<1>5. /\ \A r \in Sectors \ {s} : /\ (HandlesOf(r))' = HandlesOf(r)
                                  /\ (Denying(r))' = Denying(r)
      /\ (HandlesOf(s))' = HandlesOf(s) \cup {here}
      /\ (Denying(s))' = IF deny THEN Denying(s) \cup {here} ELSE Denying(s)
      /\ here \notin HandlesOf(s) /\ here \notin Denying(s)
  BY <1>3, <1>4
<1> HIDE DEF here
<1>6. \A r \in Sectors : Removing(r) = 0 /\ (Removing(r))' = 0
  BY NotRemoving DEF Idle
<1>7. /\ IsFiniteSet(HandlesOf(s)) /\ Cardinality(HandlesOf(s)) \in Nat
      /\ IsFiniteSet(Denying(s)) /\ Cardinality(Denying(s)) \in Nat
  BY <1>0, <1>1, DenyingFinite DEF AllCounted, Counted
<1>8. /\ IsFiniteSet((HandlesOf(s))')
      /\ Cardinality((HandlesOf(s))') = Cardinality(HandlesOf(s)) + 1
      /\ Cardinality((Denying(s))') = IF deny THEN Cardinality(Denying(s)) + 1
                                              ELSE Cardinality(Denying(s))
  <2>1. /\ IsFiniteSet(HandlesOf(s) \cup {here})
        /\ Cardinality(HandlesOf(s) \cup {here}) = Cardinality(HandlesOf(s)) + 1
    BY <1>5, <1>7, FS_AddElement
  <2>2. Cardinality(Denying(s) \cup {here}) = Cardinality(Denying(s)) + 1
    BY <1>5, <1>7, FS_AddElement
  <2> QED
    BY <1>5, <2>1, <2>2
<1>9. /\ OpenedInode(s) \in Inode
      /\ OpenedInode(s).open_cnt = Cardinality(HandlesOf(s)) + Removing(s) + 1
      /\ OpenedInode(s).deny_write_cnt = Cardinality(Denying(s))
      /\ ~OpenedInode(s).removed
      /\ OpenedInode(s).start = InodeOf(s).start
      /\ OpenedInode(s).length = InodeOf(s).length
  BY <1>1, OpenedIs
<1>10. /\ opened \in Inode /\ opened.open_cnt = OpenedInode(s).open_cnt
       /\ opened.deny_write_cnt = Cardinality((Denying(s))')
       /\ ~opened.removed
       /\ opened.start = InodeOf(s).start /\ opened.length = InodeOf(s).length
  <2>1. IF deny THEN opened = [OpenedInode(s) EXCEPT !.deny_write_cnt = @ + 1]
                ELSE opened = OpenedInode(s)
    BY <1>9 DEF Inode
  <2> HIDE DEF opened
  <2>2. CASE deny
    BY <1>7, <1>8, <1>9, <2>1, <2>2 DEF Inode
  <2>3. CASE ~deny
    BY <1>8, <1>9, <2>1, <2>3
  <2> QED
    BY <2>2, <2>3
<1>11. open_inodes' = [open_inodes EXCEPT ![s] = opened]
  BY DEF OpenByName
<1> HIDE DEF opened
<1>12. opened.open_cnt = Cardinality((HandlesOf(s))') + (Removing(s))' /\ opened.open_cnt > 0
  <2>1. Removing(s) = 0 /\ (Removing(s))' = 0
    BY <1>1, <1>6
  <2> QED
    BY <1>7, <1>8, <1>9, <1>10, <2>1
<1>13. /\ open_inodes'[s] = opened /\ opened # Null
       /\ \A r \in Sectors \ {s} : open_inodes'[r] = open_inodes[r]
       /\ open_inodes' \in [Sectors -> Inode \cup {Null}]
  BY <1>0, <1>1, <1>10, <1>11 DEF FileTypeOK
<1>14. \A r \in Sectors : /\ (Exists(r))' = Exists(r)
                          /\ Exists(r) => /\ (Mine(r))' = Mine(r)
                                          /\ (InodeOf(r))'.start = InodeOf(r).start
                                          /\ (InodeOf(r))'.length = InodeOf(r).length
  <2> TAKE r \in Sectors
  <2>1. CASE r = s
    <3>1. (Exists(s))' /\ Exists(s) /\ (InodeOf(s))' = opened
      BY <1>1, <1>13 DEF Exists, InodeOf
    <3>2. (Mine(s))' = Mine(s)
      BY <1>10, <3>1 DEF Mine, Extent
    <3> QED
      BY <1>10, <2>1, <3>1, <3>2
  <2>2. CASE r # s
    BY <1>1, <1>13, <2>2 DEF Exists, Mine, InodeOf
  <2> QED
    BY <2>1, <2>2
<1>15. CallOwns = {} /\ CallOwns' = {} /\ CallApart' /\ OpOK'
  BY DEF CallOwns, CallApart, OpOK, Idle
<1>16. FileTypeOK'
  BY <1>0, <1>13, <1>15 DEF FileTypeOK
<1>17. OwnersApart'
  BY <1>0, <1>14, <1>15 DEF OwnersApart, MapsOK
<1>18. DataApart'
  BY <1>0, <1>14, <1>15 DEF DataApart
<1>19. NamesApart'
  <2>1. ASSUME NEW r \in Files
        PROVE  /\ diskInode'[r] # Null
               /\ open_inodes'[r] # Null => /\ open_inodes'[r].start = diskInode'[r].start
                                            /\ open_inodes'[r].length = diskInode'[r].length
    <3>1. r \in Sectors
      BY <1>0, FilesInSectors
    <3>2. InodeOf(s).start = diskInode[s].start /\ InodeOf(s).length = diskInode[s].length
      BY <1>0 DEF InodeOf, NamesApart
    <3>3. CASE r = s
      BY <1>0, <1>10, <1>13, <3>2, <3>3 DEF NamesApart
    <3>4. CASE r # s
      BY <1>0, <1>13, <3>1, <3>4 DEF NamesApart
    <3> QED
      BY <3>3, <3>4
  <2> QED
    BY <1>0, <1>1, <2>1 DEF NamesApart, Idle
<1>20. AllCounted'
  <2>1. ASSUME NEW r \in Sectors PROVE (Counted(r))'
    <3>1. CASE r = s
      <4>1. /\ open_inodes'[s] # Null /\ IsFiniteSet((HandlesOf(s))')
            /\ open_inodes'[s].open_cnt = Cardinality((HandlesOf(s))') + (Removing(s))'
            /\ open_inodes'[s].open_cnt > 0
            /\ open_inodes'[s].deny_write_cnt = Cardinality((Denying(s))')
        BY <1>8, <1>10, <1>12, <1>13
      <4>2. open_inodes'[s].removed = (s \notin Files')
        <5>1. opened.removed = FALSE
          BY <1>10 DEF Inode
        <5> QED
          BY <1>1, <1>13, <5>1
      <4> QED
        BY <3>1, <4>1, <4>2 DEF Counted
    <3>2. CASE r # s
      BY <1>0, <1>1, <1>5, <1>6, <1>13, <3>2 DEF AllCounted, Counted
    <3> QED
      BY <3>1, <3>2
  <2> QED
    BY <2>1 DEF AllCounted
<1> QED
  BY <1>16, <1>17, <1>18, <1>19, <1>20 DEF FileInv

LEMMA OpenCallKeeps ==
  ASSUME FileInv, NEW p \in Procs, Open(p)
  PROVE  FileInv'
<1>1. PICK s \in Files :
        /\ OpenByName(s, FALSE)
        /\ fdTable' = [fdTable EXCEPT ![p] = Append(@, FileOf(s, FALSE))]
  BY DEF Open
<1>2. /\ op = Idle /\ op' = Idle /\ Len(fdTable[p]) < MaxFd
      /\ UNCHANGED <<diskMap, diskInode, diskDir, diskData, free_map>>
      /\ curFile' = curFile /\ status' = status
  BY DEF Open, Ready, disk
<1>3. FileTypeOK /\ s \in Sectors
  BY DEF FileInv, FileTypeOK, Files, DirEntry
<1> DEFINE row == Append(fdTable[p], FileOf(s, FALSE))
<1>4. PICK d \in 1..MaxFd : d = Len(fdTable[p]) + 1
  <2>1. fdTable[p] \in Seq(OpenFile \cup {Null})
    BY <1>3 DEF FileTypeOK
  <2>2. Len(fdTable[p]) + 1 \in 1..MaxFd
    BY <1>2, <2>1
  <2> QED
    BY <2>2
<1>5. PICK f \in OpenFile : f = FileOf(s, FALSE)
  BY <1>3 DEF FileOf, OpenFile
<1>6. /\ Len(fdTable[p]) = d - 1 /\ row \in Seq(OpenFile \cup {Null})
      /\ Len(row) = d /\ row[d] = f /\ \A e \in 1..(d - 1) : row[e] = fdTable[p][e]
  <2>1. fdTable[p] \in Seq(OpenFile \cup {Null}) /\ Len(fdTable[p]) \in Nat
    BY <1>3 DEF FileTypeOK
  <2>2. Len(fdTable[p]) = d - 1
    BY <1>4, <2>1
  <2>3. row = Append(fdTable[p], f) /\ f \in OpenFile \cup {Null}
    BY <1>5
  <2> HIDE DEF row
  <2> QED
    BY <1>4, <2>1, <2>2, <2>3, AppendProperties
<1>7. fdTable' = [fdTable EXCEPT ![p] = row]
  BY <1>1
<1> HIDE DEF row
<1>8. /\ fdTable' \in [Procs -> Seq(OpenFile \cup {Null})]
      /\ \A q \in Procs : fdTable'[q] = IF q = p THEN row ELSE fdTable[q]
  BY <1>3, <1>6, <1>7 DEF FileTypeOK
<1>9. \A q \in Procs : Len(fdTable'[q]) <= MaxFd
  <2> TAKE q \in Procs
  <2>1. CASE q = p
    <3>1. Len(fdTable'[q]) = d
      BY <1>6, <1>8, <2>1
    <3> QED
      BY <3>1
  <2>2. CASE q # p
    BY <1>3, <1>8, <2>2 DEF FileTypeOK
  <2> QED
    BY <2>1, <2>2
<1>10. FileAt(p, d) = Null /\ (FileAt(p, d))' = f
  <2>1. FileAt(p, d) = Null
    BY <1>6 DEF FileAt
  <2>2. fdTable'[p] = row /\ d \in 1..Len(row)
    BY <1>6, <1>8
  <2>3. (FileAt(p, d))' = f
    BY <1>6, <2>2 DEF FileAt
  <2> QED
    BY <2>1, <2>3
<1>11. OthersKept(p, d)
  <2> SUFFICES ASSUME NEW q \in Procs, NEW e \in 0..MaxFd, q # p \/ e # d
               PROVE  (FileAt(q, e))' = FileAt(q, e)
    BY DEF OthersKept
  <2>1. CASE q # p
    BY <1>2, <1>8, <2>1 DEF FileAt
  <2>2. CASE q = p
    BY <1>2, <1>6, <1>8, <2>2 DEF FileAt
  <2> QED
    BY <2>1, <2>2
<1>12. /\ curFile' \in [Procs -> OpenFile \cup {Null}]
       /\ status' \in [Procs -> {"none", "live", "gone"}] /\ ExecutablesDenied'
  BY <1>2, <1>3 DEF FileTypeOK, FileInv, ExecutablesDenied
<1> DEFINE deny == FALSE
<1>13. /\ OpenByName(s, deny) /\ (FileAt(p, d))' = FileOf(s, deny) /\ d \in 0..MaxFd
       /\ deny \in BOOLEAN
  <2>1. (FileAt(p, d))' = FileOf(s, deny)
    BY <1>5, <1>10
  <2>2. d \in 0..MaxFd
    OBVIOUS
  <2> QED
    BY <1>1, <2>1, <2>2
<1> HIDE DEF deny
<1> QED
  BY <1>2, <1>8, <1>9, <1>10, <1>11, <1>12, <1>13, OpenKeeps

\* load, whether or not it goes on after it has opened the executable.
LEMMA LoadedKeeps ==
  ASSUME FileInv, NEW p \in Procs, Load(p) \/ LoadFails(p)
  PROVE  FileInv'
<1>1. PICK s \in Files, deny \in BOOLEAN :
        /\ OpenByName(s, deny) /\ curFile' = [curFile EXCEPT ![p] = FileOf(s, deny)]
        /\ status' = [status EXCEPT ![p] = IF deny THEN "live" ELSE "gone"]
  BY DEF Load, LoadFails
<1>2. /\ op = Idle /\ op' = Idle /\ status[p] = "none" /\ fdTable' = fdTable
      /\ UNCHANGED <<diskMap, diskInode, diskDir, diskData, free_map>>
  BY DEF Load, LoadFails, disk
<1>3. FileTypeOK /\ s \in Sectors /\ ExecutablesDenied
  BY DEF FileInv, FileTypeOK, Files, DirEntry
<1>4. PICK f \in OpenFile : f = FileOf(s, deny)
  BY <1>3 DEF FileOf, OpenFile
<1>5. f.deny_write = deny /\ curFile' = [curFile EXCEPT ![p] = f]
  BY <1>1, <1>4 DEF FileOf
<1>6. /\ curFile' \in [Procs -> OpenFile \cup {Null}]
      /\ \A q \in Procs : /\ curFile'[q] = IF q = p THEN f ELSE curFile[q]
                          /\ status'[q] = IF q = p THEN IF deny THEN "live" ELSE "gone"
                                          ELSE status[q]
      /\ status' \in [Procs -> {"none", "live", "gone"}]
  BY <1>1, <1>3, <1>5 DEF FileTypeOK
<1>7. ExecutablesDenied'
  BY <1>3, <1>5, <1>6 DEF ExecutablesDenied
<1> DEFINE d == 0
<1>8. FileAt(p, d) = Null /\ (FileAt(p, d))' = FileOf(s, deny) /\ d \in 0..MaxFd
  BY <1>2, <1>3, <1>4, <1>6 DEF ExecutablesDenied, FileAt
<1>9. OthersKept(p, d)
  BY <1>2, <1>6 DEF FileAt, OthersKept
<1>10. /\ fdTable' \in [Procs -> Seq(OpenFile \cup {Null})]
       /\ \A q \in Procs : Len(fdTable'[q]) <= MaxFd
  BY <1>2, <1>3 DEF FileTypeOK
<1> HIDE DEF d
<1> QED
  BY <1>1, <1>2, <1>6, <1>7, <1>8, <1>9, <1>10, OpenKeeps

\* dir_remove: the file loses its name, and stays open until its last close.
LEMMA RemoveEntryKeeps ==
  ASSUME FileInv, NEW p \in Procs, RemoveEntry(p)
  PROVE  FileInv'
<1>0. FileTypeOK /\ OwnersApart /\ DataApart /\ NamesApart /\ ExecutablesDenied /\ AllCounted
  BY DEF FileInv
<1>1. PICK name \in Names, e \in Slots :
        /\ diskDir[e] # Null /\ diskDir' = [diskDir EXCEPT ![e] = Null]
        /\ open_inodes' = [open_inodes EXCEPT ![diskDir[e].inode_sector] =
                             [OpenedInode(diskDir[e].inode_sector) EXCEPT !.removed = TRUE]]
        /\ op' = [at |-> "remove_close", sector |-> diskDir[e].inode_sector]
  BY DEF RemoveEntry, Entries
<1>2. PICK s \in Sectors : s = diskDir[e].inode_sector
  BY <1>0, <1>1 DEF FileTypeOK, DirEntry
<1> DEFINE opened == [OpenedInode(s) EXCEPT !.removed = TRUE]
<1>3. open_inodes' = [open_inodes EXCEPT ![s] = opened]
  BY <1>1, <1>2
<1>4. /\ op = Idle /\ op.at = "idle"
      /\ UNCHANGED <<diskMap, diskInode, diskData, free_map>>
      /\ UNCHANGED <<fdTable, curFile, status>>
  BY DEF RemoveEntry, Ready, Idle, threads
<1>5. /\ op' \in [at : {"remove_close"}, sector : Sectors] /\ op'.at = "remove_close"
      /\ op'.sector = s
  BY <1>1, <1>2
<1>6. s \in Files /\ Files' = Files \ {s}
  <2>1. s \in Files
    BY <1>1, <1>2 DEF Files
  <2>2. \A x \in Slots : diskDir'[x] = IF x = e THEN Null ELSE diskDir[x]
    BY <1>0, <1>1 DEF FileTypeOK
  <2>3. \A x \in Slots : diskDir[x] # Null /\ x # e => diskDir[x].inode_sector # s
    BY <1>0, <1>1, <1>2 DEF NamesApart
  <2> QED
    BY <1>2, <2>1, <2>2, <2>3 DEF Files
<1>7. /\ OpenedInode(s) \in Inode
      /\ OpenedInode(s).open_cnt = Cardinality(HandlesOf(s)) + Removing(s) + 1
      /\ OpenedInode(s).open_cnt > 0
      /\ OpenedInode(s).deny_write_cnt = Cardinality(Denying(s))
      /\ OpenedInode(s).start = InodeOf(s).start
      /\ OpenedInode(s).length = InodeOf(s).length
  BY <1>6, OpenedIs
<1>8. /\ opened \in Inode /\ opened.open_cnt = OpenedInode(s).open_cnt
      /\ opened.deny_write_cnt = OpenedInode(s).deny_write_cnt
      /\ opened.removed = TRUE
      /\ opened.start = InodeOf(s).start /\ opened.length = InodeOf(s).length
  BY <1>7 DEF Inode
<1> HIDE DEF opened
<1>9. /\ open_inodes'[s] = opened /\ opened # Null
      /\ \A r \in Sectors \ {s} : open_inodes'[r] = open_inodes[r]
      /\ open_inodes' \in [Sectors -> Inode \cup {Null}]
  BY <1>0, <1>3, <1>8 DEF FileTypeOK
<1>10. /\ \A r \in Sectors : Removing(r) = 0
       /\ (Removing(s))' = 1 /\ \A r \in Sectors \ {s} : (Removing(r))' = 0
  <2>1. \A r \in Sectors : Removing(r) = 0
    BY <1>4, NotRemoving
  <2>2. (Removing(s))' = 1 /\ \A r \in Sectors \ {s} : (Removing(r))' = 0
    BY <1>5 DEF Removing, At
  <2> QED
    BY <2>1, <2>2
<1>11. \A r \in Sectors : (HandlesOf(r))' = HandlesOf(r) /\ (Denying(r))' = Denying(r)
  BY <1>4, HandlesSame
<1>12. \A r \in Sectors : /\ (Exists(r))' = Exists(r)
                          /\ Exists(r) => /\ (Mine(r))' = Mine(r)
                                          /\ (InodeOf(r))'.start = InodeOf(r).start
                                          /\ (InodeOf(r))'.length = InodeOf(r).length
  <2> TAKE r \in Sectors
  <2>1. CASE r = s
    <3>1. (Exists(s))' /\ Exists(s) /\ (InodeOf(s))' = opened
      BY <1>6, <1>9 DEF Exists, InodeOf
    <3>2. (Mine(s))' = Mine(s)
      BY <1>8, <3>1 DEF Mine, Extent
    <3> QED
      BY <1>8, <2>1, <3>1, <3>2
  <2>2. CASE r # s
    <3>1. (Exists(r))' = Exists(r) /\ (InodeOf(r))' = InodeOf(r)
      BY <1>4, <1>6, <1>9, <2>2 DEF Exists, InodeOf
    <3> QED
      BY <3>1 DEF Mine
  <2> QED
    BY <2>1, <2>2
<1>13. CallOwns = {} /\ CallOwns' = {} /\ CallApart' /\ OpOK'
  BY <1>4, <1>5 DEF CallOwns, CallApart, OpOK
<1>14. FileTypeOK'
  <2>1. diskDir' \in [Slots -> DirEntry \cup {Null}]
    BY <1>0, <1>1 DEF FileTypeOK
  <2> QED
    BY <1>0, <1>4, <1>9, <1>13, <2>1 DEF FileTypeOK
<1>15. OwnersApart'
  BY <1>0, <1>4, <1>12, <1>13 DEF OwnersApart, MapsOK
<1>16. DataApart'
  BY <1>0, <1>12, <1>13 DEF DataApart
<1>17. NamesApart'
  <2>1. \A x \in Slots : diskDir'[x] = IF x = e THEN Null ELSE diskDir[x]
    BY <1>0, <1>1 DEF FileTypeOK
  <2>2. \A c, d \in Slots : diskDir'[c] # Null /\ diskDir'[d] # Null /\ c # d =>
          /\ diskDir'[c].name # diskDir'[d].name
          /\ diskDir'[c].inode_sector # diskDir'[d].inode_sector
    <3>1. \A x \in Slots : diskDir'[x] # Null => diskDir'[x] = diskDir[x]
      BY <2>1
    <3>2. \A c, d \in Slots : diskDir[c] # Null /\ diskDir[d] # Null /\ c # d =>
            /\ diskDir[c].name # diskDir[d].name
            /\ diskDir[c].inode_sector # diskDir[d].inode_sector
      BY <1>0 DEF NamesApart
    <3> QED
      BY <3>1, <3>2
  <2>3. ASSUME NEW r \in Files'
        PROVE  /\ diskInode'[r] # Null
               /\ open_inodes'[r] # Null => /\ open_inodes'[r].start = diskInode'[r].start
                                            /\ open_inodes'[r].length = diskInode'[r].length
    <3>1. r \in Files /\ r \in Sectors /\ r # s
      <4>1. r \in Files /\ r # s
        BY <1>6
      <4> QED
        BY <1>0, <4>1, FilesInSectors
    <3> QED
      BY <1>0, <1>4, <1>9, <3>1 DEF NamesApart
  <2> QED
    BY <1>5, <2>2, <2>3 DEF NamesApart
<1>18. ExecutablesDenied'
  BY <1>0, <1>4 DEF ExecutablesDenied
<1>19. AllCounted'
  <2>1. ASSUME NEW r \in Sectors PROVE (Counted(r))'
    <3>1. CASE r = s
      <4>1. /\ open_inodes'[s] # Null /\ IsFiniteSet((HandlesOf(s))')
            /\ open_inodes'[s].open_cnt > 0
            /\ open_inodes'[s].deny_write_cnt = Cardinality((Denying(s))')
        BY <1>0, <1>7, <1>8, <1>9, <1>11 DEF AllCounted, Counted
      <4>2. open_inodes'[s].open_cnt = Cardinality((HandlesOf(s))') + (Removing(s))'
        <5>1. Cardinality(HandlesOf(s)) \in Nat
          BY <1>0, FS_CardinalityType DEF AllCounted, Counted
        <5>2. Removing(s) = 0 /\ (Removing(s))' = 1 /\ (HandlesOf(s))' = HandlesOf(s)
          BY <1>10, <1>11
        <5> QED
          BY <1>7, <1>8, <1>9, <5>1, <5>2
      <4>3. open_inodes'[s].removed = (s \notin Files')
        BY <1>6, <1>8, <1>9
      <4> QED
        BY <3>1, <4>1, <4>2, <4>3 DEF Counted
    <3>2. CASE r # s
      <4>1. /\ open_inodes'[r] = open_inodes[r] /\ (Removing(r))' = Removing(r)
            /\ (HandlesOf(r))' = HandlesOf(r) /\ (Denying(r))' = Denying(r)
            /\ (r \in Files') = (r \in Files)
        BY <1>6, <1>9, <1>10, <1>11, <3>2
      <4> QED
        BY <1>0, <4>1 DEF AllCounted, Counted
    <3> QED
      BY <3>1, <3>2
  <2> QED
    BY <2>1 DEF AllCounted
<1> QED
  BY <1>14, <1>15, <1>16, <1>17, <1>18, <1>19 DEF FileInv

\* After a power failure only what has a name is left, and it is as it was.
LEMMA RestartKeeps ==
  ASSUME FileInv, Restart
  PROVE  FileInv'
<1>0. FileTypeOK /\ OwnersApart /\ DataApart /\ NamesApart /\ ExecutablesDenied /\ AllCounted
  BY DEF FileInv
<1> DEFINE lost == Sectors \ UNION {Extent(s, diskInode[s]) : s \in Files}
<1>1. /\ free_map' = diskMap /\ diskMap' = diskMap /\ diskDir' = diskDir
      /\ open_inodes' = [s \in Sectors |-> Null]
      /\ fdTable' = [p \in Procs |-> <<>>] /\ curFile' = [p \in Procs |-> Null]
      /\ status' = [p \in Procs |-> "none"] /\ op' = Idle /\ op'.at = "idle"
      /\ Forget(lost)
  BY DEF Restart, Idle
<1>2. Files' = Files /\ Files \subseteq Sectors
  BY <1>0, <1>1 DEF Files, FileTypeOK, DirEntry
<1>3. ASSUME NEW s \in Files
      PROVE  /\ diskInode'[s] = diskInode[s] /\ diskInode[s] # Null
             /\ Exists(s) /\ (InodeOf(s))' = diskInode[s]
             /\ InodeOf(s).start = diskInode[s].start
             /\ InodeOf(s).length = diskInode[s].length
             /\ (Mine(s))' = Mine(s)
  <2>1. s \in Extent(s, diskInode[s]) /\ s \in Sectors
    BY <1>2 DEF Extent
  <2>2. s \notin lost
    BY <2>1
  <2>3. diskInode'[s] = diskInode[s]
    BY <1>1, <2>1, <2>2 DEF Forget
  <2>4. /\ diskInode[s] # Null /\ Exists(s)
        /\ InodeOf(s).start = diskInode[s].start
        /\ InodeOf(s).length = diskInode[s].length
    BY <1>0 DEF NamesApart, InodeOf, Exists
  <2>5. (InodeOf(s))' = diskInode[s]
    BY <1>1, <2>1, <2>3 DEF InodeOf
  <2> QED
    BY <2>3, <2>4, <2>5 DEF Mine, Extent
<1> HIDE DEF lost
<1>4. /\ \A s \in Sectors : (Exists(s))' = (s \in Files)
      /\ CallOwns' = {} /\ CallApart' /\ OpOK'
  BY <1>1, <1>2 DEF Exists, CallOwns, CallApart, OpOK
<1>5. FileTypeOK'
  <2>1. /\ diskInode' \in [Sectors -> InodeDisk \cup {Null}]
        /\ diskData' \in [Sectors -> Values \cup {Null}]
    BY <1>0, <1>1 DEF Forget, FileTypeOK
  <2>2. fdTable' \in [Procs -> Seq(OpenFile \cup {Null})]
        /\ \A p \in Procs : Len(fdTable'[p]) <= MaxFd
    <3>1. <<>> \in Seq(OpenFile \cup {Null}) /\ Len(<<>>) = 0
      BY EmptySeq
    <3> QED
      BY <1>1, <3>1
  <2> QED
    BY <1>0, <1>1, <1>4, <2>1, <2>2 DEF FileTypeOK
<1>6. OwnersApart'
  <2>1. ASSUME NEW s \in Sectors, (Exists(s))'
        PROVE  (Mine(s))' \subseteq free_map' \ Formatted /\ (Mine(s))' \cap CallOwns' = {}
    <3>1. (Mine(s))' = Mine(s) /\ Exists(s)
      BY <1>3, <1>4, <2>1
    <3> QED
      BY <1>0, <1>1, <1>4, <3>1 DEF OwnersApart, MapsOK
  <2>2. ASSUME NEW s \in Sectors, NEW r \in Sectors, (Exists(s))', (Exists(r))', s # r
        PROVE  (Mine(s))' \cap (Mine(r))' = {}
    <3>1. /\ (Mine(s))' = Mine(s) /\ Exists(s)
          /\ (Mine(r))' = Mine(r) /\ Exists(r)
      BY <1>3, <1>4, <2>2
    <3> QED
      BY <1>0, <2>2, <3>1 DEF OwnersApart
  <2> QED
    BY <1>0, <1>1, <1>4, <2>1, <2>2 DEF OwnersApart, MapsOK
<1>7. DataApart'
  <2>1. ASSUME NEW s \in Sectors, (Exists(s))'
        PROVE  s \notin Span((InodeOf(s))'.start, (InodeOf(s))'.length)
    <3>1. /\ Exists(s) /\ (InodeOf(s))'.start = InodeOf(s).start
          /\ (InodeOf(s))'.length = InodeOf(s).length
      BY <1>3, <1>4, <2>1
    <3> QED
      BY <1>0, <3>1 DEF DataApart
  <2> QED
    BY <1>4, <2>1 DEF DataApart
<1>8. NamesApart'
  <2>1. \A s \in Files' : diskInode'[s] # Null /\ open_inodes'[s] = Null
    BY <1>1, <1>2, <1>3
  <2> QED
    BY <1>0, <1>1, <2>1 DEF NamesApart
<1>9. ExecutablesDenied'
  BY <1>1 DEF ExecutablesDenied
<1>10. AllCounted'
  <2>1. \A p \in Procs, d \in 0..MaxFd : (FileAt(p, d))' = Null
    <3>1. ASSUME NEW p \in Procs, NEW d \in 0..MaxFd PROVE (FileAt(p, d))' = Null
      <4>1. curFile'[p] = Null /\ Len(fdTable'[p]) = 0
        BY <1>1, EmptySeq
      <4>2. ~(d \in 1..Len(fdTable'[p]))
        BY <4>1
      <4> QED
        BY <4>1, <4>2 DEF FileAt
    <3> QED
      BY <3>1
  <2>2. Handles' = {}
    BY <2>1, HandlesWillBe DEF Places
  <2>3. \A s \in Sectors : (HandlesOf(s))' = {} /\ (Removing(s))' = 0
    BY <1>1, <2>2, NotRemoving DEF HandlesOf
  <2> QED
    BY <1>1, <2>3, FS_EmptySet DEF AllCounted, Counted
<1> QED
  BY <1>5, <1>6, <1>7, <1>8, <1>9, <1>10 DEF FileInv

----------------------------------------------------------------------------
(* The invariant, and what follows from it *)

LEMMA StepKeeps ==
  ASSUME FileInv, [FileSystemNext]_vars
  PROVE  FileInv'
<1>1. ASSUME NEW p \in Procs,
             syscall_handler(p) \/ Load(p) \/ LoadFails(p) \/ FsutilActions(p) \/ Kill(p)
      PROVE  FileInv'
  <2>1. CASE CreateAllocInode(p)
    BY <2>1, AllocInodeKeeps
  <2>2. CASE RemoveEntry(p)
    BY <2>2, RemoveEntryKeeps
  <2>3. CASE Open(p)
    BY <2>3, OpenCallKeeps
  <2>4. CASE Close(p)
    BY <2>4, CloseCallKeeps
  <2>5. CASE Seek(p)
    BY <2>5, SeekKeeps
  <2>6. CASE Read(p)
    BY <2>6, ReadKeeps
  <2>7. CASE Write(p)
    BY <2>7, WriteKeeps
  <2>8. CASE Exit(p)
    BY <2>8, ExitKeeps
  <2>9. CASE Load(p) \/ LoadFails(p)
    BY <2>9, LoadedKeeps
  <2>10. CASE FsutilActions(p)
    BY <2>10, FsutilKeeps
  <2>11. CASE Kill(p)
    BY <2>11, KillKeeps
  <2> QED
    BY <1>1, <2>1, <2>2, <2>3, <2>4, <2>5, <2>6, <2>7, <2>8, <2>9, <2>10, <2>11
       DEF syscall_handler
<1>2. CASE CreateAllocData
  BY <1>2, AllocDataKeeps
<1>3. CASE CreateNoData
  BY <1>3, NoDataKeeps
<1>4. CASE CreateWriteInode
  BY <1>4, WriteInodeKeeps
<1>5. CASE CreateZeros
  BY <1>5, ZerosKeeps
<1>6. CASE CreateEntry
  BY <1>6, EntryKeeps
<1>7. CASE CreateNoEntry
  BY <1>7, NoEntryKeeps
<1>8. CASE CreateRelease
  BY <1>8, ReleaseKeeps
<1>9. CASE RemoveClose
  BY <1>9, RemoveCloseKeeps
<1>10. CASE ReleaseInode
  BY <1>10, ReleaseInodeKeeps
<1>11. CASE ReleaseData
  BY <1>11, ReleaseDataKeeps
<1>12. CASE WriteSector
  BY <1>12, WriteSectorKeeps
<1>13. CASE WriteDone
  BY <1>13, WriteDoneKeeps
<1>14. CASE Fault
  BY <1>14, FaultKeeps
<1>15. CASE ExitClose
  BY <1>15, ExitCloseKeeps
<1>16. CASE ExitThread
  BY <1>16, ExitThreadKeeps
<1>17. CASE Restart
  BY <1>17, RestartKeeps
<1>18. CASE UNCHANGED vars
  <2>1. /\ UNCHANGED <<diskMap, diskInode, diskDir, diskData, free_map, open_inodes>>
        /\ UNCHANGED <<fdTable, curFile, status>> /\ op' = op
    BY <1>18 DEF vars, disk, memory, threads
  <2>2. Files' = Files /\ \A p \in Procs, d \in 0..MaxFd : (FileAt(p, d))' = FileAt(p, d)
    BY <2>1 DEF Files, FileAt
  <2>3. \A s \in Sectors : /\ (HandlesOf(s))' = HandlesOf(s) /\ (Denying(s))' = Denying(s)
                           /\ (Removing(s))' = Removing(s)
    BY <2>1, HandlesSame DEF Removing, At
  <2>4. AllCounted'
    BY <2>1, <2>2, <2>3, CountsKept DEF FileInv
  <2>5. FileTypeOK'
    BY <2>1 DEF FileInv, FileTypeOK, OpOK, OpenFds
  <2>6. \A s \in Sectors : /\ (Exists(s))' = Exists(s) /\ (InodeOf(s))' = InodeOf(s)
                           /\ (Mine(s))' = Mine(s)
    BY <2>1, <2>2 DEF Exists, InodeOf, Mine
  <2>7. CallOwns' = CallOwns /\ CallApart' = CallApart
    BY <2>1 DEF CallOwns, CallApart
  <2>8. OwnersApart' /\ DataApart'
    BY <2>1, <2>6, <2>7 DEF FileInv, OwnersApart, MapsOK, DataApart
  <2>9. NamesApart'
    BY <2>1, <2>2 DEF FileInv, NamesApart
  <2>10. ExecutablesDenied'
    BY <2>1 DEF FileInv, ExecutablesDenied
  <2> QED
    BY <2>4, <2>5, <2>8, <2>9, <2>10 DEF FileInv
<1> QED
  BY <1>1, <1>2, <1>3, <1>4, <1>5, <1>6, <1>7, <1>8, <1>9, <1>10, <1>11, <1>12, <1>13,
     <1>14, <1>15, <1>16, <1>17, <1>18 DEF FileSystemNext

LEMMA InitialFiles == FileSystemInit => FileInv
<1> SUFFICES ASSUME FileSystemInit PROVE FileInv
  OBVIOUS
<1>1. /\ diskMap = Formatted /\ free_map = Formatted /\ op = Idle
      /\ diskInode = [s \in Sectors |-> Null] /\ diskDir = [e \in Slots |-> Null]
      /\ diskData = [s \in Sectors |-> Null] /\ open_inodes = [s \in Sectors |-> Null]
      /\ fdTable = [p \in Procs |-> <<>>] /\ curFile = [p \in Procs |-> Null]
      /\ status = [p \in Procs |-> "none"]
  BY DEF FileSystemInit
<1>2. Files = {} /\ \A s \in Sectors : ~Exists(s)
  BY <1>1 DEF Files, Exists
<1>3. CallOwns = {} /\ CallApart /\ OpOK /\ op.at = "idle"
  BY <1>1 DEF CallOwns, CallApart, OpOK, Idle
<1>4. FileTypeOK
  <2>1. <<>> \in Seq(OpenFile \cup {Null}) /\ Len(<<>>) = 0
    BY EmptySeq
  <2> QED
    BY <1>1, <1>3, <2>1 DEF FileTypeOK
<1>5. Formatted \subseteq Sectors
  BY FileSystemAssumption DEF Formatted, FREE_MAP_SECTOR, ROOT_DIR_SECTOR, Sectors
<1>6. OwnersApart /\ DataApart
  BY <1>1, <1>2, <1>3, <1>5 DEF OwnersApart, DataApart, MapsOK
<1>7. NamesApart
  BY <1>1, <1>2, <1>3 DEF NamesApart
<1>8. ExecutablesDenied
  BY <1>1 DEF ExecutablesDenied
<1>9. AllCounted
  <2>1. ASSUME NEW h \in Places PROVE FileAt(h[1], h[2]) = Null
    <3>1. h[1] \in Procs
      BY DEF Places
    <3>2. curFile[h[1]] = Null /\ fdTable[h[1]] = <<>>
      BY <1>1, <3>1
    <3>3. ~(h[2] \in 1..Len(fdTable[h[1]]))
      BY <3>2, EmptySeq
    <3> QED
      BY <3>2, <3>3 DEF FileAt
  <2>2. Handles = {}
    BY <2>1, HandlesAre
  <2>3. \A s \in Sectors : HandlesOf(s) = {} /\ Removing(s) = 0
    BY <1>3, <2>2, NotRemoving DEF HandlesOf
  <2> QED
    BY <1>1, <2>3, FS_EmptySet DEF AllCounted, Counted
<1> QED
  BY <1>4, <1>6, <1>7, <1>8, <1>9 DEF FileInv

LEMMA FileInvariant == FileSystemSpec => []FileInv
  BY InitialFiles, StepKeeps, PTL DEF FileSystemSpec

\* Whatever the moment of a power failure, the named files have all their sectors
\* marked used on the disk, and share none (filesys_create, filesys_remove).
THEOREM FilesSurvive == FileSystemSpec => []MountSafe
<1>1. FileInv => MountSafe
  <2> SUFFICES ASSUME FileInv, NEW e \in Slots, diskDir[e] # Null
               PROVE  LET mine == Extent(diskDir[e].inode_sector,
                                         diskInode[diskDir[e].inode_sector])
                      IN /\ mine \subseteq diskMap \ Formatted
                         /\ \A d \in Slots \ {e} : diskDir[d] # Null =>
                              /\ diskDir[d].name # diskDir[e].name
                              /\ mine \cap Extent(diskDir[d].inode_sector,
                                                 diskInode[diskDir[d].inode_sector]) = {}
    BY DEF MountSafe
  <2>1. FileTypeOK /\ OwnersApart /\ NamesApart
    BY DEF FileInv
  <2>2. \A d \in Slots : diskDir[d] # Null =>
          /\ diskDir[d].inode_sector \in Files /\ diskDir[d].inode_sector \in Sectors
    BY <2>1 DEF Files, FileTypeOK, DirEntry
  <2>3. \A s \in Files : Exists(s) /\ Mine(s) = Extent(s, diskInode[s])
    BY <2>1 DEF Exists, Mine, InodeOf, Extent, NamesApart
  <2>4. Extent(diskDir[e].inode_sector, diskInode[diskDir[e].inode_sector])
          \subseteq diskMap \ Formatted
    BY <2>1, <2>2, <2>3 DEF OwnersApart, MapsOK
  <2>5. ASSUME NEW d \in Slots \ {e}, diskDir[d] # Null
        PROVE  /\ diskDir[d].name # diskDir[e].name
               /\ Extent(diskDir[e].inode_sector, diskInode[diskDir[e].inode_sector])
                    \cap Extent(diskDir[d].inode_sector,
                                diskInode[diskDir[d].inode_sector]) = {}
    <3>1. /\ diskDir[d].name # diskDir[e].name
          /\ diskDir[d].inode_sector # diskDir[e].inode_sector
      BY <2>1, <2>5 DEF NamesApart
    <3> QED
      BY <2>1, <2>2, <2>3, <2>5, <3>1 DEF OwnersApart
  <2> QED
    BY <2>4, <2>5
<1> QED
  BY <1>1, FileInvariant, PTL

\* An inode is open as often as there are users of it, counting those lost, and its
\* sectors are not free as long as it is (inode_open, inode_close, file_deny_write).
THEOREM OpensAreCounted == FileSystemSpec => []InodesCounted
<1>1. FileInv => InodesCounted
  <2> SUFFICES ASSUME FileInv, NEW s \in Sectors
               PROVE  LET i == open_inodes[s]
                          users == Cardinality(HandlesOf(s)) + Removing(s)
                      IN /\ (i = Null) = (users = 0)
                         /\ i # Null =>
                              /\ i.open_cnt = users
                              /\ i.deny_write_cnt = Cardinality(Denying(s))
                              /\ i.removed = (s \notin Files)
                              /\ Extent(s, i) \subseteq free_map
    BY DEF InodesCounted, Removing, Denying
  <2>1. Counted(s) /\ OwnersApart
    BY DEF FileInv, AllCounted
  <2>2. Cardinality(HandlesOf(s)) \in Nat /\ Removing(s) \in {0, 1}
    BY <2>1, DenyingFinite DEF Counted, Removing
  <2>3. CASE open_inodes[s] = Null
    <3>1. Cardinality(HandlesOf(s)) = 0 /\ Removing(s) = 0
      BY <2>1, <2>3, FS_EmptySet DEF Counted
    <3> QED
      BY <2>3, <3>1
  <2>4. CASE open_inodes[s] # Null
    <3>1. /\ open_inodes[s].open_cnt = Cardinality(HandlesOf(s)) + Removing(s)
          /\ open_inodes[s].open_cnt > 0
          /\ open_inodes[s].deny_write_cnt = Cardinality(Denying(s))
          /\ open_inodes[s].removed = (s \notin Files)
      BY <2>1, <2>4 DEF Counted
    <3>2. Extent(s, open_inodes[s]) \subseteq free_map
      BY <2>1, <2>4 DEF OwnersApart, Exists, Mine, InodeOf
    <3> QED
      BY <2>2, <2>4, <3>1, <3>2
  <2> QED
    BY <2>3, <2>4
<1> QED
  BY <1>1, FileInvariant, PTL

\* Who has a file open has its inode open.
LEMMA HandleOpen ==
  ASSUME FileInv, NEW p \in Procs, NEW d \in 0..MaxFd, FileAt(p, d) # Null
  PROVE  /\ FileAt(p, d) \in OpenFile
         /\ FileAt(p, d).inode \in Sectors /\ FileAt(p, d).pos \in Nat
         /\ open_inodes[FileAt(p, d).inode] \in Inode
         /\ open_inodes[FileAt(p, d).inode] # Null
         /\ FileAt(p, d).deny_write => open_inodes[FileAt(p, d).inode].deny_write_cnt > 0
<1>1. FileTypeOK /\ AllCounted
  BY DEF FileInv
<1>2. FileAt(p, d) \in OpenFile
  <2>1. CASE d = 0
    BY <1>1, <2>1 DEF FileAt, FileTypeOK
  <2>2. CASE d # 0
    <3>1. d \in 1..Len(fdTable[p]) /\ FileAt(p, d) = fdTable[p][d]
      BY <2>2 DEF FileAt
    <3>2. fdTable[p] \in Seq(OpenFile \cup {Null})
      BY <1>1 DEF FileTypeOK
    <3> QED
      BY <3>1, <3>2
  <2> QED
    BY <2>1, <2>2
<1>3. FileAt(p, d).inode \in Sectors /\ FileAt(p, d).pos \in Nat
  BY <1>2 DEF OpenFile
<1>4. PICK s \in Sectors : s = FileAt(p, d).inode
  BY <1>3
<1> DEFINE here == <<p, d>>
<1>5. here \in Handles /\ File(here) = FileAt(p, d)
  <2>1. here \in Places /\ here[1] = p /\ here[2] = d
    BY DEF Places
  <2> HIDE DEF here
  <2> QED
    BY <2>1, HandlesAre
<1> HIDE DEF here
<1>6. here \in HandlesOf(s) /\ (FileAt(p, d).deny_write => here \in Denying(s))
  BY <1>4, <1>5 DEF HandlesOf, Denying
<1>7. IsFiniteSet(HandlesOf(s)) /\ open_inodes[s] # Null
  BY <1>1, <1>6 DEF AllCounted, Counted
<1>8. open_inodes[s] \in Inode
  BY <1>1, <1>7 DEF FileTypeOK
<1>9. FileAt(p, d).deny_write => open_inodes[s].deny_write_cnt > 0
  <2> SUFFICES ASSUME FileAt(p, d).deny_write PROVE open_inodes[s].deny_write_cnt > 0
    OBVIOUS
  <2>1. IsFiniteSet(Denying(s)) /\ Cardinality(Denying(s)) \in Nat
    BY <1>7, DenyingFinite
  <2>2. Cardinality(Denying(s)) # 0
    BY <1>6, <2>1, FS_EmptySet
  <2>3. open_inodes[s].deny_write_cnt = Cardinality(Denying(s))
    BY <1>1, <1>7 DEF AllCounted, Counted
  <2> QED
    BY <2>1, <2>2, <2>3
<1> QED
  BY <1>2, <1>3, <1>4, <1>7, <1>8, <1>9

\* A call changes no data of files but where it writes.
LEMMA DataKept ==
  ASSUME FileInv, [FileSystemNext]_vars, ~WriteSector, ~Restart,
         NEW s \in Sectors, Exists(s), NEW x \in Mine(s)
  PROVE  diskData'[x] = diskData[x] /\ x \in Sectors
<1>1. FileTypeOK /\ OwnersApart
  BY DEF FileInv
<1>2. x \in Sectors /\ x \notin CallOwns
  BY <1>1 DEF OwnersApart, MapsOK
<1>3. CASE CreateZeros
  <2>1. CallOwns = Extent(op.sector, op)
    BY <1>3 DEF CreateZeros, At, CallOwns
  <2> QED
    BY <1>2, <1>3, <2>1 DEF CreateZeros, Extent
<1>4. CASE CreateRelease
  <2>1. CallOwns = Extent(op.sector, op)
    BY <1>4 DEF CreateRelease, At, CallOwns
  <2> QED
    BY <1>2, <1>4, <2>1 DEF CreateRelease, Forget, Extent
<1>5. CASE ReleaseInode
  <2>1. CallOwns = Extent(op.sector, op)
    BY <1>5 DEF ReleaseInode, At, CallOwns
  <2> QED
    BY <1>2, <1>5, <2>1 DEF ReleaseInode, Forget, Extent
<1>6. CASE ReleaseData
  <2>1. CallOwns = Span(op.start, op.length)
    BY <1>6 DEF ReleaseData, At, CallOwns
  <2> QED
    BY <1>2, <1>6, <2>1 DEF ReleaseData, Forget
<1>7. CASE diskData' = diskData
  BY <1>2, <1>7
<1>8. diskData' = diskData \/ CreateZeros \/ CreateRelease \/ ReleaseInode \/ ReleaseData
  <2>1. ASSUME NEW p \in Procs,
               syscall_handler(p) \/ Load(p) \/ LoadFails(p) \/ FsutilActions(p) \/ Kill(p)
        PROVE  diskData' = diskData
    BY <2>1 DEF syscall_handler, Load, LoadFails, FsutilActions, Kill, CreateAllocInode,
         RemoveEntry, Open, Close, Seek, Read, Write, Exit, disk
  <2>2. CASE CreateAllocData \/ CreateNoData \/ CreateWriteInode \/ CreateEntry \/ CreateNoEntry
    BY <2>2 DEF CreateAllocData, CreateNoData, CreateWriteInode, CreateEntry, CreateNoEntry, disk
  <2>3. CASE RemoveClose \/ WriteDone \/ Fault \/ ExitClose \/ ExitThread
    BY <2>3 DEF RemoveClose, WriteDone, Fault, ExitClose, ExitThread, disk
  <2>4. CASE UNCHANGED vars
    BY <2>4 DEF vars, disk
  <2> QED
    BY <2>1, <2>2, <2>3, <2>4 DEF FileSystemNext
<1> QED
  BY <1>3, <1>4, <1>5, <1>6, <1>7, <1>8

\* A write goes to a sector of the file it is for, which nobody denies it.
LEMMA WrittenIs ==
  ASSUME FileInv, WriteSector
  PROVE  \E s \in Sectors, k \in Nat :
           /\ open_inodes[s] # Null /\ open_inodes[s].deny_write_cnt = 0
           /\ k < open_inodes[s].length
           /\ open_inodes[s].start + k \in Mine(s)
           /\ diskData' = [diskData EXCEPT ![open_inodes[s].start + k] = op.value]
           /\ op.value \in Values
<1>1. /\ OpOK /\ op.at = "write" /\ FileTypeOK
      /\ op \in [at : {"write"}, proc : Procs, fd : Nat, value : Values, done : Nat]
      /\ op.fd \in OpenFds(op.proc)
  <2>1. OpOK /\ op.at = "write"
    BY DEF FileInv, FileTypeOK, WriteSector, At
  <2> QED
    BY <2>1, CallShape DEF FileInv
<1>2. PICK p \in Procs : p = op.proc
  BY <1>1
<1>3. PICK d \in 1..MaxFd : d = op.fd /\ d \in 1..Len(fdTable[p]) /\ fdTable[p][d] # Null
  <2>1. fdTable[p] \in Seq(OpenFile \cup {Null}) /\ Len(fdTable[p]) <= MaxFd
    BY <1>1 DEF FileTypeOK
  <2>2. op.fd \in 1..Len(fdTable[p]) /\ fdTable[p][op.fd] # Null
    BY <1>1, <1>2 DEF OpenFds
  <2>3. op.fd \in 1..MaxFd
    BY <2>1, <2>2
  <2> QED
    BY <2>2, <2>3
<1>4. d \in 0..MaxFd /\ FileAt(p, d) = fdTable[p][d]
  BY <1>3 DEF FileAt
<1>5. PICK s \in Sectors :
        /\ s = fdTable[p][d].inode /\ open_inodes[s] # Null /\ open_inodes[s] \in Inode
        /\ fdTable[p][d].pos \in Nat
  BY <1>3, <1>4, HandleOpen
<1>6. PICK k \in Nat : k = fdTable[p][d].pos + op.done
  BY <1>1, <1>5
<1>7. /\ open_inodes[s].deny_write_cnt = 0 /\ k < open_inodes[s].length
      /\ diskData' = [diskData EXCEPT ![open_inodes[s].start + k] = op.value]
  BY <1>2, <1>3, <1>5, <1>6 DEF WriteSector, InData, byte_to_sector
<1>8. open_inodes[s].start + k \in Mine(s)
  <2>1. open_inodes[s].start \in Nat /\ open_inodes[s].length \in Nat
    BY <1>5 DEF Inode
  <2>2. open_inodes[s].start + k \in Span(open_inodes[s].start, open_inodes[s].length)
    BY <1>7, <2>1 DEF Span
  <2> QED
    BY <1>5, <2>2 DEF Mine, InodeOf, Extent
<1> QED
  BY <1>1, <1>5, <1>7, <1>8

\* Nobody changes a program while it runs (load, file_deny_write).
THEOREM ProgramsStay == FileSystemSpec => ProgramsKept
<1>1. ASSUME FileInv, [FileSystemNext]_vars
      PROVE  [\A p \in Procs :
                status[p] = "live" /\ curFile[p] # Null /\ curFile'[p] = curFile[p] =>
                  LET i == open_inodes[curFile[p].inode]
                  IN \A s \in Span(i.start, i.length) : diskData'[s] = diskData[s]]_vars
  <2> SUFFICES ASSUME NEW p \in Procs, status[p] = "live", curFile[p] # Null,
                      curFile'[p] = curFile[p],
                      NEW x \in Span(open_inodes[curFile[p].inode].start,
                                     open_inodes[curFile[p].inode].length)
               PROVE  diskData'[x] = diskData[x]
    OBVIOUS
  <2>1. curFile[p].deny_write
    BY <1>1 DEF FileInv, ExecutablesDenied
  <2> DEFINE d == 0
  <2>2. d \in 0..MaxFd /\ FileAt(p, d) = curFile[p]
    BY DEF FileAt
  <2> HIDE DEF d
  <2>3. PICK s \in Sectors : /\ s = curFile[p].inode /\ open_inodes[s] # Null
                             /\ open_inodes[s].deny_write_cnt > 0
    BY <1>1, <2>1, <2>2, HandleOpen
  <2>4. Exists(s) /\ x \in Mine(s)
    BY <2>3 DEF Exists, Mine, InodeOf, Extent
  <2>5. CASE WriteSector
    <3>1. PICK r \in Sectors, k \in Nat :
            /\ open_inodes[r] # Null /\ open_inodes[r].deny_write_cnt = 0
            /\ open_inodes[r].start + k \in Mine(r)
            /\ diskData' = [diskData EXCEPT ![open_inodes[r].start + k] = op.value]
      BY <1>1, <2>5, WrittenIs
    <3>2. r # s /\ Exists(r)
      BY <2>3, <3>1 DEF Exists
    <3>3. x # open_inodes[r].start + k
      BY <1>1, <2>4, <3>1, <3>2 DEF FileInv, OwnersApart
    <3> QED
      BY <1>1, <3>1, <3>3 DEF FileInv, FileTypeOK
  <2>6. CASE Restart
    BY <2>6 DEF Restart
  <2>7. CASE ~WriteSector /\ ~Restart
    BY <1>1, <2>4, <2>7, DataKept
  <2> QED
    BY <2>5, <2>6, <2>7
<1> QED
  BY <1>1, FileInvariant, PTL DEF FileSystemSpec, ProgramsKept

----------------------------------------------------------------------------
(* The file system implements the file store *)

\* What the state is for FileStore: its names, the contents of its files, and
\* those somebody has open.
NameOf == [n \in Names |-> IF Entries(n) = {} THEN Null
             ELSE diskDir[CHOOSE e \in Entries(n) : TRUE].inode_sector]
BodyOf == [s \in Sectors |-> IF ~Exists(s) THEN Null
             ELSE [k \in 1..InodeOf(s).length |-> diskData[InodeOf(s).start + k - 1]]]
HeldOnes == {s \in Sectors : open_inodes[s] # Null}

LEMMA InodeTyped ==
  ASSUME FileInv, NEW s \in Sectors, Exists(s)
  PROVE  InodeOf(s).start \in Nat /\ InodeOf(s).length \in Nat
<1>1. FileTypeOK /\ NamesApart
  BY DEF FileInv
<1>2. CASE open_inodes[s] # Null
  BY <1>1, <1>2 DEF InodeOf, FileTypeOK, Inode
<1>3. CASE open_inodes[s] = Null
  <2>1. s \in Files /\ diskInode[s] # Null /\ InodeOf(s) = diskInode[s]
    BY <1>1, <1>3 DEF Exists, InodeOf, NamesApart
  <2> QED
    BY <1>1, <2>1 DEF FileTypeOK, InodeDisk
<1> QED
  BY <1>2, <1>3

\* A file whose inode and data stay has its contents.
LEMMA BodySame ==
  ASSUME FileInv, NEW s \in Sectors, (Exists(s))' = Exists(s),
         Exists(s) =>
           /\ (InodeOf(s))'.start = InodeOf(s).start
           /\ (InodeOf(s))'.length = InodeOf(s).length
           /\ \A x \in Span(InodeOf(s).start, InodeOf(s).length) : diskData'[x] = diskData[x]
  PROVE  BodyOf'[s] = BodyOf[s]
<1>1. CASE ~Exists(s)
  BY <1>1 DEF BodyOf
<1>2. CASE Exists(s)
  <2>1. InodeOf(s).start \in Nat /\ InodeOf(s).length \in Nat
    BY <1>2, InodeTyped
  <2>2. \A k \in 1..InodeOf(s).length :
          diskData'[InodeOf(s).start + k - 1] = diskData[InodeOf(s).start + k - 1]
    BY <1>2, <2>1 DEF Span
  <2>3. BodyOf[s] = [k \in 1..InodeOf(s).length |-> diskData[InodeOf(s).start + k - 1]]
    BY <1>2 DEF BodyOf
  <2>4. BodyOf'[s] = [k \in 1..InodeOf(s).length |-> diskData'[InodeOf(s).start + k - 1]]
    BY <1>2 DEF BodyOf
  <2> QED
    BY <2>2, <2>3, <2>4
<1> QED
  BY <1>1, <1>2

LEMMA BodiesAre ==
  /\ DOMAIN BodyOf = Sectors /\ DOMAIN BodyOf' = Sectors
  /\ BodyOf = [s \in Sectors |-> BodyOf[s]] /\ BodyOf' = [s \in Sectors |-> BodyOf'[s]]
  BY DEF BodyOf

LEMMA NamingIs ==
  /\ DOMAIN NameOf = Names /\ DOMAIN NameOf' = Names
  /\ NameOf = [n \in Names |-> NameOf[n]] /\ NameOf' = [n \in Names |-> NameOf'[n]]
  BY DEF NameOf

\* A name leads to one file, and the files that have names are Files.
LEMMA NamesAre ==
  ASSUME FileInv
  PROVE  /\ \A e \in Slots : diskDir[e] # Null =>
              /\ Entries(diskDir[e].name) = {e} /\ diskDir[e].name \in Names
              /\ diskDir[e].inode_sector \in Sectors
              /\ NameOf[diskDir[e].name] = diskDir[e].inode_sector
         /\ \A n \in Names : NameOf[n] = Null <=> Entries(n) = {}
         /\ \A s \in Sectors : (\E n \in Names : NameOf[n] = s) <=> s \in Files
<1>1. FileTypeOK /\ NamesApart
  BY DEF FileInv
<1>2. ASSUME NEW e \in Slots, diskDir[e] # Null
      PROVE  /\ Entries(diskDir[e].name) = {e} /\ diskDir[e].name \in Names
             /\ diskDir[e].inode_sector \in Sectors
             /\ NameOf[diskDir[e].name] = diskDir[e].inode_sector
  <2>1. diskDir[e].name \in Names /\ diskDir[e].inode_sector \in Sectors
    BY <1>1, <1>2 DEF FileTypeOK, DirEntry
  <2>2. Entries(diskDir[e].name) = {e}
    BY <1>1, <1>2 DEF Entries, NamesApart
  <2>3. (CHOOSE x \in {e} : TRUE) = e
    OBVIOUS
  <2>4. NameOf[diskDir[e].name] = diskDir[e].inode_sector
    BY <2>1, <2>2, <2>3 DEF NameOf
  <2> QED
    BY <2>1, <2>2, <2>4
<1>3. ASSUME NEW n \in Names PROVE NameOf[n] = Null <=> Entries(n) = {}
  <2>1. CASE Entries(n) = {}
    BY <2>1 DEF NameOf
  <2>2. CASE Entries(n) # {}
    <3>1. PICK e \in Slots : diskDir[e] # Null /\ diskDir[e].name = n
      BY <2>2 DEF Entries
    <3> QED
      BY <1>2, <2>2, <3>1
  <2> QED
    BY <2>1, <2>2
<1>4. ASSUME NEW s \in Sectors PROVE (\E n \in Names : NameOf[n] = s) <=> s \in Files
  <2>1. ASSUME NEW n \in Names, NameOf[n] = s PROVE s \in Files
    <3>1. Entries(n) # {}
      BY <1>3, <2>1
    <3>2. PICK e \in Slots : diskDir[e] # Null /\ diskDir[e].name = n
      BY <3>1 DEF Entries
    <3> QED
      BY <1>2, <2>1, <3>2 DEF Files
  <2>2. ASSUME s \in Files PROVE \E n \in Names : NameOf[n] = s
    <3>1. PICK e \in Slots : diskDir[e] # Null /\ diskDir[e].inode_sector = s
      BY <2>2 DEF Files
    <3> QED
      BY <1>2, <3>1
  <2> QED
    BY <2>1, <2>2
<1> QED
  BY <1>2, <1>3, <1>4

\* The inode of a file stays on the disk as it is.
LEMMA InodesKept ==
  ASSUME FileInv, [FileSystemNext]_vars, NEW s \in Files
  PROVE  diskInode'[s] = diskInode[s] /\ s \in Sectors
<1>1. /\ FileTypeOK /\ OwnersApart /\ s \in Sectors
  BY DEF FileInv, FileTypeOK, Files, DirEntry
<1>2. s \notin CallOwns
  <2>1. s \in Mine(s) /\ Exists(s)
    BY DEF Mine, Extent, Exists
  <2> QED
    BY <1>1, <2>1 DEF OwnersApart
<1>3. CASE CreateWriteInode
  <2>1. CallOwns = Extent(op.sector, op)
    BY <1>3 DEF CreateWriteInode, At, CallOwns
  <2>2. s # op.sector
    BY <1>2, <2>1 DEF Extent
  <2> QED
    BY <1>1, <1>3, <2>2 DEF CreateWriteInode, FileTypeOK
<1>4. CASE CreateRelease
  <2>1. CallOwns = Extent(op.sector, op)
    BY <1>4 DEF CreateRelease, At, CallOwns
  <2> QED
    BY <1>1, <1>2, <1>4, <2>1 DEF CreateRelease, Forget, Extent
<1>5. CASE ReleaseInode
  <2>1. CallOwns = Extent(op.sector, op)
    BY <1>5 DEF ReleaseInode, At, CallOwns
  <2> QED
    BY <1>1, <1>2, <1>5, <2>1 DEF ReleaseInode, Forget, Extent
<1>6. CASE ReleaseData
  <2>1. CallOwns = Span(op.start, op.length)
    BY <1>6 DEF ReleaseData, At, CallOwns
  <2> QED
    BY <1>1, <1>2, <1>6, <2>1 DEF ReleaseData, Forget
<1>7. CASE Restart
  <2>1. s \in Extent(s, diskInode[s])
    BY DEF Extent
  <2> QED
    BY <1>1, <1>7, <2>1 DEF Restart, Forget
<1>8. CASE diskInode' = diskInode
  BY <1>1, <1>8
<1>9. \/ diskInode' = diskInode \/ CreateWriteInode \/ CreateRelease \/ ReleaseInode
      \/ ReleaseData \/ Restart
  <2>1. ASSUME NEW p \in Procs,
               syscall_handler(p) \/ Load(p) \/ LoadFails(p) \/ FsutilActions(p) \/ Kill(p)
        PROVE  diskInode' = diskInode
    BY <2>1 DEF syscall_handler, Load, LoadFails, FsutilActions, Kill, CreateAllocInode,
         RemoveEntry, Open, Close, Seek, Read, Write, Exit, disk
  <2>2. CASE CreateAllocData \/ CreateNoData \/ CreateZeros \/ CreateEntry \/ CreateNoEntry
    BY <2>2 DEF CreateAllocData, CreateNoData, CreateZeros, CreateEntry, CreateNoEntry, disk
  <2>3. CASE RemoveClose \/ WriteSector \/ WriteDone \/ Fault \/ ExitClose \/ ExitThread
    BY <2>3 DEF RemoveClose, WriteSector, WriteDone, Fault, ExitClose, ExitThread, disk
  <2>4. CASE UNCHANGED vars
    BY <2>4 DEF vars, disk
  <2> QED
    BY <2>1, <2>2, <2>3, <2>4 DEF FileSystemNext
<1> QED
  BY <1>1, <1>3, <1>4, <1>5, <1>6, <1>7, <1>8, <1>9

\* A step that opens, closes and names nothing, and writes to no file.
LEMMA StoreSame ==
  ASSUME FileInv, [FileSystemNext]_vars, ~WriteSector, ~Restart,
         UNCHANGED <<diskDir, open_inodes>>
  PROVE  NameOf' = NameOf /\ BodyOf' = BodyOf /\ HeldOnes' = HeldOnes
<1>1. NameOf' = NameOf /\ HeldOnes' = HeldOnes
  BY DEF NameOf, Entries, HeldOnes
<1>2. \A s \in Sectors : /\ (Exists(s))' = Exists(s)
                         /\ Exists(s) => (InodeOf(s))' = InodeOf(s)
  BY InodesKept, FilesKept DEF FileInv
<1>3. ASSUME NEW s \in Sectors PROVE BodyOf'[s] = BodyOf[s]
  <2>1. Exists(s) => \A x \in Span(InodeOf(s).start, InodeOf(s).length) :
          diskData'[x] = diskData[x]
    BY DataKept DEF Mine, Extent
  <2> QED
    BY <1>2, <2>1, BodySame
<1> QED
  BY <1>1, <1>3, BodiesAre

\* A step of the store, or none.
StoreStep == Store!Next \/ (NameOf' = NameOf /\ BodyOf' = BodyOf /\ HeldOnes' = HeldOnes)

\* dir_add is the store's Create.
LEMMA EntryIsCreate ==
  ASSUME FileInv, CreateEntry
  PROVE  StoreStep
<1>1. /\ FileTypeOK /\ OwnersApart /\ NamesApart /\ op.at = "create_entry"
      /\ op \in [at : {"create_entry"}, name : Names, length : Sizes, sector : Sectors,
                 start : Sectors]
  <2>1. OpOK /\ op.at = "create_entry"
    BY DEF FileInv, FileTypeOK, CreateEntry, At
  <2> QED
    BY <2>1, CallShape DEF FileInv
<1>2. PICK n \in Names, s \in Sectors, length \in Sizes, start \in Sectors :
        n = op.name /\ s = op.sector /\ length = op.length /\ start = op.start
  BY <1>1
<1>3. PICK free \in Slots :
        /\ diskDir[free] = Null
        /\ diskDir' = [diskDir EXCEPT ![free] = [name |-> n, inode_sector |-> s]]
  <2>1. FreeEntries \in SUBSET Nat /\ FreeEntries # {}
    BY DEF FreeEntries, CreateEntry
  <2>2. \E e \in FreeEntries : \A f \in FreeEntries : e <= f
    BY <2>1, LeastNumber
  <2>3. (CHOOSE e \in FreeEntries : \A f \in FreeEntries : e <= f) \in FreeEntries
    BY <2>2
  <2> QED
    BY <1>2, <2>3 DEF CreateEntry, FreeEntries
<1>4. /\ Entries(n) = {} /\ diskInode[s] = [start |-> start, length |-> length]
      /\ \A x \in Span(start, length) : diskData[x] = 0
      /\ UNCHANGED <<open_inodes, diskInode, diskData>>
  BY <1>1, <1>2 DEF CreateEntry, NamesApart, memory
<1> DEFINE entry == [name |-> n, inode_sector |-> s]
<1>5. /\ entry \in DirEntry /\ entry # Null /\ entry.name = n /\ entry.inode_sector = s
      /\ \A e \in Slots : diskDir'[e] = IF e = free THEN entry ELSE diskDir[e]
  <2>1. entry \in DirEntry
    BY DEF DirEntry
  <2> QED
    BY <1>1, <1>3, <2>1 DEF FileTypeOK
<1> HIDE DEF entry
<1>6. Files' = Files \cup {s}
  <2>1. ASSUME NEW x \in Files' PROVE x \in Files \cup {s}
    <3>1. PICK e \in Slots : diskDir'[e] # Null /\ x = diskDir'[e].inode_sector
      BY DEF Files
    <3>2. CASE e = free
      BY <1>5, <3>1, <3>2
    <3>3. CASE e # free
      BY <1>5, <3>1, <3>3 DEF Files
    <3> QED
      BY <3>2, <3>3
  <2>2. s \in Files'
    <3>1. diskDir'[free] = entry
      BY <1>5
    <3> QED
      BY <1>5, <3>1 DEF Files
  <2>3. ASSUME NEW x \in Files PROVE x \in Files'
    <3>1. PICK e \in Slots : diskDir[e] # Null /\ x = diskDir[e].inode_sector
      BY DEF Files
    <3>2. e # free /\ diskDir'[e] = diskDir[e]
      BY <1>3, <1>5, <3>1
    <3> QED
      BY <3>1, <3>2 DEF Files
  <2> QED
    BY <2>1, <2>2, <2>3
<1>7. ~Exists(s)
  <2>1. s \in CallOwns /\ s \in Mine(s)
    BY <1>1, <1>2 DEF CallOwns, Mine, Extent
  <2> QED
    BY <1>1, <2>1 DEF OwnersApart
<1>8. NameOf' = [NameOf EXCEPT ![n] = s]
  <2>1. Entries(n)' = {free}
    BY <1>3, <1>4, <1>5 DEF Entries
  <2>2. (CHOOSE x \in {free} : TRUE) = free
    OBVIOUS
  <2>3. NameOf'[n] = s
    BY <1>5, <2>1, <2>2 DEF NameOf
  <2>4. ASSUME NEW m \in Names, m # n PROVE NameOf'[m] = NameOf[m]
    <3>1. Entries(m)' = Entries(m)
      BY <1>3, <1>5, <2>4 DEF Entries
    <3>2. CASE Entries(m) = {}
      BY <3>1, <3>2 DEF NameOf
    <3>3. CASE Entries(m) # {}
      <4>1. (CHOOSE e \in Entries(m) : TRUE) \in Entries(m)
        BY <3>3
      <4>2. PICK e \in Slots : e = (CHOOSE x \in Entries(m) : TRUE) /\ diskDir[e] # Null
        BY <4>1 DEF Entries
      <4>3. diskDir'[e] = diskDir[e]
        BY <1>3, <1>5, <4>2
      <4>4. NameOf[m] = diskDir[e].inode_sector
        BY <3>3, <4>2 DEF NameOf
      <4>5. NameOf'[m] = diskDir'[e].inode_sector
        BY <3>1, <3>3, <4>2 DEF NameOf
      <4> QED
        BY <4>3, <4>4, <4>5
    <3> QED
      BY <3>2, <3>3
  <2> QED
    BY <2>3, <2>4, NamingIs
<1>9. \A r \in Sectors \ {s} : BodyOf'[r] = BodyOf[r]
  <2> SUFFICES ASSUME NEW r \in Sectors, r # s PROVE BodyOf'[r] = BodyOf[r]
    OBVIOUS
  <2>1. (Exists(r))' = Exists(r) /\ (InodeOf(r))' = InodeOf(r) /\ diskData' = diskData
    BY <1>4, <1>6 DEF Exists, InodeOf
  <2> QED
    BY <2>1, BodySame
<1>10. BodyOf[s] = Null /\ BodyOf'[s] = [k \in 1..length |-> 0]
  <2>1. (Exists(s))' /\ (InodeOf(s))' = [start |-> start, length |-> length]
    BY <1>4, <1>6, <1>7 DEF Exists, InodeOf
  <2>2. BodyOf'[s] = [k \in 1..length |-> diskData[start + k - 1]]
    BY <1>4, <2>1 DEF BodyOf
  <2>3. \A k \in 1..length : diskData[start + k - 1] = 0
    <3>1. start \in Nat /\ length \in Nat
      OBVIOUS
    <3>2. \A k \in 1..length : start + k - 1 \in Span(start, length)
      BY <3>1 DEF Span
    <3> QED
      BY <1>4, <3>2
  <2> QED
    BY <1>7, <2>2, <2>3 DEF BodyOf
<1>11. BodyOf' = [BodyOf EXCEPT ![s] = [k \in 1..length |-> 0]]
  BY <1>9, <1>10, BodiesAre
<1>12. HeldOnes' = HeldOnes
  BY <1>4 DEF HeldOnes
<1>13. NameOf[n] = Null
  BY <1>4 DEF NameOf
<1>14. Store!Create(n, s)
  BY <1>8, <1>10, <1>11, <1>12, <1>13 DEF Store!Create, NameOf, BodyOf, HeldOnes
<1> QED
  BY <1>14 DEF Store!Next, StoreStep

\* dir_remove is the store's Remove.
LEMMA EntryIsRemove ==
  ASSUME FileInv, NEW p \in Procs, RemoveEntry(p)
  PROVE  StoreStep
<1>0. FileTypeOK /\ NamesApart
  BY DEF FileInv
<1>1. PICK n \in Names, e \in Slots :
        /\ diskDir[e] # Null /\ diskDir[e].name = n /\ diskDir' = [diskDir EXCEPT ![e] = Null]
        /\ open_inodes' = [open_inodes EXCEPT ![diskDir[e].inode_sector] =
                             [OpenedInode(diskDir[e].inode_sector) EXCEPT !.removed = TRUE]]
  BY DEF RemoveEntry, Entries
<1>2. PICK s \in Sectors : s = diskDir[e].inode_sector
  BY <1>0, <1>1 DEF FileTypeOK, DirEntry
<1> DEFINE opened == [OpenedInode(s) EXCEPT !.removed = TRUE]
<1>3. open_inodes' = [open_inodes EXCEPT ![s] = opened]
  BY <1>1, <1>2
<1>4. UNCHANGED <<diskInode, diskData>>
  BY DEF RemoveEntry
<1>5. s \in Files
  BY <1>1, <1>2 DEF Files
<1>6. /\ opened \in Inode /\ opened # Null
      /\ opened.start = InodeOf(s).start /\ opened.length = InodeOf(s).length
  <2>1. /\ OpenedInode(s) \in Inode
        /\ OpenedInode(s).start = InodeOf(s).start
        /\ OpenedInode(s).length = InodeOf(s).length
    BY <1>5, OpenedIs
  <2>2. /\ opened \in Inode /\ opened.start = OpenedInode(s).start
        /\ opened.length = OpenedInode(s).length
    BY <2>1 DEF Inode
  <2> QED
    BY <2>1, <2>2
<1> HIDE DEF opened
<1>7. \A r \in Sectors : open_inodes'[r] = IF r = s THEN opened ELSE open_inodes[r]
  BY <1>0, <1>3 DEF FileTypeOK
<1>8. \A x \in Slots : diskDir'[x] = IF x = e THEN Null ELSE diskDir[x]
  BY <1>0, <1>1 DEF FileTypeOK
<1>9. Files' = Files \ {s}
  <2>1. \A x \in Slots : diskDir[x] # Null /\ x # e => diskDir[x].inode_sector # s
    BY <1>0, <1>1, <1>2 DEF NamesApart
  <2> QED
    BY <1>2, <1>8, <2>1 DEF Files
<1>10. Entries(n) = {e} /\ NameOf[n] = s
  BY <1>1, <1>2, NamesAre
<1>11. NameOf' = [NameOf EXCEPT ![n] = Null]
  <2>1. Entries(n)' = {}
    BY <1>8, <1>10 DEF Entries
  <2>2. NameOf'[n] = Null
    BY <2>1 DEF NameOf
  <2>3. ASSUME NEW m \in Names, m # n PROVE NameOf'[m] = NameOf[m]
    <3>1. Entries(m)' = Entries(m) /\ \A x \in Entries(m) : diskDir'[x] = diskDir[x]
      BY <1>1, <1>8, <2>3 DEF Entries
    <3>2. CASE Entries(m) = {}
      BY <3>1, <3>2 DEF NameOf
    <3>3. CASE Entries(m) # {}
      <4>1. PICK x \in Entries(m) : x = (CHOOSE y \in Entries(m) : TRUE)
        BY <3>3
      <4>2. NameOf[m] = diskDir[x].inode_sector /\ NameOf'[m] = diskDir'[x].inode_sector
        BY <3>1, <3>3, <4>1 DEF NameOf
      <4> QED
        BY <3>1, <4>2
    <3> QED
      BY <3>2, <3>3
  <2> QED
    BY <2>2, <2>3 DEF NameOf
<1>12. ASSUME NEW r \in Sectors PROVE BodyOf'[r] = BodyOf[r]
  <2>1. CASE r = s
    <3>1. (Exists(s))' /\ Exists(s) /\ (InodeOf(s))' = opened
      BY <1>5, <1>6, <1>7 DEF Exists, InodeOf
    <3> QED
      BY <1>4, <1>6, <2>1, <3>1, BodySame
  <2>2. CASE r # s
    <3>1. (Exists(r))' = Exists(r) /\ (InodeOf(r))' = InodeOf(r)
      BY <1>4, <1>7, <1>9, <2>2 DEF Exists, InodeOf
    <3> QED
      BY <1>4, <3>1, BodySame
  <2> QED
    BY <2>1, <2>2
<1>13. BodyOf' = BodyOf
  BY <1>12, BodiesAre
<1>14. HeldOnes' = HeldOnes \cup {s}
  BY <1>6, <1>7 DEF HeldOnes
<1>15. Store!Remove(n)
  BY <1>10, <1>11, <1>13, <1>14 DEF Store!Remove, NameOf, BodyOf, HeldOnes
<1> QED
  BY <1>15 DEF Store!Next, StoreStep

\* Opening is the store's Open, whoever does it.
LEMMA OpenedIsOpen ==
  ASSUME FileInv, NEW s \in Files, NEW deny, OpenByName(s, deny),
         UNCHANGED <<diskDir, diskInode, diskData>>
  PROVE  StoreStep
<1>0. FileTypeOK /\ s \in Sectors
  BY DEF FileInv, FileTypeOK, Files, DirEntry
<1> DEFINE opened == [OpenedInode(s) EXCEPT !.deny_write_cnt = IF deny THEN @ + 1 ELSE @]
<1>1. open_inodes' = [open_inodes EXCEPT ![s] = opened]
  BY DEF OpenByName
<1>2. /\ OpenedInode(s) \in Inode
      /\ OpenedInode(s).deny_write_cnt = Cardinality(Denying(s))
      /\ OpenedInode(s).start = InodeOf(s).start
      /\ OpenedInode(s).length = InodeOf(s).length
  BY <1>0, OpenedIs
<1>3. /\ opened \in Inode /\ opened # Null
      /\ opened.start = InodeOf(s).start /\ opened.length = InodeOf(s).length
  <2>1. (IF deny THEN OpenedInode(s).deny_write_cnt + 1 ELSE OpenedInode(s).deny_write_cnt)
          \in Nat
    BY <1>2 DEF Inode
  <2> QED
    BY <1>2, <2>1 DEF Inode
<1> HIDE DEF opened
<1>4. \A r \in Sectors : open_inodes'[r] = IF r = s THEN opened ELSE open_inodes[r]
  BY <1>0, <1>1 DEF FileTypeOK
<1>5. Files' = Files /\ NameOf' = NameOf
  BY DEF Files, NameOf, Entries
<1>6. ASSUME NEW r \in Sectors PROVE BodyOf'[r] = BodyOf[r]
  <2>1. CASE r = s
    <3>1. (Exists(s))' /\ Exists(s) /\ (InodeOf(s))' = opened
      BY <1>0, <1>3, <1>4 DEF Exists, InodeOf
    <3> QED
      BY <1>3, <2>1, <3>1, BodySame
  <2>2. CASE r # s
    <3>1. (Exists(r))' = Exists(r) /\ (InodeOf(r))' = InodeOf(r)
      BY <1>4, <1>5, <2>2 DEF Exists, InodeOf
    <3> QED
      BY <3>1, BodySame
  <2> QED
    BY <2>1, <2>2
<1>7. BodyOf' = BodyOf
  BY <1>6, BodiesAre
<1>8. HeldOnes' = HeldOnes \cup {s}
  BY <1>0, <1>3, <1>4 DEF HeldOnes
<1>9. \E n \in Names : NameOf[n] = s
  BY <1>0, NamesAre
<1>10. Store!Open(s)
  BY <1>5, <1>7, <1>8, <1>9 DEF Store!Open, Store!IsNamed, NameOf, BodyOf, HeldOnes
<1> QED
  BY <1>0, <1>10 DEF Store!Next, StoreStep

\* inode_close is the store's Close if it is the last one, and nothing otherwise.
LEMMA CloseIsClose ==
  ASSUME FileInv, NEW s \in Sectors, NEW i, NEW next, InodeClose(s, i, next),
         open_inodes[s] # Null, i.start = open_inodes[s].start,
         i.length = open_inodes[s].length, i.open_cnt \in Nat,
         i \in Inode, UNCHANGED <<diskDir, diskInode, diskData>>
  PROVE  StoreStep
<1>0. FileTypeOK /\ NamesApart
  BY DEF FileInv
<1>1. Files' = Files /\ NameOf' = NameOf
  BY DEF Files, NameOf, Entries
<1> DEFINE rest == [i EXCEPT !.open_cnt = @ - 1]
<1>2. CASE i.open_cnt > 1
  <2>1. open_inodes' = [open_inodes EXCEPT ![s] = rest]
    BY <1>2 DEF InodeClose
  <2>2. rest \in Inode /\ rest # Null /\ rest.start = i.start /\ rest.length = i.length
    <3>1. i.open_cnt - 1 \in Nat
      BY <1>2
    <3> QED
      BY <3>1 DEF Inode
  <2> HIDE DEF rest
  <2>3. \A r \in Sectors : open_inodes'[r] = IF r = s THEN rest ELSE open_inodes[r]
    BY <1>0, <2>1 DEF FileTypeOK
  <2>4. ASSUME NEW r \in Sectors PROVE BodyOf'[r] = BodyOf[r]
    <3>1. CASE r = s
      <4>1. /\ (Exists(s))' /\ Exists(s) /\ (InodeOf(s))' = rest
            /\ InodeOf(s) = open_inodes[s]
        BY <2>2, <2>3 DEF Exists, InodeOf
      <4> QED
        BY <2>2, <3>1, <4>1, BodySame
    <3>2. CASE r # s
      <4>1. (Exists(r))' = Exists(r) /\ (InodeOf(r))' = InodeOf(r)
        BY <1>1, <2>3, <3>2 DEF Exists, InodeOf
      <4> QED
        BY <4>1, BodySame
    <3> QED
      BY <3>1, <3>2
  <2>5. BodyOf' = BodyOf /\ HeldOnes' = HeldOnes
    BY <2>2, <2>3, <2>4, BodiesAre DEF HeldOnes
  <2> QED
    BY <1>1, <2>5 DEF StoreStep
<1>3. CASE ~(i.open_cnt > 1)
  <2>1. open_inodes' = [open_inodes EXCEPT ![s] = Null]
    BY <1>3 DEF InodeClose
  <2>2. \A r \in Sectors : open_inodes'[r] = IF r = s THEN Null ELSE open_inodes[r]
    BY <1>0, <2>1 DEF FileTypeOK
  <2>3. ASSUME NEW r \in Sectors, r # s PROVE BodyOf'[r] = BodyOf[r]
    <3>1. (Exists(r))' = Exists(r) /\ (InodeOf(r))' = InodeOf(r)
      BY <1>1, <2>2, <2>3 DEF Exists, InodeOf
    <3> QED
      BY <3>1, BodySame
  <2>4. s \in Files => BodyOf'[s] = BodyOf[s]
    <3> SUFFICES ASSUME s \in Files PROVE BodyOf'[s] = BodyOf[s]
      OBVIOUS
    <3>1. /\ (Exists(s))' /\ Exists(s) /\ (InodeOf(s))' = diskInode[s]
          /\ InodeOf(s) = open_inodes[s]
      BY <1>1, <2>2 DEF Exists, InodeOf
    <3>2. open_inodes[s].start = diskInode[s].start /\ open_inodes[s].length = diskInode[s].length
      BY <1>0 DEF NamesApart
    <3> QED
      BY <3>1, <3>2, BodySame
  <2>5. s \notin Files => BodyOf'[s] = Null
    BY <1>1, <2>2 DEF Exists, BodyOf
  <2>6. BodyOf' = IF \E n \in Names : NameOf[n] = s THEN BodyOf
                                                     ELSE [BodyOf EXCEPT ![s] = Null]
    <3>1. (\E n \in Names : NameOf[n] = s) <=> s \in Files
      BY NamesAre
    <3>2. CASE s \in Files
      BY <2>3, <2>4, <3>1, <3>2, BodiesAre
    <3>3. CASE s \notin Files
      BY <2>3, <2>5, <3>1, <3>3, BodiesAre
    <3> QED
      BY <3>2, <3>3
  <2>7. s \in HeldOnes /\ HeldOnes' = HeldOnes \ {s}
    BY <2>2 DEF HeldOnes
  <2>8. Store!Close(s)
    BY <1>1, <2>6, <2>7 DEF Store!Close, Store!IsNamed, NameOf, BodyOf, HeldOnes
  <2> QED
    BY <2>8 DEF Store!Next, StoreStep
<1> QED
  BY <1>2, <1>3

\* file_close, of a file that somebody has.
LEMMA FileCloseIsClose ==
  ASSUME FileInv, NEW p \in Procs, NEW d \in 0..MaxFd, FileAt(p, d) # Null, NEW next,
         FileClose(FileAt(p, d), next), UNCHANGED <<diskDir, diskInode, diskData>>
  PROVE  StoreStep
<1>1. PICK s \in Sectors : s = FileAt(p, d).inode
  BY HandleOpen
<1>2. /\ open_inodes[s] \in Inode /\ open_inodes[s] # Null
      /\ FileAt(p, d).deny_write => open_inodes[s].deny_write_cnt > 0
  BY <1>1, HandleOpen
<1> DEFINE i == AllowWrite(FileAt(p, d), open_inodes[s])
<1>3. /\ i \in Inode /\ i.start = open_inodes[s].start /\ i.length = open_inodes[s].length
      /\ i.open_cnt \in Nat
  <2>1. FileAt(p, d).deny_write => open_inodes[s].deny_write_cnt - 1 \in Nat
    BY <1>2 DEF Inode
  <2> QED
    BY <1>2, <2>1 DEF AllowWrite, Inode
<1>4. InodeClose(s, i, next)
  BY <1>1 DEF FileClose
<1> HIDE DEF i
<1> QED
  BY <1>2, <1>3, <1>4, CloseIsClose

\* A write to a sector is the store's Write: no other file has that sector.
LEMMA SectorIsWrite ==
  ASSUME FileInv, WriteSector
  PROVE  StoreStep
<1>1. PICK s \in Sectors, k \in Nat :
        /\ open_inodes[s] # Null /\ k < open_inodes[s].length
        /\ open_inodes[s].start + k \in Mine(s)
        /\ diskData' = [diskData EXCEPT ![open_inodes[s].start + k] = op.value]
        /\ op.value \in Values
  BY WrittenIs
<1>2. PICK v \in Values : v = op.value
  BY <1>1
<1>3. FileTypeOK /\ OwnersApart
  BY DEF FileInv
<1>4. UNCHANGED <<diskDir, diskInode, open_inodes>>
  BY DEF WriteSector, memory
<1>5. NameOf' = NameOf /\ HeldOnes' = HeldOnes /\ s \in HeldOnes
  BY <1>1, <1>4 DEF NameOf, Entries, HeldOnes
<1>6. \A r \in Sectors : (Exists(r))' = Exists(r) /\ (InodeOf(r))' = InodeOf(r)
  BY <1>4 DEF Exists, Files, InodeOf
<1>7. Exists(s) /\ InodeOf(s) = open_inodes[s]
  BY <1>1 DEF Exists, InodeOf
<1>8. open_inodes[s].start \in Nat /\ open_inodes[s].length \in Nat
  BY <1>7, InodeTyped
<1>9. open_inodes[s].start + k \in Sectors
  BY <1>1, <1>3, <1>7 DEF OwnersApart, MapsOK
<1>10. ASSUME NEW r \in Sectors, r # s PROVE BodyOf'[r] = BodyOf[r]
  <2>1. ASSUME Exists(r), NEW x \in Span(InodeOf(r).start, InodeOf(r).length)
        PROVE  diskData'[x] = diskData[x]
    <3>1. x \in Mine(r)
      BY DEF Mine, Extent
    <3>2. x # open_inodes[s].start + k
      BY <1>1, <1>3, <1>7, <1>10, <2>1, <3>1 DEF OwnersApart
    <3> QED
      BY <1>1, <1>3, <3>2 DEF FileTypeOK
  <2> QED
    BY <1>6, <2>1, BodySame
<1> DEFINE n == open_inodes[s].length
           a == open_inodes[s].start
<1>11. BodyOf[s] = [j \in 1..n |-> diskData[a + j - 1]]
  BY <1>7 DEF BodyOf
<1>12. BodyOf'[s] = [j \in 1..n |-> diskData'[a + j - 1]]
  BY <1>6, <1>7 DEF BodyOf
<1> HIDE DEF n, a
<1>13. k + 1 \in 1..n
  BY <1>1, <1>8 DEF n
<1>14. \A j \in 1..n : diskData'[a + j - 1] = IF j = k + 1 THEN v ELSE diskData[a + j - 1]
  <2> SUFFICES ASSUME NEW j \in 1..n
               PROVE  diskData'[a + j - 1] = IF j = k + 1 THEN v ELSE diskData[a + j - 1]
    OBVIOUS
  <2>1. a \in Nat /\ (a + j - 1 = a + k <=> j = k + 1)
    BY <1>8 DEF a, n
  <2>2. diskData' = [diskData EXCEPT ![a + k] = v] /\ a + k \in DOMAIN diskData
    BY <1>1, <1>2, <1>3, <1>9 DEF a, FileTypeOK
  <2> QED
    BY <2>1, <2>2
<1>15. BodyOf'[s] = [BodyOf[s] EXCEPT ![k + 1] = v]
  <2>1. \A j \in 1..n : BodyOf'[s][j] = IF j = k + 1 THEN v ELSE BodyOf[s][j]
    BY <1>11, <1>12, <1>14
  <2>2. BodyOf[s] = [j \in 1..n |-> BodyOf[s][j]]
    BY <1>11
  <2>3. BodyOf'[s] = [j \in 1..n |-> BodyOf'[s][j]]
    BY <1>12
  <2>4. DOMAIN BodyOf[s] = 1..n
    BY <1>11
  <2> QED
    BY <2>1, <2>2, <2>3, <2>4
<1>16. BodyOf' = [BodyOf EXCEPT ![s][k + 1] = v]
  BY <1>10, <1>15, BodiesAre
<1>17. k + 1 \in DOMAIN BodyOf[s]
  BY <1>11, <1>13
<1>18. Store!Write(s)
  BY <1>5, <1>16, <1>17 DEF Store!Write, NameOf, BodyOf, HeldOnes
<1> QED
  BY <1>18 DEF Store!Next, StoreStep

\* The files that have a name survive a restart, and only those.
LEMMA RestartIsRestart ==
  ASSUME FileInv, Restart
  PROVE  StoreStep
<1>1. FileTypeOK /\ OwnersApart /\ NamesApart
  BY DEF FileInv
<1>2. diskDir' = diskDir /\ open_inodes' = [s \in Sectors |-> Null]
  BY DEF Restart
<1>3. NameOf' = NameOf /\ Files' = Files /\ HeldOnes' = {}
  BY <1>2 DEF NameOf, Entries, Files, HeldOnes
<1>4. ASSUME NEW s \in Sectors, s \in Files PROVE BodyOf'[s] = BodyOf[s]
  <2>1. Exists(s) /\ (Exists(s))' /\ (InodeOf(s))' = diskInode'[s]
    BY <1>2, <1>3, <1>4 DEF Exists, InodeOf
  <2>2. diskInode'[s] = diskInode[s]
    <3>1. s \in Extent(s, diskInode[s])
      BY DEF Extent
    <3> QED
      BY <1>4, <3>1 DEF Restart, Forget
  <2>3. diskInode[s].start = InodeOf(s).start /\ diskInode[s].length = InodeOf(s).length
    BY <1>1, <1>4 DEF NamesApart, InodeOf
  <2>4. ASSUME NEW x \in Span(InodeOf(s).start, InodeOf(s).length)
        PROVE  diskData'[x] = diskData[x]
    <3>1. x \in Mine(s) /\ x \in Extent(s, diskInode[s])
      BY <2>3 DEF Mine, Extent
    <3>2. x \in Sectors
      BY <1>1, <2>1, <3>1 DEF OwnersApart, MapsOK
    <3> QED
      BY <1>4, <3>1, <3>2 DEF Restart, Forget
  <2> QED
    BY <2>1, <2>2, <2>3, <2>4, BodySame
<1>5. ASSUME NEW s \in Sectors, s \notin Files PROVE BodyOf'[s] = Null
  BY <1>2, <1>3, <1>5 DEF BodyOf, Exists
<1>6. \A s \in Sectors : (\E n \in Names : NameOf[n] = s) <=> s \in Files
  BY NamesAre
<1>7. BodyOf' = [s \in Sectors |-> IF \E n \in Names : NameOf[n] = s THEN BodyOf[s] ELSE Null]
  BY <1>4, <1>5, <1>6, BodiesAre
<1>8. Store!Restart
  BY <1>3, <1>7 DEF Store!Restart, Store!IsNamed, NameOf, BodyOf, HeldOnes
<1> QED
  BY <1>8 DEF Store!Next, StoreStep

\* Every step of the file system is one of the store, or none.
LEMMA StoreSteps ==
  ASSUME FileInv, [FileSystemNext]_vars
  PROVE  StoreStep
<1>0. FileTypeOK
  BY DEF FileInv
<1>1. ASSUME NEW p \in Procs, Close(p) PROVE StoreStep
  <2>1. PICK d \in OpenFds(p) : FileClose(fdTable[p][d], Idle)
    BY <1>1 DEF Close
  <2>2. d \in 1..Len(fdTable[p]) /\ fdTable[p][d] # Null
    BY DEF OpenFds
  <2>3. d \in 0..MaxFd /\ FileAt(p, d) = fdTable[p][d]
    <3>1. fdTable[p] \in Seq(OpenFile \cup {Null}) /\ Len(fdTable[p]) <= MaxFd
      BY <1>0 DEF FileTypeOK
    <3> QED
      BY <2>2, <3>1, Constants DEF FileAt
  <2> DEFINE next == Idle
  <2>4. FileClose(FileAt(p, d), next) /\ FileAt(p, d) # Null
    BY <2>1, <2>2, <2>3
  <2>5. UNCHANGED <<diskDir, diskInode, diskData>>
    BY <1>1 DEF Close, disk
  <2> HIDE DEF next
  <2> QED
    BY <2>3, <2>4, <2>5, FileCloseIsClose
<1>2. CASE RemoveClose
  <2>1. PICK s \in Sectors : s = op.sector
    BY <1>0, <1>2, CallShape DEF FileInv, FileTypeOK, RemoveClose, At
  <2>2. Removing(s) = 1
    BY <1>2, <2>1 DEF Removing, RemoveClose
  <2>3. PICK i \in Inode : i = open_inodes[s] /\ i # Null
    BY <1>0, <2>2 DEF FileInv, AllCounted, Counted, FileTypeOK
  <2> DEFINE next == Idle
  <2>4. InodeClose(s, i, next)
    BY <1>2, <2>1, <2>3 DEF RemoveClose
  <2>5. UNCHANGED <<diskDir, diskInode, diskData>>
    BY <1>2 DEF RemoveClose, disk
  <2>6. i.open_cnt \in Nat
    BY DEF Inode
  <2> HIDE DEF next
  <2> QED
    BY <2>3, <2>4, <2>5, <2>6, CloseIsClose
<1>3. CASE ExitClose
  <2>1. PICK p \in Procs : p = op.proc
    BY <1>0, <1>3, CallShape DEF FileInv, FileTypeOK, ExitClose, At
  <2>2. PICK d : d = Len(fdTable[p])
    OBVIOUS
  <2>3. UNCHANGED <<diskDir, diskInode, diskData>>
    BY <1>3 DEF ExitClose, disk
  <2>4. CASE fdTable[p][d] = Null
    <3>1. UNCHANGED open_inodes
      BY <1>3, <2>1, <2>2, <2>4 DEF ExitClose
    <3>2. ~WriteSector /\ ~Restart
      <4>1. op.at = "exit" /\ op' # Idle
        BY <1>3, <2>1, <2>2, <2>4 DEF ExitClose, At, Idle
      <4> QED
        BY <4>1 DEF WriteSector, Restart, At
    <3> QED
      BY <2>3, <3>1, <3>2, StoreSame DEF StoreStep
  <2>5. CASE fdTable[p][d] # Null
    <3>1. d \in 1..Len(fdTable[p]) /\ d \in 0..MaxFd
      <4>1. /\ fdTable[p] \in Seq(OpenFile \cup {Null}) /\ Len(fdTable[p]) <= MaxFd
            /\ fdTable[p] # <<>>
        BY <1>0, <1>3, <2>1 DEF FileTypeOK, ExitClose
      <4>2. Len(fdTable[p]) \in Nat /\ Len(fdTable[p]) # 0
        BY <4>1, EmptySeq
      <4> QED
        BY <2>2, <4>1, <4>2, Constants
    <3>2. FileAt(p, d) = fdTable[p][d]
      BY <3>1 DEF FileAt
    <3>3. PICK next : next = op
      OBVIOUS
    <3>4. FileClose(FileAt(p, d), next)
      BY <1>3, <2>1, <2>2, <2>5, <3>2, <3>3 DEF ExitClose
    <3> QED
      BY <2>3, <2>5, <3>1, <3>2, <3>4, FileCloseIsClose
  <2> QED
    BY <2>4, <2>5
<1>4. CASE ExitThread
  <2>1. PICK p \in Procs : p = op.proc
    BY <1>0, <1>4, CallShape DEF FileInv, FileTypeOK, ExitThread, At
  <2>2. UNCHANGED <<diskDir, diskInode, diskData>>
    BY <1>4 DEF ExitThread, disk
  <2>3. CASE curFile[p] = Null
    <3>1. UNCHANGED open_inodes
      BY <1>4, <2>1, <2>3 DEF ExitThread
    <3>2. NameOf' = NameOf /\ HeldOnes' = HeldOnes
      BY <2>2, <3>1 DEF NameOf, Entries, HeldOnes
    <3>3. \A s \in Sectors : (Exists(s))' = Exists(s) /\ (InodeOf(s))' = InodeOf(s)
      BY <2>2, <3>1 DEF Exists, Files, InodeOf
    <3>4. \A s \in Sectors : BodyOf'[s] = BodyOf[s]
      BY <2>2, <3>3, BodySame
    <3> QED
      BY <3>2, <3>4, BodiesAre DEF StoreStep
  <2>4. CASE curFile[p] # Null
    <3> DEFINE d == 0
               next == Idle
    <3>1. d \in 0..MaxFd /\ FileAt(p, d) = curFile[p]
      BY Constants DEF FileAt
    <3>2. FileClose(FileAt(p, d), next)
      BY <1>4, <2>1, <2>4, <3>1 DEF ExitThread
    <3> HIDE DEF d, next
    <3> QED
      BY <2>2, <2>4, <3>1, <3>2, FileCloseIsClose
  <2> QED
    BY <2>3, <2>4
<1>5. ASSUME NEW p \in Procs, Open(p) \/ Load(p) \/ LoadFails(p) PROVE StoreStep
  <2>1. PICK s \in Files, deny \in BOOLEAN : OpenByName(s, deny)
    BY <1>5 DEF Open, Load, LoadFails
  <2>2. UNCHANGED <<diskDir, diskInode, diskData>>
    BY <1>5 DEF Open, Load, LoadFails, disk
  <2> QED
    BY <2>1, <2>2, OpenedIsOpen
<1>6. ASSUME NEW p \in Procs, RemoveEntry(p) PROVE StoreStep
  BY <1>6, EntryIsRemove
<1>7. CASE CreateEntry
  BY <1>7, EntryIsCreate
<1>8. CASE WriteSector
  BY <1>8, SectorIsWrite
<1>9. CASE Restart
  BY <1>9, RestartIsRestart
<1>10. CASE UNCHANGED <<diskDir, open_inodes>> /\ ~WriteSector /\ ~Restart
  BY <1>10, StoreSame DEF StoreStep
<1>11. \/ UNCHANGED <<diskDir, open_inodes>>
       \/ CreateEntry \/ RemoveClose \/ ExitClose \/ ExitThread \/ Restart
       \/ \E p \in Procs : \/ Close(p) \/ Open(p) \/ Load(p) \/ LoadFails(p)
                           \/ RemoveEntry(p)
  <2>1. ASSUME NEW p \in Procs,
               syscall_handler(p) \/ Load(p) \/ LoadFails(p) \/ FsutilActions(p) \/ Kill(p)
        PROVE  \/ UNCHANGED <<diskDir, open_inodes>>
               \/ Close(p) \/ Open(p) \/ Load(p) \/ LoadFails(p) \/ RemoveEntry(p)
    BY <2>1 DEF syscall_handler, FsutilActions, Kill, CreateAllocInode, Seek, Read, Write,
         Exit, disk, memory
  <2>2. CASE CreateAllocData \/ CreateNoData \/ CreateWriteInode \/ CreateZeros
             \/ CreateNoEntry \/ CreateRelease
    BY <2>2, SMTT(30) DEF CreateAllocData, CreateNoData, CreateWriteInode, CreateZeros, CreateNoEntry,
         CreateRelease, disk, memory
  <2>3. CASE ReleaseInode \/ ReleaseData \/ WriteSector \/ WriteDone \/ Fault
    BY <2>3 DEF ReleaseInode, ReleaseData, WriteSector, WriteDone, Fault, disk, memory
  <2>4. CASE UNCHANGED vars
    BY <2>4 DEF vars, disk, memory
  <2> QED
    BY <2>1, <2>2, <2>3, <2>4 DEF FileSystemNext
<1> QED
  BY <1>1, <1>2, <1>3, <1>4, <1>5, <1>6, <1>7, <1>8, <1>9, <1>10, <1>11

\* The calls of one program never reach another file's data, a removed file lives on
\* for those who have it open, and a restart loses no named file (inode_write_at,
\* inode_close, filesys_create, filesys_remove, filesys_init).
THEOREM FilesRefine == FileSystemSpec => ImplementsFileStore
<1>1. FileSystemInit => Store!Init
  <2> SUFFICES ASSUME FileSystemInit PROVE Store!Init
    OBVIOUS
  <2>1. diskDir = [e \in Slots |-> Null] /\ open_inodes = [s \in Sectors |-> Null]
    BY DEF FileSystemInit
  <2>2. \A n \in Names : Entries(n) = {}
    BY <2>1 DEF Entries
  <2>3. \A s \in Sectors : ~Exists(s)
    BY <2>1 DEF Exists, Files
  <2> QED
    BY <2>1, <2>2, <2>3 DEF Store!Init
<1>2. FileInv /\ [FileSystemNext]_vars => [Store!Next]_(Store!vars)
  BY StoreSteps DEF Store!vars, StoreStep, NameOf, BodyOf, HeldOnes
<1> QED
  BY <1>1, <1>2, FileInvariant, PTL DEF FileSystemSpec, ImplementsFileStore, Store!Spec
=============================================================================
