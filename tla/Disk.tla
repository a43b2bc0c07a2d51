-------------------------------- MODULE Disk --------------------------------
(***************************************************************************)
(* One ATA channel and its two disks (devices/ide.c), the block layer and  *)
(* its check of the sector number (devices/block.c) and the partitions the *)
(* boot registers from the disk's table (devices/partition.c).  Threads    *)
(* read and write sectors of partitions.  The disks are external: they     *)
(* take a command, ask for data, and interrupt, and now and then interrupt *)
(* for no reason.                                                          *)
(***************************************************************************)
EXTENDS Integers, Sequences, FiniteSets

CONSTANTS
  DiskThreads,
  Devices,         \* disks of the channel: 0 the master, 1 the slave
  DiskSize,        \* sectors of a disk
  SectorNos,       \* the block_sector_t: 0..SectorNos-1, then it wraps
  Tables,          \* partition tables sector 0 may hold: sequences of entries
  Contents,        \* contents of a sector
  MaxIo,           \* commands before the model stops
  MaxDepth,        \* tables in tables the scan follows before the model stops
  Spurious,        \* interrupts for no reason before the model stops
  NoIo

\* A table entry; an unused one has size or type 0.
PartitionEntry == [type : {"unused", "extended", "filesys", "foreign"},
                   offset : 0..(SectorNos - 1), size : 0..(SectorNos - 1)]

ASSUME DiskAssumption ==
  /\ Tables \subseteq Seq(PartitionEntry)
  /\ Devices \subseteq {0, 1} /\ 0 \in Devices /\ Contents # {}
  /\ DiskSize \in Nat \ {0} /\ SectorNos \in Nat /\ SectorNos >= DiskSize
  /\ MaxIo \in Nat /\ MaxDepth \in Nat /\ Spurious \in Nat
  /\ NoIo \notin DiskThreads

VARIABLES
  table,        \* the partition table in sector 0 of the disk scanned
  scan,         \* the calls of read_partition_table under way, innermost last
  partitions,   \* the partitions registered
  media,        \* the contents of each sector of each disk
  drive,        \* the channel's device: its registers and what it is doing
  irq,          \* an interrupt is pending
  expecting_interrupt,
  completion,   \* the value of the semaphore completion_wait
  chan_lock,
  io,           \* each thread's request, and how far it is
  written,      \* what the last request to write each sector asked for
  ios, strays,  \* commands and interrupts for no reason so far
  disk_panic    \* the kernel has panicked

diskVars == <<table, scan, partitions, media, drive, irq, expecting_interrupt,
              completion, chan_lock, io, written, ios, strays, disk_panic>>

DiskSectors == 0..(DiskSize - 1)
Wrap(n) == n % SectorNos
IoOut == [at |-> "out"]

DiskInit ==
  /\ table \in Tables
  /\ scan = <<[sector |-> 0, primary |-> 0, i |-> 1]>>
  /\ partitions = {}
  /\ media = [d \in Devices |-> [s \in DiskSectors |-> CHOOSE v \in Contents : TRUE]]
  /\ written = media
  /\ drive = [dev |-> 0, sector |-> 0, state |-> "idle"]
  /\ irq = FALSE /\ expecting_interrupt = FALSE /\ completion = 0
  /\ chan_lock = NoIo
  /\ io = [t \in DiskThreads |-> IoOut]
  /\ ios = 0 /\ strays = 0 /\ disk_panic = FALSE

----------------------------------------------------------------------------
\* partition.c, for the partitions of disk 0

scanVars == <<table, media, drive, irq, expecting_interrupt, completion, chan_lock,
              io, written, ios, strays, disk_panic>>
Call == scan[Len(scan)]
Called == [scan EXCEPT ![Len(scan)].i = @ + 1]

\* The call returns: past the end of the device, or after the last entry.
ScanReturns ==
  /\ scan # <<>>
  /\ Call.sector >= DiskSize \/ Call.i > Len(table)
  /\ scan' = SubSeq(scan, 1, Len(scan) - 1)
  /\ UNCHANGED <<partitions, scanVars>>

\* Whatever sector it is called for, the table is read from sector 0.
ScanEntry == table[Call.i]
AtEntry == scan # <<>> /\ Call.sector < DiskSize /\ Call.i <= Len(table)
Unused(e) == e.size = 0 \/ e.type = "unused"

ScanUnused ==
  /\ AtEntry /\ Unused(ScanEntry)
  /\ scan' = Called
  /\ UNCHANGED <<partitions, scanVars>>

\* The call for an extended partition, its sector relative to the first one.
ScanExtended ==
  /\ AtEntry /\ ~Unused(ScanEntry) /\ ScanEntry.type = "extended"
  /\ Len(scan) <= MaxDepth
  /\ scan' = LET e == ScanEntry
                 top == Call.sector = 0
             IN Append(Called,
                       [sector |-> IF top THEN e.offset ELSE Wrap(e.offset + Call.primary),
                        primary |-> IF top THEN e.offset ELSE Call.primary, i |-> 1])
  /\ UNCHANGED <<partitions, scanVars>>

\* Mutant of InDevice: the wrapped end is not looked for.
InDevice_wrapped(start, size) ==
  start < DiskSize /\ Wrap(start + size) <= DiskSize

\* found_partition's checks.
InDevice(start, size) ==
  /\ start < DiskSize
  /\ Wrap(start + size) >= start /\ Wrap(start + size) <= DiskSize
FoundPartition ==
  /\ AtEntry /\ ~Unused(ScanEntry) /\ ScanEntry.type # "extended"
  /\ scan' = Called
  /\ LET e == ScanEntry
         start == Wrap(e.offset + Call.sector)
     IN partitions' = IF InDevice(start, e.size)
                      THEN partitions \cup {[type |-> e.type, start |-> start, size |-> e.size]}
                      ELSE partitions
  /\ UNCHANGED scanVars

----------------------------------------------------------------------------
\* block.c and ide.c

\* What the thread t asks for next: the label it is at, and its locals.
Io(t, r) == io' = [io EXCEPT ![t] = r]
Step(t, label) == Io(t, [io[t] EXCEPT !.at = label])
IsAt(t, label) == ~disk_panic /\ io[t].at = label
\* A request through a partition or to a disk as a whole; block_read and
\* block_write check the sector against the size of the partition and of the disk,
\* and assert that what is written is not foreign.
Request(t) ==
  /\ IsAt(t, "out") /\ scan = <<>> /\ ios < MaxIo
  /\ ios' = ios + 1
  /\ \E b \in {[dev |-> d, type |-> "raw", start |-> 0, size |-> DiskSize] : d \in Devices}
               \cup {[dev |-> 0, type |-> p.type, start |-> p.start, size |-> p.size] :
                       p \in partitions} :
     \E sec_no \in 0..DiskSize, op \in {"read", "write"}, v \in Contents :
       /\ op = "read" => v = CHOOSE u \in Contents : TRUE
       /\ IF \/ sec_no >= b.size \/ b.start + sec_no >= DiskSize
             \/ op = "write" /\ b.type = "foreign"
          THEN disk_panic' = TRUE /\ UNCHANGED io
          ELSE /\ Io(t, [at |-> "lock", op |-> op, dev |-> b.dev, part |-> b,
                         sector |-> b.start + sec_no, value |-> v])
               /\ UNCHANGED disk_panic
  /\ UNCHANGED <<table, scan, partitions, media, drive, irq, expecting_interrupt,
                 completion, chan_lock, written, strays>>

Rest == UNCHANGED <<table, scan, partitions, ios, strays, disk_panic>>

\* Mutant of ChannelLock: the channel's registers are used without its lock.
ChannelLock_none(t) ==
  /\ IsAt(t, "lock") /\ Step(t, "select") /\ Rest
  /\ UNCHANGED <<media, drive, irq, expecting_interrupt, completion, chan_lock, written>>

ChannelLock(t) ==
  /\ IsAt(t, "lock") /\ chan_lock = NoIo
  /\ chan_lock' = t /\ Step(t, "select") /\ Rest
  /\ UNCHANGED <<media, drive, irq, expecting_interrupt, completion, written>>

\* wait_until_idle, whose last reading of the status clears a pending interrupt.
wait_until_idle == drive.state = "idle" /\ irq' = FALSE
\* wait_while_busy: the drive wants to hand over or take data.  (It polls another
\* register, which clears nothing.)
wait_while_busy(state) == drive.state = state

\* select_sector: the drive is selected once it is idle, and its registers are written.
SelectSector(t) ==
  /\ IsAt(t, "select") /\ wait_until_idle
  /\ drive' = [drive EXCEPT !.dev = io[t].dev, !.sector = io[t].sector]
  /\ Step(t, "issue") /\ Rest
  /\ UNCHANGED <<media, expecting_interrupt, completion, chan_lock, written>>

IssuePioCommand(t) ==
  /\ IsAt(t, "issue")
  /\ expecting_interrupt' = TRUE
  /\ drive' = [drive EXCEPT !.state = IF io[t].op = "read" THEN "reading" ELSE "asking"]
  /\ Step(t, IF io[t].op = "read" THEN "down" ELSE "busy") /\ Rest
  /\ UNCHANGED <<media, irq, completion, chan_lock, written>>

\* sema_down (&c->completion_wait): then the reader polls, the writer is done.
Completed(t) ==
  /\ IsAt(t, "down") /\ completion > 0
  /\ completion' = completion - 1
  /\ Step(t, IF io[t].op = "read" THEN "busy" ELSE "done") /\ Rest
  /\ UNCHANGED <<media, drive, irq, expecting_interrupt, chan_lock, written>>

\* wait_while_busy, then the sector is copied from or to the data register.
InputSector(t) ==
  /\ IsAt(t, "busy") /\ io[t].op = "read" /\ wait_while_busy("data_in")
  /\ Io(t, [io[t] EXCEPT !.at = "done", !.value = media[drive.dev][drive.sector]])
  /\ drive' = [drive EXCEPT !.state = "idle"] /\ Rest
  /\ UNCHANGED <<media, irq, expecting_interrupt, completion, chan_lock, written>>

OutputSector(t) ==
  /\ IsAt(t, "busy") /\ io[t].op = "write" /\ wait_while_busy("data_out")
  /\ drive' = [dev |-> drive.dev, sector |-> drive.sector, state |-> "writing",
               data |-> io[t].value]
  /\ written' = [written EXCEPT ![io[t].dev][io[t].sector] = io[t].value]
  /\ Step(t, "down") /\ Rest
  /\ UNCHANGED <<media, irq, expecting_interrupt, completion, chan_lock>>

IoDone(t) ==
  /\ IsAt(t, "done")
  /\ chan_lock' = NoIo /\ Io(t, IoOut) /\ Rest
  /\ UNCHANGED <<media, drive, irq, expecting_interrupt, completion, written>>

\* The disk: it has the data, takes the data, or has written it.
DriveStep ==
  /\ \/ drive.state = "reading" /\ irq' = TRUE /\ UNCHANGED media
        /\ drive' = [drive EXCEPT !.state = "data_in"]
     \/ drive.state = "asking" /\ UNCHANGED <<irq, media>>
        /\ drive' = [drive EXCEPT !.state = "data_out"]
     \/ drive.state = "writing" /\ irq' = TRUE
        /\ media' = [media EXCEPT ![drive.dev][drive.sector] = drive.data]
        /\ drive' = [dev |-> drive.dev, sector |-> drive.sector, state |-> "idle"]
  /\ Rest /\ UNCHANGED <<expecting_interrupt, completion, chan_lock, io, written>>

StrayInterrupt ==
  /\ strays < Spurious /\ ~irq
  /\ strays' = strays + 1 /\ irq' = TRUE
  /\ UNCHANGED <<table, scan, partitions, media, drive, expecting_interrupt, completion,
                 chan_lock, io, written, ios, disk_panic>>

\* interrupt_handler: expecting_interrupt is never reset.
InterruptHandler ==
  /\ irq
  /\ irq' = FALSE
  /\ completion' = IF expecting_interrupt THEN completion + 1 ELSE completion
  /\ Rest /\ UNCHANGED <<media, drive, expecting_interrupt, chan_lock, io, written>>

IoStep(t) ==
  \/ Request(t) \/ ChannelLock(t) \/ SelectSector(t) \/ IssuePioCommand(t)
  \/ Completed(t) \/ InputSector(t) \/ OutputSector(t) \/ IoDone(t)
Scanning == ScanReturns \/ ScanUnused \/ ScanExtended \/ FoundPartition

DiskNext ==
  \/ Scanning \/ DriveStep \/ StrayInterrupt \/ InterruptHandler
  \/ \E t \in DiskThreads : IoStep(t)
DiskSpec == DiskInit /\ [][DiskNext]_diskVars

----------------------------------------------------------------------------
\* Properties

\* A request that is done has got from the disk, or will find on it, what the last
\* request for the sector wrote, and one that waits will be woken: although an
\* interrupt nobody expected leaves the semaphore one ahead, so that a later command
\* goes on before the disk is done, and the next one clears its interrupt unseen
\* (ide.c:352, 375, 439 and 514).
IoExact ==
  \A t \in DiskThreads :
    /\ io[t].at = "done" =>
         IF io[t].op = "read" THEN io[t].value = written[io[t].dev][io[t].sector]
         ELSE media[io[t].dev][io[t].sector] = io[t].value \/ drive.state = "writing"
    /\ io[t].at = "down" => completion > 0 \/ irq \/ drive.state \in {"reading", "writing"}

\* What is registered as a partition lies in the disk, whatever the table says and
\* however its 32-bit sums wrap, so that no request that a partition's own size
\* admits is refused by the disk's (partition.c:139 and 161, block.c:107); and a
\* request reaches no sector outside the partition it was made for.
IoConfined ==
  /\ \A p \in partitions : p.start + p.size <= DiskSize
  /\ \A t \in DiskThreads : io[t].at # "out" =>
       io[t].sector \in io[t].part.start .. (io[t].part.start + io[t].part.size - 1)
=============================================================================
