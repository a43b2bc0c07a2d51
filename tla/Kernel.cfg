SPECIFICATION KernelSpec
CONSTANTS
  t1 = t1  t2 = t2  file1 = file1  file2 = file2
  Procs = {t1, t2}
  Names = {file1, file2}
  Slots = {1, 2}
  LastSector = 7
  Sizes = {1}
  MaxFd = 1
  Values = {0, 1}
  Null = null
  Gone = gone
  MemThreads = {t1, t2}
  PageCnt = 3
  blocks_per_arena = 2
  BigSizes = {1, 2}
  NoLock = nolock
  w1 = w1
  Readers = {t1, t2}
  Writers = {w1}
  INTQ_BUFSIZE = 3
  ShiftKeys = {"left_ctrl", "right_alt"}
  MaxIn = 2
  MaxOut = 4
  NoThread = none
  DiskThreads = {t1, t2}
  Devices = {0, 1}
  DiskSize = 2
  SectorNos = 8
  Tables <- SomeTables
  Contents = {0, 1}
  MaxIo = 3
  MaxDepth = 3
  Spurious = 1
  NoIo = noio
  Users = {t1, t2}
  Kernel = kernel
  KernelPages = {1, 2, 3, 4}
  UserPages = {11, 12, 13, 14}
  Reserved = {{}, {13, 14}}
  InitPageDir = 100
  VPages = 4
  TableSize = 2
  Programs <- SomePrograms
  MaxExecs = 2
SYMMETRY KernelSymmetry
CHECK_DEADLOCK FALSE
INVARIANTS MountSafe InodesCounted PagesOwnedOnce BlocksOwnedOnce NothingStuck BytesInOrder IoExact IoConfined DirectoryAlive SpacesDisjoint
PROPERTIES ProgramsKept ImplementsFileStore
