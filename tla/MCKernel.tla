------------------------------- MODULE MCKernel -------------------------------
\* Five parts of the kernel that share no state in these models: a behaviour is one
\* of one of them, the others stay in their initial states.
EXTENDS FileSystem, Memory, MCTerminal, Disk, AddressSpace

VARIABLE part

KernelInit ==
  /\ part \in {"files", "memory", "terminal", "disk", "spaces"}
  /\ FileSystemInit /\ MemoryInit /\ TerminalInit
  /\ DiskInit /\ (part # "disk" => table = CHOOSE t \in Tables : TRUE)
  /\ SpaceInit /\ (part # "spaces" => free_pages = KernelPages \cup UserPages)
KernelNext ==
  /\ UNCHANGED part
  /\ \/ part = "files" /\ FileSystemNext
        /\ UNCHANGED <<memVars, terminalVars, diskVars, spaceVars>>
     \/ part = "memory" /\ MemoryNext
        /\ UNCHANGED <<vars, terminalVars, diskVars, spaceVars>>
     \/ part = "terminal" /\ TerminalNext
        /\ UNCHANGED <<vars, memVars, diskVars, spaceVars>>
     \/ part = "disk" /\ DiskNext
        /\ UNCHANGED <<vars, memVars, terminalVars, spaceVars>>
     \/ part = "spaces" /\ SpaceNext
        /\ UNCHANGED <<vars, memVars, terminalVars, diskVars>>
KernelSpec ==
  KernelInit /\ [][KernelNext]_<<part, vars, memVars, terminalVars, diskVars, spaceVars>>

Entry(t, o, s) == [type |-> t, offset |-> o, size |-> s]
\* Two partitions, the second far past the end; an unused entry, an extended and a
\* plain partition.
SomeTables ==
  {<<Entry("filesys", 0, 1), Entry("foreign", 1, 7)>>,
   <<Entry("unused", 0, 0), Entry("extended", 1, 1), Entry("filesys", 0, 2)>>}
\* A program that loads, one that asks for a page twice, one that asks for page 0.
SomePrograms == {<<1>>, <<1, 1>>, <<0>>}

\* The threads of all five parts are the same two model values.
KernelSymmetry == Permutations(Procs) \cup Permutations(Names)
=============================================================================
