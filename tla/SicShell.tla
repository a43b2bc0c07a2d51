------------------------------- MODULE SicShell -------------------------------
(***************************************************************************)
(* The sicsim shell (CSE4100, 20151623.c and commands.c): one command at a  *)
(* time, over the assembler, the loader, the simulator and the memory they  *)
(* share.  A command line that is refused changes nothing, and is left out. *)
(***************************************************************************)
EXTENDS Simulator

CONSTANTS
  LoaderFiles,    \* sequences of object files for loader
  Addresses,      \* addresses for progaddr
  Points,         \* addresses for bp
  Edits,          \* <<address, value>> for edit
  Fills,          \* <<first, last, value>> for fill
  Dumps,          \* <<first, last>> for dump
  Copies,         \* <<from, to>> for copy
  Touches,        \* names for touch
  MaxTurns        \* command lines

VARIABLES
  dumpLastAddr, quitFlag,
  history,        \* the number of command lines remembered
  turns           \* the command lines so far

shellVars == <<dumpLastAddr, quitFlag, history, turns>>
sicVars == <<assemblerVars, loaderVars, simulatorVars, busy, shellVars>>

SicInit ==
  /\ AssemblerInit /\ LinkingLoaderInit /\ SimulatorInit
  /\ dumpLastAddr = 0 /\ quitFlag = FALSE /\ history = 0 /\ turns = 0

----------------------------------------------------------------------------
\* Commands.  addHistory comes last, and only when the command did what it does.

Prompt ==
  /\ busy = "shell" /\ ~quitFlag /\ turns < MaxTurns
  /\ turns' = turns + 1
addHistory == history' = history + 1

commandAssemble ==
  /\ Prompt
  /\ \E f \in SourceNames : Pass1Start(f)
  /\ UNCHANGED <<loaderVars, simulatorVars, dumpLastAddr, quitFlag, history>>

commandLoader ==
  /\ Prompt
  /\ \E names \in LoaderFiles : LoadStart(names)
  /\ UNCHANGED <<assemblerVars, simulatorVars, dumpLastAddr, quitFlag, history>>

commandRun ==
  /\ Prompt /\ RunStart
  /\ UNCHANGED <<assemblerVars, dumpLastAddr, quitFlag, history>>

commandProgaddr ==
  /\ Prompt /\ addHistory
  /\ \E a \in Addresses : progAddr' = a
  /\ UNCHANGED <<assemblerVars, simulatorVars, busy, virtualMem, estab, fileLen, lastExecAddr,
                 load, dumpLastAddr, quitFlag>>

commandBp ==
  /\ Prompt /\ addHistory
  /\ bptab' \in {bptab \cup {p} : p \in Points} \cup {{}}
  /\ UNCHANGED <<assemblerVars, loaderVars, busy, reg, bpLast, exec, dumpLastAddr, quitFlag>>

\* edit, fill and reset
MemoryCommand(mem) ==
  /\ Prompt /\ addHistory
  /\ virtualMem' = mem
  /\ UNCHANGED <<assemblerVars, simulatorVars, busy, estab, progAddr, fileLen, lastExecAddr, load,
                 dumpLastAddr, quitFlag>>
commandEdit == \E e \in Edits : MemoryCommand(PutBytes(virtualMem, e[1], <<e[2]>>))
commandFill ==
  \E f \in Fills : MemoryCommand(PutBytes(virtualMem, f[1], [i \in 1 .. f[2] - f[1] + 1 |-> f[3]]))
commandReset == MemoryCommand(None_)

\* The end of what is shown; without a range, 160 bytes from where dump went last.
DumpEnd(start, end) ==
  IF end # 0 THEN end ELSE IF start + 159 > 1048575 THEN 1048575 ELSE start + 159
commandDump ==
  /\ Prompt /\ addHistory
  /\ \E d \in Dumps \cup {<<dumpLastAddr, 0>>} :
       dumpLastAddr' = (DumpEnd(d[1], d[2]) + 1) % 1048576
  /\ UNCHANGED <<assemblerVars, loaderVars, simulatorVars, busy, quitFlag>>

\* copy opens the file it writes after the one it reads, also when they are the same.
Facts(f) == IF f \in DOMAIN operands THEN operands[f] ELSE {}
commandCopy ==
  /\ Prompt /\ addHistory
  /\ \E c \in Copies :
       /\ c[1] \in DOMAIN files
       /\ files' = Assign_(files, c[2], IF c[1] = c[2] THEN <<>> ELSE files[c[1]])
       /\ operands' = Assign_(operands, c[2], IF c[1] = c[2] THEN {} ELSE Facts(c[1]))
  /\ UNCHANGED <<symtab, intermediate, location, job, loaderVars, simulatorVars, busy,
                 dumpLastAddr, quitFlag>>

commandTouch ==
  /\ Prompt /\ addHistory
  /\ \E f \in Touches : files' = IF f \in DOMAIN files THEN files ELSE Assign_(files, f, <<>>)
  /\ UNCHANGED <<symtab, intermediate, location, job, operands, loaderVars, simulatorVars, busy,
                 dumpLastAddr, quitFlag>>

\* The commands that show something keep nothing but their line: help, dir, history,
\* echo; the tables of opcodes and symbols; and those that need the files they show.
commandShow ==
  /\ Prompt /\ addHistory
  /\ UNCHANGED <<assemblerVars, loaderVars, simulatorVars, busy, dumpLastAddr, quitFlag>>
commandOplist == commandShow
commandSymbol == commandShow
commandType == DOMAIN files # {} /\ commandShow
commandCmp == DOMAIN files # {} /\ commandShow
commandHead == DOMAIN files # {} /\ commandShow

commandQuit ==
  /\ Prompt /\ quitFlag' = TRUE
  /\ UNCHANGED <<assemblerVars, loaderVars, simulatorVars, busy, dumpLastAddr, history>>

----------------------------------------------------------------------------
\* What a command does before the next prompt.

Assembles ==
  /\ \/ Pass1Line \/ Pass1Fails \/ Pass1Ends \/ Pass2Line \/ Pass2Fails
     \/ Pass2Ends
  /\ history' = IF Pass2Ends THEN history + 1 ELSE history
  /\ UNCHANGED <<loaderVars, simulatorVars, dumpLastAddr, quitFlag, turns>>

\* linkingLoaderPass2 returns no value when it succeeds, and commandLoader tests it.
Loads ==
  /\ \/ CannotOpen \/ LoadStuck \/ SectionDefined \/ SymbolDefined \/ SkipRecord
     \/ SectionEnds \/ Pass1Done \/ SectionLoaded \/ Referred \/ TextLoaded \/ TextModified
     \/ LoadDone
  /\ history' \in IF LoadDone THEN {history, history + 1} ELSE {history}
  /\ UNCHANGED <<assemblerVars, simulatorVars, dumpLastAddr, quitFlag, turns>>

Runs ==
  /\ RunStep
  /\ history' = IF busy' = "shell" THEN history + 1 ELSE history
  /\ UNCHANGED <<assemblerVars, dumpLastAddr, quitFlag, turns>>

SicNext ==
  \/ commandShow \/ commandOplist \/ commandSymbol \/ commandType \/ commandCmp \/ commandHead
  \/ commandQuit \/ commandAssemble \/ commandLoader \/ commandRun
  \/ commandProgaddr \/ commandBp \/ commandEdit \/ commandFill \/ commandReset
  \/ commandDump \/ commandCopy \/ commandTouch
  \/ Assembles \/ Loads \/ Runs

SicSpec == SicInit /\ [][SicNext]_sicVars

----------------------------------------------------------------------------
\* Properties

\* The address the simulator makes of an operand of a program loaded at base.
Reached(base, o, B) ==
  TargetAddr(base + o.at, [reg EXCEPT ![1] = 0, ![3] = B,
                                      ![8] = base + o.at + (IF o.by = "extended" THEN 4 ELSE 3)])
\* What B may hold where o counts on the address its BASE directive names: what an
\* LDB of that address loads.  That of an extended LDB is not moved with the program.
LoadsBase(base, b) == b.loadsB /\ (b.by = "pc" \/ (b.by = "extended" /\ base = 0))
Bases(base, facts, o) ==
  {Reached(base, b, 0) : b \in {b \in facts : LoadsBase(base, b) /\ b.symbol = o.B}}
ReachesSymbol(base, facts, o) ==
  \/ o.by = "pc" /\ Reached(base, o, 0) = base + o.symbol
  \/ o.by = "extended" /\ (base = 0 => Reached(base, o, 0) = o.symbol)
  \/ /\ o.by = "base"
     /\ o.symbol - o.B < 2048 =>
          \A B \in Bases(base, facts, o) : Reached(base, o, B) = base + o.symbol
LoadsProgram == LoadDone /\ Len(load.all) = 1

\* Once a program is loaded, its operands are their symbols, as getTargetAddr decodes
\* what pass 1 counted, pass 2 encoded and the loader placed: those addressed from the
\* program counter wherever the program is loaded; those addressed from a base less than
\* 2048 below (run.c:11 takes the displacement as signed) where B holds what an LDB of the
\* base loads; and the extended ones of a program loaded at 0 (the M records of the
\* assembler, assemble.c:667, name neither sign nor symbol, and linkingloader.c:171 takes
\* them as a minus).  Lines after a blank one are excepted: see EveryTargetReached.
TargetsReached ==
  [][ LoadsProgram =>
        LET facts == Facts(load.all[1]) IN
          \A o \in facts : o.afterBlank \/ ReachesSymbol(progAddr, facts, o) ]_sicVars

\* "if it is excutable line, read LOCCTR and PC from location file" (assemble.c:493): then
\* a blank line (assemble.c:123) would leave the operands of the lines after it right.
EveryTargetReached ==
  [][ LoadsProgram =>
        LET facts == Facts(load.all[1]) IN
          \A o \in facts : ReachesSymbol(progAddr, facts, o) ]_sicVars

\* Where the sections of the files come to lie, from their lengths alone, and with them
\* the symbols.
Section(names, i) ==
  progAddr + FoldLeft(LAMBDA sum, n : sum + files[n][1].length, 0, SubSeq(names, 1, i - 1))
RecordsOf(names, i, type) == {files[names[i]][k] : k \in {k \in DOMAIN files[names[i]] :
                                                            files[names[i]][k].type = type}}
AddressOf(names, symbol) ==
  LET homes == {i \in DOMAIN names : symbol \in {r.name : r \in RecordsOf(names, i, "H")
                                                              \cup RecordsOf(names, i, "D")}}
      i == CHOOSE i \in homes : TRUE
      here == {r \in RecordsOf(names, i, "D") : r.name = symbol}
  IN Section(names, i) + (IF here = {} THEN 0 ELSE (CHOOSE r \in here : TRUE).addr)
Linked(names, i, m) ==
  IF \E r \in RecordsOf(names, i, "R") : r.num # 0
  THEN IF m.num = 1 THEN Section(names, i)
       ELSE AddressOf(names, (CHOOSE r \in RecordsOf(names, i, "R") : r.num = m.num).name)
  ELSE AddressOf(names, m.name)
Original(names, i) ==
  FoldLeft(LAMBDA mem, r : IF r.type = "T" THEN PutBytes(mem, r.addr, r.bytes) ELSE mem,
           None_, files[names[i]])

\* Linking adds to each word of each section the addresses its modification records
\* name, each once and with its sign, whatever the order of the files and the records.
Sum(names, i, addr) ==
  FoldLeft(LAMBDA sum, r : IF r.type = "M" /\ r.addr = addr
                           THEN sum + (IF r.sign = "+" THEN 1 ELSE -1) * Linked(names, i, r)
                           ELSE sum,
           0, files[names[i]])
LinkedSum ==
  [][ LoadDone =>
        \A i \in DOMAIN load.all : \A r \in RecordsOf(load.all, i, "M") :
          r.sign # "none" =>
            LET m == IF r.half = 5 THEN 1048576 ELSE 16777216 IN
              (Word(virtualMem, Section(load.all, i) + r.addr)
                 - Word(Original(load.all, i), r.addr) - Sum(load.all, i, r.addr)) % m = 0 ]_sicVars
=============================================================================
