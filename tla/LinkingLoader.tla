----------------------------- MODULE LinkingLoader -----------------------------
(***************************************************************************)
(* The linking loader of the SIC/XE simulator (CSE4100, linkingloader.c):  *)
(* pass 1 gives every control section its address and fills ESTAB, pass 2  *)
(* puts the text in memory and modifies it.  An action is one record of    *)
(* an object file.  A D record defines one symbol, an R record names one.   *)
(***************************************************************************)
EXTENDS Assembler

VARIABLES
  virtualMem,     \* address -> byte; the addresses not in its domain hold 0
  estab,          \* ESTAB: symbol -> address
  progAddr, fileLen, lastExecAddr,
  load            \* the pass that runs: its files and its variables

loaderVars == <<virtualMem, estab, progAddr, fileLen, lastExecAddr, load>>

LinkingLoaderInit ==
  /\ virtualMem = None_ /\ estab = None_ /\ load = None_
  /\ progAddr = 0 /\ fileLen = 0 /\ lastExecAddr = 0

Byte(mem, a) == IF a \in DOMAIN mem THEN mem[a] ELSE 0
Word(mem, a) == 65536 * Byte(mem, a) + 256 * Byte(mem, a + 1) + Byte(mem, a + 2)
PutBytes(mem, a, bytes) ==
  [x \in DOMAIN mem \cup a .. a + Len(bytes) - 1 |->
     IF x \in a .. a + Len(bytes) - 1 THEN bytes[x - a + 1] ELSE mem[x]]

----------------------------------------------------------------------------

\* The loader goes on to the next file, and its next section starts where this ends.
Opening(names, pass) ==
  [pass |-> pass, all |-> names, names |-> names, at |-> 1, csAddr |-> progAddr, length |-> 0,
   symbol |-> "", ref |-> None_]

LoadStart(names) ==
  /\ names # <<>>
  /\ busy' = "load" /\ estab' = None_ /\ load' = Opening(names, 1)
  /\ UNCHANGED <<virtualMem, progAddr, fileLen, lastExecAddr>>

Loading(pass) == busy = "load" /\ load.names # <<>> /\ load.pass = pass
Record == files[Head(load.names)][load.at]

\* There is no such file, or it has no header.  (One that is read to its end without
\* an E record keeps the loader reading for ever: LoadStuck.)
LoadFails ==
  /\ busy' = "shell" /\ load' = None_
  /\ UNCHANGED <<virtualMem, progAddr, fileLen, lastExecAddr>>
CannotOpen ==
  /\ busy = "load" /\ load.names # <<>> /\ Head(load.names) \notin DOMAIN files
  /\ LoadFails /\ UNCHANGED estab

HasRecord(pass, type) ==
  /\ Loading(pass) /\ Head(load.names) \in DOMAIN files
  /\ load.at <= Len(files[Head(load.names)]) /\ Record.type = type
NextRecord == [load EXCEPT !.at = @ + 1]
NextSection ==
  [load EXCEPT !.names = Tail(@), !.at = 1, !.csAddr = @ + load.length, !.ref = None_]

LoadStuck ==
  /\ busy = "load" /\ load.names # <<>> /\ Head(load.names) \in DOMAIN files
  /\ load.at > Len(files[Head(load.names)])
  /\ busy' = "stuck" /\ UNCHANGED loaderVars

\* A name and its address go to ESTAB, or it has one already.
Define(symbol, addr, next) ==
  IF symbol \in DOMAIN estab THEN LoadFails /\ UNCHANGED estab
  ELSE /\ estab' = Assign_(estab, symbol, addr) /\ load' = next
       /\ UNCHANGED <<busy, virtualMem, progAddr, fileLen, lastExecAddr>>

SectionDefined ==
  HasRecord(1, "H") /\ Define(Record.name, load.csAddr, [NextRecord EXCEPT !.length = Record.length])
\* Mutant of SymbolDefined: the symbol is not moved with its section.
SymbolDefined_unplaced ==
  HasRecord(1, "D") /\ Define(Record.name, Record.addr, NextRecord)
SymbolDefined ==
  HasRecord(1, "D") /\ Define(Record.name, Record.addr + load.csAddr, NextRecord)

SkipRecord ==
  /\ \/ \E type \in {"R", "T", "M"} : HasRecord(1, type)
     \/ HasRecord(2, "D")
  /\ load' = NextRecord
  /\ UNCHANGED <<busy, virtualMem, estab, progAddr, fileLen, lastExecAddr>>

SectionEnds ==
  /\ \E pass \in {1, 2} : HasRecord(pass, "E")
  /\ load' = NextSection
  /\ UNCHANGED <<busy, virtualMem, estab, progAddr, fileLen, lastExecAddr>>

Pass1Done ==
  /\ busy = "load" /\ load.names = <<>> /\ load.pass = 1
  /\ fileLen' = load.csAddr - progAddr
  /\ load' = Opening(load.all, 2)
  /\ UNCHANGED <<busy, virtualMem, estab, progAddr, lastExecAddr>>

----------------------------------------------------------------------------
\* Pass 2.  symbol is the name that was read last.

SectionLoaded ==
  /\ HasRecord(2, "H")
  /\ load' = [NextRecord EXCEPT !.length = Record.length, !.symbol = Record.name,
                                !.ref = (1 :> load.csAddr)]
  /\ UNCHANGED <<busy, virtualMem, estab, progAddr, fileLen, lastExecAddr>>

\* Reference numbers; an R record without them is passed over.
Numbered == \E n \in DOMAIN load.ref : n # 1
Referred ==
  /\ HasRecord(2, "R")
  /\ IF Record.num = 0
     THEN /\ load' = NextRecord
          /\ UNCHANGED <<busy, virtualMem, estab, progAddr, fileLen, lastExecAddr>>
     ELSE IF Record.name \notin DOMAIN estab THEN LoadFails /\ UNCHANGED estab
     ELSE /\ load' = [NextRecord EXCEPT !.symbol = Record.name,
                                        !.ref = Assign_(@, Record.num, estab[Record.name])]
          /\ UNCHANGED <<busy, virtualMem, estab, progAddr, fileLen, lastExecAddr>>

TextLoaded ==
  /\ HasRecord(2, "T")
  /\ virtualMem' = PutBytes(virtualMem, Record.addr + load.csAddr, Record.bytes)
  /\ load' = NextRecord
  /\ UNCHANGED <<busy, estab, progAddr, fileLen, lastExecAddr>>

\* The field of half bytes at the end of a word, changed by an address; what is
\* not a plus is a minus.
Modify(mem, a, half, sign, addr) ==
  LET m == IF half = 5 THEN 1048576 ELSE 16777216
      w == Word(mem, a) IN
    PutBytes(mem, a, Bytes3((w \div m) * m + ((w + (IF sign = "+" THEN addr ELSE -addr)) % m)))

\* Without a name in the record the one read before it counts.
Named == IF Record.name = "" THEN load.symbol ELSE Record.name
TextModified ==
  /\ HasRecord(2, "M")
  /\ IF ~Numbered /\ Named \notin DOMAIN estab THEN LoadFails /\ UNCHANGED estab
     ELSE /\ virtualMem' = Modify(virtualMem, Record.addr + load.csAddr, Record.half, Record.sign,
                                  IF Numbered THEN load.ref[Record.num] ELSE estab[Named])
          /\ load' = [NextRecord EXCEPT !.symbol = Named]
          /\ UNCHANGED <<busy, estab, progAddr, fileLen, lastExecAddr>>

LoadDone ==
  /\ busy = "load" /\ load.names = <<>> /\ load.pass = 2
  /\ lastExecAddr' = progAddr /\ busy' = "shell" /\ load' = None_
  /\ UNCHANGED <<virtualMem, estab, progAddr, fileLen>>
=============================================================================
