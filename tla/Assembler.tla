------------------------------- MODULE Assembler -------------------------------
(***************************************************************************)
(* The two-pass SIC/XE assembler (CSE4100, proj3/assemble.c).  Pass 1 gives *)
(* every line its address and fills SYMTAB; pass 2 reads the intermediate   *)
(* and location files pass 1 wrote and makes the object file.  An action    *)
(* is one line of the file being read.  A line that breaks the grammar of   *)
(* its characters is "malformed"; what the rest of it says is a record.     *)
(***************************************************************************)
EXTENDS Integers, Sequences, SequencesExt

CONSTANTS
  SourceNames,    \* names of files to assemble
  ObjectName,     \* the name the object file of a source file gets
  Directory,      \* name -> contents, for the files there are at the start
  RecordEnd,      \* the columns of a text record (68)
  Garbage         \* what an integer that was never set may hold

Line(label, op, operand) ==
  [label |-> label, op |-> op, extended |-> FALSE, mode |-> "simple", operand |-> operand,
   value |-> -1, second |-> "", bytes |-> <<>>, hex |-> FALSE]

\* opcode.txt: the instructions of format 2 and 3 that the simulator executes.
Format2 == [ADDR |-> 144, SUBR |-> 148, COMPR |-> 160, SHIFTL |-> 164,
            RMO |-> 172, CLEAR |-> 180, TIXR |-> 184]
Format3 ==
  [LDA |-> 0, LDX |-> 4, LDL |-> 8, STA |-> 12, STX |-> 16, STL |-> 20, ADD |-> 24,
   SUB |-> 28, COMP |-> 40, TIX |-> 44, JEQ |-> 48, JGT |-> 52, JLT |-> 56, J |-> 60,
   AND |-> 64, OR |-> 68, JSUB |-> 72, RSUB |-> 76, LDCH |-> 80, STCH |-> 84, LDB |-> 104,
   LDS |-> 108, LDT |-> 116, STB |-> 120, STS |-> 124, STT |-> 132, RD |-> 216,
   WD |-> 220, TD |-> 224]
Directives == {"START", "END", "BASE", "BYTE", "WORD", "RESB", "RESW"}
Registers == [A |-> 0, X |-> 1, L |-> 2, B |-> 3, S |-> 4, T |-> 5, F |-> 6, PC |-> 8, SW |-> 9]

VARIABLES
  files,          \* name -> contents: lines of a source, records of an object file
  symtab,         \* SYMTAB: symbol -> LOCCTR
  intermediate,   \* what pass 1 leaves for pass 2
  location,       \* the addresses of the lines, as pass 1 leaves them
  job,            \* the pass that runs: its variables
  busy,           \* "shell" between commands, else what is running
  operands        \* for each object file, where its symbols must be found

assemblerVars == <<files, symtab, intermediate, location, job, operands>>
None_ == <<>>

AssemblerInit ==
  /\ files \in Directory /\ symtab = None_ /\ intermediate = <<>> /\ location = <<>>
  /\ job = None_ /\ busy = "shell" /\ operands = None_

----------------------------------------------------------------------------
\* Pass 1

Pass1Start(f) ==
  /\ f \in SourceNames \cap DOMAIN files
  /\ busy' = "pass1" /\ symtab' = None_ /\ intermediate' = <<>> /\ location' = <<>>
  /\ job' = [file |-> f, at |-> 1, locCtr |-> 0, startAddr |-> 0, firstFlag |-> 0,
             firstAddr |-> 0, ended |-> FALSE, programLen |-> 0, glued |-> FALSE]
  /\ UNCHANGED <<files, operands>>

IsInstruction(l) == l.op \in DOMAIN Format2 \cup DOMAIN Format3

\* Mutant of InsLen: the fourth byte of an extended instruction is not counted.
InsLen_short(l) ==
  CASE l.op \in DOMAIN Format2 -> 2
    [] l.op \in DOMAIN Format3 \/ l.op = "WORD" -> 3
    [] l.op = "BYTE" -> Len(l.bytes)
    [] l.op = "RESB" -> l.value
    [] l.op = "RESW" -> 3 * l.value
    [] OTHER -> 0

InsLen(l) ==
  CASE l.op \in DOMAIN Format2 -> 2
    [] l.op \in DOMAIN Format3 -> IF l.extended THEN 4 ELSE 3
    [] l.op = "BYTE" -> Len(l.bytes)
    [] l.op = "WORD" -> 3
    [] l.op = "RESB" -> l.value
    [] l.op = "RESW" -> 3 * l.value
    [] OTHER -> 0

\* SET_ERRORFLAG: what ends the pass.
Pass1Error(l) ==
  \/ l.op = "malformed"
  \/ l.label \in DOMAIN symtab
  \/ l.op \notin Directives \cup {"comment", "blank"} /\ ~IsInstruction(l)
  \/ l.extended /\ l.op \notin DOMAIN Format3
  \/ l.op = "START" /\ job.firstFlag # 0
  \/ /\ l.op = "END" /\ l.operand # ""
     /\ l.operand \notin DOMAIN symtab \/ symtab[l.operand] # job.firstAddr

\* A line of text appended to the intermediate file.  Nothing ends the line of a
\* blank one, so the next line of the source goes on in it.
ToIntermediate(l) ==
  intermediate' = IF job.glued THEN intermediate
                  ELSE Append(intermediate, [line |-> job.at, text |-> l])

\* LOCCTR and PC of the line; the label is put in SYMTAB.
Pass1Code(l) ==
  LET locCtr == IF l.op = "START" THEN l.value ELSE job.locCtr
      firstFlag == job.firstFlag + (IF l.op \in Directives THEN 0 ELSE 1) IN
    /\ ToIntermediate(l)
    /\ location' = Append(location, [line |-> job.at, locCtr |-> locCtr, PC |-> locCtr + InsLen(l)])
    /\ symtab' = IF l.label = "" \/ l.op = "END" THEN symtab
                 ELSE [s \in DOMAIN symtab \cup {l.label} |-> IF s = l.label THEN locCtr ELSE symtab[s]]
    /\ job' = [job EXCEPT !.at = @ + 1, !.locCtr = locCtr + InsLen(l), !.firstFlag = firstFlag,
                          !.firstAddr = IF @ = 0 /\ firstFlag = 1 THEN locCtr ELSE @,
                          !.startAddr = IF l.op = "START" THEN l.value ELSE @,
                          !.ended = @ \/ l.op = "END", !.glued = FALSE,
                          !.programLen = IF l.op = "END" THEN job.locCtr - job.startAddr ELSE @]

Pass1Skip(l) ==
  /\ ToIntermediate(l)
  /\ job' = [job EXCEPT !.at = @ + 1, !.glued = l.op = "blank"]
  /\ UNCHANGED <<symtab, location>>

Pass1Line ==
  /\ busy = "pass1" /\ job.at <= Len(files[job.file])
  /\ LET l == files[job.file][job.at] IN
       /\ ~Pass1Error(l)
       /\ IF l.op \in {"comment", "blank"} THEN Pass1Skip(l) ELSE Pass1Code(l)
  /\ UNCHANGED <<files, busy, operands>>

\* After an error SYMTAB is cleared, and commandAssemble returns.
Pass1Fails ==
  /\ busy = "pass1" /\ job.at <= Len(files[job.file])
  /\ Pass1Error(files[job.file][job.at])
  /\ symtab' = None_ /\ busy' = "shell" /\ job' = None_
  /\ UNCHANGED <<files, intermediate, location, operands>>

Pass2Job(n) ==
  [file |-> job.file, at |-> 1, locAt |-> 1, locLine |-> -1, locCtr |-> 0, PC |-> 0, B |-> 0,
   open |-> FALSE, addr |-> 0, code |-> <<>>, resFlag |-> FALSE, modi |-> <<>>,
   firstAddr |-> 0, programLen |-> n, obj |-> <<>>, found |-> {}]

\* Without an END line the length is whatever the caller's variable held; a negative
\* one looks like an error.
Pass1Ends ==
  /\ busy = "pass1" /\ job.at > Len(files[job.file])
  /\ \E n \in IF job.ended THEN {job.programLen} ELSE Garbage :
       IF n < 0 THEN busy' = "shell" /\ job' = None_
       ELSE busy' = "pass2" /\ job' = Pass2Job(n)
  /\ UNCHANGED <<files, symtab, intermediate, location, operands>>

----------------------------------------------------------------------------
\* Pass 2

\* The next line of the location file is read when the last one has been used up.
Located ==
  IF job.locLine < intermediate[job.at].line /\ job.locAt <= Len(location)
  THEN LET e == location[job.locAt] IN
         [job EXCEPT !.locAt = @ + 1, !.locLine = e.line, !.locCtr = e.locCtr, !.PC = e.PC]
  ELSE job

\* The text record under construction starts at this line if there is none.
Opened(j) ==
  IF j.open THEN j
  ELSE [j EXCEPT !.open = TRUE, !.addr = j.locCtr, !.code = <<>>, !.resFlag = FALSE]

TextRecord(j) == [type |-> "T", addr |-> j.addr, bytes |-> j.code]

Column(j) == 9 + 2 * Len(j.code)

\* The bytes join the record, or start the next one.  A hexadecimal constant starts
\* it with the X and the quote of its text: a byte no digits are read for.
Emit(j, bytes, hex) ==
  IF Column(j) + 2 * Len(bytes) > RecordEnd \/ j.resFlag
  THEN [j EXCEPT !.obj = Append(@, TextRecord(j)), !.addr = j.locCtr, !.resFlag = FALSE,
                 !.code = IF hex THEN <<0>> \o Front(bytes) ELSE bytes]
  ELSE [j EXCEPT !.code = @ \o bytes, !.resFlag = FALSE]

Bytes3(w) == <<w \div 65536, (w \div 256) % 256, w % 256>>

Bit(b, n) == IF b THEN n ELSE 0

PCRelative(j, l) == symtab[l.operand] - j.PC < 2048 /\ symtab[l.operand] - j.PC > -2049
BaseRelative(j, l) == symtab[l.operand] - j.B < 4096 /\ symtab[l.operand] - j.B > -1

IsConstant(l) == l.operand = "" /\ l.value >= 0
NoOperand(l) == l.operand = "" /\ l.value < 0
IsSymbol(l) == l.operand \in DOMAIN symtab

Pass2Error(j, l) ==
  \/ l.op \in DOMAIN Format2 /\ \/ l.mode # "simple"
                                \/ l.operand \notin DOMAIN Registers
                                \/ l.second \notin DOMAIN Registers \cup {""}
  \/ l.op \in DOMAIN Format3 /\
       \/ NoOperand(l) /\ l.mode # "simple"
       \/ IsConstant(l) /\ \/ l.mode # "#" \/ l.value >= 1048576 \/ l.second # ""
                           \/ l.value >= 4096 /\ ~l.extended
       \/ l.operand # "" /\ ~IsSymbol(l) /\ l.operand \notin DOMAIN Registers
       \/ l.second \notin {"", "X"}
       \/ IsSymbol(l) /\ ~l.extended /\ ~PCRelative(j, l) /\ ~BaseRelative(j, l)
  \/ l.op = "BASE" /\ ~IsSymbol(l)

\* The object code of a line of format 3 or 4: opcode, n and i, then x, b, p, e.
ObjectCode3(j, l) ==
  LET ni == CASE l.mode = "#" -> 1 [] l.mode = "@" -> 2 [] OTHER -> 3
      x == Bit(l.second = "X", 8)
      disp == IF ~IsSymbol(l) THEN (IF IsConstant(l) THEN l.value ELSE 0)
              ELSE IF PCRelative(j, l) THEN (symtab[l.operand] - j.PC) % 4096
              ELSE (symtab[l.operand] - j.B) % 4096
      bp == IF ~IsSymbol(l) THEN 0 ELSE IF PCRelative(j, l) THEN 2 ELSE 4
      addr == IF IsSymbol(l) THEN symtab[l.operand] ELSE IF IsConstant(l) THEN l.value ELSE 0
  IN <<Format3[l.op] + ni>> \o
       (IF l.extended THEN Bytes3((x + 1) * 1048576 + (addr % 1048576))
        ELSE <<(x + bp) * 16 + disp \div 256, disp % 256>>)

ObjectCode(j, l) ==
  IF l.op \in DOMAIN Format2
  THEN <<Format2[l.op],
         16 * Registers[l.operand] + (IF l.second = "" THEN 0 ELSE Registers[l.second])>>
  ELSE ObjectCode3(j, l)

\* Where the simulator has to find the symbol of a line, and how the line names it;
\* whether the line loads the base register, and comes after a blank one.
Addressing(j, l) == IF l.extended THEN "extended" ELSE IF PCRelative(j, l) THEN "pc" ELSE "base"
Found(j, l) ==
  IF l.op \in DOMAIN Format3 /\ IsSymbol(l)
  THEN {[at |-> j.locCtr, symbol |-> symtab[l.operand], by |-> Addressing(j, l), B |-> j.B,
         loadsB |-> l.op = "LDB" /\ l.mode = "#",
         afterBlank |-> \E k \in 1 .. j.at : intermediate[k].text.op = "blank"]}
  ELSE {}

Instruction(j, l) ==
  [Emit(j, ObjectCode(j, l), FALSE) EXCEPT
     !.modi = IF l.extended /\ IsSymbol(l) /\ l.mode # "#" THEN Append(@, j.locCtr + 1) ELSE @,
     !.found = @ \cup Found(j, l)]

\* The M records of the assembler name no sign and no symbol.
Modifications(j) ==
  [i \in DOMAIN j.modi |-> [type |-> "M", addr |-> j.modi[i], half |-> 5, sign |-> "none", name |-> "", num |-> 0]]

Directive(j, l) ==
  CASE l.op = "START" ->
         [j EXCEPT !.obj = Append(@, [type |-> "H", name |-> IF l.label = "" THEN "!" ELSE l.label,
                                      length |-> j.programLen]),
                   !.firstAddr = j.locCtr, !.open = FALSE]
    [] l.op = "END" -> [j EXCEPT !.obj = @ \o <<TextRecord(j)>> \o Modifications(j) \o
                                             <<[type |-> "E", addr |-> j.firstAddr]>>]
    [] l.op = "BASE" -> [j EXCEPT !.B = symtab[l.operand]]
    [] l.op = "BYTE" -> Emit(j, l.bytes, l.hex)
    [] l.op = "WORD" -> Emit(j, Bytes3(l.value % 16777216), FALSE)
    [] l.op \in {"RESB", "RESW"} -> [j EXCEPT !.resFlag = TRUE]
    [] OTHER -> j

Pass2Line ==
  /\ busy = "pass2" /\ job.at <= Len(intermediate)
  /\ LET l == intermediate[job.at].text
         j == Opened(Located)
         done == IF IsInstruction(l) THEN Instruction(j, l) ELSE Directive(j, l) IN
       /\ ~Pass2Error(j, l)
       /\ job' = [done EXCEPT !.at = @ + 1]
  /\ UNCHANGED <<files, symtab, intermediate, location, busy, operands>>

Pass2Fails ==
  /\ busy = "pass2" /\ job.at <= Len(intermediate)
  /\ Pass2Error(Opened(Located), intermediate[job.at].text)
  /\ symtab' = None_ /\ busy' = "shell" /\ job' = None_
  /\ UNCHANGED <<files, intermediate, location, operands>>

\* tmpobj is copied to the object file; commandAssemble adds the line to the history.
Assign_(f, k, v) == [x \in DOMAIN f \cup {k} |-> IF x = k THEN v ELSE f[x]]
Pass2Ends ==
  /\ busy = "pass2" /\ job.at > Len(intermediate)
  /\ files' = Assign_(files, ObjectName[job.file], job.obj)
  /\ operands' = Assign_(operands, ObjectName[job.file], job.found)
  /\ busy' = "shell" /\ job' = None_
  /\ UNCHANGED <<symtab, intermediate, location>>
=============================================================================
