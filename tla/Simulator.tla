------------------------------- MODULE Simulator -------------------------------
(***************************************************************************)
(* The SIC/XE machine (CSE4100, run.c): the run command executes memory     *)
(* from where it stopped last to the end of the program that was loaded,    *)
(* and stops at breakpoints.  An action is one instruction.                 *)
(***************************************************************************)
EXTENDS LinkingLoader, Bitwise

CONSTANT MaxSteps   \* instructions of one run that are followed

VARIABLES
  reg,            \* 0: A, 1: X, 2: L, 3: B, 4: S, 5: T, 6: F, 8: PC, 9: SW
  bptab,          \* the addresses with a breakpoint
  bpLast,         \* the address of the last stop; -1 when there is none
  exec            \* the run: where it ends, and its instructions so far

simulatorVars == <<reg, bptab, bpLast, exec>>

SimulatorInit ==
  /\ reg = [r \in 0 .. 9 |-> 0] /\ bptab = {} /\ bpLast = -1 /\ exec = None_

Running == busy = "run" /\ reg[8] # exec.endAddr /\ exec.steps < MaxSteps
AtBreakpoint == reg[8] \in bptab /\ bpLast = -1

RunStart ==
  /\ busy' = "run"
  /\ exec' = [endAddr |-> progAddr + fileLen, steps |-> 0]
  /\ reg' = [reg EXCEPT ![8] = lastExecAddr, ![2] = progAddr + fileLen]
  /\ UNCHANGED <<bptab, bpLast, loaderVars>>

RunStops ==
  /\ Running /\ AtBreakpoint
  /\ bpLast' = reg[8] /\ lastExecAddr' = reg[8] /\ busy' = "shell" /\ exec' = None_
  /\ UNCHANGED <<reg, bptab, virtualMem, estab, progAddr, fileLen, load>>

RunEnds ==
  /\ busy = "run" /\ reg[8] = exec.endAddr
  /\ reg' = [r \in 0 .. 9 |-> 0] /\ lastExecAddr' = progAddr /\ bpLast' = -1
  /\ busy' = "shell" /\ exec' = None_
  /\ UNCHANGED <<bptab, virtualMem, estab, progAddr, fileLen, load>>

----------------------------------------------------------------------------
\* The instruction at an address: n and i, then x, b, p and e.

Opcode(c) == 4 * (Byte(virtualMem, c) \div 4)
NI(c) == Byte(virtualMem, c) % 4
XBPE(c) == Byte(virtualMem, c + 1) \div 16
HasBit(flags, n) == (flags \div n) % 2 = 1
Length3(c) == 3 + (XBPE(c) % 2)

Disp(c) == Word(virtualMem, c) % 4096
Signed(d) == IF d < 2048 THEN d ELSE d - 4096

\* getTargetAddr, with the registers r after the program counter has moved on.
TargetAddr(c, r) ==
  (CASE HasBit(XBPE(c), 1) -> Word(virtualMem, c + 1) % 1048576
     [] HasBit(XBPE(c), 2) -> r[8] + Signed(Disp(c))
     [] HasBit(XBPE(c), 4) /\ ~HasBit(XBPE(c), 2) -> r[3] + Signed(Disp(c))
     [] OTHER -> Disp(c))
  + (IF HasBit(XBPE(c), 8) THEN r[1] ELSE 0)

getVal(target, ni) ==
  CASE ni = 1 -> target
    [] ni = 2 -> Word(virtualMem, Word(virtualMem, target))
    [] ni = 3 -> Word(virtualMem, target)
    [] OTHER -> 0

Advanced(n) == [reg EXCEPT ![8] = @ + n]
Next3 == Advanced(Length3(reg[8]))
Target == TargetAddr(reg[8], Next3)
Value == getVal(Target, NI(reg[8]))
\* Stores and jumps take the address itself, or the one stored there.
Place == IF NI(reg[8]) = 2 THEN getVal(Target, 3) ELSE Target
R1 == Byte(virtualMem, reg[8] + 1) \div 16
R2 == Byte(virtualMem, reg[8] + 1) % 16
Compared(a, b) == IF a > b THEN 62 ELSE IF a < b THEN 60 ELSE 61

Executes(codes, regs, mem) ==
  /\ Running /\ ~AtBreakpoint /\ Opcode(reg[8]) \in codes
  /\ reg' = regs /\ virtualMem' = mem
  /\ bpLast' = IF reg[8] \in bptab THEN -1 ELSE bpLast
  /\ exec' = [exec EXCEPT !.steps = @ + 1]
  /\ UNCHANGED <<busy, bptab, estab, progAddr, fileLen, lastExecAddr, load>>

LoadCodes == (0 :> 0) @@ (104 :> 3) @@ (8 :> 2) @@ (108 :> 4) @@ (116 :> 5) @@ (4 :> 1)
StoreCodes == (12 :> 0) @@ (16 :> 1) @@ (20 :> 2) @@ (120 :> 3) @@ (124 :> 4) @@ (132 :> 5)

LoadRegister ==
  Executes(DOMAIN LoadCodes, [Next3 EXCEPT ![LoadCodes[Opcode(reg[8])]] = Value], virtualMem)
LoadCharacter ==
  Executes({80}, [Next3 EXCEPT ![0] = 256 * (reg[0] \div 256) + (Value \div 65536)], virtualMem)
StoreRegister ==
  Executes(DOMAIN StoreCodes, Next3, PutBytes(virtualMem, Place, Bytes3(reg[StoreCodes[Opcode(reg[8])]])))
StoreCharacter ==
  Executes({84}, Next3, PutBytes(virtualMem, Place, <<reg[0] % 16>>))
Add == Executes({24}, [Next3 EXCEPT ![0] = (reg[0] + Value) % 16777216], virtualMem)
Subtract == Executes({28}, [Next3 EXCEPT ![0] = (reg[0] - Value) % 16777216], virtualMem)
Compare == Executes({40}, [Next3 EXCEPT ![9] = Compared(reg[0], Value)], virtualMem)
TestIndex ==
  Executes({44}, [Next3 EXCEPT ![1] = @ + 1, ![9] = Compared(reg[1] + 1, Value)], virtualMem)
AndWord == Executes({64}, [Next3 EXCEPT ![0] = (@ & Value) % 16777216], virtualMem)
OrWord == Executes({68}, [Next3 EXCEPT ![0] = (@ | Value) % 16777216], virtualMem)
\* 0x30 JEQ, 0x34 JGT, 0x38 JLT, 0x3C J
JumpTaken == \/ Opcode(reg[8]) = 60
             \/ Opcode(reg[8]) = 48 /\ reg[9] = 61
             \/ Opcode(reg[8]) = 52 /\ reg[9] = 62
             \/ Opcode(reg[8]) = 56 /\ reg[9] = 60
Jump ==
  Executes({48, 52, 56, 60}, IF JumpTaken THEN [Next3 EXCEPT ![8] = Place] ELSE Next3, virtualMem)
JumpSubroutine ==
  Executes({72}, [Next3 EXCEPT ![2] = Next3[8], ![8] = Place], virtualMem)
ReturnSubroutine == Executes({76}, [reg EXCEPT ![8] = reg[2]], virtualMem)
AddRegisters ==
  Executes({144}, [Advanced(2) EXCEPT ![R2] = (@ + Advanced(2)[R1]) % 16777216], virtualMem)
SubtractRegisters ==
  Executes({148}, [Advanced(2) EXCEPT ![R2] = (@ - Advanced(2)[R1]) % 16777216], virtualMem)
CompareRegisters ==
  Executes({160}, [Advanced(2) EXCEPT ![9] = Compared(Advanced(2)[R1], Advanced(2)[R2])], virtualMem)
\* 0xA4 turns the register to the left, 0xA8 shifts it right and keeps its sign.
ShiftLeft ==
  Executes({164}, [Advanced(2) EXCEPT ![R1] = (@ % 2^(24 - R2)) * 2^R2 + (@ \div 2^(24 - R2))], virtualMem)
ShiftRight ==
  Executes({168}, [Advanced(2) EXCEPT ![R1] =
                     (@ \div 2^R2) + (IF @ < 8388608 THEN 0 ELSE (2^R2 - 1) * 2^(24 - R2))], virtualMem)
MoveRegister == Executes({172}, [Advanced(2) EXCEPT ![R2] = Advanced(2)[R1]], virtualMem)
Clear == Executes({180}, [Advanced(2) EXCEPT ![R1] = 0], virtualMem)
TestIndexRegister ==
  Executes({184}, [Advanced(2) EXCEPT ![1] = @ + 1,
                     ![9] = Compared(reg[1] + 1, IF R1 = 1 THEN reg[1] + 1 ELSE reg[R1])], virtualMem)
\* The devices are always ready, and have nothing to read or write.
TestDevice == Executes({224}, [Next3 EXCEPT ![9] = 60], virtualMem)
ReadWriteDevice == Executes({216, 220}, Next3, virtualMem)

Implemented ==
  DOMAIN LoadCodes \cup DOMAIN StoreCodes \cup
  {24, 28, 40, 44, 48, 52, 56, 60, 64, 68, 72, 76, 80, 84, 144, 148, 160, 164, 168, 172, 180, 184,
   216, 220, 224}

\* Any other opcode leaves the program counter where it is.
UnknownOpcode ==
  /\ Running /\ ~AtBreakpoint /\ Opcode(reg[8]) \notin Implemented
  /\ IF reg[8] \in bptab THEN bpLast' = -1 /\ UNCHANGED busy
     ELSE busy' = "stuck" /\ UNCHANGED bpLast
  /\ UNCHANGED <<reg, bptab, exec, loaderVars>>

RunStep ==
  \/ LoadRegister \/ LoadCharacter \/ StoreRegister \/ StoreCharacter \/ Add \/ Subtract
  \/ Compare \/ TestIndex \/ AndWord \/ OrWord \/ Jump \/ JumpSubroutine \/ ReturnSubroutine
  \/ AddRegisters \/ SubtractRegisters \/ CompareRegisters \/ ShiftLeft \/ ShiftRight
  \/ MoveRegister \/ Clear \/ TestIndexRegister \/ TestDevice \/ ReadWriteDevice
  \/ UnknownOpcode \/ RunStops \/ RunEnds
=============================================================================
