----------------------------- MODULE MCSicShell -----------------------------
\* Programs, object files and command lines of SicShell for TLC.
EXTENDS SicShell

Of(label, op, operand) == Line(label, op, operand)
Num(label, op, n) == [Line(label, op, "") EXCEPT !.value = n]
Imm(label, op, operand) == [Line(label, op, operand) EXCEPT !.mode = "#"]
Ext(l) == [l EXCEPT !.extended = TRUE]
Indexed(l) == [l EXCEPT !.second = "X"]
Hex(label, bytes) == [Line(label, "BYTE", "") EXCEPT !.bytes = bytes, !.hex = TRUE]

\* A subroutine, an indirect jump, and a table out of reach of the program counter.
Subroutine == <<
  Num("COPY", "START", 0), Of("", "comment", ""),
  Of("FIRST", "STL", "RETADR"), Ext(Imm("", "LDB", "TAB")), Of("", "BASE", "TAB"),
  Of("", "JSUB", "SUM"), Of("", "STA", "FAR"),
  [Of("", "J", "RETADR") EXCEPT !.mode = "@"],
  Of("SUM", "CLEAR", "X"), Indexed(Of("", "LDA", "TAB")), Of("", "ADD", "ONE"),
  Of("", "RSUB", ""), Num("ONE", "WORD", 1), Num("RETADR", "RESW", 1),
  Num("GAP", "RESB", 2100), Num("TAB", "WORD", 5), Num("FAR", "RESW", 1),
  Of("", "END", "FIRST") >>
\* A loop over its registers, and an operand of format 4.
Loop == <<
  Num("LOOPS", "START", 48), [Num("FIRST", "LDA", 2) EXCEPT !.mode = "#"], Of("", "LDS", "ONE"),
  [Of("AGAIN", "SUBR", "S") EXCEPT !.second = "A"], [Num("", "COMP", 0) EXCEPT !.mode = "#"],
  Of("", "JGT", "AGAIN"), Ext(Of("", "STA", "SAVED")), Of("", "RSUB", ""),
  Hex("ONE", <<0, 0, 1>>), Num("SAVED", "RESW", 1), Of("", "END", "FIRST") >>
\* Every other instruction the simulator has.
Others == <<
  Num("ALL", "START", 0), Of("FIRST", "LDA", "WORD1"), Of("", "LDT", "WORD1"), Of("", "LDX", "WORD1"),
  Of("", "STX", "ROOM"), Of("", "STT", "ROOM"), Of("", "STS", "ROOM"), Of("", "STB", "ROOM"),
  Of("", "LDCH", "WORD1"), Of("", "STCH", "ROOM"), Of("", "SUB", "WORD1"), Of("", "COMP", "WORD1"),
  Of("", "TIX", "WORD1"), Of("", "AND", "WORD1"), Of("", "OR", "WORD1"),
  [Of("", "ADDR", "A") EXCEPT !.second = "X"], [Of("", "COMPR", "A") EXCEPT !.second = "X"],
  [Of("", "SHIFTL", "A") EXCEPT !.second = "X"], [Of("", "RMO", "A") EXCEPT !.second = "T"],
  Of("", "TIXR", "T"), Of("", "TD", "DEV"), Of("", "RD", "DEV"), Of("", "WD", "DEV"),
  Of("", "JEQ", "WORD1"), Of("", "JLT", "LAST"), Hex("DEV", <<241>>), Num("WORD1", "WORD", 65793),
  Num("ROOM", "RESB", 3), Of("LAST", "RSUB", ""), Of("", "END", "FIRST") >>
\* Sources with an error, and some that only look right.
Twice == << Num("P", "START", 0), Of("X1", "RSUB", ""), Of("X1", "RSUB", ""), Of("", "END", "X1") >>
Undefined == << Num("P", "START", 0), Of("X1", "LDA", "NONE"), Of("", "END", "X1") >>
Malformed == << Num("P", "START", 0), Of("", "malformed", ""), Of("", "END", "") >>
Blank == << Num("P", "START", 0), Of("X1", "LDA", "W"), Of("", "blank", ""), Of("", "ADD", "W"),
            Of("", "STA", "W"), Num("W", "WORD", 7), Of("", "END", "X1") >>
NoEnd == << Num("P", "START", 0), Of("X1", "LDA", "X1"), Num("", "RESW", 1), Of("", "RSUB", "") >>
\* A base register loaded relative to the program counter, and operands less and more than
\* 2048 behind the base.
Near == <<
  Num("NEAR", "START", 0), Imm("FIRST", "LDB", "TAB"), Of("", "CLEAR", "A"), Of("", "BASE", "TAB"),
  Of("", "STA", "FAR1"), Of("", "STA", "FAR2"), Of("", "RSUB", ""), Num("GAP", "RESB", 1500),
  Num("TAB", "RESB", 1000), Num("FAR1", "RESB", 1100), Num("FAR2", "RESW", 1),
  Of("", "END", "FIRST") >>
Sources == {Subroutine, Near, Loop, Others, Twice, Undefined, Malformed, NoEnd, Blank}

Header(name, n) == [type |-> "H", name |-> name, length |-> n]
Defined(name, a) == [type |-> "D", name |-> name, addr |-> a]
Refers(n, name) == [type |-> "R", num |-> n, name |-> name]
Text(a, bytes) == [type |-> "T", addr |-> a, bytes |-> bytes]
Changed(a, half, sign, n, name) ==
  [type |-> "M", addr |-> a, half |-> half, sign |-> sign, num |-> n, name |-> name]
End(a) == [type |-> "E", addr |-> a]

\* Two sections that use each other's symbols, with and without reference numbers; the
\* machine does not know the instruction at 6 of the first.
SectionA == << Header("PROGA", 12), Defined("LISTA", 3), Refers(2, "LISTB"), Refers(3, "PROGB"),
  Text(0, <<3, 16, 0, 5, 180, 16, 252, 0, 0, 0, 0, 9>>), Changed(1, 5, "+", 2, ""),
  Changed(9, 6, "+", 1, ""), Changed(9, 6, "+", 2, ""), Changed(9, 6, "-", 3, ""), End(0) >>
SectionB == << Header("PROGB", 9), Defined("LISTB", 6), Refers(0, "LISTA"),
  Text(0, <<164, 3, 168, 2, 0, 0, 0, 0, 1>>), Changed(6, 6, "+", 0, "LISTA"), Changed(6, 6, "-", 0, "PROGB"),
  End(0) >>
SectionC == << Header("PROGC", 3), Defined("LISTA", 0), Refers(2, "NOWHERE"), Text(0, <<76, 0, 0>>), End(0) >>

SomeGarbage == {-1, 0}
ObjectOf == [f \in {"p.asm"} |-> "p.obj"]
FilesWith(sources) ==
  {[f \in {"p.asm", "a.obj", "b.obj", "c.obj"} |->
      CASE f = "p.asm" -> s [] f = "a.obj" -> SectionA [] f = "b.obj" -> SectionB
        [] OTHER -> SectionC] : s \in sources}
SomeFiles == FilesWith(Sources)
BlankFiles == FilesWith({Blank})
SomeEdits == {<<0, 255>>}
SomeFills == {<<0, 2, 252>>}
SomeDumps == {<<1048570, 0>>}
SomeCopies == {<<"p.asm", "p.asm">>, <<"p.obj", "a.obj">>}
SomeLoads == {<<"p.obj">>, <<"a.obj", "b.obj">>, <<"b.obj", "a.obj">>, <<"c.obj">>, <<"a.obj", "c.obj">>,
  <<"b.obj", "b.obj">>}
=============================================================================
