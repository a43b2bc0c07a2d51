-------------------------------- MODULE Board --------------------------------
(***************************************************************************)
(* The board application (CSE4116/1): input, main and output processes     *)
(* that share one System V message queue, with a SIGALRM handler that runs *)
(* in the middle of main and sends messages of its own.                    *)
(*                                                                         *)
(* What main and its handler share is the record mem.  A press or a key    *)
(* becomes main's list of statements; the handler can come between any two *)
(* of them, and also between a control_* function's update of its array,   *)
(* the copy of that array into a message, and the sending of the message.  *)
(* What a device shows is reduced to whether it is clear.                  *)
(***************************************************************************)
EXTENDS Integers, Sequences, SequencesExt, FiniteSets

CONSTANTS
  QueueLen,     \* messages that fit into the queue
  Presses,      \* sets of switches pressed together
  MaxPresses,   \* presses between two changes of the mode
  MaxMinutes,   \* minutes the handler counts in one mode
  BoardTimes,   \* what the clock says, hour * 100 + minute
  Answers,      \* the games' random answers
  MAX_WIDTH     \* characters of the lcd

ASSUME BoardAssumption ==
  /\ QueueLen \in Nat \ {0} /\ MaxPresses \in Nat /\ MaxMinutes \in Nat
  /\ \A p \in Presses : p \subseteq 1..9 /\ p # {}
  /\ BoardTimes \subseteq {100 * h + m : h \in 0..23, m \in 0..59}
  /\ \A a \in Answers : a \subseteq 1..8 /\ Cardinality({s \in a : s % 2 = 1}) = 1
  /\ MAX_WIDTH \in Nat \ {0}

EnvKeys == {"VOLUMEUP", "VOLUMEDOWN", "BACK", "OTHER"}

VARIABLES
  msgq,      \* the messages in the queue; Removed after msgctl
  input,     \* the input process: [at, msg, presses]
  output,    \* the output process: "start", "run", "ended", "spin", "lost"
  shown,     \* which devices show nothing
  mode, todo, stage, copy,   \* main: its mode, statements, and the one at hand
  handling,  \* the device operations the signal handler has left to do
  mem        \* main's variables, and whether an alarm is set

boardVars == <<msgq, input, output, shown, mode, todo, stage, copy, handling, mem>>

----------------------------------------------------------------------------
\* Messages

Message(mtype, dtype, data) == [mtype |-> mtype, dtype |-> dtype, data |-> data]
NoMsg == Message(0, "", {})
Removed == << NoMsg >>    \* no queue
Room == msgq # Removed /\ Len(msgq) < QueueLen
Waiting(mtype) == {i \in DOMAIN msgq : msgq[i].mtype = mtype}
First(mtype) == CHOOSE i \in Waiting(mtype) : \A j \in Waiting(mtype) : i <= j

----------------------------------------------------------------------------
\* operation.c: what each control_* function does to main's memory

Base(m) == CASE m.fnd_base = 2 -> 10 [] m.fnd_base = 1 -> 2
             [] m.fnd_base = 3 -> 8  [] m.fnd_base = 4 -> 4
Top(m) == Base(m) * Base(m) * Base(m) * Base(m)

ChangedBase(m) ==
  LET n == [m EXCEPT !.fnd_base = IF @ = 4 THEN 1 ELSE @ + 1]
  IN [n EXCEPT !.fnd_curr = @ % Top(n)]

ControlFnd(m, op, time) ==
  LET minute == ((m.fnd_curr % 100) + 1) % 60
      hour == m.fnd_curr \div 100
  IN CASE op = "INCREASE"       -> [m EXCEPT !.fnd_curr = (@ + 1) % Top(m)]
       [] op = "RESET"          -> [m EXCEPT !.fnd_curr = 0, !.fnd_base = 2]
       [] op = "SET_BOARD_TIME" -> [m EXCEPT !.fnd_curr = time]
       [] op = "ADD_MINUTE"     ->
            [m EXCEPT !.fnd_curr = ((IF minute = 0 THEN hour + 1 ELSE hour) % 24) * 100 + minute]
       [] op = "ADD_HOUR"       -> [m EXCEPT !.fnd_curr = ((hour + 1) % 24) * 100 + (@ % 100)]
       [] op = "ADD_BASE"       -> [m EXCEPT !.fnd_curr = (@ + Base(m)) % Top(m)]
       [] op = "ADD_SQUARE"     -> [m EXCEPT !.fnd_curr = (@ + Base(m) * Base(m)) % Top(m)]
       [] op = "CHANGE_BASE"    -> ChangedBase(m)

ControlLcd(m, op) ==
  CASE op = "RESET"    -> [m EXCEPT !.lcd_idx = 0]
    [] op = "ADD_CHAR" -> [m EXCEPT !.lcd_idx = IF @ = MAX_WIDTH THEN @ ELSE @ + 1]
    [] op = "REPLACE"  -> m

ControlDot(m, op) ==
  CASE op = "RESET"            -> [m EXCEPT !.dot_input_mode = 0, !.dots = {}]
    [] op = "CLEAR"            -> [m EXCEPT !.dots = {}]
    [] op = "PRINT_INPUT_MODE" -> [m EXCEPT !.dot_input_mode = 1 - @, !.dots = {"lit"}]
    [] OTHER                   -> [m EXCEPT !.dots = {"lit"}]

Control(m, s, time) ==
  CASE s.dev = "FND" -> ControlFnd(m, s.op, time)
    [] s.dev = "LCD" -> ControlLcd(m, s.op)
    [] s.dev = "DOT" -> ControlDot(m, s.op)
    [] s.dev = "LED" -> [m EXCEPT !.led_mask = IF s.op = "RESET" THEN {} ELSE {"lit"}]

\* The message with a device's array: here, whether anything is in it.
Snapshot(m, dev) ==
  Message(2, dev, CASE dev = "FND" -> IF m.fnd_curr = 0 THEN {} ELSE {"lit"}
                    [] dev = "LCD" -> IF m.lcd_idx = 0 THEN {} ELSE {"lit"}
                    [] dev = "DOT" -> m.dots
                    [] dev = "LED" -> m.led_mask)

----------------------------------------------------------------------------
\* modes.c: statements of main

Fnd(op) == [do |-> "control", dev |-> "FND", op |-> op]
Lcd(op) == [do |-> "control", dev |-> "LCD", op |-> op]
Dot(op) == [do |-> "control", dev |-> "DOT", op |-> op]
Led(op) == [do |-> "control", dev |-> "LED", op |-> op]
Assign(values) == [do |-> "assign", values |-> values]
Alarm == Assign([armed |-> TRUE])

Toggle(flags, f) == IF f \in flags THEN flags \ {f} ELSE flags \cup {f}

initialize_board ==
  << Assign([armed |-> FALSE]),
     Assign([alarm_flag |-> {}, sec |-> 0, prev |-> -1, numeric |-> FALSE,
             cnt |-> 0, ingame |-> FALSE, ans |-> {}, minutes |-> 0]),
     Fnd("RESET"), Lcd("RESET"), Dot("RESET"), Led("RESET") >>

initiate_mode(n) ==
  CASE n = 0 -> << Fnd("SET_BOARD_TIME"), Led("SET"),
                   Assign([alarm_flag |-> {"MODE_1", "BOARD_TIME"}]), Alarm >>
    [] n = 1 -> << Led("SET") >>
    [] n = 2 -> << Dot("PRINT_INPUT_MODE") >>
    [] n = 3 -> << Dot("CURSOR_SHOW"), Assign([alarm_flag |-> {"MODE_4"}]), Alarm >>
    [] n = 4 -> << >>

\* Mutant of EditTime: the time is set without looking at the edit mode.
EditTime_always(m, op) == << Fnd(op) >>
EditTime(m, op) == IF "BLINK" \in m.alarm_flag THEN << Fnd(op) >> ELSE << >>

mode1(m, sw) ==
  LET f == m.alarm_flag \ {"BOARD_TIME"}
  IN CASE sw = {1} -> << Assign([alarm_flag |-> f]),
                         Assign([alarm_flag |-> Toggle(f, "BLINK")]),
                         Led("SET"), Assign([sec |-> 0]), Alarm >>
       [] sw = {2} -> EditTime(m, "SET_BOARD_TIME")
       [] sw = {3} -> EditTime(m, "ADD_HOUR")
       [] sw = {4} -> EditTime(m, "ADD_MINUTE")
       [] OTHER    -> << >>

mode2(m, sw) ==
  (CASE sw = {1} -> << Fnd("CHANGE_BASE") >>
     [] sw = {2} -> << Fnd("ADD_SQUARE") >>
     [] sw = {3} -> << Fnd("ADD_BASE") >>
     [] sw = {4} -> << Fnd("INCREASE") >>
     [] OTHER    -> << >>)
  \o << Led("SET") >>

ClearText == << Assign([prev |-> -1]), Lcd("RESET") >>

TypeLetter(m, sw) ==
  LET cur == CHOOSE s \in sw : TRUE
  IN IF m.numeric THEN << Lcd("ADD_CHAR") >>
     ELSE IF m.prev = cur
          THEN << Assign([cnt |-> (m.cnt + 1) % 3]), Lcd("REPLACE") >>
          ELSE << Assign([cnt |-> 0]), Lcd("ADD_CHAR"), Assign([prev |-> cur]) >>

mode3(m, sw) ==
  << Fnd("INCREASE") >>
  \o CASE Cardinality(sw) = 1 -> TypeLetter(m, sw)
       [] sw = {2, 3} -> ClearText
       [] sw = {5, 6} -> << Assign([numeric |-> ~m.numeric]), Dot("PRINT_INPUT_MODE") >>
       [] sw = {8, 9} -> << Lcd("ADD_CHAR") >>
       [] OTHER       -> << >>

DotKeys == <<"RESET", "CURSOR_UP", "CURSOR_SHOW", "CURSOR_LEFT", "SELECT",
             "CURSOR_RIGHT", "CLEAR", "CURSOR_DOWN", "REVERSE">>

mode4(m, sw) ==
  LET f == Toggle(m.alarm_flag, "MODE_4")
  IN << Fnd("INCREASE") >>
     \o CASE sw = {3} -> << Assign([alarm_flag |-> f]) >>
                         \o (IF f # {} THEN << Dot("CURSOR_SHOW"), Alarm >>
                                       ELSE << Dot("CURSOR_HIDE") >>)
          [] Cardinality(sw) = 1 /\ sw # {3} -> << Dot(DotKeys[CHOOSE s \in sw : TRUE]) >>
          [] OTHER -> << >>

\* The answer is compared last, with what the handler has put there meanwhile.
mode5(m, sw) ==
  (IF m.ingame THEN << Fnd("INCREASE") >> ELSE << >>)
  \o (CASE sw = {5} /\ ~m.ingame ->
             << Assign([ingame |-> TRUE]), Dot("PRINT_3"), Assign([sec |-> 2]),
                Assign([alarm_flag |-> m.alarm_flag \cup {"MODE_5"}]), Alarm >>
        [] sw = {9} -> << Assign([ans |-> {}]), Assign([ingame |-> FALSE]),
                          Led("RESET"), Dot("RESET"), Lcd("RESET"), Fnd("RESET") >>
        [] OTHER -> << >>)
  \o << [do |-> "judge", sw |-> sw] >>

Congratulation == << Dot("REVERSE") >> \o [i \in 1..9 |-> Lcd("ADD_CHAR")]

run_mode(n, m, sw) ==
  CASE n = 0 -> mode1(m, sw) [] n = 1 -> mode2(m, sw) [] n = 2 -> mode3(m, sw)
    [] n = 3 -> mode4(m, sw) [] n = 4 -> mode5(m, sw)

----------------------------------------------------------------------------
\* main.c

BoardInit ==
  /\ msgq = <<>>
  /\ input = [at |-> "run", msg |-> NoMsg, presses |-> 0]
  /\ output = "start"
  /\ shown = [d \in {"FND", "LCD", "DOT", "LED"} |-> {}]
  /\ mode = 0 /\ todo = initialize_board \o initiate_mode(0)
  /\ stage = "do" /\ copy = NoMsg /\ handling = <<>>
  /\ mem = [armed |-> FALSE, alarm_flag |-> {}, sec |-> 0, prev |-> 0, numeric |-> FALSE,
            cnt |-> 0, ingame |-> FALSE, ans |-> {}, minutes |-> 0,
            fnd_curr |-> 0, fnd_base |-> 0, lcd_idx |-> 0,
            dot_input_mode |-> 0, dots |-> {}, led_mask |-> {}]

MainRuns == handling = <<>>
AtStatement(kind) == todo # <<>> /\ stage = "do" /\ Head(todo).do = kind

\* Mutant of Leave: the last message is sent before the board is cleared.
Leave_first ==
  << [do |-> "kill"], [do |-> "term"] >> \o initialize_board
  \o << [do |-> "wait"], [do |-> "remove"] >>

Leave == << [do |-> "kill"] >> \o initialize_board
         \o << [do |-> "term"], [do |-> "wait"], [do |-> "remove"] >>

ChangeMode(n) ==
  /\ mode' = n
  /\ todo' = initialize_board \o initiate_mode(n)

\* One round of main's loop up to the work a message makes; an interrupted
\* receive starts the round again.
MainReceive ==
  /\ MainRuns /\ todo = <<>> /\ Waiting(1) # {}
  /\ LET i == First(1)
         msg == msgq[i]
     IN /\ msgq' = RemoveAt(msgq, i)
        /\ CASE msg.dtype = "switch"   -> todo' = run_mode(mode, mem, msg.data) /\ UNCHANGED mode
             [] msg.data = "VOLUMEUP"   -> ChangeMode((mode + 1) % 5)
             [] msg.data = "VOLUMEDOWN" -> ChangeMode((mode + 4) % 5)
             [] msg.data = "BACK"       -> todo' = Leave /\ UNCHANGED mode
             [] OTHER                   -> UNCHANGED <<todo, mode>>
  /\ UNCHANGED <<input, output, shown, stage, copy, handling, mem>>

MainAssign ==
  /\ MainRuns /\ AtStatement("assign")
  /\ LET v == Head(todo).values
     IN mem' = [x \in DOMAIN mem |-> IF x \in DOMAIN v THEN v[x] ELSE mem[x]]
  /\ todo' = Tail(todo)
  /\ UNCHANGED <<msgq, input, output, shown, mode, stage, copy, handling>>

MainJudge ==
  /\ MainRuns /\ AtStatement("judge")
  /\ todo' = (IF mem.ingame /\ Head(todo).sw = mem.ans THEN Congratulation ELSE <<>>)
             \o Tail(todo)
  /\ UNCHANGED <<msgq, input, output, shown, mode, stage, copy, handling, mem>>

MainControl ==
  /\ MainRuns /\ AtStatement("control")
  /\ \E time \in BoardTimes : mem' = Control(mem, Head(todo), time)
  /\ stage' = "copy"
  /\ UNCHANGED <<msgq, input, output, shown, mode, todo, copy, handling>>

\* enqueue_message: the copy, and the msgsnd, which waits for room.
MainCopy ==
  /\ MainRuns
  /\ \/ stage = "copy" /\ copy' = Snapshot(mem, Head(todo).dev)
     \/ AtStatement("term") /\ copy' = Message(2, "TERM", {})
  /\ stage' = "send"
  /\ UNCHANGED <<msgq, input, output, shown, mode, todo, handling, mem>>

MainSend ==
  /\ MainRuns /\ stage = "send" /\ Room
  /\ msgq' = Append(msgq, copy)
  /\ stage' = "do" /\ copy' = NoMsg /\ todo' = Tail(todo)
  /\ UNCHANGED <<input, output, shown, mode, handling, mem>>

MainKill ==
  /\ MainRuns /\ AtStatement("kill")
  /\ input' = [input EXCEPT !.at = "killed"]
  /\ todo' = Tail(todo)
  /\ UNCHANGED <<msgq, output, shown, mode, stage, copy, handling, mem>>

\* wait(NULL) returns for either child.
MainWait ==
  /\ MainRuns /\ AtStatement("wait") /\ (input.at = "dead" \/ output = "ended")
  /\ todo' = Tail(todo)
  /\ UNCHANGED <<msgq, input, output, shown, mode, stage, copy, handling, mem>>

MainRemove ==
  /\ MainRuns /\ AtStatement("remove")
  /\ msgq' = Removed
  /\ UNCHANGED <<input, output, shown, mode, todo, stage, copy, handling, mem>>

----------------------------------------------------------------------------
\* periodic_control, the handler of SIGALRM.  Main stands still meanwhile, so
\* its assignments are made at once and its control_* calls one by one.

Counted == mem.alarm_flag = {"MODE_1"} /\ mem.sec = 55

HandlerValues(a) ==
  CASE mem.alarm_flag = {"MODE_1", "BLINK"} -> [sec |-> IF mem.sec % 2 = 0 THEN mem.sec + 1 ELSE mem.sec - 1,
                                               armed |-> TRUE]
    [] mem.alarm_flag = {"MODE_1", "BOARD_TIME"} -> [armed |-> TRUE]
    [] mem.alarm_flag = {"MODE_1"} ->
         [sec |-> IF Counted THEN 0 ELSE mem.sec + 5, armed |-> TRUE,
          minutes |-> IF Counted THEN mem.minutes + 1 ELSE mem.minutes]
    [] mem.alarm_flag = {"MODE_4"} -> [armed |-> TRUE]
    [] mem.alarm_flag = {"MODE_5"} /\ mem.sec > 0 -> [sec |-> mem.sec - 1, armed |-> TRUE]
    [] mem.alarm_flag = {"MODE_5"} /\ mem.sec = 0 -> [ans |-> mem.ans \cup a, armed |-> FALSE]
    [] OTHER -> [armed |-> FALSE]

HandlerOps ==
  CASE {"MODE_1", "BLINK"} \subseteq mem.alarm_flag -> << Led("SET") >>
    [] mem.alarm_flag = {"MODE_1", "BOARD_TIME"} -> << Fnd("SET_BOARD_TIME") >>
    [] Counted -> << Fnd("ADD_MINUTE") >>
    [] mem.alarm_flag = {"MODE_4"} -> << Dot("CURSOR_SHOW") >>
    [] mem.alarm_flag = {"MODE_5"} ->
         IF mem.sec > 0 THEN << Dot("PRINT") >>
                        ELSE << Dot("RESET"), Dot("REVERSE"), Led("SET") >>
    [] OTHER -> << >>

\* The alarm interrupts main, which loses the message of a msgsnd that waits.
\* (Seconds are bounded: they pass 60 only while main is about to reset them.)
SigAlarm ==
  /\ handling = <<>> /\ mem.armed /\ msgq # Removed
  /\ mem.sec < 60 /\ (Counted => mem.minutes < MaxMinutes)
  /\ \E a \in Answers :
       LET v == HandlerValues(a)
       IN mem' = [x \in DOMAIN mem |-> IF x \in DOMAIN v THEN v[x] ELSE mem[x]]
  /\ handling' = HandlerOps
  /\ \/ UNCHANGED <<todo, stage, copy>>
     \/ /\ stage = "send" /\ ~Room
        /\ todo' = Tail(todo) /\ stage' = "do" /\ copy' = NoMsg
  /\ UNCHANGED <<msgq, input, output, shown, mode>>

HandlerControl ==
  /\ handling # <<>> /\ Room
  /\ \E time \in BoardTimes :
       LET m == Control(mem, Head(handling), time)
       IN mem' = m /\ msgq' = Append(msgq, Snapshot(m, Head(handling).dev))
  /\ handling' = Tail(handling)
  /\ UNCHANGED <<input, output, shown, mode, todo, stage, copy>>

----------------------------------------------------------------------------
\* process.c

InputSwitch ==
  /\ input.at # "dead" /\ input.msg = NoMsg /\ input.presses < MaxPresses
  /\ \E p \in Presses :
       input' = [input EXCEPT !.msg = Message(1, "switch", p), !.presses = @ + 1]
  /\ UNCHANGED <<msgq, output, shown, mode, todo, stage, copy, handling, mem>>

InputKey ==
  /\ input.at # "dead" /\ input.msg = NoMsg
  /\ \E k \in EnvKeys :
       input' = [input EXCEPT !.msg = Message(1, "env", k),
                              !.presses = IF k \in {"VOLUMEUP", "VOLUMEDOWN"} THEN 0 ELSE @]
  /\ UNCHANGED <<msgq, output, shown, mode, todo, stage, copy, handling, mem>>

InputSend ==
  /\ input.at # "dead" /\ input.msg # NoMsg /\ Room
  /\ msgq' = Append(msgq, input.msg)
  /\ input' = [input EXCEPT !.msg = NoMsg]
  /\ UNCHANGED <<output, shown, mode, todo, stage, copy, handling, mem>>

InputDies ==
  /\ input.at = "killed"
  /\ input' = [at |-> "dead", msg |-> NoMsg, presses |-> 0]
  /\ UNCHANGED <<msgq, output, shown, mode, todo, stage, copy, handling, mem>>

\* A queue that main has removed is made anew, and nobody sends to it.
OutputStart ==
  /\ output = "start"
  /\ output' = IF msgq = Removed THEN "lost" ELSE "run"
  /\ UNCHANGED <<msgq, input, shown, mode, todo, stage, copy, handling, mem>>

OutputReceive ==
  /\ output = "run" /\ Waiting(2) # {}
  /\ LET i == First(2)
         msg == msgq[i]
     IN /\ msgq' = RemoveAt(msgq, i)
        /\ IF msg.dtype = "TERM"
           THEN output' = "ended" /\ UNCHANGED shown
           ELSE shown' = [shown EXCEPT ![msg.dtype] = msg.data] /\ UNCHANGED output
  /\ UNCHANGED <<input, mode, todo, stage, copy, handling, mem>>

\* Without the queue every receive fails and the last message is shown again.
OutputFails ==
  /\ output = "run" /\ msgq = Removed
  /\ output' = "spin"
  /\ UNCHANGED <<msgq, input, shown, mode, todo, stage, copy, handling, mem>>

----------------------------------------------------------------------------
Main == \/ MainReceive \/ MainAssign \/ MainJudge \/ MainControl \/ MainCopy
        \/ MainSend \/ MainKill \/ MainWait \/ MainRemove
Input == InputSwitch \/ InputKey \/ InputSend \/ InputDies
Output == OutputStart \/ OutputReceive \/ OutputFails

BoardNext == Main \/ SigAlarm \/ HandlerControl \/ Input \/ Output

BoardSpec == BoardInit /\ [][BoardNext]_boardVars

\* Processes run; alarms are seconds apart, so main gets on between them.
BoardFairness ==
  /\ SF_boardVars(Main) /\ WF_boardVars(HandlerControl) /\ WF_boardVars(Output)
  /\ WF_boardVars(InputSend) /\ WF_boardVars(InputDies)
BoardFairSpec == BoardSpec /\ BoardFairness

----------------------------------------------------------------------------
\* Properties

\* When the output process has ended, the board is clear: nothing that was sent
\* before, by main or by its handler, is shown over it (main.c:84, process.c).
BoardClearedAtEnd == output = "ended" => \A d \in DOMAIN shown : shown[d] = {}

\* control_fnd reads, changes and writes a number without protection from the
\* handler: it is never interrupted by one that changes the number too.  Only the
\* flags decide that, and they change with the mode and the edit mode (modes.c).
FndNotShared ==
  \A i \in DOMAIN handling :
    handling[i].dev = "FND" =>
      ~ (todo # <<>> /\ Head(todo).do = "control" /\ Head(todo).dev = "FND")

\* Main comes back for the next key, "then passes result to output_process"
\* (main.c:13).
MainReturns == todo # <<>> ~> (todo = <<>> \/ msgq = Removed)
=============================================================================
