SPECIFICATION TerminalSpec
CONSTANTS
  r1 = r1  r2 = r2  w1 = w1
  Readers = {r1, r2}
  Writers = {w1}
  INTQ_BUFSIZE = 3
  ShiftKeys = {"left_ctrl", "right_alt"}
  MaxIn = 3
  MaxOut = 3
  NoThread = none
SYMMETRY ReaderSymmetry
CHECK_DEADLOCK FALSE
INVARIANT WaitAsserted
