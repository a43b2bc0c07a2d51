SPECIFICATION FairProcessSpec
CONSTANTS
  Main = main
  Procs <- MCProcs
  Codes <- MCCodes
  TID_ERROR = TID_ERROR
  Null = Null
  ThreadsFail = FALSE
  LoadsFail = FALSE
  Killed = TRUE
PROPERTY KilledIsReported
CHECK_DEADLOCK FALSE
