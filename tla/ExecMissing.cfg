SPECIFICATION ProcessSpec
CONSTANTS
  Main = main
  Procs <- MCProcs
  Codes <- MCCodes
  TID_ERROR = TID_ERROR
  Null = Null
  ThreadsFail = FALSE
  LoadsFail = TRUE
  Killed = FALSE
PROPERTY FailedLoadReported
CHECK_DEADLOCK FALSE
