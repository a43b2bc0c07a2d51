SPECIFICATION FairProcessSpec
CONSTANTS
  Main = main
  Procs <- MCProcs
  Codes <- MCCodes
  TID_ERROR = TID_ERROR
  Null = Null
  ThreadsFail = TRUE
  LoadsFail = TRUE
  Killed = TRUE
INVARIANTS OneInFilesys FreedUnreachable NoUseAfterFree WaitReturnsStatus
PROPERTIES ImplementsCalls ParentsGoOn
CHECK_DEADLOCK FALSE
