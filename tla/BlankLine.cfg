SPECIFICATION SicSpec
CONSTANTS
  SourceNames = {"p.asm"}
  ObjectName <- ObjectOf
  Directory <- BlankFiles
  RecordEnd = 30
  Garbage <- SomeGarbage
  MaxSteps = 1
  LoaderFiles <- SomeLoads
  Addresses = {4096}
  Points = {6}
  Edits <- SomeEdits
  Fills <- SomeFills
  Dumps <- SomeDumps
  Copies <- SomeCopies
  Touches = {"p.obj"}
  MaxTurns = 2
CHECK_DEADLOCK FALSE
PROPERTY EveryTargetReached
