SPECIFICATION ApplicationsSpec
CONSTANTS
  QueueLen = 2
  Presses <- SomePresses
  MaxPresses = 2
  MaxMinutes = 1
  BoardTimes = {2359}
  Answers <- SomeAnswers
  MAX_WIDTH = 2
  b1 = b1  b2 = b2  user = user
  Browsers = {b1, b2}
  Users = {user}
  Anonymous = anonymous
  StartMoney = 5
  PerCoin = 4
  Price = 6
  PixelPrice = 1
  Amounts <- SomeAmounts
  Areas <- SomeAreas
  MaxTrades = 2
  SourceNames = {"p.asm"}
  ObjectName <- ObjectOf
  Directory <- SomeFiles
  RecordEnd = 30
  Garbage <- SomeGarbage
  MaxSteps = 30
  LoaderFiles <- SomeLoads
  Addresses = {4096}
  Points = {6}
  Edits <- SomeEdits
  Fills <- SomeFills
  Dumps <- SomeDumps
  Copies <- SomeCopies
  Touches = {"p.obj"}
  MaxTurns = 4
  Arrays <- SomeArrays
  InsertBelow = 8
  Lists <- SomeLists
  Squares <- SomeSquares
  LeastCentre <- BelowAllSums
  Numbers <- SomeNumbers
  Limits = {0, 1, 4, 9, 17, 23}
  Epsilons <- SomeEpsilons
  Digraphs <- SomeDigraphs
  Polygons <- SomePolygons
SYMMETRY BrowserSymmetry
CHECK_DEADLOCK FALSE
INVARIANTS BoardClearedAtEnd FndNotShared NothingGained SortsCorrectly BestSumsFound SubsetsFound PathFound LeastTriangulation
PROPERTIES TargetsReached LinkedSum
