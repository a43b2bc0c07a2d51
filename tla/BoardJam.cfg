SPECIFICATION BoardFairSpec
CONSTANTS
  QueueLen = 1
  Presses <- OnePress
  MaxPresses = 1
  MaxMinutes = 0
  BoardTimes = {0}
  Answers <- SomeAnswers
  MAX_WIDTH = 1
CHECK_DEADLOCK FALSE
PROPERTY MainReturns
