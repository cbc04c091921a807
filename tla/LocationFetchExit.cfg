SPECIFICATION FairSpec
CONSTANTS
  Devices = {d1, d2}
  BatchSize = 2
  MaxCycles = 2
  MaxRequests = 3
  NoAnswer = NoAnswer
PROPERTY PollsOnALoop
CHECK_DEADLOCK FALSE
