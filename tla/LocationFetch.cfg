SPECIFICATION FairSpec
CONSTANTS
  Devices = {d1, d2, d3}
  BatchSize = 2
  MaxCycles = 2
  MaxRequests = 3
  NoAnswer = NoAnswer
INVARIANTS TypeOK OwnAnswerOnly NoDeadCallbacks RateLimited
PROPERTIES RequestsResolve
CHECK_DEADLOCK FALSE
