SPECIFICATION FairSpec
CONSTANTS
  MsgIds = {m1}
  Poison = {}
  RetryCount = 2
  Abort = 0
  StartOutage = 1
  ResetOutage = 1
  SilentLogin = FALSE
  MaxInbox = 2
PROPERTY ResetsEnd
CHECK_DEADLOCK FALSE
