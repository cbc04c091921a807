SPECIFICATION Spec
CONSTANTS
  MsgIds = {m1}
  Poison = {}
  RetryCount = 2
  Abort = 0
  StartOutage = 2
  ResetOutage = 2
  SilentLogin = FALSE
  MaxInbox = 2
INVARIANT DeadClientSaysSo
CHECK_DEADLOCK FALSE
