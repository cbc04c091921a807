SPECIFICATION FairSpec
CONSTANTS
  MsgIds = {m1, bad}
  Poison = {bad}
  RetryCount = 2
  Abort = 3
  StartOutage = 1
  ResetOutage = 2
  SilentLogin = FALSE
  MaxInbox = 2
INVARIANTS TypeOK StartedOnLiveSession HandledAtMostOnce NoConnectionLeaked
PROPERTIES TerminationIsFinal ServesOrGivesUp SilenceIsNoticed
CHECK_DEADLOCK FALSE
