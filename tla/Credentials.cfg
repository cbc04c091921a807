SPECIFICATION FairSpec
CONSTANTS
  Threads = {t1, t2}
  Names = {fcm, owner}
  Fcm = fcm
  Damaged = damaged
  Absent = absent
  Retries = 2
  MaxCalls = 4
INVARIANTS TypeOK MemoryIsOnDisk
PROPERTIES NothingForgotten AttemptsEnd
CHECK_DEADLOCK FALSE
