SPECIFICATION Spec
CONSTANTS
  Threads = {t1, t2}
  Names = {fcm, owner}
  Fcm = fcm
  Damaged = damaged
  Absent = absent
  Retries = 1
  MaxCalls = 2
INVARIANT WritesAreAtomic
CHECK_DEADLOCK FALSE
