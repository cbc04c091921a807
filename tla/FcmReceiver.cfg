SPECIFICATION FairSpec
CONSTANTS
  Threads = {t1, t2, t3}
  MaxClients = 2
  Free = free
INVARIANTS TypeOK NeverStartedTwice OnlyDeadReplaced RegisteredOnStarted
PROPERTIES DeadClientReplaced RegistrationCompletes
