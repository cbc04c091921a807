SPECIFICATION FairSpec
CONSTANTS
  Devices = {d1}
  MaxTime = 3
  MaxOutbox = 2
  MaxInbox = 2
  MaxFaults = 2
  None = none
INVARIANTS TypeOK OneRowPerFix
PROPERTIES ShownNeverGoesBack RetainedArrives LatestArrives
