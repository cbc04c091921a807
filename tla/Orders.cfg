SPECIFICATION Spec
CONSTANTS
  Orders = {o1, o2}
  Trackers = {k1, k2}
  Workers = {w1, w2}
  Tabs = {b1, b2}
  MaxPosts = 4
  NoPage = nopage
INVARIANTS TypeOK CompletedWasActive
PROPERTIES ClosingLeavesOnlyLate DeletedWasFree
SYMMETRY Symmetry
CHECK_DEADLOCK FALSE
