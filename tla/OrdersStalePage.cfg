SPECIFICATION Spec
CONSTANTS
  Orders = {o1}
  Trackers = {k1, k2}
  Workers = {w1}
  Tabs = {b1, b2}
  MaxPosts = 3
  NoPage = nopage
PROPERTY ClosedGainsNothing
CHECK_DEADLOCK FALSE
