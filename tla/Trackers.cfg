SPECIFICATION Spec
CONSTANTS
  Names = {n1, n2}
  Serials = {s1, s2}
  Ids = {i1, i2, i3}
  Workers = {w1, w2}
  MaxPosts = 4
  None = none
  DefaultPageSize = 1
  MaxPageSize = 2
  MaxPage = 9
INVARIANTS TypeOK OneRowPerSerial SyncMakesCurrent LegacyAdopted ListReachesAll
SYMMETRY Symmetry
CHECK_DEADLOCK FALSE
