SPECIFICATION Spec
CONSTANTS
  a = a
  b = b
  c = c
  d = d
  e = e
  k1 = k1
  k2 = k2
  p1 = p1
  Addr <- AddrsFive
  Key <- TwoKeys
  Start <- StartFour
  Admin <- OneAdmin
  Others <- OthersFive
  MaxBatch = 2
  MaxBlocks = 2
INVARIANTS MembersExact
PROPERTIES ConsecutiveQuorums
CHECK_DEADLOCK FALSE
