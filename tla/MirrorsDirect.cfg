SPECIFICATION Spec
CONSTANTS
  m1 = m1
  m2 = m2
  r1 = r1
  Absent = Absent
  Mirror = {m1, m2}
  Router = {}
  Node = {m1, m2}
  Time = {1, 3}
  Ttl = {1}
  Tag = {}
  Hour = {0}
  BucketSecs = 10
  Retention = 0
  MaxIssued = 2
  MaxOffers = 1
  MaxLosses = 1
  MaxSaves = 1
SYMMETRY Interchangeable
INVARIANTS NoOvercount
CHECK_DEADLOCK FALSE
