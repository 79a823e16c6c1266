SPECIFICATION Spec
CONSTANTS
  m1 = m1
  m2 = m2
  r1 = r1
  Absent = Absent
  Mirror = {m1, m2}
  Router = {r1}
  Node = {m1, m2, r1}
  Time = {0, 1}
  Ttl = {0}
  Tag = {"red"}
  Hour = {0, 1}
  BucketSecs = 1
  Retention = 0
  MaxIssued = 1
  MaxOffers = 1
  MaxLosses = 0
  MaxSaves = 0
SYMMETRY Interchangeable
INVARIANTS ExchangeConverges OrderFree
CHECK_DEADLOCK FALSE
