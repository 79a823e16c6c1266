SPECIFICATION Spec
CONSTANTS
    s1 = s1  s2 = s2  n1 = n1  n2 = n2  x = x  y = y  z = z  p = p  q = q
    None = None
    Name = {n1, n2}
    Shard = {s1, s2}
    ShardOf <- Apart
    Evictable = {s1, s2}
    Request = {p}
    Workload <- ReadFirst
    Token = {x, y, z}
    Obj = {1, 2, 3, 4, 5, 6}
    Stored <- OldData
    SaveMayFail = TRUE
    MaxRestarts = 1
INVARIANTS Reachable NeverOrphaned
