SPECIFICATION Live
CONSTANTS
    s1 = s1  s2 = s2  n1 = n1  n2 = n2  x = x  y = y  z = z  p = p  q = q
    None = None
    Name = {n1, n2}
    Shard = {s1}
    ShardOf <- SameShard
    Evictable = {}
    Request = {p, q}
    Workload <- UseSecond
    Token = {x, y}
    Obj = {1, 2, 3, 4, 5, 6, 7}
    Stored <- EmptyFile
    SaveMayFail = FALSE
    MaxRestarts = 0
INVARIANTS ReadsSeeWrites DueSaved
PROPERTIES SavedStays EventuallySaved
