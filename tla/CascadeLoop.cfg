SPECIFICATION Spec
CONSTANTS
    east = east  west = west  near = near  far = far  bare = bare
    Server = {east, west, near, far, bare}
    Entry = east
    Peers <- Wiring
    Mirror = {near, far}
    MaxHops = 3
    Request = "write"
INVARIANTS HopsBounded AckedIsCounted
PROPERTIES Answered
CHECK_DEADLOCK FALSE
