SPECIFICATION Spec
CONSTANTS
    Copy = {p1}
    Write = {w1, w2}
    Answers <- MCAnswers
    KeepAlive = FALSE
    Failing = {"logging"}
    Edited = {"tiers"}
    MaxTools = 3
    MaxKills = 1
    Absent = Absent
INVARIANTS ShownKeysWork   
CHECK_DEADLOCK FALSE
