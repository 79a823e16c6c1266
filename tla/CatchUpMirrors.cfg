SPECIFICATION Spec
CONSTANTS
    a = a  b = b
    Mirror = {a, b}
    Value = {1, 2, 3}
    Peers <- InOrder
    Rank <- Ranks
    Page = 1
    Config <- Cases
    MaxEdits = 1
    MaxFaults = 1
    Failed = Failed
    None = None
PROPERTIES PullTakesAll ReadersCurrent NobodyBehind 
CHECK_DEADLOCK FALSE
