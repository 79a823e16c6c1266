CONSTANTS
    hub = hub
    east = east
    west = west
    Entry = hub
    Peers <- PeersInOrder
    Namespace <- Names
    Internal <- OwnNames
    Holds <- HoldsOf
    Declared <- DeclaredOf
    Alive <- AliveSets
    Rank <- RankOf
    Refuses <- RefusesOf
    Value = {"x", "y"}
    Client = {1, 2}
    Batch <- Batches
    Wanted <- Exports
    Capacity = 1
    Stock <- Stocks
    MaxFaults = 1
    None = None
SPECIFICATION Spec
INVARIANTS AnswersInOrder SearchedOnce CountedOnce 
CHECK_DEADLOCK FALSE
