SPECIFICATION Spec
CONSTANTS
    hub = hub  leaf = leaf  own = own  root = root  linked = linked  user = user
    Key = {root, linked, user}
    Prefix <- Top
    Unusable <- NoPrefix
    Idle = {3600}
    DefaultTier = "hot"
    DefaultIdle = 3600
    Internal = "_internal"
    None = None
    Server = {hub, leaf, own}
    Wiring <- Wires
    LinkKey <- WireKeys
    Gossiping = {hub}
    Authority = {hub}
    Replaceable = {leaf}
    MaxHops = 2
    Start <- FirstLists
    Entry <- UserEntries
    Shard = {"feeds"}
    Setting <- OnlyCold
    Keep = 2
    Console = {hub}
    Overlap = FALSE
    MaxChanges = 2
    MaxFaults = 1
INVARIANTS DriftTruthful 
PROPERTIES OwnerPrevails OffersArrive
