SPECIFICATION Spec
CONSTANTS
    root = root  feed = feed  c1 = c1  c2 = c2  red = red  near = near  far = far  self = self
    Key = {root, feed}
    Prefix <- TwoPrefixes
    Unusable <- NoPrefix
    Caller = {c1, c2}
    Entry <- Entries
    DefaultKey = root
    CliKey = None
    Tag = {"tlp:red", "feed:"}
    Colour = {red}
    Seed <- Standard
    Url = {near, far, self}
    Fixed = {far}
    Self = self
    Shard = {"feeds"}
    Idle = {60}
    DefaultTier = "hot"
    DefaultIdle = 3600
    Internal = "_internal"
    ConfTiers <- NoTiers
    Stored <- FirstFiles
    None = None
    Blank = Blank
    Overlap = FALSE
    MayFail = TRUE
    MaxChanges = 2
INVARIANTS AdminRemains 
  
