SPECIFICATION FairSpec
CONSTANTS
    Proc = {p1, p2}
    NoDir = NoDir
    Nobody = Nobody
    GenSeen = TRUE
    MaxCrash = 2
INVARIANTS MutualExclusion HolderKept NothingAstray
PROPERTIES FailsClosed Recovers
