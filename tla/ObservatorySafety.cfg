SPECIFICATION ProcessSpec
CONSTANTS
    None = None
    r1 = r1
    r2 = r2
    n1 = n1
    Run <- Runs
    Name <- OneName
    Script <- SoftScript
    Nil = Nil
    a1 = a1
    q1 = q1
    q2 = q2
    Address <- OneAddress
    Request <- TwoRequests
    Ask <- Asks
    FileLists <- Lists
    Limit = 2
    Window = 2
    MaxRPS = 2
    MaxDuration = 2
    TTL = 1
    RefreshInterval = 3
    MaxTime = 3
CHECK_DEADLOCK FALSE
SYMMETRY RunSymmetry
INVARIANTS OneOwner NoOrphan BurstBound NoDebt RunsAsOffered
