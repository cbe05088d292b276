SPECIFICATION FairSpec
CONSTANTS
    None = None
    a = a
    b = b
    c = c
    Goroutine = {g1, g2}
    Targets <- Four
    RawWeight <- FourWeights
    ExcludeSets <- Exclusions
    Wrap = 8
    History = 4
INVARIANTS
    NobodySkipped
    Proportional
    CountsSelections
    UndisturbedPicksLeast
PROPERTIES
    SelectionsComplete
