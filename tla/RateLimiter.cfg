SPECIFICATION LimiterSpec
CONSTANTS
    r1 = r1
    r2 = r2
    r3 = r3
    Request = {r1, r2}
    Limit = 2
    Window = 3
    MaxLag = 1
    TicksPerSecond = 2
    MaxRetries = 1
SYMMETRY RequestSymmetry
INVARIANTS
    WindowBound
    RetryAfterHonest
