SPECIFICATION Spec
CONSTANTS
    t1 = t1
    t2 = t2
    r1 = r1
    r2 = r2
    None = None
    Request = {r1, r2}
    RouteTargets <- Repeated
    MaxAttempts = 2
    Cfg <- Sensitive
    DefaultConfig <- Sensitive
    Horizon = 1
    SuccessCap = 1
SYMMETRY RequestSymmetry
INVARIANTS
    ActiveIsInUse
    SlotsOwed
    NoRepeatInPass
PROPERTIES
    EveryStepAdvances
