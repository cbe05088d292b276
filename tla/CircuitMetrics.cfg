SPECIFICATION MSpec
CONSTANTS
    Attempt = {a1, a2}
    Cfg <- CfgTwoFailures
    DefaultConfig <- CfgTwoFailures
    Horizon = 2
    SuccessCap = 2
INVARIANTS
    SlotsBackedByProbes
    NoMissedClose
    OpeningsCounted
PROPERTIES
    CircuitRefinement
    RecoversInAGap
    GaugeSettles
