SPECIFICATION ReloadFairSpec
CONSTANTS
    Call = {a1, a2, a3}
    OldCfg <- Loose
    NewCfg <- Tight
    DefaultConfig <- Defaults
    Horizon = 3
    SuccessCap = 2
INVARIANTS
    WithinThresholds
PROPERTIES
    ReloadKeepsVerdict
    RecoversUnlessCopied
