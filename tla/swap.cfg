SPECIFICATION Spec
CONSTANTS
    Secret = p
    MIN_TIMELOCK = 1
    Timelocks <- MCTimelocks
    MAX_TIMELOCK = 5
    Latency = 1
    ReactionTime = 1
    MaxSkew = 1
    Modes <- MCModes
    LastLock = 1
    MaxTime = 7
INVARIANTS EvmClaimantSafe SorobanClaimantSafe
PROPERTY LegsEnd
CHECK_DEADLOCK FALSE
