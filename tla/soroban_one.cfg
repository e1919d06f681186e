SPECIFICATION Spec
CONSTANTS
    N = 3
    This = 3
    Assets = {A}
    Registries = {R}
    Preimages = {p}
    MIN_TIMELOCK_SECONDS = 1
    MAX_TIMELOCK_SECONDS = 2
    Funding = 2
    Amounts <- MCAmounts
    Deposits <- MCDeposits
    MinDeposits <- MCMinDeposits
    MaxOrders = 1
    MaxTime = 3
INVARIANTS TypeOK ExactlyOneExit
PROPERTY IsHashTimeLock
CHECK_DEADLOCK FALSE
