SPECIFICATION StackSpec
CONSTANTS
    N = 2
    This = 2
    MIN_UNBONDING_PERIOD_SECS = 2
    MIN_TIMELOCK_SECONDS = 1
    MAX_TIMELOCK_SECONDS = 2
    Funding = 1
    MaxStake = 1
    MinStakes <- MCMinStakes
    Periods <- MCPeriods
    Assets = {A}
    Preimages = {p}
    Amounts <- MCOne
    Deposits <- MCZero
    MinDeposits <- MCZero
    MaxOrders = 1
    MaxTime = 4
INVARIANT StakeOutlivesOrders
PROPERTY NoOrdersWhileLeaving
CHECK_DEADLOCK FALSE
