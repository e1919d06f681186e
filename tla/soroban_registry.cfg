SPECIFICATION Spec
CONSTANTS
    N = 3
    This = 3
    MIN_UNBONDING_PERIOD_SECS = 1
    Funding = 2
    MaxStake = 2
    MinStakes <- MCMinStakes
    Periods <- MCPeriods
    MaxTime = 3
INVARIANTS TypeOK StakesAreBacked ListMatchesEntries ExitNeverBlocked
PROPERTY ExitIsOneWay
CHECK_DEADLOCK FALSE
