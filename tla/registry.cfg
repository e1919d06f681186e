SPECIFICATION Spec
CONSTANTS
    N = 4
    This = 4
    Funding = 2
    MaxStake = 2
    MaxSlashed = 1
INVARIANTS TypeOK ListIsPacked StakesAreBacked OnlySlashingDeactivates
CHECK_DEADLOCK FALSE
