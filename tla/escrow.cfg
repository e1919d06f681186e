SPECIFICATION Spec
CONSTANTS
    N = 3
    This = 3
    Contracts <- MCContracts
    Tokens = {T}
    Registries = {R}
    Preimages = {p}
    MIN_TIMELOCK = 1
    MAX_TIMELOCK = 2
    minSafetyDeposit = 0
    Funding = 2
    Amounts <- MCAmounts
    Deposits <- MCDeposits
    MaxOrders = 1
    MaxTime = 3
INVARIANTS TypeOK  SettlementNeverBlocked Solvency EveryoneIsPaid
PROPERTIES  IsHashTimeLock
CHECK_DEADLOCK FALSE
