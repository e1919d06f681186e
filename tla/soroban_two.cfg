SPECIFICATION Spec
CONSTANTS
    N = 3
    This = 3
    Assets = {A, B}
    Registries = {}
    Preimages = {p}
    MIN_TIMELOCK_SECONDS = 1
    MAX_TIMELOCK_SECONDS = 1
    Funding = 2
    Amounts <- MCOne
    Deposits <- MCOne
    MinDeposits <- MCZero
    MaxOrders = 2
    MaxTime = 2
INVARIANTS Solvency EveryoneIsPaid
CHECK_DEADLOCK FALSE
