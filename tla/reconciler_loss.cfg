SPECIFICATION Spec
CONSTANTS
    Chains = {"ethereum"}
    Orders = {o1}
    Legs = {"src"}
    Runs = {r1}
    Lookback = 3
    MaxBlock = 3
    MaxMishaps = 1
INVARIANTS RestartLosesNothing
