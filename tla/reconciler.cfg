SPECIFICATION Spec
CONSTANTS
    Chains = {"ethereum", "stellar"}
    Orders = {o1}
    Legs = {"src", "dst"}
    Runs = {r1}
    Lookback = 2
    MaxBlock = 4
    MaxMishaps = 1
INVARIANTS TypeOK CursorPassesOnlyClaimed  
PROPERTY EventsAreClaimed
