SPECIFICATION Spec
CONSTANTS
    Engine = "postgres"
    Calls = {c1, c2, c3}
    Locks = {l1, l2}
    Secrets = {s1}
    None = None
    MaxTrail = 4
INVARIANT TrailAccountsForRow
CHECK_DEADLOCK FALSE
SYMMETRY Symmetry
