SPECIFICATION Spec
CONSTANTS
    Engine = "sqlite"
    Calls = {c1, c2, c3}
    Locks = {l1, l2}
    Secrets = {s1}
    None = None
    MaxTrail = 4
INVARIANTS TypeOK TrailAccountsForRow StatusIsBackedByLocks
PROPERTY WritesFollowTheTable
CHECK_DEADLOCK FALSE
SYMMETRY Symmetry
