CONSTANTS
    Ids = {s1, s2, s3, s4}
    Agents = {a1, a2}
    MaxSessions = 1
    MaxCreating = 2
SPECIFICATION TableSpec
SYMMETRY Symmetry
INVARIANTS
    BoundedExcess
PROPERTIES
    ActiveGoLast
CHECK_DEADLOCK FALSE
