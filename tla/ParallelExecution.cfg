\* Four agents, up to four dependencies, one name that is not an agent.
CONSTANTS
    K = 4
    Unknown = {0}
    Serial = {4}
    MaxAgents = 2
    MaxEdges = 4
    Graphs <- SomeGraphs
SPECIFICATION FairSpec
INVARIANTS
    ConcurrencyBounded
    IndependentWorkDone
PROPERTIES
    NothingStartedLate
    ImplementsTasks
    ExecuteReturns
CHECK_DEADLOCK FALSE
