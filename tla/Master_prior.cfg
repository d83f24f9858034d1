SPECIFICATION CleanSpec
CONSTANTS
    Queries = {q1, q2, q3}
    Workers = {w1, w2}
    Agers = {}
    Acceptor = acceptor
    Algorithm = "PRIORIDADES"
    Aging = FALSE
    Priorities = {0, 1, 2}
    None = None
SYMMETRY Symmetry
INVARIANTS TypeOK ExecutingIsPaired ReadyIsSorted EvictionIsCovered
PROPERTY ImplementsScheduler
CHECK_DEADLOCK FALSE
