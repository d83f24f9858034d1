SPECIFICATION FiniteSpec
CONSTANTS
    Queries = {q1, q2}
    Workers = {w1, w2}
    Agers = {}
    Acceptor = acceptor
    Algorithm = "FIFO"
    Aging = FALSE
    Priorities = {0}
    None = None
INVARIANTS TokensMatchLists EachQueryInOnePlace
PROPERTIES EveryQueryEnds ImplementsScheduler
CHECK_DEADLOCK FALSE
