SPECIFICATION CleanFairSpec
CONSTANTS
    Queries = {q1, q2}
    Workers = {w1}
    Agers = {a1, a2, a3}
    Acceptor = acceptor
    Algorithm = "PRIORIDADES"
    Aging = TRUE
    Priorities = {1}
    None = None
INVARIANTS TokensMatchLists EachQueryInOnePlace ReadyIsSorted
PROPERTIES PreemptionCompletes ImplementsScheduler
CHECK_DEADLOCK FALSE
