SPECIFICATION FairSpec
CONSTANTS
    Queries = {q1, q2}
    Workers = {w1}
    Agers = {}
    Acceptor = acceptor
    Algorithm = "PRIORIDADES"
    Aging = FALSE
    Priorities = {0, 1}
    None = None
PROPERTY PreemptionIsAnswered
CHECK_DEADLOCK FALSE
