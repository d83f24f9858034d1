SPECIFICATION Spec
CONSTANTS
    Threads = {t1, t2, t3}
    FileTags = {f1}
    LockIds = {l1, l2}
    None = None
    InitialFiles = {}
    Ops = {"CREATE", "USE", "DELETE"}
    MaxCount = 2
SYMMETRY Symmetry
INVARIANTS TypeOK OneToken CountsWaiters NoWaiterOnFreedLock
CHECK_DEADLOCK FALSE
