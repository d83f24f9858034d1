SPECIFICATION Spec
CONSTANTS
    Threads = {t1, t2}
    FileTags = {f1}
    LockIds = {l1}
    None = None
    InitialFiles = {f1}
    Ops = {"USE"}
    MaxCount = 2
INVARIANT ExclusiveFileTag
CHECK_DEADLOCK FALSE
