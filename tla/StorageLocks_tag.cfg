SPECIFICATION FairSpec
CONSTANTS
    Threads = {t1, t2}
    FileTags = {f1, f2}
    LockIds = {l1, l2}
    None = None
    InitialFiles = {}
    Ops = {"CREATE", "USE", "TAG"}
    MaxCount = 2
PROPERTY WaitedLockIsReleased
CHECK_DEADLOCK FALSE
