SPECIFICATION FilledSpec
CONSTANTS
    Threads = {t1, t2}
    Base = base
    f1 = f1
    f2 = f2
    Zero = zero
    FileTags = {base, f1}
    Data = {zero, a}
    NBlocks = 3
    MaxBit = 4
    BlockSize = 2
    Sizes = {0, 2}
    MaxLen = 1
    Ops = {"CREATE", "TRUNCATE", "WRITE", "COMMIT", "TAG", "DELETE"}
    None = None
INVARIANTS MetadataMatchesLinks NoBlockLost HashedLinkExists SizeIsBacked
CHECK_DEADLOCK FALSE
