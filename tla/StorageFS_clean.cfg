SPECIFICATION CleanSpec
CONSTANTS
    Threads = {t1}
    Base = base
    f1 = f1
    f2 = f2
    Zero = zero
    FileTags = {base, f1, f2}
    Data = {zero, a}
    NBlocks = 3
    MaxBit = 3
    BlockSize = 2
    Sizes = {0, 4}
    MaxLen = 2
    Ops = {"CREATE", "TRUNCATE", "WRITE", "READ", "COMMIT", "TAG", "DELETE"}
    None = None
SYMMETRY Symmetry
INVARIANTS TypeOK MetadataMatchesLinks NoBlockLost LinkedIsUsed HashIndexIsTrue
PROPERTIES CommittedIsFrozen ReservedIsFree ImplementsFileStore
CHECK_DEADLOCK FALSE
