SPECIFICATION Spec
CONSTANTS
    Threads = {t1}
    Base = base
    f1 = f1
    f2 = f2
    Zero = zero
    FileTags = {base, f1, f2}
    Data = {zero, a}
    NBlocks = 3
    MaxBit = 3
    BlockSize = 2
    Sizes = {0, 4}
    MaxLen = 2
    Ops = {"CREATE", "TRUNCATE", "WRITE", "COMMIT", "DELETE"}
    None = None
SYMMETRY Symmetry
PROPERTY CommittedIsFrozen
CHECK_DEADLOCK FALSE
