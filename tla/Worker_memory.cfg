SPECIFICATION Spec
CONSTANTS
    FileTags = {base, f1}
    Base = base
    Byte = {0, 1}
    Cero = 0
    TamPagina = 2
    CantidadMarcos = 2
    Algoritmos = {"LRU", "CLOCK-M"}
    Datos <- UnByte
    Direcciones = {1, 2}
    Sizes = {0, 2, 3}
    MaxLen = 2
    Otros = TRUE
    Iniciales <- DosStorages
    MaxInstr = 4
    None = None
INVARIANTS TypeOK FramesMatchPages CountCoversPresent CleanPageIsTrue AccessIsRight
PROPERTIES LeavingSavesAll ImplementsByteFiles
CHECK_DEADLOCK FALSE
