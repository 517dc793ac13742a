SPECIFICATION MCSpec
CONSTANTS
    IRAM = 1
    IRAM_END = 5
    SRAM = 10
    SRAM_END = 23
    BUFF = 9
    HEADER = 3
    ICON = 2
    LAUNCHES = 2
    Programs <- MCPrograms
    Symbols <- MCSymbols
    TextSizes = {2}
    RelocsIn <- MCRelocs
    RELOCS = 2
    Width = 8
    SrfObjects <- MCSrfObjects
    Libraries <- MCLibraries
    Signed = 4
    SCT = 5
    N = 8
    F = 4
    FLAGS = 3
    HDR = 2
    ENT = 3
    BUFFER = 13
    INDEX_CAP = 3
    Songs <- MCSongs
    PadSets <- MCPadSets
    EXT = 8
    IMM = 8
    SPIMM = 16
    SHIFT = 3
    SourceLines <- MCLines
    FMAX = 7
    PRESSED = 2
    Disks <- MCDisks
    LAST = 12
    ByteValues <- MCBytes
    Planes = {0, 1}
    Cells <- MCCells
    Chars <- MCChars
    Blank = 0
    Invalid = 65535
    Patterns = {"p1", "p2"}
    CX = 4
    CY = 4
    cur_rx = 3
    cur_dy = 3
    Maps <- MCMaps
    SetCells <- MCSetCells
    PutChars = {7}
    Targets <- MCTargets
    DispModes <- MCDispModes
    SPRMAX = 1
    SpriteRegs <- MCSpriteRegs
    CALLS = 5
    FR_Y = 4
    Lines = 8
    Xs <- MCXs
    Ys <- MCYs
    SpriteXs <- MCSpriteXs
    SpriteYs <- MCSpriteYs
INVARIANT BackToTheSameType
CHECK_DEADLOCK FALSE
