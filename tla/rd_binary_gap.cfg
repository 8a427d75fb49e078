SPECIFICATION Spec
CONSTANTS
    a = a
    b = b
    f = f
    o = o
    None = None
    DirPaths <- NoPaths
    FilePaths <- OneFile
    OtherPaths <- OneOther
    IsBinary = TRUE
    Junk = {FALSE}
    TimerSaves = FALSE
    AcrossDirs = FALSE
    MaxLines = 9
    MaxFd = 9
    MaxFiles = 2
    MaxSize = 2
    MaxMoves = 1
    MaxRefusals = 0
    MaxBoots = 1
    MaxCrashes = 0
CHECK_DEADLOCK FALSE
INVARIANTS
    NoGap
