SPECIFICATION FairSpec
CONSTANTS
    a = a
    b = b
    f = f
    o = o
    None = None
    DirPaths <- OneDir
    FilePaths <- NoPaths
    OtherPaths <- NoPaths
    IsBinary = FALSE
    Junk = {FALSE, TRUE}
    TimerSaves = TRUE
    AcrossDirs = FALSE
    MaxLines = 1
    MaxFd = 0
    MaxFiles = 1
    MaxSize = 3
    MaxMoves = 0
    MaxRefusals = 2
    MaxBoots = 3
    MaxCrashes = 2
CHECK_DEADLOCK FALSE
INVARIANTS
    TypeOK
    NoGap
    SavedNotAhead
    RepeatsOnlyAfterCrash
PROPERTIES
    LinesAreReadUnlessClogged
