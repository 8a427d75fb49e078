SPECIFICATION FairSpec
CONSTANTS
    a = a
    b = b
    f = f
    o = o
    None = None
    DirPaths <- TwoDirs
    FilePaths <- NoPaths
    OtherPaths <- NoPaths
    IsBinary = FALSE
    Junk = {FALSE}
    TimerSaves = FALSE
    AcrossDirs = FALSE
    MaxLines = 9
    MaxFd = 9
    MaxFiles = 2
    MaxSize = 1
    MaxMoves = 1
    MaxRefusals = 0
    MaxBoots = 1
    MaxCrashes = 0
CHECK_DEADLOCK FALSE
PROPERTIES
    LinesAreRead
