SPECIFICATION FairSpec
CONSTANTS
    E = E
    S = S
    T = T
    a = a
    b = b
    c = c
    Root = Root
    None = None
    Broken = Broken
    Dirs <- MCDirs
    Files = {a, b}
    Parent <- MCParent
    Steady = {E}
    Alike = {}
    Transfers = {E, a}
    YmlChoices <- MCYmls
    MaxKernel = 2
    MaxWatches = 2
    CacheLimit = 0
    AtStart <- MCAtStart
    MaxChanges = 2
    MaxReloads = 1
    MaxGauges = 1
CHECK_DEADLOCK FALSE
INVARIANTS
    TypeOK
    EventsAreNamed
    TransferIsWatched
    ChangeHasCarrier
    SubdirIsWatched
PROPERTIES
    ChangesAreRead
