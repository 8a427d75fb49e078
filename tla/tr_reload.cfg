SPECIFICATION Spec
CONSTANTS
    E = E
    S = S
    T = T
    a = a
    b = b
    c = c
    Root = Root
    None = None
    Broken = Broken
    Dirs = {E}
    Files = {a, c}
    Parent <- TwoFiles
    Steady = {E}
    Alike = {}
    Transfers = {a, c}
    YmlChoices <- AddedYmls
    MaxKernel = 9
    MaxWatches = 2
    CacheLimit = 9
    AtStart <- FileAtStart
    MaxChanges = 3
    MaxReloads = 1
    MaxGauges = 0
CHECK_DEADLOCK FALSE
INVARIANTS
    ReloadTakesEffect
