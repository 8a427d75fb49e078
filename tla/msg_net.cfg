SPECIFICATION FSpec
CONSTANTS
    m1 = m1
    m2 = m2
    e1 = e1
    o1 = o1
    b1 = b1
    n1 = n1
    n2 = n2
    t1 = t1
    None = None
    Torn = Torn
    NoTopic = NoTopic
    Messages = {m1, m2, e1, o1, b1}
    EmptyMessages = {e1}
    NetSenders = {n1, n2}
    FileSenders = {}
    QueueLimit = 0
    MaxResends = 1
    MaxFaults = 0
    Topics = {t1}
    Parts = {0, 1}
    IntValues = 4
    Requests <- MCRequests
    AtStart <- OnePart
    MaxChanges = 1
SYMMETRY Symmetry
INVARIANTS
    TypeOK
    NoLoss
    TornGoneWhileServing
    FrontTypeOK
    AnsweredIsKept
    RefusedIsNowhere
    SentWasKnown
PROPERTY
    KeepsPromise
