SPECIFICATION Spec
CONSTANTS
    m1 = m1
    m2 = m2
    m3 = m3
    e1 = e1
    n1 = n1
    f1 = f1
    None = None
    Torn = Torn
    Messages <- MC3Messages
    EmptyMessages <- NoMessages
    NetSenders <- OneNet
    FileSenders <- OneFile
    QueueLimit = 0
    MaxResends = 1
    MaxFaults = 1
SYMMETRY Symmetry3
INVARIANTS
    QueueBounded
    NoDuplicate
