SPECIFICATION Spec
CONSTANTS
    RBNULL = RBNULL
    Foreign = Foreign
    None = None
    Closed = Closed
    n1 = n1
    n2 = n2
    n3 = n3
    n4 = n4
    n5 = n5
    n6 = n6
    n7 = n7
    n8 = n8
    Nodes <- MCNodes
    MaxKey = 8
    Keys <- MCKeys
VIEW Shape
INVARIANTS
    TypeOK
    LinksAgree
    Accounted
    RedHasBlackChildren
    BlackCountsEqual
    TurnsBounded
PROPERTIES
    AnswersAsMap
