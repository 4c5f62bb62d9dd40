CONSTANTS
    Conns = {c1}
    Literals <- MCLiterals
    Sizes = {0, 1, 3}
    Config = {"readable"}
    Window = 1
    MaxSent = 4
    MaxArrived = 3
SPECIFICATION FairSpec
INVARIANTS
    TypeOK
    ReceivedInOrder
    PromisesKept
PROPERTIES
    SentWhole
    CleanEndIsComplete
    SendReturns
