CONSTANTS
    Peers = {p1, p2, p3}
    Fds = {f1, f2, f3}
    MaxBytes = 0
    MaxBufferSize = 1
    BacklogSize = 3
    MaxForeign = 1
    HandlerCalls = {"remove_client"}
    Nobody = Nobody
    Foreign = Foreign
    nullptr = nullptr
SPECIFICATION Spec
SYMMETRY Symmetry
INVARIANTS
    TypeOK
    UniqueIds
    DescriptorsOwned
    ForeignIntact
    UnreportedClientsStay
    PollGroupTracksClients
    PolledDescriptorsAreOpen
    MarkedClientsFlagged
