CONSTANTS
    Peers = {p1, p2}
    Fds = {f1, f2}
    MaxBytes = 0
    MaxBufferSize = 1
    BacklogSize = 3
    MaxForeign = 0
    HandlerCalls = {"remove_client"}
    Nobody = Nobody
    Foreign = Foreign
    nullptr = nullptr
SPECIFICATION FairSpec
PROPERTIES
    StopEndsThread
    DestructorReturns
    FailedClientsLeave
    RemovedClientsLeave
