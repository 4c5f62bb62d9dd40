CONSTANTS
    Peers = {p1, p2}
    Fds = {f1, f2}
    MaxBytes = 0
    MaxBufferSize = 1
    BacklogSize = 3
    MaxForeign = 0
    HandlerCalls = {}
    Nobody = Nobody
    Foreign = Foreign
    nullptr = nullptr
SPECIFICATION Spec
INVARIANT
    RemovedClientsAreNotified
