CONSTANTS
    Peers = {p1, p2}
    Fds = {f1, f2}
    MaxBytes = 0
    MaxBufferSize = 1
    BacklogSize = 3
    MaxForeign = 0
    HandlerCalls = {"message_all_clients"}
    Nobody = Nobody
    Foreign = Foreign
    nullptr = nullptr
SPECIFICATION Spec
INVARIANT
    OnlyFailedClientsMarked
