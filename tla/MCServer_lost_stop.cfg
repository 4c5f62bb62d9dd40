CONSTANTS
    Peers = {p1}
    Fds = {f1}
    MaxBytes = 0
    MaxBufferSize = 1
    BacklogSize = 3
    MaxForeign = 0
    HandlerCalls = {}
    Nobody = Nobody
    Foreign = Foreign
    nullptr = nullptr
SPECIFICATION FairSpec
PROPERTY
    StopIsHonoured
