\* Two receives per connection: MaxBytes > MaxBufferSize.
CONSTANTS
    Peers = {p1, p2}
    Fds = {f1, f2}
    MaxBytes = 2
    MaxBufferSize = 1
    BacklogSize = 2
    MaxForeign = 0
    HandlerCalls = {"message_client", "message_all_clients", "remove_client"}
    Nobody = Nobody
    Foreign = Foreign
    nullptr = nullptr
SPECIFICATION Spec
SYMMETRY Symmetry
INVARIANTS
    RecvNeverBlocks
    NoByteLost
PROPERTIES
    SessionsRefined
