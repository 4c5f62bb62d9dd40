CONSTANTS
    Remote = remote
    Peers = {remote}
    Fds = {f1, f2}
    MaxBytes = 3
    MaxBufferSize = 2
    Nobody = Nobody
    Foreign = Foreign
SPECIFICATION FairSpec
INVARIANTS
    TypeOK
    SocketOwned
    ClosedIsReported
    StraysOnlyAfterClose
    NoticeHasCause
PROPERTIES
    NoGapInData
    DisconnectEndsThread
