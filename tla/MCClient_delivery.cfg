CONSTANTS
    Remote = remote
    Peers = {remote}
    Fds = {f1, f2}
    MaxBytes = 1
    MaxBufferSize = 1
    Nobody = Nobody
    Foreign = Foreign
SPECIFICATION FairSpec
PROPERTY
    RemoteIsHeard
