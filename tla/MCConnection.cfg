CONSTANTS
    Conns = {c1, c2}
    Acceptor = acceptor
    MaxFd = 3
    AddrInfos <- MCAddrInfos
    LocalAddr <- MCLocalAddr
    RemoteAddr <- MCRemoteAddr
SPECIFICATION Spec
SYMMETRY Symmetry
INVARIANTS
    TypeOK
    SocketsHeldOnce
    EndpointsTellConnection
    NoErrorMeansConnected
PROPERTIES
    OwnershipUntilLapse
