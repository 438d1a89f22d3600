\* A webseed is banned with requests outstanding.
CONSTANTS
    TotalSize = 6
    PieceSize = 3
    BlockSize = 2
    p1 = p1
    p2 = p2
    w1 = w1
    Peers <- OnePeer
    FastPeers <- NoSources
    Webseeds <- OneSeed
    MaxRequests = 1
    MaxTasks = 1
    MaxBadPiecesPerPeer = 2
    PeerBitfields <- FullBitfield
    MaxReplication = 2
SPECIFICATION Spec
INVARIANT MissingIsOnTheWay
