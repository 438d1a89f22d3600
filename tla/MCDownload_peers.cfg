\* Two pieces over three blocks, one straddling both; one fast peer, one not.
CONSTANTS
    TotalSize = 6
    PieceSize = 3
    BlockSize = 2
    p1 = p1
    p2 = p2
    w1 = w1
    Peers <- TwoPeers
    FastPeers <- OnePeer
    Webseeds <- NoSources
    MaxRequests = 1
    MaxTasks = 1
    MaxBadPiecesPerPeer = 1
    PeerBitfields <- FullBitfield
    MaxReplication = 2
SPECIFICATION Spec
INVARIANTS NoLostBlock NeverRequestHad ReplicationCovers NoInterestWhenDone
CHECK_DEADLOCK TRUE
