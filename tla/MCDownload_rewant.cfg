\* A torrent that was done wants more files.
CONSTANTS
    TotalSize = 6
    PieceSize = 3
    BlockSize = 2
    p1 = p1
    p2 = p2
    w1 = w1
    Peers <- OnePeer
    FastPeers <- NoSources
    Webseeds <- NoSources
    MaxRequests = 1
    MaxTasks = 1
    MaxBadPiecesPerPeer = 1
    PeerBitfields <- FullBitfield
    MaxReplication = 2
SPECIFICATION Spec
INVARIANT LeechHasWishlist
