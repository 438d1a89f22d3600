\* Two pieces over three blocks, one straddling both; one peer and one webseed, which is
\* banned by its first bad piece.
CONSTANTS
    TotalSize = 6
    PieceSize = 3
    BlockSize = 2
    p1 = p1
    p2 = p2
    w1 = w1
    Peers <- OnePeer
    FastPeers <- NoSources
    Webseeds <- OneSeed
    MaxRequests = 1
    MaxTasks = 1
    MaxBadPiecesPerPeer = 1
    PeerBitfields <- FullBitfield
    MaxReplication = 2
SPECIFICATION Spec
INVARIANTS TypeOK SpansDisjoint WantedBlocksOwned NoLostBlock
CHECK_DEADLOCK TRUE
