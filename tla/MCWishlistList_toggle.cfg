\* Four pieces of two blocks each; sequential download is switched on in the middle
\* of a download.
CONSTANTS
    TotalSize = 16
    PieceSize = 4
    BlockSize = 2
    p1 = p1
    Peers <- OnePeer
    Selections <- AllPieces
    Salts <- OneSalt
    HighPriorities <- NoPriority
    TogglesMidway = TRUE
    FromPieces <- Start
    PeerPieces <- FullOrOne
    MaxReplication = 2
SPECIFICATION Spec
INVARIANT SequentialOrder
CHECK_DEADLOCK TRUE
