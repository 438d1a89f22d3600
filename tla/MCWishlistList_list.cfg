\* Three pieces over three blocks, two of which straddle; the last piece lies inside
\* a block.  The peer has all pieces, one or none, and says so as often as it likes.
CONSTANTS
    TotalSize = 9
    PieceSize = 4
    BlockSize = 3
    p1 = p1
    Peers <- OnePeer
    Selections <- AllOrEven
    Salts <- OneSalt
    HighPriorities <- NoneOrLast
    TogglesMidway = FALSE
    FromPieces <- Start
    PeerPieces <- FullOrOne
    MaxReplication = 2
SPECIFICATION Spec
INVARIANTS TypeOK ListSorted NeighboursMeet NextIsBest
PROPERTY ImplementsEvents
CHECK_DEADLOCK TRUE
