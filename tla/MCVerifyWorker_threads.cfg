\* Two torrents of two pieces, verified three times between them.
CONSTANTS
    t1 = t1
    t2 = t2
    Torrents <- TwoTorrents
    Rank <- SmallFirst
    Priorities <- TwoPriorities
    PieceTotal = 2
    NoTorrent = NoTorrent
    MaxAdds = 3
SPECIFICATION Spec
INVARIANTS TypeOK WorkerUsesLiveTorrents RemovedIsIdle StopReachesItsTorrent CompleteMeansChecked
PROPERTIES SessionThreadReturns QueuedEnds ImplementsService
CHECK_DEADLOCK TRUE
