\* Two torrents compete for one slot to seed and one slot to download.
CONSTANTS
    t1 = t1
    t2 = t2
    Torrents <- TwoTorrents
    Magnets = FALSE
    AppThread = FALSE
    VerifyComplete = TRUE
    Relocations = FALSE
    Unplugged = FALSE
    QueueSize <- OneSlot
    QueueStalled = TRUE
    MaxWork = 1
    MaxSessions = 0
SYMMETRY TorrentSymmetry
SPECIFICATION Spec
INVARIANTS QueueHoldsTorrents TimerFillsSlots
PROPERTY SlotsRespected
CHECK_DEADLOCK TRUE
