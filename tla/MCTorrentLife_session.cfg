\* One torrent, added as a seed, with files to look for or by magnet link,
\* whose files can go missing, in a session that ends or dies and starts again, twice.
CONSTANTS
    t1 = t1
    t2 = t2
    Torrents <- OneTorrent
    Magnets = TRUE
    AppThread = FALSE
    VerifyComplete = FALSE
    Relocations = TRUE
    Unplugged = TRUE
    QueueSize <- OneSlot
    QueueStalled = FALSE
    MaxWork = 2
    MaxSessions = 2
SPECIFICATION Spec
INVARIANTS LifeTypeOK RunningNotVerified CleanResumeIsCurrent
PROPERTIES OnlyMovesForgetIntent CloseSavesAll StopHappens
CHECK_DEADLOCK TRUE
