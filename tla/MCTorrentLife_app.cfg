\* One torrent; the calls come from a thread of the application, which never
\* waits for the session thread.
CONSTANTS
    t1 = t1
    t2 = t2
    Torrents <- OneTorrent
    Magnets = FALSE
    AppThread = TRUE
    VerifyComplete = FALSE
    Relocations = FALSE
    Unplugged = FALSE
    QueueSize <- OneSlot
    QueueStalled = FALSE
    MaxWork = 2
    MaxSessions = 0
SPECIFICATION Spec
INVARIANTS RunningNotVerified
