\* A tier of two trackers, of which one can be removed and added again.
CONSTANTS
    a = a
    b = b
    Trackers <- TwoTrackers
    Lists <- OneTier
    MaxTiers = 1
    MaxEvents = 3
    MaxFlight = 2
    MaxScrapes = 1
SPECIFICATION Spec
INVARIANTS TypeOK QueuesShaped RunningIsAnnounced StoppedIsSilent
PROPERTIES CompletionIsKept StopIsSent
CHECK_DEADLOCK TRUE
