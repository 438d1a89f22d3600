\* A tracker of a tier of its own is added to a torrent that runs, or removed again.
CONSTANTS
    a = a
    b = b
    Trackers <- TwoTrackers
    Lists <- OneOrTwoTiers
    MaxTiers = 2
    MaxEvents = 2
    MaxFlight = 1
    MaxScrapes = 1
SPECIFICATION Spec
PROPERTY EditsKeepAnnouncing
