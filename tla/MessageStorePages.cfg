SPECIFICATION Spec
CONSTANTS
    r1 = r1  r2 = r2
    Peers = {dm}
    Channels = {}
    Readers = {r1}
    Limits = {1}
    MaxId <- Threads
    MaxPending = 1
    MaxCached = 1
PROPERTIES WatermarksFromFreshPages
