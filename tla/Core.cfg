\* Cache: two keys for a store of one entry, one fetch and one waiter.  Login:
\* two tabs.  Files: one command with a key and one without.  Watcher: an event
\* of each kind of dialog, a queue and a cache of two.
SPECIFICATION CoreSpec
CONSTANTS
    Keys = {k1, k2}
    Procs = {p1, p2}
    None = None
    MaxSize = 1
    MaxVersion = 1
    MaxEpoch = 2
    Commands = {"a", "b"}
    Keyed = {"b"}
    Tabs = {1, 2}
    TwoFactor = TRUE
    MaxCodes = 3
    MaxSteps = 7
    Own <- MCOwn
    Foreign <- MCForeign
    ChannelChats = {"channel"}
    QueueSize = 2
    CacheSize = 2
    MaxDeletions = 2
\* The watcher may be stopped, the login done and the changes used up.
CHECK_DEADLOCK FALSE
INVARIANTS
    StoredNotSuperseded
    HashIsLive
    CreatesOnlyNew
    CopiesAreTrue
    NewestAreKept
PROPERTIES
    CallsEnd
    ReadsThrough
    ClaimIsReleased
    TakenIsCopied
