\* The same instance, for the comment on how older pages are mounted.
SPECIFICATION TuiSpec
CONSTANTS
    Chats = {1, 2}
    PageSize = 1
    PassCap = 2
    FirstLast <- MCFirstLast
    MaxLive = 1
INVARIANTS HistoryHasNoHole
