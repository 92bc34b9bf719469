SPECIFICATION StoresSpec
CONSTANTS
    r1 = r1  r2 = r2
    Peers = {dm, channel}
    Channels = {channel}
    Readers = {r1, r2}
    Limits = {1, 2}
    MaxId <- MCMaxId
    MaxPending = 1
    MaxCached = 1
    Tasks = {"a", "b"}
    Statements = {"x", "y"}
    Contacts = {1}
    Interval = 2
    MaxJitter = 1
    Day = 6
    MaxPerDay = 2
    QuietStart = 5
    QuietEnd = 1
    MaxTime = 9
    Rules <- MCRules
    Edited <- MCEdited
    Rights <- MCRights
    Users = {1}
    Chats = {1, 2}
    Enforce = TRUE
    Window = 1
    Members = 1
    MaxMessages = 2
    MaxJoins = 1
    MaxNow = 2
    After = 2
    MaxIds = 3
    MaxReceipts = 2
    MaxHour = 4
    Langs = {"ru", "en"}
    MessageLang <- MCMessageLang
    Wordless = {2}
    EnvLang = "ru"
    Models = {"m1"}
    EnvModel = "m0"
    Passes = {"tui"}
    Lists <- MCLists
    UserModes = {"only_unknown"}
    MaxSaves = 1
SYMMETRY Symmetric
\* The engines may be stopped, the clocks and the messages used up.
CHECK_DEADLOCK FALSE
INVARIANTS
    ReadsHaveNoHole
    MigrationsAreWhole
    OneThread
    PingsKeepThePlan
    OneUnansweredPing
    RemovedPlanIsSilent
    FiresTruly
    AuditIsComplete
    NudgesTheRead
    NothingOutlivesAChange

    
    
