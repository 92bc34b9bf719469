SPECIFICATION FrontendsSpec
CONSTANTS
    d1 = d1  d2 = d2  o1 = o1  o2 = o2  v1 = v1  v2 = v2  c1 = c1  c2 = c2
    Offers <- MCOffers
    Callers <- MCCallers
    TokenMax = 2
    MaxTokens = 3
    WebDialogs = {1, 2}
    MaxMessages = 2
    MaxInflight = 1
    MaxRequests = 2
    SentCap = 1
    Chats = {1, 2}
    PageSize = 1
    PassCap = 2
    FirstLast <- MCFirstLast
    MaxLive = 1
    Rooms = {1, 2}
    MaxTexts = 3
    MaxFails = 1
    Tabs = {"all", "groups", "archive"}
    WithStore = TRUE
    IsBot = TRUE
    Outbound = TRUE
    MaxTranslations = 1
    MaxEvents = 3
    MaxLines = 2
    Private = {1, 2}
    Channels = {3}
    Requesters = {a, b}
    MaxIds = 2
    MaxChanges = 2
SYMMETRY Alike
\* The REPL may be left, the messages and the changes used up.
CHECK_DEADLOCK FALSE
INVARIANTS
    ReadIsShown
    
    
    RightRecipient
    SentAsOftenAsTyped
    ListIsOfTheTab
    
    NothingGoesMissing
    DeletesAsAsked
PROPERTIES
    MidSendIsKept
    SendsOnce
