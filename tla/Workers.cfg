\* Factory: two sessions race for the shared file; one more task is claimed by
\* either.  Ghostwriter: one dialog, since only the queue and the engine are
\* shared between dialogs; two messages, which a queue of one must drop: two
\* replies, a reply and the owner's, or two of the owner's.
SPECIFICATION WorkersSpec
CONSTANTS
    t1 = t1
    t2 = t2
    t3 = t3
    Tasks <- MCTasks
    Legacy <- MCLegacy
    Workers = {w1, w2}
    None = None
    Dialogs = {d1}
    Nobody = Nobody
    MaxPerHour = 1
    QueueMax = 1
    MaxMessages = 2
INVARIANTS
    NoWorkOverUnacked
    EchoIsNotTheOwner
    OwnerIsHeeded
    OneReplyAfterPause
PROPERTIES
    ReportsAreDurable
    ReportsArrive
    KeepsLedger
    OwnerSilencesEngine
