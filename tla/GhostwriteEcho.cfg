\* The same instance with two messages, for the docstring of on_outgoing.
SPECIFICATION GhostSpec
CONSTANTS
    Dialogs = {d1}
    Nobody = Nobody
    MaxPerHour = 1
    QueueMax = 2
    MaxMessages = 2
INVARIANTS OwnSendsNeverPause
