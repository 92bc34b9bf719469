\* The same instance with two messages, for the comment of _pause_for_human_outgoing.
SPECIFICATION GhostSpec
CONSTANTS
    Dialogs = {d1}
    Nobody = Nobody
    MaxPerHour = 1
    QueueMax = 2
    MaxMessages = 2
PROPERTIES PausesAreNotShortened
