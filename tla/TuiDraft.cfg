\* The same instance, for the docstring of the outbound flow.
SPECIFICATION ComposerSpec
CONSTANTS
    Rooms = {1, 2}
    MaxTexts = 3
    MaxFails = 1
PROPERTIES FlowKeepsDraft
