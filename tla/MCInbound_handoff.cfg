SPECIFICATION FairSpec
CONSTANTS
    Messages = {m1}
    MaxConversations = 2
    None = None
    Slots = 2
    MaxAttempts = 3
    MaxToggles = 0
    MaxMishaps = 1
    HookSlots = 1
    HookAttempts = 8
PROPERTIES
    HandoffCommits
CHECK_DEADLOCK FALSE
