SPECIFICATION FairSpec
CONSTANTS
    Messages = {m1}
    MaxConversations = 2
    None = None
    Slots = 2
    MaxAttempts = 3
    MaxToggles = 1
    MaxMishaps = 2
    HookSlots = 1
    HookAttempts = 8
INVARIANTS
    TypeOK
    RepliesAreRecorded
    OneReplyPerMessage
    
    TakeoverStopsOrders
PROPERTIES
    TakeoverIsHeard
    EveryMessageIsAttended
CHECK_DEADLOCK FALSE
