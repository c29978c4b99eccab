SPECIFICATION FairAutomationSpec
CONSTANTS
    Lists <- NudgeTwice
    MaxActions = 5
    Slots = 2
    None = None
    MaxEdits = 1
    MaxMishaps = 1
INVARIANTS
    AutomationTypeOK
    OnceUnlessRepeated
    UnfinishedIsHeld
PROPERTIES
    EveryRunEnds
CHECK_DEADLOCK FALSE
