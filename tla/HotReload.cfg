SPECIFICATION FairSpec
CONSTANTS
    None = None
    Content <- MCContent
    Valid <- MCValid
    Server <- MCServer
    Probe = {1}
    MaxEdits = 3
    Queue = 2
CHECK_DEADLOCK FALSE
INVARIANTS
    NoLostEdit
    DrainIsFinal
PROPERTIES
    EditServed
