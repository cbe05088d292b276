SPECIFICATION Spec
CONSTANTS
    p1 = p1
    Log = Log
    c1 = c1
    Publisher <- TwoPublishers
    Client <- OneClient
    Capacity = 1
    Retention = 0
    MaxDelay = 1
    MaxEvents = 1
    MaxLines = 2
    MaxStreams = 2
    MaxTime = 1
CHECK_DEADLOCK FALSE
INVARIANTS InOrderOnce NothingLost RecentKept NoLineSkipped
