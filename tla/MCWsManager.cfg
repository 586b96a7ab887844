SPECIFICATION FairSpec
CONSTANTS
    Dashboards = {d1}
    Connects = 2
    MaxMissedPings = 1
    MaxPublished = 2
INVARIANTS
    TypeOK
PROPERTIES
    FanOutInOrder
    EventsArrive
    DeadAreDropped
CHECK_DEADLOCK FALSE
