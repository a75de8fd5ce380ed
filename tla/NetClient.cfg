\* One client through any number of connections.
SPECIFICATION FairSpec
CONSTANT MaxMain = 3
INVARIANTS
    Inv
    EventsInOrder
PROPERTIES
    ClosedEnds
    KeepsTrying
    StopEnds
\* A client that was closed, or whose host has no address, stops.
CHECK_DEADLOCK FALSE
