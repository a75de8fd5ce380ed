\* Two connections over three threads, one message each.
SPECIFICATION FairSpec
CONSTANTS
    c1 = c1
    c2 = c2
    Conns <- TwoConns
    Messages <- OneMessage
INVARIANTS
    Inv
    EventsInOrder
    OwnerIsThere
PROPERTIES
    EndedIsForgotten
\* The system stops when peers and users do nothing any more.
CHECK_DEADLOCK FALSE
