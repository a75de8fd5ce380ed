\* A connecter that is opened again after a close, or a listener and its accepter.
SPECIFICATION FairSpec
CONSTANTS
    l1 = l1
    c1 = c1
    a1 = a1
    Listeners <- OneListener
    Connecters <- OneConnecter
    Accepters <- OneAccepter
    Uses <- OneOfEach
    Rooms <- AnyRoom
    MaxOpens = 2
    MaxFinis = 1
    MaxQueue = 2
INVARIANTS
    Inv
    ViewMatches
    QueuedIsArmed
    OpensAreAnswered
PROPERTIES
    ServerDrains
\* The system stops when no user does anything any more.
CHECK_DEADLOCK FALSE
