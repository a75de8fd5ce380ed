\* A connection is refused.
SPECIFICATION Spec
CONSTANTS
    l1 = l1
    c1 = c1
    a1 = a1
    Listeners <- OneListener
    Connecters <- OneConnecter
    Accepters <- OneAccepter
    Uses <- JustConnecter
    Rooms <- SomeRoom
    MaxOpens = 1
    MaxFinis = 1
    MaxQueue = 1
PROPERTIES
    ConnectOkIsConnected
\* The system stops when no user does anything any more.
CHECK_DEADLOCK FALSE
