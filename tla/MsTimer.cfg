\* Two users and four calls, with and without the end of the server.
SPECIFICATION FairSpec
CONSTANTS
    Users = {u1, u2}
    Calls = 4
INVARIANT Inv
PROPERTIES
    OneLife
    StoppedLetsGo
\* Everybody may have let go.
CHECK_DEADLOCK FALSE
