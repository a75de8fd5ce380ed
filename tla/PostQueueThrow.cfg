\* One job of a poster throws whenever it runs.
SPECIFICATION FairSpec
CONSTANTS
    p1 = p1
    p2 = p2
    io = io
    Posters <- MCPosters
    IO <- io
    MaxPosts = 2
    Poison <- OnePoison
INVARIANTS
    Inv
PROPERTIES
    BlockedForever
    UnblockedJobRuns
