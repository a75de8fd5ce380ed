\* No job throws: the queue is a FIFO mailbox.
SPECIFICATION FairSpec
CONSTANTS
    p1 = p1
    p2 = p2
    io = io
    Posters <- MCPosters
    IO <- io
    MaxPosts = 2
    Poison <- NoPoison
INVARIANTS
    FifoExactlyOnce
    FlagCoversQueues
PROPERTIES
    ImplementsMailbox
