\* Pages of up to three blocks.  Two values of every form through buffers
\* that may be too small.  Three objects, which may hold each other in any way,
\* and two variables.  Six years in three zones.  Integers of five values.
\* Strings over two characters, with separators that overlap themselves.  Blocks
\* of four bytes and words that hold the bits of one block: messages that
\* overflow both words of the count.  Two UDP buffers, either of which may wait
\* in both directions.
SPECIFICATION LibSpec
CONSTANTS
    MaxBlocks = 3
    Base = 3
    SendSize = 20
    RecvSize = 18
    Schemas <- AllSchemas
    Strings <- EveryForm
    Numbers <- SmallAndLarge
    OutSizes = {0, 2, 9}
    Objects = {o1, o2, o3}
    Locals = {l1, l2}
    Null = Null
    Zones <- SomeZones
    Starts <- NewYear
    Steps <- Pauses
    Until <- Until2004
    Width = 5
    Chars = {"a", "b"}
    MaxString = 6
    MaxSeparator = 2
    MaxPieces = 10
    Block = 4
    Field = 1
    Word = 32
    MaxLen = 140
    Buffers = {b1, b2}
    MaxCalls = 4
    MaxQueue = 2
    MaxAgain = 2
INVARIANTS
    Inv
    RoundTrip
    HeldExactly
    UtilityIsRight
    HashesTheMessage
    UdpInv
PROPERTIES
    ImplementsAllocator
    FiniedCloses
\* Most parts come to an end.
CHECK_DEADLOCK FALSE
