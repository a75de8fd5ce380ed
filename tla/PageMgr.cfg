\* Two sizes, one of them asked for with two alignments, four pages.
SPECIFICATION Spec
CONSTANTS
    p1 = p1
    p2 = p2
    p3 = p3
    p4 = p4
    Pages <- FourPages
    Requests <- MixedRequests
    RecycleSize = 1
    PageBytes = 12
    PointerBytes = 2
    Starts <- MallocStarts
    None = none
SYMMETRY PageSymmetry
INVARIANTS
    Inv
PROPERTIES
    GrowsOnlyWhenFull
    ImplementsHeap
