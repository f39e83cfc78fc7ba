CONSTANTS
    HeapBase <- MCHeapBase
    MaxHeap <- MCMaxHeap
    MaxLive <- MCMaxLive
    Sizes <- MCSizes
    CallocArgs <- MCCallocArgs
SPECIFICATION Spec
INVARIANTS
    TypeOK
    HeapConsistent
    FreeListMatches
    Coalesced
    ClientBlocksIntact
PROPERTY
    AllocRefined
