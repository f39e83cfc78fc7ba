CONSTANTS
    HeapBase <- MCHeapBase
    MaxHeap <- MCMaxHeap
    MaxLive <- MCMaxLive
    Sizes <- MCSizesZero
    CallocArgs <- MCCallocArgs
SPECIFICATION Spec
INVARIANTS
    HeapConsistent
