CONSTANTS
    PageSize <- MCPageSize
    StartPage <- MCStartPage
    HeapPages <- MCHeapPages
    Sizes <- MCSizes
    MaxMallocs <- MCMaxMallocs
    StrayPtrs <- MCStrayPtrsPastHeap
SPECIFICATION Spec
INVARIANTS
    ReportsExact
