CONSTANTS
    PageSize <- MCPageSize
    StartPage <- MCStartPage
    HeapPages <- MCHeapPages
    Sizes <- MCSizes
    MaxMallocs <- MCMaxMallocs
    StrayPtrs <- MCStrayPtrs
SPECIFICATION Spec
INVARIANTS
    TypeOK
    ReportsExact
    GuardLayout
