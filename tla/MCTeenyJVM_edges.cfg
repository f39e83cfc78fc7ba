CONSTANTS
    Methods <- MCMethods
    ConstPool <- MCConstPool
    Entries <- JavaEdgeEntries
    W <- MCW
    MaxDepth <- MCMaxDepth

SPECIFICATION Spec

INVARIANT EdgesEndAsJava
