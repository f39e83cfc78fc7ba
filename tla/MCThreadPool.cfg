CONSTANTS
    j1 = j1
    j2 = j2
    j3 = j3
    n1 = n1
    n2 = n2
    n3 = n3
    n4 = n4
    n5 = n5
    HeadNode = HeadNode
    TailNode = TailNode
    NoNode = NoNode
    Garbage = Garbage
    NULL = NULL
    NumWorkers = 2
    Jobs <- MCJobs
    NodePool <- MCNodePool
    Callers = {1, 2}
    Values = {j1, j2, j3, NULL}
SPECIFICATION Spec
INVARIANTS
    TypeOK
    JobAccounting
    ExitOnlyWhenNoWork
    NoLeakAtFree
    ListWellFormed
PROPERTIES
    QueueRefined
    Completes
