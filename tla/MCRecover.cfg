CONSTANTS
    Images <- MCImages
    RootOffset = 1
    RootSlots = 4
    DataStart = 5
    ClusterSize = 3
    Fat <- MCFat
    EOC <- MCEOC
    RootName <- MCRootName
    HostFss <- MCHostFss

SPECIFICATION Spec

CHECK_DEADLOCK FALSE

INVARIANT TypeOK
INVARIANT RecoveredAsImage
INVARIANT MCSortedDirSorts
