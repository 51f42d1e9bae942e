CONSTANTS
    MaxMade = 5
    MaxFaults = 2
    MaxCrashes = 2
    MaxBroken = 1
    MaxVanished = 1
SPECIFICATION Spec
INVARIANTS TypeOK Bookkeeping LossesAreExplained
PROPERTIES NoRunIsAbandoned KeepsItsPromise EndsUpRecorded DeletionCompletes
CHECK_DEADLOCK FALSE
