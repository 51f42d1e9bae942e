CONSTANTS
    Replicas = {r1, r2}
    ControllerCount = 22
    Namespaces = {n1}
    MaxFailures = 1
    MaxEdits = 1
SPECIFICATION Spec
INVARIANTS TypeOK OptionsInv RunsComplete EveryKindServed
PROPERTIES StoreIsKept EventuallyRuns
CHECK_DEADLOCK FALSE
