SPECIFICATION Spec
CONSTANTS
    MaxInvocations = 2
    MaxLeftovers = 0
INVARIANT SetupIsKept
CHECK_DEADLOCK FALSE
