CONSTANTS
    CheckedKinds <- AllKinds
    PolicySets <- SomePolicies
    ManagementPolicies = TRUE
    MaxFocus = 2
    MaxEdits = 3
    CheckedPaths <- ShapePaths
    UserValues = {"zero", "mine"}
    InitialValues = {"initial"}
    Items = 2
    LateModes = {"never", "deep"}
    MaxParameterEdits = 1
    MaxDrifts = 1
    Unused = Unused
SPECIFICATION AspectSpec
INVARIANTS TypeOK ArgumentsComplete WritesAdmitted UserWins
PROPERTIES InitialOnly Settles
CHECK_DEADLOCK FALSE
