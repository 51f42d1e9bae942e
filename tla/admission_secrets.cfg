CONSTANTS
    CheckedKinds <- SelectorKinds
    PolicySets <- SomePolicies
    ManagementPolicies = TRUE
    MaxFocus = 2
    MaxEdits = 2
SPECIFICATION Spec
INVARIANT SecretsComplete
CHECK_DEADLOCK FALSE
