CONSTANTS
    Runs = {r1}
    Contexts = {x1, NoHash}
    NoHash = NoHash
    MaxCommits = 2
SPECIFICATION Spec
INVARIANT PendingExplained
CHECK_DEADLOCK FALSE
