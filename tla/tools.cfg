CONSTANTS
    CrdFiles <- SmallCrds
    ExampleFiles <- SmallExamples
    Unparsable = Unparsable
    MaxInvocations = 4
    MaxLeftovers = 2
    Runs = {r1, r2}
    Contexts = {x1, x2, NoHash}
    NoHash = NoHash
    MaxCommits = 3
    Unused = Unused
SPECIFICATION ToolSpec
INVARIANTS ToolTypeOK CheckerLooks SetupFindsItsNeeds 
CHECK_DEADLOCK FALSE
