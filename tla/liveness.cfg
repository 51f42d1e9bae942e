SPECIFICATION LiveSpec
CONSTANTS
    NoConfig = NoConfig
    NoSpec = NoSpec
    Unset = Unset
    c1 = c1
    c2 = c2
    r1 = r1
    r2 = r2
    k1 = k1
    k2 = k2
    env = env
    Configs = {c1, c2}
    Second = c2
    MaxMoves = 3
    Resources = {r1}
    Specs <- SecretSpecs
    SpecsOf <- SameSpecs
    Keys = {k1}
    Shapes <- FullShape
    MaxVersion = 0
    InitialData <- MissingData
    Installed = {c1, c2}
    MaxEdits = 6
    MaxCrashes = 1
    MaxResyncs = 1
PROPERTIES ConfigsOutliveTheirUsers DeletionCompletes UsersCatchUp UsageCatchesUp
CHECK_DEADLOCK FALSE
