SPECIFICATION Spec
CONSTANTS
    NoConfig = NoConfig
    NoSpec = NoSpec
    Unset = Unset
    c1 = c1
    c2 = c2
    r1 = r1
    r2 = r2
    k1 = k1
    k2 = k2
    env = env
    Configs = {c1}
    Resources = {r1}
    Specs <- SecretSpecs
    SpecsOf <- SameSpecs
    Installed = {c1}
    Keys = {k1}
    Shapes <- SomeShapes
    MaxVersion = 1
    InitialData <- PartialData
    MaxEdits = 2
    MaxCrashes = 0
    MaxResyncs = 0
INVARIANT RequiredCredentials
CHECK_DEADLOCK FALSE
