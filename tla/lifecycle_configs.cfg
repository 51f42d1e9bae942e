SPECIFICATION Spec
CONSTANTS
    NoConfig = NoConfig
    NoSpec = NoSpec
    Unset = Unset
    c1 = c1
    c2 = c2
    r1 = r1
    r2 = r2
    k1 = k1
    k2 = k2
    env = env
    Configs = {c1, c2}
    Resources = {r1}
    Specs <- AllSpecs
    SpecsOf <- OwnSpecs
    Installed = {c1, c2}
    Keys = {k1, k2, env}
    Shapes <- FullShape
    MaxVersion = 1
    InitialData <- FullData
    MaxEdits = 2
    MaxCrashes = 1
    MaxResyncs = 1
INVARIANTS TypeOK Protection CredentialsOfReferencedConfig
PROPERTY ConfigsOutliveTheirUsers
CHECK_DEADLOCK FALSE
