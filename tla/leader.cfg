CONSTANTS
    Replicas = {r1, r2}
    RetryPeriod = 1
    RenewDeadline = 25
    MaxLatency = 3
    LeaseDuration = 30
    Nobody = nobody
    MaxKills = 3
SPECIFICATION Spec
INVARIANTS TypeOK LeaseInv OneLeader
PROPERTY SomeoneLeads
