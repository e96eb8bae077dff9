\* A static pool of a proxied and a direct node, never reloaded.
SPECIFICATION Spec
CONSTANTS
    Round = round
    Nodes = {n1, d1}
    Direct = {d1}
    Subscription = FALSE
    Configs <- MCDefaultConfig
    MaxFails <- MCMaxFails
    DefaultMaxFail = 2
    Loaders = {}
    Testers = {t1}
    MaxPools = 1
    MaxSlices = 1
    MaxCount = 3
INVARIANTS TypeOK HealthRecordOK
PROPERTIES Recovers DeadIsDetected
