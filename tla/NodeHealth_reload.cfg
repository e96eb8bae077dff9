\* One node of a subscription pool under refreshes and a reload.
SPECIFICATION Spec
CONSTANTS
    Round = round
    Nodes = {n1}
    Direct = {}
    Subscription = TRUE
    Configs <- MCConfigs
    MaxFails = {2}
    DefaultMaxFail = 2
    Loaders = {l1}
    Testers = {}
    MaxPools = 2
    MaxSlices = 3
    MaxCount = 2
PROPERTIES RevivedOnlyByAnswer DeadIsDetected
