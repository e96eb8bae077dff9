\* One call at a time, two addresses, every configuration.
SPECIFICATION Spec
CONSTANTS
    Addrs = {a1, a2}
    Tasks = {t1}
    Updater = {}
    Configs <- MCAllConfigs
    DiskFaults = FALSE
    Objs = {p1, p2}
    NoPool = nopool
    MaxVersion = 2
INVARIANTS TypeOK CacheNotBehind
PROPERTIES Promises
