\* The claim about a failed fetch, with a refresh beside a reload.
SPECIFICATION Spec
CONSTANTS
    Addrs = {a1}
    Tasks = {u, t1}
    Updater = {u}
    Configs <- MCSwitched
    DiskFaults = FALSE
    Objs = {p1, p2, p3}
    NoPool = nopool
    MaxVersion = 1
PROPERTIES NotEmptiedByFailure
