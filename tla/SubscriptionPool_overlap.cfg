\* The updater beside reloads and manual refreshes, with a disk that may refuse
\* any read or write.
SPECIFICATION Spec
CONSTANTS
    Addrs = {a1}
    Tasks = {u, t1}
    Updater = {u}
    Configs <- MCSwitched
    DiskFaults = TRUE
    Objs = {p1, p2, p3}
    NoPool = nopool
    MaxVersion = 2
INVARIANT FailureVisible
PROPERTIES CatchesUp
