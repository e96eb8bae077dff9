\* Two handlers, two days, a restart and a disk that may fail.
SPECIFICATION Spec
CONSTANTS
    Recorders = {r1, r2}
    Updaters = {u1}
    Capacities = {1, 2}
    QueueSize = 1
    Retentions = {1, 2}
    MaxDay = 2
    MaxID = 2
    MaxLife = 2
    Faults = TRUE
INVARIANTS NoSendOnClosedQueue RingInOrder
PROPERTIES FreshIDs Kept Settles
CHECK_DEADLOCK FALSE
