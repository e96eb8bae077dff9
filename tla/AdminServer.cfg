\* Two requests at a time, up to five of a workload, with faults and a restart.
SPECIFICATION Spec
CONSTANTS
    p1 = p1
    p2 = p2
    n1 = n1
    n2 = n2
    s1 = s1
    s2 = s2
    a1 = a1
    a2 = a2
    l1 = l1
    g1 = g1
    g2 = g2
    f1 = f1
    i1 = i1
    i2 = i2
    Pools = {p1, p2}
    Nodes = {n1, n2}
    Servers = {s1, s2}
    Aliases = {a1, a2}
    Labels = {l1}
    Rules = {g1, g2}
    Values = {1, 2}
    Fingerprints = {f1}
    Nothing = nothing
    Handlers = {h1, h2}
    Ips = {i1, i2}
    Free = free
    Listings <- MCListings
    Home <- MCHome
    Unnamed = unnamed
    FirstDisk <- MCFirstDisk
    Workloads <- MCWorkloads
    Faults = TRUE
    MaxRestarts = 1
    MaxNow = 5
    MaxFailures = 2
    Window = 1
    Lockout = 2
INVARIANTS GuessesBounded
PROPERTIES AliasesUnambiguous EditsSerial AnswerMeansDone Answered
CHECK_DEADLOCK FALSE
