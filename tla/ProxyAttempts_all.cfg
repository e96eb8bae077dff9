\* One request after another with every option, while nodes come and go.
SPECIFICATION Spec
CONSTANTS
    d1 = d1
    p1 = p1
    h1 = h1
    t1 = t1
    t2 = t2
    Nodes = {d1, p1, h1}
    InRegion = {d1, p1, h1}
    Residential = {h1}
    DirectNodes = {d1}
    TryOffline = {h1}
    Templates = {t1, t2}
    Covers <- MCCovers
    Order <- MCOrder
    Premium = {p1, t1}
    Direct = direct
    MaxAttempts = 2
    Requests = {r1}
    Wants <- MCAllWants
    Remote = {t1}
    MaxRedirects = 2
INVARIANTS AttemptsInOrder NothingMissed PlainStatusIsFinal
PROPERTIES LeavingCostsOneNode Ends
