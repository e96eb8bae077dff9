\* Callers of every kind: two edits, which fileMu keeps apart, a reload that
\* overlaps with anything, an added pool and the shutdown.
SPECIFICATION Spec
CONSTANTS
    Editors = {e1, e2}
    Reloaders = {r1}
    Adders = {a1}
    Stoppers = {s1}
    Pools = {p1}
    Ctxs = {x1, x2, x3}
    None = none
INVARIANTS TypeOK Covered NoMisuse
PROPERTIES NoLeak StopReturns
