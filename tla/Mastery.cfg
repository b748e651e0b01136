\* Two readings, of one item or of none, against a rebuild and two seedings.
CONSTANTS
    w1 = w1
    w2 = w2
    b1 = b1
    s1 = s1
    s2 = s2
    c1 = c1
    c2 = c2
    i1 = i1
    NoItem = NoItem
    Writers = {w1, w2}
    Rebuilders = {b1}
    Seeds = {s1, s2}
    Concepts = {c1, c2}
    Items = {i1}
    Primary <- MCPrimary
    Readings <- MCReadings
    MaxPrior = 2
SYMMETRY Symmetry
SPECIFICATION Spec
INVARIANTS
    LiveIsReplay
    AttemptMovesOnce
    SeedRebases
\* Every transaction runs once: the behaviour ends when all of them have.
CHECK_DEADLOCK FALSE
