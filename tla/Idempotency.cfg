\* Three requests over one key or none: submissions of one item, of two contents and to two
\* sessions, and a plan.
CONSTANTS
    r1 = r1
    r2 = r2
    r3 = r3
    k1 = k1
    b1 = b1
    b2 = b2
    b3 = b3
    s1 = s1
    s2 = s2
    i1 = i1
    NoKey = NoKey
    NoSession = NoSession
    Requests = {r1, r2, r3}
    Keys = {k1}
    Bodies = {b1, b2, b3}
    ItemOf <- MCItemOf
    Sessions = {s1, s2}
SPECIFICATION FairSpec
INVARIANTS
    OneHandler
    ReplayFaithful
    AtMostOnce
PROPERTY ReservationsResolve
\* Every request runs once: the behaviour ends when all of them have.
CHECK_DEADLOCK FALSE
