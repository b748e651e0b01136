\* Two turns at once, a submission whose grader may raise, and an /end.
CONSTANTS
    t1 = t1
    t2 = t2
    s1 = s1
    s2 = s2
    s3 = s3
    e1 = e1
    NumItems = 2
    Turns = {t1, t2}
    Submits = {s1}
    Ends = {e1}
    GradersRaise = TRUE
SPECIFICATION FairSpec
INVARIANTS
    CompleteAccounted
PROPERTIES
    ImplementsVerdicts
    WrappingResolves
\* Every request runs once: the behaviour ends when all of them have.
CHECK_DEADLOCK FALSE
