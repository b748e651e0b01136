\* A first turn that read the row before /end committed.
CONSTANTS
    t1 = t1
    t2 = t2
    s1 = s1
    s2 = s2
    s3 = s3
    e1 = e1
    NumItems = 1
    Turns = {t1}
    Submits = {}
    Ends = {e1}
    GradersRaise = FALSE
SPECIFICATION Spec
INVARIANTS
    EndedIsTerminal
\* Every request runs once: the behaviour ends when all of them have.
CHECK_DEADLOCK FALSE
