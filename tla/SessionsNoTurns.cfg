\* Submissions, their graders and an /end, no interviewer.
CONSTANTS
    t1 = t1
    t2 = t2
    s1 = s1
    s2 = s2
    s3 = s3
    e1 = e1
    NumItems = 2
    Turns = {}
    Submits = {s1, s2, s3}
    Ends = {e1}
    GradersRaise = TRUE
SPECIFICATION FairSpec
INVARIANTS
    JudgedOnce
    EndedIsTerminal
PROPERTIES
    AllJudgedCompletes
    ImplementsFairVerdicts
\* Every request runs once: the behaviour ends when all of them have.
CHECK_DEADLOCK FALSE
