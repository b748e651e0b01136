\* Three calls, some of one session, over three days of two months.
CONSTANTS
    c1 = c1
    c2 = c2
    c3 = c3
    s1 = s1
    NoSession = NoSession
    Calls = {c1, c2, c3}
    Sessions = {s1}
    SessionLimit = 1
    DayLimit = 2
    MonthLimit = 3
    MaxClaim = 1
    MaxCost = 2
    DaysPerMonth = 2
    LastDay = 3
SPECIFICATION FairSpec
INVARIANTS
    CeilingsHold
PROPERTY ClaimsEnd
\* Every call is made once: the behaviour ends when all of them have been.
CHECK_DEADLOCK FALSE
