\* Two turns over one item with two hints; a response may ask for two tools at once.
CONSTANTS
    t1 = t1
    t2 = t2
    Turns = {t1, t2}
    Hints = 2
    MaxAnswerChecks = 1
    MaxObservations = 1
    MaxRounds = 2
    MaxCalls = 2
    MaxUses = 2
SPECIFICATION FairSpec
INVARIANTS
    SeqsDense
    TurnsDoNotInterleave
    HintsInOrder
    RationsHold
PROPERTY TurnEnds
\* Every turn is taken once: the behaviour ends when all of them have.
CHECK_DEADLOCK FALSE
