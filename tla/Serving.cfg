\* Every graph over three concepts, fourteen libraries, twenty-seven learners.
CONSTANTS
    Concepts = {1, 2, 3}
    Graphs <- MCGraphs
    Libraries <- MCLibraries
    Learners <- MCLearners
    Wishes <- MCWishes
    Submissions <- MCSubmissions
    DomainOf <- MCDomainOf
    Retired = {}
    TwoPartSuffixes <- MCSuffixes
    LongShingle = 4
    ShortShingle = 2
    MinProbeSizes = 5
    Bands = {"linear", "linearithmic", "quadratic"}
    Ceiling <- MCCeiling
    Margin = 35
    NoiseFloor = 2
    SlowRun = 10000
    ProbeBudget = 200000
    ProbeWall = 600000
    Repeats = 5
    HintPenalties <- MCPenalties
    FailureSoftness <- MCSoftness
    MinCitation = 12
    ClosingLines = 2
    DefaultTop = 4
    Normalised <- MCNormalised
    Expected <- MCExpected
    ReviewFloor = 1610
    AssumedMinutes = 20
    RecentResults = 5
    ExposureSessions = 5
SPECIFICATION ServingSpec
INVARIANTS
    CyclesFound
    PlanSound
    GradesSound
    AnswerIsConclusion
    SlowIsCaught
\* A corpus may be refused and a plan comes to its end.
CHECK_DEADLOCK FALSE
