\* Two clients and one problem under three names, logged twice at most or solved four times.
CONSTANTS
    u1 = u1
    u2 = u2
    c1 = c1
    c2 = c2
    NoConcept = NoConcept
    Concepts = {c1, c2}
    MaxSecondaries = 1
    Catalogue <- MCCatalogue
    TagToConcept <- MCTagToConcept
    FamilyTags <- MCFamilyTags
    Clients = {u1, u2}
    Urls <- MCUrls
    Pastes <- MCPastes
    Answers <- MCAnswers
    Tags <- MCTags
    Corrections <- MCCorrections
    Labels <- MCLabels
    GraduationSolves = 3
    MaxRows = 5
SPECIFICATION Spec
SYMMETRY ClientSymmetry
INVARIANTS
    ScheduleIsReplay
    GraduationEarned
    EvidenceOnce
    ImportAddsOnce
    ListingComplete
