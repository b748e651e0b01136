\* Two clients, of whom one rebuilds; two applications under two names.
CONSTANTS
    u1 = u1
    u2 = u2
    k1 = k1
    k2 = k2
    k3 = k3
    Ladder <- MCLadder
    Terminal = {"rejected"}
    Subcategories = {"nlp", "unclassified"}
    Unclassified = "unclassified"
    CategoryOf <- MCCategoryOf
    MaxListed = 3
    Clients = {u1, u2}
    Rebuilders = {u1}
    Entries <- MCEntries
    Pastes <- MCPastes
    Answers <- MCAnswers
    Moves = {"offer", "rejected"}
    Tags = {"nlp"}
    MaxRows = 2
    MaxEvents = 3
SPECIFICATION Spec
INVARIANTS
    BoardFollows
    BoardHasBeen
    HistorySound
    OnePerName
