------------------------------- MODULE Planner -------------------------------
(***************************************************************************)
(* What a session serves (apps/api/src/api/planner.py) and the ranking it  *)
(* starts from (apps/api/src/api/priority.py), as functions of a graph of  *)
(* prerequisites, a library, a learner's standing and a request.           *)
(*                                                                         *)
(* Weights are in hundredths and rates in per cent, so priorities are in   *)
(* units of 1/10000; what a concept unlocks is rounded down to a per cent. *)
(***************************************************************************)
EXTENDS ItemRules

CONSTANTS
    DomainOf,          \* concept -> domain
    Retired,           \* the concepts with a deprecated_at
    Normalised(_),     \* an ability in per cent of the span
    Expected(_),       \* the score, in per cent, expected for ability minus rating
    ReviewFloor,       \* REVIEW_ABILITY_FLOOR_ELO
    AssumedMinutes,    \* ASSUMED_MINUTES
    RecentResults,     \* RECENT_RESULTS
    ExposureSessions   \* EXPOSURE_SESSIONS

ASSUME PlannerAssumption ==
    /\ AssumedMinutes \in Nat \ {0} /\ RecentResults \in Nat \ {0} /\ ExposureSessions \in Nat \ {0}
    /\ ReviewFloor \in Int

\* What is known of a learner at a concept: the rating, the days since a review fell due
\* (negative before and where nothing is measured), the interval, the scores from the newest
\* on, and the recent sessions that wrote evidence.
Standings == [ability : Int, overdue : Int, stability : Nat \ {0}, scores : Seq(0 .. 100), sessions : Nat]

---------------------------------------------------------------------------
\* Priorities

ErrorRate(scores) ==
    LET recent == SubSeq(scores, 1, Min({RecentResults, Len(scores)}))
    IN  IF recent = <<>> THEN 0 ELSE 100 - Sum(recent) \div Len(recent)

\* Ten times its own interval is as far past due as anything.
OverdueRatio(standing) ==
    IF standing.overdue <= 0 THEN 0 ELSE Min({100, (10 * standing.overdue) \div standing.stability})

Unlocks(graph, c) == Cardinality({d \in DOMAIN graph : c \in Range(graph[d])})

Priority(graph, standing, c) ==
    LET most == Max({1} \cup {Unlocks(graph, d) : d \in DOMAIN graph})
    IN  35 * (100 - Normalised(standing.ability)) + 25 * ErrorRate(standing.scores)
            + 20 * OverdueRatio(standing) + 10 * ((100 * Unlocks(graph, c)) \div most)
            - 20 * Min({100, (100 * standing.sessions) \div ExposureSessions})

\* rank_concepts, narrowed to the focus unless that leaves nothing.
Ranked(graph, learner, request) ==
    LET weight == [c \in DOMAIN graph |-> Priority(graph, learner[c], c)]
        known == {c \in DOMAIN graph \ Retired : DomainModality[DomainOf[c]] = request.mode}
        wanted == known \cap request.focus
        before == {pair \in known \X known :
                      \/ weight[pair[1]] > weight[pair[2]]
                      \/ weight[pair[1]] = weight[pair[2]] /\ pair[1] < pair[2]}
    IN  Sorted(IF wanted = {} THEN known ELSE wanted, before)

---------------------------------------------------------------------------
\* Choosing items

\* eligible_items, in the order of the library.
Eligible(items, request) ==
    Picked(items, {n \in DOMAIN items :
        /\ items[n].kind = "instance" /\ items[n].active /\ items[n].modality = request.mode
        /\ request.focus # {} => request.focus \cap items[n].concepts # {}})

Pool(offered, c) == Picked(offered, {n \in DOMAIN offered : offered[n].primary = c})
Minutes(item) == IF item.minutes = None THEN AssumedMinutes ELSE item.minutes

\* A prerequisite the learner is weaker at is served in its place, when the weakest of them
\* has an item of its own.
Substitution(c, ranked, graph, learner, offered) ==
    LET prereqs == graph[c]
        weaker == Picked(prereqs, {k \in DOMAIN prereqs : /\ prereqs[k] \in Range(ranked)
                                                         /\ learner[prereqs[k]].ability < learner[c].ability})
        first == CHOOSE k \in DOMAIN weaker : \A j \in DOMAIN weaker :
                     \/ learner[weaker[k]].ability < learner[weaker[j]].ability
                     \/ learner[weaker[k]].ability = learner[weaker[j]].ability /\ k <= j
    IN  IF weaker # <<>> /\ Pool(offered, weaker[first]) # <<>> THEN weaker[first] ELSE c

\* How far an expected score lies outside the informative band, 60 to 75, as biased.
BandDistance(expected, bias) == Max({0, 60 - 10 * bias - expected, expected - (75 - 10 * bias)})

\* One row for each concept that can be served, the item nearest to the band with it.
Shortlist(graph, learner, items, request) ==
    LET ranked == Ranked(graph, learner, request)
        offered == Eligible(items, request)
        distance(item) == BandDistance(Expected(learner[item.primary].ability - item.elo), request.bias)
        closest(c) == CHOOSE item \in Range(Pool(offered, c)) : \A other \in Range(Pool(offered, c)) :
                          \/ distance(item) < distance(other)
                          \/ distance(item) = distance(other) /\ item.id <= other.id
        consider(chosen, entry) ==
            LET c == Substitution(entry, ranked, graph, learner, offered)
            IN  IF Pool(offered, c) = <<>> \/ \E row \in Range(chosen) : row.concept = c
                THEN chosen
                ELSE Append(chosen, [concept |-> c, item |-> closest(c), distance |-> distance(closest(c)),
                                   priority |-> Priority(graph, learner[c], c)])
        rows[n \in 0 .. Len(ranked)] == IF n = 0 THEN <<>> ELSE consider(rows[n - 1], ranked[n])
        chosen == Range(rows[Len(ranked)])
        before == {pair \in chosen \X chosen :
            LET r == pair[1]
                s == pair[2]
            IN  \/ r.priority > s.priority
                \/ r.priority = s.priority /\ r.distance < s.distance
                \/ r.priority = s.priority /\ r.distance = s.distance /\ r.item.id < s.item.id}
    IN  Sorted(chosen, before)

\* _review_item: of the due concepts one is good at, the longest due that has an item.
Review(learner, items, request) ==
    LET offered == Eligible(items, request)
        due == {c \in DOMAIN learner : /\ learner[c].overdue >= 0 /\ learner[c].ability >= ReviewFloor
                                       /\ Pool(offered, c) # <<>>}
        first == CHOOSE c \in due : \A d \in due :
                     \/ learner[c].overdue > learner[d].overdue
                     \/ learner[c].overdue = learner[d].overdue /\ c <= d
    IN  IF due = {} THEN <<>> ELSE << Pool(offered, first)[1] >>

\* Seeded fault: the item under review may be chosen as a weakness too.
FillTwice(rows, review, budget) ==
    LET reserved == IF review = <<>> THEN 0 ELSE Minutes(review[1])
        room == Max({0, budget - reserved})
        take(plan, row) ==
            IF plan.items # <<>> /\ plan.spent + Minutes(row.item) > room
            THEN plan
            ELSE [items |-> Append(plan.items, row.item), spent |-> plan.spent + Minutes(row.item)]
        after[n \in 0 .. Len(rows)] == IF n = 0 THEN [items |-> <<>>, spent |-> 0] ELSE take(after[n - 1], rows[n])
        filled == after[Len(rows)]
    IN  IF review # <<>> /\ filled.spent + reserved <= budget
        THEN [items |-> filled.items \o review, spent |-> filled.spent + reserved]
        ELSE filled

\* The review is reserved, weaknesses fill what is left in their order, the first whatever it
\* takes, and the review goes last if it still fits.
Fill(rows, review, budget) ==
    LET reserved == IF review = <<>> THEN 0 ELSE Minutes(review[1])
        room == Max({0, budget - reserved})
        take(plan, row) ==
            IF row.item \in Range(review) \/ (plan.items # <<>> /\ plan.spent + Minutes(row.item) > room)
            THEN plan
            ELSE [items |-> Append(plan.items, row.item), spent |-> plan.spent + Minutes(row.item)]
        after[n \in 0 .. Len(rows)] == IF n = 0 THEN [items |-> <<>>, spent |-> 0] ELSE take(after[n - 1], rows[n])
        filled == after[Len(rows)]
    IN  IF review # <<>> /\ filled.spent + reserved <= budget
        THEN [items |-> filled.items \o review, spent |-> filled.spent + reserved]
        ELSE filled

\* build_plan
BuildPlan(graph, learner, items, request) ==
    Fill(Shortlist(graph, learner, items, request), Review(learner, items, request), request.budget)
=============================================================================
