------------------------------- MODULE Practice -------------------------------
(***************************************************************************)
(* The practice log (apps/api/src/api/practice.py): problems solved        *)
(* elsewhere are logged or imported, wait for a classification that is     *)
(* sure, become active, are solved again on a schedule and graduate.       *)
(*                                                                         *)
(* Several clients work on one log.  A client's requests follow one        *)
(* another, and each is split between what it reads and the commit that    *)
(* relies on it; no request locks the problem it has read.                 *)
(***************************************************************************)
EXTENDS Classification

CONSTANTS
    Clients,
    Urls,         \* what a manual entry may point to
    Pastes,       \* the lists of links an import may be given
    Answers,      \* what the model may answer about a title
    Tags,         \* what LeetCode may answer about a slug: sets of topic tags
    Corrections,  \* what a confirmation may carry: a primary concept and secondary ones
    Labels,       \* the lists of labels an edit may carry
    GraduationSolves,
    MaxRows  \* the model's bound on the rows of the two tables, problems and solves together

Initial == 192     \* INITIAL_INTERVAL_DAYS, three days, counted in 64ths of a day
MinInterval == 64  \* MIN_INTERVAL_DAYS
None == -1         \* a column that is null

ASSUME PracticeAssumption ==
    /\ \A url \in Urls : url.site \in {"leetcode", "neetcode", "bare", "other"}
    /\ Corrections \subseteq [primary : Concepts, secondary : Seq(Concepts)]
    /\ GraduationSolves \in Nat \ {0, 1}
    /\ MaxRows \in Nat

VARIABLES
    log,      \* practice_problems, oldest first, each with its practice_solves
    pc,
    target,   \* client -> the problem its request is about
    loaded,   \* client -> that problem's row as the request has read it
    asked,    \* client -> what the request carries
    number,   \* client -> the number of the solve it is about to write
    todo,     \* client -> the links its import has yet to do
    seen      \* client -> the problems its import takes for logged

\* A new problem is two rows, a review is one.
Rows == Len(log) + MapThenSumSet(LAMBDA p : Len(log[p].solves), DOMAIN log)

vars == <<log, pc, target, loaded, asked, number, todo, seen>>

Numbers == 0 .. MaxRows
\* The evidence one transaction writes for a solve: its concepts, the primary one first.
Mark == [by : Clients, concepts : Seq(Concepts)]
Solve == [by : Clients, ok : BOOLEAN, marks : Seq(Mark)]
\* due and graduated stand for the solve from whose time they were counted.
Links == Urls \cup UNION {Range(paste) : paste \in Pastes}
Row == [by : Clients, imported : BOOLEAN, url : Links \cup {StoredUrl(link) : link \in Links},
        labels : Seq(UNION {Range(labels) : labels \in Labels}),
        primary : Concepts \cup {NoConcept}, secondary : Seq(Concepts),
        status : {"pending_classification", "active", "graduated"},
        count : Numbers, stability : Nat \cup {None}, due : Numbers \cup {None}, graduated : Numbers \cup {None},
        solves : Seq(Solve)]
Nothing == [kind |-> "nothing"]

TypeOK ==
    /\ log \in Seq(Row) /\ Len(log) <= MaxRows
    /\ pc \in [Clients -> {"idle", "resolve", "count", "review", "edit", "import"}]
    /\ target \in [Clients -> 0 .. MaxRows]
    /\ \A c \in Clients : pc[c] \in {"resolve", "count", "review", "edit"} =>
           target[c] \in DOMAIN log /\ loaded[c] \in Row
    /\ number \in [Clients -> Numbers]
    /\ \A c \in Clients : pc[c] # "import" => todo[c] = <<>> /\ seen[c] = {}

Init ==
    /\ log = <<>>
    /\ pc = [c \in Clients |-> "idle"]
    /\ target = [c \in Clients |-> 0]
    /\ loaded = [c \in Clients |-> Nothing]
    /\ asked = [c \in Clients |-> Nothing]
    /\ number = [c \in Clients |-> 0]
    /\ todo = [c \in Clients |-> <<>>]
    /\ seen = [c \in Clients |-> {}]

\* The request is over, answered, refused or dead: it holds nothing.
Finish(c) ==
    /\ pc' = [pc EXCEPT ![c] = "idle"]
    /\ target' = [target EXCEPT ![c] = 0]
    /\ loaded' = [loaded EXCEPT ![c] = Nothing]
    /\ asked' = [asked EXCEPT ![c] = Nothing]
    /\ number' = [number EXCEPT ![c] = 0]
    /\ todo' = [todo EXCEPT ![c] = <<>>]
    /\ seen' = [seen EXCEPT ![c] = {}]

\* db.get of the problem, when its status allows the request.
Load(c, p, label, what) ==
    /\ pc[c] = "idle"
    /\ pc' = [pc EXCEPT ![c] = label]
    /\ target' = [target EXCEPT ![c] = p]
    /\ loaded' = [loaded EXCEPT ![c] = log[p]]
    /\ asked' = [asked EXCEPT ![c] = what]
    /\ UNCHANGED <<log, number, todo, seen>>

\* Seeded fault: an update writes every column of the row it loaded.
UpdateWholeRow(row, old, new) ==
    [column \in DOMAIN row |-> IF column = "solves" THEN row.solves ELSE new[column]]

\* An UPDATE of the ORM names only the columns the request has changed.
Update(row, old, new) ==
    [column \in DOMAIN row |-> IF new[column] # old[column] THEN new[column] ELSE row[column]]

---------------------------------------------------------------------------
\* What a solve writes

\* evidence_rows and _write_evidence: one mark per solve, its primary concept first.
MarkOf(c, row) ==
    IF row.primary = NoConcept THEN <<>>
    ELSE << [by |-> c, concepts |-> <<row.primary>> \o row.secondary] >>

WithMark(solves, n, mark) == [solves EXCEPT ![n].marks = @ \o mark]

\* A success lets the interval grow by GROWTH_FACTOR, a lapse halves it.
NextInterval(stability, ok) ==
    IF ok THEN (stability * 5) \div 2 ELSE Max({MinInterval, stability \div 2})

\* log_problem: the problem, its first solve and, if the classification is accepted, the evidence.
Logged(c, url, proposal, imported) ==
    LET accepted == AutoAccepted(proposal) /\ ~imported
        row == [by |-> c, imported |-> imported, url |-> url, labels |-> <<>>,
                primary |-> proposal.primary, secondary |-> proposal.secondary,
                status |-> IF accepted THEN "active" ELSE "pending_classification",
                count |-> 1,
                stability |-> IF accepted THEN Initial ELSE None,
                due |-> IF accepted THEN 0 ELSE None,
                graduated |-> None, solves |-> <<>>]
    IN  [row EXCEPT !.solves = << [by |-> c, ok |-> TRUE,
                                   marks |-> IF accepted THEN MarkOf(c, row) ELSE <<>>] >>]

\* Seeded fault: the second success graduates.
ReviewedEarly(row, n, ok) ==
    IF ok
    THEN LET count == row.count + 1
         IN  IF count >= GraduationSolves - 1
             THEN [row EXCEPT !.count = count, !.status = "graduated", !.due = None, !.graduated = n]
             ELSE [row EXCEPT !.count = count, !.due = n,
                              !.stability = NextInterval(row.stability, TRUE)]
    ELSE [row EXCEPT !.stability = NextInterval(row.stability, FALSE), !.due = n]

\* record_review: what becomes of a row that was read, by the solve with a number.
Reviewed(row, n, ok) ==
    IF ok
    THEN LET count == row.count + 1
         IN  IF count >= GraduationSolves
             THEN [row EXCEPT !.count = count, !.status = "graduated", !.due = None, !.graduated = n]
             ELSE [row EXCEPT !.count = count, !.due = n,
                              !.stability = NextInterval(row.stability, TRUE)]
    ELSE [row EXCEPT !.stability = NextInterval(row.stability, FALSE), !.due = n]

---------------------------------------------------------------------------
\* The requests

\* POST /practice/problems, after the model has answered: nothing of the log is read.
LogProblem(c, url, answer) ==
    /\ pc[c] = "idle" /\ Rows + 2 <= MaxRows
    /\ log' = Append(log, Logged(c, url, Classify(answer), FALSE))
    /\ UNCHANGED <<pc, target, loaded, asked, number, todo, seen>>

\* POST /practice/import/leetcode: what is logged is read once.
OpenImport(c, links) ==
    /\ pc[c] = "idle"
    /\ pc' = [pc EXCEPT ![c] = "import"]
    /\ todo' = [todo EXCEPT ![c] = links]
    /\ seen' = [seen EXCEPT ![c] = {SameProblemKey(log[p].url) : p \in DOMAIN log}]
    /\ UNCHANGED <<log, target, loaded, asked, number>>

\* A link is skipped: unreadable, logged already, or LeetCode refuses it or does not know it.
\* The last two can happen to any link.
SkipLink(c) ==
    /\ pc[c] = "import" /\ todo[c] # <<>>
    /\ todo' = [todo EXCEPT ![c] = Tail(@)]
    /\ UNCHANGED <<log, pc, target, loaded, asked, number, seen>>

\* Seeded fault: what an import has added is not taken for logged.
ImportForgetting(c, tags) ==
    LET link == Head(todo[c]) IN
    /\ pc[c] = "import" /\ todo[c] # <<>> /\ Rows + 2 <= MaxRows
    /\ Readable(link) /\ Resolved(link) \notin seen[c]
    /\ log' = Append(log, Logged(c, StoredUrl(link), TagProposal(tags), TRUE))
    /\ todo' = [todo EXCEPT ![c] = Tail(@)]
    /\ UNCHANGED <<pc, target, loaded, asked, number, seen>>

\* LeetCode has answered: the problem is logged and held, in a commit of its own.
ImportLink(c, tags) ==
    LET link == Head(todo[c]) IN
    /\ pc[c] = "import" /\ todo[c] # <<>> /\ Rows + 2 <= MaxRows
    /\ Readable(link) /\ Resolved(link) \notin seen[c]
    /\ log' = Append(log, Logged(c, StoredUrl(link), TagProposal(tags), TRUE))
    /\ todo' = [todo EXCEPT ![c] = Tail(@)]
    /\ seen' = [seen EXCEPT ![c] = @ \cup {Resolved(link)}]
    /\ UNCHANGED <<pc, target, loaded, asked, number>>

EndImport(c) ==
    /\ pc[c] = "import" /\ todo[c] = <<>>
    /\ Finish(c)
    /\ UNCHANGED log

\* PATCH .../classification
OpenResolve(c, p, correction) ==
    /\ log[p].status = "pending_classification"
    /\ Load(c, p, "resolve", correction)

\* Seeded fault: a problem becomes active without the evidence that waited.
WriteResolveBare(c) ==
    LET p == target[c]
        new == [loaded[c] EXCEPT !.primary = asked[c].primary, !.status = "active",
                    !.secondary = Besides(asked[c]),
                    !.stability = Initial, !.due = 0]
    IN  /\ pc[c] = "resolve"
        /\ log' = [log EXCEPT ![p] = Update(log[p], loaded[c], new)]
        /\ Finish(c)

\* The classification, the schedule of the first solve and its evidence are one commit.
WriteResolve(c) ==
    LET p == target[c]
        new == [loaded[c] EXCEPT !.primary = asked[c].primary, !.status = "active",
                    !.secondary = Besides(asked[c]),
                    !.stability = Initial, !.due = 0]
    IN  /\ pc[c] = "resolve"
        /\ log' = [log EXCEPT ![p] = [Update(log[p], loaded[c], new) EXCEPT
                       !.solves = WithMark(log[p].solves, 1, MarkOf(c, new))]]
        /\ Finish(c)

\* POST .../reviews
OpenReview(c, p, ok) ==
    /\ log[p].status = "active"
    /\ Load(c, p, "count", [kind |-> "review", ok |-> ok])

\* The number of the solve is read after the row, in a statement of its own.
CountSolves(c) ==
    /\ pc[c] = "count"
    /\ number' = [number EXCEPT ![c] = Len(log[target[c]].solves)]
    /\ pc' = [pc EXCEPT ![c] = "review"]
    /\ UNCHANGED <<log, target, loaded, asked, todo, seen>>

\* The solve, the schedule and the evidence are one commit, which the unique number refuses
\* when another solve has taken it.
WriteReview(c) ==
    LET p == target[c]
        new == Reviewed(loaded[c], number[c], asked[c].ok)
        solve == [by |-> c, ok |-> asked[c].ok, marks |-> MarkOf(c, loaded[c])]
    IN  /\ pc[c] = "review"
        /\ number[c] = Len(log[p].solves) /\ Rows < MaxRows
        /\ log' = [log EXCEPT ![p] = [Update(log[p], loaded[c], new) EXCEPT
                       !.solves = Append(log[p].solves, solve)]]
        /\ Finish(c)

\* PATCH /practice/problems/{id}: the fields that are the user's own.
OpenEdit(c, p, labels) == Load(c, p, "edit", [kind |-> "edit", labels |-> labels])

WriteEdit(c) ==
    LET p == target[c]
        new == [loaded[c] EXCEPT !.labels = NormaliseLabels(asked[c].labels)]
    IN  /\ pc[c] = "edit"
        /\ log' = [log EXCEPT ![p] = Update(log[p], loaded[c], new)]
        /\ Finish(c)

\* A request dies or its transaction is refused: what it has not committed is gone.
Fail(c) ==
    /\ pc[c] # "idle"
    /\ Finish(c)
    /\ UNCHANGED log

Next ==
    \E c \in Clients :
        \/ \E url \in Urls, answer \in Answers : LogProblem(c, url, answer)
        \/ \E links \in Pastes : OpenImport(c, links)
        \/ SkipLink(c) \/ EndImport(c)
        \/ \E tags \in Tags : ImportLink(c, tags)
        \/ \E p \in DOMAIN log :
               \/ \E correction \in Corrections : OpenResolve(c, p, correction)
               \/ \E ok \in BOOLEAN : OpenReview(c, p, ok)
               \/ \E labels \in Labels : OpenEdit(c, p, labels)
        \/ WriteResolve(c) \/ CountSolves(c) \/ WriteReview(c) \/ WriteEdit(c)
        \/ Fail(c)

Spec == Init /\ [][Next]_vars

---------------------------------------------------------------------------
\* What is read

\* Seeded fault: whether there is a next page is decided after the filter.
PageCursorLate(before, concept, limit) ==
    LET fetched == {p \in DOMAIN log : p < before}
        page == {p \in fetched : Cardinality({q \in fetched : q > p}) < limit}
        rows == {p \in page : concept \in {log[p].primary} \cup Range(log[p].secondary)}
    IN  [rows |-> rows, next |-> IF fetched # page /\ rows # {} THEN Min(page) ELSE 0]

\* list_problems: the newest rows before the cursor (a ULID grows with time), of which the
\* concept filter then keeps some; the next cursor is the last row before that filter.
Page(before, concept, limit) ==
    LET fetched == {p \in DOMAIN log : p < before}
        page == {p \in fetched : Cardinality({q \in fetched : q > p}) < limit}
        rows == {p \in page : concept \in {log[p].primary} \cup Range(log[p].secondary)}
    IN  [rows |-> rows, next |-> IF fetched # page THEN Min(page) ELSE 0]

---------------------------------------------------------------------------
\* Properties

Successes(solves) == {n \in DOMAIN solves : solves[n].ok}
Writers(p) ==
    {log[p].solves[n].by : n \in DOMAIN log[p].solves \ {1}}
        \cup {mark.by : mark \in Range(log[p].solves[1].marks)}

\* What the solves of an active or graduated problem make of its row, computed afresh.
Replayed(row) ==
    LET done == Cardinality(Successes(row.solves)) >= GraduationSolves
        spaced == IF done THEN Front(row.solves) ELSE row.solves
        last == Len(row.solves) - 1
    IN  [row EXCEPT !.count = Cardinality(Successes(row.solves)),
                    !.status = IF done THEN "graduated" ELSE "active",
                    !.due = IF done THEN None ELSE last,
                    !.graduated = IF done THEN last ELSE None,
                    !.stability = FoldLeft(LAMBDA days, solve : NextInterval(days, solve.ok),
                                           Initial, Tail(spaced))]

\* The schedule is a projection of the solves (practice.py's docstring) as long as only one
\* client has confirmed and reviewed the problem, whatever others edit, import or have
\* refused meanwhile: requests that overlap do not keep it, see SoleProjection.
ScheduleIsReplay ==
    \A p \in DOMAIN log :
        log[p].status # "pending_classification" /\ Cardinality(Writers(p)) = 1
            => log[p] = Replayed(log[p])

\* However reviews overlap, a problem graduates on GRADUATION_SOLVES successful solves at
\* the least, and its solve_count never exceeds them (record_review).
GraduationEarned ==
    \A p \in DOMAIN log :
        /\ log[p].count <= Cardinality(Successes(log[p].solves))
        /\ log[p].status = "graduated" => Cardinality(Successes(log[p].solves)) >= GraduationSolves

\* A pending problem feeds nothing: no evidence, no date, no review.  Afterwards each solve
\* has its evidence, a review's in one piece and the first solve's once from each client
\* ("Its evidence is already written, and evidence is immutable", resolve_classification).
EvidenceOnce ==
    \A p \in DOMAIN log : LET solves == log[p].solves IN
        IF log[p].status = "pending_classification"
        THEN solves[1].marks = <<>> /\ Len(solves) = 1 /\ log[p].due = None
        ELSE /\ \A n \in DOMAIN solves : IF n = 1 THEN solves[n].marks # <<>> ELSE Len(solves[n].marks) = 1
             /\ IsInjective([k \in DOMAIN solves[1].marks |-> solves[1].marks[k].by])

\* An import adds no problem that its client has logged before it, in whichever site's
\* spelling, nor the same one twice (same_problem_key, "two slugs for one problem is one row").
ImportAddsOnce ==
    \A p, q \in DOMAIN log :
        p < q /\ log[q].imported /\ log[p].by = log[q].by
            => SameProblemKey(log[p].url) # SameProblemKey(log[q].url)

\* Whoever follows the cursors from the newest page is shown every problem of the concept,
\* once (list_problems: "a truncated list that looks complete is not").
ListingComplete ==
    \A concept \in Concepts, limit \in 1 .. 2 :
        LET walk[before \in 0 .. Len(log) + 1] ==
                IF before = 0 THEN <<>>
                ELSE LET page == Page(before, concept, limit)
                     IN  <<page.rows>> \o walk[page.next]
            pages == walk[Len(log) + 1]
        IN  /\ UNION Range(pages) = {p \in DOMAIN log :
                   concept \in {log[p].primary} \cup Range(log[p].secondary)}
            /\ \A j, k \in DOMAIN pages : j # k => pages[j] \cap pages[k] = {}

\* practice.py's docstring without the exception that the code needs: the schedule of every
\* problem is a projection of its solves, whoever wrote them and when.  Not kept.
SoleProjection ==
    \A p \in DOMAIN log :
        log[p].status # "pending_classification" => log[p] = Replayed(log[p])

\* "Null once graduated" (docs/PRACTICE_LOG.md, due_at): a graduated problem has no date.  Not
\* kept by two reviews that overlap.
GraduatedNotDue == \A p \in DOMAIN log : log[p].status = "graduated" => log[p].due = None
=============================================================================
