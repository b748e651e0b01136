------------------------------ MODULE Serving ------------------------------
(***************************************************************************)
(* From the corpus to a grade: a corpus passes the gate (Corpus), a        *)
(* session is planned from it (Planner) and what is submitted for its      *)
(* items is graded (Graders).  The three parts never call one another:     *)
(* each relies on what the one before has promised about the items.        *)
(*                                                                         *)
(* How one session's submissions and gradings interleave is the business   *)
(* of Sessions; here they follow one another.                              *)
(***************************************************************************)
EXTENDS Corpus, Planner, Graders

CONSTANTS
    Learners,     \* the standings a session may be planned for
    Wishes,       \* what a session may be asked for: mode, focus, bias and budget
    Submissions   \* what may be handed in

ASSUME ServingAssumption ==
    /\ \A library \in Libraries :
           library \in Seq(Range(library)) /\ \A item \in Range(library) : Shaped(item)
    /\ Learners \subseteq [Concepts -> Standings]
    /\ \A learner \in Learners, c \in Concepts :
           /\ Normalised(learner[c].ability) \in Int
           /\ \A library \in Libraries : \A item \in Range(library) :
                  Expected(learner[c].ability - item.elo) \in Int
    \* the route's bounds
    /\ Wishes \subseteq [mode : DOMAIN ModalityGrading, focus : SUBSET Nat, bias : Int, budget : 1 .. 240]
    /\ \A submission \in Submissions :
           \/ submission \in Runs /\ submission.passed <= submission.total
           \/ /\ submission.kind = "prose" /\ submission.lines \in Seq(AnswerLines) /\ submission.hints \in Nat
              /\ submission.replied \in BOOLEAN
              /\ \A id \in DOMAIN submission.verdicts : submission.verdicts[id] \in ModelVerdicts

VARIABLES
    asked,   \* the learner and the request a plan was made for, until something is handed in
    plan,    \* the plan, without the items that have been handed in
    graded   \* the last item with what was handed in for it and its grade

planVars == <<asked, plan, graded>>
servingVars == <<corpusVars, planVars>>

Nothing == [kind |-> "nothing"]
NoPlan == [items |-> <<>>, spent |-> 0]

ServingInit ==
    /\ CorpusInit
    /\ asked = Nothing /\ plan = NoPlan /\ graded = Nothing

\* create_session, on a corpus that was let through; a plan without items is refused (422).
Plan(learner, request) ==
    LET made == BuildPlan(graph, learner, items, request) IN
    /\ verdict = "valid" /\ asked = Nothing /\ graded = Nothing
    /\ made.items # <<>>
    /\ plan' = made
    /\ asked' = [kind |-> "session", learner |-> learner, request |-> request]
    /\ UNCHANGED <<corpusVars, graded>>

\* What submit takes: code in a language the item declares, prose otherwise.  The model that
\* judges it can name only criteria of the item (response_schema).
Fits(item, submission) ==
    IF item.modality = "coding"
    THEN submission.kind = "code" /\ submission.language \in item.grading.languages
    ELSE /\ submission.kind = "prose"
         /\ DOMAIN submission.verdicts \subseteq {c.id : c \in Range(item.grading.criteria)}

\* An item is handed in and graded.
Submit(submission) ==
    LET item == Head(plan.items) IN
    /\ plan.items # <<>> /\ Fits(item, submission)
    /\ graded' = [kind |-> "graded", item |-> item, submission |-> submission,
                  grade |-> Grade(item, submission)]
    /\ plan' = [items |-> Tail(plan.items), spent |-> 0]
    /\ asked' = Nothing
    /\ UNCHANGED corpusVars

Serve ==
    \/ Validate /\ UNCHANGED planVars
    \/ \E learner \in Learners, request \in Wishes : Plan(learner, request)
    \/ \E submission \in Submissions : Submit(submission)

ServingSpec == ServingInit /\ [][Serve]_servingVars

---------------------------------------------------------------------------
\* Properties

Total(list) == Sum([k \in DOMAIN list |-> Minutes(list[k])])

\* A plan serves no item twice, although the item under review is chosen apart from the
\* weaknesses (build_plan).  It keeps within the minutes asked for unless it is one item; and
\* what was passed over would not have fitted beside what was taken, the review included.
PlanSound ==
    asked # Nothing =>
        LET request == asked.request
            review == Review(asked.learner, items, request)
            reserved == Picked(review, {n \in DOMAIN review : review[n] \notin Range(plan.items)})
            passed == {row.item : row \in Range(Shortlist(graph, asked.learner, items, request))}
                          \ (Range(plan.items) \cup Range(review))
        IN  /\ IsInjective(plan.items) /\ plan.spent = Total(plan.items)
            /\ plan.spent <= request.budget \/ Len(plan.items) = 1
            /\ \A item \in passed : plan.spent + Total(reserved) + Minutes(item) > request.budget

Blank(submission) == submission.kind = "prose" /\ submission.lines = <<>>
Worded(item) == item.modality # "coding" /\ \E criterion \in Range(item.grading.criteria) : criterion.worded

\* The tests were not run, or the probe of a submission that passed some of them; or the model
\* that was to judge the criteria gave no reply that can be read.
Outage(item, submission) ==
    IF submission.kind = "code"
    THEN "execute" \in submission.unanswered \/ (submission.passed > 0 /\ "probe" \in submission.unanswered)
    ELSE item.grading.criteria # <<>> /\ ~submission.replied

\* An item that passed the gate is one its grader can grade: whatever is handed in, the grader
\* raises only for a blank answer, an anchor that is no number, or an executor or a model that
\* does not answer; and what it writes is a score or a failure without evidence, evidence only
\* of concepts the corpus has, and of nothing for a derivation that states no answer and
\* demonstrates nothing.  A score is never what it is because the executor did not answer: a
\* slow submission is not let off by a probe that failed (_grade: "The submission is not at
\* fault and must not be scored for it").
GradesSound ==
    graded # Nothing =>
        LET item == graded.item
            submission == graded.submission
            grade == graded.grade
        IN  /\ grade.status = "raised" => Blank(submission) \/ Worded(item) \/ Outage(item, submission)
            /\ IF grade.status = "graded" THEN grade.score \in 0 .. Whole
               ELSE grade.score = Unscored /\ grade.evidence = {}
            /\ \A row \in grade.evidence :
                   row.concept \in Concepts /\ row.score \in 0 .. Whole /\ row.confidence \in 1 .. 90
            /\ submission.kind = "prose" =>
                   ((\E row \in grade.evidence : row.concept = item.primary /\ row.confidence > 50)
                        => Arithmetic(submission.lines) # {})
            /\ submission.kind = "code" /\ grade.status # "raised" =>
                   grade = Grade(item, [submission EXCEPT !.unanswered = {}])

\* The answer is read from where the working ends (closing_statement): no line before the last
\* one with arithmetic changes what is taken for the answer, and a declaration that is wrong
\* is not saved by the right number standing beside it.
AnswerIsConclusion ==
    (graded # Nothing /\ graded.item.grading.type = "answer") =>
        LET grading == graded.item.grading
            lines == graded.submission.lines
            check == CheckAnswer(grading, lines)
        IN  /\ \A k \in 1 .. LastArithmetic(lines) : CheckAnswer(grading, SubSeq(lines, k, Len(lines))) = check
            /\ (check.correct /\ check.declared) =>
                   LET line == lines[LastArithmetic(lines)]
                   IN  line.marked /\ (line.rest[1] \in {grading.exact, grading.numeric} \/ line.form)

\* A submission that grows clearly faster than its target allows is called slower, whether its
\* sweep ends or is cut short, unless it fails, the sandbox ends it at the first size or it
\* is never above the noise (judge: "the slowest submissions used to get the softest verdict").
\* Up to cubic growth, that is: the driver expects no worse of the next size, and beyond it
\* the sandbox may end a sweep that should have been cut short.
SlowIsCaught ==
    (graded # Nothing /\ graded.submission.kind = "code") =>
        LET grading == graded.item.grading
            run == graded.submission
        IN  (/\ grading.target # NoTarget /\ Measurable(run, grading.sizes) /\ run.growth <= 3
             /\ 100 * run.growth >= Ceiling[grading.target] + Margin)
                => ProbeVerdict(run, grading.sizes, grading.target) = "slower_than_target"

\* "The worse algorithm scored higher" (judge), put as a rule: what is slower at every size is
\* not judged more kindly.  The driver repeats fast runs and not slow ones, so the code does
\* not keep it.
SlowerStaysSlower ==
    (graded # Nothing /\ graded.submission.kind = "code") =>
        LET grading == graded.item.grading
            runs == {run \in Submissions : run.kind = "code" /\ Measurable(run, grading.sizes)}
            slower(run) == ProbeVerdict(run, grading.sizes, grading.target) = "slower_than_target"
        IN  grading.target # NoTarget =>
                \A fast, slow \in runs :
                    (fast.cost <= slow.cost /\ fast.growth <= slow.growth /\ slower(fast)) => slower(slow)
=============================================================================
