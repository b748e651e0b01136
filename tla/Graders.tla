------------------------------ MODULE Graders ------------------------------
(***************************************************************************)
(* The graders (apps/api/src/api/grading/: coding.py, rubric.py and        *)
(* quant.py) as functions of an item and a submission.  Scores are in      *)
(* units of 1/10000, rounded down; confidences and weights in hundredths.  *)
(***************************************************************************)
EXTENDS ItemRules, Probe

CONSTANTS
    HintPenalties,    \* HINT_PENALTIES, in hundredths
    FailureSoftness,  \* FAILURE_SOFTNESS, in hundredths
    MinCitation,      \* MIN_CITATION_CHARS
    ClosingLines,     \* CLOSING_LINES
    DefaultTop        \* DEFAULT_LEVEL_MAX

ASSUME GradersAssumption ==
    /\ Bands \subseteq DOMAIN Ceiling  \* classify_target and _BAND_CEILING
    /\ HintPenalties \in Seq(0 .. 100) /\ HintPenalties # <<>>
    /\ \A kind \in DOMAIN FailureSoftness : FailureSoftness[kind] \in 5 .. 100
    /\ DefaultTop \in Nat \ {0} /\ ClosingLines \in Nat \ {0}

Whole == 10000
Unscored == 0 - 1

Failed == [status |-> "failed", score |-> Unscored, evidence |-> {}]
Raised == [status |-> "raised", score |-> Unscored, evidence |-> {}]

\* hint_retention: each hint keeps a share of what is left, the last rate for all beyond.
HintRetention(hints) ==
    LET rate(level) == HintPenalties[Min({level, Len(HintPenalties)})]
        kept[level \in 0 .. hints] ==
            IF level = 0 THEN Whole ELSE (kept[level - 1] * (100 - rate(level))) \div 100
    IN  kept[hints]

---------------------------------------------------------------------------
\* What is handed in

\* A run of the tests and of the probe, and which of the two calls the executor did not answer.
Runs ==
    [kind : {"code"}, language : STRING, gradeable : BOOLEAN, passed : Nat, total : Nat,
     failures : Seq(DOMAIN FailureSoftness), measurable : BOOLEAN, cost : Nat, growth : Nat, hints : Nat,
     unanswered : SUBSET {"execute", "probe"}]

\* Seeded fault: a probe without an answer is let pass.
UnansweredTests(run, call) == call = "execute" /\ call \in run.unanswered

\* _post raises when the executor cannot be reached, fails, refuses the request or answers
\* what cannot be read.
Unanswered(run, call) == call \in run.unanswered

\* A line holds the expressions before a marker ("answer is", "answer:") and after it, and
\* perhaps an accepted form; None is an expression the parser refuses.
AnswerLines == [before : Seq(Nat), marked : BOOLEAN, rest : Seq(Nat), form : BOOLEAN]

\* What the model says of a criterion, the passage it quotes and whether it is in the answer.
\* The schema it answers in cannot bound the level.
ModelVerdicts == [demonstrated : BOOLEAN, level : Int, quote : [chars : Nat, found : BOOLEAN]]

\* llm.complete raises when the budget is spent or the provider fails, and _parse when what
\* comes back is not JSON with criteria.
NoReply(answer) == ~answer.replied

---------------------------------------------------------------------------
\* Code

\* A weakness shown by an adversarial case is a softer claim than one shown by an example.
Confidence(failures) ==
    IF failures = <<>> THEN 90
    ELSE (90 * Sum([k \in DOMAIN failures |-> FailureSoftness[failures[k]]])) \div (100 * Len(failures))

\* grade_coding.  The probe is asked only where something passed, and can only take away.
GradeCoding(item, run) ==
    LET grading == item.grading
        correctness == (Whole * run.passed) \div run.total
        asked == run.passed > 0 /\ grading.sizes # <<>> /\ grading.target # NoTarget
        slower == /\ asked /\ "probe" \notin run.unanswered
                  /\ ProbeVerdict(run, grading.sizes, grading.target) = "slower_than_target"
        score == (((correctness * (IF slower THEN 75 ELSE 100)) \div 100) * HintRetention(run.hints)) \div Whole
        confidence == Confidence(run.failures)
    IN  IF \/ grading.type # "tests" \/ run.language \notin grading.languages
           \/ ~grading.entrypoint \/ grading.tests = 0 \/ Unanswered(run, "execute") THEN Raised
        ELSE IF ~run.gradeable \/ run.total = 0 THEN Failed
        ELSE IF asked /\ Unanswered(run, "probe") THEN Raised
        ELSE [status |-> "graded", score |-> score,
              evidence |-> {[concept |-> c, score |-> score,
                             confidence |-> IF c = item.primary THEN confidence ELSE (confidence * 60) \div 100]
                            : c \in item.concepts}]

---------------------------------------------------------------------------
\* Prose judged against criteria

LevelMax(criterion) == IF Max(criterion.anchors \cup {0}) > 0 THEN Max(criterion.anchors) ELSE DefaultTop

\* A quote is long enough and is in the answer (cites_the_answer).
Cites(quote) == quote.chars >= MinCitation /\ quote.found

\* _judge: a criterion the model left out, or whose quote is not there, is not demonstrated.
Demonstrated(criterion, verdicts) ==
    /\ criterion.id \in DOMAIN verdicts
    /\ verdicts[criterion.id].demonstrated /\ Cites(verdicts[criterion.id].quote)

JudgedScore(criterion, verdicts) ==
    IF ~Demonstrated(criterion, verdicts) THEN 0
    ELSE (Whole * Clamp(0, LevelMax(criterion), verdicts[criterion.id].level)) \div LevelMax(criterion)

WeightedScore(criteria, verdicts) ==
    Sum([k \in DOMAIN criteria |-> criteria[k].weight * JudgedScore(criteria[k], verdicts)])
        \div Sum([k \in DOMAIN criteria |-> criteria[k].weight])

\* evidence_from: silence is no evidence.
EvidenceFrom(criteria, verdicts) ==
    {[concept |-> criterion.concept, score |-> JudgedScore(criterion, verdicts), confidence |-> 50] :
        criterion \in {c \in Range(criteria) : c.concept # None /\ Demonstrated(c, verdicts)}}

\* judge_criteria refuses a rubric without criteria, an answer without words, and an anchor
\* that is not a number (level_max); and it needs a reply.
CannotJudge(criteria, answer) ==
    \/ criteria = <<>> \/ answer.lines = <<>> \/ NoReply(answer)
    \/ \E criterion \in Range(criteria) : criterion.worded

GradeRubric(item, answer) ==
    LET criteria == item.grading.criteria IN
    IF item.grading.type # "rubric" \/ CannotJudge(criteria, answer) THEN Raised
    ELSE [status |-> "graded",
          score |-> (WeightedScore(criteria, answer.verdicts) * HintRetention(answer.hints)) \div Whole,
          evidence |-> EvidenceFrom(criteria, answer.verdicts)]

---------------------------------------------------------------------------
\* Answers to quantitative questions

Expressions(line) == line.before \o line.rest
Arithmetic(lines) == {k \in DOMAIN lines : Expressions(lines[k]) # <<>>}
LastArithmetic(lines) == Max(Arithmetic(lines) \cup {0})

Unstated == [declared |-> FALSE, spans |-> <<>>, form |-> FALSE]

\* Seeded fault: a marker counts wherever it stands in the working.
ClosingStatementAnywhere(lines) ==
    LET declared == {k \in DOMAIN lines : lines[k].marked /\ lines[k].rest # <<>>}
        concluding == {k \in Arithmetic(lines) : k > Len(lines) - ClosingLines}
    IN  IF declared # {} THEN [declared |-> TRUE, spans |-> lines[Max(declared)].rest, form |-> lines[Max(declared)].form]
        ELSE IF concluding # {}
        THEN [declared |-> FALSE, spans |-> Expressions(lines[Max(concluding)]), form |-> lines[Max(concluding)].form]
        ELSE Unstated

\* closing_statement: what follows the last marker, unless arithmetic follows it, or the last
\* of the closing lines that has any.
ClosingStatement(lines) ==
    LET declared == {k \in DOMAIN lines : k >= LastArithmetic(lines) /\ lines[k].marked /\ lines[k].rest # <<>>}
        concluding == {k \in Arithmetic(lines) : k > Len(lines) - ClosingLines}
    IN  IF declared # {} THEN [declared |-> TRUE, spans |-> lines[Max(declared)].rest, form |-> lines[Max(declared)].form]
        ELSE IF concluding # {}
        THEN [declared |-> FALSE, spans |-> Expressions(lines[Max(concluding)]), form |-> lines[Max(concluding)].form]
        ELSE Unstated

\* check_answer: a declaration is held to its first expression, a conclusion to any of its own.
CheckAnswer(grading, lines) ==
    LET statement == ClosingStatement(lines)
        candidates == IF statement.declared THEN {statement.spans[1]} ELSE Range(statement.spans)
    IN  [stated |-> statement # Unstated, declared |-> statement.declared,
         correct |-> \/ (candidates \ {None}) \cap {grading.exact, grading.numeric} # {}
                     \/ statement.form /\ grading.forms]

\* grade_quant: four parts answer and six parts derivation, or the answer alone.
GradeQuant(item, answer) ==
    LET grading == item.grading
        check == CheckAnswer(grading, answer.lines)
        right == IF check.correct THEN Whole ELSE 0
        raw == IF grading.criteria = <<>> THEN right
               ELSE (40 * right + 60 * WeightedScore(grading.criteria, answer.verdicts)) \div 100
        claim == {[concept |-> item.primary, score |-> right, confidence |-> IF check.declared THEN 90 ELSE 75]}
    IN  IF \/ grading.type # "answer" \/ {grading.exact, grading.numeric} = {None} \/ answer.lines = <<>>
           \/ grading.criteria # <<>> /\ CannotJudge(grading.criteria, answer) THEN Raised
        ELSE [status |-> "graded", score |-> (raw * HintRetention(answer.hints)) \div Whole,
              evidence |-> EvidenceFrom(grading.criteria, answer.verdicts)
                               \cup (IF check.stated THEN claim ELSE {})]

\* The grader an item's contract names (_grade).
Grade(item, submission) ==
    CASE item.grading.type = "tests" -> GradeCoding(item, submission)
      [] item.grading.type = "answer" -> GradeQuant(item, submission)
      [] item.grading.type = "rubric" -> GradeRubric(item, submission)
      [] OTHER -> Failed
=============================================================================
