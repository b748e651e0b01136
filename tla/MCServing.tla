----------------------------- MODULE MCServing -----------------------------
\* A small instance of Serving for TLC: every prerequisite list over three concepts, a few
\* libraries of which some must be refused, and a handful of standings and submissions.
EXTENDS Serving

Prerequisites == {list \in BoundedSeq(1 .. 3, 2) : IsInjective(list)}
MCGraphs == [1 .. 3 -> Prerequisites] \cup {<< <<4>>, <<>>, <<>> >>}
MCSuffixes == {<<"co", "uk">>}
MCDomainOf == <<"coding", "coding", "quant">>
MCPenalties == <<5, 10, 15, 20>>
MCSoftness == [example |-> 100, adversarial |-> 60]
MCCeiling == [linear |-> 130, linearithmic |-> 175, quadratic |-> 260]

MCNormalised(ability) == Clamp(0, 100, (ability - 600) \div 22)
MCExpected(gap) == Clamp(1, 99, 50 + gap \div 8)

Note(site, words) == [host |-> site, evidence |-> words]
Cited == <<Note(<<"blog", "imc", "com">>, <<>>), Note(<<"a", "co", "uk">>, <<>>)>>

Tests == [type |-> "tests", languages |-> {"python"}, solved |-> {"python", "cpp"}, entrypoint |-> TRUE,
          tests |-> 3, target |-> "linear", sizes |-> <<1, 2, 4, 8, 16>>, generates |-> TRUE]
Criterion(id, weight, concept) ==
    [id |-> id, weight |-> weight, concept |-> concept, anchors |-> {0, 3}, worded |-> FALSE]
Reasoning == <<Criterion(1, 70, 3), Criterion(2, 30, 0)>>
Answer == [type |-> "answer", exact |-> 39, numeric |-> 0, forms |-> TRUE, criteria |-> Reasoning]

Item(id, domain, modality, primary, also, minutes, elo, grading) ==
    [id |-> id, kind |-> "instance", domain |-> domain, modality |-> modality, concepts |-> {primary} \cup also,
     primary |-> primary, archetype |-> 9, active |-> TRUE, minutes |-> minutes, elo |-> elo,
     sources |-> Cited, statement |-> <<>>, grading |-> grading]
Pattern == [Item(9, "coding", "coding", 1, {}, 0, 1500, [type |-> "none"]) EXCEPT !.kind = "archetype", !.archetype = 0]

Library ==
    <<Item(1, "coding", "coding", 1, {2}, 20, 1500, Tests), Item(2, "coding", "coding", 2, {}, 25, 1450, Tests),
      Item(3, "coding", "coding", 1, {}, 0, 1700, [Tests EXCEPT !.target = "none", !.sizes = <<>>]),
      Item(4, "quant", "quant", 3, {}, 15, 1500, Answer), Pattern>>
With(n, item) == [Library EXCEPT ![n] = item]
Words == <<"a", "b", "c", "d">>

MCLibraries ==
    {Library,
     With(4, [Library[4] EXCEPT !.grading.criteria[2].worded = TRUE]),
     With(4, [Library[4] EXCEPT !.grading.criteria = <<>>, !.grading.exact = 0, !.grading.numeric = 39]),
     With(4, [Library[4] EXCEPT !.domain = "behavioral", !.modality = "behavioral",
                  !.grading = [type |-> "rubric", criteria |-> [Reasoning EXCEPT ![2].weight = 20] \o <<Criterion(3, 10, 1)>>]]),
     \* and what the gate is for
     With(1, [Library[1] EXCEPT !.grading.entrypoint = FALSE]),
     With(1, [Library[1] EXCEPT !.grading.languages = {"python", "java"}]),
     With(2, [Library[2] EXCEPT !.grading.sizes = <<4, 2, 1, 8, 16>>]),
     With(2, [Library[2] EXCEPT !.grading.target = "amortised"]),
     With(3, [Library[3] EXCEPT !.id = 1]),
     With(4, [Library[4] EXCEPT !.grading.criteria[1].concept = 7]),
     With(4, [Library[4] EXCEPT !.grading.criteria[1].weight = 60]),
     With(4, [Library[4] EXCEPT !.grading.exact = 0 - 1]),
     With(4, [Library[4] EXCEPT !.sources[2].host = <<"www", "imc", "com">>]),
     With(4, [Library[4] EXCEPT !.statement = Words, !.sources[1].evidence = Words])}

Standing(ability, overdue, scores, sessions) ==
    [ability |-> ability, overdue |-> overdue, stability |-> 2, scores |-> scores, sessions |-> sessions]
MCStandings == {Standing(1550, 0 - 1, <<>>, 0), Standing(1400, 3, <<0, 50>>, 2), Standing(1700, 30, <<100>>, 0)}
MCLearners == [1 .. 3 -> MCStandings]
MCWishes == [mode : {"coding"}, focus : {{}, {2}}, bias : {0, 1}, budget : {20, 45, 60}]
                  \cup [mode : {"quant", "behavioral"}, focus : {{}}, bias : {0}, budget : {20}]

Code == [kind |-> "code", language |-> "python", gradeable |-> TRUE, passed |-> 3, total |-> 3, failures |-> <<>>,
         measurable |-> TRUE, cost |-> 3, growth |-> 1, hints |-> 0, unanswered |-> {}]
Codes ==
    {[Code EXCEPT !.cost = cost, !.growth = growth] : cost \in {1, 3, 4700, 5100, 20000, 700000}, growth \in 0 .. 3}
        \cup {[Code EXCEPT !.gradeable = FALSE, !.total = 0, !.passed = 0],
              [Code EXCEPT !.passed = 1, !.failures = <<"example", "adversarial">>, !.hints = 5],
              [Code EXCEPT !.passed = 0, !.failures = <<"adversarial", "adversarial", "adversarial">>],
              [Code EXCEPT !.passed = 0, !.failures = <<"example">>, !.unanswered = {"probe"}],
              [Code EXCEPT !.growth = 3, !.unanswered = {"probe"}], [Code EXCEPT !.unanswered = {"execute"}]}

Line(before, marked, rest, form) == [before |-> before, marked |-> marked, rest |-> rest, form |-> form]
Lines == {Line(<<>>, FALSE, <<>>, FALSE), Line(<<27, 39>>, FALSE, <<>>, FALSE),
          Line(<<>>, TRUE, <<27, 39>>, FALSE), Line(<<>>, TRUE, <<39>>, FALSE), Line(<<0>>, TRUE, <<>>, TRUE)}
Quoted == [demonstrated |-> TRUE, level |-> 5, quote |-> [chars |-> 12, found |-> TRUE]]
Judgements == {<<>>, <<Quoted>>, <<[Quoted EXCEPT !.quote.found = FALSE], [Quoted EXCEPT !.quote.chars = 11]>>,
               <<Quoted, [Quoted EXCEPT !.level = 1]>>}
Prose == [kind : {"prose"}, lines : BoundedSeq(Lines, 2), verdicts : Judgements, hints : {1}, replied : {TRUE}]
             \cup [kind : {"prose"}, lines : [1 .. 3 -> Lines], verdicts : {<<>>}, hints : {0}, replied : {TRUE}]
             \cup [kind : {"prose"}, lines : BoundedSeq(Lines, 1), verdicts : {<<>>}, hints : {0}, replied : {FALSE}]
MCSubmissions == Codes \cup Prose
=============================================================================
