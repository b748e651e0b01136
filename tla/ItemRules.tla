----------------------------- MODULE ItemRules -----------------------------
(***************************************************************************)
(* What the corpus asks of an item: the JSON schema of the package and the *)
(* rules of packages/corpus/src/corpus/validate.py that a schema cannot    *)
(* state.  Only errors refuse a corpus, so the warnings are left out.      *)
(***************************************************************************)
EXTENDS Integers, Sequences, FiniteSets, SequencesExt, FiniteSetsExt, Lists

CONSTANTS
    TwoPartSuffixes,  \* pairs of labels under which anyone can register a name
    LongShingle,      \* LONG_SHINGLE
    ShortShingle,     \* SHORT_SHINGLE
    MinProbeSizes,    \* MIN_CORPUS_PROBE_SIZES
    Bands             \* the complexity targets classify_target recognises

None == 0             \* an absent id or number
Empty == 0 - 1        \* an exact answer that is there and blank
NoTarget == "none"

ASSUME ItemRulesAssumption == MinProbeSizes \in Nat /\ MinProbeSizes >= 3  \* what the slope fit needs

ModalityGrading ==
    [coding |-> "tests", quant |-> "answer", design |-> "rubric", behavioral |-> "rubric"]
DomainModality ==
    [coding |-> "coding", quant |-> "quant", system_design |-> "design", behavioral |-> "behavioral"]

---------------------------------------------------------------------------
\* Sources

\* A host is its labels, and empty where the text is no address.  Two pages of one registrable
\* domain are one source; below a listed suffix the name is one label longer.
RegistrableDomain(host) ==
    LET n == Len(host)
        taken == IF n > 2 /\ SubSeq(host, n - 1, n) \in TwoPartSuffixes THEN 3 ELSE 2
    IN  SubSeq(host, Max({1, n - taken + 1}), n)

Attested(item) ==
    LET hosts == {source.host : source \in Range(item.sources)}
    IN  <<>> \notin hosts /\ Cardinality({RegistrableDomain(host) : host \in hosts}) >= 2

Shingles(words, n) == {SubSeq(words, k, k + n - 1) : k \in 1 .. Len(words) - n + 1}

\* No long run of a source's note, and of its short runs at most 15 in a hundred.
Original(item) ==
    \A source \in Range(item.sources) :
        LET shared(n) == Shingles(source.evidence, n) \cap Shingles(item.statement, n)
        IN  /\ shared(LongShingle) = {}
            /\ 100 * Cardinality(shared(ShortShingle)) <= 15 * Cardinality(Shingles(source.evidence, ShortShingle))

---------------------------------------------------------------------------
\* The grading contract

\* A list of criteria whose weights, in hundredths, are a whole; an absent concept is None.
CriteriaSound(criteria, known) ==
    criteria # <<>> =>
        /\ Sum([k \in DOMAIN criteria |-> criteria[k].weight]) = 100
        /\ \A j, k \in DOMAIN criteria : criteria[j].id = criteria[k].id => j = k
        /\ \A criterion \in Range(criteria) : criterion.concept \in known \cup {None}

\* A target needs a probe and a band; the sizes of a probe ascend.
ComplexitySound(grading) ==
    LET sizes == grading.sizes IN
    /\ grading.target # NoTarget => grading.target \in Bands /\ sizes # <<>>
    /\ sizes # <<>> =>
           /\ Len(sizes) >= MinProbeSizes
           /\ \A k \in 2 .. Len(sizes) : sizes[k - 1] < sizes[k]
           /\ grading.generates

\* Seeded fault: the entry point is not asked for.
TestsUnentered(grading) ==
    /\ grading.tests >= 3 /\ grading.languages # {}
    /\ grading.languages \subseteq grading.solved
    /\ ComplexitySound(grading)

TestsSound(grading) ==
    /\ grading.tests >= 3 /\ grading.languages # {}
    /\ grading.entrypoint
    /\ grading.languages \subseteq grading.solved
    /\ ComplexitySound(grading)

\* An answer has an exact form or a number, and the form is never blank.
AnswerSound(grading, known) ==
    /\ grading.exact # Empty
    /\ grading.exact # None \/ grading.numeric # None
    /\ CriteriaSound(grading.criteria, known)

GradingSound(item, known) ==
    item.kind = "instance" =>
        /\ item.grading.type = ModalityGrading[item.modality]
        /\ CASE item.grading.type = "tests" -> TestsSound(item.grading)
             [] item.grading.type = "answer" -> AnswerSound(item.grading, known)
             [] item.grading.type = "rubric" ->
                    Len(item.grading.criteria) >= 3 /\ CriteriaSound(item.grading.criteria, known)

---------------------------------------------------------------------------
\* The schema

Criteria == [id : Nat, weight : Nat, concept : Nat, anchors : SUBSET Nat, worded : BOOLEAN]

\* What item.schema.json has made sure of before the rules are asked.
Shaped(item) ==
    /\ item.id \in Nat /\ item.minutes \in Nat
    /\ item.kind \in {"archetype", "instance"} /\ item.domain \in DOMAIN DomainModality
    /\ item.grading.type = "tests" => item.grading.sizes \in Seq(Nat)
    /\ item.grading.type \in {"answer", "rubric"} =>
           /\ item.grading.criteria \in Seq(Criteria)
           /\ \A criterion \in Range(item.grading.criteria) : IsFiniteSet(criterion.anchors)

---------------------------------------------------------------------------
\* The rules of check_items

\* An instance names an archetype of the corpus, an archetype names none.
Linked(item, items) ==
    LET archetypes == {other.id : other \in {i \in Range(items) : i.kind = "archetype"}}
    IN  IF item.kind = "instance" THEN item.archetype \in archetypes ELSE item.archetype = None

Accepts(item, items, known) ==
    /\ item.modality = DomainModality[item.domain]
    /\ item.concepts # {} /\ item.concepts \subseteq known /\ item.primary \in item.concepts
    /\ Linked(item, items)
    /\ Len(item.sources) >= 2 /\ Attested(item) /\ Original(item)
    /\ GradingSound(item, known)

ItemsSound(items, known) ==
    /\ \A j, k \in DOMAIN items : items[j].id = items[k].id => j = k
    /\ \A item \in Range(items) : Accepts(item, items, known)
=============================================================================
