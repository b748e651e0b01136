---------------------------- MODULE Classification ----------------------------
(***************************************************************************)
(* How a problem solved elsewhere gets its identity and its concepts: the  *)
(* links of two sites that name one problem (apps/api/src/api/neetcode.py, *)
(* leetcode.py), the concept LeetCode's topic tags name, and what is kept  *)
(* of a model's proposal (practice.py, classify).                          *)
(*                                                                         *)
(* A link is a record of the site it is on ("bare" for a word typed alone) *)
(* and a slug; text, titles and reasons are left out.                      *)
(***************************************************************************)
EXTENDS Integers, Sequences, FiniteSets, SequencesExt, FiniteSetsExt

CONSTANTS
    Concepts, NoConcept,
    MaxSecondaries,  \* MAX_SECONDARIES
    Catalogue,       \* NeetCode slug -> LeetCode slug, the bundled table
    TagToConcept,    \* <<tag, concept>>, most specific first
    FamilyTags       \* a tag that names a family -> the tags that may still win beside it

NoSlug == "no slug"

ASSUME ClassificationAssumption ==
    /\ NoConcept \notin Concepts
    /\ MaxSecondaries \in Nat
    /\ NoSlug \notin DOMAIN Catalogue \cup Range(Catalogue)
    \* "The two readings name the same problem in every overlapping case" (neetcode.py).
    /\ \A slug \in DOMAIN Catalogue \cap Range(Catalogue) : Catalogue[slug] = slug

---------------------------------------------------------------------------
\* Links

\* A bare word is NeetCode's only if it lists it and LeetCode has no problem of that name.
NeetCodeSlug(link) ==
    CASE link.site = "neetcode" -> link.slug
      [] link.site = "bare" /\ link.slug \in DOMAIN Catalogue \ Range(Catalogue) -> link.slug
      [] OTHER -> NoSlug

LeetCodeSlug(link) == IF link.site \in {"leetcode", "bare"} THEN link.slug ELSE NoSlug

Problem(slug) == [site |-> "leetcode", slug |-> slug]

\* What two rows for the same problem share, whichever site they were logged from.
SameProblemKey(link) ==
    CASE NeetCodeSlug(link) \in DOMAIN Catalogue -> Problem(Catalogue[NeetCodeSlug(link)])
      [] NeetCodeSlug(link) \notin DOMAIN Catalogue /\ LeetCodeSlug(link) # NoSlug ->
             Problem(LeetCodeSlug(link))
      [] OTHER -> link

\* _resolve: a link of a known site, and a NeetCode link only if the catalogue has it.
Readable(link) ==
    IF NeetCodeSlug(link) # NoSlug
    THEN NeetCodeSlug(link) \in DOMAIN Catalogue
    ELSE LeetCodeSlug(link) # NoSlug

\* The LeetCode problem to fetch, and the URL to store: NeetCode's own where it was worked there.
Resolved(link) ==
    Problem(IF NeetCodeSlug(link) # NoSlug THEN Catalogue[NeetCodeSlug(link)] ELSE LeetCodeSlug(link))
StoredUrl(link) ==
    IF NeetCodeSlug(link) # NoSlug
    THEN [site |-> "neetcode", slug |-> NeetCodeSlug(link)]
    ELSE [site |-> "leetcode", slug |-> LeetCodeSlug(link)]

---------------------------------------------------------------------------
\* Proposals

Unclassified == [primary |-> NoConcept, secondary |-> <<>>, sure |-> FALSE]
Proposal == [primary : Concepts \cup {NoConcept}, secondary : Seq(Concepts), sure : BOOLEAN]

\* classify never raises: an answer that is none, is not JSON or names no concept is no proposal.
Classify(answer) ==
    IF answer.kind # "json" \/ answer.primary \notin Concepts THEN Unclassified
    ELSE LET others == SelectSeq(answer.secondary, LAMBDA c : c \in Concepts \ {answer.primary})
         IN  [primary |-> answer.primary,
              secondary |-> SubSeq(others, 1, Min({MaxSecondaries, Len(others)})),
              sure |-> answer.sure]

AutoAccepted(proposal) == proposal.primary # NoConcept /\ proposal.sure

\* LeetCodeProblem.concept: the first tag of the table that the problem has, unless the
\* problem is also tagged with a family that does not let that tag through.
TaggedConcept(tags) ==
    LET hits == {n \in DOMAIN TagToConcept : TagToConcept[n][1] \in tags}
    IN  IF hits = {} THEN NoConcept
        ELSE LET first == TagToConcept[Min(hits)]
             IN  IF \E family \in tags \cap DOMAIN FamilyTags : first[1] \notin FamilyTags[family]
                 THEN NoConcept ELSE first[2]

\* What an import proposes: a tag's concept is certain enough, but held for confirmation.
TagProposal(tags) ==
    [primary |-> TaggedConcept(tags), secondary |-> <<>>, sure |-> TaggedConcept(tags) # NoConcept]

\* resolve_classification: a confirmation's secondary concepts, without its primary one.
Besides(correction) == SelectSeq(correction.secondary, LAMBDA s : s # correction.primary)

\* normalise_labels: no blanks, and of spellings that differ in case only the first.
NormaliseLabels(labels) ==
    LET kept == {n \in DOMAIN labels :
                    /\ labels[n].word # ""
                    /\ \A m \in 1 .. n - 1 : labels[m].word # labels[n].word}
    IN  [k \in 1 .. Cardinality(kept) |-> labels[SetToSortSeq(kept, <)[k]]]
=============================================================================
