------------------------------ MODULE JobRows ------------------------------
(***************************************************************************)
(* What the job tracker (apps/api/src/api/jobs.py) computes without the    *)
(* database: the projection of a history of stages, the rows of a pasted   *)
(* list, which of them the research pass is sent, and what it may change.  *)
(***************************************************************************)
EXTENDS Lists, SequencesExt, FiniteSetsExt

CONSTANTS
    Ladder,         \* the ranked stages, in order
    Terminal,       \* the stages in which a pipeline ends
    Subcategories,
    Unclassified,
    CategoryOf,     \* sub-category -> category
    MaxListed       \* MAX_ROWS, the rows taken from one paste

Applied == Ladder[1]
Offer == Last(Ladder)
Stages == Range(Ladder) \cup Terminal
Untagged == "untagged"  \* a tag column that is null

ASSUME JobRowsAssumption ==
    /\ Ladder \in Seq(Range(Ladder)) /\ Ladder # <<>> /\ IsInjective(Ladder)
    /\ Terminal \cap Range(Ladder) = {}
    /\ Unclassified \in Subcategories
    /\ DOMAIN CategoryOf = Subcategories
    /\ MaxListed \in Nat

---------------------------------------------------------------------------
\* The projection

Rank(stage) == CHOOSE k \in DOMAIN Ladder : Ladder[k] = stage
OutcomeOf(stage) == IF stage \in Terminal \cup {Offer} THEN stage ELSE "open"

\* project: the last stage, the highest ranked one and what the last one means.
Project(history) ==
    IF history = <<>> THEN [current |-> Applied, outcome |-> "open", furthest |-> Applied]
    ELSE LET current == Last(history)
             reached == {Rank(stage) : stage \in Range(history) \ Terminal} \cup {1}
         IN  [current |-> current, outcome |-> OutcomeOf(current), furthest |-> Ladder[Max(reached)]]

---------------------------------------------------------------------------
\* The rows of a list.  A model's row may name no company (named), a tag or a stage outside
\* the vocabulary, and lack the posting's address or place (bare).

\* _row_from: a row without a name is dropped, a word outside the vocabulary is replaced.
Cleaned(raw) ==
    [key |-> raw.key, bare |-> raw.bare, sure |-> raw.sure,
     sub |-> IF raw.sub \in Subcategories THEN raw.sub ELSE Unclassified,
     stage |-> IF raw.stage \in Stages THEN raw.stage ELSE Applied]

\* _rows_from: the cap comes before the drop.
Listed(raws) ==
    LET taken == SubSeq(raws, 1, Min({MaxListed, Len(raws)}))
        named == Ascending({n \in DOMAIN taken : taken[n].named})
    IN  [n \in DOMAIN named |-> Cleaned(taken[named[n]])]

\* missing_for_research: something the pass exists to fill in is absent.
Missing(row) == row.bare \/ row.sub = Unclassified \/ ~row.sure

\* The rows of a list that name a job for the first time, among those not tracked already.
FirstNew(rows, tracked) ==
    {n \in DOMAIN rows : rows[n].key \notin tracked /\ \A k \in 1 .. n - 1 : rows[k].key # rows[n].key}

\* ingest's research candidates, in order.
Candidates(rows, tracked) == Ascending({n \in FirstNew(rows, tracked) : Missing(rows[n])})

\* A row as the research completes it: the stage is always the pasted one.
Completed(row, found) ==
    [key |-> found.key, bare |-> found.bare, sure |-> found.sure, sub |-> found.sub, stage |-> row.stage]

\* research_jobs and the merge: a list of another length is discarded, a refusal, an error or
\* too many rounds leave the rows as they were.
Researched(rows, chosen, answer) ==
    LET found == Listed(answer.rows)
    IN  IF answer.kind = "recorded" /\ Len(found) = Len(chosen)
        THEN [n \in DOMAIN rows |->
                  IF n \in Range(chosen)
                  THEN Completed(rows[n], found[CHOOSE k \in DOMAIN chosen : chosen[k] = n])
                  ELSE rows[n]]
        ELSE rows
=============================================================================
