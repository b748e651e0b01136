------------------------------- MODULE MCJobs -------------------------------
\* A small instance of Jobs for TLC.
EXTENDS Jobs

CONSTANTS u1, u2, k1, k2, k3

MCLadder == <<"applied", "offer">>
MCCategoryOf == [sub \in Subcategories |-> IF sub = "nlp" THEN "ai" ELSE "other"]

Raw(key, bare, sub, stage) ==
    [named |-> TRUE, key |-> key, bare |-> bare, sure |-> TRUE, sub |-> sub, stage |-> stage]
MCEntries == {[key |-> k1, spaced |-> TRUE, stage |-> "applied", sub |-> "untagged"]}
MCPastes == {<<Raw(k1, TRUE, "nlp", "offer"), [Raw(k3, TRUE, "nlp", "offer") EXCEPT !.named = FALSE],
               Raw(k2, FALSE, "nlp", "offer"), Raw(k3, FALSE, "nlp", "offer")>>}
MCAnswers == {[kind |-> "refused", rows |-> <<>>],
              [kind |-> "recorded", rows |-> <<Raw(k2, FALSE, "cobol", "applied")>>]}
=============================================================================
