----------------------------- MODULE MCPractice -----------------------------
\* A small instance of Practice for TLC.
EXTENDS Practice

CONSTANTS u1, u2, c1, c2

\* NeetCode renames one problem and shares the name of another.
MCCatalogue == [n \in {"duplicate", "two-sum"} |-> IF n = "duplicate" THEN "contains" ELSE n]
MCTagToConcept == << <<"trie", c1>>, <<"stack", c2>> >>
MCFamilyTags == [family \in {"design"} |-> {"trie"}]

Lc == [site |-> "leetcode", slug |-> "contains"]
Nc == [site |-> "neetcode", slug |-> "duplicate"]
Bare == [site |-> "bare", slug |-> "duplicate"]
MCUrls == {Lc}
MCPastes == {<<Nc, Bare>>}
MCAnswers == {[kind |-> "json", primary |-> c1, secondary |-> <<c1, c2>>, sure |-> TRUE]}
MCTags == {{"stack", "trie"}}
MCCorrections == {[primary |-> c2, secondary |-> <<c2, c1>>]}
MCLabels == {<<[word |-> "blind", spelt |-> "Blind"], [word |-> "blind", spelt |-> "blind"]>>}
ClientSymmetry == Permutations(Clients)
=============================================================================
