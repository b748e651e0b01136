----------------------------- MODULE MCMastery -----------------------------
\* A small instance of Mastery for TLC.
EXTENDS Mastery, TLC

CONSTANTS w1, w2, b1, s1, s2, c1, c2, i1

\* Writers are alike, and seedings are; the properties are invariants, which makes this sound.
Symmetry == Permutations({w1, w2}) \cup Permutations({s1, s2})

MCPrimary == [i \in {i1} |-> c1]

\* A grading with several rows on the primary concept (quant), one on two concepts
\* (coding), an observation of the item's primary concept and a practice solve.
MCReadings == {
    [source |-> "session_grading", item |-> i1, concepts |-> <<c1, c1, c2>>],
    [source |-> "session_grading", item |-> i1, concepts |-> <<c1, c2>>],
    [source |-> "interviewer_observation", item |-> i1, concepts |-> <<c1>>],
    [source |-> "practice_log", item |-> NoItem, concepts |-> <<c1, c2>>]}
=============================================================================
