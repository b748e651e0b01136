------------------------------- MODULE Lists -------------------------------
(***************************************************************************)
(* What a comprehension over a list keeps of it, what sorted makes of a    *)
(* set and sum of a list, for the modules that are proved about.           *)
(***************************************************************************)
EXTENDS Integers, Sequences, FiniteSets

\* The members of a finite set of numbers in order: the n-th is the one with n up to it.
Ascending(S) == [n \in 1 .. Cardinality(S) |-> CHOOSE m \in S : Cardinality({k \in S : k <= m}) = n]

\* The elements of a sequence at some of its places, in their order.
Picked(seq, places) == [n \in DOMAIN Ascending(places) |-> seq[Ascending(places)[n]]]

\* The members of a finite set by a strict total order, a set of pairs: the n-th is the one
\* with n up to it.
Sorted(S, before) ==
    [n \in 1 .. Cardinality(S) |-> CHOOSE x \in S : Cardinality({y \in S : y = x \/ <<y, x>> \in before}) = n]

\* The sum of a sequence of numbers.
Sum(numbers) ==
    LET upTo[n \in 0 .. Len(numbers)] == IF n = 0 THEN 0 ELSE upTo[n - 1] + numbers[n]
    IN  upTo[Len(numbers)]
=============================================================================
