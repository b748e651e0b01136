------------------------------- MODULE Corpus -------------------------------
(***************************************************************************)
(* The corpus gate (packages/corpus/src/corpus/validate.py, run): the walk *)
(* that looks for a cycle among prerequisites, step by step, then the      *)
(* rules of ItemRules.  What it lets through is what the planner and the   *)
(* graders are given.                                                      *)
(***************************************************************************)
EXTENDS ItemRules

CONSTANTS
    Concepts,   \* the concept ids, in the order of the file
    Graphs,     \* the prerequisite lists a concept file may hold
    Libraries   \* the item files that may come with it

ASSUME CorpusAssumption ==
    /\ Concepts \subseteq Nat \ {None} /\ IsFiniteSet(Concepts)
    /\ Graphs \subseteq [Concepts -> Seq(Nat)]

VARIABLES
    graph,    \* concept -> its prerequisites, in order; some may not exist
    items,    \* the items, in the order they are loaded
    colour,
    stack,    \* the walk's <<concept, leaving>>, the top last
    path,     \* the concepts entered and not yet left
    cycles,   \* the cycles reported
    verdict

corpusVars == <<graph, items, colour, stack, path, cycles, verdict>>

CorpusInit ==
    /\ graph \in Graphs
    /\ items = <<>>
    /\ colour = [c \in Concepts |-> "white"]
    /\ stack = <<>> /\ path = <<>> /\ cycles = {}
    /\ verdict = "walking"

White == {c \in Concepts : colour[c] = "white"}
Top == Last(stack)

\* The walk starts again at the next concept nothing has reached.
Root ==
    /\ verdict = "walking" /\ stack = <<>> /\ White # {}
    /\ stack' = << <<Min(White), FALSE>> >>
    /\ UNCHANGED <<graph, items, colour, path, cycles, verdict>>

\* All that was under a concept has been seen.
Leave ==
    /\ stack # <<>> /\ Top[2]
    /\ colour' = [colour EXCEPT ![Top[1]] = "black"]
    /\ path' = Front(path)
    /\ stack' = Front(stack)
    /\ UNCHANGED <<graph, items, cycles, verdict>>

\* It was entered and left after it was put on the stack.
Skip ==
    /\ stack # <<>> /\ ~Top[2] /\ colour[Top[1]] = "black"
    /\ stack' = Front(stack)
    /\ UNCHANGED <<graph, items, colour, path, cycles, verdict>>

\* It is being walked already: the path from it to here is a cycle.
Report ==
    LET from == CHOOSE k \in DOMAIN path : path[k] = Top[1] IN
    /\ stack # <<>> /\ ~Top[2] /\ colour[Top[1]] = "grey"
    /\ cycles' = cycles \cup {Append(SubSeq(path, from, Len(path)), Top[1])}
    /\ stack' = Front(stack)
    /\ UNCHANGED <<graph, items, colour, path, verdict>>

\* Seeded fault: a concept that is on the path is not looked at again.
EnterUnseen ==
    LET prereqs == graph[Top[1]]
        fresh == Picked(prereqs, {k \in DOMAIN prereqs : prereqs[k] \in White \ {Top[1]}})
    IN
    /\ stack # <<>> /\ ~Top[2] /\ colour[Top[1]] = "white"
    /\ colour' = [colour EXCEPT ![Top[1]] = "grey"]
    /\ path' = Append(path, Top[1])
    /\ stack' = Front(stack) \o << <<Top[1], TRUE>> >> \o [k \in DOMAIN fresh |-> <<fresh[k], FALSE>>]
    /\ UNCHANGED <<graph, items, cycles, verdict>>

\* Its prerequisites go above the mark at which it will be left, but for those done with.
Enter ==
    LET prereqs == graph[Top[1]]
        open == Picked(prereqs, {k \in DOMAIN prereqs : prereqs[k] \in Concepts /\ colour[prereqs[k]] # "black"})
    IN
    /\ stack # <<>> /\ ~Top[2] /\ colour[Top[1]] = "white"
    /\ colour' = [colour EXCEPT ![Top[1]] = "grey"]
    /\ path' = Append(path, Top[1])
    /\ stack' = Front(stack) \o << <<Top[1], TRUE>> >> \o [k \in DOMAIN open |-> <<open[k], FALSE>>]
    /\ UNCHANGED <<graph, items, cycles, verdict>>

\* A prerequisite that does not exist, or is the concept itself, is an error of its own.
Resolves == \A c \in Concepts : Range(graph[c]) \subseteq Concepts \ {c}

\* The items are checked last, whatever the walk has found; any error refuses the corpus.
CheckItems(library) ==
    /\ verdict = "walking" /\ stack = <<>> /\ White = {}
    /\ items' = library
    /\ verdict' = IF Resolves /\ cycles = {} /\ ItemsSound(library, Concepts) THEN "valid" ELSE "invalid"
    /\ UNCHANGED <<graph, colour, stack, path, cycles>>

Validate ==
    \/ Root \/ Leave \/ Skip \/ Report \/ Enter
    \/ \E library \in Libraries : CheckItems(library)

---------------------------------------------------------------------------
\* Properties

\* A set of concepts each of which needs another of them can never be begun.
Cyclic == \E S \in (SUBSET Concepts) \ {{}} : \A c \in S : Range(graph[c]) \cap S # {}

\* The walk keeps an explicit stack and may meet a concept again while it is on the path or
\* after it was left (check_concept_graph): each cycle it has reported is one, and when every
\* concept has been left it has reported one if there is any.
CyclesFound ==
    /\ \A cycle \in cycles :
           /\ cycle[1] = Last(cycle)
           /\ \A k \in 1 .. Len(cycle) - 1 : cycle[k + 1] \in Range(graph[cycle[k]])
    /\ (White = {} /\ stack = <<>>) => (Cyclic <=> cycles # {})
=============================================================================
