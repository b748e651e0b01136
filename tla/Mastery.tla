------------------------------ MODULE Mastery ------------------------------
(***************************************************************************)
(* The mastery projection (apps/api/src/api/mastery.py) and what writes    *)
(* it: the gradings, observations and practice solves that append          *)
(* evidence and fold it in, the rebuild from all evidence, and the seeding *)
(* that re-rates items (seed.py).                                          *)
(*                                                                         *)
(* A rating is kept as what it was computed from instead of as a number:   *)
(* every row folded into a concept with the rows folded in before it and   *)
(* the rating it was scored against, and for an item its prior and the     *)
(* rows that moved it.  Equal histories are equal numbers; a lost or a     *)
(* reordered update shows.                                                 *)
(***************************************************************************)
EXTENDS Integers, FiniteSets, Sequences

CONSTANTS
    Writers,     \* transactions that append evidence, one reading each
    Rebuilders,  \* POST /mastery/recompute
    Seeds,       \* runs of python -m api.seed
    Concepts, Items, NoItem,
    Primary,     \* item -> primary_concept_id
    Readings,    \* what a transaction may write: a source, an item, the concepts of its rows
    MaxPrior     \* the model's bound on difficulty_elo, which counts re-ratings

Tasks == Writers \cup Rebuilders \cup Seeds
Nobody == "nobody"
Sources == {"session_grading", "interviewer_observation", "practice_log"}

ASSUME MasteryAssumption ==
    /\ Nobody \notin Tasks /\ NoItem \notin Items
    /\ Writers \cap (Rebuilders \cup Seeds) = {} /\ Rebuilders \cap Seeds = {}
    /\ Primary \in [Items -> Concepts]
    /\ Readings \subseteq [source : Sources, item : Items \cup {NoItem}, concepts : Seq(Concepts)]
    /\ \A r \in Readings : (r.item = NoItem) <=> (r.source = "practice_log")
    /\ MaxPrior \in Nat

VARIABLES
    evidence,  \* concept_evidence, the committed rows
    mastery,   \* concept -> what its ability was computed from
    elo,       \* item -> what its live rating was computed from
    prior,     \* item -> difficulty_elo
    lock,      \* who holds pg_advisory_xact_lock(PROJECTION_LOCK_KEY)
    clock,     \* the microsecond clock evidence is stamped with
    pc,
    reading,   \* writer -> what it writes
    rows,      \* task -> the evidence rows it has constructed
    left,      \* task -> the rows it has yet to apply
    draft,     \* task -> what its open transaction has in memory of mastery and elo
    seen,      \* task -> difficulty_elo of the item rows it has loaded, ...
    was,       \* ... and elo
    behind,    \* the seedings that got the lock with item rows the table no longer held (history)
    latest     \* the rebuild that committed last (history)

vars == <<evidence, mastery, elo, prior, lock, clock, pc, reading, rows, left, draft, seen, was,
          behind, latest>>

Row == [by : Writers, source : Sources, item : Items \cup {NoItem}, concept : Concepts, ts : Nat \ {0}]
Rating == [base : 0 .. MaxPrior, moved : SUBSET Row]
Unrated == [base |-> -1, moved |-> {}]  \* the own ability, which a row without an item is scored against
Step == [row : Row, after : SUBSET Row, against : Rating \cup {Unrated}]
AtPrior(base) == [i \in Items |-> [base |-> base[i], moved |-> {}]]
NoMastery == [c \in Concepts |-> {}]
\* `concepts` and `items` are in memory; what is to be written of the items is `dirty`.
NoDraft == [mastery |-> NoMastery, elo |-> AtPrior([i \in Items |-> 0]),
            concepts |-> {}, items |-> {}, dirty |-> {}]
Draft == [mastery : [Concepts -> SUBSET Step], elo : [Items -> Rating],
          concepts : SUBSET Concepts, items : SUBSET Items, dirty : SUBSET Items]

TypeOK ==
    /\ evidence \subseteq Row
    /\ mastery \in [Concepts -> SUBSET Step]
    /\ elo \in [Items -> Rating]
    /\ prior \in [Items -> 0 .. MaxPrior]
    /\ lock \in Tasks \cup {Nobody}
    /\ clock \in Nat
    /\ pc \in [Tasks -> {"seed", "upsert", "load", "start", "stamp", "priors", "log", "fold",
                         "done", "gone"}]
    /\ reading \in [Writers -> Readings]
    /\ rows \in [Tasks -> SUBSET Row]
    /\ left \in [Tasks -> SUBSET Row]
    /\ draft \in [Tasks -> Draft]
    /\ seen \in [Tasks -> [Items -> 0 .. MaxPrior]]
    /\ was \in [Tasks -> [Items -> Rating]]
    /\ behind \subseteq Seeds
    /\ latest \in Tasks \cup {Nobody}

Init ==
    /\ evidence = {}
    /\ mastery = NoMastery
    /\ prior = [i \in Items |-> 0]
    /\ elo = AtPrior(prior)
    /\ lock = Nobody
    /\ clock = 0
    /\ pc = [t \in Tasks |-> IF t \in Seeds THEN "seed" ELSE "start"]
    /\ reading \in [Writers -> Readings]
    /\ rows = [t \in Tasks |-> {}]
    /\ left = [t \in Tasks |-> {}]
    /\ draft = [t \in Tasks |-> NoDraft]
    /\ seen = [t \in Tasks |-> [i \in Items |-> 0]]
    /\ was = [t \in Tasks |-> AtPrior([i \in Items |-> 0])]
    /\ behind = {}
    /\ latest = Nobody

Goto(t, label) == pc' = [pc EXCEPT ![t] = label]

\* The transaction is over: nothing of it is left but what it committed.
End(t, label) ==
    /\ Goto(t, label)
    /\ rows' = [rows EXCEPT ![t] = {}]
    /\ left' = [left EXCEPT ![t] = {}]
    /\ draft' = [draft EXCEPT ![t] = NoDraft]
    /\ seen' = [seen EXCEPT ![t] = [i \in Items |-> 0]]
    /\ was' = [was EXCEPT ![t] = AtPrior([i \in Items |-> 0])]

---------------------------------------------------------------------------
\* apply_evidence

\* Seeded fault: every row that names the primary concept moves the item.
MovesItemEachRow(row, visible) ==
    row.source = "session_grading" /\ row.concept = Primary[row.item]

\* Only the first row of a grading that names the item's primary concept moves the item.
MovesItem(row, visible) ==
    /\ row.source = "session_grading"
    /\ row.concept = Primary[row.item]
    /\ ~ \E first \in visible :
           /\ first.by = row.by /\ first.source = row.source
           /\ first.item = row.item /\ first.concept = row.concept
           /\ first.ts < row.ts

\* A transaction goes on with the rows it has in memory, and reads the others as committed.
Ability(d, c) == IF c \in d.concepts THEN d.mastery[c] ELSE mastery[c]
Elo(d, i) == IF i \in d.items THEN d.elo[i] ELSE elo[i]

ApplyEvidence(d, row, visible) ==
    LET against == IF row.item = NoItem THEN Unrated ELSE Elo(d, row.item)
        step == [row |-> row, after |-> {s.row : s \in Ability(d, row.concept)}, against |-> against]
        moved == IF MovesItem(row, visible) THEN {row.item} ELSE {}
    IN  [mastery |-> [d.mastery EXCEPT ![row.concept] = Ability(d, row.concept) \cup {step}],
         concepts |-> d.concepts \cup {row.concept},
         elo |-> [i \in Items |-> IF i \in moved
                                  THEN [base |-> against.base, moved |-> against.moved \cup {row}]
                                  ELSE d.elo[i]],
         items |-> d.items \cup moved,
         dirty |-> d.dirty \cup moved]

---------------------------------------------------------------------------
\* The transactions

\* Whether the priors and the starting points a seeding has loaded are still the table's.
Current(s) == seen[s] = prior /\ \A i \in Items : was[s][i].base = elo[i].base

Locking(t) ==
    /\ lock' = t
    /\ behind' = IF t \in Seeds /\ ~Current(t) THEN behind \cup {t} ELSE behind
    /\ Goto(t, CASE t \in Writers -> "stamp" [] t \in Rebuilders -> "priors" [] OTHER -> "log")
    /\ UNCHANGED <<evidence, mastery, elo, prior, clock, reading, rows, left, draft, seen, was, latest>>

\* Seeded fault: a rebuild does not wait for the writers.
LockWritersOnly(t) ==
    /\ pc[t] = "start"
    /\ t \in Writers => lock = Nobody
    /\ Locking(t)

\* lock_projection.  A seeding comes with the item rows it has loaded.
Lock(t) ==
    /\ pc[t] = "start"
    /\ lock = Nobody
    /\ Locking(t)

\* The evidence rows are constructed one after the other, under the lock, and flushed.
Stamp(w) ==
    /\ pc[w] = "stamp"
    /\ LET new == {[by |-> w, source |-> reading[w].source, item |-> reading[w].item,
                    concept |-> reading[w].concepts[n], ts |-> clock + n] :
                       n \in DOMAIN reading[w].concepts}
       IN  rows' = [rows EXCEPT ![w] = new] /\ left' = [left EXCEPT ![w] = new]
    /\ clock' = clock + Len(reading[w].concepts)
    /\ Goto(w, "fold")
    /\ UNCHANGED <<evidence, mastery, elo, prior, lock, reading, draft, seen, was, behind, latest>>

\* Loading every item: of a row that is in memory already, nothing is refreshed.
LoadItems(t) ==
    /\ seen' = [seen EXCEPT ![t] = prior]
    /\ was' = [was EXCEPT ![t] = elo]
    /\ UNCHANGED <<evidence, mastery, elo, prior, lock, clock, reading, rows, left, draft, behind, latest>>

\* recompute loads the items under the lock, unless main has loaded them before it, ...
ReadPriors(t) == pc[t] = "priors" /\ LoadItems(t) /\ Goto(t, "log")

\* ... then, having emptied mastery and put every item back at its prior, all the evidence.
\* An item whose rating was loaded as just that is unchanged, and is not written.
ReadLog(t) ==
    /\ pc[t] = "log"
    /\ draft' = [draft EXCEPT ![t] = [mastery |-> NoMastery, elo |-> AtPrior(seen[t]),
                                      concepts |-> Concepts, items |-> Items,
                                      dirty |-> {i \in Items : was[t][i] # AtPrior(seen[t])[i]}]]
    /\ left' = [left EXCEPT ![t] = evidence]
    /\ Goto(t, "fold")
    /\ UNCHANGED <<evidence, mastery, elo, prior, lock, clock, reading, rows, seen, was, behind, latest>>

\* apply_evidence of the next row, by ts.
Fold(t, row) ==
    /\ pc[t] = "fold"
    /\ row \in left[t]
    /\ \A other \in left[t] \ {row} : row.ts < other.ts
    /\ draft' = [draft EXCEPT ![t] = ApplyEvidence(@, row, evidence \cup rows[t])]
    /\ left' = [left EXCEPT ![t] = @ \ {row}]
    /\ UNCHANGED <<evidence, mastery, elo, prior, lock, clock, pc, reading, rows, seen, was, behind, latest>>

\* The evidence and the projection become visible together, and the lock is free.
Commit(t) ==
    /\ pc[t] = "fold" /\ left[t] = {}
    /\ evidence' = evidence \cup rows[t]
    /\ mastery' = [c \in Concepts |-> Ability(draft[t], c)]
    /\ elo' = [i \in Items |-> IF i \in draft[t].dirty THEN draft[t].elo[i] ELSE elo[i]]
    /\ latest' = IF t \in Writers THEN latest ELSE t
    /\ lock' = Nobody
    /\ End(t, "done")
    /\ UNCHANGED <<prior, clock, reading, behind>>

\* _upsert_items loads the item rows, ...
OpenSeed(s) ==
    /\ pc[s] = "seed"
    /\ seen' = [seen EXCEPT ![s] = prior]
    /\ Goto(s, "upsert")
    /\ UNCHANGED <<evidence, mastery, elo, prior, lock, clock, reading, rows, left, draft, was, behind, latest>>

Changed(s, corpus) == {i \in Items : corpus[i] # seen[s][i]}

\* Seeded fault: a seeding that re-rates an item leaves the live ratings alone.
SeedOnly(s, corpus) ==
    /\ pc[s] = "upsert"
    /\ prior' = [i \in Items |-> IF i \in Changed(s, corpus) THEN corpus[i] ELSE prior[i]]
    /\ Goto(s, "done")
    /\ UNCHANGED <<evidence, mastery, elo, lock, clock, reading, rows, left, draft, seen, was, behind, latest>>

\* ... and commits the corpus's ratings where they differ, without the lock.  main then rebuilds,
\* in a transaction of its own, if one did.
Seed(s, corpus) ==
    /\ pc[s] = "upsert"
    /\ prior' = [i \in Items |-> IF i \in Changed(s, corpus) THEN corpus[i] ELSE prior[i]]
    /\ Goto(s, IF Changed(s, corpus) = {} THEN "done" ELSE "load")
    /\ UNCHANGED <<evidence, mastery, elo, lock, clock, reading, rows, left, draft, seen, was, behind, latest>>

\* main counts the items, and holds on to the rows, before recompute takes the lock.
CountItems(s) == pc[s] = "load" /\ LoadItems(s) /\ Goto(s, "start")

\* The request fails or its process dies: the transaction is rolled back.
Die(t) ==
    /\ lock = t \/ (t \in Seeds /\ pc[t] \in {"load", "start"})
    /\ End(t, "gone")
    /\ lock' = IF lock = t THEN Nobody ELSE lock
    /\ UNCHANGED <<evidence, mastery, elo, prior, clock, reading, behind, latest>>

Transaction(t) ==
    \/ Lock(t)
    \/ t \in Writers /\ Stamp(t)
    \/ ReadPriors(t) \/ ReadLog(t)
    \/ \E row \in left[t] : Fold(t, row)
    \/ Commit(t)

Next ==
    \/ \E t \in Tasks : Transaction(t) \/ Die(t)
    \/ \E s \in Seeds : OpenSeed(s) \/ CountItems(s)
    \/ \E s \in Seeds, corpus \in [Items -> 0 .. MaxPrior] : Seed(s, corpus)

Spec == Init /\ [][Next]_vars

---------------------------------------------------------------------------
\* Properties

\* What a replay of a log from some starting points makes of one of its rows, and which rows
\* move an item.
Movers(i, log) == {row \in log : row.item = i /\ MovesItem(row, log)}
Replayed(row, log, base) ==
    [row |-> row,
     after |-> {r \in log : r.concept = row.concept /\ r.ts < row.ts},
     against |-> IF row.item = NoItem THEN Unrated
                 ELSE [base |-> base[row.item], moved |-> {r \in Movers(row.item, log) : r.ts < row.ts}]]
Bases == [i \in Items |-> elo[i].base]

\* The live table is what a replay of the committed evidence from the items' present
\* starting points gives, whatever overlaps, fails or is rebuilt in between (mastery.py,
\* apply_evidence: "the live path and a rebuild agree by construction").  The exception is what
\* follows the rebuild of a seeding that is behind: its item rows were loaded before another
\* seeding or rebuild committed.  Any later rebuild that is not behind repairs it.
LiveIsReplay ==
    /\ latest \notin behind => \A c \in Concepts :
           mastery[c] = {Replayed(row, evidence, Bases) : row \in {r \in evidence : r.concept = c}}
    /\ \A i \in Items : elo[i].moved = Movers(i, evidence)

\* A graded attempt moves its item's rating exactly once, however many of its rows name the
\* primary concept, and nothing else moves it (apply_evidence).
AttemptMovesOnce ==
    \A i \in Items, w \in Writers :
        Cardinality({row \in elo[i].moved : row.by = w}) =
            IF \E row \in evidence : /\ row.by = w /\ row.item = i
                                     /\ row.source = "session_grading" /\ row.concept = Primary[i]
            THEN 1 ELSE 0

\* When no seeding is between its commit and the end of its rebuild, and none died there,
\* the live ratings stand on the priors of the corpus (seed.py's main), unless the last
\* rebuild was that of a seeding that was behind.
Settled == \A s \in Seeds : pc[s] \in {"seed", "upsert", "done"}
SeedRebases == Settled /\ latest \notin behind => Bases = prior

\* "replayed the projection onto the new priors so the live table and a replay agree"
\* (seed.py:139-143), whatever else was seeded meanwhile.  Not kept: main loads the items
\* before recompute takes the lock, and recompute goes on with those rows.
SeedsAlwaysRebase == Settled => Bases = prior
=============================================================================
