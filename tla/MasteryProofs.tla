--------------------------- MODULE MasteryProofs ---------------------------
(***************************************************************************)
(* What holds of Mastery for any readings, items, rebuilds and seedings:   *)
(* the type invariant, that the live projection is a replay of the         *)
(* evidence, that an attempt moves its item once, and that a seeding which *)
(* ends leaves the ratings on the new priors: the first and the last of    *)
(* them but for the rebuild of a seeding that was behind.                  *)
(***************************************************************************)
EXTENDS Mastery, WellFoundedInduction, FiniteSetTheorems, TLAPS

Open == {"stamp", "priors", "log", "fold"}

\* What a transaction sees of the evidence, what of it is in its draft, and the starting
\* points of its ratings.
All(t) == evidence \cup rows[t]
Applied(t) == All(t) \ left[t]
BasesOf(d) == [i \in Items |-> Elo(d, i).base]

\* The lock admits one transaction.
Locked == \A t \in Tasks : pc[t] \in Open => lock = t

\* A stamp is in the past and belongs to one row.
Stamped ==
    /\ \A t \in Tasks : \A r \in All(t) : r.ts <= clock
    /\ \A t \in Tasks : \A r, q \in All(t) : r.ts = q.ts => r = q

\* A grading is of an item.
Fit == \A t \in Tasks : \A r \in All(t) : r.source = "session_grading" => r.item \in Items

\* A transaction that has not begun to apply rows has none and has written nothing.
Blank == \A t \in Tasks : pc[t] # "fold" => rows[t] = {} /\ left[t] = {} /\ draft[t] = NoDraft

\* A draft is the replay of the rows applied so far, which come before those that are left: a
\* rebuild's of itself, a writer's if it went on from one.
Drafted(t) ==
    /\ left[t] \subseteq All(t)
    /\ \A a \in Applied(t), l \in left[t] : a.ts < l.ts
    /\ t \notin Writers \/ latest \notin behind => \A c \in Concepts :
           Ability(draft[t], c) = {Replayed(r, All(t), BasesOf(draft[t])) : r \in {q \in Applied(t) : q.concept = c}}
    /\ \A i \in Items : Elo(draft[t], i).moved = Movers(i, All(t)) \cap Applied(t)

\* A writer never rebuilds.
Placed == \A w \in Writers : pc[w] \notin {"seed", "upsert", "load", "priors", "log"}

\* What a transaction leaves unwritten of the items is as it wants it.  A writer goes on from
\* the committed ratings; a rebuild has no rows, starts every item at the prior it has loaded,
\* and takes for unchanged, unless it is behind, only what the table holds.
Carried(t) ==
    /\ pc[t] = "log" /\ t \notin behind => \A i \in Items : was[t][i].base = elo[i].base
    /\ t \in Writers => draft[t].items = draft[t].dirty /\ BasesOf(draft[t]) = Bases
    /\ t \notin Writers => rows[t] = {}
    /\ t \notin Writers /\ pc[t] = "fold" =>
           /\ draft[t].items = Items /\ BasesOf(draft[t]) = seen[t]
           /\ t \notin behind => \A i \in Items \ draft[t].dirty : seen[t][i] = elo[i].base

IInv ==
    /\ TypeOK
    /\ Locked
    /\ Stamped
    /\ Fit
    /\ Blank
    /\ Placed
    /\ \A t \in Tasks : pc[t] = "fold" => Drafted(t)
    /\ \A t \in Tasks : Carried(t)
    /\ LiveIsReplay

\* A seeding whose rebuild is to come, or never will, or is under way: behind, or on the
\* present priors.
Pending(s) ==
    \/ pc[s] \in {"load", "start", "gone"}
    \/ pc[s] \in {"log", "fold"} /\ (s \in behind \/ seen[s] = prior)

\* Nobody but a seeding that is behind stands on, or is about to return to, a prior that is
\* out of date.
Based ==
    /\ Bases = prior \/ latest \in behind
    /\ \A t \in Tasks \ Writers : pc[t] \in {"log", "fold"} /\ t \notin behind => seen[t] = prior

Owed == Based \/ \E s \in Seeds : Pending(s)

---------------------------------------------------------------------------
\* apply_evidence

LEMMA DraftTypes ==
  ASSUME TypeOK, NEW d \in Draft
  PROVE  /\ \A c \in Concepts : Ability(d, c) \in SUBSET Step
         /\ \A i \in Items : Elo(d, i) \in Rating
         /\ BasesOf(d) \in [Items -> 0 .. MaxPrior]
         /\ NoDraft \in Draft
  <1>1. \A c \in Concepts : Ability(d, c) \in SUBSET Step
    BY DEF TypeOK, Draft, Ability
  <1>2. \A i \in Items : Elo(d, i) \in Rating
    BY DEF TypeOK, Draft, Elo
  <1>3. BasesOf(d) \in [Items -> 0 .. MaxPrior]
    BY <1>2 DEF BasesOf, Rating
  <1>4. 0 \in 0 .. MaxPrior
    BY MasteryAssumption
  <1>5. NoDraft \in Draft
    BY <1>4 DEF NoDraft, Draft, NoMastery, AtPrior, Rating
  <1>6. QED
    BY <1>1, <1>2, <1>3, <1>5

\* A transaction that has written nothing sees what is committed.
LEMMA BlankDraft ==
  ASSUME TypeOK
  PROVE  /\ \A c \in Concepts : Ability(NoDraft, c) = mastery[c]
         /\ \A i \in Items : Elo(NoDraft, i) = elo[i]
         /\ BasesOf(NoDraft) = Bases
  BY DEF Ability, Elo, NoDraft, BasesOf, Bases

\* One row changes its concept, and its item if it is the attempt's first.
LEMMA ApplyOne ==
  ASSUME TypeOK, NEW d \in Draft, NEW row \in Row, NEW visible,
         row.source = "session_grading" => row.item \in Items
  PROVE  LET e == ApplyEvidence(d, row, visible)
             step == [row |-> row, after |-> {s.row : s \in Ability(d, row.concept)},
                      against |-> IF row.item = NoItem THEN Unrated ELSE Elo(d, row.item)]
         IN  /\ e \in Draft
             /\ \A c \in Concepts : Ability(e, c) =
                    IF c = row.concept THEN Ability(d, c) \cup {step} ELSE Ability(d, c)
             /\ \A i \in Items : Elo(e, i) =
                    IF i = row.item /\ MovesItem(row, visible)
                    THEN [base |-> Elo(d, i).base, moved |-> Elo(d, i).moved \cup {row}] ELSE Elo(d, i)
             /\ d.items \subseteq e.items /\ d.dirty \subseteq e.dirty
             /\ d.items = d.dirty => e.items = e.dirty
  <1> DEFINE against == IF row.item = NoItem THEN Unrated ELSE Elo(d, row.item)
             step == [row |-> row, after |-> {s.row : s \in Ability(d, row.concept)}, against |-> against]
             moved == IF MovesItem(row, visible) THEN {row.item} ELSE {}
             e == ApplyEvidence(d, row, visible)
  <1>1. row.concept \in Concepts /\ row.item \in Items \cup {NoItem} /\ NoItem \notin Items
    BY MasteryAssumption DEF Row
  <1>2. moved \in SUBSET Items /\ \A i \in moved : i = row.item /\ against = Elo(d, i)
    BY <1>1 DEF MovesItem
  <1>3. against \in Rating \cup {Unrated} /\ \A i \in moved : against \in Rating
    BY <1>1, <1>2, DraftTypes
  <1>4. {s.row : s \in Ability(d, row.concept)} \in SUBSET Row
    BY <1>1, DraftTypes DEF Step
  <1>5. Ability(d, row.concept) \cup {step} \in SUBSET Step
    BY <1>1, <1>3, <1>4, DraftTypes DEF Step
  <1> HIDE DEF step, against, moved
  <1>6. /\ e.mastery = [d.mastery EXCEPT ![row.concept] = Ability(d, row.concept) \cup {step}]
        /\ e.concepts = d.concepts \cup {row.concept}
        /\ e.elo = [i \in Items |-> IF i \in moved
                                    THEN [base |-> against.base, moved |-> against.moved \cup {row}]
                                    ELSE d.elo[i]]
        /\ e.items = d.items \cup moved /\ e.dirty = d.dirty \cup moved
        /\ e = [mastery |-> e.mastery, concepts |-> e.concepts, elo |-> e.elo, items |-> e.items,
                dirty |-> e.dirty]
    BY DEF ApplyEvidence, step, against, moved
  <1> HIDE DEF e
  <1>7. e.mastery \in [Concepts -> SUBSET Step] /\ e.concepts \in SUBSET Concepts
    BY <1>1, <1>5, <1>6 DEF Draft
  <1>8. e.elo \in [Items -> Rating] /\ e.items \in SUBSET Items /\ e.dirty \in SUBSET Items
    BY <1>2, <1>3, <1>6 DEF Draft, Rating
  <1>9. e \in Draft
    BY <1>6, <1>7, <1>8 DEF Draft
  <1>10. \A c \in Concepts : Ability(e, c) =
             IF c = row.concept THEN Ability(d, c) \cup {step} ELSE Ability(d, c)
    BY <1>1, <1>6 DEF Ability, Draft
  <1>11. \A i \in Items : Elo(e, i) =
             IF i \in moved THEN [base |-> against.base, moved |-> against.moved \cup {row}] ELSE Elo(d, i)
    BY <1>2, <1>6 DEF Elo
  <1>12. \A i \in Items : i \in moved <=> i = row.item /\ MovesItem(row, visible)
    BY DEF moved
  <1>13. \A i \in Items : Elo(e, i) =
            IF i = row.item /\ MovesItem(row, visible)
            THEN [base |-> Elo(d, i).base, moved |-> Elo(d, i).moved \cup {row}] ELSE Elo(d, i)
    BY <1>2, <1>11, <1>12
  <1>14. d.items \subseteq e.items /\ d.dirty \subseteq e.dirty /\ (d.items = d.dirty => e.items = e.dirty)
    BY <1>6
  <1>15. QED
    BY <1>9, <1>10, <1>13, <1>14 DEF e, step, against

---------------------------------------------------------------------------
\* What a step must show

\* A draft that is not touched stays a replay while the committed tables stand still.
LEMMA DraftKept ==
  ASSUME NEW t \in Tasks, Drafted(t), UNCHANGED <<evidence, mastery, elo, latest>>,
         behind \subseteq behind',
         rows'[t] = rows[t], left'[t] = left[t], draft'[t] = draft[t]
  PROVE  Drafted(t)'
  <1>1. All(t)' = All(t) /\ Applied(t)' = Applied(t)
    BY DEF All, Applied
  <1>2. \A c \in Concepts : Ability(draft[t], c)' = Ability(draft[t], c)
    BY DEF Ability
  <1>3. \A i \in Items : Elo(draft[t], i)' = Elo(draft[t], i)
    BY DEF Elo
  <1>4. BasesOf(draft[t])' = BasesOf(draft[t])
    BY <1>3 DEF BasesOf
  <1>5. t \notin Writers \/ (latest \notin behind)' => t \notin Writers \/ latest \notin behind
    OBVIOUS
  <1>6. QED
    BY <1>1, <1>2, <1>3, <1>4, <1>5 DEF Drafted

\* What is live depends on nothing but the three tables, and on the rebuild they are from.
LEMMA LiveKept ==
  ASSUME LiveIsReplay, UNCHANGED <<evidence, mastery, elo, latest>>, behind \subseteq behind'
  PROVE  LiveIsReplay'
  <1>1. evidence' = evidence /\ mastery' = mastery /\ elo' = elo
    OBVIOUS
  <1>2. Bases' = Bases
    BY <1>1 DEF Bases
  <1>3. ASSUME latest' \notin behind' PROVE \A c \in Concepts :
            mastery'[c] = {Replayed(row, evidence', Bases') : row \in {r \in evidence' : r.concept = c}}
    <2>1. SUFFICES ASSUME NEW c \in Concepts
                   PROVE  mastery'[c] = {Replayed(row, evidence', Bases') : row \in {r \in evidence' : r.concept = c}}
      OBVIOUS
    <2>2. mastery[c] = {Replayed(row, evidence, Bases) : row \in {r \in evidence : r.concept = c}}
      BY <1>3 DEF LiveIsReplay
    <2>3. QED
      BY <1>1, <1>2, <2>2
  <1>4. \A i \in Items : elo'[i].moved = Movers(i, evidence')
    BY <1>1 DEF LiveIsReplay
  <1>5. QED
    BY <1>3, <1>4 DEF LiveIsReplay

\* Nor does what a transaction has in memory, while others go on.
LEMMA CarriedKept ==
  ASSUME NEW t \in Tasks, Carried(t), elo' = elo, behind \subseteq behind', pc'[t] = pc[t],
         rows'[t] = rows[t], draft'[t] = draft[t], seen'[t] = seen[t], was'[t] = was[t]
  PROVE  Carried(t)'
  <1>1. Bases' = Bases
    BY DEF Bases
  <1>2. BasesOf(draft[t])' = BasesOf(draft[t])
    BY DEF BasesOf, Elo
  <1>3. QED
    BY <1>1, <1>2 DEF Carried

\* A transaction that has written nothing, and does not read the log next.
LEMMA CarriesNothing ==
  ASSUME TypeOK', NEW t \in Tasks, pc'[t] \notin {"log", "fold"}, rows'[t] = {}, draft'[t] = NoDraft
  PROVE  Carried(t)'
  <1>1. BasesOf(NoDraft)' = Bases'
    BY DEF BasesOf, Bases, Elo, NoDraft
  <1>2. NoDraft.items = NoDraft.dirty
    BY DEF NoDraft
  <1>3. BasesOf(draft[t])' = Bases'
    BY <1>1 DEF BasesOf, Bases, Elo, NoDraft
  <1>4. QED
    BY <1>2, <1>3 DEF Carried

\* A step of t that touches neither the committed tables nor what others have constructed.
LEMMA LocalStep ==
  ASSUME IInv, TypeOK', NEW t \in Tasks,
         UNCHANGED <<evidence, mastery, elo, latest>>, clock' >= clock, behind \subseteq behind',
         \A u \in Tasks \ {t} : /\ pc'[u] = pc[u] /\ rows'[u] = rows[u] /\ left'[u] = left[u]
                                /\ draft'[u] = draft[u] /\ seen'[u] = seen[u] /\ was'[u] = was[u],
         Locked', Carried(t)',
         t \in Writers => pc'[t] \notin {"seed", "upsert", "load", "priors", "log"},
         rows'[t] \subseteq rows[t],
         pc'[t] # "fold" => rows'[t] = {} /\ left'[t] = {} /\ draft'[t] = NoDraft,
         pc'[t] = "fold" => Drafted(t)'
  PROVE  IInv'
  <1> USE DEF IInv
  <1>1. \A u \in Tasks : All(u)' \subseteq All(u)
    BY DEF All
  <1>2. \A u \in Tasks : \A r \in All(u) : r.ts \in Nat
    BY DEF All, TypeOK, Row
  <1>3. Stamped'
    BY <1>1, <1>2 DEF Stamped, TypeOK
  <1>4. Fit'
    BY <1>1 DEF Fit
  <1>5. Blank'
    BY DEF Blank
  <1>6. \A u \in Tasks : pc'[u] = "fold" => Drafted(u)'
    <2>1. SUFFICES ASSUME NEW u \in Tasks, pc'[u] = "fold", u # t PROVE Drafted(u)'
      OBVIOUS
    <2>2. QED
      BY <2>1, DraftKept
  <1>7. LiveIsReplay'
    BY LiveKept
  <1>8. Placed'
    BY DEF Placed, Tasks
  <1>9. \A u \in Tasks : Carried(u)'
    BY CarriedKept
  <1>10. QED
    BY <1>3, <1>4, <1>5, <1>6, <1>7, <1>8, <1>9

\* The readings of the writers, as rows.
LEMMA ReadingTypes ==
  ASSUME TypeOK, NEW w \in Writers
  PROVE  /\ reading[w].source \in Sources /\ reading[w].item \in Items \cup {NoItem}
         /\ reading[w].concepts \in Seq(Concepts)
         /\ reading[w].source = "session_grading" => reading[w].item \in Items
  BY MasteryAssumption DEF TypeOK, Sources

LEMMA InitInvariant == Init => IInv
  <1> SUFFICES ASSUME Init PROVE IInv
    OBVIOUS
  <1>1. 0 \in 0 .. MaxPrior
    BY MasteryAssumption
  <1>2. NoMastery \in [Concepts -> SUBSET Step] /\ AtPrior([i \in Items |-> 0]) \in [Items -> Rating]
    BY <1>1 DEF NoMastery, AtPrior, Rating
  <1>3. elo = AtPrior([i \in Items |-> 0]) /\ prior = [i \in Items |-> 0]
    BY DEF Init
  <1>4. NoDraft \in Draft
    BY <1>2 DEF NoDraft, Draft
  <1>5. TypeOK
    BY <1>1, <1>2, <1>3, <1>4 DEF TypeOK, Init
  <1>6. \A t \in Tasks : pc[t] \in {"seed", "start"}
    BY DEF Init
  <1>7. Locked /\ Stamped /\ Fit /\ Blank /\ Placed
    BY <1>6, MasteryAssumption DEF Init, Locked, Open, Stamped, Fit, Blank, All, Placed, Tasks
  <1>8. LiveIsReplay
    BY <1>3 DEF Init, LiveIsReplay, NoMastery, AtPrior, Movers
  <1>9. \A t \in Tasks : Carried(t)
    <2>1. BasesOf(NoDraft) = Bases
      BY <1>5, BlankDraft
    <2>2. NoDraft.items = NoDraft.dirty
      BY DEF NoDraft
    <2>3. QED
      BY <1>6, <2>1, <2>2 DEF Carried, Init
  <1>10. QED
    BY <1>5, <1>6, <1>7, <1>8, <1>9 DEF IInv

---------------------------------------------------------------------------
\* The steps before rows are applied, and the end

LEMMA LockStep ==
  ASSUME IInv, NEW t \in Tasks, Lock(t)
  PROVE  IInv'
  <1>1. TypeOK /\ Locked /\ Blank
    BY DEF IInv
  <1>2. /\ pc[t] = "start" /\ lock = Nobody /\ lock' = t
        /\ behind' = IF t \in Seeds /\ ~Current(t) THEN behind \cup {t} ELSE behind
        /\ Goto(t, CASE t \in Writers -> "stamp" [] t \in Rebuilders -> "priors" [] OTHER -> "log")
        /\ UNCHANGED <<evidence, mastery, elo, prior, clock, reading, rows, left, draft, seen, was, latest>>
    BY DEF Lock, Locking
  <1>3. /\ t \in Writers => t \notin Rebuilders /\ t \notin Seeds
        /\ t \in Rebuilders => t \notin Writers /\ t \notin Seeds
        /\ t \in Writers \/ t \in Rebuilders \/ t \in Seeds
    BY MasteryAssumption DEF Tasks
  <1>4. /\ pc'[t] \in {"stamp", "priors", "log"} /\ \A u \in Tasks \ {t} : pc'[u] = pc[u]
        /\ t \in Writers => pc'[t] = "stamp"
        /\ pc'[t] = "log" => t \in Seeds
    BY <1>1, <1>2, <1>3 DEF Goto, TypeOK
  <1>5. behind \subseteq behind' /\ behind' \subseteq Seeds
    BY <1>1, <1>2 DEF TypeOK
  <1>6. pc' \in [Tasks -> {"seed", "upsert", "load", "start", "stamp", "priors", "log", "fold",
                          "done", "gone"}]
    BY <1>1, <1>2, <1>4 DEF Goto, TypeOK
  <1>7. TypeOK'
    BY <1>1, <1>2, <1>5, <1>6 DEF TypeOK
  <1>8. \A u \in Tasks \ {t} : pc[u] \notin Open
    BY <1>1, <1>2, MasteryAssumption DEF Locked
  <1>9. Locked'
    BY <1>2, <1>4, <1>8 DEF Locked
  <1>10. rows[t] = {} /\ left[t] = {} /\ draft[t] = NoDraft
    BY <1>1, <1>2 DEF Blank
  <1>11. Carried(t)'
    <2>1. CASE pc'[t] = "log"
      <3>1. t \notin Writers /\ (t \notin behind' => Current(t))
        BY <1>2, <1>3, <1>4, <2>1
      <3>2. t \notin behind' => \A i \in Items : was'[t][i].base = elo'[i].base
        BY <1>2, <3>1 DEF Current
      <3>3. QED
        BY <1>2, <1>10, <2>1, <3>1, <3>2 DEF Carried
    <2>2. CASE pc'[t] # "log"
      <3>1. pc'[t] \notin {"log", "fold"} /\ rows'[t] = {} /\ draft'[t] = NoDraft
        BY <1>2, <1>4, <1>10, <2>2
      <3>2. QED
        BY <1>7, <3>1, CarriesNothing
    <2>3. QED
      BY <2>1, <2>2
  <1>12. /\ UNCHANGED <<evidence, mastery, elo, latest>> /\ clock' >= clock
         /\ pc'[t] # "fold" /\ rows'[t] = {} /\ left'[t] = {} /\ draft'[t] = NoDraft
         /\ rows'[t] \subseteq rows[t]
    BY <1>1, <1>2, <1>4, <1>10 DEF TypeOK
  <1>13. \A u \in Tasks \ {t} : /\ pc'[u] = pc[u] /\ rows'[u] = rows[u] /\ left'[u] = left[u]
                                 /\ draft'[u] = draft[u] /\ seen'[u] = seen[u] /\ was'[u] = was[u]
    BY <1>2, <1>4
  <1>14. t \in Writers => pc'[t] \notin {"seed", "upsert", "load", "priors", "log"}
    BY <1>4
  <1>15. QED
    BY <1>5, <1>7, <1>9, <1>11, <1>12, <1>13, <1>14, LocalStep

\* A step of a rebuild or a seeding on its way to the log: it reads item rows, or goes on.
LEMMA OnTheWay ==
  ASSUME IInv, NEW t \in Tasks, NEW from, NEW label, pc[t] = from, Goto(t, label),
         t \notin Writers, from \notin {"log", "fold"},
         label \in {"upsert", "load", "start", "log", "done"}, from \in Open <=> label \in Open,
         UNCHANGED <<evidence, mastery, elo, lock, clock, reading, rows, left, draft, behind, latest>>,
         prior' \in [Items -> 0 .. MaxPrior],
         seen' \in [Tasks -> [Items -> 0 .. MaxPrior]], was' \in [Tasks -> [Items -> Rating]],
         \A u \in Tasks \ {t} : seen'[u] = seen[u] /\ was'[u] = was[u],
         label = "log" => was'[t] = elo
  PROVE  IInv'
  <1>1. TypeOK /\ Locked /\ Blank
    BY DEF IInv
  <1>2. pc'[t] = label /\ \A u \in Tasks \ {t} : pc'[u] = pc[u]
    BY <1>1 DEF Goto, TypeOK
  <1>3. pc' \in [Tasks -> {"seed", "upsert", "load", "start", "stamp", "priors", "log", "fold",
                          "done", "gone"}]
    BY <1>1 DEF Goto, TypeOK
  <1>4. TypeOK'
    BY <1>1, <1>3 DEF TypeOK
  <1>5. Locked'
    BY <1>1, <1>2 DEF Locked
  <1>6. rows[t] = {} /\ left[t] = {} /\ draft[t] = NoDraft
    BY <1>1 DEF Blank
  <1>7. Carried(t)'
    <2>1. CASE label = "log"
      BY <1>2, <1>6, <2>1 DEF Carried
    <2>2. CASE label # "log"
      BY <1>2, <1>4, <1>6, <2>2, CarriesNothing
    <2>3. QED
      BY <2>1, <2>2
  <1>8. /\ clock' >= clock /\ behind \subseteq behind' /\ pc'[t] # "fold"
        /\ rows'[t] = {} /\ left'[t] = {} /\ draft'[t] = NoDraft /\ rows'[t] \subseteq rows[t]
    BY <1>1, <1>2, <1>6 DEF TypeOK
  <1>9. \A u \in Tasks \ {t} : /\ pc'[u] = pc[u] /\ rows'[u] = rows[u] /\ left'[u] = left[u]
                                /\ draft'[u] = draft[u] /\ seen'[u] = seen[u] /\ was'[u] = was[u]
    BY <1>2
  <1>10. QED
    BY <1>4, <1>5, <1>7, <1>8, <1>9, LocalStep

\* What LoadItems reads.
LEMMA Loads ==
  ASSUME TypeOK, NEW t \in Tasks, LoadItems(t)
  PROVE  /\ UNCHANGED <<evidence, mastery, elo, prior, lock, clock, reading, rows, left, draft,
                        behind, latest>>
         /\ prior' \in [Items -> 0 .. MaxPrior]
         /\ seen' \in [Tasks -> [Items -> 0 .. MaxPrior]] /\ was' \in [Tasks -> [Items -> Rating]]
         /\ \A u \in Tasks \ {t} : seen'[u] = seen[u] /\ was'[u] = was[u]
         /\ seen'[t] = prior /\ was'[t] = elo
  BY DEF LoadItems, TypeOK

LEMMA ReadPriorsStep ==
  ASSUME IInv, NEW t \in Tasks, ReadPriors(t)
  PROVE  IInv'
  <1>1. pc[t] = "priors" /\ LoadItems(t) /\ Goto(t, "log") /\ TypeOK
    BY DEF IInv, ReadPriors
  <1>2. t \notin Writers
    BY <1>1 DEF IInv, Placed
  <1>3. "priors" \in Open /\ "log" \in Open
    BY DEF Open
  <1>4. QED
    BY <1>1, <1>2, <1>3, Loads, OnTheWay

LEMMA CountItemsStep ==
  ASSUME IInv, NEW s \in Seeds, CountItems(s)
  PROVE  IInv'
  <1>1. pc[s] = "load" /\ LoadItems(s) /\ Goto(s, "start") /\ TypeOK
    BY DEF IInv, CountItems
  <1>2. s \in Tasks /\ s \notin Writers
    BY MasteryAssumption DEF Tasks
  <1>3. "load" \notin Open /\ "start" \notin Open
    BY DEF Open
  <1>4. QED
    BY <1>1, <1>2, <1>3, Loads, OnTheWay

LEMMA OpenSeedStep ==
  ASSUME IInv, NEW s \in Seeds, OpenSeed(s)
  PROVE  IInv'
  <1>1. /\ pc[s] = "seed" /\ Goto(s, "upsert") /\ seen' = [seen EXCEPT ![s] = prior]
        /\ UNCHANGED <<evidence, mastery, elo, prior, lock, clock, reading, rows, left, draft, was,
                       behind, latest>>
    BY DEF OpenSeed
  <1>2. s \in Tasks /\ s \notin Writers
    BY MasteryAssumption DEF Tasks
  <1>3. /\ prior' \in [Items -> 0 .. MaxPrior]
        /\ seen' \in [Tasks -> [Items -> 0 .. MaxPrior]] /\ was' \in [Tasks -> [Items -> Rating]]
        /\ \A u \in Tasks \ {s} : seen'[u] = seen[u] /\ was'[u] = was[u]
    BY <1>1, <1>2 DEF IInv, TypeOK
  <1>4. "seed" \notin Open /\ "upsert" \notin Open
    BY DEF Open
  <1>5. QED
    BY <1>1, <1>2, <1>3, <1>4, OnTheWay

LEMMA SeedStep ==
  ASSUME IInv, NEW s \in Seeds, NEW corpus \in [Items -> 0 .. MaxPrior], Seed(s, corpus)
  PROVE  IInv'
  <1>1. /\ pc[s] = "upsert"
        /\ prior' = [i \in Items |-> IF i \in Changed(s, corpus) THEN corpus[i] ELSE prior[i]]
        /\ Goto(s, IF Changed(s, corpus) = {} THEN "done" ELSE "load")
        /\ UNCHANGED <<evidence, mastery, elo, lock, clock, reading, rows, left, draft, seen, was,
                       behind, latest>>
    BY DEF Seed
  <1>2. s \in Tasks /\ s \notin Writers
    BY MasteryAssumption DEF Tasks
  <1>3. /\ prior' \in [Items -> 0 .. MaxPrior]
        /\ seen' \in [Tasks -> [Items -> 0 .. MaxPrior]] /\ was' \in [Tasks -> [Items -> Rating]]
        /\ \A u \in Tasks \ {s} : seen'[u] = seen[u] /\ was'[u] = was[u]
    BY <1>1, <1>2 DEF IInv, TypeOK
  <1>4. PICK label \in {"done", "load"} : Goto(s, label)
    BY <1>1
  <1>5. "upsert" \notin Open /\ label \notin Open /\ label # "log"
    BY DEF Open
  <1>6. QED
    BY <1>1, <1>2, <1>3, <1>4, <1>5, OnTheWay

\* What is left of a task that has ended.
LEMMA Ended ==
  ASSUME TypeOK, NEW t \in Tasks, NEW label \in {"done", "gone"}, End(t, label)
  PROVE  /\ pc' = [pc EXCEPT ![t] = label]
         /\ rows' \in [Tasks -> SUBSET Row] /\ left' \in [Tasks -> SUBSET Row]
         /\ draft' \in [Tasks -> Draft] /\ seen' \in [Tasks -> [Items -> 0 .. MaxPrior]]
         /\ was' \in [Tasks -> [Items -> Rating]]
         /\ rows'[t] = {} /\ left'[t] = {} /\ draft'[t] = NoDraft
         /\ \A u \in Tasks \ {t} : /\ pc'[u] = pc[u] /\ rows'[u] = rows[u]
                                   /\ left'[u] = left[u] /\ draft'[u] = draft[u]
                                   /\ seen'[u] = seen[u] /\ was'[u] = was[u]
  <1>1. 0 \in 0 .. MaxPrior
    BY MasteryAssumption
  <1>2. NoDraft \in Draft
    BY <1>1 DEF NoDraft, Draft, NoMastery, AtPrior, Rating
  <1>3. AtPrior([i \in Items |-> 0]) \in [Items -> Rating]
    BY <1>1 DEF AtPrior, Rating
  <1>4. QED
    BY <1>1, <1>2, <1>3 DEF End, Goto, TypeOK

LEMMA DieStep ==
  ASSUME IInv, NEW t \in Tasks, Die(t)
  PROVE  IInv'
  <1>1. TypeOK /\ Locked
    BY DEF IInv
  <1>2. /\ End(t, "gone") /\ lock' = IF lock = t THEN Nobody ELSE lock
        /\ UNCHANGED <<evidence, mastery, elo, prior, clock, reading, behind, latest>>
    BY DEF Die
  <1>3. /\ pc' = [pc EXCEPT ![t] = "gone"]
        /\ rows' \in [Tasks -> SUBSET Row] /\ left' \in [Tasks -> SUBSET Row]
        /\ draft' \in [Tasks -> Draft] /\ seen' \in [Tasks -> [Items -> 0 .. MaxPrior]]
        /\ was' \in [Tasks -> [Items -> Rating]]
        /\ rows'[t] = {} /\ left'[t] = {} /\ draft'[t] = NoDraft
        /\ \A u \in Tasks \ {t} : /\ pc'[u] = pc[u] /\ rows'[u] = rows[u]
                                  /\ left'[u] = left[u] /\ draft'[u] = draft[u]
                                  /\ seen'[u] = seen[u] /\ was'[u] = was[u]
    BY <1>1, <1>2, Ended
  <1>4. pc'[t] = "gone" /\ \A u \in Tasks \ {t} : pc'[u] = pc[u]
    BY <1>1, <1>3 DEF TypeOK
  <1>5. TypeOK'
    BY <1>1, <1>2, <1>3 DEF TypeOK
  <1>6. \A u \in Tasks \ {t} : pc[u] \in Open => lock = u /\ lock' = u
    BY <1>1, <1>2 DEF Locked
  <1>7. Locked'
    BY <1>4, <1>6 DEF Locked, Open
  <1>8. clock' >= clock /\ behind \subseteq behind' /\ rows'[t] \subseteq rows[t] /\ pc'[t] # "fold"
    BY <1>1, <1>2, <1>3, <1>4 DEF TypeOK
  <1>9. Carried(t)'
    BY <1>3, <1>4, <1>5, CarriesNothing
  <1>10. t \in Writers => pc'[t] \notin {"seed", "upsert", "load", "priors", "log"}
    BY <1>4
  <1>11. QED
    BY <1>2, <1>3, <1>4, <1>5, <1>7, <1>8, <1>9, <1>10, LocalStep

---------------------------------------------------------------------------
\* The rows of a transaction

\* A row is replayed alike with or without later rows in the log.
LEMMA LaterRows ==
  ASSUME NEW log \in SUBSET Row, NEW new \in SUBSET Row,
         \A r \in log, n \in new : r.ts < n.ts
  PROVE  /\ \A r \in log : \A base : Replayed(r, log \cup new, base) = Replayed(r, log, base)
         /\ \A i \in Items : Movers(i, log \cup new) \cap log = Movers(i, log)
  <1>1. \A r \in log, n \in new : ~(n.ts < r.ts)
    BY DEF Row
  <1>2. \A r \in log : MovesItem(r, log \cup new) <=> MovesItem(r, log)
    BY <1>1 DEF MovesItem
  <1>3. \A i : Movers(i, log \cup new) \cap log = Movers(i, log)
    BY <1>2 DEF Movers
  <1>4. \A r \in log : \A i : {q \in Movers(i, log \cup new) : q.ts < r.ts} = {q \in Movers(i, log) : q.ts < r.ts}
    <2>1. SUFFICES ASSUME NEW r \in log, NEW i
                   PROVE  {q \in Movers(i, log \cup new) : q.ts < r.ts} = {q \in Movers(i, log) : q.ts < r.ts}
      OBVIOUS
    <2>2. \A q \in Movers(i, log \cup new) : q.ts < r.ts => q \in log
      BY <1>1 DEF Movers
    <2>3. \A q : q \in Movers(i, log \cup new) /\ q.ts < r.ts <=> q \in Movers(i, log) /\ q.ts < r.ts
      BY <1>3, <2>2
    <2>4. QED
      BY <2>3
  <1>5. \A r \in log : {q \in log \cup new : q.concept = r.concept /\ q.ts < r.ts}
                     = {q \in log : q.concept = r.concept /\ q.ts < r.ts}
    BY <1>1
  <1>6. \A r \in log : \A base : Replayed(r, log \cup new, base) = Replayed(r, log, base)
    BY <1>4, <1>5 DEF Replayed
  <1>7. QED
    BY <1>3, <1>6

LEMMA StampStep ==
  ASSUME IInv, NEW w \in Writers, Stamp(w)
  PROVE  IInv'
  <1>1. TypeOK /\ Locked /\ Stamped /\ Fit /\ Blank /\ Placed /\ LiveIsReplay
    BY DEF IInv
  <1>2. w \in Tasks
    BY DEF Tasks
  <1>3. rows[w] = {} /\ left[w] = {} /\ draft[w] = NoDraft
    BY <1>1, <1>2 DEF Blank, Stamp
  <1>4. PICK new : /\ rows' = [rows EXCEPT ![w] = new] /\ left' = [left EXCEPT ![w] = new]
                   /\ new = {[by |-> w, source |-> reading[w].source, item |-> reading[w].item,
                              concept |-> reading[w].concepts[n], ts |-> clock + n] :
                                 n \in DOMAIN reading[w].concepts}
    BY DEF Stamp
  <1>5. /\ pc' = [pc EXCEPT ![w] = "fold"] /\ clock' = clock + Len(reading[w].concepts)
        /\ UNCHANGED <<evidence, mastery, elo, prior, lock, reading, draft, seen, was, behind, latest>>
    BY DEF Stamp, Goto
  <1>6. \A n \in DOMAIN reading[w].concepts :
            n \in Nat \ {0} /\ n <= Len(reading[w].concepts) /\ reading[w].concepts[n] \in Concepts
    BY <1>1, ReadingTypes
  <1>7. /\ Len(reading[w].concepts) \in Nat /\ clock \in Nat
        /\ reading[w].source \in Sources /\ reading[w].item \in Items \cup {NoItem}
    BY <1>1, ReadingTypes DEF TypeOK
  <1>8. new \in SUBSET Row
    BY <1>4, <1>6, <1>7 DEF Row
  <1>9. \A r \in new : clock < r.ts /\ r.ts <= clock'
    BY <1>4, <1>5, <1>6, <1>7
  <1>10. \A r, q \in new : r.ts = q.ts => r = q
    BY <1>4, <1>6, <1>7
  <1>11. \A r \in new : r.source = "session_grading" => r.item \in Items
    BY <1>1, <1>4, ReadingTypes
  <1>12. TypeOK'
    BY <1>1, <1>2, <1>4, <1>5, <1>7, <1>8 DEF TypeOK
  <1>13. Locked'
    BY <1>1, <1>2, <1>5 DEF Locked, Open, TypeOK, Stamp
  <1>14. /\ All(w)' = evidence \cup new
         /\ \A u \in Tasks \ {w} : All(u)' = All(u)
    BY <1>1, <1>2, <1>4, <1>5 DEF All, TypeOK
  <1>15. \A u \in Tasks : evidence \in SUBSET Row /\ All(u) \in SUBSET Row /\ evidence \subseteq All(u)
    BY <1>1 DEF TypeOK, All
  <1>16. Stamped'
    <2>1. \A u \in Tasks : \A r \in All(u) : r.ts <= clock /\ r.ts \in Nat /\ r.ts <= clock'
      BY <1>1, <1>5, <1>7, <1>15 DEF Stamped, Row
    <2>2. \A r \in All(w)' : r.ts <= clock'
      BY <1>2, <1>9, <1>14, <1>15, <2>1
    <2>3. \A r, q \in evidence : r.ts = q.ts => r = q
      BY <1>1, <1>2, <1>15 DEF Stamped
    <2>4. \A r \in evidence, q \in new : r.ts # q.ts
      BY <1>2, <1>7, <1>8, <1>9, <1>15, <2>1 DEF Row
    <2>5. \A r, q \in All(w)' : r.ts = q.ts => r = q
      BY <1>10, <1>14, <2>3, <2>4
    <2>6. QED
      BY <1>1, <1>14, <2>1, <2>2, <2>5 DEF Stamped
  <1>17. Fit'
    BY <1>1, <1>2, <1>11, <1>14, <1>15 DEF Fit
  <1>18. Blank'
    BY <1>1, <1>2, <1>4, <1>5 DEF Blank, TypeOK
  <1>19. Drafted(w)'
    <2>1. \A a \in evidence, n \in new : a.ts < n.ts
      <3>1. SUFFICES ASSUME NEW a \in evidence, NEW n \in new PROVE a.ts < n.ts
        OBVIOUS
      <3>2. a.ts \in Nat /\ n.ts \in Nat /\ clock < n.ts
        BY <1>2, <1>8, <1>9, <1>15 DEF Row
      <3>3. a.ts <= clock
        BY <1>1, <1>2, <1>15 DEF Stamped
      <3>4. QED
        BY <1>7, <3>2, <3>3
    <2>2. \A n \in new : n \notin evidence
      BY <1>8, <2>1 DEF Row
    <2>3. left'[w] = new /\ Applied(w)' = evidence
      BY <1>1, <1>2, <1>4, <1>14, <2>2 DEF Applied, TypeOK
    <2>4. draft'[w] = NoDraft /\ UNCHANGED <<evidence, mastery, elo>>
      BY <1>3, <1>5
    <2>5. \A c \in Concepts : Ability(draft[w], c)' = mastery[c]
      BY <1>1, <1>3, <2>4, BlankDraft DEF Ability
    <2>6. \A i \in Items : Elo(draft[w], i)' = elo[i]
      BY <1>1, <1>3, <2>4, BlankDraft DEF Elo
    <2>7. BasesOf(draft[w])' = Bases
      BY <2>6 DEF BasesOf, Bases
    <2>8. evidence \in SUBSET Row
      BY <1>2, <1>15
    <2>9. /\ \A r \in evidence : \A base : Replayed(r, evidence \cup new, base) = Replayed(r, evidence, base)
          /\ \A i \in Items : Movers(i, evidence \cup new) \cap evidence = Movers(i, evidence)
      BY <1>8, <2>1, <2>8, LaterRows
    <2>10. latest \notin behind => \A c \in Concepts : mastery[c] =
               {Replayed(r, evidence \cup new, Bases) : r \in {q \in evidence : q.concept = c}}
      <3>1. SUFFICES ASSUME latest \notin behind, NEW c \in Concepts
                     PROVE  mastery[c] = {Replayed(r, evidence \cup new, Bases) :
                                              r \in {q \in evidence : q.concept = c}}
        OBVIOUS
      <3>2. mastery[c] = {Replayed(r, evidence, Bases) : r \in {q \in evidence : q.concept = c}}
        BY <1>1, <3>1 DEF LiveIsReplay
      <3>3. QED
        BY <2>9, <3>2
    <2>11. \A i \in Items : elo[i].moved = Movers(i, evidence \cup new) \cap evidence
      BY <1>1, <2>9 DEF LiveIsReplay
    <2>12. (left[w] \subseteq All(w))' /\ (\A a \in Applied(w), l \in left[w] : a.ts < l.ts)'
      BY <1>14, <2>1, <2>3
    <2>13. (latest \notin behind => \A c \in Concepts : Ability(draft[w], c) =
               {Replayed(r, All(w), BasesOf(draft[w])) : r \in {q \in Applied(w) : q.concept = c}})'
      <3>1. SUFFICES ASSUME latest' \notin behind', NEW c \in Concepts
                     PROVE  Ability(draft[w], c)' =
                              {Replayed(r, All(w)', BasesOf(draft[w])') : r \in {q \in Applied(w)' : q.concept = c}}
        OBVIOUS
      <3>2. latest \notin behind
        BY <1>5, <3>1
      <3>3. mastery[c] = {Replayed(r, evidence \cup new, Bases) : r \in {q \in evidence : q.concept = c}}
        BY <2>10, <3>2
      <3>4. QED
        BY <1>14, <2>3, <2>5, <2>7, <3>3
    <2>14. (\A i \in Items : Elo(draft[w], i).moved = Movers(i, All(w)) \cap Applied(w))'
      BY <1>14, <2>3, <2>6, <2>11
    <2>15. QED
      BY <2>12, <2>13, <2>14 DEF Drafted
  <1>20. \A u \in Tasks : pc'[u] = "fold" => Drafted(u)'
    <2>1. SUFFICES ASSUME NEW u \in Tasks, pc'[u] = "fold", u # w PROVE Drafted(u)'
      BY <1>19
    <2>2. pc[u] = "fold" /\ rows'[u] = rows[u] /\ left'[u] = left[u] /\ draft'[u] = draft[u]
      BY <1>1, <1>4, <1>5, <2>1 DEF TypeOK
    <2>3. Drafted(u)
      BY <2>2 DEF IInv
    <2>4. behind \subseteq behind'
      BY <1>5
    <2>5. QED
      BY <1>5, <2>2, <2>3, <2>4, DraftKept
  <1>21. LiveIsReplay'
    <2>1. behind \subseteq behind'
      BY <1>5
    <2>2. QED
      BY <1>1, <1>5, <2>1, LiveKept
  <1>22. pc'[w] = "fold" /\ \A u \in Tasks \ {w} : pc'[u] = pc[u]
    BY <1>1, <1>2, <1>5 DEF TypeOK
  <1>23. Placed'
    BY <1>1, <1>22 DEF Placed, Tasks
  <1>24. \A u \in Tasks : Carried(u)'
    <2>1. Carried(w)'
      <3>1. BasesOf(draft[w])' = Bases'
        BY <1>3, <1>5 DEF BasesOf, Bases, Elo, NoDraft
      <3>2. draft'[w].items = draft'[w].dirty
        <4>1. draft'[w] = NoDraft
          BY <1>3, <1>5
        <4>2. QED
          BY <4>1 DEF NoDraft
      <3>3. QED
        BY <1>22, <3>1, <3>2 DEF Carried
    <2>2. ASSUME NEW u \in Tasks \ {w} PROVE Carried(u)'
      <3>1. /\ pc'[u] = pc[u] /\ rows'[u] = rows[u] /\ draft'[u] = draft[u]
            /\ seen'[u] = seen[u] /\ was'[u] = was[u] /\ elo' = elo /\ behind \subseteq behind'
        BY <1>1, <1>4, <1>5, <1>22 DEF TypeOK
      <3>2. Carried(u)
        BY DEF IInv
      <3>3. QED
        BY <3>1, <3>2, CarriedKept
    <2>3. QED
      BY <1>2, <2>1, <2>2
  <1>25. QED
    BY <1>12, <1>13, <1>16, <1>17, <1>18, <1>20, <1>21, <1>23, <1>24 DEF IInv

---------------------------------------------------------------------------
\* The steps of the replay

LEMMA ReadLogStep ==
  ASSUME IInv, NEW t \in Tasks, ReadLog(t)
  PROVE  IInv'
  <1> DEFINE fresh == [mastery |-> NoMastery, elo |-> AtPrior(seen[t]), concepts |-> Concepts, items |-> Items,
                       dirty |-> {i \in Items : was[t][i] # AtPrior(seen[t])[i]}]
  <1>1. TypeOK /\ Locked /\ Blank /\ Placed /\ Carried(t) /\ pc[t] = "log"
    BY DEF IInv, ReadLog
  <1>2. /\ pc' = [pc EXCEPT ![t] = "fold"] /\ left' = [left EXCEPT ![t] = evidence]
        /\ draft' = [draft EXCEPT ![t] = fresh]
        /\ UNCHANGED <<evidence, mastery, elo, prior, lock, clock, reading, rows, seen, was, behind, latest>>
    BY DEF ReadLog, Goto
  <1>3. seen[t] \in [Items -> 0 .. MaxPrior] /\ evidence \in SUBSET Row /\ rows[t] = {}
    BY <1>1 DEF TypeOK, Blank, ReadLog
  <1>4. fresh \in Draft
    BY <1>3 DEF Draft, NoMastery, AtPrior, Rating
  <1>5. TypeOK'
    BY <1>1, <1>2, <1>3, <1>4 DEF TypeOK
  <1>6. draft'[t] = fresh /\ left'[t] = evidence /\ pc'[t] = "fold" /\ rows'[t] = {}
    BY <1>1, <1>2, <1>3 DEF TypeOK
  <1>7. Locked'
    BY <1>1, <1>2 DEF Locked, Open, TypeOK, ReadLog
  <1>8. Drafted(t)'
    <2>1. All(t)' = evidence /\ Applied(t)' = {}
      BY <1>2, <1>6 DEF All, Applied
    <2>2. \A c \in Concepts : Ability(draft[t], c)' = {}
      BY <1>6 DEF Ability, NoMastery
    <2>3. \A i \in Items : Elo(draft[t], i)'.moved = {}
      BY <1>6 DEF Elo, AtPrior
    <2>4. QED
      BY <1>6, <2>1, <2>2, <2>3 DEF Drafted
  <1>9. t \notin Writers /\ rows[t] = {}
    BY <1>1, <1>3 DEF Placed
  <1>10. Carried(t)'
    <2>1. BasesOf(draft[t])' = seen'[t]
      <3>1. \A i \in Items : Elo(draft[t], i)'.base = seen[t][i]
        BY <1>6 DEF Elo, AtPrior
      <3>2. QED
        BY <1>2, <1>3, <3>1 DEF BasesOf
    <2>2. draft'[t].items = Items
      BY <1>6
    <2>3. ASSUME t \notin behind', NEW i \in Items \ draft'[t].dirty PROVE seen'[t][i] = elo'[i].base
      <3>1. was[t][i] = AtPrior(seen[t])[i]
        BY <1>6, <2>3
      <3>2. was[t][i].base = seen[t][i]
        BY <3>1 DEF AtPrior
      <3>3. was[t][i].base = elo[i].base
        BY <1>1, <1>2, <2>3 DEF Carried
      <3>4. QED
        BY <1>2, <3>2, <3>3
    <2> HIDE DEF fresh
    <2>4. QED
      BY <1>2, <1>6, <1>9, <2>1, <2>2, <2>3 DEF Carried
  <1>11. \A u \in Tasks \ {t} : /\ pc'[u] = pc[u] /\ rows'[u] = rows[u]
                                /\ left'[u] = left[u] /\ draft'[u] = draft[u]
                                /\ seen'[u] = seen[u] /\ was'[u] = was[u]
    BY <1>1, <1>2 DEF TypeOK
  <1>12. clock' >= clock /\ behind \subseteq behind' /\ rows'[t] \subseteq rows[t]
    BY <1>1, <1>2 DEF TypeOK
  <1> HIDE DEF fresh
  <1>13. QED
    BY <1>2, <1>5, <1>6, <1>7, <1>8, <1>9, <1>10, <1>11, <1>12, LocalStep

\* Applying the first of the rows that are left keeps a draft a replay.
LEMMA FoldDrafts ==
  ASSUME IInv, NEW t \in Tasks, NEW row \in left[t], Fold(t, row)
  PROVE  /\ draft'[t] \in Draft /\ Drafted(t)'
         /\ BasesOf(draft[t])' = BasesOf(draft[t])
         /\ draft[t].items \subseteq draft'[t].items /\ draft[t].dirty \subseteq draft'[t].dirty
         /\ draft[t].items = draft[t].dirty => draft'[t].items = draft'[t].dirty
  <1> DEFINE d == draft[t]
             e == draft'[t]
             log == All(t)
             base == BasesOf(d)
  <1>1. TypeOK /\ Fit /\ Drafted(t)
    BY DEF IInv, Fold
  <1>2. /\ left' = [left EXCEPT ![t] = @ \ {row}]
        /\ draft' = [draft EXCEPT ![t] = ApplyEvidence(@, row, log)]
        /\ UNCHANGED <<evidence, mastery, elo, rows, behind, latest>>
        /\ \A other \in left[t] \ {row} : row.ts < other.ts
    BY DEF Fold, All
  <1>3. d \in Draft /\ left[t] \in SUBSET Row /\ log \in SUBSET Row
    BY <1>1 DEF TypeOK, All
  <1>4. row \in Row /\ row \in log /\ (row.source = "session_grading" => row.item \in Items)
    BY <1>1, <1>3 DEF Drafted, Fit
  <1>5. e = ApplyEvidence(d, row, log) /\ left'[t] = left[t] \ {row}
    BY <1>1, <1>2 DEF TypeOK
  <1> DEFINE step == [row |-> row, after |-> {s.row : s \in Ability(d, row.concept)},
                      against |-> IF row.item = NoItem THEN Unrated ELSE Elo(d, row.item)]
  <1> HIDE DEF d, e, log
  <1>6. /\ e \in Draft
        /\ \A c \in Concepts : Ability(e, c) =
               IF c = row.concept THEN Ability(d, c) \cup {step} ELSE Ability(d, c)
        /\ \A i \in Items : Elo(e, i) =
               IF i = row.item /\ MovesItem(row, log)
               THEN [base |-> Elo(d, i).base, moved |-> Elo(d, i).moved \cup {row}] ELSE Elo(d, i)
        /\ d.items \subseteq e.items /\ d.dirty \subseteq e.dirty
        /\ d.items = d.dirty => e.items = e.dirty
    BY <1>1, <1>3, <1>4, <1>5, ApplyOne
  <1>7. /\ t \notin Writers \/ latest \notin behind => \A c \in Concepts : Ability(d, c) = {Replayed(r, log, base) : r \in {q \in Applied(t) : q.concept = c}}
        /\ \A i \in Items : Elo(d, i).moved = Movers(i, log) \cap Applied(t)
        /\ \A a \in Applied(t), l \in left[t] : a.ts < l.ts
        /\ left[t] \subseteq log
    BY <1>1 DEF Drafted, d, log
  <1>8. row.concept \in Concepts /\ row.item \in Items \cup {NoItem}
    BY <1>4 DEF Row
  <1>9. \A i \in Items : Elo(d, i) \in Rating
    BY <1>1, <1>3, DraftTypes
  <1>10. Applied(t) \in SUBSET log /\ log = Applied(t) \cup left[t]
    BY <1>7 DEF Applied, log
  <1>11. \A r \in log : r.ts < row.ts <=> r \in Applied(t)
    <2>1. \A r \in log : r.ts \in Nat /\ row.ts \in Nat
      BY <1>3, <1>4 DEF Row
    <2>2. \A r \in left[t] : r = row \/ row.ts < r.ts
      BY <1>2
    <2>3. QED
      BY <1>7, <1>10, <2>1, <2>2
  <1>12. t \notin Writers \/ latest \notin behind => step = Replayed(row, log, base)
    <2> HAVE t \notin Writers \/ latest \notin behind
    <2>1. {s.row : s \in Ability(d, row.concept)} = {q \in Applied(t) : q.concept = row.concept}
      <3>1. \A r : Replayed(r, log, base).row = r
        BY DEF Replayed
      <3>2. QED
        BY <1>7, <1>8, <3>1
    <2>2. {q \in Applied(t) : q.concept = row.concept} = {r \in log : r.concept = row.concept /\ r.ts < row.ts}
      BY <1>10, <1>11
    <2>3. ASSUME row.item # NoItem
          PROVE  Elo(d, row.item) = [base |-> base[row.item],
                                     moved |-> {r \in Movers(row.item, log) : r.ts < row.ts}]
      <3>1. row.item \in Items
        BY <1>8, <2>3
      <3>2. Movers(row.item, log) \cap Applied(t) = {r \in Movers(row.item, log) : r.ts < row.ts}
        BY <1>11 DEF Movers
      <3>3. base[row.item] = Elo(d, row.item).base
        BY <3>1 DEF BasesOf
      <3>4. QED
        BY <1>7, <1>9, <3>1, <3>2, <3>3 DEF Rating
    <2>4. QED
      BY <2>1, <2>2, <2>3 DEF Replayed
  <1> HIDE DEF step, base
  <1>13. Applied(t)' = Applied(t) \cup {row} /\ All(t)' = log
    BY <1>2, <1>4, <1>5 DEF Applied, All, log
  <1>14. /\ \A c \in Concepts : Ability(draft[t], c)' = Ability(e, c)
         /\ \A i \in Items : Elo(draft[t], i)' = Elo(e, i)
    BY <1>2 DEF Ability, Elo, e
  <1>15. BasesOf(draft[t])' = base
    BY <1>6, <1>14 DEF BasesOf, base
  <1>16. (t \notin Writers \/ latest \notin behind => \A c \in Concepts : Ability(draft[t], c) =
             {Replayed(r, All(t), BasesOf(draft[t])) : r \in {q \in Applied(t) : q.concept = c}})'
    <2>1. SUFFICES ASSUME t \notin Writers \/ latest \notin behind, NEW c \in Concepts
                   PROVE  Ability(e, c) = {Replayed(r, log, base) :
                                               r \in {q \in Applied(t) \cup {row} : q.concept = c}}
      BY <1>2, <1>13, <1>14, <1>15
    <2>2. CASE c = row.concept
      BY <1>6, <1>7, <1>12, <2>1, <2>2
    <2>3. CASE c # row.concept
      BY <1>6, <1>7, <2>1, <2>3
    <2>4. QED
      BY <2>2, <2>3
  <1>17. (\A i \in Items : Elo(draft[t], i).moved = Movers(i, All(t)) \cap Applied(t))'
    <2>1. SUFFICES ASSUME NEW i \in Items
                   PROVE  Elo(e, i).moved = Movers(i, log) \cap (Applied(t) \cup {row})
      BY <1>13, <1>14
    <2>2. row \in Movers(i, log) <=> i = row.item /\ MovesItem(row, log)
      BY <1>4 DEF Movers
    <2>3. QED
      BY <1>6, <1>7, <2>2
  <1>18. (left[t] \subseteq All(t))' /\ (\A a \in Applied(t), l \in left[t] : a.ts < l.ts)'
    BY <1>2, <1>5, <1>7, <1>13
  <1>19. QED
    BY <1>6, <1>15, <1>16, <1>17, <1>18 DEF Drafted, e, base, d

LEMMA FoldStep ==
  ASSUME IInv, NEW t \in Tasks, NEW row \in left[t], Fold(t, row)
  PROVE  IInv'
  <1>1. TypeOK /\ Locked /\ Placed /\ Carried(t)
    BY DEF IInv
  <1>2. /\ left' = [left EXCEPT ![t] = @ \ {row}]
        /\ draft' = [draft EXCEPT ![t] = ApplyEvidence(@, row, evidence \cup rows[t])]
        /\ UNCHANGED <<evidence, mastery, elo, prior, lock, clock, pc, reading, rows, seen, was,
                       behind, latest>>
        /\ pc[t] = "fold"
    BY DEF Fold
  <1>3. /\ draft'[t] \in Draft /\ Drafted(t)'
        /\ BasesOf(draft[t])' = BasesOf(draft[t])
        /\ draft[t].items \subseteq draft'[t].items /\ draft[t].dirty \subseteq draft'[t].dirty
        /\ draft[t].items = draft[t].dirty => draft'[t].items = draft'[t].dirty
    BY FoldDrafts
  <1>4. /\ left' \in [Tasks -> SUBSET Row]
        /\ draft' \in [Tasks -> Draft]
        /\ \A u \in Tasks \ {t} : left'[u] = left[u] /\ draft'[u] = draft[u]
    BY <1>1, <1>2, <1>3 DEF TypeOK
  <1>5. TypeOK'
    BY <1>1, <1>2, <1>4 DEF TypeOK
  <1>6. Locked'
    BY <1>1, <1>2 DEF Locked
  <1>7. clock' >= clock /\ behind \subseteq behind' /\ rows'[t] \subseteq rows[t]
    BY <1>1, <1>2 DEF TypeOK
  <1>8. t \in Writers => pc'[t] \notin {"seed", "upsert", "load", "priors", "log"}
    BY <1>1, <1>2 DEF Placed
  <1>9. Carried(t)'
    <2>1. t \in Writers => draft'[t].items = draft'[t].dirty /\ BasesOf(draft[t])' = Bases'
      BY <1>1, <1>2, <1>3 DEF Carried, Bases
    <2>2. t \notin Writers => rows'[t] = {}
      BY <1>1, <1>2 DEF Carried
    <2>3. ASSUME t \notin Writers
          PROVE  /\ draft'[t].items = Items /\ BasesOf(draft[t])' = seen'[t]
                 /\ t \notin behind' => \A i \in Items \ draft'[t].dirty : seen'[t][i] = elo'[i].base
      <3>1. /\ draft[t].items = Items /\ BasesOf(draft[t]) = seen[t]
            /\ t \notin behind => \A i \in Items \ draft[t].dirty : seen[t][i] = elo[i].base
        BY <1>1, <1>2, <2>3 DEF Carried
      <3>2. draft'[t].items \subseteq Items
        BY <1>3 DEF Draft
      <3>3. QED
        BY <1>2, <1>3, <3>1, <3>2
    <2>4. pc'[t] = "fold"
      BY <1>2
    <2>5. QED
      BY <2>1, <2>2, <2>3, <2>4 DEF Carried
  <1>10. QED
    BY <1>2, <1>3, <1>4, <1>5, <1>6, <1>7, <1>8, <1>9, LocalStep

LEMMA CommitStep ==
  ASSUME IInv, NEW t \in Tasks, Commit(t)
  PROVE  IInv' /\ (t \notin behind => Bases' = BasesOf(draft[t]))
  <1> DEFINE log == All(t)
  <1>1. /\ TypeOK /\ Locked /\ Stamped /\ Fit /\ Blank /\ Placed /\ LiveIsReplay
        /\ Drafted(t) /\ Carried(t) /\ MaxPrior \in Nat
    BY MasteryAssumption DEF IInv, Commit
  <1>2. /\ evidence' = log
        /\ mastery' = [c \in Concepts |-> Ability(draft[t], c)]
        /\ elo' = [i \in Items |-> IF i \in draft[t].dirty THEN draft[t].elo[i] ELSE elo[i]]
        /\ latest' = IF t \in Writers THEN latest ELSE t
        /\ lock' = Nobody /\ End(t, "done") /\ left[t] = {} /\ pc[t] = "fold"
        /\ UNCHANGED <<prior, clock, reading, behind>>
    BY DEF Commit, All
  <1>3. /\ pc' = [pc EXCEPT ![t] = "done"]
        /\ rows' \in [Tasks -> SUBSET Row] /\ left' \in [Tasks -> SUBSET Row]
        /\ draft' \in [Tasks -> Draft] /\ seen' \in [Tasks -> [Items -> 0 .. MaxPrior]]
        /\ was' \in [Tasks -> [Items -> Rating]]
        /\ rows'[t] = {} /\ left'[t] = {} /\ draft'[t] = NoDraft
        /\ \A u \in Tasks \ {t} : /\ pc'[u] = pc[u] /\ rows'[u] = rows[u]
                                  /\ left'[u] = left[u] /\ draft'[u] = draft[u]
    BY <1>1, <1>2, Ended
  <1>4. draft[t] \in Draft /\ log \in SUBSET Row /\ elo \in [Items -> Rating]
    BY <1>1 DEF TypeOK, All
  <1>5. mastery' \in [Concepts -> SUBSET Step] /\ elo' \in [Items -> Rating]
    <2>1. mastery' \in [Concepts -> SUBSET Step]
      BY <1>1, <1>2, <1>4, DraftTypes
    <2>2. draft[t].elo \in [Items -> Rating]
      BY <1>4 DEF Draft
    <2>3. QED
      BY <1>2, <1>4, <2>1, <2>2
  <1>6. TypeOK'
    <2>1. latest' \in Tasks \cup {Nobody}
      BY <1>1, <1>2 DEF TypeOK
    <2>2. QED
      BY <1>1, <1>2, <1>3, <1>4, <1>5, <2>1 DEF TypeOK
  <1>7. \A u \in Tasks : pc'[u] \notin Open
    <2>1. \A u \in Tasks \ {t} : pc[u] \notin Open
      BY <1>1, <1>2 DEF Locked, Open
    <2>2. pc'[t] = "done"
      BY <1>1, <1>3 DEF TypeOK
    <2>3. QED
      BY <1>3, <2>1, <2>2 DEF Open
  <1>8. \A u \in Tasks : pc'[u] # "fold" /\ rows'[u] = {} /\ left'[u] = {} /\ draft'[u] = NoDraft
    <2>1. SUFFICES ASSUME NEW u \in Tasks
                   PROVE  pc'[u] # "fold" /\ rows'[u] = {} /\ left'[u] = {} /\ draft'[u] = NoDraft
      OBVIOUS
    <2>2. pc'[u] # "fold"
      BY <1>7 DEF Open
    <2>3. u # t => pc[u] = pc'[u]
      BY <1>3
    <2>4. QED
      BY <1>1, <1>3, <2>2, <2>3 DEF Blank
  <1>9. \A u \in Tasks : All(u)' = log
    BY <1>2, <1>8 DEF All
  <1>10. Stamped'
    <2>1. \A r \in log : r.ts <= clock
      BY <1>1 DEF Stamped
    <2>2. \A r, q \in log : r.ts = q.ts => r = q
      BY <1>1 DEF Stamped
    <2> HIDE DEF log
    <2>3. clock' = clock
      BY <1>2
    <2>4. QED
      BY <1>9, <2>1, <2>2, <2>3 DEF Stamped
  <1>11. Fit'
    BY <1>1, <1>9 DEF Fit
  <1>12. Locked' /\ Blank'
    BY <1>7, <1>8 DEF Locked, Blank
  <1>13. Placed'
    <2>1. pc'[t] = "done"
      BY <1>1, <1>3 DEF TypeOK
    <2>2. \A u \in Writers : pc'[u] \notin {"seed", "upsert", "load", "priors", "log"}
      BY <1>1, <1>3, <2>1 DEF Placed, Tasks
    <2>3. QED
      BY <2>2 DEF Placed
  <1>14. \A u \in Tasks : Carried(u)'
    BY <1>6, <1>7, <1>8, CarriesNothing DEF Open
  <1>15. t \notin behind => \A i \in Items : elo'[i].base = Elo(draft[t], i).base
    <2>1. SUFFICES ASSUME t \notin behind, NEW i \in Items PROVE elo'[i].base = Elo(draft[t], i).base
      OBVIOUS
    <2>2. CASE t \in Writers
      <3>1. draft[t].items = draft[t].dirty
        BY <1>1, <2>2 DEF Carried
      <3>2. QED
        BY <1>2, <3>1 DEF Elo
    <2>3. CASE t \notin Writers
      <3>1. /\ draft[t].items = Items /\ BasesOf(draft[t]) = seen[t]
            /\ \A j \in Items \ draft[t].dirty : seen[t][j] = elo[j].base
        BY <1>1, <1>2, <2>1, <2>3 DEF Carried
      <3>2. Elo(draft[t], i) = draft[t].elo[i] /\ Elo(draft[t], i).base = seen[t][i]
        BY <3>1 DEF Elo, BasesOf
      <3>3. QED
        BY <1>2, <3>1, <3>2
    <2>4. QED
      BY <2>2, <2>3
  <1>16. t \notin behind => Bases' = BasesOf(draft[t])
    BY <1>15 DEF Bases, BasesOf
  <1>17. LiveIsReplay'
    <2>1. Applied(t) = log
      BY <1>2 DEF Applied
    <2>2. ASSUME latest' \notin behind', NEW c \in Concepts
          PROVE  mastery'[c] = {Replayed(r, log, Bases') : r \in {q \in log : q.concept = c}}
      <3>1. t \notin behind
        BY <1>1, <1>2, <2>2, MasteryAssumption DEF TypeOK
      <3>2. t \notin Writers \/ latest \notin behind
        BY <1>2, <2>2
      <3>3. Ability(draft[t], c) = {Replayed(r, log, BasesOf(draft[t])) : r \in {q \in log : q.concept = c}}
        BY <1>1, <2>1, <3>2 DEF Drafted
      <3>4. QED
        BY <1>2, <1>16, <3>1, <3>3
    <2>3. ASSUME NEW i \in Items PROVE elo'[i].moved = Movers(i, log)
      <3>1. Elo(draft[t], i).moved = Movers(i, log)
        BY <1>1, <2>1 DEF Drafted, Movers
      <3>2. CASE t \in Writers
        <4>1. draft[t].items = draft[t].dirty
          BY <1>1, <3>2 DEF Carried
        <4>2. QED
          BY <1>2, <3>1, <4>1 DEF Elo
      <3>3. CASE t \notin Writers
        <4>1. draft[t].items = Items /\ log = evidence
          BY <1>1, <1>2, <3>3 DEF Carried, All
        <4>2. elo[i].moved = Movers(i, log)
          BY <1>1, <4>1 DEF LiveIsReplay
        <4>3. QED
          BY <1>2, <3>1, <4>1, <4>2 DEF Elo
      <3>4. QED
        BY <3>2, <3>3
    <2>4. QED
      BY <1>2, <2>2, <2>3 DEF LiveIsReplay
  <1>18. QED
    BY <1>6, <1>8, <1>10, <1>11, <1>12, <1>13, <1>14, <1>16, <1>17 DEF IInv

---------------------------------------------------------------------------
\* The invariant

LEMMA Stutter == IInv /\ UNCHANGED vars => IInv'
  <1>1. SUFFICES ASSUME IInv, UNCHANGED vars PROVE IInv'
    OBVIOUS
  <1>2. \A u \in Tasks : pc'[u] = "fold" => Drafted(u)'
    BY <1>1, DraftKept DEF vars, IInv
  <1>3. TypeOK'
    BY <1>1 DEF vars, IInv, TypeOK
  <1>4. Locked' /\ Blank' /\ Placed'
    BY <1>1 DEF vars, IInv, Locked, Blank, Placed
  <1>5. Stamped' /\ Fit'
    BY <1>1 DEF vars, IInv, Stamped, Fit, All
  <1>6. LiveIsReplay'
    BY <1>1, LiveKept DEF vars, IInv
  <1>7. \A u \in Tasks : Carried(u)'
    BY <1>1, CarriedKept DEF vars, IInv
  <1>8. QED
    BY <1>2, <1>3, <1>4, <1>5, <1>6, <1>7 DEF IInv

LEMMA StepInvariant == IInv /\ [Next]_vars => IInv'
  <1>1. SUFFICES ASSUME IInv, Next PROVE IInv'
    BY Stutter
  <1>2. ASSUME NEW t \in Tasks, Transaction(t) \/ Die(t) PROVE IInv'
    BY <1>1, <1>2, LockStep, StampStep, ReadPriorsStep, ReadLogStep, FoldStep, CommitStep, DieStep
       DEF Transaction
  <1>3. ASSUME NEW s \in Seeds, OpenSeed(s) \/ CountItems(s) PROVE IInv'
    BY <1>1, <1>3, OpenSeedStep, CountItemsStep
  <1>4. QED
    BY <1>1, <1>2, <1>3, SeedStep DEF Next

LEMMA Invariance == Spec => []IInv
  BY InitInvariant, StepInvariant, PTL DEF Spec

\* Every variable keeps its type, for any readings, items and tasks.
THEOREM MasteryTypes == Spec => []TypeOK
  BY Invariance, PTL DEF IInv

\* However many transactions, rebuilds and seedings overlap or fail, the live projection is
\* the replay of the committed evidence, unless the rebuild that came last was that of a
\* seeding whose item rows were older than the table's when it got the lock (seed.py's main).
THEOREM LiveEqualsReplay == Spec => []LiveIsReplay
  BY Invariance, PTL DEF IInv

---------------------------------------------------------------------------
\* Attempts

LEMMA LeastStamp ==
  ASSUME NEW S \in SUBSET Nat, S # {}
  PROVE  \E n \in S : \A m \in S : n <= m
  <1> DEFINE R == OpToRel(<, Nat)
  <1>1. IsWellFoundedOn(R, Nat)
    BY NatLessThanWellFounded
  <1>2. \A a, b \in Nat : <<a, b>> \in R <=> a < b
    BY DEF OpToRel
  <1> HIDE DEF R
  <1>3. PICK x \in S : \A y \in S : <<y, x>> \notin R
    BY <1>1, WFMin
  <1>4. \A y \in S : x <= y
    <2>1. SUFFICES ASSUME NEW y \in S PROVE x <= y
      OBVIOUS
    <2>2. x \in Nat /\ y \in Nat
      OBVIOUS
    <2>3. ~(y < x)
      BY <1>2, <1>3, <2>2
    <2>4. QED
      BY <2>2, <2>3
  <1>5. QED
    BY <1>4

\* Of the rows of an attempt that name the primary concept the earliest moves the item, and
\* no other does.
Named(i, w, log) == {row \in log : /\ row.by = w /\ row.item = i
                                   /\ row.source = "session_grading" /\ row.concept = Primary[i]}

LEMMA OneMover ==
  ASSUME NEW log \in SUBSET Row, \A r, q \in log : r.ts = q.ts => r = q,
         NEW i \in Items, NEW w \in Writers
  PROVE  /\ Named(i, w, log) = {} => {row \in Movers(i, log) : row.by = w} = {}
         /\ Named(i, w, log) # {} => \E row : {r \in Movers(i, log) : r.by = w} = {row}
  <1> DEFINE named == Named(i, w, log)
             moving == {row \in Movers(i, log) : row.by = w}
             stamps == {row.ts : row \in named}
  <1> USE DEF Named
  <1>1. moving \subseteq named
    BY DEF Movers, MovesItem
  <1>2. \A r \in log : r.ts \in Nat
    BY DEF Row
  <1>3. \A r, q \in named : r \in moving => ~(q.ts < r.ts)
    BY DEF Movers, MovesItem
  <1>4. \A r \in named : (\A q \in named : r.ts <= q.ts) => r \in moving
    BY <1>2 DEF Movers, MovesItem
  <1>5. ASSUME named # {} PROVE \E row : moving = {row}
    <2>1. stamps \in SUBSET Nat /\ stamps # {}
      BY <1>2, <1>5
    <2>2. PICK least \in stamps : \A n \in stamps : least <= n
      BY <2>1, LeastStamp
    <2>3. PICK row \in named : row.ts = least
      BY <2>2
    <2>4. row \in moving
      BY <1>4, <2>2, <2>3
    <2>5. \A r \in moving : r = row
      BY <1>1, <1>2, <1>3, <2>3, <2>4
    <2>6. QED
      BY <2>4, <2>5
  <1>6. QED
    BY <1>1, <1>5

\* Any grading moves its item's rating once, whatever its rows are.
THEOREM AttemptsMoveOnce == Spec => []AttemptMovesOnce
  <1>1. IInv => AttemptMovesOnce
    <2>1. SUFFICES ASSUME IInv, NEW i \in Items, NEW w \in Writers
                   PROVE  Cardinality({row \in elo[i].moved : row.by = w}) =
                            IF \E row \in evidence : /\ row.by = w /\ row.item = i
                                                     /\ row.source = "session_grading"
                                                     /\ row.concept = Primary[i]
                            THEN 1 ELSE 0
      BY DEF AttemptMovesOnce
    <2>2. evidence \in SUBSET Row /\ elo[i].moved = Movers(i, evidence)
      BY <2>1 DEF IInv, TypeOK, LiveIsReplay
    <2>3. \A r, q \in evidence : r.ts = q.ts => r = q
      BY <2>1 DEF IInv, Stamped, All, Tasks
    <2> DEFINE moving == {row \in Movers(i, evidence) : row.by = w}
    <2>4. CASE \E row \in evidence : /\ row.by = w /\ row.item = i
                                     /\ row.source = "session_grading" /\ row.concept = Primary[i]
      <3>1. Named(i, w, evidence) # {}
        BY <2>4 DEF Named
      <3>2. \E row : moving = {row}
        BY <2>2, <2>3, <3>1, OneMover
      <3>3. QED
        BY <2>2, <2>4, <3>2, FS_Singleton
    <2>5. CASE ~ \E row \in evidence : /\ row.by = w /\ row.item = i
                                       /\ row.source = "session_grading" /\ row.concept = Primary[i]
      <3>1. moving = {}
        BY <2>2, <2>3, <2>5, OneMover DEF Named
      <3>2. QED
        BY <2>2, <2>5, <3>1, FS_EmptySet
    <2>6. QED
      BY <2>4, <2>5
  <1>2. QED
    BY Invariance, <1>1, PTL

---------------------------------------------------------------------------
\* Seedings

\* A step of one task that leaves the committed ratings and the priors alone.
LEMMA OwedKept ==
  ASSUME Owed, NEW t \in Tasks,
         UNCHANGED <<elo, prior, latest>>, behind \subseteq behind',
         \A u \in Tasks \ {t} : pc'[u] = pc[u] /\ seen'[u] = seen[u],
         Based /\ t \notin Writers /\ pc'[t] \in {"log", "fold"} /\ t \notin behind' => seen'[t] = prior,
         t \in Seeds /\ Pending(t) => Pending(t)'
  PROVE  Owed'
  <1>1. Bases' = Bases
    BY DEF Bases
  <1>2. CASE Based
    <2>1. Bases' = prior' \/ latest' \in behind'
      BY <1>1, <1>2 DEF Based
    <2>2. \A u \in Tasks \ Writers : pc'[u] \in {"log", "fold"} /\ u \notin behind' => seen'[u] = prior'
      BY <1>2 DEF Based
    <2>3. QED
      BY <2>1, <2>2 DEF Based, Owed
  <1>3. CASE \E s \in Seeds : Pending(s)
    <2>1. PICK s \in Seeds : Pending(s)
      BY <1>3
    <2>2. s \in Tasks
      BY DEF Tasks
    <2>3. Pending(s)'
      BY <2>1, <2>2 DEF Pending
    <2>4. QED
      BY <2>3 DEF Owed
  <1>4. QED
    BY <1>2, <1>3 DEF Owed

\* The end of a rebuild settles what it had read, unless it is behind; a writer's end leaves
\* the bases where they were.
LEMMA OwedCommit ==
  ASSUME IInv, Owed, NEW t \in Tasks, Commit(t)
  PROVE  Owed'
  <1>1. t \notin behind => Bases' = BasesOf(draft[t])
    BY CommitStep
  <1>2. TypeOK /\ Locked /\ Carried(t)
    BY DEF IInv
  <1>3. /\ pc[t] = "fold" /\ End(t, "done") /\ prior' = prior /\ behind' = behind
        /\ latest' = IF t \in Writers THEN latest ELSE t
    BY DEF Commit
  <1>4. pc'[t] = "done" /\ \A u \in Tasks \ {t} : pc'[u] = pc[u] /\ pc[u] \notin Open
    <2>1. pc' = [pc EXCEPT ![t] = "done"]
      BY <1>3 DEF End, Goto
    <2>2. \A u \in Tasks \ {t} : pc[u] \notin Open
      BY <1>2, <1>3 DEF Locked, Open
    <2>3. QED
      BY <1>2, <2>1, <2>2 DEF TypeOK
  <1>5. \A u \in Tasks : pc'[u] \notin {"log", "fold"}
    BY <1>4 DEF Open
  <1>6. Bases' = prior' \/ latest' \in behind' => Owed'
    BY <1>5 DEF Owed, Based
  <1>7. ASSUME NEW s \in Seeds, s # t, Pending(s) PROVE Owed'
    <2>1. s \in Tasks /\ pc'[s] = pc[s] /\ pc[s] \notin {"log", "fold"}
      BY <1>4, <1>7 DEF Tasks, Open
    <2>2. Pending(s)'
      BY <1>7, <2>1 DEF Pending
    <2>3. QED
      BY <1>7, <2>2 DEF Owed
  <1>8. CASE t \in Writers
    <2>1. Bases' = Bases /\ t \notin Seeds /\ latest' = latest
      <3>1. t \notin Seeds
        BY <1>8, MasteryAssumption
      <3>2. BasesOf(draft[t]) = Bases
        BY <1>2, <1>8 DEF Carried
      <3>3. QED
        BY <1>1, <1>2, <1>3, <1>8, <3>1, <3>2 DEF TypeOK
    <2>2. CASE Based
      BY <1>3, <1>6, <2>1, <2>2 DEF Based
    <2>3. CASE \E s \in Seeds : Pending(s)
      BY <1>7, <2>1, <2>3
    <2>4. QED
      BY <2>2, <2>3 DEF Owed
  <1>9. CASE t \notin Writers
    <2>1. CASE t \in behind
      BY <1>3, <1>6, <1>9, <2>1
    <2>2. CASE t \notin behind
      <3>1. Bases' = seen[t]
        BY <1>1, <1>2, <1>3, <1>9, <2>2 DEF Carried
      <3>2. CASE seen[t] = prior
        BY <1>3, <1>6, <3>1, <3>2
      <3>3. CASE seen[t] # prior
        <4>1. ~Based
          BY <1>3, <1>9, <2>2, <3>3 DEF Based
        <4>2. PICK s \in Seeds : Pending(s)
          BY <4>1 DEF Owed
        <4>3. s # t
          BY <1>3, <2>2, <3>3, <4>2 DEF Pending
        <4>4. QED
          BY <1>7, <4>2, <4>3
      <3>4. QED
        BY <3>2, <3>3
    <2>3. QED
      BY <2>1, <2>2
  <1>10. QED
    BY <1>8, <1>9

LEMMA OwedTransaction ==
  ASSUME IInv, Owed, NEW t \in Tasks, Transaction(t) \/ Die(t)
  PROVE  Owed'
  <1>1. TypeOK /\ Placed /\ (t \in Seeds => t \notin Writers)
    BY MasteryAssumption DEF IInv
  <1>2. CASE Lock(t)
    <2>1. /\ pc[t] = "start"
          /\ behind' = IF t \in Seeds /\ ~Current(t) THEN behind \cup {t} ELSE behind
          /\ Goto(t, CASE t \in Writers -> "stamp" [] t \in Rebuilders -> "priors" [] OTHER -> "log")
          /\ UNCHANGED <<elo, prior, latest, seen>>
      BY <1>2 DEF Lock, Locking
    <2>2. /\ t \in Seeds => t \notin Writers /\ t \notin Rebuilders
          /\ t \in Writers \/ t \in Rebuilders \/ t \in Seeds
      BY MasteryAssumption DEF Tasks
    <2>3. /\ pc'[t] \in {"stamp", "priors", "log"} /\ (pc'[t] = "log" <=> t \in Seeds)
          /\ \A u \in Tasks \ {t} : pc'[u] = pc[u]
      BY <1>1, <2>1, <2>2 DEF Goto, TypeOK
    <2>4. pc'[t] = "log" => t \in behind' \/ seen'[t] = prior
      BY <2>1, <2>3 DEF Current
    <2>5. t \in Seeds => Pending(t)'
      BY <2>1, <2>3, <2>4 DEF Pending
    <2>6. behind \subseteq behind' /\ pc'[t] # "fold"
      BY <2>1, <2>3
    <2>7. QED
      BY <2>1, <2>3, <2>4, <2>5, <2>6, OwedKept
  <1>3. CASE t \in Writers /\ Stamp(t)
    <2>1. pc'[t] = "fold" /\ \A u \in Tasks \ {t} : pc'[u] = pc[u]
      BY <1>1, <1>3 DEF Stamp, Goto, TypeOK
    <2>2. UNCHANGED <<elo, prior, latest, seen, behind>> /\ t \notin Seeds
      BY <1>1, <1>3 DEF Stamp
    <2>3. QED
      BY <1>3, <2>1, <2>2, OwedKept
  <1>4. CASE ReadPriors(t)
    <2>1. pc[t] = "priors" /\ LoadItems(t) /\ Goto(t, "log")
      BY <1>4 DEF ReadPriors
    <2>2. pc'[t] = "log" /\ \A u \in Tasks \ {t} : pc'[u] = pc[u]
      BY <1>1, <2>1 DEF Goto, TypeOK
    <2>3. /\ UNCHANGED <<elo, prior, latest, behind>> /\ seen'[t] = prior
          /\ \A u \in Tasks \ {t} : seen'[u] = seen[u]
      BY <1>1, <2>1, Loads
    <2>4. Pending(t)'
      BY <2>2, <2>3 DEF Pending
    <2>5. QED
      BY <2>2, <2>3, <2>4, OwedKept
  <1>5. CASE ReadLog(t)
    <2>1. /\ UNCHANGED <<elo, prior, seen, behind, latest>> /\ pc[t] = "log"
          /\ pc'[t] = "fold" /\ \A u \in Tasks \ {t} : pc'[u] = pc[u]
      BY <1>1, <1>5 DEF ReadLog, Goto, TypeOK
    <2>2. Based /\ t \notin Writers /\ t \notin behind' => seen'[t] = prior
      BY <2>1 DEF Based
    <2>3. Pending(t) => Pending(t)'
      BY <2>1 DEF Pending
    <2>4. QED
      BY <2>1, <2>2, <2>3, OwedKept
  <1>6. CASE \E row \in left[t] : Fold(t, row)
    <2>1. UNCHANGED <<elo, prior, seen, pc, behind, latest>>
      BY <1>6 DEF Fold
    <2>2. Based /\ t \notin Writers /\ pc'[t] \in {"log", "fold"} /\ t \notin behind' => seen'[t] = prior
      BY <2>1 DEF Based
    <2>3. Pending(t) => Pending(t)'
      BY <2>1 DEF Pending
    <2>4. QED
      BY <2>1, <2>2, <2>3, OwedKept
  <1>7. CASE Commit(t)
    BY <1>7, OwedCommit
  <1>8. CASE Die(t)
    <2>1. End(t, "gone") /\ UNCHANGED <<elo, prior, behind, latest>>
      BY <1>8 DEF Die
    <2>2. pc'[t] = "gone" /\ \A u \in Tasks \ {t} : pc'[u] = pc[u] /\ seen'[u] = seen[u]
      BY <1>1, <2>1, Ended DEF TypeOK
    <2>3. Pending(t)'
      BY <2>2 DEF Pending
    <2>4. QED
      BY <2>1, <2>2, <2>3, OwedKept
  <1>9. QED
    BY <1>2, <1>3, <1>4, <1>5, <1>6, <1>7, <1>8 DEF Transaction

LEMMA OwedLoading ==
  ASSUME IInv, Owed, NEW s \in Seeds, OpenSeed(s) \/ CountItems(s)
  PROVE  Owed'
  <1>1. TypeOK /\ s \in Tasks
    BY DEF IInv, Tasks
  <1>2. CASE OpenSeed(s)
    <2>1. /\ pc[s] = "seed" /\ pc'[s] = "upsert" /\ UNCHANGED <<elo, prior, behind, latest>>
          /\ \A u \in Tasks \ {s} : pc'[u] = pc[u] /\ seen'[u] = seen[u]
      BY <1>1, <1>2 DEF OpenSeed, Goto, TypeOK
    <2>2. ~Pending(s)
      BY <2>1 DEF Pending
    <2>3. QED
      BY <1>1, <2>1, <2>2, OwedKept
  <1>3. CASE CountItems(s)
    <2>1. LoadItems(s) /\ Goto(s, "start")
      BY <1>3 DEF CountItems
    <2>2. pc'[s] = "start" /\ \A u \in Tasks \ {s} : pc'[u] = pc[u]
      BY <1>1, <2>1 DEF Goto, TypeOK
    <2>3. UNCHANGED <<elo, prior, latest, behind>> /\ \A u \in Tasks \ {s} : seen'[u] = seen[u]
      BY <1>1, <2>1, Loads
    <2>4. Pending(s)'
      BY <2>2 DEF Pending
    <2>5. QED
      BY <1>1, <2>2, <2>3, <2>4, OwedKept
  <1>4. QED
    BY <1>2, <1>3

LEMMA OwedSeed ==
  ASSUME IInv, Owed, NEW s \in Seeds, NEW corpus \in [Items -> 0 .. MaxPrior], Seed(s, corpus)
  PROVE  Owed'
  <1>1. TypeOK /\ s \in Tasks
    BY DEF IInv, Tasks
  <1>2. /\ pc[s] = "upsert" /\ Goto(s, IF Changed(s, corpus) = {} THEN "done" ELSE "load")
        /\ prior' = [i \in Items |-> IF i \in Changed(s, corpus) THEN corpus[i] ELSE prior[i]]
        /\ UNCHANGED <<elo, seen, behind, latest>>
    BY DEF Seed
  <1>3. CASE Changed(s, corpus) = {}
    <2>1. prior' = prior
      BY <1>1, <1>2, <1>3 DEF TypeOK
    <2>2. pc'[s] = "done" /\ \A u \in Tasks \ {s} : pc'[u] = pc[u]
      BY <1>1, <1>2, <1>3 DEF Goto, TypeOK
    <2>3. ~Pending(s)
      BY <1>2 DEF Pending
    <2>4. QED
      BY <1>1, <1>2, <2>1, <2>2, <2>3, OwedKept
  <1>4. CASE Changed(s, corpus) # {}
    <2>1. pc'[s] = "load"
      BY <1>1, <1>2, <1>4 DEF Goto, TypeOK
    <2>2. QED
      BY <2>1 DEF Owed, Pending
  <1>5. QED
    BY <1>3, <1>4

\* Once every seeding is over and none died before its rebuild, the ratings stand on the
\* corpus's, unless the rebuild that came last was that of a seeding whose item rows were
\* older than the table's when it got the lock: no other rebuild restores older priors.
THEOREM SeedsRebase == Spec => []SeedRebases
  <1>1. Init => Owed
    <2>1. SUFFICES ASSUME Init PROVE Owed
      OBVIOUS
    <2>2. Bases = prior
      BY <2>1 DEF Init, Bases, AtPrior
    <2>3. \A t \in Tasks : pc[t] \notin {"log", "fold"}
      BY <2>1 DEF Init
    <2>4. QED
      BY <2>2, <2>3 DEF Owed, Based
  <1>2. ASSUME IInv, Owed, [Next]_vars PROVE Owed'
    <2>1. CASE Next
      BY <1>2, <2>1, OwedTransaction, OwedLoading, OwedSeed DEF Next
    <2>2. CASE UNCHANGED vars
      BY <1>2, <2>2 DEF vars, Owed, Based, Bases, Pending
    <2>3. QED
      BY <1>2, <2>1, <2>2
  <1>3. IInv /\ Owed => SeedRebases
    <2>1. SUFFICES ASSUME Owed, Settled, latest \notin behind PROVE Bases = prior
      BY DEF SeedRebases
    <2>2. QED
      BY <2>1 DEF Owed, Based, Pending, Settled
  <1>4. QED
    BY <1>1, <1>2, <1>3, Invariance, PTL DEF Spec
=============================================================================
