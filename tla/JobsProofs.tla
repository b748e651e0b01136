----------------------------- MODULE JobsProofs -----------------------------
(***************************************************************************)
(* What the job tracker keeps however its requests overlap, for any        *)
(* clients, lists, ladder and bounds.                                      *)
(*                                                                         *)
(* The invariant says of every application that its row and its history    *)
(* fit (Healthy), of every two that their indexed names differ, and of     *)
(* every request that what it has read is still of use where it is used    *)
(* (Current).  A step is then two facts: what it does to the applications  *)
(* (Evolves), which keeps the requests of all other clients current, and   *)
(* where it leaves its own request.                                        *)
(***************************************************************************)
EXTENDS Jobs, FiniteSetTheorems, SequenceTheorems, WellFoundedInduction, TLAPS

\* What follows of a history from its events alone.
SoundEvents(events) ==
    /\ events # <<>> /\ events[1].stage = Applied
    /\ \A n \in 2 .. Len(events) : events[n].stage # events[n - 1].stage
By(events) == {event.by : event \in Range(events)}
MovedBy(c, events) == By(events) \subseteq {c} /\ Rebuilders \subseteq {c}

\* The columns that are projected.
Shown(row) == <<row.current, row.furthest, row.outcome>>
Shows(row, events) == Shown(row) = Shown(Projected(row, events))

HasBeen(row, events) ==
    /\ row.current \in Range(StagesOf(events))
    /\ row.furthest \in Range(StagesOf(events))

Healthy(row, events) ==
    /\ row \in Row /\ events \in Seq(Event) /\ Len(events) <= MaxEvents
    /\ SoundEvents(events)
    /\ HasBeen(row, events)
    /\ row.name.spaced => row.typed
    /\ \A c \in Clients : MovedBy(c, events) => Shows(row, events)

\* The history of an application is what was read of it, and maybe more.
Extends(events, old) == Len(old) <= Len(events) /\ \A n \in 1 .. Len(old) : events[n] = old[n]

\* The rows of a list that a request carries.
PastedKeys == UNION {{raw.key : raw \in Range(rows)} : rows \in Pastes \cup {answer.rows : answer \in Answers}}
Parsed(rows) ==
    /\ rows \in Seq(Range(rows))
    /\ \A n \in DOMAIN rows : rows[n].key \in PastedKeys /\ rows[n].sub \in Subcategories /\ rows[n].stage \in Stages

\* What a rebuild makes of a row it has loaded, as far as that may be relied on later.
Rewritten(c, a) ==
    LET old == loaded[c][a]
        new == read[c][a]
    IN  /\ new \in Row
        /\ new.name = old.name /\ new.typed = old.typed
        /\ a \in Live => HasBeen(new, history[a])
        /\ a \in Live /\ MovedBy(c, history[a]) => Shows(new, history[a])

\* What c's request has read and carries, in each of its stages.
Current(c) ==
    /\ pc[c] = "create" => asked[c] \in Entries
    /\ pc[c] \in {"research", "ingest"} => asked[c] = [rows |-> asked[c].rows] /\ Parsed(asked[c].rows)
    /\ pc[c] \in {"advance", "append"} => asked[c].stage \in Stages
    /\ pc[c] = "classify" => asked[c].sub \in Subcategories
    /\ pc[c] \in {"advance", "append", "classify", "delete"} => target[c] \in DOMAIN board
    /\ pc[c] \in {"advance", "append", "classify"} => loaded[c] \in Row
    /\ pc[c] \in {"advance", "append"} /\ target[c] \in Live /\ MovedBy(c, history[target[c]])
          => Shown(loaded[c]) = Shown(board[target[c]])
    /\ pc[c] = "append" =>
          /\ read[c] \in Seq(Event)
          /\ read[c] # <<>> => read[c][Len(read[c])].stage # asked[c].stage
          /\ target[c] \in Live => Extends(history[target[c]], read[c])
    /\ pc[c] = "delete" => read[c] \in Seq(Event)
    /\ pc[c] \in {"rebuild", "rewrite"} =>
          /\ c \in Rebuilders
          /\ DOMAIN loaded[c] \subseteq DOMAIN board
          /\ loaded[c] \in [DOMAIN loaded[c] -> Row]
          /\ \A a \in DOMAIN loaded[c] :
                 a \in Live /\ MovedBy(c, history[a]) => Shown(loaded[c][a]) = Shown(board[a])
    /\ pc[c] = "rewrite" => DOMAIN read[c] = DOMAIN loaded[c] /\ \A a \in DOMAIN loaded[c] : Rewritten(c, a)

Labels == {"idle", "create", "research", "ingest", "advance", "append", "rebuild", "rewrite", "classify", "delete"}

\* Every variable that holds something for each client does so.
Frames ==
    /\ pc \in [Clients -> Labels]
    /\ target = [c \in Clients |-> target[c]]
    /\ loaded = [c \in Clients |-> loaded[c]]
    /\ read = [c \in Clients |-> read[c]]
    /\ asked = [c \in Clients |-> asked[c]]

Applications ==
    /\ board \in Seq(Row \cup {Gone}) /\ Len(board) <= MaxRows
    /\ history \in Seq(Seq(Event)) /\ DOMAIN history = DOMAIN board
    /\ \A a \in Live : Healthy(board[a], history[a])
    /\ \A a \in DOMAIN board \ Live : history[a] = <<>>

OneIndex == \A a, b \in Live : Index(board[a].name) = Index(board[b].name) => a = b

IInv == Frames /\ Applications /\ OneIndex /\ \A c \in Clients : Current(c)

---------------------------------------------------------------------------
\* Numbers

\* A non-empty set of numbers has a least element.
LEMMA LeastNumber ==
  ASSUME NEW S \in SUBSET Nat, S # {}
  PROVE  \E n \in S : \A m \in S : n <= m
  <1> DEFINE R == OpToRel(<, Nat)
  <1>1. IsWellFoundedOn(R, Nat)
    BY NatLessThanWellFounded
  <1>2. \A n, m \in Nat : m < n => <<m, n>> \in R
    BY DEF OpToRel
  <1> HIDE DEF R
  <1>3. PICK n \in S : \A m \in S : ~(<<m, n>> \in R)
    BY <1>1, WFMin
  <1>4. \A m \in S : n <= m
    <2>1. SUFFICES ASSUME NEW m \in S PROVE n <= m
      OBVIOUS
    <2>2. n \in Nat /\ m \in Nat
      OBVIOUS
    <2>3. ~(m < n)
      BY <1>2, <1>3, <2>2, Zenon
    <2>4. QED
      BY <2>2, <2>3
  <1>5. QED
    BY <1>4

\* A non-empty set of numbers up to a bound has a greatest one, which is what Max is.
LEMMA MaxOf ==
  ASSUME NEW top \in Nat, NEW S \in SUBSET (0 .. top), S # {}
  PROVE  Max(S) \in S /\ \A m \in S : m <= Max(S)
  <1> DEFINE T == {n \in Nat : \E m \in S : n = top - m}
  <1>1. PICK n \in T : \A m \in T : n <= m
    <2>1. PICK m \in S : m \in 0 .. top
      OBVIOUS
    <2>2. top - m \in T
      BY <2>1
    <2>3. T \in SUBSET Nat /\ T # {}
      BY <2>2
    <2> HIDE DEF T
    <2>4. QED
      BY <2>3, LeastNumber
  <1>2. top - n \in S /\ \A m \in S : m <= top - n
    BY <1>1
  <1>3. QED
    BY <1>2 DEF Max

\* How many members a finite set of numbers has up to m tells its members apart and takes every
\* value up to their number.
LEMMA Ranked ==
  ASSUME NEW S \in SUBSET Nat, IsFiniteSet(S)
  PROVE  /\ Cardinality(S) \in Nat
         /\ \A m \in S : Cardinality({k \in S : k <= m}) \in 1 .. Cardinality(S)
         /\ \A m, n \in S : Cardinality({k \in S : k <= m}) = Cardinality({k \in S : k <= n}) => m = n
         /\ \A r \in 1 .. Cardinality(S) : \E m \in S : Cardinality({k \in S : k <= m}) = r
  <1> DEFINE upTo(m) == {k \in S : k <= m}
             rank == [m \in S |-> Cardinality(upTo(m))]
             N == Cardinality(S)
  <1>1. N \in Nat
    BY FS_CardinalityType
  <1>2. \A m \in S : /\ upTo(m) \in SUBSET S /\ IsFiniteSet(upTo(m))
                     /\ Cardinality(upTo(m)) \in Nat /\ Cardinality(upTo(m)) <= N
    <2>1. SUFFICES ASSUME NEW m \in S
                   PROVE  /\ upTo(m) \in SUBSET S /\ IsFiniteSet(upTo(m))
                          /\ Cardinality(upTo(m)) \in Nat /\ Cardinality(upTo(m)) <= N
      OBVIOUS
    <2>2. upTo(m) \in SUBSET S
      OBVIOUS
    <2> HIDE DEF upTo
    <2>3. IsFiniteSet(upTo(m)) /\ Cardinality(upTo(m)) <= N
      BY <2>2, FS_Subset
    <2>4. QED
      BY <2>2, <2>3, FS_CardinalityType
  <1>3. \A m \in S : Cardinality(upTo(m)) # 0
    <2>1. \A m \in S : m \in upTo(m)
      OBVIOUS
    <2> HIDE DEF upTo
    <2>2. QED
      BY <1>2, <2>1, FS_EmptySet
  <1>4. \A m, n \in S : m < n => Cardinality(upTo(m)) # Cardinality(upTo(n))
    <2>1. SUFFICES ASSUME NEW m \in S, NEW n \in S, m < n, Cardinality(upTo(m)) = Cardinality(upTo(n))
                   PROVE  FALSE
      OBVIOUS
    <2>2. upTo(m) \in SUBSET upTo(n) /\ n \in upTo(n) /\ n \notin upTo(m)
      <3>1. m \in Nat /\ n \in Nat /\ \A k \in S : k \in Nat
        OBVIOUS
      <3>2. \A k \in upTo(m) : k \in upTo(n)
        BY <2>1, <3>1
      <3>3. n \in upTo(n) /\ n \notin upTo(m)
        BY <2>1, <3>1
      <3>4. QED
        BY <3>2, <3>3
    <2> HIDE DEF upTo
    <2>3. upTo(m) = upTo(n)
      BY <1>2, <2>1, <2>2, FS_Subset
    <2>4. QED
      BY <2>2, <2>3
  <1>5. \A m, n \in S : Cardinality(upTo(m)) = Cardinality(upTo(n)) => m = n
    BY <1>4
  <1>6. rank \in Injection(S, 1 .. N)
    <2>1. rank \in [S -> 1 .. N]
      <3> HIDE DEF upTo
      <3>1. QED
        BY <1>1, <1>2, <1>3
    <2>2. \A m, n \in S : rank[m] = rank[n] => m = n
      BY <1>5
    <2> HIDE DEF rank
    <2>3. QED
      BY <2>1, <2>2 DEF Injection, IsInjective
  <1>7. rank \in Surjection(S, 1 .. N)
    <2>1. IsFiniteSet(1 .. N) /\ Cardinality(1 .. N) = N
      BY <1>1, FS_Interval
    <2> HIDE DEF rank
    <2>2. QED
      BY <1>6, <2>1, FS_Injection
  <1>8. \A r \in 1 .. N : \E m \in S : rank[m] = r
    <2> HIDE DEF rank
    <2>1. QED
      BY <1>7 DEF Surjection
  <1>9. QED
    BY <1>1, <1>2, <1>3, <1>5, <1>8

\* Ascending lists every member of a finite set of numbers, once.
LEMMA AscendingLists ==
  ASSUME NEW S \in SUBSET Nat, IsFiniteSet(S)
  PROVE  /\ DOMAIN Ascending(S) = 1 .. Cardinality(S) /\ Cardinality(S) \in Nat
         /\ \A n \in DOMAIN Ascending(S) : Ascending(S)[n] \in S
         /\ \A n, k \in DOMAIN Ascending(S) : Ascending(S)[n] = Ascending(S)[k] => n = k
         /\ Ascending(S) \in Seq(S) /\ Len(Ascending(S)) = Cardinality(S)
  <1> DEFINE rank(m) == Cardinality({k \in S : k <= m})
             at(n) == CHOOSE m \in S : rank(m) = n
  <1>1. /\ Cardinality(S) \in Nat
        /\ \A r \in 1 .. Cardinality(S) : \E m \in S : rank(m) = r
    BY Ranked
  <1>2. Ascending(S) = [n \in 1 .. Cardinality(S) |-> at(n)]
    BY DEF Ascending
  <1> HIDE DEF rank
  <1>3. \A n \in 1 .. Cardinality(S) : at(n) \in S /\ rank(at(n)) = n
    BY <1>1
  <1> HIDE DEF at
  <1>4. QED
    BY <1>1, <1>2, <1>3

---------------------------------------------------------------------------
\* The projection

LEMMA LadderType ==
  /\ Len(Ladder) \in Nat \ {0} /\ DOMAIN Ladder = 1 .. Len(Ladder) /\ 1 \in DOMAIN Ladder
  /\ Applied \in Range(Ladder) /\ Offer \in Range(Ladder) /\ Range(Ladder) \subseteq Stages
  /\ \A stage \in Range(Ladder) : Rank(stage) \in DOMAIN Ladder /\ Ladder[Rank(stage)] = stage
  <1>1. /\ Len(Ladder) \in Nat \ {0} /\ DOMAIN Ladder = 1 .. Len(Ladder)
    BY JobRowsAssumption
  <1>2. 1 \in DOMAIN Ladder /\ Len(Ladder) \in DOMAIN Ladder
    BY <1>1
  <1>3. Applied \in Range(Ladder) /\ Offer \in Range(Ladder) /\ Range(Ladder) \subseteq Stages
    BY <1>2 DEF Applied, Offer, Last, Range, Stages
  <1>4. \A stage \in Range(Ladder) : \E k \in DOMAIN Ladder : Ladder[k] = stage
    BY DEF Range
  <1>5. \A stage \in Range(Ladder) : Rank(stage) \in DOMAIN Ladder /\ Ladder[Rank(stage)] = stage
    BY <1>4 DEF Rank
  <1>6. QED
    BY <1>1, <1>2, <1>3, <1>5

\* What the stages of a history are, one by one.
LEMMA StagesType ==
  ASSUME NEW events \in Seq(Event)
  PROVE  /\ DOMAIN StagesOf(events) = 1 .. Len(events) /\ Len(events) \in Nat
         /\ StagesOf(events) \in Seq(Stages) /\ Len(StagesOf(events)) = Len(events)
         /\ \A n \in 1 .. Len(events) : /\ StagesOf(events)[n] = events[n].stage
                                        /\ events[n].stage \in Range(StagesOf(events))
                                        /\ events[n] \in Event
         /\ StagesOf(events) = <<>> <=> events = <<>>
         /\ Range(StagesOf(events)) \subseteq Stages
  <1>1. Len(events) \in Nat /\ DOMAIN events = 1 .. Len(events) /\ \A n \in 1 .. Len(events) : events[n] \in Event
    OBVIOUS
  <1>2. \A n \in 1 .. Len(events) : events[n].stage \in Stages
    BY <1>1 DEF Event
  <1>3. StagesOf(events) = [n \in 1 .. Len(events) |-> events[n].stage]
    BY <1>1 DEF StagesOf
  <1>4. StagesOf(events) \in Seq(Stages) /\ Len(StagesOf(events)) = Len(events)
    BY <1>1, <1>2, <1>3
  <1>5. StagesOf(events) = <<>> <=> events = <<>>
    BY <1>1, <1>4
  <1>6. Range(StagesOf(events)) = {events[n].stage : n \in 1 .. Len(events)}
    BY <1>3 DEF Range
  <1>7. QED
    BY <1>1, <1>2, <1>3, <1>4, <1>5, <1>6

\* The rung a history shows as its furthest: a rung of the ladder, in the history or the first.
LEMMA FurthestOf ==
  ASSUME NEW stages \in Seq(Stages), stages # <<>>
  PROVE  /\ Project(stages).current = stages[Len(stages)]
         /\ Project(stages).outcome = OutcomeOf(stages[Len(stages)])
         /\ Project(stages).furthest \in Range(Ladder)
         /\ Project(stages).furthest \in Range(stages) \cup {Applied}
         /\ \A stage \in Range(stages) \ Terminal : Rank(stage) <= Rank(Project(stages).furthest)
  <1> DEFINE reached == {Rank(stage) : stage \in Range(stages) \ Terminal} \cup {1}
             best == Max(reached)
  <1>1. \A stage \in Range(stages) \ Terminal : stage \in Range(Ladder)
    BY DEF Range, Stages
  <1>2. reached \in SUBSET (0 .. Len(Ladder)) /\ reached # {} /\ reached \subseteq DOMAIN Ladder
    BY <1>1, LadderType
  <1>3. best \in reached /\ \A m \in reached : m <= best
    <2> HIDE DEF reached
    <2>1. QED
      BY <1>2, MaxOf, LadderType
  <1>4. /\ Project(stages).current = stages[Len(stages)]
        /\ Project(stages).outcome = OutcomeOf(stages[Len(stages)])
        /\ Project(stages).furthest = Ladder[best]
    BY DEF Project, Last
  <1>5. best \in DOMAIN Ladder /\ Ladder[best] \in Range(Ladder)
    BY <1>2, <1>3 DEF Range
  <1>6. Ladder[best] \in Range(stages) \cup {Applied}
    <2>1. CASE best = 1
      BY <2>1 DEF Applied
    <2>2. CASE best # 1
      <3>1. PICK stage \in Range(stages) \ Terminal : best = Rank(stage)
        BY <1>3, <2>2
      <3>2. Ladder[best] = stage
        BY <1>1, <3>1, LadderType
      <3>3. QED
        BY <3>2
    <2>3. QED
      BY <2>1, <2>2
  <1>7. Rank(Ladder[best]) = best
    BY <1>5, LadderType, JobRowsAssumption DEF IsInjective
  <1>8. \A stage \in Range(stages) \ Terminal : Rank(stage) \in reached
    OBVIOUS
  <1> HIDE DEF best, reached
  <1>9. QED
    BY <1>3, <1>4, <1>5, <1>6, <1>7, <1>8

\* What replaying a history does to a row: the three columns follow, the others stay.
LEMMA ProjectedRow ==
  ASSUME NEW row \in Row, NEW events \in Seq(Event)
  PROVE  /\ Projected(row, events) \in Row
         /\ Projected(row, events).name = row.name /\ Projected(row, events).typed = row.typed
         /\ Projected(row, events).sub = row.sub /\ Projected(row, events).cat = row.cat
         /\ Projected(row, events).status = row.status
         /\ Shown(Projected(row, events)) = LET p == Project(StagesOf(events))
                                            IN  <<p.current, p.furthest, p.outcome>>
         /\ SoundEvents(events) => /\ HasBeen(Projected(row, events), events)
                                   /\ Projected(row, events).current = events[Len(events)].stage
  <1> DEFINE p == Project(StagesOf(events))
  <1>1. p.current \in Stages /\ p.furthest \in Range(Ladder) /\ p.outcome \in Terminal \cup {Offer, "open"}
    <2>1. CASE events = <<>>
      <3>1. p = [current |-> Applied, outcome |-> "open", furthest |-> Applied]
        BY <2>1, StagesType DEF Project
      <3>2. QED
        BY <3>1, LadderType
    <2>2. CASE events # <<>>
      <3>1. StagesOf(events) # <<>> /\ StagesOf(events) \in Seq(Stages)
        BY <2>2, StagesType
      <3>2. StagesOf(events)[Len(StagesOf(events))] \in Stages
        BY <3>1
      <3>3. QED
        BY <3>1, <3>2, FurthestOf DEF OutcomeOf
    <2>3. QED
      BY <2>1, <2>2
  <1>2. Projected(row, events) = [row EXCEPT !.current = p.current, !.furthest = p.furthest, !.outcome = p.outcome]
    BY DEF Projected
  <1>3. SoundEvents(events) => /\ p.current = events[Len(events)].stage
                               /\ p.current \in Range(StagesOf(events))
                               /\ p.furthest \in Range(StagesOf(events))
    <2>1. SUFFICES ASSUME SoundEvents(events)
                   PROVE  /\ p.current = events[Len(events)].stage
                          /\ p.current \in Range(StagesOf(events))
                          /\ p.furthest \in Range(StagesOf(events))
      OBVIOUS
    <2>2. events # <<>> /\ events[1].stage = Applied /\ Len(events) \in 1 .. Len(events) /\ 1 \in 1 .. Len(events)
      BY <2>1, StagesType DEF SoundEvents
    <2>3. StagesOf(events) # <<>> /\ StagesOf(events) \in Seq(Stages) /\ Len(StagesOf(events)) = Len(events)
      BY <2>2, StagesType
    <2>4. /\ events[Len(events)].stage \in Range(StagesOf(events)) /\ Applied \in Range(StagesOf(events))
          /\ StagesOf(events)[Len(events)] = events[Len(events)].stage
      BY <2>2, StagesType
    <2>5. QED
      BY <2>3, <2>4, FurthestOf
  <1> HIDE DEF p
  <1>4. QED
    BY <1>1, <1>2, <1>3 DEF Row, Shown, HasBeen, p

---------------------------------------------------------------------------
\* Steps and the requests they are not about

\* What a step of c may do to the applications there were.
Evolves(c) ==
    /\ DOMAIN board \subseteq DOMAIN board'
    /\ \A a \in DOMAIN board : a \in Live' =>
           /\ a \in Live
           /\ Extends(history'[a], history[a])
           /\ c \notin By(history'[a]) /\ c \notin Rebuilders =>
                  history'[a] = history[a] /\ Shown(board'[a]) = Shown(board[a])

\* A step of c leaves the requests of the others as they were.
Keeps(c) ==
    \A d \in Clients \ {c} : /\ pc'[d] = pc[d] /\ target'[d] = target[d] /\ loaded'[d] = loaded[d]
                             /\ read'[d] = read[d] /\ asked'[d] = asked[d]

LEMMA ExtendsTypes ==
  ASSUME NEW events \in Seq(Event), NEW more \in Seq(Event), Extends(more, events)
  PROVE  /\ \A old \in Seq(Event) : Extends(events, old) => Extends(more, old)
         /\ Range(StagesOf(events)) \subseteq Range(StagesOf(more))
         /\ By(events) \subseteq By(more)
  <1>1. Len(events) \in Nat /\ Len(more) \in Nat /\ Len(events) <= Len(more)
    BY DEF Extends
  <1>2. \A n \in 1 .. Len(events) : n \in 1 .. Len(more) /\ more[n] = events[n]
    BY <1>1 DEF Extends
  <1>3. \A old \in Seq(Event) : Extends(events, old) => Extends(more, old)
    <2>1. SUFFICES ASSUME NEW old \in Seq(Event), Extends(events, old) PROVE Extends(more, old)
      OBVIOUS
    <2>2. Len(old) \in Nat /\ Len(old) <= Len(events) /\ \A n \in 1 .. Len(old) : events[n] = old[n]
      BY <2>1 DEF Extends
    <2>3. \A n \in 1 .. Len(old) : n \in 1 .. Len(events)
      BY <1>1, <2>2
    <2>4. QED
      BY <1>1, <1>2, <2>2, <2>3 DEF Extends
  <1>4. /\ \A stage \in Range(StagesOf(events)) : \E n \in 1 .. Len(events) : stage = events[n].stage
        /\ \A n \in 1 .. Len(more) : more[n].stage \in Range(StagesOf(more))
    BY StagesType DEF Range
  <1>5. /\ \A d \in By(events) : \E n \in 1 .. Len(events) : d = events[n].by
        /\ \A n \in 1 .. Len(more) : more[n].by \in By(more)
    BY DEF By, Range
  <1>6. QED
    BY <1>2, <1>3, <1>4, <1>5

LEMMA LiveRows ==
  ASSUME Applications
  PROVE  /\ DOMAIN board = 1 .. Len(board) /\ Len(board) \in Nat
         /\ DOMAIN history = 1 .. Len(board) /\ Len(history) = Len(board)
         /\ Live \subseteq DOMAIN board
         /\ \A a \in DOMAIN board : history[a] \in Seq(Event) /\ board[a] \in Row \cup {Gone}
         /\ \A a \in Live : board[a] \in Row
  BY DEF Applications, Live, Healthy

\* Nothing a request relies on is changed by the step of another client.
LEMMA OthersCurrent ==
  ASSUME Applications, Applications', NEW c \in Clients, NEW d \in Clients \ {c},
         Evolves(c), Keeps(c), Current(d)
  PROVE  Current(d)'
  <1>1. /\ pc'[d] = pc[d] /\ target'[d] = target[d] /\ loaded'[d] = loaded[d]
        /\ read'[d] = read[d] /\ asked'[d] = asked[d]
    BY DEF Keeps
  <1>2. DOMAIN board \subseteq DOMAIN board'
    BY DEF Evolves
  <1>3. ASSUME NEW a \in DOMAIN board, a \in Live'
        PROVE  /\ a \in Live /\ Extends(history'[a], history[a])
               /\ history[a] \in Seq(Event) /\ history'[a] \in Seq(Event)
               /\ MovedBy(d, history'[a]) => history'[a] = history[a] /\ Shown(board'[a]) = Shown(board[a])
    <2>1. MovedBy(d, history'[a]) => c \notin By(history'[a]) /\ c \notin Rebuilders
      BY DEF MovedBy
    <2>2. history[a] \in Seq(Event) /\ history'[a] \in Seq(Event)
      BY <1>2, <1>3, LiveRows DEF Applications
    <2>3. QED
      BY <1>3, <2>1, <2>2 DEF Evolves
  <1>4. /\ pc[d] \in {"advance", "append"} /\ target[d] \in Live' /\ MovedBy(d, history'[target[d]])
              => Shown(loaded[d]) = Shown(board'[target[d]])
        /\ pc[d] = "append" /\ target[d] \in Live' => Extends(history'[target[d]], read[d])
    <2>1. ASSUME pc[d] \in {"advance", "append"}, target[d] \in Live', MovedBy(d, history'[target[d]])
          PROVE  Shown(loaded[d]) = Shown(board'[target[d]])
      BY <1>3, <2>1 DEF Current
    <2>2. ASSUME pc[d] = "append", target[d] \in Live'
          PROVE  Extends(history'[target[d]], read[d])
      <3>1. target[d] \in DOMAIN board /\ read[d] \in Seq(Event)
        BY <2>2 DEF Current
      <3>2. Extends(history[target[d]], read[d])
        BY <1>3, <2>2, <3>1 DEF Current
      <3>3. QED
        BY <1>3, <2>2, <3>1, <3>2, ExtendsTypes
    <2>3. QED
      BY <2>1, <2>2
  <1>5. ASSUME pc[d] \in {"rebuild", "rewrite"}, NEW a \in DOMAIN loaded[d], a \in Live', MovedBy(d, history'[a])
        PROVE  Shown(loaded[d][a]) = Shown(board'[a])
    <2>1. a \in DOMAIN board
      BY <1>5 DEF Current
    <2>2. QED
      BY <1>3, <1>5, <2>1 DEF Current
  <1>6. ASSUME pc[d] = "rewrite", NEW a \in DOMAIN loaded[d]
        PROVE  Rewritten(d, a)'
    <2>1. a \in DOMAIN board /\ Rewritten(d, a)
      BY <1>6 DEF Current
    <2>2. ASSUME a \in Live' PROVE HasBeen(read[d][a], history'[a])
      <3>1. HasBeen(read[d][a], history[a])
        BY <1>3, <2>1, <2>2 DEF Rewritten
      <3>2. QED
        BY <1>3, <2>1, <2>2, <3>1, ExtendsTypes DEF HasBeen
    <2>3. ASSUME a \in Live', MovedBy(d, history'[a]) PROVE Shows(read[d][a], history'[a])
      BY <1>3, <2>1, <2>3 DEF Rewritten
    <2>4. QED
      BY <1>1, <2>1, <2>2, <2>3 DEF Rewritten
  <1>7. QED
    BY <1>1, <1>2, <1>4, <1>5, <1>6 DEF Current

\* A step of one client keeps the invariant if it keeps what is said of the applications and of
\* its own request.
LEMMA StepKeeps ==
  ASSUME IInv, NEW c \in Clients, Frames', Keeps(c), Applications', OneIndex', Evolves(c), Current(c)'
  PROVE  IInv'
  <1>1. \A d \in Clients \ {c} : Current(d)'
    BY OthersCurrent DEF IInv
  <1>2. QED
    BY <1>1 DEF IInv

\* A step that writes nothing.
LEMMA QuietKeeps ==
  ASSUME IInv, NEW c \in Clients, Frames', Keeps(c), UNCHANGED <<board, history>>, Current(c)'
  PROVE  IInv'
  <1>1. Live' = Live
    BY DEF Live
  <1>2. Applications'
    BY <1>1 DEF IInv, Applications
  <1>3. OneIndex'
    BY <1>1 DEF IInv, OneIndex
  <1>4. \A a \in DOMAIN board : Extends(history[a], history[a])
    BY LiveRows DEF IInv, Extends
  <1>5. Evolves(c)
    BY <1>1, <1>4 DEF Evolves
  <1>6. QED
    BY <1>2, <1>3, <1>5, StepKeeps

LEMMA IdleCurrent ==
  ASSUME NEW c \in Clients, pc[c] = "idle"
  PROVE  Current(c)
  BY DEF Current

LEMMA Finished ==
  ASSUME Frames, NEW c \in Clients, Finish(c)
  PROVE  Frames' /\ Keeps(c) /\ Current(c)'
  <1>1. Frames' /\ Keeps(c)
    BY DEF Frames, Finish, Keeps, Labels
  <1>2. pc'[c] = "idle"
    BY DEF Frames, Finish
  <1>3. QED
    BY <1>1, <1>2 DEF Current

LEMMA Opened ==
  ASSUME Frames, NEW c \in Clients, NEW label \in Labels, NEW a, NEW row, NEW what, Open(c, label, a, row, what)
  PROVE  /\ Frames' /\ Keeps(c) /\ UNCHANGED <<board, history>>
         /\ pc'[c] = label /\ target'[c] = a /\ loaded'[c] = row /\ asked'[c] = what
  BY DEF Frames, Open, Keeps

---------------------------------------------------------------------------
\* The rows of a list

LEMMA MembersListed ==
  ASSUME NEW rows, rows \in Seq(Range(rows)), NEW S \in SUBSET DOMAIN rows
  PROVE  /\ DOMAIN rows = 1 .. Len(rows) /\ Len(rows) \in Nat
         /\ DOMAIN Ascending(S) = 1 .. Cardinality(S) /\ Cardinality(S) \in Nat
         /\ Ascending(S) \in Seq(S) /\ Len(Ascending(S)) = Cardinality(S)
         /\ \A n \in DOMAIN Ascending(S) : Ascending(S)[n] \in S
         /\ \A n, k \in DOMAIN Ascending(S) : Ascending(S)[n] = Ascending(S)[k] => n = k
  <1>1. DOMAIN rows = 1 .. Len(rows) /\ Len(rows) \in Nat
    OBVIOUS
  <1>2. IsFiniteSet(1 .. Len(rows))
    BY <1>1, FS_Interval
  <1>3. S \in SUBSET Nat /\ IsFiniteSet(S)
    BY <1>1, <1>2, FS_Subset
  <1>4. QED
    BY <1>1, <1>3, AscendingLists

LEMMA OwnRange ==
  ASSUME NEW f, NEW n \in Nat, f = [k \in 1 .. n |-> f[k]]
  PROVE  f \in Seq(Range(f)) /\ DOMAIN f = 1 .. n /\ Len(f) = n
  <1>1. DOMAIN f = 1 .. n
    OBVIOUS
  <1>2. \A k \in 1 .. n : f[k] \in Range(f)
    BY <1>1 DEF Range
  <1>3. QED
    BY <1>1, <1>2

LEMMA ListedParsed ==
  ASSUME NEW raws \in Pastes \cup {answer.rows : answer \in Answers}
  PROVE  Parsed(Listed(raws))
  <1> DEFINE cap == Min({MaxListed, Len(raws)})
             taken == SubSeq(raws, 1, cap)
             kept == {n \in DOMAIN taken : taken[n].named}
             named == Ascending(kept)
  <1>1. raws \in Seq(Range(raws)) /\ Len(raws) \in Nat /\ MaxListed \in Nat
    BY JobsAssumption, JobRowsAssumption
  <1>2. cap \in Nat /\ cap <= Len(raws)
    BY <1>1 DEF Min
  <1> HIDE DEF cap
  <1>3. Len(taken) = cap /\ DOMAIN taken = 1 .. cap /\ \A n \in 1 .. cap : taken[n] = raws[n]
    BY <1>1, <1>2
  <1>4. kept \in SUBSET Nat /\ kept \subseteq 1 .. cap /\ IsFiniteSet(kept)
    <2>1. kept \in SUBSET (1 .. cap) /\ 1 .. cap \subseteq Nat
      BY <1>2, <1>3
    <2>2. IsFiniteSet(1 .. cap)
      BY <1>2, FS_Interval
    <2> HIDE DEF kept
    <2>3. IsFiniteSet(kept)
      BY <2>1, <2>2, FS_Subset
    <2>4. QED
      BY <2>1, <2>3
  <1>5. DOMAIN named = 1 .. Cardinality(kept) /\ Cardinality(kept) \in Nat /\ \A n \in DOMAIN named : named[n] \in kept
    <2> HIDE DEF kept
    <2>1. QED
      BY <1>4, AscendingLists
  <1>6. Listed(raws) = [n \in 1 .. Cardinality(kept) |-> Cleaned(taken[named[n]])]
    BY <1>5 DEF Listed, cap
  <1>7. \A n \in 1 .. cap : taken[n].key \in PastedKeys
    <2>1. \A n \in 1 .. cap : raws[n] \in Range(raws)
      BY <1>1, <1>2 DEF Range
    <2>2. \A n \in 1 .. cap : raws[n].key \in {raw.key : raw \in Range(raws)}
      BY <2>1
    <2>3. {raw.key : raw \in Range(raws)} \subseteq PastedKeys
      BY DEF PastedKeys
    <2>4. QED
      BY <1>3, <2>2, <2>3
  <1> HIDE DEF kept, named, taken
  <1>8. \A n \in 1 .. Cardinality(kept) : /\ Listed(raws)[n].key \in PastedKeys
                                          /\ Listed(raws)[n].sub \in Subcategories
                                          /\ Listed(raws)[n].stage \in Stages
    <2>1. \A raw : Cleaned(raw).key = raw.key /\ Cleaned(raw).sub \in Subcategories /\ Cleaned(raw).stage \in Stages
      BY JobRowsAssumption, LadderType DEF Cleaned
    <2>2. \A n \in 1 .. Cardinality(kept) : /\ named[n] \in 1 .. cap
                                            /\ Listed(raws)[n] = Cleaned(taken[named[n]])
      BY <1>4, <1>5, <1>6
    <2>3. QED
      BY <1>7, <2>1, <2>2
  <1>9. Listed(raws) \in Seq(Range(Listed(raws))) /\ DOMAIN Listed(raws) = 1 .. Cardinality(kept)
    BY <1>5, <1>6, OwnRange
  <1>10. QED
    BY <1>8, <1>9 DEF Parsed

LEMMA ResearchedParsed ==
  ASSUME NEW rows, Parsed(rows), NEW tracked, NEW answer \in Answers
  PROVE  Parsed(Researched(rows, Candidates(rows, tracked), answer))
  <1> DEFINE chosen == Candidates(rows, tracked)
             found == Listed(answer.rows)
             out == Researched(rows, chosen, answer)
  <1>1. SUFFICES ASSUME answer.kind = "recorded", Len(found) = Len(chosen) PROVE Parsed(out)
    BY DEF Researched
  <1>2. /\ DOMAIN rows = 1 .. Len(rows) /\ Len(rows) \in Nat
        /\ DOMAIN chosen = 1 .. Len(chosen)
    BY MembersListed DEF Parsed, Candidates, FirstNew
  <1>3. Parsed(found) /\ DOMAIN found = DOMAIN chosen
    <2>1. Parsed(found)
      BY ListedParsed
    <2>2. QED
      BY <1>1, <1>2, <2>1 DEF Parsed
  <1>4. out = [n \in 1 .. Len(rows) |-> IF n \in Range(chosen)
                                        THEN Completed(rows[n], found[CHOOSE k \in DOMAIN chosen : chosen[k] = n])
                                        ELSE rows[n]]
    BY <1>1, <1>2 DEF Researched
  <1> HIDE DEF chosen, found, out
  <1>5. ASSUME NEW n \in 1 .. Len(rows)
        PROVE  out[n].key \in PastedKeys /\ out[n].sub \in Subcategories /\ out[n].stage \in Stages
    <2>1. CASE n \in Range(chosen)
      <3> DEFINE k == CHOOSE k \in DOMAIN chosen : chosen[k] = n
      <3>1. k \in DOMAIN found
        BY <1>3, <2>1 DEF Range
      <3>2. out[n] = Completed(rows[n], found[k])
        BY <1>4, <2>1
      <3> HIDE DEF k
      <3>3. QED
        BY <1>2, <1>3, <3>1, <3>2 DEF Parsed, Completed
    <2>2. CASE n \notin Range(chosen)
      BY <1>2, <1>4, <2>2 DEF Parsed
    <2>3. QED
      BY <2>1, <2>2
  <1>6. out \in Seq(Range(out)) /\ DOMAIN out = 1 .. Len(rows)
    <2> DEFINE at(n) == IF n \in Range(chosen)
                        THEN Completed(rows[n], found[CHOOSE k \in DOMAIN chosen : chosen[k] = n])
                        ELSE rows[n]
    <2>1. out = [n \in 1 .. Len(rows) |-> at(n)]
      BY <1>4
    <2> HIDE DEF at
    <2>2. out = [n \in 1 .. Len(rows) |-> out[n]]
      BY <2>1
    <2>3. QED
      BY <1>2, <2>2, OwnRange
  <1>7. QED
    BY <1>5, <1>6 DEF Parsed

---------------------------------------------------------------------------
\* The steps that write nothing

LEMMA InitHolds == Init => IInv
  <1> SUFFICES ASSUME Init PROVE IInv
    OBVIOUS
  <1>1. Frames
    BY DEF Init, Frames, Labels
  <1>2. Live = {} /\ DOMAIN board = {} /\ DOMAIN history = {} /\ Len(board) = 0
    BY DEF Init, Live
  <1>3. Applications
    BY <1>2, JobsAssumption DEF Init, Applications
  <1>4. OneIndex
    BY <1>2 DEF OneIndex
  <1>5. \A c \in Clients : Current(c)
    BY IdleCurrent DEF Init
  <1>6. QED
    BY <1>1, <1>3, <1>4, <1>5 DEF IInv

LEMMA OpenCreateStep ==
  ASSUME IInv, NEW c \in Clients, NEW entry \in Entries, OpenCreate(c, entry)
  PROVE  IInv'
  <1>1. Frames' /\ Keeps(c) /\ UNCHANGED <<board, history>> /\ pc'[c] = "create" /\ asked'[c] = entry
    BY Opened DEF OpenCreate, IInv, Labels
  <1>2. Current(c)'
    BY <1>1 DEF Current
  <1>3. QED
    BY <1>1, <1>2, QuietKeeps

LEMMA OpenImportStep ==
  ASSUME IInv, NEW c \in Clients, NEW raws \in Pastes, OpenImport(c, raws)
  PROVE  IInv'
  <1>1. /\ Frames' /\ Keeps(c) /\ UNCHANGED <<board, history>> /\ pc'[c] = "research"
        /\ asked'[c] = [rows |-> Listed(raws)]
    BY Opened DEF OpenImport, IInv, Labels
  <1>2. Parsed(Listed(raws))
    BY ListedParsed
  <1>3. Current(c)'
    BY <1>1, <1>2 DEF Current
  <1>4. QED
    BY <1>1, <1>3, QuietKeeps

LEMMA ResearchStep ==
  ASSUME IInv, NEW c \in Clients, NEW answer \in Answers, Research(c, answer)
  PROVE  IInv'
  <1> DEFINE rows == asked[c].rows
             chosen == Candidates(rows, loaded[c].tracked)
             out == IF chosen = <<>> THEN rows ELSE Researched(rows, chosen, answer)
  <1>1. Parsed(rows) /\ asked[c] = [rows |-> rows]
    BY DEF IInv, Current, Research
  <1>2. /\ pc' = [pc EXCEPT ![c] = "ingest"] /\ asked' = [asked EXCEPT ![c].rows = out]
        /\ UNCHANGED <<board, history, target, loaded, read>>
    BY DEF Research
  <1>3. Parsed(out)
    BY <1>1, ResearchedParsed
  <1> HIDE DEF out, rows
  <1>4. pc'[c] = "ingest" /\ asked'[c] = [rows |-> out] /\ Frames' /\ Keeps(c)
    BY <1>1, <1>2 DEF IInv, Frames, Keeps, Labels
  <1>5. Current(c)'
    BY <1>3, <1>4 DEF Current
  <1>6. QED
    BY <1>2, <1>4, <1>5, QuietKeeps

LEMMA OpenAdvanceStep ==
  ASSUME IInv, NEW c \in Clients, NEW a \in DOMAIN board, NEW stage \in Moves, OpenAdvance(c, a, stage)
  PROVE  IInv'
  <1>1. /\ Frames' /\ Keeps(c) /\ UNCHANGED <<board, history>> /\ pc'[c] = "advance"
        /\ target'[c] = a /\ loaded'[c] = board[a] /\ asked'[c] = [stage |-> stage]
    BY Opened DEF OpenAdvance, IInv, Labels
  <1>2. board[a] \in Row /\ stage \in Stages
    BY LiveRows, JobsAssumption DEF OpenAdvance, IInv
  <1>3. Current(c)'
    BY <1>1, <1>2 DEF Current
  <1>4. QED
    BY <1>1, <1>3, QuietKeeps

LEMMA OpenClassifyStep ==
  ASSUME IInv, NEW c \in Clients, NEW a \in DOMAIN board, NEW sub \in Tags, OpenClassify(c, a, sub)
  PROVE  IInv'
  <1>1. /\ Frames' /\ Keeps(c) /\ UNCHANGED <<board, history>> /\ pc'[c] = "classify"
        /\ target'[c] = a /\ loaded'[c] = board[a] /\ asked'[c] = [sub |-> sub]
    BY Opened DEF OpenClassify, IInv, Labels
  <1>2. board[a] \in Row /\ sub \in Subcategories
    BY LiveRows, JobsAssumption DEF OpenClassify, IInv
  <1>3. Current(c)'
    BY <1>1, <1>2 DEF Current
  <1>4. QED
    BY <1>1, <1>3, QuietKeeps

LEMMA OpenDeleteStep ==
  ASSUME IInv, NEW c \in Clients, NEW a \in DOMAIN board, OpenDelete(c, a)
  PROVE  IInv'
  <1>1. /\ Frames' /\ Keeps(c) /\ pc'[c] = "delete" /\ target'[c] = a /\ read'[c] = history[a]
    BY DEF OpenDelete, IInv, Frames, Keeps, Labels
  <1>2. UNCHANGED <<board, history>> /\ history[a] \in Seq(Event)
    BY LiveRows DEF OpenDelete, IInv
  <1>3. Current(c)'
    BY <1>1, <1>2 DEF Current
  <1>4. QED
    BY <1>1, <1>2, <1>3, QuietKeeps

\* The stage that is asked for is not the last of the events that are kept for the append.
LEMMA ReadHistoryStep ==
  ASSUME IInv, NEW c \in Clients, ReadHistory(c)
  PROVE  IInv'
  <1> DEFINE events == history[target[c]]
  <1>1. pc[c] = "advance" /\ UNCHANGED <<board, history>> /\ Frames /\ Applications /\ Current(c)
    BY DEF ReadHistory, IInv
  <1>2. CASE Finish(c)
    BY <1>1, <1>2, Finished, QuietKeeps
  <1>3. CASE ~Finish(c)
    <2>1. /\ ~(events # <<>> /\ Last(events).stage = asked[c].stage)
          /\ pc' = [pc EXCEPT ![c] = "append"] /\ read' = [read EXCEPT ![c] = events]
          /\ UNCHANGED <<target, loaded, asked>>
      BY <1>3 DEF ReadHistory
    <2>2. Frames' /\ Keeps(c) /\ pc'[c] = "append" /\ read'[c] = events
      BY <1>1, <2>1 DEF Frames, Keeps, Labels
    <2>3. events \in Seq(Event) /\ Extends(events, events)
      BY <1>1, LiveRows DEF Current, Extends
    <2>4. events # <<>> => events[Len(events)].stage # asked[c].stage
      BY <2>1 DEF Last
    <2>5. Live' = Live
      BY <1>1 DEF Live
    <2> HIDE DEF events
    <2>6. Current(c)'
      BY <1>1, <2>1, <2>2, <2>3, <2>4, <2>5 DEF Current, events
    <2>7. QED
      BY <1>1, <2>2, <2>6, QuietKeeps
  <1>4. QED
    BY <1>2, <1>3

LEMMA OpenRebuildStep ==
  ASSUME IInv, NEW c \in Clients, OpenRebuild(c)
  PROVE  IInv'
  <1>1. /\ Frames' /\ Keeps(c) /\ UNCHANGED <<board, history>> /\ pc'[c] = "rebuild"
        /\ loaded'[c] = [a \in Live |-> board[a]]
    BY Opened DEF OpenRebuild, IInv, Labels
  <1>2. c \in Rebuilders /\ Live \subseteq DOMAIN board /\ \A a \in Live : board[a] \in Row
    BY LiveRows DEF OpenRebuild, IInv
  <1>3. Live' = Live
    BY <1>1 DEF Live
  <1>4. Current(c)'
    BY <1>1, <1>2, <1>3 DEF Current
  <1>5. QED
    BY <1>1, <1>4, QuietKeeps

LEMMA ReadAllStep ==
  ASSUME IInv, NEW c \in Clients, ReadAll(c)
  PROVE  IInv'
  <1> DEFINE replayed == [a \in DOMAIN loaded[c] |-> Projected(loaded[c][a], history[a])]
  <1>1. pc[c] = "rebuild" /\ UNCHANGED <<board, history>> /\ Frames /\ Applications /\ Current(c)
    BY DEF ReadAll, IInv
  <1>2. CASE Finish(c)
    BY <1>1, <1>2, Finished, QuietKeeps
  <1>3. CASE ~Finish(c)
    <2>1. /\ pc' = [pc EXCEPT ![c] = "rewrite"] /\ read' = [read EXCEPT ![c] = replayed]
          /\ UNCHANGED <<target, loaded, asked>>
      BY <1>3 DEF ReadAll
    <2>2. Frames' /\ Keeps(c) /\ pc'[c] = "rewrite" /\ read'[c] = replayed /\ loaded'[c] = loaded[c]
      BY <1>1, <2>1 DEF Frames, Keeps, Labels
    <2>3. Live' = Live
      BY <1>1 DEF Live
    <2>4. ASSUME NEW a \in DOMAIN loaded[c]
          PROVE  Rewritten(c, a)'
      <3>1. loaded[c][a] \in Row /\ history[a] \in Seq(Event)
        BY <1>1, <2>4, LiveRows DEF Current
      <3>2. read'[c][a] = Projected(loaded[c][a], history[a])
        BY <2>2, <2>4
      <3>3. /\ Projected(loaded[c][a], history[a]) \in Row
            /\ Projected(loaded[c][a], history[a]).name = loaded[c][a].name
            /\ Projected(loaded[c][a], history[a]).typed = loaded[c][a].typed
            /\ a \in Live => HasBeen(Projected(loaded[c][a], history[a]), history[a])
        BY <1>1, <3>1, ProjectedRow DEF Applications, Healthy
      <3>4. Shows(Projected(loaded[c][a], history[a]), history[a])
        BY <3>1, <3>3, ProjectedRow DEF Shows
      <3>5. QED
        BY <1>1, <2>1, <2>3, <3>2, <3>3, <3>4 DEF Rewritten
    <2>5. DOMAIN read'[c] = DOMAIN loaded'[c]
      BY <2>2
    <2>6. Current(c)'
      BY <1>1, <2>1, <2>2, <2>3, <2>4, <2>5 DEF Current
    <2>7. QED
      BY <1>1, <2>2, <2>6, QuietKeeps
  <1>4. QED
    BY <1>2, <1>3

LEMMA FailStep ==
  ASSUME IInv, NEW c \in Clients, Fail(c)
  PROVE  IInv'
  BY Finished, QuietKeeps DEF Fail, IInv

---------------------------------------------------------------------------
\* What a row becomes

LEMMA OneProjection ==
  ASSUME NEW row \in Row, NEW other \in Row, NEW events \in Seq(Event)
  PROVE  Shown(Projected(row, events)) = Shown(Projected(other, events))
  BY ProjectedRow

LEMMA ShownAlike ==
  ASSUME NEW row \in Row, NEW other \in Row, NEW events \in Seq(Event), SoundEvents(events)
  PROVE  /\ Shows(Projected(row, events), events)
         /\ Shown(other) = Shown(Projected(row, events)) <=> Shows(other, events)
  <1>1. /\ Projected(row, events) \in Row
        /\ Shown(Projected(row, events)) = Shown(Projected(other, events))
    BY ProjectedRow
  <1>2. Shown(Projected(Projected(row, events), events)) = Shown(Projected(row, events))
    BY <1>1, ProjectedRow
  <1>3. QED
    BY <1>1, <1>2 DEF Shows

LEMMA FirstEventsSound ==
  ASSUME NEW c \in Clients, NEW stage \in Stages
  PROVE  FirstEvents(c, stage) \in Seq(Event) /\ Len(FirstEvents(c, stage)) <= MaxEvents
         /\ SoundEvents(FirstEvents(c, stage))
  <1> DEFINE one == [stage |-> Applied, by |-> c]
             two == [stage |-> stage, by |-> c]
  <1>1. one \in Event /\ two \in Event /\ MaxEvents \in Nat /\ MaxEvents >= 2
    BY LadderType, JobsAssumption DEF Event
  <1>2. CASE stage = Applied
    <2>1. FirstEvents(c, stage) = <<one>>
      BY <1>2 DEF FirstEvents
    <2>2. QED
      BY <1>1, <2>1 DEF SoundEvents
  <1>3. CASE stage # Applied
    <2>1. FirstEvents(c, stage) = <<one>> \o <<two>>
      BY <1>3 DEF FirstEvents
    <2>2. one.stage = Applied /\ two.stage # Applied
      BY <1>3
    <2> DEFINE both == <<one>> \o <<two>>
    <2> HIDE DEF one, two
    <2>3. both \in Seq(Event) /\ Len(both) = 2 /\ both[1] = one /\ both[2] = two
      BY <1>1
    <2> HIDE DEF both
    <2>4. SoundEvents(both)
      <3>1. both # <<>> /\ \A n \in 2 .. Len(both) : n = 2 /\ n - 1 = 1
        BY <2>3
      <3>2. both[2].stage # both[1].stage /\ both[1].stage = Applied
        BY <2>2, <2>3
      <3>3. QED
        BY <3>1, <3>2 DEF SoundEvents
    <2>5. QED
      BY <1>1, <2>1, <2>3, <2>4 DEF both
  <1>4. QED
    BY <1>2, <1>3

\* A row is healthy from the start, under the name it is given.
Starts(c, name, row, stage) == Healthy(row, FirstEvents(c, stage)) /\ row.name = name

LEMMA InsertedHealthy ==
  ASSUME NEW c \in Clients, NEW name \in RowNames, NEW sub \in Subcategories \cup {Untagged}, NEW sure,
         NEW stage \in Stages
  PROVE  /\ Starts(c, name, Inserted(c, name, sub, sure, stage, TRUE), stage)
         /\ ~name.spaced => Starts(c, name, Inserted(c, name, sub, sure, stage, FALSE), stage)
  <1> SUFFICES ASSUME NEW typed \in BOOLEAN, name.spaced => typed
               PROVE  Starts(c, name, Inserted(c, name, sub, sure, stage, typed), stage)
    OBVIOUS
  <1> DEFINE events == FirstEvents(c, stage)
             blank == [name |-> name, typed |-> typed, sub |-> sub,
                       cat |-> IF sub = Untagged THEN Untagged ELSE CategoryOf[sub],
                       status |-> IF sub # Untagged /\ sure THEN "tracked" ELSE "pending_classification",
                       current |-> Applied, furthest |-> Applied, outcome |-> "open"]
             row == Inserted(c, name, sub, sure, stage, typed)
  <1>1. events \in Seq(Event) /\ Len(events) <= MaxEvents /\ SoundEvents(events)
    BY FirstEventsSound
  <1>2. blank \in Row /\ blank.name = name /\ blank.typed = typed
    <2>1. (IF sub = Untagged THEN Untagged ELSE CategoryOf[sub]) \in Range(CategoryOf) \cup {Untagged}
      BY JobRowsAssumption DEF Range
    <2>2. QED
      BY <2>1, LadderType DEF Row
  <1>3. row = Projected(blank, events)
    BY DEF Inserted
  <1> HIDE DEF blank, row, events
  <1>4. row \in Row /\ row.name = name /\ row.typed = typed /\ HasBeen(row, events)
    BY <1>1, <1>2, <1>3, ProjectedRow
  <1>5. Shows(row, events)
    BY <1>1, <1>2, <1>3, ShownAlike
  <1>6. Healthy(row, events)
    BY <1>1, <1>4, <1>5 DEF Healthy
  <1>7. QED
    BY <1>4, <1>6 DEF Starts, row, events

LEMMA Updated ==
  ASSUME NEW row \in Row, NEW old \in Row, NEW new \in Row
  PROVE  /\ Update(row, old, new) \in Row
         /\ new.name = old.name => Update(row, old, new).name = row.name
         /\ new.typed = old.typed => Update(row, old, new).typed = row.typed
         /\ Update(row, old, new).current \in {row.current, new.current}
         /\ Update(row, old, new).furthest \in {row.furthest, new.furthest}
         /\ Shown(old) = Shown(row) => Shown(Update(row, old, new)) = Shown(new)
         /\ Shown(old) = Shown(new) => Shown(Update(row, old, new)) = Shown(row)
  <1>1. DOMAIN row = {"name", "typed", "sub", "cat", "status", "current", "furthest", "outcome"}
    BY DEF Row
  <1> DEFINE out == Update(row, old, new)
  <1>2. /\ DOMAIN out = DOMAIN row
        /\ out = [column \in DOMAIN row |-> out[column]]
        /\ \A column \in DOMAIN row : out[column] = IF new[column] # old[column] THEN new[column] ELSE row[column]
    BY DEF Update
  <1> HIDE DEF out
  <1>3. /\ out.name = (IF new.name # old.name THEN new.name ELSE row.name)
        /\ out.typed = (IF new.typed # old.typed THEN new.typed ELSE row.typed)
        /\ out.sub = (IF new.sub # old.sub THEN new.sub ELSE row.sub)
        /\ out.cat = (IF new.cat # old.cat THEN new.cat ELSE row.cat)
        /\ out.status = (IF new.status # old.status THEN new.status ELSE row.status)
        /\ out.current = (IF new.current # old.current THEN new.current ELSE row.current)
        /\ out.furthest = (IF new.furthest # old.furthest THEN new.furthest ELSE row.furthest)
        /\ out.outcome = (IF new.outcome # old.outcome THEN new.outcome ELSE row.outcome)
    BY <1>1, <1>2
  <1>4. out = [name |-> out.name, typed |-> out.typed, sub |-> out.sub, cat |-> out.cat, status |-> out.status,
               current |-> out.current, furthest |-> out.furthest, outcome |-> out.outcome]
    BY <1>1, <1>2
  <1>5. out \in Row
    BY <1>3, <1>4 DEF Row
  <1>6. QED
    BY <1>3, <1>5 DEF Shown, out

---------------------------------------------------------------------------
\* The steps that write

LEMMA Joined ==
  ASSUME NEW T, NEW s \in Seq(T), NEW t \in Seq(T)
  PROVE  /\ s \o t \in Seq(T) /\ Len(s \o t) = Len(s) + Len(t) /\ DOMAIN (s \o t) = 1 .. Len(s) + Len(t)
         /\ \A n \in 1 .. Len(s) : (s \o t)[n] = s[n]
         /\ \A n \in 1 .. Len(t) : (s \o t)[Len(s) + n] = t[n]
         /\ Len(s) \in Nat /\ Len(t) \in Nat
         /\ \A n \in DOMAIN (s \o t) : n \in 1 .. Len(s) \/ \E k \in 1 .. Len(t) : n = Len(s) + k
  <1>1. \A n \in 1 .. Len(s) + Len(t) : n \in 1 .. Len(s) \/ (n - Len(s) \in 1 .. Len(t) /\ n = Len(s) + (n - Len(s)))
    OBVIOUS
  <1>2. \A n \in 1 .. Len(s) + Len(t) : n \in 1 .. Len(s) \/ \E k \in 1 .. Len(t) : n = Len(s) + k
    BY <1>1
  <1>3. /\ s \o t \in Seq(T) /\ Len(s \o t) = Len(s) + Len(t) /\ DOMAIN (s \o t) = 1 .. Len(s) + Len(t)
        /\ Len(s) \in Nat /\ Len(t) \in Nat
    OBVIOUS
  <1>4. \A n \in 1 .. Len(s) : (s \o t)[n] = s[n]
    OBVIOUS
  <1>5. \A n \in 1 .. Len(t) : (s \o t)[Len(s) + n] = t[n]
    OBVIOUS
  <1>6. QED
    BY <1>2, <1>3, <1>4, <1>5

LEMMA AppendJoins ==
  ASSUME NEW T, NEW s \in Seq(T), NEW e \in T
  PROVE  Append(s, e) = s \o <<e>> /\ <<e>> \in Seq(T) /\ Len(<<e>>) = 1
  OBVIOUS

\* Healthy rows under new names, added at the end of the board.
LEMMA AddedKeeps ==
  ASSUME IInv, NEW c \in Clients, Finish(c),
         NEW rows \in Seq(Row), NEW events \in Seq(Seq(Event)), Len(events) = Len(rows),
         board' = board \o rows, history' = history \o events, Len(board) + Len(rows) <= MaxRows,
         \A n \in 1 .. Len(rows) : Healthy(rows[n], events[n]),
         \A n \in 1 .. Len(rows), a \in Live : Index(rows[n].name) # Index(board[a].name),
         \A n, k \in 1 .. Len(rows) : Index(rows[n].name) = Index(rows[k].name) => n = k
  PROVE  IInv'
  <1> DEFINE L == Len(board)
  <1>1. Frames /\ Applications /\ OneIndex
    BY DEF IInv
  <1>2. /\ DOMAIN board = 1 .. L /\ L \in Nat /\ DOMAIN history = 1 .. L /\ Len(history) = L
        /\ board \in Seq(Row \cup {Gone}) /\ history \in Seq(Seq(Event)) /\ Len(rows) \in Nat
    BY <1>1, LiveRows DEF Applications
  <1>3. /\ board' \in Seq(Row \cup {Gone}) /\ Len(board') = L + Len(rows) /\ DOMAIN board' = 1 .. L + Len(rows)
        /\ \A a \in 1 .. L : board'[a] = board[a]
        /\ \A n \in 1 .. Len(rows) : board'[L + n] = rows[n]
    <2>1. rows \in Seq(Row \cup {Gone})
      OBVIOUS
    <2>2. QED
      BY <1>2, <2>1, Joined
  <1>4. /\ history' \in Seq(Seq(Event)) /\ DOMAIN history' = 1 .. L + Len(rows)
        /\ \A a \in 1 .. L : history'[a] = history[a]
        /\ \A n \in 1 .. Len(rows) : history'[L + n] = events[n]
    <2> DEFINE joined == history \o events
    <2>1. history \in Seq(Seq(Event)) /\ events \in Seq(Seq(Event))
      BY <1>2
    <2>2. /\ joined \in Seq(Seq(Event)) /\ DOMAIN joined = 1 .. Len(history) + Len(events)
          /\ \A a \in 1 .. Len(history) : joined[a] = history[a]
          /\ \A n \in 1 .. Len(events) : joined[Len(history) + n] = events[n]
      BY ONLY <2>1, Joined
    <2>3. history' = joined
      OBVIOUS
    <2> HIDE DEF joined
    <2>4. QED
      BY <1>2, <2>2, <2>3
  <1>5. \A a \in DOMAIN board' : a \in DOMAIN board \/ \E n \in 1 .. Len(rows) : a = L + n
    <2>1. rows \in Seq(Row \cup {Gone})
      OBVIOUS
    <2>2. QED
      BY <1>2, <2>1, Joined
  <1> HIDE DEF L
  <1>6. \A n \in 1 .. Len(rows) : rows[n] \in Row /\ rows[n] # Gone /\ L + n \notin DOMAIN board
    <2>1. \A n \in 1 .. Len(rows) : rows[n] \in Row
      OBVIOUS
    <2>2. Gone \notin Row
      BY DEF Gone, Row
    <2>3. QED
      BY <1>2, <2>1, <2>2
  <1>7. \A a \in DOMAIN board : (a \in Live' <=> a \in Live) /\ board'[a] = board[a] /\ history'[a] = history[a]
    BY <1>2, <1>3, <1>4 DEF Live
  <1>8. \A a \in Live' : Healthy(board'[a], history'[a])
    <2>1. SUFFICES ASSUME NEW a \in Live' PROVE Healthy(board'[a], history'[a])
      OBVIOUS
    <2>2. a \in DOMAIN board'
      BY DEF Live
    <2>3. CASE a \in DOMAIN board
      BY <1>1, <1>7, <2>1, <2>3 DEF Applications
    <2>4. CASE a \notin DOMAIN board
      <3>1. PICK n \in 1 .. Len(rows) : a = L + n
        BY <1>5, <2>2, <2>4
      <3>2. board'[a] = rows[n] /\ history'[a] = events[n]
        BY <1>3, <1>4, <3>1
      <3>3. QED
        BY <3>2
    <2>5. QED
      BY <2>3, <2>4
  <1>9. \A a \in DOMAIN board' \ Live' : history'[a] = <<>>
    <2>1. \A n \in 1 .. Len(rows) : L + n \in DOMAIN board' => L + n \in Live'
      BY <1>3, <1>6 DEF Live
    <2>2. QED
      BY <1>1, <1>5, <1>7, <2>1 DEF Applications
  <1>10. Applications'
    BY <1>3, <1>4, <1>8, <1>9, <1>2 DEF Applications, L
  <1>11. OneIndex'
    <2>1. SUFFICES ASSUME NEW a \in Live', NEW b \in Live', Index(board'[a].name) = Index(board'[b].name)
                   PROVE  a = b
      BY DEF OneIndex, Index
    <2>2. a \in DOMAIN board' /\ b \in DOMAIN board'
      BY DEF Live
    <2>3. CASE a \in DOMAIN board /\ b \in DOMAIN board
      BY <1>1, <1>7, <2>1, <2>3 DEF OneIndex
    <2>4. CASE a \in DOMAIN board /\ b \notin DOMAIN board
      <3>1. PICK n \in 1 .. Len(rows) : b = L + n
        BY <1>5, <2>2, <2>4
      <3>2. board'[b] = rows[n] /\ board'[a] = board[a] /\ a \in Live
        BY <1>3, <1>7, <2>4, <3>1
      <3>3. QED
        BY <2>1, <3>2
    <2>5. CASE a \notin DOMAIN board /\ b \in DOMAIN board
      <3>1. PICK n \in 1 .. Len(rows) : a = L + n
        BY <1>5, <2>2, <2>5
      <3>2. board'[a] = rows[n] /\ board'[b] = board[b] /\ b \in Live
        BY <1>3, <1>7, <2>5, <3>1
      <3>3. QED
        BY <2>1, <3>2
    <2>6. CASE a \notin DOMAIN board /\ b \notin DOMAIN board
      <3>1. PICK n \in 1 .. Len(rows) : a = L + n
        BY <1>5, <2>2, <2>6
      <3>2. PICK k \in 1 .. Len(rows) : b = L + k
        BY <1>5, <2>2, <2>6
      <3>3. board'[a] = rows[n] /\ board'[b] = rows[k]
        BY <1>3, <3>1, <3>2
      <3>4. QED
        BY <2>1, <3>1, <3>2, <3>3
    <2>7. QED
      BY <2>3, <2>4, <2>5, <2>6
  <1>12. Evolves(c)
    <2>1. \A a \in DOMAIN board : Extends(history[a], history[a])
      BY <1>1, LiveRows DEF Extends
    <2>2. DOMAIN board \subseteq DOMAIN board'
      BY <1>2, <1>3
    <2>3. QED
      BY <1>7, <2>1, <2>2 DEF Evolves
  <1>13. QED
    BY <1>1, <1>10, <1>11, <1>12, Finished, StepKeeps

\* Rows that are replaced by healthy ones of the same name.
LEMMA ChangedKeeps ==
  ASSUME IInv, NEW c \in Clients, Finish(c), Evolves(c), Live' = Live,
         DOMAIN board' = DOMAIN board, board' = [a \in DOMAIN board |-> board'[a]],
         DOMAIN history' = DOMAIN board, history' = [a \in DOMAIN board |-> history'[a]],
         \A a \in Live : Healthy(board'[a], history'[a]) /\ board'[a].name = board[a].name,
         \A a \in DOMAIN board \ Live : board'[a] = board[a] /\ history'[a] = history[a]
  PROVE  IInv'
  <1>1. Frames /\ Applications /\ OneIndex
    BY DEF IInv
  <1>2. DOMAIN board = 1 .. Len(board) /\ Len(board) \in Nat /\ Len(board) <= MaxRows
    BY <1>1, LiveRows DEF Applications
  <1>3. \A a \in DOMAIN board : board'[a] \in Row \cup {Gone} /\ history'[a] \in Seq(Event)
    BY <1>1, LiveRows DEF Healthy
  <1>4. /\ board' \in Seq(Row \cup {Gone}) /\ Len(board') = Len(board)
        /\ history' \in Seq(Seq(Event))
    BY <1>2, <1>3
  <1>5. Applications'
    BY <1>1, <1>2, <1>4 DEF Applications
  <1>6. OneIndex'
    BY <1>1 DEF OneIndex, Index
  <1>7. QED
    BY <1>1, <1>5, <1>6, Finished, StepKeeps

LEMMA WriteCreateStep ==
  ASSUME IInv, NEW c \in Clients, WriteCreate(c)
  PROVE  IInv'
  <1> DEFINE entry == asked[c]
             name == [key |-> entry.key, spaced |-> entry.spaced]
             row == Inserted(c, name, entry.sub, TRUE, entry.stage, TRUE)
             events == FirstEvents(c, entry.stage)
  <1>1. entry \in Entries /\ Applications
    BY DEF WriteCreate, IInv, Current
  <1>2. /\ Len(board) < MaxRows /\ Finish(c)
        /\ \A a \in Live : Index(board[a].name) # Index(name)
        /\ board' = Append(board, row) /\ history' = Append(history, events)
    BY DEF WriteCreate
  <1>3. /\ name \in RowNames /\ name.spaced \in BOOLEAN
        /\ entry.sub \in Subcategories \cup {Untagged} /\ entry.stage \in Stages
    BY <1>1, JobsAssumption DEF RowNames
  <1> HIDE DEF name, entry
  <1>4. Healthy(row, events) /\ row.name = name
    <2>1. Starts(c, name, Inserted(c, name, entry.sub, TRUE, entry.stage, TRUE), entry.stage)
      BY <1>3, InsertedHealthy, Zenon
    <2>2. QED
      BY <2>1 DEF Starts
  <1>5. row \in Row /\ events \in Seq(Event)
    BY <1>4 DEF Healthy
  <1> HIDE DEF row, events
  <1>6. board' = board \o <<row>> /\ history' = history \o <<events>> /\ Len(board) \in Nat
    <2>1. board \in Seq(Row \cup {Gone}) /\ history \in Seq(Seq(Event)) /\ row \in Row \cup {Gone}
      BY <1>1, <1>5 DEF Applications
    <2>2. Append(board, row) = board \o <<row>>
      BY ONLY <2>1, AppendJoins
    <2>3. Append(history, events) = history \o <<events>>
      BY ONLY <1>5, <2>1, AppendJoins
    <2>4. Len(board) \in Nat
      BY <2>1
    <2>5. QED
      BY <1>2, <2>2, <2>3, <2>4
  <1>7. <<row>> \in Seq(Row) /\ <<events>> \in Seq(Seq(Event)) /\ Len(<<row>>) = 1 /\ Len(<<events>>) = 1
    BY <1>5
  <1>8. Len(board) + Len(<<row>>) <= MaxRows
    BY <1>2, <1>6, <1>7, JobsAssumption
  <1>9. \A n \in 1 .. Len(<<row>>) : n = 1 /\ <<row>>[n] = row /\ <<events>>[n] = events
    BY <1>7
  <1>10. QED
    BY <1>2, <1>4, <1>6, <1>7, <1>8, <1>9, AddedKeeps

LEMMA WriteImportStep ==
  ASSUME IInv, NEW c \in Clients, WriteImport(c)
  PROVE  IInv'
  <1> DEFINE rows == asked[c].rows
             fresh == FirstNew(rows, loaded[c].tracked)
             added == Ascending(fresh)
             row(n) == Inserted(c, Imported(rows[n]), rows[n].sub, rows[n].sure, rows[n].stage, FALSE)
             new == [n \in DOMAIN added |-> row(added[n])]
             events == [n \in DOMAIN added |-> FirstEvents(c, rows[added[n]].stage)]
  <1>1. Parsed(rows) /\ Applications
    BY DEF WriteImport, IInv, Current
  <1>2. /\ Len(board) + Len(added) <= MaxRows /\ Finish(c)
        /\ \A n \in Range(added), a \in Live : Index(board[a].name) # Index(Imported(rows[n]))
        /\ board' = board \o new /\ history' = history \o events
    BY DEF WriteImport
  <1>3. /\ DOMAIN added = 1 .. Len(added) /\ Len(added) \in Nat
        /\ \A n \in DOMAIN added : added[n] \in fresh
        /\ \A n, k \in DOMAIN added : added[n] = added[k] => n = k
        /\ DOMAIN rows = 1 .. Len(rows) /\ Len(rows) \in Nat
    <2>1. fresh \in SUBSET DOMAIN rows
      BY DEF FirstNew
    <2> HIDE DEF fresh
    <2>2. QED
      BY <1>1, <2>1, MembersListed DEF Parsed
  <1>4. \A n, k \in fresh : rows[n].key = rows[k].key => n = k
    <2>1. SUFFICES ASSUME NEW n \in fresh, NEW k \in fresh, rows[n].key = rows[k].key PROVE n = k
      OBVIOUS
    <2>2. /\ n \in 1 .. Len(rows) /\ \A m \in 1 .. n - 1 : rows[m].key # rows[n].key
          /\ k \in 1 .. Len(rows) /\ \A m \in 1 .. k - 1 : rows[m].key # rows[k].key
      BY <1>3 DEF FirstNew
    <2>3. ~(n < k) /\ ~(k < n)
      BY <1>3, <2>1, <2>2
    <2>4. QED
      BY <1>3, <2>2, <2>3
  <1>5. \A n \in fresh : n \in DOMAIN rows
    BY DEF FirstNew
  <1> HIDE DEF fresh, added, rows
  <1>6. \A n \in fresh : Healthy(row(n), FirstEvents(c, rows[n].stage)) /\ row(n).name = Imported(rows[n])
    <2>1. SUFFICES ASSUME NEW n \in fresh
                   PROVE  Healthy(row(n), FirstEvents(c, rows[n].stage)) /\ row(n).name = Imported(rows[n])
      OBVIOUS
    <2>2. rows[n].key \in PastedKeys /\ rows[n].sub \in Subcategories /\ rows[n].stage \in Stages
      BY <1>1, <1>5 DEF Parsed
    <2>3. Imported(rows[n]) \in RowNames /\ Imported(rows[n]).spaced = FALSE
      BY <2>2 DEF Imported, RowNames, PastedKeys
    <2>4. Starts(c, Imported(rows[n]), row(n), rows[n].stage)
      BY <2>2, <2>3, InsertedHealthy, Zenon
    <2>5. QED
      BY <2>4 DEF Starts
  <1> HIDE DEF row
  <1>7. \A n \in 1 .. Len(added) : /\ new[n] = row(added[n]) /\ events[n] = FirstEvents(c, rows[added[n]].stage)
                                   /\ Healthy(new[n], events[n]) /\ new[n].name = Imported(rows[added[n]])
                                   /\ added[n] \in Range(added)
    BY <1>3, <1>6 DEF Range
  <1>8. \A n \in 1 .. Len(added) : new[n] \in Row /\ events[n] \in Seq(Event)
    BY <1>7 DEF Healthy
  <1>9. new \in Seq(Row) /\ Len(new) = Len(added) /\ events \in Seq(Seq(Event)) /\ Len(events) = Len(added)
    BY <1>3, <1>8
  <1> HIDE DEF new, events
  <1>10. \A n \in 1 .. Len(new), a \in Live : Index(new[n].name) # Index(board[a].name)
    BY <1>2, <1>7, <1>9
  <1>11. \A n, k \in 1 .. Len(new) : Index(new[n].name) = Index(new[k].name) => n = k
    <2>1. SUFFICES ASSUME NEW n \in 1 .. Len(added), NEW k \in 1 .. Len(added),
                          Index(new[n].name) = Index(new[k].name)
                   PROVE  n = k
      BY <1>9
    <2>2. Index(Imported(rows[added[n]])) = Index(Imported(rows[added[k]]))
      BY <1>7, <2>1
    <2>3. rows[added[n]].key = rows[added[k]].key
      BY <2>2 DEF Index, Imported
    <2>4. QED
      BY <1>3, <1>4, <2>3
  <1>12. QED
    BY <1>2, <1>7, <1>9, <1>10, <1>11, AddedKeeps

\* One more event, of another stage than the last, on the row as it was loaded.
LEMMA AppendEventStep ==
  ASSUME IInv, NEW c \in Clients, AppendEvent(c)
  PROVE  IInv'
  <1> DEFINE a == target[c]
             event == [stage |-> asked[c].stage, by |-> c]
             old == history[a]
             events == Append(old, event)
             told == Projected(loaded[c], events)
             row == Update(board[a], loaded[c], told)
  <1>1. Applications /\ Current(c) /\ pc[c] = "append" /\ a \in Live /\ a \in DOMAIN board
    BY LiveRows DEF IInv, AppendEvent, Live
  <1>2. /\ Len(old) = Len(read[c]) /\ Len(events) <= MaxEvents /\ Finish(c)
        /\ history' = [history EXCEPT ![a] = events] /\ board' = [board EXCEPT ![a] = row]
    BY DEF AppendEvent
  <1>3. Healthy(board[a], old) /\ old \in Seq(Event) /\ board[a] \in Row /\ SoundEvents(old)
    BY <1>1 DEF Applications, Healthy
  <1>4. loaded[c] \in Row /\ asked[c].stage \in Stages /\ read[c] \in Seq(Event) /\ Extends(old, read[c])
    BY <1>1 DEF Current
  <1>5. event \in Event
    BY <1>4 DEF Event
  <1>6. old[Len(old)].stage # event.stage
    <2>1. Len(old) \in 1 .. Len(old)
      BY <1>3 DEF SoundEvents
    <2>2. old[Len(old)] = read[c][Len(read[c])] /\ read[c] # <<>>
      BY <1>2, <1>3, <1>4, <2>1 DEF Extends, SoundEvents
    <2>3. QED
      BY <1>1, <2>2 DEF Current
  <1> HIDE DEF event, old
  <1>7. /\ events \in Seq(Event) /\ Len(events) = Len(old) + 1 /\ Len(old) \in Nat \ {0}
        /\ events[Len(old) + 1] = event /\ \A n \in 1 .. Len(old) : events[n] = old[n]
    BY <1>3, <1>5 DEF SoundEvents
  <1> HIDE DEF events
  <1>8. SoundEvents(events) /\ Extends(events, old) /\ c \in By(events)
    <2>1. events # <<>> /\ events[1].stage = Applied
      BY <1>3, <1>7 DEF SoundEvents
    <2>2. ASSUME NEW n \in 2 .. Len(events) PROVE events[n].stage # events[n - 1].stage
      <3>1. CASE n = Len(old) + 1
        BY <1>6, <1>7, <3>1
      <3>2. CASE n # Len(old) + 1
        <4>1. n \in 2 .. Len(old) /\ n - 1 \in 1 .. Len(old) /\ n \in 1 .. Len(old)
          BY <1>7, <3>2
        <4>2. old[n].stage # old[n - 1].stage
          BY <1>3, <4>1 DEF SoundEvents
        <4>3. QED
          BY <1>7, <4>1, <4>2
      <3>3. QED
        BY <3>1, <3>2
    <2>3. Extends(events, old)
      BY <1>7 DEF Extends
    <2>4. c \in By(events)
      BY <1>7 DEF By, Range, event
    <2>5. QED
      BY <2>1, <2>2, <2>3, <2>4 DEF SoundEvents
  <1>9. /\ told \in Row /\ HasBeen(told, events) /\ told.name = loaded[c].name /\ told.typed = loaded[c].typed
        /\ Shows(told, events)
    BY <1>4, <1>7, <1>8, ProjectedRow, ShownAlike
  <1> HIDE DEF told
  <1>10. /\ row \in Row /\ row.name = board[a].name /\ row.typed = board[a].typed
         /\ row.current \in {board[a].current, told.current}
         /\ row.furthest \in {board[a].furthest, told.furthest}
         /\ Shown(loaded[c]) = Shown(board[a]) => Shown(row) = Shown(told)
    BY <1>3, <1>4, <1>9, Updated
  <1> HIDE DEF row
  <1>11. Range(StagesOf(old)) \subseteq Range(StagesOf(events)) /\ By(old) \subseteq By(events)
    BY <1>3, <1>7, <1>8, ExtendsTypes
  <1>12. HasBeen(row, events)
    BY <1>3, <1>9, <1>10, <1>11 DEF HasBeen, Healthy
  <1>13. ASSUME NEW d \in Clients, MovedBy(d, events) PROVE Shows(row, events)
    <2>1. d = c /\ MovedBy(c, old)
      BY <1>8, <1>11, <1>13 DEF MovedBy
    <2>2. Shown(row) = Shown(told)
      BY <1>1, <1>10, <2>1 DEF Current, old
    <2>3. QED
      BY <1>7, <1>8, <1>9, <1>10, <2>2, ShownAlike DEF Shows, ProjectedRow
  <1>14. Healthy(row, events)
    BY <1>2, <1>3, <1>7, <1>8, <1>10, <1>12, <1>13 DEF Healthy
  <1>15. /\ DOMAIN board' = DOMAIN board /\ board'[a] = row
         /\ DOMAIN history' = DOMAIN board /\ history'[a] = events
         /\ \A b \in DOMAIN board \ {a} : board'[b] = board[b] /\ history'[b] = history[b]
         /\ board' = [b \in DOMAIN board |-> board'[b]] /\ history' = [b \in DOMAIN board |-> history'[b]]
    BY <1>1, <1>2 DEF Applications
  <1> HIDE DEF a
  <1>16. Live' = Live
    <2>1. Gone \notin Row
      BY DEF Gone, Row
    <2>2. QED
      BY <1>1, <1>10, <1>15, <2>1 DEF Live
  <1>17. \A b \in Live : Healthy(board'[b], history'[b]) /\ board'[b].name = board[b].name
    BY <1>1, <1>10, <1>14, <1>15 DEF Applications, Live
  <1>18. \A b \in DOMAIN board \ Live : board'[b] = board[b] /\ history'[b] = history[b]
    BY <1>1, <1>15
  <1>19. Evolves(c)
    <2>1. \A b \in DOMAIN board : Extends(history[b], history[b])
      BY <1>1, LiveRows DEF Extends
    <2>2. \A b \in DOMAIN board : Extends(history'[b], history[b])
      BY <1>8, <1>15, <2>1 DEF a, old
    <2>3. QED
      BY <1>8, <1>15, <1>16, <2>2 DEF Evolves
  <1>20. QED
    BY <1>2, <1>15, <1>16, <1>17, <1>18, <1>19, ChangedKeeps

\* What a rebuild found and what it makes of it is still right for the rows that only it moves.
LEMMA RewriteStep ==
  ASSUME IInv, NEW c \in Clients, Rewrite(c)
  PROVE  IInv'
  <1> DEFINE changed == {a \in DOMAIN read[c] : read[c][a] # loaded[c][a]}
             row(a) == IF a \in changed THEN Update(board[a], loaded[c][a], read[c][a]) ELSE board[a]
  <1>1. Applications /\ Current(c) /\ pc[c] = "rewrite" /\ c \in Rebuilders
    BY DEF IInv, Rewrite, Current
  <1>2. changed \subseteq Live /\ Finish(c) /\ UNCHANGED history /\ board' = [a \in DOMAIN board |-> row(a)]
    BY DEF Rewrite
  <1>3. ASSUME NEW a \in Live
        PROVE  Healthy(row(a), history[a]) /\ row(a).name = board[a].name
    <2>1. Healthy(board[a], history[a]) /\ board[a] \in Row /\ history[a] \in Seq(Event) /\ SoundEvents(history[a])
      BY <1>1 DEF Applications, Healthy
    <2>2. CASE a \notin changed
      BY <2>1, <2>2
    <2>3. CASE a \in changed
      <3> DEFINE old == loaded[c][a]
                 new == read[c][a]
      <3>1. a \in DOMAIN loaded[c]
        BY <1>1, <2>3 DEF Current
      <3>2. /\ old \in Row /\ Rewritten(c, a)
            /\ MovedBy(c, history[a]) => Shown(old) = Shown(board[a])
        BY <1>1, <3>1 DEF Current
      <3>3. /\ new \in Row /\ new.name = old.name /\ new.typed = old.typed /\ HasBeen(new, history[a])
            /\ MovedBy(c, history[a]) => Shows(new, history[a])
        BY <3>2 DEF Rewritten
      <3>4. row(a) = Update(board[a], old, new)
        BY <2>3
      <3> HIDE DEF old, new, row
      <3>5. /\ row(a) \in Row /\ row(a).name = board[a].name /\ row(a).typed = board[a].typed
            /\ row(a).current \in {board[a].current, new.current}
            /\ row(a).furthest \in {board[a].furthest, new.furthest}
            /\ Shown(old) = Shown(board[a]) => Shown(row(a)) = Shown(new)
        BY <2>1, <3>2, <3>3, <3>4, Updated
      <3>6. HasBeen(row(a), history[a])
        BY <2>1, <3>3, <3>5 DEF HasBeen, Healthy
      <3>7. ASSUME NEW d \in Clients, MovedBy(d, history[a]) PROVE Shows(row(a), history[a])
        <4>1. d = c
          BY <1>1, <3>7 DEF MovedBy
        <4>2. Shown(row(a)) = Shown(new) /\ Shows(new, history[a])
          BY <3>2, <3>3, <3>5, <3>7, <4>1
        <4>3. Shown(Projected(row(a), history[a])) = Shown(Projected(new, history[a]))
          BY <2>1, <3>3, <3>5, OneProjection
        <4>4. QED
          BY <4>2, <4>3 DEF Shows
      <3>8. QED
        BY <2>1, <3>5, <3>6, <3>7 DEF Healthy
    <2>4. QED
      BY <2>2, <2>3
  <1>4. \A a \in DOMAIN board \ Live : row(a) = board[a]
    BY <1>2
  <1> HIDE DEF row, changed
  <1>5. /\ DOMAIN board' = DOMAIN board /\ board' = [a \in DOMAIN board |-> board'[a]]
        /\ \A a \in DOMAIN board : board'[a] = row(a) /\ history'[a] = history[a]
        /\ DOMAIN history' = DOMAIN board /\ history' = [a \in DOMAIN board |-> history'[a]]
    BY <1>1, <1>2 DEF Applications
  <1>6. Live' = Live
    <2>1. Gone \notin Row
      BY DEF Gone, Row
    <2>2. QED
      BY <1>3, <1>4, <1>5, <2>1 DEF Live, Healthy
  <1>7. Evolves(c)
    <2>1. \A a \in DOMAIN board : Extends(history[a], history[a])
      BY <1>1, LiveRows DEF Extends
    <2>2. QED
      BY <1>1, <1>5, <1>6, <2>1 DEF Evolves
  <1>8. \A a \in Live : a \in DOMAIN board
    BY DEF Live
  <1>9. QED
    BY <1>2, <1>3, <1>4, <1>5, <1>6, <1>7, <1>8, ChangedKeeps

\* A correction changes other columns than those that are projected.
LEMMA WriteClassifyStep ==
  ASSUME IInv, NEW c \in Clients, WriteClassify(c)
  PROVE  IInv'
  <1> DEFINE a == target[c]
             new == [loaded[c] EXCEPT !.sub = asked[c].sub, !.cat = CategoryOf[asked[c].sub], !.status = "tracked"]
             row == Update(board[a], loaded[c], new)
  <1>1. Applications /\ Current(c) /\ pc[c] = "classify" /\ a \in Live /\ a \in DOMAIN board
    BY LiveRows DEF IInv, WriteClassify, Live
  <1>2. Finish(c) /\ UNCHANGED history /\ board' = [board EXCEPT ![a] = row]
    BY DEF WriteClassify
  <1>3. Healthy(board[a], history[a]) /\ board[a] \in Row /\ history[a] \in Seq(Event)
    BY <1>1 DEF Applications, Healthy
  <1>4. loaded[c] \in Row /\ asked[c].sub \in Subcategories
    BY <1>1 DEF Current
  <1>5. new \in Row /\ new.name = loaded[c].name /\ new.typed = loaded[c].typed /\ Shown(new) = Shown(loaded[c])
        /\ new.current = loaded[c].current /\ new.furthest = loaded[c].furthest
    <2>1. CategoryOf[asked[c].sub] \in Range(CategoryOf)
      BY <1>4, JobRowsAssumption DEF Range
    <2>2. QED
      BY <1>4, <2>1 DEF Row, Shown
  <1> HIDE DEF new
  <1>6. row \in Row /\ row.name = board[a].name /\ row.typed = board[a].typed /\ Shown(row) = Shown(board[a])
    BY <1>3, <1>4, <1>5, Updated
  <1> HIDE DEF row
  <1>7. Healthy(row, history[a])
    <2>1. row.current = board[a].current /\ row.furthest = board[a].furthest
      BY <1>6 DEF Shown
    <2>2. Shown(Projected(row, history[a])) = Shown(Projected(board[a], history[a]))
      BY <1>3, <1>6, OneProjection
    <2>3. Shows(board[a], history[a]) => Shows(row, history[a])
      BY <1>6, <2>2 DEF Shows
    <2>4. HasBeen(row, history[a])
      BY <1>3, <2>1 DEF Healthy, HasBeen
    <2>5. QED
      BY <1>3, <1>6, <2>3, <2>4 DEF Healthy
  <1>8. /\ DOMAIN board' = DOMAIN board /\ board'[a] = row
        /\ DOMAIN history' = DOMAIN board
        /\ \A b \in DOMAIN board \ {a} : board'[b] = board[b]
        /\ \A b \in DOMAIN board : history'[b] = history[b]
        /\ board' = [b \in DOMAIN board |-> board'[b]] /\ history' = [b \in DOMAIN board |-> history'[b]]
    <2>1. DOMAIN history' = DOMAIN board /\ history' = [b \in DOMAIN board |-> history'[b]]
      BY <1>1, <1>2 DEF Applications
    <2>2. /\ DOMAIN board' = DOMAIN board /\ board'[a] = row
          /\ \A b \in DOMAIN board \ {a} : board'[b] = board[b]
          /\ board' = [b \in DOMAIN board |-> board'[b]]
      BY <1>1, <1>2 DEF Applications
    <2>3. QED
      BY <1>2, <2>1, <2>2
  <1> HIDE DEF a
  <1>9. Live' = Live
    <2>1. Gone \notin Row
      BY DEF Gone, Row
    <2>2. QED
      BY <1>1, <1>6, <1>8, <2>1 DEF Live
  <1>10. \A b \in Live : b \in DOMAIN board /\ Healthy(board'[b], history'[b]) /\ board'[b].name = board[b].name
    BY <1>1, <1>6, <1>7, <1>8 DEF Applications, Live
  <1>11. \A b \in DOMAIN board \ Live : board'[b] = board[b] /\ history'[b] = history[b]
    BY <1>1, <1>8
  <1>12. Evolves(c)
    <2>1. \A b \in DOMAIN board : Extends(history[b], history[b])
      BY <1>1, LiveRows DEF Extends
    <2>2. \A b \in DOMAIN board : Shown(board'[b]) = Shown(board[b])
      BY <1>6, <1>8
    <2>3. QED
      BY <1>8, <1>9, <2>1, <2>2 DEF Evolves
  <1>13. QED
    BY <1>2, <1>8, <1>9, <1>10, <1>11, <1>12, ChangedKeeps

\* The row and its history go together.
LEMMA WriteDeleteStep ==
  ASSUME IInv, NEW c \in Clients, WriteDelete(c)
  PROVE  IInv'
  <1> DEFINE a == target[c]
  <1>1. Frames /\ Applications /\ OneIndex /\ Current(c) /\ pc[c] = "delete" /\ a \in DOMAIN board
    BY DEF IInv, WriteDelete, Current
  <1>2. Finish(c) /\ board' = [board EXCEPT ![a] = Gone] /\ history' = [history EXCEPT ![a] = <<>>]
    BY DEF WriteDelete
  <1>3. /\ DOMAIN board' = DOMAIN board /\ board'[a] = Gone
        /\ DOMAIN history' = DOMAIN board /\ history'[a] = <<>>
        /\ \A b \in DOMAIN board \ {a} : board'[b] = board[b] /\ history'[b] = history[b]
    BY <1>1, <1>2 DEF Applications
  <1>4. /\ board' \in Seq(Row \cup {Gone}) /\ Len(board') = Len(board) /\ history' \in Seq(Seq(Event))
    <2>1. board \in Seq(Row \cup {Gone}) /\ Gone \in Row \cup {Gone} /\ a \in 1 .. Len(board)
      BY <1>1, LiveRows DEF Applications
    <2>2. history \in Seq(Seq(Event)) /\ <<>> \in Seq(Event) /\ a \in 1 .. Len(history)
      BY <1>1, LiveRows DEF Applications
    <2>3. board' \in Seq(Row \cup {Gone}) /\ Len(board') = Len(board)
      BY <1>2, <2>1, ExceptSeq
    <2>4. history' \in Seq(Seq(Event))
      BY <1>2, <2>2, ExceptSeq
    <2>5. QED
      BY <2>3, <2>4
  <1> HIDE DEF a
  <1>5. Live' = Live \ {a}
    BY <1>3 DEF Live
  <1>6. Applications'
    <2>1. \A b \in Live' : b \in Live /\ b \in DOMAIN board \ {a}
      BY <1>5 DEF Live
    <2>2. \A b \in Live' : Healthy(board'[b], history'[b])
      BY <1>1, <1>3, <2>1 DEF Applications
    <2>3. \A b \in DOMAIN board' \ Live' : history'[b] = <<>>
      BY <1>1, <1>3, <1>5 DEF Applications
    <2>4. QED
      BY <1>1, <1>3, <1>4, <2>2, <2>3 DEF Applications
  <1>7. OneIndex'
    BY <1>1, <1>3, <1>5 DEF OneIndex, Index, Live
  <1>8. Evolves(c)
    <2>1. \A b \in DOMAIN board : Extends(history[b], history[b])
      BY <1>1, LiveRows DEF Extends
    <2>2. QED
      BY <1>3, <1>5, <2>1 DEF Evolves
  <1>9. QED
    BY <1>1, <1>2, <1>6, <1>7, <1>8, Finished, StepKeeps

---------------------------------------------------------------------------
\* The theorems

LEMMA StepInvariant == IInv /\ [Next]_vars => IInv'
  <1> SUFFICES ASSUME IInv, [Next]_vars PROVE IInv'
    OBVIOUS
  <1>1. CASE UNCHANGED vars
    BY <1>1 DEF vars, IInv, Frames, Applications, OneIndex, Current, Live, Rewritten
  <1>2. CASE Next
    <2>1. PICK c \in Clients :
              \/ \E entry \in Entries : OpenCreate(c, entry)
              \/ \E raws \in Pastes : OpenImport(c, raws)
              \/ \E answer \in Answers : Research(c, answer)
              \/ \E a \in DOMAIN board :
                     \/ \E stage \in Moves : OpenAdvance(c, a, stage)
                     \/ \E sub \in Tags : OpenClassify(c, a, sub)
                     \/ OpenDelete(c, a)
              \/ WriteCreate(c) \/ WriteImport(c) \/ ReadHistory(c) \/ AppendEvent(c)
              \/ OpenRebuild(c) \/ ReadAll(c) \/ Rewrite(c) \/ WriteClassify(c) \/ WriteDelete(c)
              \/ Fail(c)
      BY <1>2 DEF Next
    <2>2. CASE \/ \E entry \in Entries : OpenCreate(c, entry)
               \/ \E raws \in Pastes : OpenImport(c, raws)
               \/ \E answer \in Answers : Research(c, answer)
      BY <2>2, OpenCreateStep, OpenImportStep, ResearchStep
    <2>3. CASE \E a \in DOMAIN board :
                   \/ \E stage \in Moves : OpenAdvance(c, a, stage)
                   \/ \E sub \in Tags : OpenClassify(c, a, sub)
                   \/ OpenDelete(c, a)
      BY <2>3, OpenAdvanceStep, OpenClassifyStep, OpenDeleteStep
    <2>4. CASE WriteCreate(c) \/ WriteImport(c) \/ ReadHistory(c) \/ AppendEvent(c) \/ Fail(c)
      BY <2>4, WriteCreateStep, WriteImportStep, ReadHistoryStep, AppendEventStep, FailStep
    <2>5. CASE OpenRebuild(c) \/ ReadAll(c) \/ Rewrite(c) \/ WriteClassify(c) \/ WriteDelete(c)
      BY <2>5, OpenRebuildStep, ReadAllStep, RewriteStep, WriteClassifyStep, WriteDeleteStep
    <2>6. QED
      BY <2>1, <2>2, <2>3, <2>4, <2>5
  <1>3. QED
    BY <1>1, <1>2

LEMMA Invariant == Spec => []IInv
  BY InitHolds, StepInvariant, PTL DEF Spec

\* Every variable keeps its type: what a request has loaded is a row, what a board shows are
\* stages, rungs and outcomes, and no history or board outgrows the bounds of the model.
THEOREM TypeCorrect == Spec => []TypeOK
  <1>1. IInv => TypeOK
    <2> SUFFICES ASSUME IInv PROVE TypeOK
      OBVIOUS
    <2>1. history \in [DOMAIN board -> Seq(Event)] /\ \A a \in DOMAIN board : Len(history[a]) <= MaxEvents
      <3>1. \A a \in DOMAIN board : history[a] \in Seq(Event) /\ DOMAIN history = DOMAIN board
        BY LiveRows DEF IInv, Applications
      <3>2. history = [a \in DOMAIN board |-> history[a]]
        BY LiveRows DEF IInv, Applications
      <3>3. \A a \in DOMAIN board : Len(history[a]) <= MaxEvents
        BY JobsAssumption DEF IInv, Applications, Healthy
      <3>4. QED
        BY <3>1, <3>2, <3>3
    <2>2. QED
      BY <2>1 DEF IInv, Frames, Labels, Applications, Current, TypeOK
  <1>2. QED
    BY <1>1, Invariant, PTL

\* However requests overlap, a history begins with applied, never repeats a stage, and is there
\* exactly as long as its application is.
THEOREM HistoriesSound == Spec => []HistorySound
  <1>1. IInv => HistorySound
    <2> SUFFICES ASSUME IInv, NEW a \in DOMAIN board
                 PROVE  LET stages == StagesOf(history[a]) IN
                        IF a \in Live
                        THEN stages # <<>> /\ stages[1] = Applied
                             /\ \A n \in 2 .. Len(stages) : stages[n] # stages[n - 1]
                        ELSE stages = <<>>
      BY DEF HistorySound
    <2>1. history[a] \in Seq(Event)
      BY LiveRows DEF IInv
    <2>2. CASE a \in Live
      <3>1. SoundEvents(history[a]) /\ 1 \in 1 .. Len(history[a])
        BY <2>1, <2>2 DEF IInv, Applications, Healthy, SoundEvents
      <3>2. \A n \in 2 .. Len(history[a]) : n \in 1 .. Len(history[a]) /\ n - 1 \in 1 .. Len(history[a])
        BY <2>1
      <3>3. QED
        BY <2>1, <2>2, <3>1, <3>2, StagesType DEF SoundEvents
    <2>3. CASE a \notin Live
      BY <2>1, <2>3, StagesType DEF IInv, Applications
    <2>4. QED
      BY <2>2, <2>3
  <1>2. QED
    BY <1>1, Invariant, PTL

\* However imports and entries race, two applications share a company and role only if one was
\* typed in with spaces around it.
THEOREM NamesOnce == Spec => []OnePerName
  <1>1. IInv => OnePerName
    <2> SUFFICES ASSUME IInv, NEW a \in Live, NEW b \in Live, a < b, Key(board[a].name) = Key(board[b].name)
                 PROVE  \E d \in {a, b} : board[d].typed /\ board[d].name.spaced
      BY DEF OnePerName
    <2>1. board[a] \in Row /\ board[b] \in Row /\ a \in Nat /\ b \in Nat
      BY LiveRows DEF IInv
    <2>2. board[a].name.spaced \in BOOLEAN /\ board[b].name.spaced \in BOOLEAN
      BY <2>1 DEF Row, RowNames
    <2>3. Index(board[a].name) # Index(board[b].name)
      BY <2>1 DEF IInv, OneIndex
    <2>4. board[a].name.spaced \/ board[b].name.spaced
      BY <2>2, <2>3 DEF Index, Key
    <2>5. \A d \in {a, b} : board[d].name.spaced => board[d].typed
      BY DEF IInv, Applications, Healthy
    <2>6. QED
      BY <2>4, <2>5
  <1>2. QED
    BY <1>1, Invariant, PTL

\* However requests overlap, the board shows a stage and a rung its history holds.
THEOREM BoardSeen == Spec => []BoardHasBeen
  <1>1. IInv => BoardHasBeen
    BY DEF IInv, Applications, Healthy, HasBeen, BoardHasBeen
  <1>2. QED
    BY <1>1, Invariant, PTL

\* The row of an application that one client has moved is the projection of its history.
LEMMA SoleFollows ==
  ASSUME IInv, NEW a \in Live, SoleMover(a)
  PROVE  board[a] = Projected(board[a], history[a])
  <1>1. /\ Healthy(board[a], history[a]) /\ board[a] \in Row /\ history[a] \in Seq(Event)
        /\ DOMAIN history[a] = 1 .. Len(history[a]) /\ Len(history[a]) \in Nat
    BY DEF IInv, Applications, Healthy
  <1>2. Movers(a) = By(history[a])
    BY DEF Movers, By
  <1>3. IsFiniteSet(Movers(a))
    <2> DEFINE S == 1 .. Len(history[a])
               f == [n \in S |-> history[a][n].by]
    <2>1. f \in Surjection(S, Movers(a))
      BY <1>1 DEF Surjection, Movers, Range
    <2>2. IsFiniteSet(S)
      BY <1>1, FS_Interval
    <2> HIDE DEF S, f
    <2>3. QED
      BY <2>1, <2>2, FS_Surjection
  <1>4. PICK c : Movers(a) = {c}
    BY <1>3, FS_Singleton DEF SoleMover
  <1>5. c \in Clients
    <2>1. PICK event \in Range(history[a]) : c = event.by
      BY <1>4 DEF Movers
    <2>2. PICK n \in DOMAIN history[a] : event = history[a][n]
      BY <2>1 DEF Range
    <2>3. history[a] \in Seq(Event)
      BY <1>1
    <2>4. event \in Event
      BY <2>2, <2>3
    <2>5. QED
      BY <2>1, <2>4 DEF Event
  <1>6. Shows(board[a], history[a])
    BY <1>1, <1>2, <1>4, <1>5 DEF Healthy, MovedBy, SoleMover
  <1> DEFINE row == board[a]
             other == Projected(board[a], history[a])
  <1>7. /\ row \in Row /\ other \in Row /\ row.name = other.name /\ row.typed = other.typed /\ row.sub = other.sub
        /\ row.cat = other.cat /\ row.status = other.status /\ Shown(row) = Shown(other)
    BY <1>1, <1>6, ProjectedRow DEF Shows
  <1> HIDE DEF row, other
  <1>8. row = other
    BY <1>7 DEF Row, Shown
  <1>9. QED
    BY <1>8 DEF row, other

\* The sum from the top over the histogram counts the applications at a rung or above.
LEMMA FunnelSums ==
  ASSUME IInv, NEW k \in DOMAIN Ladder
  PROVE  Reached[k] = Cardinality({a \in Live : Rank(board[a].furthest) >= k})
  <1> DEFINE L == Len(Ladder)
             above(n) == {a \in Live : Rank(board[a].furthest) >= n}
             at(n) == {a \in Live : Rank(board[a].furthest) = n}
             count == [n \in 1 .. L + 1 |-> Cardinality(above(n))]
             sums(f) == f = [n \in 1 .. L + 1 |-> IF n > L THEN 0 ELSE AtRung(n) + f[n + 1]]
  <1>1. L \in Nat \ {0} /\ DOMAIN Ladder = 1 .. L
    BY LadderType
  <1>2. \A a \in Live : Rank(board[a].furthest) \in 1 .. L
    BY <1>1, LiveRows, LadderType DEF IInv, Row
  <1>3. IsFiniteSet(Live)
    <2>1. Live \in SUBSET (1 .. Len(board)) /\ Len(board) \in Nat
      BY LiveRows DEF IInv
    <2>2. IsFiniteSet(1 .. Len(board))
      BY <2>1, FS_Interval
    <2>3. QED
      BY <2>1, <2>2, FS_Subset
  <1>4. \A n \in 1 .. L : Cardinality(above(n)) = Cardinality(at(n)) + Cardinality(above(n + 1))
    <2>1. SUFFICES ASSUME NEW n \in 1 .. L
                   PROVE  Cardinality(above(n)) = Cardinality(at(n)) + Cardinality(above(n + 1))
      OBVIOUS
    <2>2. above(n) = at(n) \cup above(n + 1) /\ at(n) \cap above(n + 1) = {}
      BY <1>1, <1>2
    <2>3. at(n) \in SUBSET Live /\ above(n + 1) \in SUBSET Live
      OBVIOUS
    <2> HIDE DEF at, above
    <2>4. IsFiniteSet(at(n)) /\ IsFiniteSet(above(n + 1))
      BY <1>3, <2>3, FS_Subset
    <2>5. Cardinality(at(n)) \in Nat /\ Cardinality(above(n + 1)) \in Nat
      BY <2>4, FS_CardinalityType
    <2>6. Cardinality(at(n) \cup above(n + 1))
             = Cardinality(at(n)) + Cardinality(above(n + 1)) - Cardinality(at(n) \cap above(n + 1))
      BY <2>4, FS_Union
    <2>7. Cardinality(at(n) \cap above(n + 1)) = 0
      BY <2>2, FS_EmptySet
    <2>8. QED
      BY <2>2, <2>5, <2>6, <2>7
  <1>5. Cardinality(above(L + 1)) = 0
    <2>1. above(L + 1) = {}
      BY <1>1, <1>2
    <2> HIDE DEF above
    <2>2. QED
      BY <2>1, FS_EmptySet
  <1>6. \A n : AtRung(n) = Cardinality(at(n))
    BY DEF AtRung
  <1> HIDE DEF above, at, L
  <1>7. sums(count)
    BY <1>1, <1>4, <1>5, <1>6
  <1>8. sums(Reached)
    <2>1. Reached = CHOOSE f : sums(f)
      BY DEF Reached, L
    <2> HIDE DEF sums, count
    <2>2. QED
      BY <1>7, <2>1
  <1>9. \A n \in 1 .. L + 1 : Reached[n] = count[n]
    <2> DEFINE wrong == {m \in 0 .. L : Reached[L + 1 - m] # count[L + 1 - m]}
    <2>1. ASSUME wrong # {} PROVE FALSE
      <3>1. wrong \in SUBSET Nat
        BY <1>1
      <3>2. PICK m \in wrong : \A d \in wrong : m <= d
        BY <2>1, <3>1, LeastNumber
      <3>3. m \in 0 .. L /\ L + 1 - m \in 1 .. L + 1 /\ Reached[L + 1 - m] # count[L + 1 - m]
        BY <1>1, <3>2
      <3>4. CASE m = 0
        <4>1. L + 1 \in 1 .. L + 1 /\ L + 1 > L /\ L + 1 - m = L + 1
          BY <1>1, <3>4
        <4>2. Reached[L + 1] = 0 /\ count[L + 1] = 0
          BY <1>7, <1>8, <4>1
        <4>3. QED
          BY <3>3, <4>1, <4>2
      <3>5. CASE m # 0
        <4> DEFINE n == L + 1 - m
        <4>1. m - 1 \in 0 .. L /\ m - 1 \notin wrong /\ L + 1 - (m - 1) = n + 1 /\ n \in 1 .. L
          BY <1>1, <3>2, <3>3, <3>5
        <4>2. Reached[n + 1] = count[n + 1]
          BY <4>1
        <4>3. Reached[n] = AtRung(n) + Reached[n + 1] /\ count[n] = AtRung(n) + count[n + 1]
          BY <1>1, <1>7, <1>8, <4>1
        <4>4. QED
          BY <3>3, <4>2, <4>3
      <3>6. QED
        BY <3>4, <3>5
    <2>2. SUFFICES ASSUME NEW n \in 1 .. L + 1 PROVE Reached[n] = count[n]
      OBVIOUS
    <2>3. L + 1 - n \in 0 .. L /\ L + 1 - (L + 1 - n) = n
      BY <1>1
    <2>4. QED
      BY <2>1, <2>3
  <1>10. QED
    BY <1>1, <1>9 DEF above

\* The board is the projection of the history for whatever one client alone has moved, and the
\* funnel of a board of such applications counts the rungs that histories have reached.
THEOREM BoardProjects == Spec => []BoardFollows
  <1>1. IInv => BoardFollows
    <2> SUFFICES ASSUME IInv PROVE BoardFollows
      OBVIOUS
    <2>1. \A a \in Live : SoleMover(a) => board[a] = Projected(board[a], history[a])
      BY SoleFollows
    <2>2. ASSUME \A a \in Live : SoleMover(a), NEW k \in DOMAIN Ladder
          PROVE  Reached[k] = Cardinality({a \in Live : HasReached(a, k)})
      <3>1. ASSUME NEW a \in Live
            PROVE  Rank(board[a].furthest) >= k <=> HasReached(a, k)
        <4> DEFINE events == history[a]
                   stages == StagesOf(history[a])
                   top == board[a].furthest
        <4>1. board[a] = Projected(board[a], events)
          BY <2>2, <3>1, SoleFollows
        <4>2. board[a] \in Row /\ events \in Seq(Event) /\ SoundEvents(events) /\ HasBeen(board[a], events)
          BY DEF IInv, Applications, Healthy
        <4>3. top = Project(stages).furthest
          BY <4>1, <4>2 DEF Projected, Row
        <4>4. stages \in Seq(Stages) /\ stages # <<>>
          BY <4>2, StagesType DEF SoundEvents
        <4>5. /\ top \in Range(Ladder) /\ top \in Range(stages)
              /\ \A stage \in Range(stages) \ Terminal : Rank(stage) <= Rank(top)
          BY <4>2, <4>3, <4>4, FurthestOf DEF HasBeen
        <4>6. /\ \A stage \in Range(stages) : \E event \in Range(events) : event.stage = stage
              /\ \A event \in Range(events) : event.stage \in Range(stages)
          BY DEF StagesOf, Range
        <4>7. \A stage \in Range(stages) \ Terminal : Rank(stage) \in Nat
          BY <4>4, LadderType DEF Range, Stages
        <4>8. top \notin Terminal /\ k \in Nat /\ Rank(top) \in Nat
          BY <4>5, JobRowsAssumption, LadderType
        <4> HIDE DEF events, stages, top
        <4>9. HasReached(a, k) <=> \E event \in Range(events) : event.stage \notin Terminal /\ Rank(event.stage) >= k
          BY DEF HasReached, events
        <4>10. Rank(top) >= k => HasReached(a, k)
          BY <4>5, <4>6, <4>8, <4>9
        <4>11. HasReached(a, k) => Rank(top) >= k
          BY <4>5, <4>6, <4>7, <4>8, <4>9
        <4>12. QED
          BY <4>10, <4>11 DEF top
      <3>2. {a \in Live : Rank(board[a].furthest) >= k} = {a \in Live : HasReached(a, k)}
        BY <3>1
      <3>3. QED
        BY <2>2, <3>2, FunnelSums
    <2>3. QED
      BY <2>1, <2>2 DEF BoardFollows
  <1>2. QED
    BY <1>1, Invariant, PTL

=============================================================================
