-------------------------------- MODULE Jobs --------------------------------
(***************************************************************************)
(* The job tracker (apps/api/src/api/jobs.py): applications on a board,    *)
(* each with an append-only history of stages of which its stage columns   *)
(* are a projection.                                                       *)
(*                                                                         *)
(* Several clients work on one board.  A client's requests follow one      *)
(* another, and each is split between what it reads and the commit that    *)
(* relies on it; the unique indexes and the foreign key are all that       *)
(* stands between two requests.                                            *)
(***************************************************************************)
EXTENDS JobRows

CONSTANTS
    Clients,
    Rebuilders,  \* the clients that call POST /jobs/recompute
    Entries,     \* what a manual entry may say: a key, whether spaces surround it, a stage, a tag
    Pastes,      \* what the parser may make of a pasted list
    Answers,     \* what the research pass may answer
    Moves,       \* the stages a request may move an application to
    Tags,        \* the sub-categories a request may correct one to
    MaxRows,     \* the model's bound on the applications ever made
    MaxEvents    \* the model's bound on the history of one application

ASSUME JobsAssumption ==
    /\ Rebuilders \subseteq Clients
    /\ \A rows \in Pastes \cup {answer.rows : answer \in Answers} : rows \in Seq(Range(rows))
    /\ \A entry \in Entries : entry.spaced \in BOOLEAN /\ entry.stage \in Stages
    /\ \A entry \in Entries : entry.sub \in Subcategories \cup {Untagged}
    /\ Moves \subseteq Stages /\ Tags \subseteq Subcategories
    /\ MaxRows \in Nat /\ MaxEvents \in Nat \ {0, 1}

VARIABLES
    board,    \* job_applications in the order they were made, Gone where one was deleted
    history,  \* application -> job_application_events by sequence, from 0 on
    pc,
    target,   \* client -> the application its request is about
    loaded,   \* client -> what the request has read of the board
    read,     \* client -> what it has read of the history
    asked     \* client -> what the request carries

vars == <<board, history, pc, target, loaded, read, asked>>

Gone == [kind |-> "gone"]
Nothing == [kind |-> "nothing"]
Live == {a \in DOMAIN board : board[a] # Gone}

\* job_applications_company_role_unique folds the case, not the spaces; _key folds both.
Index(name) == <<name.key, name.spaced>>
Key(name) == name.key
Tracked == {Key(board[a].name) : a \in Live}

Imported(row) == [key |-> row.key, spaced |-> FALSE]
RowNames == [key : {entry.key : entry \in Entries} \cup UNION {{raw.key : raw \in Range(rows)} : rows \in Pastes
                       \cup {answer.rows : answer \in Answers}}, spaced : BOOLEAN]
Row == [name : RowNames, typed : BOOLEAN, sub : Subcategories \cup {Untagged},
        cat : Range(CategoryOf) \cup {Untagged}, status : {"tracked", "pending_classification"},
        current : Stages, furthest : Range(Ladder), outcome : Terminal \cup {Offer, "open"}]
Event == [stage : Stages, by : Clients]

TypeOK ==
    /\ board \in Seq(Row \cup {Gone}) /\ Len(board) <= MaxRows
    /\ history \in [DOMAIN board -> Seq(Event)]
    /\ \A a \in DOMAIN board : Len(history[a]) <= MaxEvents
    /\ pc \in [Clients -> {"idle", "create", "research", "ingest", "advance", "append",
                           "rebuild", "rewrite", "classify", "delete"}]
    /\ \A c \in Clients : pc[c] \in {"advance", "append", "classify"} => loaded[c] \in Row
    /\ \A c \in Clients : pc[c] \in {"append", "delete"} => read[c] \in Seq(Event)

Init ==
    /\ board = <<>> /\ history = <<>>
    /\ pc = [c \in Clients |-> "idle"]
    /\ target = [c \in Clients |-> 0]
    /\ loaded = [c \in Clients |-> Nothing]
    /\ read = [c \in Clients |-> Nothing]
    /\ asked = [c \in Clients |-> Nothing]

\* The request is over, answered, refused or dead.
Finish(c) ==
    /\ pc' = [pc EXCEPT ![c] = "idle"]
    /\ target' = [target EXCEPT ![c] = 0]
    /\ loaded' = [loaded EXCEPT ![c] = Nothing]
    /\ read' = [read EXCEPT ![c] = Nothing]
    /\ asked' = [asked EXCEPT ![c] = Nothing]

\* A request begins with one read of the board.
Open(c, label, a, row, what) ==
    /\ pc[c] = "idle"
    /\ pc' = [pc EXCEPT ![c] = label]
    /\ target' = [target EXCEPT ![c] = a]
    /\ loaded' = [loaded EXCEPT ![c] = row]
    /\ asked' = [asked EXCEPT ![c] = what]
    /\ UNCHANGED <<board, history, read>>

\* Seeded fault: an update writes every column of the row it loaded.
UpdateWholeRow(row, old, new) == new

\* An UPDATE of the ORM names only the columns the request has changed.
Update(row, old, new) ==
    [column \in DOMAIN row |-> IF new[column] # old[column] THEN new[column] ELSE row[column]]

StagesOf(events) == [n \in DOMAIN events |-> events[n].stage]

\* What the three projected columns of a row become over a history.
Projected(row, events) ==
    LET shown == Project(StagesOf(events))
    IN  [row EXCEPT !.current = shown.current, !.furthest = shown.furthest, !.outcome = shown.outcome]

---------------------------------------------------------------------------
\* Writing applications

\* insert_application: always an applied event, then the stage the row arrives at.
FirstEvents(c, stage) ==
    << [stage |-> Applied, by |-> c] >> \o
        (IF stage = Applied THEN <<>> ELSE << [stage |-> stage, by |-> c] >>)

Inserted(c, name, sub, sure, stage, typed) ==
    Projected([name |-> name, typed |-> typed, sub |-> sub,
               cat |-> IF sub = Untagged THEN Untagged ELSE CategoryOf[sub],
               status |-> IF sub # Untagged /\ sure THEN "tracked" ELSE "pending_classification",
               current |-> Applied, furthest |-> Applied, outcome |-> "open"], FirstEvents(c, stage))

\* POST /jobs: nothing with that name is found, by the stripped and folded spelling.
OpenCreate(c, entry) ==
    /\ ~ \E a \in Live : Index(board[a].name) = <<entry.key, FALSE>>
    /\ Open(c, "create", 0, Nothing, entry)

\* The commit, which the unique index may refuse.
WriteCreate(c) == LET name == [key |-> asked[c].key, spaced |-> asked[c].spaced] IN
    /\ pc[c] = "create" /\ Len(board) < MaxRows
    /\ \A a \in Live : Index(board[a].name) # Index(name)
    /\ board' = Append(board, Inserted(c, name, asked[c].sub, TRUE, asked[c].stage, TRUE))
    /\ history' = Append(history, FirstEvents(c, asked[c].stage))
    /\ Finish(c)

\* POST /jobs/import: the list is parsed and what is tracked is read once; a list without a
\* row is refused.
OpenImport(c, raws) ==
    /\ Listed(raws) # <<>>
    /\ Open(c, "research", 0, [tracked |-> Tracked], [rows |-> Listed(raws)])

\* Nothing is sent when no new row lacks anything.
Research(c, answer) ==
    LET chosen == Candidates(asked[c].rows, loaded[c].tracked) IN
    /\ pc[c] = "research"
    /\ pc' = [pc EXCEPT ![c] = "ingest"]
    /\ asked' = [asked EXCEPT ![c].rows = IF chosen = <<>> THEN @ ELSE Researched(@, chosen, answer)]
    /\ UNCHANGED <<board, history, target, loaded, read>>

\* Seeded fault: the unique index is not there.
WriteImportAnyway(c) ==
    LET rows == asked[c].rows
        added == Ascending(FirstNew(rows, loaded[c].tracked))
    IN  /\ pc[c] = "ingest" /\ Len(board) + Len(added) <= MaxRows
        /\ board' = board \o [n \in DOMAIN added |-> LET row == rows[added[n]]
                        IN  Inserted(c, Imported(row), row.sub, row.sure, row.stage, FALSE)]
        /\ history' = history \o [n \in DOMAIN added |-> FirstEvents(c, rows[added[n]].stage)]
        /\ Finish(c)

\* One commit for the whole list, of the rows whose name, perhaps changed by the research, is
\* new to what was read and to the list itself.  Any of them can be refused by the index.
WriteImport(c) ==
    LET rows == asked[c].rows
        added == Ascending(FirstNew(rows, loaded[c].tracked))
    IN  /\ pc[c] = "ingest" /\ Len(board) + Len(added) <= MaxRows
        /\ \A n \in Range(added), a \in Live : Index(board[a].name) # Index(Imported(rows[n]))
        /\ board' = board \o [n \in DOMAIN added |-> LET row == rows[added[n]]
                        IN  Inserted(c, Imported(row), row.sub, row.sure, row.stage, FALSE)]
        /\ history' = history \o [n \in DOMAIN added |-> FirstEvents(c, rows[added[n]].stage)]
        /\ Finish(c)

---------------------------------------------------------------------------
\* Moving applications

\* POST /jobs/{id}/stage
OpenAdvance(c, a, stage) == a \in Live /\ Open(c, "advance", a, board[a], [stage |-> stage])

\* The events are read after the row; the stage it is in already is not written again.
ReadHistory(c) ==
    LET events == history[target[c]] IN
    /\ pc[c] = "advance"
    /\ IF events # <<>> /\ Last(events).stage = asked[c].stage
       THEN Finish(c)
       ELSE /\ pc' = [pc EXCEPT ![c] = "append"]
            /\ read' = [read EXCEPT ![c] = events]
            /\ UNCHANGED <<target, loaded, asked>>
    /\ UNCHANGED <<board, history>>

\* Seeded fault: sequence numbers need not be unique.
AppendEventAnyway(c) ==
    LET a == target[c]
        events == Append(history[a], [stage |-> asked[c].stage, by |-> c])
    IN  /\ pc[c] = "append" /\ a \in Live
        /\ Len(events) <= MaxEvents
        /\ history' = [history EXCEPT ![a] = events]
        /\ board' = [board EXCEPT ![a] = Update(@, loaded[c], Projected(loaded[c], events))]
        /\ Finish(c)

\* Seeded fault: the board takes the stage although the event is refused.
AppendEventByAssignment(c) ==
    LET a == target[c]
        events == Append(read[c], [stage |-> asked[c].stage, by |-> c])
    IN  /\ pc[c] = "append" /\ a \in Live
        /\ Len(events) <= MaxEvents
        /\ history' = IF Len(history[a]) = Len(read[c]) THEN [history EXCEPT ![a] = events] ELSE history
        /\ board' = [board EXCEPT ![a] = Update(@, loaded[c], Projected(loaded[c], events))]
        /\ Finish(c)

\* The event, then the projection of the events onto the row as it was loaded, in one commit.
\* The number is unique and the application must be there: either refuses the whole.
AppendEvent(c) ==
    LET a == target[c]
        events == Append(history[a], [stage |-> asked[c].stage, by |-> c])
    IN  /\ pc[c] = "append" /\ a \in Live
        /\ Len(history[a]) = Len(read[c]) /\ Len(events) <= MaxEvents
        /\ history' = [history EXCEPT ![a] = events]
        /\ board' = [board EXCEPT ![a] = Update(@, loaded[c], Projected(loaded[c], events))]
        /\ Finish(c)

\* POST /jobs/recompute: all applications, then all their events.
OpenRebuild(c) ==
    /\ c \in Rebuilders /\ Live # {}
    /\ Open(c, "rebuild", 0, [a \in Live |-> board[a]], Nothing)

ReadAll(c) ==
    LET replayed == [a \in DOMAIN loaded[c] |-> Projected(loaded[c][a], history[a])] IN
    /\ pc[c] = "rebuild"
    /\ IF replayed = loaded[c]
       THEN Finish(c)
       ELSE /\ pc' = [pc EXCEPT ![c] = "rewrite"]
            /\ read' = [read EXCEPT ![c] = replayed]
            /\ UNCHANGED <<target, loaded, asked>>
    /\ UNCHANGED <<board, history>>

\* The rows whose projection differs from what was loaded, in one commit.
Rewrite(c) ==
    LET changed == {a \in DOMAIN read[c] : read[c][a] # loaded[c][a]} IN
    /\ pc[c] = "rewrite"
    /\ changed \subseteq Live
    /\ board' = [a \in DOMAIN board |->
                     IF a \in changed THEN Update(board[a], loaded[c][a], read[c][a]) ELSE board[a]]
    /\ Finish(c)
    /\ UNCHANGED history

\* PATCH /jobs/{id}/classification: the category follows from the sub-category.
OpenClassify(c, a, sub) == a \in Live /\ Open(c, "classify", a, board[a], [sub |-> sub])

WriteClassify(c) ==
    LET a == target[c]
        new == [loaded[c] EXCEPT !.sub = asked[c].sub, !.cat = CategoryOf[asked[c].sub], !.status = "tracked"]
    IN  /\ pc[c] = "classify" /\ a \in Live
        /\ board' = [board EXCEPT ![a] = Update(@, loaded[c], new)]
        /\ Finish(c)
        /\ UNCHANGED history

\* DELETE /jobs/{id}: the row and its events are read.
OpenDelete(c, a) ==
    /\ a \in Live /\ pc[c] = "idle"
    /\ pc' = [pc EXCEPT ![c] = "delete"]
    /\ target' = [target EXCEPT ![c] = a]
    /\ read' = [read EXCEPT ![c] = history[a]]
    /\ UNCHANGED <<board, history, loaded, asked>>

\* The events that were read go first; one that was written since refers to the row and
\* refuses the whole.
WriteDelete(c) ==
    LET a == target[c] IN
    /\ pc[c] = "delete"
    /\ a \in Live => Len(history[a]) = Len(read[c])
    /\ board' = [board EXCEPT ![a] = Gone]
    /\ history' = [history EXCEPT ![a] = <<>>]
    /\ Finish(c)

\* A request dies or its transaction is refused: what it has not committed is gone.
Fail(c) ==
    /\ pc[c] # "idle"
    /\ Finish(c)
    /\ UNCHANGED <<board, history>>

Next ==
    \E c \in Clients :
        \/ \E entry \in Entries : OpenCreate(c, entry)
        \/ \E raws \in Pastes : OpenImport(c, raws)
        \/ \E answer \in Answers : Research(c, answer)
        \/ \E a \in DOMAIN board :
               \/ \E stage \in Moves : OpenAdvance(c, a, stage)
               \/ \E sub \in Tags : OpenClassify(c, a, sub)
               \/ OpenDelete(c, a)
        \/ WriteCreate(c) \/ WriteImport(c) \/ ReadHistory(c) \/ AppendEvent(c)
        \/ OpenRebuild(c) \/ ReadAll(c) \/ Rewrite(c) \/ WriteClassify(c) \/ WriteDelete(c)
        \/ Fail(c)

Spec == Init /\ [][Next]_vars

---------------------------------------------------------------------------
\* What is drawn

\* stats: how many applications have each rung as their furthest, and how many have reached it,
\* as a sum over that histogram from the top.
AtRung(k) == Cardinality({a \in Live : Rank(board[a].furthest) = k})
Reached[k \in 1 .. Len(Ladder) + 1] == IF k > Len(Ladder) THEN 0 ELSE AtRung(k) + Reached[k + 1]

---------------------------------------------------------------------------
\* Properties

Movers(a) == {event.by : event \in Range(history[a])}
SoleMover(a) == Cardinality(Movers(a)) = 1 /\ Rebuilders \subseteq Movers(a)
HasReached(a, k) == \E event \in Range(history[a]) : event.stage \notin Terminal /\ Rank(event.stage) >= k

\* The board is the projection of the history (JobApplication's docstring) as long as one
\* client has moved the application and no other has recomputed, whatever the others import,
\* classify or delete meanwhile; the funnel of such a board counts the rungs that histories
\* have reached (stats).  Requests that overlap do not keep it, see BoardIsHistory.
BoardFollows ==
    /\ \A a \in Live : SoleMover(a) => board[a] = Projected(board[a], history[a])
    /\ (\A a \in Live : SoleMover(a)) =>
           \A k \in DOMAIN Ladder : Reached[k] = Cardinality({a \in Live : HasReached(a, k)})

\* However requests overlap, the board shows a stage the application has been in and, as the
\* furthest, one it had reached by then.
BoardHasBeen ==
    \A a \in Live :
        /\ board[a].current \in Range(StagesOf(history[a]))
        /\ board[a].furthest \in Range(StagesOf(history[a]))

\* A history begins with applied, never holds one stage twice in a row, however often a
\* request is sent (advance), and is there exactly as long as its application is
\* (delete_application: no event is orphaned).
HistorySound ==
    \A a \in DOMAIN board :
        LET stages == StagesOf(history[a]) IN
        IF a \in Live
        THEN stages # <<>> /\ stages[1] = Applied /\ \A n \in 2 .. Len(stages) : stages[n] # stages[n - 1]
        ELSE stages = <<>>

\* However imports and entries race, no two applications have one company and role, but for
\* those typed in with spaces around a name.
OnePerName ==
    \A a, b \in Live : a < b /\ Key(board[a].name) = Key(board[b].name) =>
        \E d \in {a, b} : board[d].typed /\ board[d].name.spaced

\* The projection without the exception the code needs.  Not kept by advances that overlap.
BoardIsHistory == \A a \in Live : board[a] = Projected(board[a], history[a])

\* "What makes two applications the same one ... the unique index is lower(company),
\* lower(role) to match" (_key): one application for one key.  Not kept for names typed in with
\* spaces around them.
OnePerKey == \A a, b \in Live : a # b => Key(board[a].name) # Key(board[b].name)

\* "The category follows from it, and is never set directly" (set_classification).  Not kept
\* by two corrections that overlap.
CategoryFollows == \A a \in Live : board[a].sub # Untagged => board[a].cat = CategoryOf[board[a].sub]
=============================================================================
