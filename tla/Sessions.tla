------------------------------ MODULE Sessions ------------------------------
(***************************************************************************)
(* The life of one interview session: its row in `sessions`, the artifacts *)
(* and gradings of its planned items, and the requests that race over      *)
(* them (apps/api/src/api/sessions.py).  A request reads the session row,  *)
(* decides, and writes later in another statement or transaction, so every *)
(* handler is split where another request's commit can fall in between.    *)
(*                                                                         *)
(* Three kinds of request: a turn with the interviewer, a submission       *)
(* (which goes on as the background grader once it is answered), and       *)
(* `POST /end`.  Items are numbered by their place in the plan.            *)
(***************************************************************************)
EXTENDS Integers, Sequences

CONSTANTS
    NumItems,       \* planned items of the session
    Turns,          \* requests POST /sessions/{id}/turns
    Submits,        \* requests POST /sessions/{id}/submissions
    Ends,           \* requests POST /sessions/{id}/end
    GradersRaise    \* whether exceptions escape graders

ASSUME PlanAssumption == NumItems \in Nat \ {0}
ASSUME RequestAssumption ==
    /\ Turns \cap Submits = {}
    /\ Turns \cap Ends = {}
    /\ Submits \cap Ends = {}
ASSUME RaiseAssumption == GradersRaise \in BOOLEAN

Items == 1 .. NumItems
NoItem == 0
Requests == Turns \cup Submits \cup Ends

\* SessionState and its subsets; planning, grading and failed are never written.
States == {"briefing", "interviewing", "wrapping", "complete", "abandoned"}
Open == {"briefing", "interviewing"}
Completable == Open \cup {"wrapping"}
Reportable == {"complete", "abandoned"}

VARIABLES
    status,     \* sessions.status
    endedAt,    \* whether sessions.ended_at is set
    artifacts,  \* items with a row in `artifacts`
    ended,      \* items with a successful end_round row in `turns`
    gradings,   \* item -> statuses of its `gradings` rows, oldest first
    evidence,   \* item -> how many times a grading wrote concept_evidence for it
    pc,         \* request -> where it is
    seen,       \* request -> sessions.status as it last loaded the row
    target,     \* request -> the item it works on
    rescued     \* graders whose exception `grade_artifact` has already caught

db == <<status, endedAt, artifacts, ended, gradings, evidence>>
vars == <<status, endedAt, artifacts, ended, gradings, evidence, pc, seen, target, rescued>>

Labels == {"idle", "opened", "begin", "talking", "closing", "check", "wrap",
           "insert", "grade", "rescue", "ending", "settle", "outcomes", "close", "done"}

TypeOK ==
    /\ status \in States
    /\ endedAt \in BOOLEAN
    /\ artifacts \subseteq Items
    /\ ended \subseteq Items
    /\ gradings \in [Items -> Seq({"graded", "failed"})]
    /\ evidence \in [Items -> Nat]
    /\ pc \in [Requests -> Labels]
    /\ seen \in [Requests -> States]
    /\ target \in [Requests -> Items \cup {NoItem}]
    /\ rescued \subseteq Submits

\* create_session commits the row as `briefing`, its plan already made.
Init ==
    /\ status = "briefing"
    /\ endedAt = FALSE
    /\ artifacts = {}
    /\ ended = {}
    /\ gradings = [i \in Items |-> <<>>]
    /\ evidence = [i \in Items |-> 0]
    /\ pc = [r \in Requests |-> "idle"]
    /\ seen = [r \in Requests |-> "briefing"]
    /\ target = [r \in Requests |-> NoItem]
    /\ rescued = {}

\* Request r moves on, holding the row's status s and working on item i; what it held
\* is gone with the request.
Move(r, label, s, i) ==
    /\ pc' = [pc EXCEPT ![r] = label]
    /\ seen' = [seen EXCEPT ![r] = IF label = "done" THEN "briefing" ELSE s]
    /\ target' = [target EXCEPT ![r] = IF label = "done" THEN NoItem ELSE i]

Goto(r, label) == Move(r, label, seen[r], target[r])
LoadAndGoto(r, label) == Move(r, label, status, target[r])

Finished == artifacts \cup ended

\* current_item: the first planned item with neither a submission nor an end_round.
IsCurrent(i) == i \notin Finished /\ \A j \in Items : j < i => j \in Finished

\* _item_outcomes: what the newest grading of the item's artifact says.
Outcome(i) ==
    IF i \notin artifacts THEN "not_attempted"
    ELSE IF gradings[i] = <<>> THEN "grading"
    ELSE gradings[i][Len(gradings[i])]

---------------------------------------------------------------------------
\* take_turn

\* The ownership check loads the row; its status decides whether a turn is taken.
TurnOpen(t) ==
    /\ pc[t] = "idle"
    /\ LoadAndGoto(t, IF status \in Open THEN "opened" ELSE "done")
    /\ UNCHANGED <<db, rescued>>

TurnPick(t) ==
    /\ pc[t] = "opened"
    /\ \/ \E i \in Items :
            /\ IsCurrent(i)
            /\ Move(t, IF seen[t] = "briefing" THEN "begin" ELSE "talking", seen[t], i)
       \/ /\ Items \subseteq Finished
          /\ Goto(t, "done")
    /\ UNCHANGED <<db, rescued>>

\* The write names the row and nothing else: whatever status it has is replaced.
TurnBegin(t) ==
    /\ pc[t] = "begin"
    /\ status' = "interviewing"
    /\ Goto(t, "talking")
    /\ UNCHANGED <<endedAt, artifacts, ended, gradings, evidence, rescued>>

\* Inside run_turn the interviewer calls end_round; its tool row is committed at once.
TurnEndRound(t) ==
    /\ pc[t] = "talking"
    /\ ended' = ended \cup {target[t]}
    /\ Goto(t, "closing")
    /\ UNCHANGED <<status, endedAt, artifacts, gradings, evidence, rescued>>

TurnReply(t) ==
    /\ pc[t] \in {"talking", "closing"}
    /\ Goto(t, IF pc[t] = "closing" THEN "check" ELSE "done")
    /\ UNCHANGED <<db, rescued>>

\* A model call is refused or fails: the rows already written stay, nothing else happens.
TurnFails(t) ==
    /\ pc[t] \in {"talking", "closing"}
    /\ Goto(t, "done")
    /\ UNCHANGED <<db, rescued>>

\* The last commit expired the row, so asking for the current item reloads it.
TurnCheck(t) ==
    /\ pc[t] = "check"
    /\ LoadAndGoto(t, IF Items \subseteq Finished THEN "wrap" ELSE "done")
    /\ UNCHANGED <<db, rescued>>

\* Seeded fault: the turn that wraps does not call _maybe_complete.
TurnWrapOnly(t) ==
    /\ pc[t] = "wrap"
    /\ status' = IF seen[t] = "wrapping" THEN status ELSE "wrapping"
    /\ Goto(t, "done")
    /\ UNCHANGED <<endedAt, artifacts, ended, gradings, evidence, rescued>>

\* An attribute set to the value it was loaded with emits no UPDATE.
TurnWrap(t) ==
    /\ pc[t] = "wrap"
    /\ status' = IF seen[t] = "wrapping" THEN status ELSE "wrapping"
    /\ Goto(t, "settle")
    /\ UNCHANGED <<endedAt, artifacts, ended, gradings, evidence, rescued>>

---------------------------------------------------------------------------
\* record_submission

SubmitOpen(s) ==
    /\ pc[s] = "idle"
    /\ \E i \in Items : Move(s, IF status \in Open THEN "opened" ELSE "done", status, i)
    /\ UNCHANGED <<db, rescued>>

SubmitCheck(s) ==
    /\ pc[s] = "opened"
    /\ Goto(s, IF target[s] \in artifacts THEN "done" ELSE "insert")
    /\ UNCHANGED <<db, rescued>>

\* artifacts(session_id, item_id) is unique: the loser of a race is rolled back.
SubmitLoses(s) ==
    /\ pc[s] = "insert"
    /\ target[s] \in artifacts
    /\ Goto(s, "done")
    /\ UNCHANGED <<db, rescued>>

\* Seeded fault: no unique constraint on artifacts(session_id, item_id).
SubmitInsertTwice(s) ==
    /\ pc[s] = "insert"
    /\ artifacts' = artifacts \cup {target[s]}
    /\ status' = IF seen[s] = "briefing" /\ status = "briefing" THEN "interviewing" ELSE status
    /\ Goto(s, "grade")
    /\ UNCHANGED <<endedAt, ended, gradings, evidence, rescued>>

\* Seeded fault: the status is written from the stale row.
SubmitInsertStale(s) ==
    /\ pc[s] = "insert"
    /\ target[s] \notin artifacts
    /\ artifacts' = artifacts \cup {target[s]}
    /\ status' = IF seen[s] = "briefing" THEN "interviewing" ELSE status
    /\ Goto(s, "grade")
    /\ UNCHANGED <<endedAt, ended, gradings, evidence, rescued>>

\* Only the briefing -> interviewing write looks at the row again.
SubmitInsert(s) ==
    /\ pc[s] = "insert"
    /\ target[s] \notin artifacts
    /\ artifacts' = artifacts \cup {target[s]}
    /\ status' = IF seen[s] = "briefing" /\ status = "briefing" THEN "interviewing" ELSE status
    /\ Goto(s, "grade")
    /\ UNCHANGED <<endedAt, ended, gradings, evidence, rescued>>

---------------------------------------------------------------------------
\* grade_artifact, the background task of the same request

AddGrading(s, outcome) ==
    gradings' = [gradings EXCEPT ![target[s]] = Append(@, outcome)]

\* The grading, its evidence and the projection are one transaction.
RecordGrade(s) ==
    /\ pc[s] = "grade"
    /\ AddGrading(s, "graded")
    /\ evidence' = [evidence EXCEPT ![target[s]] = @ + 1]
    /\ Goto(s, "settle")
    /\ UNCHANGED <<status, endedAt, artifacts, ended, rescued>>

\* Seeded fault: a failure is scored, and its evidence written.
RecordFailureScored(s) ==
    /\ pc[s] = "grade"
    /\ AddGrading(s, "failed")
    /\ evidence' = [evidence EXCEPT ![target[s]] = @ + 1]
    /\ Goto(s, "settle")
    /\ UNCHANGED <<status, endedAt, artifacts, ended, rescued>>

\* Seeded fault: only a success asks whether the session is complete.
RecordFailureSilently(s) ==
    /\ pc[s] = "grade"
    /\ AddGrading(s, "failed")
    /\ Goto(s, "done")
    /\ UNCHANGED <<status, endedAt, artifacts, ended, evidence, rescued>>

RecordFailure(s) ==
    /\ pc[s] = "grade"
    /\ AddGrading(s, "failed")
    /\ Goto(s, "settle")
    /\ UNCHANGED <<status, endedAt, artifacts, ended, evidence, rescued>>

\* Seeded fault: the exception escapes the background task.
GraderRaisesUncaught(s) ==
    /\ GradersRaise
    /\ s \notin rescued
    /\ pc[s] \in {"grade", "settle", "outcomes", "close"}
    /\ Goto(s, "done")
    /\ rescued' = rescued \cup {s}
    /\ UNCHANGED db

\* Any exception of _grade, before or after its commits, reaches one handler.  An
\* exception of the handler itself is logged and dropped: the grader stops at "rescue".
GraderRaises(s) ==
    /\ GradersRaise
    /\ s \notin rescued
    /\ pc[s] \in {"grade", "settle", "outcomes", "close"}
    /\ Goto(s, "rescue")
    /\ rescued' = rescued \cup {s}
    /\ UNCHANGED db

RecordCrash(s) ==
    /\ pc[s] = "rescue"
    /\ AddGrading(s, "failed")
    /\ Goto(s, "settle")
    /\ UNCHANGED <<status, endedAt, artifacts, ended, evidence, rescued>>

---------------------------------------------------------------------------
\* _maybe_complete, called by a turn that wrapped and by every grader

CompleteLoad(r) ==
    /\ pc[r] = "settle"
    /\ LoadAndGoto(r, IF status \in Completable THEN "outcomes" ELSE "done")
    /\ UNCHANGED <<db, rescued>>

\* Seeded fault: an item nobody attempted never holds a session open.
TerminalForAny(state) == {"graded", "failed", "not_attempted"}

TerminalFor(state) ==
    {"graded", "failed"} \cup (IF state = "wrapping" THEN {"not_attempted"} ELSE {})

CompleteDecide(r) ==
    /\ pc[r] = "outcomes"
    /\ Goto(r, IF \A i \in Items : Outcome(i) \in TerminalFor(seen[r]) THEN "close" ELSE "done")
    /\ UNCHANGED <<db, rescued>>

CompleteWrite(r) ==
    /\ pc[r] = "close"
    /\ status' = "complete"
    /\ endedAt' = TRUE
    /\ Goto(r, "done")
    /\ UNCHANGED <<artifacts, ended, gradings, evidence, rescued>>

---------------------------------------------------------------------------
\* end_session

EndOpen(e) ==
    /\ pc[e] = "idle"
    /\ LoadAndGoto(e, IF status \in Reportable THEN "done" ELSE "ending")
    /\ UNCHANGED <<db, rescued>>

EndWrite(e) ==
    /\ pc[e] = "ending"
    /\ IF status \in Reportable
       THEN UNCHANGED <<status, endedAt>>
       ELSE status' = "abandoned" /\ endedAt' = TRUE
    /\ Goto(e, "done")
    /\ UNCHANGED <<artifacts, ended, gradings, evidence, rescued>>

---------------------------------------------------------------------------

Complete(r) == CompleteLoad(r) \/ CompleteDecide(r) \/ CompleteWrite(r)

\* What a request does once it has begun, whoever else is running.
TurnProgress(t) ==
    TurnPick(t) \/ TurnBegin(t) \/ TurnReply(t) \/ TurnFails(t) \/ TurnCheck(t) \/ TurnWrap(t)
    \/ Complete(t)
SubmitProgress(s) ==
    SubmitCheck(s) \/ SubmitLoses(s) \/ SubmitInsert(s) \/ RecordGrade(s) \/ RecordFailure(s)
    \/ RecordCrash(s) \/ Complete(s)

TurnStep(t) == TurnOpen(t) \/ TurnEndRound(t) \/ TurnProgress(t)
SubmitStep(s) == SubmitOpen(s) \/ GraderRaises(s) \/ SubmitProgress(s)
EndStep(e) == EndOpen(e) \/ EndWrite(e)

Next ==
    \/ \E t \in Turns : TurnStep(t)
    \/ \E s \in Submits : SubmitStep(s)
    \/ \E e \in Ends : EndStep(e)

\* A request whose thread, connection or process dies between two commits is one that is
\* never scheduled again, which Spec allows at every step and FairSpec does not.
Spec == Init /\ [][Next]_vars

\* A handler that has started is run to its end by the server: the model call is
\* bounded by MAX_TOOL_ROUNDS and every other step is a statement of its own.  Opening
\* a request is the client's choice and end_round the model's, so neither is fair.
Fairness ==
    /\ \A t \in Turns : WF_vars(TurnProgress(t))
    /\ \A s \in Submits : WF_vars(SubmitProgress(s))
    /\ \A e \in Ends : WF_vars(EndWrite(e))

FairSpec == Spec /\ Fairness

---------------------------------------------------------------------------
\* Properties

\* A session only completes over an item without a grading when the interviewer had
\* ended that item: the last planned item is never forgotten, however turns, graders
\* and submissions interleave (_maybe_complete, take_turn).
CompleteAccounted ==
    status = "complete" => \A i \in Items : gradings[i] # <<>> \/ i \in ended

\* One item writes one set of evidence into a session, whatever is submitted at once
\* and whichever grader crashes; and evidence is there only because a grading passed
\* (record_submission's unique artifact, _record_grade's single transaction).
JudgedOnce ==
    \A i \in Items :
        /\ evidence[i] <= 1
        /\ evidence[i] = 1 => gradings[i] # <<>> /\ gradings[i][1] = "graded"
        /\ gradings[i] # <<>> => i \in artifacts

\* With rounds the interviewer ended, an item may stay unattempted, but none may be left in
\* the middle of its grading by the completion.  Not kept: a submission may be late.
NothingLeftGrading ==
    status = "complete" => \A i \in Items : Outcome(i) # "grading"

\* ended_at and a non-terminal status never stand together (end_session: "a state the
\* machine says cannot exist").
EndedIsTerminal == endedAt => status \in Reportable

\* What /end answered stays true: an abandoned session is not completed later.  Not kept.
AbandonedStays == [][status = "abandoned" => status' = "abandoned"]_vars

\* A failed grading wrote no evidence (the first rule of the module's docstring).  Not kept
\* when the grader fails after its commit.
FailedHasNoEvidence ==
    \A i \in Items : Outcome(i) = "failed" => evidence[i] = 0

\* A wrapping session has no route left that continues it, so it must leave that state
\* without the client's help (_maybe_complete from the turn that wrapped or from the
\* last grader), also when turns, graders and /end overtake each other.
WrappingResolves == status = "wrapping" ~> status # "wrapping"

\* When the last planned item is judged somebody notices: no grader relies on another
\* one to complete the session while that one relies on it.
AllJudgedCompletes ==
    (\A i \in Items : gradings[i] # <<>>) ~> status \in Reportable

\* The record of judgements the session keeps, as ItemVerdicts states it.
Verdicts == INSTANCE ItemVerdicts WITH
    verdict <- [i \in Items |-> Outcome(i)],
    proven <- {i \in Items : evidence[i] > 0},
    Overrulable <- GradersRaise
ImplementsVerdicts == Verdicts!Spec
ImplementsFairVerdicts == Verdicts!FairSpec
=============================================================================
