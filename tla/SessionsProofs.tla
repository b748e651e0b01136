--------------------------- MODULE SessionsProofs ---------------------------
(***************************************************************************)
(* What holds of a session, in two parts.  How it runs, of Sessions for    *)
(* any plan, any number of requests and any faults: the type invariant,    *)
(* CompleteAccounted, JudgedOnce, and that the item record implements      *)
(* ItemVerdicts; and, when no turn runs, that ended_at stands only with a  *)
(* terminal status.  What it serves, of Serving for any corpus, any        *)
(* learner, any request and anything handed in: that the corpus gate finds *)
(* the cycles there are, that a plan is what it promises to be, and that   *)
(* what was let through can be graded, read and probed as promised.        *)
(***************************************************************************)
EXTENDS Sessions, Serving, FiniteSetTheorems, SequenceTheorems, WellFoundedInduction, TLAPS

Judged == {"graded", "failed"}

\* A request past its checks works on a planned item.
Targeted ==
    /\ \A r \in Turns \cup Submits : pc[r] \notin {"idle", "opened", "done"} => target[r] \in Items
    /\ \A s \in Submits : pc[s] = "opened" => target[s] \in Items

TypeInv == TypeOK /\ Targeted

---------------------------------------------------------------------------
\* The moves

LEMMA ZeroIsNoItem == NoItem \notin Items
  BY PlanAssumption DEF Items, NoItem

\* A request's move keeps the three local maps well typed.
LEMMA MoveTypes ==
  ASSUME TypeOK, NEW r \in Requests, NEW label \in Labels, NEW s \in States,
         NEW i \in Items \cup {NoItem}, Move(r, label, s, i)
  PROVE  /\ pc' \in [Requests -> Labels]
         /\ seen' \in [Requests -> States]
         /\ target' \in [Requests -> Items \cup {NoItem}]
  BY DEF TypeOK, Move, States

LEMMA GotoTypes ==
  ASSUME TypeOK, NEW r \in Requests, NEW label \in Labels,
         Goto(r, label) \/ LoadAndGoto(r, label)
  PROVE  /\ pc' \in [Requests -> Labels]
         /\ seen' \in [Requests -> States]
         /\ target' \in [Requests -> Items \cup {NoItem}]
  <1>1. seen[r] \in States /\ status \in States /\ target[r] \in Items \cup {NoItem}
    BY DEF TypeOK
  <1>2. QED
    BY <1>1, MoveTypes DEF Goto, LoadAndGoto

\* A move to a label that works on an item needs one.
LEMMA MoveTargets ==
  ASSUME TypeInv, NEW r \in Requests, NEW label \in Labels, NEW s, NEW i,
         Move(r, label, s, i),
         i \in Items \/ label \in {"idle", "done"} \/ r \notin Turns \cup Submits
                     \/ (label = "opened" /\ r \notin Submits)
  PROVE  Targeted'
  BY DEF TypeInv, TypeOK, Targeted, Move, Requests

LEMMA GotoTargets ==
  ASSUME TypeInv, NEW r \in Requests, NEW label \in Labels,
         Goto(r, label) \/ LoadAndGoto(r, label),
         target[r] \in Items \/ label \in {"idle", "done"} \/ r \notin Turns \cup Submits
                             \/ (label = "opened" /\ r \notin Submits)
  PROVE  Targeted'
  BY MoveTargets DEF Goto, LoadAndGoto

\* Whatever grading is filed, an item's list of gradings stays a list of verdicts.
LEMMA AddGradingTypes ==
  ASSUME TypeOK, NEW s \in Requests, NEW o \in Judged, AddGrading(s, o)
  PROVE  gradings' \in [Items -> Seq(Judged)]
  <1>1. gradings \in [Items -> Seq(Judged)]
    BY DEF TypeOK, Judged
  <1>2. CASE target[s] \in Items
    <2>1. Append(gradings[target[s]], o) \in Seq(Judged)
      BY <1>1, <1>2
    <2>2. QED
      BY <1>1, <2>1 DEF AddGrading
  <1>3. CASE target[s] \notin Items
    BY <1>1, <1>3 DEF AddGrading
  <1>4. QED
    BY <1>2, <1>3

---------------------------------------------------------------------------
\* Types

LEMMA InitTypes == Init => TypeInv
  <1> SUFFICES ASSUME Init PROVE TypeInv
    OBVIOUS
  <1>1. gradings \in [Items -> Seq({"graded", "failed"})]
    BY DEF Init
  <1>2. /\ pc \in [Requests -> Labels]
        /\ seen \in [Requests -> States]
        /\ target \in [Requests -> Items \cup {NoItem}]
    BY DEF Init, States, Labels
  <1>3. evidence \in [Items -> Nat]
    BY DEF Init
  <1>4. Targeted
    BY DEF Init, Targeted, Requests
  <1>5. QED
    BY <1>1, <1>2, <1>3, <1>4 DEF Init, TypeInv, TypeOK, States

\* _maybe_complete runs in turns and graders alike.
LEMMA CompleteTypes ==
  ASSUME TypeInv, NEW r \in Turns \cup Submits, Complete(r)
  PROVE  TypeInv'
  <1> USE DEF Labels
  <1>1. r \in Requests
    BY DEF Requests
  <1>2. pc[r] \in {"settle", "outcomes", "close"} => target[r] \in Items
    BY DEF TypeInv, Targeted
  <1>3. CASE CompleteLoad(r)
    BY <1>1, <1>2, <1>3, GotoTypes, GotoTargets DEF CompleteLoad, TypeInv, TypeOK, db
  <1>4. CASE CompleteDecide(r)
    BY <1>1, <1>2, <1>4, GotoTypes, GotoTargets DEF CompleteDecide, TypeInv, TypeOK, db
  <1>5. CASE CompleteWrite(r)
    BY <1>1, <1>2, <1>5, GotoTypes, GotoTargets DEF CompleteWrite, TypeInv, TypeOK, States
  <1>6. QED
    BY <1>3, <1>4, <1>5 DEF Complete

LEMMA TurnTypes ==
  ASSUME TypeInv, NEW t \in Turns, TurnStep(t)
  PROVE  TypeInv'
  <1> USE DEF Labels
  <1>1. t \in Requests
    BY DEF Requests
  <1>2. pc[t] \notin {"idle", "opened", "done"} => target[t] \in Items
    BY DEF TypeInv, Targeted
  <1>3. t \notin Submits
    BY RequestAssumption
  <1>4. CASE TurnOpen(t)
    BY <1>1, <1>3, <1>4, GotoTypes, GotoTargets DEF TurnOpen, TypeInv, TypeOK, db
  <1>5. CASE TurnPick(t)
    <2>1. CASE \E i \in Items :
                 Move(t, IF seen[t] = "briefing" THEN "begin" ELSE "talking", seen[t], i)
      <3>1. PICK i \in Items :
              Move(t, IF seen[t] = "briefing" THEN "begin" ELSE "talking", seen[t], i)
        BY <2>1
      <3>2. seen[t] \in States
        BY <1>1 DEF TypeInv, TypeOK
      <3>3. QED
        BY <1>1, <1>5, <3>1, <3>2, MoveTypes, MoveTargets DEF TurnPick, TypeInv, TypeOK, db
    <2>2. CASE Goto(t, "done")
      BY <1>1, <1>5, <2>2, GotoTypes, GotoTargets DEF TurnPick, TypeInv, TypeOK, db
    <2>3. QED
      BY <1>5, <2>1, <2>2 DEF TurnPick
  <1>6. CASE TurnBegin(t)
    BY <1>1, <1>2, <1>6, GotoTypes, GotoTargets DEF TurnBegin, TypeInv, TypeOK, States
  <1>7. CASE TurnEndRound(t)
    BY <1>1, <1>2, <1>7, GotoTypes, GotoTargets DEF TurnEndRound, TypeInv, TypeOK
  <1>8. CASE TurnReply(t)
    BY <1>1, <1>2, <1>8, GotoTypes, GotoTargets DEF TurnReply, TypeInv, TypeOK, db
  <1>9. CASE TurnFails(t)
    BY <1>1, <1>9, GotoTypes, GotoTargets DEF TurnFails, TypeInv, TypeOK, db
  <1>10. CASE TurnCheck(t)
    BY <1>1, <1>2, <1>10, GotoTypes, GotoTargets DEF TurnCheck, TypeInv, TypeOK, db
  <1>11. CASE TurnWrap(t)
    BY <1>1, <1>2, <1>11, GotoTypes, GotoTargets DEF TurnWrap, TypeInv, TypeOK, States
  <1>12. CASE Complete(t)
    BY <1>12, CompleteTypes
  <1>13. QED
    BY <1>4, <1>5, <1>6, <1>7, <1>8, <1>9, <1>10, <1>11, <1>12 DEF TurnStep, TurnProgress

LEMMA SubmitTypes ==
  ASSUME TypeInv, NEW s \in Submits, SubmitStep(s)
  PROVE  TypeInv'
  <1> USE DEF Labels
  <1>1. s \in Requests
    BY DEF Requests
  <1>2. pc[s] \notin {"idle", "done"} => target[s] \in Items
    BY DEF TypeInv, Targeted
  <1>3. CASE SubmitOpen(s)
    <2>1. PICK i \in Items :
            Move(s, IF status \in Open THEN "opened" ELSE "done", status, i)
      BY <1>3 DEF SubmitOpen
    <2>2. status \in States
      BY DEF TypeInv, TypeOK
    <2>3. QED
      BY <1>1, <1>3, <2>1, <2>2, MoveTypes, MoveTargets DEF SubmitOpen, TypeInv, TypeOK, db
  <1>4. CASE SubmitCheck(s)
    BY <1>1, <1>2, <1>4, GotoTypes, GotoTargets DEF SubmitCheck, TypeInv, TypeOK, db
  <1>5. CASE SubmitLoses(s)
    BY <1>1, <1>5, GotoTypes, GotoTargets DEF SubmitLoses, TypeInv, TypeOK, db
  <1>6. CASE SubmitInsert(s)
    BY <1>1, <1>2, <1>6, GotoTypes, GotoTargets DEF SubmitInsert, TypeInv, TypeOK, States
  <1>7. CASE RecordGrade(s)
    <2>1. evidence' \in [Items -> Nat]
      <3>1. target[s] \in Items /\ evidence[target[s]] + 1 \in Nat
        BY <1>2, <1>7 DEF RecordGrade, TypeInv, TypeOK
      <3>2. QED
        BY <1>7, <3>1 DEF RecordGrade, TypeInv, TypeOK
    <2>2. gradings' \in [Items -> Seq(Judged)]
      BY <1>1, <1>7, AddGradingTypes DEF RecordGrade, TypeInv, Judged
    <2>3. QED
      BY <1>1, <1>2, <1>7, <2>1, <2>2, GotoTypes, GotoTargets
      DEF RecordGrade, TypeInv, TypeOK, Judged
  <1>8. CASE RecordFailure(s)
    <2>1. gradings' \in [Items -> Seq(Judged)]
      BY <1>1, <1>8, AddGradingTypes DEF RecordFailure, TypeInv, Judged
    <2>2. QED
      BY <1>1, <1>2, <1>8, <2>1, GotoTypes, GotoTargets
      DEF RecordFailure, TypeInv, TypeOK, Judged
  <1>9. CASE RecordCrash(s)
    <2>1. gradings' \in [Items -> Seq(Judged)]
      BY <1>1, <1>9, AddGradingTypes DEF RecordCrash, TypeInv, Judged
    <2>2. QED
      BY <1>1, <1>2, <1>9, <2>1, GotoTypes, GotoTargets
      DEF RecordCrash, TypeInv, TypeOK, Judged
  <1>10. CASE GraderRaises(s)
    BY <1>1, <1>2, <1>10, GotoTypes, GotoTargets DEF GraderRaises, TypeInv, TypeOK, db
  <1>11. CASE Complete(s)
    BY <1>11, CompleteTypes
  <1>12. QED
    BY <1>3, <1>4, <1>5, <1>6, <1>7, <1>8, <1>9, <1>10, <1>11 DEF SubmitStep, SubmitProgress

LEMMA StepTypes == TypeInv /\ [Next]_vars => TypeInv'
  <1> SUFFICES ASSUME TypeInv, [Next]_vars PROVE TypeInv'
    OBVIOUS
  <1> USE DEF Labels
  <1>1. ASSUME NEW e \in Ends, EndStep(e) PROVE TypeInv'
    <2>1. e \in Requests /\ e \notin Turns \cup Submits
      BY RequestAssumption DEF Requests
    <2>2. CASE EndOpen(e)
      BY <2>1, <2>2, GotoTypes, GotoTargets DEF EndOpen, TypeInv, TypeOK, db
    <2>3. CASE EndWrite(e)
      BY <2>1, <2>3, GotoTypes, GotoTargets DEF EndWrite, TypeInv, TypeOK, States
    <2>4. QED
      BY <1>1, <2>2, <2>3 DEF EndStep
  <1>2. CASE UNCHANGED vars
    BY <1>2 DEF TypeInv, Targeted, TypeOK, vars
  <1>3. QED
    BY <1>1, <1>2, TurnTypes, SubmitTypes DEF Next

\* Every reachable state has the types TypeOK gives it.
THEOREM TypeCorrect == Spec => []TypeOK
  <1>1. Spec => []TypeInv
    BY InitTypes, StepTypes, PTL DEF Spec
  <1>2. TypeInv => TypeOK
    BY DEF TypeInv
  <1>3. QED
    BY <1>1, <1>2, PTL

---------------------------------------------------------------------------
\* Completion.  A session wraps only once every item is finished, and completes only
\* once every item is judged or was ended; both facts, once true, stay true, so a
\* request may act on them however long ago it read them.

Wrapped == Items \subseteq Finished
Accounted == \A i \in Items : gradings[i] # <<>> \/ i \in ended

CompletionInv ==
    /\ status = "wrapping" => Wrapped
    /\ \A r \in Requests : pc[r] = "wrap" \/ seen[r] = "wrapping" => Wrapped
    /\ \A r \in Requests : pc[r] = "close" => Accounted
    /\ status = "complete" => Accounted

\* Filing a grading never empties an item's list.
LEMMA AddGradingGrows ==
  ASSUME TypeInv, NEW s \in Submits, NEW o \in Judged, AddGrading(s, o)
  PROVE  \A i \in Items : gradings[i] # <<>> => gradings'[i] # <<>>
  <1> SUFFICES ASSUME NEW i \in Items, gradings[i] # <<>> PROVE gradings'[i] # <<>>
    OBVIOUS
  <1>1. gradings \in [Items -> Seq(Judged)]
    BY DEF TypeInv, TypeOK, Judged
  <1>2. Append(gradings[i], o) # <<>>
    BY <1>1
  <1>3. CASE target[s] = i
    BY <1>1, <1>2, <1>3 DEF AddGrading
  <1>4. CASE target[s] # i
    BY <1>1, <1>4 DEF AddGrading
  <1>5. QED
    BY <1>3, <1>4

\* What is written about an item stays written, whoever steps.
LEMMA RecordGrows ==
  ASSUME TypeInv, [Next]_vars
  PROVE  /\ artifacts \subseteq artifacts'
         /\ ended \subseteq ended'
         /\ \A i \in Items : gradings[i] # <<>> => gradings'[i] # <<>>
  <1>1. ASSUME NEW r \in Requests, Complete(r)
        PROVE  UNCHANGED <<artifacts, ended, gradings>>
    BY <1>1 DEF Complete, CompleteLoad, CompleteDecide, CompleteWrite, db
  <1>2. ASSUME NEW t \in Turns, TurnStep(t)
        PROVE  UNCHANGED <<artifacts, gradings>> /\ ended \subseteq ended'
    <2>1. CASE Complete(t)
      BY <1>1, <2>1 DEF Requests
    <2>2. CASE ~Complete(t)
      BY <1>2, <2>2
      DEF TurnStep, TurnProgress, TurnOpen, TurnPick, TurnBegin, TurnEndRound, TurnReply,
          TurnFails, TurnCheck, TurnWrap, db
    <2>3. QED
      BY <2>1, <2>2
  <1>3. ASSUME NEW s \in Submits, SubmitStep(s)
        PROVE  /\ artifacts \subseteq artifacts' /\ ended' = ended
               /\ \A i \in Items : gradings[i] # <<>> => gradings'[i] # <<>>
    <2>1. CASE Complete(s)
      BY <1>1, <2>1 DEF Requests
    <2>2. CASE RecordGrade(s)
      BY <2>2, AddGradingGrows DEF RecordGrade, Judged
    <2>3. CASE RecordFailure(s)
      BY <2>3, AddGradingGrows DEF RecordFailure, Judged
    <2>4. CASE RecordCrash(s)
      BY <2>4, AddGradingGrows DEF RecordCrash, Judged
    <2>5. CASE SubmitOpen(s) \/ SubmitCheck(s) \/ SubmitLoses(s) \/ SubmitInsert(s)
               \/ GraderRaises(s)
      BY <2>5 DEF SubmitOpen, SubmitCheck, SubmitLoses, SubmitInsert, GraderRaises, db
    <2>6. QED
      BY <1>3, <2>1, <2>2, <2>3, <2>4, <2>5 DEF SubmitStep, SubmitProgress
  <1>4. ASSUME NEW e \in Ends, EndStep(e)
        PROVE  UNCHANGED <<artifacts, ended, gradings>>
    BY <1>4 DEF EndStep, EndOpen, EndWrite, db
  <1>5. CASE UNCHANGED vars
    BY <1>5 DEF vars
  <1>6. QED
    BY <1>1, <1>2, <1>3, <1>4, <1>5 DEF Next

LEMMA FactsStay ==
  ASSUME TypeInv, [Next]_vars
  PROVE  (Wrapped => Wrapped') /\ (Accounted => Accounted')
  BY RecordGrows DEF Wrapped, Accounted, Finished

\* What a move does to one request's label and to the status it holds.
LEMMA MoveLocally ==
  ASSUME TypeInv, NEW r \in Requests, NEW label, NEW s, NEW i, Move(r, label, s, i),
         NEW q \in Requests
  PROVE  /\ pc'[q] = pc[q] \/ (q = r /\ pc'[q] = label)
         /\ seen'[q] = seen[q] \/ seen'[q] = s \/ seen'[q] = "briefing"
  BY DEF TypeInv, TypeOK, Move

\* A step that moves r to a harmless label and leaves the status alone, or writes a
\* status nothing is claimed of, keeps CompletionInv.
LEMMA HarmlessMove ==
  ASSUME TypeInv, CompletionInv, [Next]_vars,
         NEW r \in Requests, NEW label, NEW s, NEW i, Move(r, label, s, i),
         s = "wrapping" => Wrapped,
         label = "wrap" => Wrapped,
         label = "close" => Accounted,
         \/ status' = status
         \/ status' \notin {"wrapping", "complete"}
         \/ status' = "wrapping" /\ Wrapped
         \/ status' = "complete" /\ Accounted
  PROVE  CompletionInv'
  <1>1. ASSUME NEW q \in Requests, pc'[q] = "wrap" \/ seen'[q] = "wrapping" PROVE Wrapped'
    BY <1>1, MoveLocally, FactsStay DEF CompletionInv
  <1>2. ASSUME NEW q \in Requests, pc'[q] = "close" PROVE Accounted'
    BY <1>2, MoveLocally, FactsStay DEF CompletionInv
  <1>3. (status' = "wrapping" => Wrapped') /\ (status' = "complete" => Accounted')
    BY FactsStay DEF CompletionInv
  <1>4. QED
    BY <1>1, <1>2, <1>3 DEF CompletionInv

LEMMA HarmlessGoto ==
  ASSUME TypeInv, CompletionInv, [Next]_vars, NEW r \in Requests, NEW label,
         Goto(r, label) \/ LoadAndGoto(r, label),
         label = "wrap" => Wrapped,
         label = "close" => Accounted,
         \/ status' = status
         \/ status' \notin {"wrapping", "complete"}
         \/ status' = "wrapping" /\ Wrapped
         \/ status' = "complete" /\ Accounted
  PROVE  CompletionInv'
  <1>1. (seen[r] = "wrapping" \/ status = "wrapping") => Wrapped
    BY DEF CompletionInv
  <1>2. QED
    BY <1>1, HarmlessMove DEF Goto, LoadAndGoto

LEMMA InitCompletion == Init => CompletionInv
  BY DEF Init, CompletionInv

\* The two steps that matter: a decision to close is taken over judged or ended items,
\* and the write that follows it still finds them so.
LEMMA CompleteKeepsCompletion ==
  ASSUME TypeInv, CompletionInv, [Next]_vars, NEW r \in Requests, Complete(r)
  PROVE  CompletionInv'
  <1>1. CASE CompleteLoad(r)
    BY <1>1, HarmlessGoto DEF CompleteLoad, db
  <1>2. CASE CompleteDecide(r)
    <2>1. ASSUME \A i \in Items : Outcome(i) \in TerminalFor(seen[r])
          PROVE  Accounted
      <3>1. SUFFICES ASSUME NEW i \in Items, gradings[i] = <<>> PROVE i \in ended
        BY DEF Accounted
      <3>2. Outcome(i) \in {"not_attempted", "grading"}
            /\ (Outcome(i) = "not_attempted" => i \notin artifacts)
        BY <3>1 DEF Outcome
      <3>3. seen[r] = "wrapping" /\ i \notin artifacts
        BY <2>1, <3>2 DEF TerminalFor
      <3>4. QED
        BY <3>3 DEF CompletionInv, Wrapped, Finished
    <2>2. QED
      BY <1>2, <2>1, HarmlessGoto DEF CompleteDecide, db
  <1>3. CASE CompleteWrite(r)
    <2>1. Accounted
      BY <1>3 DEF CompleteWrite, CompletionInv
    <2>2. QED
      BY <1>3, <2>1, HarmlessGoto DEF CompleteWrite
  <1>4. QED
    BY <1>1, <1>2, <1>3 DEF Complete

LEMMA TurnKeepsCompletion ==
  ASSUME TypeInv, CompletionInv, [Next]_vars, NEW t \in Turns, TurnStep(t)
  PROVE  CompletionInv'
  <1>1. t \in Requests
    BY DEF Requests
  <1>2. CASE TurnPick(t)
    <2>1. CASE \E i \in Items :
                 Move(t, IF seen[t] = "briefing" THEN "begin" ELSE "talking", seen[t], i)
      <3>1. seen[t] = "wrapping" => Wrapped
        BY <1>1 DEF CompletionInv
      <3>2. QED
        BY <1>1, <1>2, <2>1, <3>1, HarmlessMove DEF TurnPick, db
    <2>2. CASE Goto(t, "done")
      BY <1>1, <1>2, <2>2, HarmlessGoto DEF TurnPick, db
    <2>3. QED
      BY <1>2, <2>1, <2>2 DEF TurnPick
  <1>3. CASE TurnCheck(t)
    BY <1>1, <1>3, HarmlessGoto DEF TurnCheck, db, Wrapped
  <1>4. CASE TurnWrap(t)
    <2>1. Wrapped
      BY <1>1, <1>4 DEF TurnWrap, CompletionInv
    <2>2. QED
      BY <1>1, <1>4, <2>1, HarmlessGoto DEF TurnWrap
  <1>5. CASE TurnOpen(t) \/ TurnReply(t) \/ TurnFails(t)
    BY <1>1, <1>5, HarmlessGoto DEF TurnOpen, TurnReply, TurnFails, db
  <1>6. CASE TurnBegin(t) \/ TurnEndRound(t)
    BY <1>1, <1>6, HarmlessGoto DEF TurnBegin, TurnEndRound
  <1>7. CASE Complete(t)
    BY <1>1, <1>7, CompleteKeepsCompletion
  <1>8. QED
    BY <1>2, <1>3, <1>4, <1>5, <1>6, <1>7 DEF TurnStep, TurnProgress

LEMMA SubmitKeepsCompletion ==
  ASSUME TypeInv, CompletionInv, [Next]_vars, NEW s \in Submits, SubmitStep(s)
  PROVE  CompletionInv'
  <1>1. s \in Requests
    BY DEF Requests
  <1>2. CASE SubmitOpen(s)
    <2>1. status = "wrapping" => Wrapped
      BY DEF CompletionInv
    <2>2. QED
      BY <1>1, <1>2, <2>1, HarmlessMove DEF SubmitOpen, db
  <1>3. CASE SubmitInsert(s)
    BY <1>1, <1>3, HarmlessGoto DEF SubmitInsert
  <1>4. CASE SubmitCheck(s) \/ SubmitLoses(s) \/ GraderRaises(s)
    BY <1>1, <1>4, HarmlessGoto DEF SubmitCheck, SubmitLoses, GraderRaises, db
  <1>5. CASE RecordGrade(s) \/ RecordFailure(s) \/ RecordCrash(s)
    BY <1>1, <1>5, HarmlessGoto DEF RecordGrade, RecordFailure, RecordCrash
  <1>6. CASE Complete(s)
    BY <1>1, <1>6, CompleteKeepsCompletion
  <1>7. QED
    BY <1>2, <1>3, <1>4, <1>5, <1>6 DEF SubmitStep, SubmitProgress

LEMMA StepKeepsCompletion == TypeInv /\ CompletionInv /\ [Next]_vars => CompletionInv'
  <1> SUFFICES ASSUME TypeInv, CompletionInv, [Next]_vars PROVE CompletionInv'
    OBVIOUS
  <1>1. ASSUME NEW e \in Ends, EndStep(e) PROVE CompletionInv'
    <2>1. e \in Requests
      BY DEF Requests
    <2>2. CASE EndOpen(e)
      BY <2>1, <2>2, HarmlessGoto DEF EndOpen, db
    <2>3. CASE EndWrite(e)
      BY <2>1, <2>3, HarmlessGoto DEF EndWrite
    <2>4. QED
      BY <1>1, <2>2, <2>3 DEF EndStep
  <1>2. CASE UNCHANGED vars
    BY <1>2 DEF CompletionInv, Wrapped, Accounted, Finished, vars
  <1>3. QED
    BY <1>1, <1>2, TurnKeepsCompletion, SubmitKeepsCompletion DEF Next

\* A session that completes over an ungraded item completes over one the interviewer
\* ended, for any plan and any number of turns, submissions, graders and /end requests.
THEOREM CompletionIsAccounted == Spec => []CompleteAccounted
  <1>1. Spec => [](TypeInv /\ CompletionInv)
    BY InitTypes, StepTypes, InitCompletion, StepKeepsCompletion, PTL DEF Spec
  <1>2. CompletionInv => CompleteAccounted
    BY DEF CompletionInv, CompleteAccounted, Accounted
  <1>3. QED
    BY <1>1, <1>2, PTL

---------------------------------------------------------------------------
\* Judgement.  Each artifact has one grader, which files the item's first grading.

Grading(s) == pc[s] \in {"grade", "rescue", "settle", "outcomes", "close"}

JudgementInv ==
    /\ \A s \in Submits : Grading(s) => target[s] \in artifacts
    /\ \A s, u \in Submits : Grading(s) /\ Grading(u) /\ target[s] = target[u] => s = u
    /\ \A s \in Submits : pc[s] = "grade" => gradings[target[s]] = <<>>
    /\ \A s \in Submits : pc[s] = "rescue" => GradersRaise
    /\ \A i \in Items : gradings[i] # <<>> => i \in artifacts
    /\ \A i \in Items : evidence[i] = 0 \/ (evidence[i] = 1 /\ gradings[i] # <<>>
                                              /\ gradings[i][1] = "graded")

\* What filing a verdict does to an item's list of gradings.
LEMMA AppendVerdict ==
  ASSUME NEW g \in Seq(Judged), NEW o \in Judged
  PROVE  /\ Append(g, o) # <<>>
         /\ Append(g, o)[Len(Append(g, o))] = o
         /\ Append(g, o)[1] = IF g = <<>> THEN o ELSE g[1]
  OBVIOUS

LEMMA InitJudgement == Init => JudgementInv
  BY DEF Init, JudgementInv, Grading, Requests

\* Steps that file nothing: whoever moves is not grading afterwards, or goes on grading
\* the same item past its first grading.
LEMMA QuietKeepsJudgement ==
  ASSUME TypeInv, JudgementInv, UNCHANGED <<artifacts, gradings, evidence>>,
         \A s \in Submits : \/ pc'[s] = pc[s] /\ target'[s] = target[s]
                            \/ ~Grading(s)'
                            \/ /\ Grading(s) /\ pc'[s] # "grade" /\ target'[s] = target[s]
                               /\ pc'[s] = "rescue" => GradersRaise
  PROVE  JudgementInv'
  BY DEF JudgementInv, Grading

\* A move of one request leaves every other one where it is.
LEMMA OthersStay ==
  ASSUME TypeInv, NEW r \in Requests, NEW label, Goto(r, label) \/ LoadAndGoto(r, label),
         NEW q \in Requests
  PROVE  /\ q # r => pc'[q] = pc[q] /\ target'[q] = target[q]
         /\ pc'[r] = label
         /\ label # "done" => target'[r] = target[r]
  BY DEF TypeInv, TypeOK, Goto, LoadAndGoto, Move

LEMMA QuietGoto ==
  ASSUME TypeInv, JudgementInv, UNCHANGED <<artifacts, gradings, evidence>>,
         NEW r \in Requests, NEW label, Goto(r, label) \/ LoadAndGoto(r, label),
         \/ r \notin Submits
         \/ label \notin {"grade", "rescue", "settle", "outcomes", "close"}
         \/ Grading(r) /\ label # "grade" /\ (label = "rescue" => GradersRaise)
  PROVE  JudgementInv'
  <1>1. \A s \in Submits : s \in Requests
    BY DEF Requests
  <1>2. QED
    BY <1>1, OthersStay, QuietKeepsJudgement DEF Grading

\* A grader files a verdict.
LEMMA FilingKeepsJudgement ==
  ASSUME TypeInv, JudgementInv, NEW s \in Submits, Grading(s), NEW o \in Judged,
         AddGrading(s, o), Goto(s, "settle"), UNCHANGED artifacts,
         \/ evidence' = evidence
         \/ o = "graded" /\ pc[s] = "grade"
            /\ evidence' = [evidence EXCEPT ![target[s]] = @ + 1]
  PROVE  JudgementInv'
  <1>1. s \in Requests /\ (\A u \in Submits : u \in Requests)
    BY DEF Requests
  <1>2. target[s] \in Items /\ target[s] \in artifacts
    BY DEF TypeInv, Targeted, JudgementInv, Grading
  <1>3. gradings \in [Items -> Seq(Judged)] /\ evidence \in [Items -> Nat]
    BY DEF TypeInv, TypeOK, Judged
  <1>4. \A i \in Items : gradings'[i] = IF i = target[s] THEN Append(gradings[i], o)
                                                         ELSE gradings[i]
    BY <1>3 DEF AddGrading
  <1>5. \A u \in Submits : /\ Grading(u)' => Grading(u) /\ target'[u] = target[u]
                           /\ pc'[u] \in {"grade", "rescue"} => u # s /\ pc'[u] = pc[u]
    BY <1>1, OthersStay DEF Grading
  <1>6. ASSUME NEW u \in Submits, pc'[u] = "grade" PROVE gradings'[target'[u]] = <<>>
    <2>1. u # s /\ Grading(u) /\ pc[u] = "grade" /\ target'[u] = target[u]
      BY <1>5, <1>6 DEF Grading
    <2>2. target[u] # target[s] /\ target[u] \in Items
      BY <2>1 DEF JudgementInv, TypeInv, Targeted
    <2>3. QED
      BY <1>4, <2>1, <2>2 DEF JudgementInv
  <1>7. ASSUME NEW i \in Items
        PROVE  evidence'[i] = 0 \/ (evidence'[i] = 1 /\ gradings'[i] # <<>>
                                     /\ gradings'[i][1] = "graded")
    <2>1. CASE i # target[s]
      BY <1>3, <1>4, <2>1 DEF JudgementInv
    <2>2. CASE i = target[s]
      <3>1. gradings'[i] # <<>>
            /\ gradings'[i][1] = IF gradings[i] = <<>> THEN o ELSE gradings[i][1]
        <4>1. gradings'[i] = Append(gradings[i], o) /\ gradings[i] \in Seq(Judged)
          BY <1>3, <1>4, <2>2
        <4>2. QED
          BY <4>1, AppendVerdict
      <3>2. CASE evidence' = evidence
        BY <3>1, <3>2 DEF JudgementInv
      <3>3. CASE o = "graded" /\ pc[s] = "grade"
                 /\ evidence' = [evidence EXCEPT ![target[s]] = @ + 1]
        <4>1. gradings[i] = <<>>
          BY <2>2, <3>3 DEF JudgementInv
        <4>2. evidence[i] = 0
          BY <4>1 DEF JudgementInv
        <4>3. evidence'[i] = 1
          BY <1>3, <2>2, <3>3, <4>2
        <4>4. QED
          BY <3>1, <3>3, <4>1, <4>3
      <3>4. QED
        BY <3>2, <3>3
    <2>3. QED
      BY <2>1, <2>2
  <1>8. \A i \in Items : gradings'[i] # <<>> => i \in artifacts'
    BY <1>2, <1>4 DEF JudgementInv
  <1>9. \A u \in Submits : Grading(u)' => target'[u] \in artifacts'
    BY <1>5 DEF JudgementInv
  <1>10. \A u, v \in Submits : Grading(u)' /\ Grading(v)' /\ target'[u] = target'[v] => u = v
    BY <1>5 DEF JudgementInv
  <1>11. \A u \in Submits : pc'[u] = "rescue" => GradersRaise
    BY <1>5 DEF JudgementInv
  <1>12. QED
    BY <1>6, <1>7, <1>8, <1>9, <1>10, <1>11 DEF JudgementInv

\* The unique constraint: a new artifact's item has no other grader and no grading.
LEMMA InsertKeepsJudgement ==
  ASSUME TypeInv, JudgementInv, NEW s \in Submits, SubmitInsert(s)
  PROVE  JudgementInv'
  <1>1. s \in Requests /\ (\A u \in Submits : u \in Requests)
    BY DEF Requests
  <1>2. target[s] \in Items /\ target[s] \notin artifacts
    BY DEF SubmitInsert, TypeInv, Targeted
  <1>3. gradings[target[s]] = <<>>
    BY <1>2 DEF JudgementInv
  <1>4. /\ pc'[s] = "grade" /\ target'[s] = target[s]
        /\ \A u \in Submits : u # s => pc'[u] = pc[u] /\ target'[u] = target[u]
    BY <1>1, OthersStay DEF SubmitInsert
  <1>5. UNCHANGED <<gradings, evidence>> /\ artifacts' = artifacts \cup {target[s]}
    BY DEF SubmitInsert
  <1>6. \A u \in Submits : u # s /\ Grading(u)' => target'[u] # target'[s]
    BY <1>2, <1>4 DEF JudgementInv, Grading
  <1>7. QED
    BY <1>2, <1>3, <1>4, <1>5, <1>6 DEF JudgementInv, Grading

LEMMA CompleteKeepsJudgement ==
  ASSUME TypeInv, JudgementInv, NEW r \in Requests, Complete(r)
  PROVE  JudgementInv'
  BY QuietGoto DEF Complete, CompleteLoad, CompleteDecide, CompleteWrite, Grading, db

LEMMA TurnKeepsJudgement ==
  ASSUME TypeInv, JudgementInv, NEW t \in Turns, TurnStep(t)
  PROVE  JudgementInv'
  <1>1. t \in Requests /\ t \notin Submits
    BY RequestAssumption DEF Requests
  <1>2. CASE TurnPick(t)
    <2>1. \A s \in Submits : pc'[s] = pc[s] /\ target'[s] = target[s]
      BY <1>1, <1>2 DEF TurnPick, Goto, Move, TypeInv, TypeOK, Requests
    <2>2. QED
      BY <1>2, <2>1, QuietKeepsJudgement DEF TurnPick, db
  <1>3. CASE Complete(t)
    BY <1>1, <1>3, CompleteKeepsJudgement
  <1>4. CASE TurnOpen(t) \/ TurnReply(t) \/ TurnFails(t) \/ TurnCheck(t)
    BY <1>1, <1>4, QuietGoto DEF TurnOpen, TurnReply, TurnFails, TurnCheck, db
  <1>5. CASE TurnBegin(t) \/ TurnEndRound(t) \/ TurnWrap(t)
    BY <1>1, <1>5, QuietGoto DEF TurnBegin, TurnEndRound, TurnWrap
  <1>6. QED
    BY <1>2, <1>3, <1>4, <1>5 DEF TurnStep, TurnProgress

LEMMA SubmitKeepsJudgement ==
  ASSUME TypeInv, JudgementInv, NEW s \in Submits, SubmitStep(s)
  PROVE  JudgementInv'
  <1>1. s \in Requests
    BY DEF Requests
  <1>2. CASE SubmitOpen(s)
    <2>1. \A u \in Submits : \/ pc'[u] = pc[u] /\ target'[u] = target[u]
                             \/ pc'[u] \in {"opened", "done"}
      BY <1>1, <1>2 DEF SubmitOpen, Move, TypeInv, TypeOK, Requests
    <2>2. QED
      BY <1>2, <2>1, QuietKeepsJudgement DEF SubmitOpen, Grading, db
  <1>3. CASE SubmitCheck(s) \/ SubmitLoses(s)
    BY <1>1, <1>3, QuietGoto DEF SubmitCheck, SubmitLoses, db
  <1>4. CASE SubmitInsert(s)
    BY <1>4, InsertKeepsJudgement
  <1>5. CASE RecordGrade(s)
    BY <1>5, FilingKeepsJudgement DEF RecordGrade, Grading, Judged
  <1>6. CASE RecordFailure(s)
    BY <1>6, FilingKeepsJudgement DEF RecordFailure, Grading, Judged
  <1>7. CASE RecordCrash(s)
    BY <1>7, FilingKeepsJudgement DEF RecordCrash, Grading, Judged
  <1>8. CASE GraderRaises(s)
    BY <1>1, <1>8, QuietGoto DEF GraderRaises, Grading, db
  <1>9. CASE Complete(s)
    BY <1>1, <1>9, CompleteKeepsJudgement
  <1>10. QED
    BY <1>2, <1>3, <1>4, <1>5, <1>6, <1>7, <1>8, <1>9 DEF SubmitStep, SubmitProgress

LEMMA StepKeepsJudgement == TypeInv /\ JudgementInv /\ [Next]_vars => JudgementInv'
  <1> SUFFICES ASSUME TypeInv, JudgementInv, [Next]_vars PROVE JudgementInv'
    OBVIOUS
  <1>1. ASSUME NEW e \in Ends, EndStep(e) PROVE JudgementInv'
    <2>1. e \in Requests /\ e \notin Submits
      BY RequestAssumption DEF Requests
    <2>2. QED
      BY <1>1, <2>1, QuietGoto DEF EndStep, EndOpen, EndWrite, db
  <1>2. CASE UNCHANGED vars
    BY <1>2 DEF JudgementInv, Grading, vars
  <1>3. QED
    BY <1>1, <1>2, TurnKeepsJudgement, SubmitKeepsJudgement DEF Next

LEMMA JudgementInvariant == Spec => [](TypeInv /\ JudgementInv)
  BY InitTypes, StepTypes, InitJudgement, StepKeepsJudgement, PTL DEF Spec

\* However many submissions race for an item and whichever graders crash, one set of
\* evidence at most is written for it, and only by a grading that passed.
THEOREM JudgedAtMostOnce == Spec => []JudgedOnce
  <1>1. TypeInv /\ JudgementInv => JudgedOnce
    BY DEF TypeInv, TypeOK, JudgementInv, JudgedOnce
  <1>2. QED
    BY <1>1, JudgementInvariant, PTL

---------------------------------------------------------------------------
\* The item record implements ItemVerdicts

\* A step that leaves the artifacts, gradings and evidence alone is a stutter there.
LEMMA SameRecordStutters ==
  ASSUME UNCHANGED <<artifacts, gradings, evidence>>
  PROVE  UNCHANGED Verdicts!verdictVars
  BY DEF Verdicts!verdictVars, Outcome

LEMMA InsertRefines ==
  ASSUME TypeInv, JudgementInv, NEW s \in Submits, SubmitInsert(s)
  PROVE  Verdicts!VerdictNext
  <1>1. /\ target[s] \in Items /\ target[s] \notin artifacts
        /\ UNCHANGED <<gradings, evidence>> /\ artifacts' = artifacts \cup {target[s]}
    BY DEF SubmitInsert, TypeInv, Targeted
  <1>2. gradings[target[s]] = <<>>
    BY <1>1 DEF JudgementInv
  <1>3. Verdicts!Submit(target[s])
    BY <1>1, <1>2 DEF Verdicts!Submit, Outcome
  <1>4. QED
    BY <1>1, <1>3 DEF Verdicts!VerdictNext, Verdicts!AllItems, Items

LEMMA FilingRefines ==
  ASSUME TypeInv, JudgementInv, NEW s \in Submits, Grading(s), NEW o \in Judged,
         AddGrading(s, o), UNCHANGED artifacts,
         \/ o = "graded" /\ pc[s] = "grade"
            /\ evidence' = [evidence EXCEPT ![target[s]] = @ + 1]
         \/ o = "failed" /\ evidence' = evidence /\ (pc[s] = "grade" \/ GradersRaise)
  PROVE  Verdicts!VerdictNext \/ UNCHANGED Verdicts!verdictVars
  <1>1. PICK i \in Items : i = target[s]
    BY DEF TypeInv, Targeted, Grading
  <1>2. i \in Items /\ i \in artifacts
    BY <1>1 DEF JudgementInv
  <1>3. gradings \in [Items -> Seq(Judged)] /\ evidence \in [Items -> Nat]
    BY DEF TypeInv, TypeOK, Judged
  <1>4. \A j \in Items : gradings'[j] = IF j = i THEN Append(gradings[j], o) ELSE gradings[j]
    BY <1>1, <1>3 DEF AddGrading
  <1>5. gradings'[i] # <<>> /\ gradings'[i][Len(gradings'[i])] = o
    <2>1. gradings[i] \in Seq(Judged) /\ gradings'[i] = Append(gradings[i], o)
      BY <1>2, <1>3, <1>4
    <2>2. QED
      BY <2>1, AppendVerdict
  <1>6. Outcome(i)' = o /\ (\A j \in Items : j # i => Outcome(j)' = Outcome(j))
    BY <1>2, <1>4, <1>5 DEF Outcome
  <1>7. [j \in Items |-> Outcome(j)]' = [[j \in Items |-> Outcome(j)] EXCEPT ![i] = o]
    BY <1>2, <1>6
  <1>8. Outcome(i) \in {"grading", "graded", "failed"}
        /\ (Outcome(i) = "grading" <=> gradings[i] = <<>>)
    BY <1>2, <1>3 DEF Outcome, Judged
  <1>9. CASE o = "graded" /\ pc[s] = "grade"
             /\ evidence' = [evidence EXCEPT ![target[s]] = @ + 1]
    <2>1. Outcome(i) = "grading"
      BY <1>1, <1>8, <1>9 DEF JudgementInv
    <2>2. {j \in Items : evidence[j] > 0}' = {j \in Items : evidence[j] > 0} \cup {i}
      BY <1>1, <1>2, <1>3, <1>9
    <2>3. Verdicts!Pass(i)
      BY <1>2, <1>7, <1>9, <2>1, <2>2 DEF Verdicts!Pass
    <2>4. QED
      BY <1>2, <2>3 DEF Verdicts!VerdictNext, Verdicts!AllItems, Items
  <1>10. CASE o = "failed" /\ evidence' = evidence /\ (pc[s] = "grade" \/ GradersRaise)
    <2>1. CASE Outcome(i) = "grading"
      <3>1. Verdicts!Fail(i)
        BY <1>2, <1>7, <1>10, <2>1 DEF Verdicts!Fail
      <3>2. QED
        BY <1>2, <3>1 DEF Verdicts!VerdictNext, Verdicts!AllItems, Items
    <2>2. CASE Outcome(i) = "graded"
      <3>1. GradersRaise
        BY <1>1, <1>8, <1>10, <2>2 DEF JudgementInv
      <3>2. Verdicts!Overrule(i)
        BY <1>2, <1>7, <1>10, <2>2, <3>1 DEF Verdicts!Overrule
      <3>3. QED
        BY <1>2, <3>2 DEF Verdicts!VerdictNext, Verdicts!AllItems, Items
    <2>3. CASE Outcome(i) = "failed"
      BY <1>2, <1>7, <1>10, <2>3 DEF Verdicts!verdictVars
    <2>4. QED
      BY <1>8, <2>1, <2>2, <2>3
  <1>11. QED
    BY <1>9, <1>10

LEMMA StepRefines ==
  TypeInv /\ JudgementInv /\ [Next]_vars => [Verdicts!VerdictNext]_(Verdicts!verdictVars)
  <1> SUFFICES ASSUME TypeInv, JudgementInv, [Next]_vars
               PROVE  Verdicts!VerdictNext \/ UNCHANGED Verdicts!verdictVars
    OBVIOUS
  <1>1. ASSUME NEW r \in Requests, Complete(r)
        PROVE  UNCHANGED <<artifacts, gradings, evidence>>
    BY <1>1 DEF Complete, CompleteLoad, CompleteDecide, CompleteWrite, db
  <1>2. ASSUME NEW t \in Turns, TurnStep(t)
        PROVE  UNCHANGED <<artifacts, gradings, evidence>>
    <2>1. t \in Requests
      BY DEF Requests
    <2>2. CASE Complete(t)
      BY <1>1, <2>1, <2>2
    <2>3. CASE ~Complete(t)
      BY <1>2, <2>3
      DEF TurnStep, TurnProgress, TurnOpen, TurnPick, TurnBegin, TurnEndRound, TurnReply,
          TurnFails, TurnCheck, TurnWrap, db
    <2>4. QED
      BY <2>2, <2>3
  <1>3. ASSUME NEW e \in Ends, EndStep(e)
        PROVE  UNCHANGED <<artifacts, gradings, evidence>>
    BY <1>3 DEF EndStep, EndOpen, EndWrite, db
  <1>4. ASSUME NEW s \in Submits, SubmitStep(s)
        PROVE  Verdicts!VerdictNext \/ UNCHANGED Verdicts!verdictVars
    <2>1. s \in Requests
      BY DEF Requests
    <2>2. CASE Complete(s)
      BY <1>1, <2>1, <2>2, SameRecordStutters
    <2>3. CASE SubmitInsert(s)
      BY <2>3, InsertRefines
    <2>4. CASE RecordGrade(s)
      BY <2>4, FilingRefines DEF RecordGrade, Grading, Judged
    <2>5. CASE RecordFailure(s)
      BY <2>5, FilingRefines DEF RecordFailure, Grading, Judged
    <2>6. CASE RecordCrash(s)
      <3>1. GradersRaise
        BY <2>6 DEF RecordCrash, JudgementInv
      <3>2. QED
        BY <2>6, <3>1, FilingRefines DEF RecordCrash, Grading, Judged
    <2>7. CASE SubmitOpen(s) \/ SubmitCheck(s) \/ SubmitLoses(s) \/ GraderRaises(s)
      <3>1. UNCHANGED <<artifacts, gradings, evidence>>
        BY <2>7 DEF SubmitOpen, SubmitCheck, SubmitLoses, GraderRaises, db
      <3>2. QED
        BY <3>1, SameRecordStutters
    <2>8. QED
      BY <1>4, <2>2, <2>3, <2>4, <2>5, <2>6, <2>7 DEF SubmitStep, SubmitProgress
  <1>5. CASE UNCHANGED vars
    BY <1>5, SameRecordStutters DEF vars
  <1>6. QED
    BY <1>1, <1>2, <1>3, <1>4, <1>5, SameRecordStutters DEF Next

\* Seen item by item, every behaviour of the session's requests is one ItemVerdicts allows.
THEOREM RefinesVerdicts == Spec => ImplementsVerdicts
  <1>1. Init => Verdicts!VerdictInit
    BY DEF Init, Verdicts!VerdictInit, Outcome, Verdicts!AllItems, Items
  <1>2. QED
    BY <1>1, JudgementInvariant, StepRefines, PTL
    DEF Spec, ImplementsVerdicts, Verdicts!Spec

---------------------------------------------------------------------------
\* Without turns

\* Where no interviewer runs, the writes of submissions, graders and /end alone never
\* leave ended_at beside a status that is not terminal.
THEOREM EndedWithoutTurns == ASSUME Turns = {} PROVE Spec => []EndedIsTerminal
  <1>1. Init => EndedIsTerminal
    BY DEF Init, EndedIsTerminal
  <1>2. EndedIsTerminal /\ [Next]_vars => EndedIsTerminal'
    <2> SUFFICES ASSUME EndedIsTerminal, [Next]_vars PROVE EndedIsTerminal'
      OBVIOUS
    <2> USE DEF EndedIsTerminal, Reportable
    <2>1. ASSUME NEW s \in Submits, SubmitStep(s) PROVE EndedIsTerminal'
      <3>1. CASE SubmitInsert(s)
        BY <3>1 DEF SubmitInsert
      <3>2. CASE Complete(s)
        BY <3>2 DEF Complete, CompleteLoad, CompleteDecide, CompleteWrite, db
      <3>3. CASE ~SubmitInsert(s) /\ ~Complete(s)
        BY <2>1, <3>3
        DEF SubmitStep, SubmitProgress, SubmitOpen, SubmitCheck, SubmitLoses, RecordGrade,
            RecordFailure, RecordCrash, GraderRaises, db
      <3>4. QED
        BY <3>1, <3>2, <3>3
    <2>2. ASSUME NEW e \in Ends, EndStep(e) PROVE EndedIsTerminal'
      BY <2>2 DEF EndStep, EndOpen, EndWrite, db
    <2>3. CASE UNCHANGED vars
      BY <2>3 DEF vars
    <2>4. QED
      BY <2>1, <2>2, <2>3 DEF Next
  <1>3. QED
    BY <1>1, <1>2, PTL DEF Spec
---------------------------------------------------------------------------
\* Numbers and lists

\* A non-empty set of numbers has a least element.
LEMMA LeastNumber ==
  ASSUME NEW S \in SUBSET Nat, S # {}
  PROVE  \E n \in S : \A m \in S : n <= m
  <1> DEFINE R == OpToRel(<, Nat)
  <1>1. IsWellFoundedOn(R, Nat)
    BY NatLessThanWellFounded
  <1>2. \A n, m \in Nat : m < n => <<m, n>> \in R
    BY DEF OpToRel
  <1> HIDE DEF R
  <1>3. PICK n \in S : \A m \in S : ~(<<m, n>> \in R)
    BY <1>1, WFMin
  <1>4. \A m \in S : n <= m
    <2>1. SUFFICES ASSUME NEW m \in S PROVE n <= m
      OBVIOUS
    <2>2. n \in Nat /\ m \in Nat
      OBVIOUS
    <2>3. ~(m < n)
      BY <1>2, <1>3, <2>2, Zenon
    <2>4. QED
      BY <2>2, <2>3
  <1>5. QED
    BY <1>4

\* A non-empty set of numbers up to a bound has a greatest one, which is what Max is.
LEMMA MaxOf ==
  ASSUME NEW top \in Nat, NEW S \in SUBSET (0 .. top), S # {}
  PROVE  Max(S) \in S /\ \A m \in S : m <= Max(S)
  <1> DEFINE T == {n \in Nat : \E m \in S : n = top - m}
  <1>1. PICK n \in T : \A m \in T : n <= m
    <2>1. PICK m \in S : m \in 0 .. top
      OBVIOUS
    <2>2. top - m \in T
      BY <2>1
    <2>3. T \in SUBSET Nat /\ T # {}
      BY <2>2
    <2> HIDE DEF T
    <2>4. QED
      BY <2>3, LeastNumber
  <1>2. top - n \in S /\ \A m \in S : m <= top - n
    BY <1>1
  <1>3. QED
    BY <1>2 DEF Max

\* How many members a finite set of numbers has up to m tells its members apart and takes every
\* value up to their number.
LEMMA RankOf ==
  ASSUME NEW S \in SUBSET Nat, IsFiniteSet(S)
  PROVE  /\ Cardinality(S) \in Nat
         /\ \A m \in S : Cardinality({k \in S : k <= m}) \in 1 .. Cardinality(S)
         /\ \A m, n \in S : Cardinality({k \in S : k <= m}) = Cardinality({k \in S : k <= n}) => m = n
         /\ \A r \in 1 .. Cardinality(S) : \E m \in S : Cardinality({k \in S : k <= m}) = r
  <1> DEFINE upTo(m) == {k \in S : k <= m}
             rank == [m \in S |-> Cardinality(upTo(m))]
             N == Cardinality(S)
  <1>1. N \in Nat
    BY FS_CardinalityType
  <1>2. \A m \in S : /\ upTo(m) \in SUBSET S /\ IsFiniteSet(upTo(m))
                     /\ Cardinality(upTo(m)) \in Nat /\ Cardinality(upTo(m)) <= N
    <2>1. SUFFICES ASSUME NEW m \in S
                   PROVE  /\ upTo(m) \in SUBSET S /\ IsFiniteSet(upTo(m))
                          /\ Cardinality(upTo(m)) \in Nat /\ Cardinality(upTo(m)) <= N
      OBVIOUS
    <2>2. upTo(m) \in SUBSET S
      OBVIOUS
    <2> HIDE DEF upTo
    <2>3. IsFiniteSet(upTo(m)) /\ Cardinality(upTo(m)) <= N
      BY <2>2, FS_Subset
    <2>4. QED
      BY <2>2, <2>3, FS_CardinalityType
  <1>3. \A m \in S : Cardinality(upTo(m)) # 0
    <2>1. \A m \in S : m \in upTo(m)
      OBVIOUS
    <2> HIDE DEF upTo
    <2>2. QED
      BY <1>2, <2>1, FS_EmptySet
  <1>4. \A m, n \in S : m < n => Cardinality(upTo(m)) # Cardinality(upTo(n))
    <2>1. SUFFICES ASSUME NEW m \in S, NEW n \in S, m < n, Cardinality(upTo(m)) = Cardinality(upTo(n))
                   PROVE  FALSE
      OBVIOUS
    <2>2. upTo(m) \in SUBSET upTo(n) /\ n \in upTo(n) /\ n \notin upTo(m)
      <3>1. m \in Nat /\ n \in Nat /\ \A k \in S : k \in Nat
        OBVIOUS
      <3>2. \A k \in upTo(m) : k \in upTo(n)
        BY <2>1, <3>1
      <3>3. n \in upTo(n) /\ n \notin upTo(m)
        BY <2>1, <3>1
      <3>4. QED
        BY <3>2, <3>3
    <2> HIDE DEF upTo
    <2>3. upTo(m) = upTo(n)
      BY <1>2, <2>1, <2>2, FS_Subset
    <2>4. QED
      BY <2>2, <2>3
  <1>5. \A m, n \in S : Cardinality(upTo(m)) = Cardinality(upTo(n)) => m = n
    BY <1>4
  <1>6. rank \in Injection(S, 1 .. N)
    <2>1. rank \in [S -> 1 .. N]
      <3> HIDE DEF upTo
      <3>1. QED
        BY <1>1, <1>2, <1>3
    <2>2. \A m, n \in S : rank[m] = rank[n] => m = n
      BY <1>5
    <2> HIDE DEF rank
    <2>3. QED
      BY <2>1, <2>2 DEF Injection, IsInjective
  <1>7. rank \in Surjection(S, 1 .. N)
    <2>1. IsFiniteSet(1 .. N) /\ Cardinality(1 .. N) = N
      BY <1>1, FS_Interval
    <2> HIDE DEF rank
    <2>2. QED
      BY <1>6, <2>1, FS_Injection
  <1>8. \A r \in 1 .. N : \E m \in S : rank[m] = r
    <2> HIDE DEF rank
    <2>1. QED
      BY <1>7 DEF Surjection
  <1>9. QED
    BY <1>1, <1>2, <1>3, <1>5, <1>8

\* Ascending lists every member of a finite set of numbers, once.
LEMMA AscendingLists ==
  ASSUME NEW S \in SUBSET Nat, IsFiniteSet(S)
  PROVE  /\ DOMAIN Ascending(S) = 1 .. Cardinality(S) /\ Cardinality(S) \in Nat
         /\ \A n \in DOMAIN Ascending(S) : Ascending(S)[n] \in S
         /\ \A n, k \in DOMAIN Ascending(S) : Ascending(S)[n] = Ascending(S)[k] => n = k
         /\ Ascending(S) \in Seq(S) /\ Len(Ascending(S)) = Cardinality(S)
  <1> DEFINE rank(m) == Cardinality({k \in S : k <= m})
             at(n) == CHOOSE m \in S : rank(m) = n
  <1>1. /\ Cardinality(S) \in Nat
        /\ \A r \in 1 .. Cardinality(S) : \E m \in S : rank(m) = r
    BY RankOf
  <1>2. Ascending(S) = [n \in 1 .. Cardinality(S) |-> at(n)]
    BY DEF Ascending
  <1> HIDE DEF rank
  <1>3. \A n \in 1 .. Cardinality(S) : at(n) \in S /\ rank(at(n)) = n
    BY <1>1
  <1> HIDE DEF at
  <1>4. QED
    BY <1>1, <1>2, <1>3

\* What is picked from a list is what stands at the places, and no place is picked twice.
LEMMA PickedIs ==
  ASSUME NEW T, NEW seq \in Seq(T), NEW places \in SUBSET DOMAIN seq
  PROVE  /\ Picked(seq, places) \in Seq(T)
         /\ Range(Picked(seq, places)) = {seq[n] : n \in places}
         /\ IsInjective(seq) => IsInjective(Picked(seq, places))
         /\ DOMAIN Picked(seq, places) = 1 .. Len(Picked(seq, places))
  <1> DEFINE asc == Ascending(places)
  <1>1. IsFiniteSet(places) /\ places \in SUBSET Nat
    <2>1. DOMAIN seq = 1 .. Len(seq) /\ Len(seq) \in Nat
      OBVIOUS
    <2>2. IsFiniteSet(DOMAIN seq)
      BY <2>1, FS_Interval
    <2>3. QED
      BY <2>1, <2>2, FS_Subset
  <1>2. /\ DOMAIN asc = 1 .. Cardinality(places) /\ Cardinality(places) \in Nat
        /\ \A n \in DOMAIN asc : asc[n] \in places
        /\ \A n, k \in DOMAIN asc : asc[n] = asc[k] => n = k
    BY <1>1, AscendingLists
  <1>3. \A m \in places : \E n \in DOMAIN asc : asc[n] = m
    <2> DEFINE rank(m) == Cardinality({k \in places : k <= m})
               at(n) == CHOOSE m \in places : rank(m) = n
    <2>1. /\ \A m \in places : rank(m) \in 1 .. Cardinality(places)
          /\ \A m, n \in places : rank(m) = rank(n) => m = n
      BY <1>1, RankOf
    <2>2. asc = [n \in 1 .. Cardinality(places) |-> at(n)]
      BY DEF Ascending
    <2> HIDE DEF rank, asc
    <2>3. SUFFICES ASSUME NEW m \in places PROVE \E n \in DOMAIN asc : asc[n] = m
      OBVIOUS
    <2>4. at(rank(m)) \in places /\ rank(at(rank(m))) = rank(m)
      OBVIOUS
    <2>5. at(rank(m)) = m
      BY <2>1, <2>4
    <2>6. QED
      BY <2>1, <2>2, <2>5
  <1>4. Picked(seq, places) = [n \in DOMAIN asc |-> seq[asc[n]]]
    BY DEF Picked
  <1> HIDE DEF asc
  <1>5. Picked(seq, places) \in Seq(T)
    BY <1>2, <1>4
  <1>6. Range(Picked(seq, places)) = {seq[n] : n \in places}
    BY <1>2, <1>3, <1>4 DEF Range
  <1>7. IsInjective(seq) => IsInjective(Picked(seq, places))
    BY <1>2, <1>4 DEF IsInjective
  <1>8. QED
    BY <1>5, <1>6, <1>7

\* All but the last of a list, and the last.
LEMMA FrontIs ==
  ASSUME NEW T, NEW seq \in Seq(T), seq # <<>>
  PROVE  /\ Len(seq) \in Nat \ {0} /\ Last(seq) = seq[Len(seq)] /\ Last(seq) \in T
         /\ Front(seq) \in Seq(T) /\ Len(Front(seq)) = Len(seq) - 1
         /\ \A n \in 1 .. Len(seq) - 1 : Front(seq)[n] = seq[n]
  BY DEF Front, Last

---------------------------------------------------------------------------
\* The walk that looks for cycles

Colours == {"white", "grey", "black"}

WalkTyped ==
    /\ graph \in [Concepts -> Seq(Nat)]
    /\ colour \in [Concepts -> Colours]
    /\ stack \in Seq(Concepts \X BOOLEAN)
    /\ path \in Seq(Concepts)

\* Where on the stack the concepts of the path will be left.
Marked(at) ==
    /\ at \in [1 .. Len(path) -> 1 .. Len(stack)]
    /\ \A j, k \in 1 .. Len(path) : j < k => at[j] < at[k]
    /\ \A k \in 1 .. Len(path) : stack[at[k]][1] = path[k] /\ stack[at[k]][2]
    /\ \A n \in 1 .. Len(stack) : stack[n][2] => \E k \in 1 .. Len(path) : at[k] = n

\* What waits above a mark, and below the next, is a prerequisite of its concept.
Waits(at, n, k) ==
    ~stack[n][2] /\ at[k] < n /\ \A j \in 1 .. Len(path) : at[j] < n => j <= k

Above(at) ==
    \A n \in 1 .. Len(stack), k \in 1 .. Len(path) :
        Waits(at, n, k) => stack[n][1] \in Range(graph[path[k]])

\* No prerequisite of a concept on the path has been forgotten.
Kept(at) ==
    cycles = {} =>
        \A k \in 1 .. Len(path) : \A p \in Range(graph[path[k]]) \cap Concepts :
            colour[p] = "black" \/ \E n \in 1 .. Len(stack) : n > at[k] /\ stack[n][1] = p

\* The path is a way through the graph and holds what is grey.
OnPath ==
    /\ \A k \in 1 .. Len(path) - 1 : path[k + 1] \in Range(graph[path[k]])
    /\ \A j, k \in 1 .. Len(path) : path[j] = path[k] => j = k
    /\ \A c \in Concepts : colour[c] = "grey" <=> \E k \in 1 .. Len(path) : path[k] = c

\* What was left has nothing under it that was not, and no cycle goes through it.
Done(c) == colour[c] = "black"
Left ==
    cycles = {} =>
        /\ \A c \in Concepts : Done(c) => \A p \in Range(graph[c]) \cap Concepts : Done(p)
        /\ \A S \in (SUBSET Concepts) \ {{}} : (\A c \in S : Done(c)) => \E c \in S : Range(graph[c]) \cap S = {}

CyclesReal ==
    \A cycle \in cycles :
        /\ cycle \in Seq(Concepts) /\ Len(cycle) >= 2 /\ cycle[1] = cycle[Len(cycle)]
        /\ \A k \in 1 .. Len(cycle) - 1 : cycle[k + 1] \in Range(graph[cycle[k]])

Walking == \E at : Marked(at) /\ Above(at) /\ Kept(at)

WalkInv == WalkTyped /\ Walking /\ OnPath /\ Left /\ CyclesReal

LEMMA LeastIn ==
  ASSUME NEW S \in SUBSET Nat, S # {}
  PROVE  Min(S) \in S
  <1>1. PICK n \in S : \A m \in S : n <= m
    BY LeastNumber
  <1>2. QED
    BY <1>1 DEF Min

\* The top of a stack that is not empty.
LEMMA TopIs ==
  ASSUME WalkTyped, stack # <<>>
  PROVE  /\ Len(stack) \in Nat \ {0} /\ Top = stack[Len(stack)] /\ Top \in Concepts \X BOOLEAN
         /\ Front(stack) \in Seq(Concepts \X BOOLEAN) /\ Len(Front(stack)) = Len(stack) - 1
         /\ \A n \in 1 .. Len(stack) - 1 : Front(stack)[n] = stack[n]
         /\ \A n \in 1 .. Len(stack) : stack[n] \in Concepts \X BOOLEAN
         /\ Len(path) \in Nat
  <1>1. stack \in Seq(Concepts \X BOOLEAN) /\ path \in Seq(Concepts)
    BY DEF WalkTyped
  <1>2. /\ Len(stack) \in Nat \ {0} /\ Last(stack) = stack[Len(stack)] /\ Last(stack) \in Concepts \X BOOLEAN
        /\ Front(stack) \in Seq(Concepts \X BOOLEAN) /\ Len(Front(stack)) = Len(stack) - 1
        /\ \A n \in 1 .. Len(stack) - 1 : Front(stack)[n] = stack[n]
    BY <1>1, FrontIs
  <1>3. QED
    BY <1>1, <1>2 DEF Top

LEMMA WalkBegins == CorpusInit => WalkInv
  <1>1. SUFFICES ASSUME CorpusInit PROVE WalkInv
    OBVIOUS
  <1>2. WalkTyped
    BY <1>1, CorpusAssumption DEF CorpusInit, WalkTyped, Colours
  <1>3. Walking
    <2> DEFINE at == [k \in 1 .. 0 |-> 0]
    <2>1. Len(path) = 0 /\ Len(stack) = 0 /\ 1 .. 0 = {}
      BY <1>1 DEF CorpusInit
    <2>2. at \in [1 .. 0 -> 1 .. 0]
      BY <2>1
    <2> HIDE DEF at
    <2>3. QED
      BY <2>1, <2>2 DEF Walking, Marked, Above, Kept
  <1>4. Len(path) = 0 /\ cycles = {} /\ \A c \in Concepts : colour[c] = "white"
    BY <1>1 DEF CorpusInit
  <1>5. OnPath
    BY <1>4 DEF OnPath
  <1>6. Left /\ CyclesReal
    <2>1. \A c \in Concepts : ~Done(c)
      BY <1>4 DEF Done
    <2>2. \A S \in (SUBSET Concepts) \ {{}} : \E c \in S : ~Done(c)
      BY <2>1
    <2>3. QED
      BY <1>4, <2>1, <2>2 DEF Left, CyclesReal
  <1>7. QED
    BY <1>2, <1>3, <1>5, <1>6 DEF WalkInv

LEMMA RootStep ==
  ASSUME WalkInv, Root
  PROVE  WalkInv'
  <1>1. White \in SUBSET Nat /\ White # {} /\ White \subseteq Concepts
    BY CorpusAssumption DEF Root, White
  <1>2. Min(White) \in Concepts
    BY <1>1, LeastIn
  <1> DEFINE c == Min(White)
  <1> HIDE DEF c
  <1>3. /\ stack = <<>> /\ stack' = << <<c, FALSE>> >> /\ c \in Concepts
        /\ graph' = graph /\ colour' = colour /\ path' = path /\ cycles' = cycles
    BY <1>2 DEF Root, c
  <1>4. WalkTyped'
    <2>1. <<c, FALSE>> \in Concepts \X BOOLEAN
      BY <1>3
    <2>2. stack' \in Seq(Concepts \X BOOLEAN)
      BY <1>3, <2>1
    <2>3. QED
      BY <1>3, <2>2 DEF WalkInv, WalkTyped
  <1>5. Walking'
    <2>1. PICK at : Marked(at) /\ Above(at) /\ Kept(at)
      BY DEF WalkInv, Walking
    <2>2. Len(path) = 0
      <3>1. Len(path) \in Nat /\ (Len(path) # 0 => 1 \in 1 .. Len(path))
        BY DEF WalkInv, WalkTyped
      <3>2. Len(stack) = 0
        BY <1>3
      <3>3. QED
        BY <2>1, <3>1, <3>2 DEF Marked
    <2>3. Marked(at)'
      <3>1. at \in [1 .. 0 -> 1 .. 1]
        BY <2>1, <2>2, <1>3 DEF Marked
      <3>2. Len(stack') = 1 /\ stack'[1][2] = FALSE /\ Len(path') = 0
        BY <1>3, <2>2
      <3>3. 1 .. 0 = {} /\ 1 .. 1 = {1}
        OBVIOUS
      <3>4. QED
        BY <3>1, <3>2, <3>3 DEF Marked
    <2>4. Above(at)' /\ Kept(at)'
      BY <1>3, <2>2 DEF Above, Kept
    <2>5. QED
      BY <2>3, <2>4 DEF Walking
  <1>6. OnPath' /\ Left' /\ CyclesReal'
    BY <1>3 DEF WalkInv, OnPath, Left, CyclesReal, Done
  <1>7. QED
    BY <1>4, <1>5, <1>6 DEF WalkInv

\* What is taken from the stack was not a mark and is done with, or is a cycle.
LEMMA TakenStep ==
  ASSUME WalkInv, stack # <<>>, ~Top[2], stack' = Front(stack),
         UNCHANGED <<graph, colour, path>>,
         cycles' # {} \/ (cycles' = cycles /\ colour[Top[1]] = "black")
  PROVE  WalkTyped' /\ Walking' /\ OnPath'
  <1> DEFINE N == Len(stack)
  <1>1. WalkTyped
    BY DEF WalkInv
  <1>2. /\ N \in Nat \ {0} /\ Top = stack[N] /\ stack' \in Seq(Concepts \X BOOLEAN) /\ Len(stack') = N - 1
        /\ \A n \in 1 .. N - 1 : stack'[n] = stack[n]
        /\ Len(path) \in Nat
    BY <1>1, TopIs
  <1>3. WalkTyped'
    BY <1>1, <1>2 DEF WalkTyped
  <1>4. Walking'
    <2>1. PICK at : Marked(at) /\ Above(at) /\ Kept(at)
      BY DEF WalkInv, Walking
    <2>2. \A k \in 1 .. Len(path) : at[k] \in 1 .. N /\ at[k] # N
      <3>1. \A k \in 1 .. Len(path) : at[k] \in 1 .. N
        BY <2>1 DEF Marked
      <3>2. \A k \in 1 .. Len(path) : stack[at[k]][2]
        BY <2>1 DEF Marked
      <3>3. QED
        BY <1>2, <3>1, <3>2
    <2> HIDE DEF N
    <2>3. Marked(at)'
      <3>1. at \in [1 .. Len(path') -> 1 .. Len(stack')]
        BY <1>2, <2>1, <2>2 DEF Marked, N
      <3>2. ASSUME NEW k \in 1 .. Len(path') PROVE stack'[at[k]][1] = path'[k] /\ stack'[at[k]][2]
        <4>1. stack[at[k]][1] = path[k] /\ stack[at[k]][2]
          BY <2>1 DEF Marked
        <4>2. at[k] \in 1 .. N - 1
          BY <1>2, <2>2
        <4>3. QED
          BY <1>2, <4>1, <4>2
      <3>3. \A n \in 1 .. Len(stack') : stack'[n][2] => \E k \in 1 .. Len(path') : at[k] = n
        <4>1. \A n \in 1 .. N - 1 : n \in 1 .. N
          BY <1>2
        <4>2. QED
          BY <1>2, <2>1, <4>1 DEF Marked, N
      <3>4. QED
        BY <2>1, <3>1, <3>2, <3>3 DEF Marked
    <2>4. Above(at)'
      <3>1. SUFFICES ASSUME NEW n \in 1 .. Len(stack'), NEW k \in 1 .. Len(path'), Waits(at, n, k)'
                     PROVE  stack'[n][1] \in Range(graph'[path'[k]])
        BY DEF Above
      <3>2. n \in 1 .. N - 1 /\ n \in 1 .. Len(stack) /\ k \in 1 .. Len(path) /\ stack'[n] = stack[n]
        BY <1>2 DEF N
      <3>3. Waits(at, n, k)
        BY <3>1, <3>2 DEF Waits
      <3>4. QED
        BY <2>1, <3>2, <3>3 DEF Above
    <2>5. Kept(at)'
      <3>1. SUFFICES ASSUME cycles' = {}, NEW k \in 1 .. Len(path'),
                            NEW p \in Range(graph'[path'[k]]) \cap Concepts, colour'[p] # "black"
                     PROVE  \E n \in 1 .. Len(stack') : n > at[k] /\ stack'[n][1] = p
        BY DEF Kept
      <3>2. PICK n \in 1 .. Len(stack) : n > at[k] /\ stack[n][1] = p
        BY <2>1, <3>1 DEF Kept
      <3>3. n # N
        BY <1>2, <3>1, <3>2
      <3>4. n \in 1 .. Len(stack') /\ stack'[n] = stack[n]
        BY <1>2, <3>2, <3>3 DEF N
      <3>5. QED
        BY <3>2, <3>4
    <2>6. QED
      BY <2>3, <2>4, <2>5 DEF Walking
  <1>5. OnPath'
    BY DEF WalkInv, OnPath
  <1>6. QED
    BY <1>3, <1>4, <1>5

LEMMA SkipStep ==
  ASSUME WalkInv, Skip
  PROVE  WalkInv'
  <1>1. WalkTyped' /\ Walking' /\ OnPath'
    BY TakenStep DEF Skip
  <1>2. Left' /\ CyclesReal'
    BY DEF Skip, WalkInv, Left, CyclesReal, Done
  <1>3. QED
    BY <1>1, <1>2 DEF WalkInv

LEMMA ReportStep ==
  ASSUME WalkInv, Report
  PROVE  WalkInv'
  <1> DEFINE N == Len(path)
             c == Top[1]
             from == CHOOSE k \in DOMAIN path : path[k] = c
             cycle == Append(SubSeq(path, from, N), c)
  <1>1. WalkTyped /\ path \in Seq(Concepts) /\ N \in Nat /\ DOMAIN path = 1 .. N
    BY DEF WalkInv, WalkTyped
  <1>2. /\ Len(stack) \in Nat \ {0} /\ Top = stack[Len(stack)] /\ c \in Concepts
        /\ stack # <<>> /\ ~Top[2] /\ colour[c] = "grey"
    BY <1>1, TopIs DEF Report
  <1>3. /\ cycles' = cycles \cup {cycle} /\ stack' = Front(stack)
        /\ graph' = graph /\ colour' = colour /\ path' = path
    BY DEF Report
  <1>4. from \in 1 .. N /\ path[from] = c
    <2>1. \E k \in 1 .. N : path[k] = c
      BY <1>2 DEF WalkInv, OnPath
    <2> HIDE DEF c, N
    <2>2. QED
      BY <1>1, <2>1
  <1> HIDE DEF from
  <1>5. c \in Range(graph[path[N]])
    <2>1. PICK at : Marked(at) /\ Above(at)
      BY DEF WalkInv, Walking
    <2>2. N \in 1 .. N /\ Len(stack) \in 1 .. Len(stack)
      BY <1>1, <1>2, <1>4
    <2>3. at[N] < Len(stack)
      <3>1. at[N] \in 1 .. Len(stack) /\ stack[at[N]][2]
        BY <2>1, <2>2 DEF Marked
      <3>2. QED
        BY <1>2, <3>1
    <2>4. Waits(at, Len(stack), N)
      BY <1>1, <1>2, <2>3 DEF Waits
    <2>5. QED
      BY <1>2, <2>1, <2>2, <2>4 DEF Above
  <1>6. /\ cycle \in Seq(Concepts) /\ Len(cycle) = N - from + 2
        /\ \A k \in 1 .. N - from + 1 : cycle[k] = path[from + k - 1]
        /\ cycle[N - from + 2] = c
    <2> HIDE DEF c, N
    <2>1. /\ SubSeq(path, from, N) \in Seq(Concepts) /\ Len(SubSeq(path, from, N)) = N - from + 1
          /\ \A k \in 1 .. N - from + 1 : SubSeq(path, from, N)[k] = path[from + k - 1]
      BY <1>1, <1>4
    <2>2. QED
      BY <1>1, <1>2, <1>4, <2>1
  <1> HIDE DEF cycle, c
  <1>7. /\ Len(cycle) >= 2 /\ cycle[1] = cycle[Len(cycle)]
        /\ \A k \in 1 .. Len(cycle) - 1 : cycle[k + 1] \in Range(graph[cycle[k]])
    <2>1. Len(cycle) >= 2 /\ cycle[1] = cycle[Len(cycle)]
      BY <1>1, <1>4, <1>6
    <2>2. ASSUME NEW k \in 1 .. Len(cycle) - 1 PROVE cycle[k + 1] \in Range(graph[cycle[k]])
      <3>1. k \in 1 .. N - from + 1 /\ cycle[k] = path[from + k - 1]
        BY <1>1, <1>4, <1>6
      <3>2. CASE k = N - from + 1
        BY <1>1, <1>4, <1>5, <1>6, <3>1, <3>2
      <3>3. CASE k # N - from + 1
        <4>1. from + k - 1 \in 1 .. N - 1 /\ k + 1 \in 1 .. N - from + 1
          BY <1>1, <1>4, <3>1, <3>3
        <4>a. cycle[k + 1] = path[from + (k + 1) - 1]
          BY <1>6, <4>1
        <4>b. from + (k + 1) - 1 = (from + k - 1) + 1
          BY <1>4, <3>1
        <4>2. cycle[k + 1] = path[(from + k - 1) + 1]
          BY <4>a, <4>b
        <4>3. QED
          BY <3>1, <4>1, <4>2 DEF WalkInv, OnPath
      <3>4. QED
        BY <3>2, <3>3
    <2>3. QED
      BY <2>1, <2>2
  <1>8. CyclesReal'
    BY <1>3, <1>6, <1>7 DEF WalkInv, CyclesReal
  <1>9. cycles' # {}
    BY <1>3
  <1>10. WalkTyped' /\ Walking' /\ OnPath'
    BY <1>2, <1>3, <1>9, TakenStep
  <1>11. Left'
    BY <1>9 DEF Left
  <1>12. QED
    BY <1>8, <1>10, <1>11 DEF WalkInv

LEMMA LeaveStep ==
  ASSUME WalkInv, Leave
  PROVE  WalkInv'
  <1>0. /\ WalkTyped /\ stack # <<>>
    BY DEF WalkInv, Leave
  <1>. PICK N, L, c : N = Len(stack) /\ L = Len(path) /\ c = Top[1]
    OBVIOUS
  <1>1. /\ WalkTyped /\ N \in Nat \ {0} /\ Top = stack[N] /\ c \in Concepts /\ L \in Nat
        /\ Front(stack) \in Seq(Concepts \X BOOLEAN) /\ Len(Front(stack)) = N - 1
        /\ \A n \in 1 .. N - 1 : Front(stack)[n] = stack[n]
    BY <1>0, TopIs
  <1>2. /\ Top[2] /\ colour' = [colour EXCEPT ![c] = "black"] /\ path' = Front(path) /\ stack' = Front(stack)
        /\ graph' = graph /\ cycles' = cycles
    BY DEF Leave
  <1>3. PICK at : Marked(at) /\ Above(at) /\ Kept(at)
    BY DEF WalkInv, Walking
  <1>4. L # 0 /\ at[L] = N /\ path[L] = c
    <2>1. PICK k \in 1 .. L : at[k] = N
      BY <1>1, <1>2, <1>3 DEF Marked
    <2>2. ~(k < L)
      <3>1. SUFFICES ASSUME k < L PROVE FALSE
        OBVIOUS
      <3>2. L \in 1 .. L /\ at[L] \in 1 .. N /\ at[k] < at[L]
        BY <1>1, <1>3, <3>1 DEF Marked
      <3>3. QED
        BY <1>1, <2>1, <3>2
    <2>3. k = L
      BY <1>1, <2>2
    <2>4. stack[at[L]][1] = path[L]
      BY <1>3, <2>3 DEF Marked
    <2>5. QED
      BY <1>1, <2>1, <2>3, <2>4
  <1>5. /\ path' \in Seq(Concepts) /\ Len(path') = L - 1
        /\ \A k \in 1 .. L - 1 : path'[k] = path[k]
    <2>1. path \in Seq(Concepts) /\ path # <<>>
      BY <1>1, <1>4 DEF WalkTyped
    <2>2. QED
      BY <1>2, <2>1, FrontIs
  <1>6. WalkTyped'
    BY <1>1, <1>2, <1>5 DEF WalkTyped, Colours
  <1>7. \A d \in Concepts : colour'[d] = IF d = c THEN "black" ELSE colour[d]
    BY <1>1, <1>2 DEF WalkTyped
  <1>8. OnPath'
    <2>1. \A k \in 1 .. Len(path') - 1 : path'[k + 1] \in Range(graph'[path'[k]])
      <3>1. SUFFICES ASSUME NEW k \in 1 .. Len(path') - 1 PROVE path'[k + 1] \in Range(graph'[path'[k]])
        OBVIOUS
      <3>2. k \in 1 .. L - 1 /\ k + 1 \in 1 .. L - 1
        BY <1>1, <1>5
      <3>3. path[k + 1] \in Range(graph[path[k]])
        BY <3>2 DEF WalkInv, OnPath
      <3>4. QED
        BY <1>2, <1>5, <3>2, <3>3
    <2>2. ASSUME NEW j \in 1 .. Len(path'), NEW k \in 1 .. Len(path'), path'[j] = path'[k] PROVE j = k
      <3>1. j \in 1 .. L - 1 /\ k \in 1 .. L - 1 /\ j \in 1 .. L /\ k \in 1 .. L
        BY <1>1, <1>5
      <3>2. path[j] = path[k]
        BY <1>5, <2>2, <3>1
      <3>3. QED
        BY <3>1, <3>2 DEF WalkInv, OnPath
    <2>3. \A d \in Concepts : colour'[d] = "grey" <=> \E k \in 1 .. Len(path') : path'[k] = d
      <3>1. SUFFICES ASSUME NEW d \in Concepts
                     PROVE  colour'[d] = "grey" <=> \E k \in 1 .. L - 1 : path[k] = d
        BY <1>5
      <3>2. colour[d] = "grey" <=> \E k \in 1 .. L : path[k] = d
        BY DEF WalkInv, OnPath
      <3>3. \A k \in 1 .. L - 1 : path[k] # c
        BY <1>1, <1>4 DEF WalkInv, OnPath
      <3>4. \A k \in 1 .. L : k \in 1 .. L - 1 \/ k = L
        BY <1>1
      <3>5. CASE d = c
        BY <1>7, <3>3, <3>5
      <3>6. CASE d # c
        <4>1. colour'[d] = "grey" <=> colour[d] = "grey"
          BY <1>7, <3>6
        <4>2. (\E k \in 1 .. L : path[k] = d) <=> \E k \in 1 .. L - 1 : path[k] = d
          <5>1. \A k \in 1 .. L - 1 : k \in 1 .. L
            BY <1>1
          <5>2. QED
            BY <1>4, <3>4, <3>6, <5>1
        <4>3. QED
          BY <3>2, <4>1, <4>2
      <3>7. QED
        BY <3>5, <3>6
    <2>4. QED
      BY <2>1, <2>2, <2>3 DEF OnPath
  <1>9. Walking'
    <2>. PICK up : up = [k \in 1 .. L - 1 |-> at[k]]
      OBVIOUS
    <2>1. \A k \in 1 .. L - 1 : k \in 1 .. L /\ up[k] = at[k] /\ at[k] \in 1 .. N - 1
      <3>1. SUFFICES ASSUME NEW k \in 1 .. L - 1 PROVE at[k] \in 1 .. N - 1 /\ k \in 1 .. L
        OBVIOUS
      <3>2. k \in 1 .. L /\ L \in 1 .. L /\ k < L
        BY <1>1, <1>4
      <3>3. at[k] \in 1 .. N /\ at[k] < at[L]
        BY <1>3, <3>2 DEF Marked
      <3>4. QED
        BY <1>1, <1>4, <3>2, <3>3
    <2>2. DOMAIN up = 1 .. L - 1
      OBVIOUS
    <2>3. \A n \in 1 .. N - 1 : stack'[n] = stack[n] /\ n \in 1 .. N
      BY <1>1, <1>2
    <2>4. Len(stack') = N - 1 /\ Len(path') = L - 1
      BY <1>1, <1>2, <1>5
    <2>5. up \in [1 .. L - 1 -> 1 .. N - 1]
      BY <2>1
    <2>6. Marked(up)'
      <3>1. \A j, k \in 1 .. Len(path') : j < k => up[j] < up[k]
        BY <1>3, <2>1, <2>4 DEF Marked
      <3>2. \A k \in 1 .. Len(path') : stack'[up[k]][1] = path'[k] /\ stack'[up[k]][2]
        BY <1>3, <1>5, <2>1, <2>3, <2>4 DEF Marked
      <3>3. \A n \in 1 .. Len(stack') : stack'[n][2] => \E k \in 1 .. Len(path') : up[k] = n
        <4>1. SUFFICES ASSUME NEW n \in 1 .. N - 1, stack[n][2] PROVE \E k \in 1 .. L - 1 : up[k] = n
          BY <2>3, <2>4
        <4>2. PICK k \in 1 .. L : at[k] = n
          BY <1>3, <2>3, <4>1 DEF Marked
        <4>3. k # L
          BY <1>1, <1>4, <4>2
        <4>4. QED
          BY <1>1, <2>1, <4>2, <4>3
      <3>4. QED
        BY <2>4, <2>5, <3>1, <3>2, <3>3 DEF Marked
    <2>7. Above(up)'
      <3>1. ASSUME NEW n \in 1 .. N - 1, NEW k \in 1 .. L - 1, Waits(up, n, k)'
            PROVE  stack'[n][1] \in Range(graph'[path'[k]])
        <4>1. ~stack[n][2] /\ at[k] < n
          BY <2>1, <2>3, <3>1 DEF Waits
        <4>2. ASSUME NEW j \in 1 .. L, at[j] < n PROVE j <= k
          <5>1. j # L
            BY <1>1, <1>4, <4>2
          <5>2. j \in 1 .. L - 1
            BY <1>1, <5>1
          <5>3. QED
            BY <2>1, <2>4, <3>1, <4>2, <5>2 DEF Waits
        <4>3. Waits(at, n, k)
          BY <4>1, <4>2 DEF Waits
        <4>4. stack[n][1] \in Range(graph[path[k]])
          BY <1>3, <2>1, <2>3, <4>3 DEF Above
        <4>5. QED
          BY <1>2, <1>5, <2>3, <4>4
      <3>2. QED
        BY <2>4, <3>1 DEF Above
    <2>8. Kept(up)'
      <3>1. SUFFICES ASSUME cycles' = {}, NEW k \in 1 .. Len(path'),
                            NEW p \in Range(graph'[path'[k]]) \cap Concepts, colour'[p] # "black"
                     PROVE  \E n \in 1 .. Len(stack') : n > up[k] /\ stack'[n][1] = p
        BY DEF Kept
      <3>2. k \in 1 .. L - 1 /\ k \in 1 .. L /\ p \in Range(graph[path[k]]) \cap Concepts
        BY <1>2, <1>5, <2>1, <2>4, <3>1
      <3>3. p # c /\ colour[p] # "black"
        BY <1>7, <3>1
      <3>4. PICK n \in 1 .. N : n > at[k] /\ stack[n][1] = p
        BY <1>2, <1>3, <3>1, <3>2, <3>3 DEF Kept
      <3>5. n # N
        BY <1>1, <3>3, <3>4
      <3>6. n \in 1 .. N - 1
        BY <1>1, <3>5
      <3>7. QED
        BY <2>1, <2>3, <2>4, <3>2, <3>4, <3>6
    <2>9. QED
      BY <2>6, <2>7, <2>8 DEF Walking
  <1>10. Left'
    <2>1. SUFFICES ASSUME cycles = {} PROVE Left'
      BY <1>2 DEF Left
    <2>2. \A d \in Concepts : Done(d)' <=> (Done(d) \/ d = c)
      BY <1>7 DEF Done
    <2>3. \A p \in Range(graph[c]) \cap Concepts : Done(p)
      <3>1. SUFFICES ASSUME NEW p \in Range(graph[c]) \cap Concepts, ~Done(p) PROVE FALSE
        OBVIOUS
      <3>2. L \in 1 .. L
        BY <1>1, <1>4
      <3>3. PICK n \in 1 .. N : n > at[L]
        BY <1>3, <1>4, <2>1, <3>1, <3>2 DEF Kept, Done
      <3>4. QED
        BY <1>1, <1>4, <3>3
    <2>4. c \in Concepts /\ ~Done(c)
      <3>1. L \in 1 .. L
        BY <1>1, <1>4
      <3>2. colour[c] = "grey"
        BY <1>1, <1>4, <3>1 DEF WalkInv, OnPath
      <3>3. QED
        BY <1>1, <3>2 DEF Done
    <2>5. \A d \in Concepts : Done(d) => \A p \in Range(graph[d]) \cap Concepts : Done(p)
      BY <2>1 DEF WalkInv, Left
    <2>6. ASSUME NEW S \in (SUBSET Concepts) \ {{}}, \A d \in S : Done(d)',
                 \A d \in S : Range(graph[d]) \cap S # {}
          PROVE  FALSE
      <3>1. \A d \in S : d \in Concepts /\ (Done(d) \/ d = c)
        BY <2>2, <2>6
      <3>2. \A d \in S : \E p \in Range(graph[d]) \cap S : Done(p) /\ p # c
        <4>1. SUFFICES ASSUME NEW d \in S PROVE \E p \in Range(graph[d]) \cap S : Done(p) /\ p # c
          OBVIOUS
        <4>2. PICK p \in Range(graph[d]) \cap S : TRUE
          BY <2>6
        <4>3. p \in Concepts /\ d \in Concepts
          BY <3>1
        <4>4. Done(p)
          BY <2>3, <2>5, <3>1, <4>2, <4>3
        <4>5. QED
          BY <2>4, <4>2, <4>4
      <3> DEFINE T == S \ {c}
      <3>3. T \in (SUBSET Concepts) \ {{}} /\ \A d \in T : Done(d)
        BY <3>1, <3>2
      <3>4. \A d \in T : Range(graph[d]) \cap T # {}
        BY <3>2
      <3> HIDE DEF T
      <3>5. QED
        BY <2>1, <3>3, <3>4 DEF WalkInv, Left
    <2>7. QED
      BY <1>2, <2>2, <2>3, <2>5, <2>6 DEF Left
  <1>11. CyclesReal'
    BY <1>2 DEF WalkInv, CyclesReal
  <1>12. QED
    BY <1>6, <1>8, <1>9, <1>10, <1>11 DEF WalkInv


\* What is above the last mark on the stack is a prerequisite of the last concept of the path.
LEMMA TopWaits ==
  ASSUME WalkInv, stack # <<>>, ~Top[2], Len(path) # 0
  PROVE  Top[1] \in Range(graph[path[Len(path)]])
  <1>. PICK N, L : N = Len(stack) /\ L = Len(path)
    OBVIOUS
  <1>1. WalkTyped
    BY DEF WalkInv
  <1>2. N \in Nat \ {0} /\ L \in Nat \ {0} /\ Top = stack[N]
    BY <1>1, TopIs
  <1>3. PICK at : Marked(at) /\ Above(at)
    BY DEF WalkInv, Walking
  <1>4. N \in 1 .. N /\ L \in 1 .. L /\ \A j \in 1 .. L : j <= L
    BY <1>2
  <1>5. at[L] \in 1 .. N /\ stack[at[L]][2]
    BY <1>3, <1>4 DEF Marked
  <1>6. at[L] < N
    BY <1>2, <1>5
  <1>7. Waits(at, N, L)
    BY <1>2, <1>4, <1>6 DEF Waits
  <1>8. QED
    BY <1>2, <1>3, <1>4, <1>7 DEF Above

\* A list, an element and a list, one after the other.
LEMMA Pushed ==
  ASSUME NEW S, NEW low \in Seq(S), NEW mark \in S, NEW high \in Seq(S)
  PROVE  /\ low \o << mark >> \o high \in Seq(S)
         /\ Len(low \o << mark >> \o high) = Len(low) + 1 + Len(high)
         /\ \A n \in 1 .. Len(low) : (low \o << mark >> \o high)[n] = low[n]
         /\ (low \o << mark >> \o high)[Len(low) + 1] = mark
         /\ \A m \in 1 .. Len(high) : (low \o << mark >> \o high)[Len(low) + 1 + m] = high[m]
  <1> DEFINE upTo == low \o << mark >>
  <1>1. /\ upTo \in Seq(S) /\ Len(upTo) = Len(low) + 1 /\ upTo[Len(low) + 1] = mark
        /\ \A n \in 1 .. Len(low) : upTo[n] = low[n]
    OBVIOUS
  <1>2. Len(low) \in Nat /\ Len(high) \in Nat
    OBVIOUS
  <1> HIDE DEF upTo
  <1>3. /\ upTo \o high \in Seq(S) /\ Len(upTo \o high) = Len(low) + 1 + Len(high)
        /\ \A n \in 1 .. Len(low) + 1 : (upTo \o high)[n] = upTo[n]
        /\ \A m \in 1 .. Len(high) : (upTo \o high)[Len(low) + 1 + m] = high[m]
    BY <1>1, <1>2
  <1>4. Len(low) + 1 \in 1 .. Len(low) + 1 /\ \A n \in 1 .. Len(low) : n \in 1 .. Len(low) + 1
    BY <1>2
  <1>5. QED
    BY <1>1, <1>3, <1>4 DEF upTo

\* Each element of a list with a value beside it.
Beside(list, b) == [k \in DOMAIN list |-> <<list[k], b>>]

LEMMA BesideIs ==
  ASSUME NEW C, NEW list \in Seq(C), NEW B, NEW b \in B
  PROVE  /\ Beside(list, b) \in Seq(C \X B) /\ Len(Beside(list, b)) = Len(list)
  <1>1. DOMAIN list = 1 .. Len(list) /\ Len(list) \in Nat
    OBVIOUS
  <1>2. \A m \in 1 .. Len(list) : list[m] \in C /\ <<list[m], b>> \in C \X B
    OBVIOUS
  <1>3. Beside(list, b) = [k \in 1 .. Len(list) |-> <<list[k], b>>]
    BY <1>1 DEF Beside
  <1>4. QED
    BY <1>1, <1>2, <1>3

LEMMA UnmarkedIs ==
  ASSUME NEW C, NEW list \in Seq(C)
  PROVE  /\ Beside(list, FALSE) \in Seq(C \X BOOLEAN) /\ Len(Beside(list, FALSE)) = Len(list)
         /\ \A m \in 1 .. Len(list) : Beside(list, FALSE)[m][1] = list[m] /\ ~Beside(list, FALSE)[m][2]
  <1>1. FALSE \in BOOLEAN
    OBVIOUS
  <1>2. Beside(list, FALSE) \in Seq(C \X BOOLEAN) /\ Len(Beside(list, FALSE)) = Len(list)
    BY <1>1, BesideIs
  <1>3. \A m \in 1 .. Len(list) : Beside(list, FALSE)[m][1] = list[m] /\ ~Beside(list, FALSE)[m][2]
    BY DEF Beside
  <1>4. QED
    BY <1>2, <1>3

\* What Enter puts on the stack: the mark where the concept stood, and above it the
\* prerequisites that are not done with.
LEMMA EnterStack ==
  ASSUME WalkTyped, Enter
  PROVE  \E open \in Seq(Concepts) :
            /\ stack' \in Seq(Concepts \X BOOLEAN) /\ Len(open) \in Nat
            /\ Len(stack') = Len(stack) + Len(open)
            /\ \A n \in 1 .. Len(stack) - 1 : stack'[n] = stack[n]
            /\ stack'[Len(stack)][1] = Top[1] /\ stack'[Len(stack)][2]
            /\ \A m \in 1 .. Len(open) : stack'[Len(stack) + m][1] = open[m] /\ ~stack'[Len(stack) + m][2]
            /\ Range(open) = {p \in Range(graph[Top[1]]) \cap Concepts : colour[p] # "black"}
  <1> DEFINE c == Top[1]
             N == Len(stack)
             prereqs == graph[c]
             places == {k \in DOMAIN prereqs : prereqs[k] \in Concepts /\ colour[prereqs[k]] # "black"}
             open == Picked(prereqs, places)
             mark == <<c, TRUE>>
             high == Beside(open, FALSE)
             low == Front(stack)
  <1>1. /\ N \in Nat \ {0} /\ c \in Concepts
        /\ low \in Seq(Concepts \X BOOLEAN) /\ Len(low) = N - 1
        /\ \A n \in 1 .. N - 1 : low[n] = stack[n]
    BY TopIs DEF Enter
  <1>2. stack' = low \o << mark >> \o high
    BY DEF Enter, Beside
  <1>3. mark \in Concepts \X BOOLEAN /\ mark[1] = c /\ mark[2]
    BY <1>1
  <1> HIDE DEF c, N, low, mark
  <1>4. /\ open \in Seq(Nat) /\ Range(open) = {prereqs[n] : n \in places} /\ DOMAIN open = 1 .. Len(open)
        /\ Len(open) \in Nat
    <2>1. prereqs \in Seq(Nat) /\ places \in SUBSET DOMAIN prereqs
      BY <1>1 DEF WalkTyped
    <2> HIDE DEF prereqs, places
    <2>2. QED
      BY <2>1, PickedIs
  <1>5. Range(open) = {p \in Range(prereqs) \cap Concepts : colour[p] # "black"}
    <2>1. {prereqs[n] : n \in places} = {p \in Range(prereqs) \cap Concepts : colour[p] # "black"}
      BY DEF Range
    <2> HIDE DEF open
    <2>2. QED
      BY <1>4, <2>1
  <1> HIDE DEF open
  <1>6. open \in Seq(Concepts)
    <2>1. \A k \in 1 .. Len(open) : open[k] \in Concepts
      BY <1>4, <1>5 DEF Range
    <2>2. QED
      BY <1>4, <2>1
  <1>7. /\ high \in Seq(Concepts \X BOOLEAN) /\ Len(high) = Len(open)
        /\ \A m \in 1 .. Len(open) : high[m][1] = open[m] /\ ~high[m][2]
    BY <1>6, UnmarkedIs
  <1> HIDE DEF high
  <1>8. /\ stack' \in Seq(Concepts \X BOOLEAN) /\ Len(stack') = Len(low) + 1 + Len(high)
        /\ \A n \in 1 .. Len(low) : stack'[n] = low[n]
        /\ stack'[Len(low) + 1] = mark
        /\ \A m \in 1 .. Len(high) : stack'[Len(low) + 1 + m] = high[m]
    <2>. PICK S : S = Concepts \X BOOLEAN
      OBVIOUS
    <2>1. low \in Seq(S) /\ mark \in S /\ high \in Seq(S)
      BY <1>1, <1>3, <1>7
    <2>2. QED
      BY <1>2, <2>1, Pushed
  <1>9. Len(low) + 1 = N /\ Len(stack') = N + Len(open)
    BY <1>1, <1>4, <1>7, <1>8
  <1>10. /\ \A n \in 1 .. N - 1 : stack'[n] = stack[n]
         /\ stack'[N][1] = c /\ stack'[N][2]
         /\ \A m \in 1 .. Len(open) : stack'[N + m][1] = open[m] /\ ~stack'[N + m][2]
    <2>1. \A n \in 1 .. N - 1 : stack'[n] = stack[n]
      BY <1>1, <1>8
    <2>2. stack'[N][1] = c /\ stack'[N][2]
      BY <1>3, <1>8, <1>9
    <2>3. \A m \in 1 .. Len(open) : stack'[N + m][1] = open[m] /\ ~stack'[N + m][2]
      BY <1>7, <1>8, <1>9
    <2>4. QED
      BY <2>1, <2>2, <2>3
  <1>11. QED
    BY <1>4, <1>5, <1>6, <1>8, <1>9, <1>10 DEF N, c

LEMMA EnterStep ==
  ASSUME WalkInv, Enter
  PROVE  WalkInv'
  <1>0. WalkTyped /\ stack # <<>>
    BY DEF WalkInv, Enter
  <1>. PICK N, L, c : N = Len(stack) /\ L = Len(path) /\ c = Top[1]
    OBVIOUS
  <1>1. N \in Nat \ {0} /\ Top = stack[N] /\ c \in Concepts /\ L \in Nat
    BY <1>0, TopIs
  <1>2. /\ ~Top[2] /\ colour[c] = "white" /\ colour' = [colour EXCEPT ![c] = "grey"]
        /\ path' = Append(path, c) /\ graph' = graph /\ cycles' = cycles
    BY DEF Enter
  <1>3. PICK open \in Seq(Concepts) :
            /\ stack' \in Seq(Concepts \X BOOLEAN) /\ Len(open) \in Nat
            /\ Len(stack') = N + Len(open)
            /\ \A n \in 1 .. N - 1 : stack'[n] = stack[n]
            /\ stack'[N][1] = c /\ stack'[N][2]
            /\ \A m \in 1 .. Len(open) : stack'[N + m][1] = open[m] /\ ~stack'[N + m][2]
            /\ Range(open) = {p \in Range(graph[c]) \cap Concepts : colour[p] # "black"}
    BY <1>0, EnterStack
  <1>. PICK M : M = Len(open)
    OBVIOUS
  <1>4. PICK at : Marked(at) /\ Above(at) /\ Kept(at)
    BY DEF WalkInv, Walking
  <1>5. /\ path' \in Seq(Concepts) /\ Len(path') = L + 1 /\ path'[L + 1] = c
        /\ \A k \in 1 .. L : path'[k] = path[k]
    <2>1. path \in Seq(Concepts)
      BY <1>0 DEF WalkTyped
    <2>2. QED
      BY <1>1, <1>2, <2>1
  <1>6. WalkTyped'
    BY <1>0, <1>1, <1>2, <1>3, <1>5 DEF WalkTyped, Colours
  <1>7. \A d \in Concepts : colour'[d] = IF d = c THEN "grey" ELSE colour[d]
    BY <1>0, <1>1, <1>2 DEF WalkTyped
  <1>8. \A k \in 1 .. L : path[k] # c
    BY <1>1, <1>2 DEF WalkInv, OnPath
  <1>9. \A k \in 1 .. L + 1 : k \in 1 .. L \/ k = L + 1
    BY <1>1
  <1>10. OnPath'
    <2>1. ASSUME NEW k \in 1 .. Len(path') - 1 PROVE path'[k + 1] \in Range(graph'[path'[k]])
      <3>1. k \in 1 .. L
        BY <1>1, <1>5
      <3>2. CASE k = L
        BY <1>0, <1>1, <1>2, <1>5, <3>1, <3>2, TopWaits
      <3>3. CASE k # L
        <4>1. k \in 1 .. L - 1 /\ k + 1 \in 1 .. L
          BY <1>1, <3>1, <3>3
        <4>2. path[k + 1] \in Range(graph[path[k]])
          BY <4>1 DEF WalkInv, OnPath
        <4>3. QED
          BY <1>2, <1>5, <3>1, <4>1, <4>2
      <3>4. QED
        BY <3>2, <3>3
    <2>2. ASSUME NEW j \in 1 .. Len(path'), NEW k \in 1 .. Len(path'), path'[j] = path'[k] PROVE j = k
      <3>1. (j \in 1 .. L \/ j = L + 1) /\ (k \in 1 .. L \/ k = L + 1)
        BY <1>5, <1>9
      <3>2. CASE j \in 1 .. L /\ k \in 1 .. L
        <4>1. path[j] = path[k]
          BY <1>5, <2>2, <3>2
        <4>2. QED
          BY <3>2, <4>1 DEF WalkInv, OnPath
      <3>3. CASE j \in 1 .. L /\ k = L + 1
        BY <1>5, <1>8, <2>2, <3>3
      <3>4. CASE j = L + 1 /\ k \in 1 .. L
        BY <1>5, <1>8, <2>2, <3>4
      <3>5. QED
        BY <3>1, <3>2, <3>3, <3>4
    <2>3. ASSUME NEW d \in Concepts
          PROVE  colour'[d] = "grey" <=> \E k \in 1 .. Len(path') : path'[k] = d
      <3>1. L + 1 \in 1 .. Len(path') /\ \A k \in 1 .. L : k \in 1 .. Len(path')
        BY <1>1, <1>5
      <3>2. CASE d = c
        BY <1>5, <1>7, <3>1, <3>2
      <3>3. CASE d # c
        <4>1. colour'[d] = "grey" <=> \E k \in 1 .. L : path[k] = d
          BY <1>7, <3>3 DEF WalkInv, OnPath
        <4>2. (\E k \in 1 .. Len(path') : path'[k] = d) <=> \E k \in 1 .. L : path[k] = d
          BY <1>5, <1>9, <3>1, <3>3
        <4>3. QED
          BY <4>1, <4>2
      <3>4. QED
        BY <3>2, <3>3
    <2>4. QED
      BY <2>1, <2>2, <2>3 DEF OnPath
  <1>11. Walking'
    <2>. PICK new : new = [k \in 1 .. L + 1 |-> IF k = L + 1 THEN N ELSE at[k]]
      OBVIOUS
    <2>1. ASSUME NEW k \in 1 .. L PROVE new[k] = at[k] /\ at[k] \in 1 .. N - 1
      <3>1. k \in 1 .. L + 1 /\ k # L + 1
        BY <1>1
      <3>2. at[k] \in 1 .. N /\ stack[at[k]][2]
        BY <1>4 DEF Marked
      <3>3. at[k] # N
        BY <1>1, <1>2, <3>2
      <3>4. at[k] \in 1 .. N - 1
        BY <1>1, <3>2, <3>3
      <3>5. QED
        BY <3>1, <3>4
    <2>2. new[L + 1] = N /\ L + 1 \in 1 .. L + 1
      BY <1>1
    <2>3. N \in 1 .. N + M /\ \A n \in 1 .. N - 1 : n \in 1 .. N /\ n \in 1 .. N + M /\ n < N
      BY <1>1, <1>3
    <2>4. new \in [1 .. L + 1 -> 1 .. N + M]
      BY <1>9, <2>1, <2>2, <2>3
    <2>5. \A n \in 1 .. N + M : n \in 1 .. N - 1 \/ n = N \/ (n > N /\ \E m \in 1 .. M : n = N + m)
      <3>1. SUFFICES ASSUME NEW n \in 1 .. N + M, n > N PROVE \E m \in 1 .. M : n = N + m
        BY <1>1, <1>3
      <3>2. n - N \in 1 .. M /\ n = N + (n - N)
        BY <1>1, <1>3, <3>1
      <3>3. QED
        BY <3>2
    <2>6. Marked(new)'
      <3>1. ASSUME NEW j \in 1 .. Len(path'), NEW k \in 1 .. Len(path'), j < k PROVE new[j] < new[k]
        <4>1. j \in 1 .. L /\ (k \in 1 .. L \/ k = L + 1)
          <5>1. j \in 1 .. L + 1 /\ k \in 1 .. L + 1
            BY <1>5
          <5>2. QED
            BY <1>1, <3>1, <5>1
        <4>2. CASE k \in 1 .. L
          <5>1. at[j] < at[k]
            BY <1>4, <3>1, <4>1, <4>2 DEF Marked
          <5>2. QED
            BY <2>1, <4>1, <4>2, <5>1
        <4>3. CASE k = L + 1
          BY <2>1, <2>2, <2>3, <4>1, <4>3
        <4>4. QED
          BY <4>1, <4>2, <4>3
      <3>2. ASSUME NEW k \in 1 .. Len(path') PROVE stack'[new[k]][1] = path'[k] /\ stack'[new[k]][2]
        <4>1. CASE k \in 1 .. L
          <5>1. stack[at[k]][1] = path[k] /\ stack[at[k]][2]
            BY <1>4, <4>1 DEF Marked
          <5>2. QED
            BY <1>3, <1>5, <2>1, <4>1, <5>1
        <4>2. CASE k = L + 1
          BY <1>3, <1>5, <2>2, <4>2
        <4>3. QED
          BY <1>5, <1>9, <4>1, <4>2
      <3>3. ASSUME NEW n \in 1 .. Len(stack'), stack'[n][2] PROVE \E k \in 1 .. Len(path') : new[k] = n
        <4>1. n \in 1 .. N - 1 \/ n = N
          BY <1>3, <2>5, <3>3
        <4>2. CASE n = N
          BY <1>5, <2>2, <4>2
        <4>3. CASE n \in 1 .. N - 1
          <5>1. n \in 1 .. N /\ stack[n][2]
            BY <1>3, <2>3, <3>3, <4>3
          <5>2. PICK k \in 1 .. L : at[k] = n
            BY <1>4, <5>1 DEF Marked
          <5>3. k \in 1 .. Len(path')
            BY <1>1, <1>5
          <5>4. QED
            BY <2>1, <5>2, <5>3
        <4>4. QED
          BY <4>1, <4>2, <4>3
      <3>4. new \in [1 .. Len(path') -> 1 .. Len(stack')]
        BY <1>3, <1>5, <2>4
      <3>5. QED
        BY <3>1, <3>2, <3>3, <3>4 DEF Marked
    <2>7. Above(new)'
      <3>1. ASSUME NEW n \in 1 .. Len(stack'), NEW k \in 1 .. Len(path'), Waits(new, n, k)'
            PROVE  stack'[n][1] \in Range(graph'[path'[k]])
        <4>1. ~stack'[n][2] /\ new[k] < n /\ \A j \in 1 .. L + 1 : new[j] < n => j <= k
          BY <1>5, <3>1 DEF Waits
        <4>2. n \in 1 .. N - 1 \/ (n > N /\ \E m \in 1 .. M : n = N + m)
          BY <1>3, <2>5, <4>1
        <4>3. CASE n \in 1 .. N - 1
          <5>1. k # L + 1
            BY <1>1, <2>2, <4>1, <4>3
          <5>2. k \in 1 .. L
            BY <1>5, <1>9, <5>1
          <5>3. ~stack[n][2] /\ at[k] < n
            BY <1>3, <2>1, <4>1, <4>3, <5>2
          <5>4. ASSUME NEW j \in 1 .. L, at[j] < n PROVE j <= k
            <6>1. j \in 1 .. L + 1 /\ new[j] = at[j]
              BY <1>1, <2>1
            <6>2. QED
              BY <4>1, <5>4, <6>1
          <5>5. Waits(at, n, k)
            BY <5>3, <5>4 DEF Waits
          <5>6. stack[n][1] \in Range(graph[path[k]])
            BY <1>4, <2>3, <4>3, <5>2, <5>5 DEF Above
          <5>7. QED
            BY <1>2, <1>3, <1>5, <4>3, <5>2, <5>6
        <4>4. CASE n > N /\ \E m \in 1 .. M : n = N + m
          <5>1. L + 1 <= k
            BY <2>2, <4>1, <4>4
          <5>2. k = L + 1
            BY <1>1, <1>5, <5>1
          <5>3. PICK m \in 1 .. M : n = N + m
            BY <4>4
          <5>4. open[m] \in Range(open)
            BY <1>3 DEF Range
          <5>5. QED
            BY <1>2, <1>3, <1>5, <5>2, <5>3, <5>4
        <4>5. QED
          BY <4>2, <4>3, <4>4
      <3>2. QED
        BY <3>1 DEF Above
    <2>8. Kept(new)'
      <3>1. ASSUME cycles' = {}, NEW k \in 1 .. Len(path'),
                   NEW p \in Range(graph'[path'[k]]) \cap Concepts, colour'[p] # "black"
            PROVE  \E n \in 1 .. Len(stack') : n > new[k] /\ stack'[n][1] = p
        <4>1. colour[p] # "black"
          BY <1>2, <1>7, <3>1
        <4>2. CASE k \in 1 .. L
          <5>1. p \in Range(graph[path[k]]) \cap Concepts
            BY <1>2, <1>5, <3>1, <4>2
          <5>2. PICK n \in 1 .. N : n > at[k] /\ stack[n][1] = p
            BY <1>2, <1>4, <3>1, <4>1, <4>2, <5>1 DEF Kept
          <5>3. n \in 1 .. N + M /\ (n \in 1 .. N - 1 \/ n = N)
            BY <1>1, <1>3
          <5>4. stack'[n][1] = p
            BY <1>1, <1>3, <5>2, <5>3
          <5>5. QED
            BY <1>3, <2>1, <4>2, <5>2, <5>3, <5>4
        <4>3. CASE k = L + 1
          <5>1. p \in Range(open)
            BY <1>2, <1>3, <1>5, <3>1, <4>1, <4>3
          <5>2. PICK m \in 1 .. M : open[m] = p
            BY <1>3, <5>1 DEF Range
          <5>3. N + m \in 1 .. N + M /\ N + m > N
            BY <1>1, <1>3
          <5>4. QED
            BY <1>3, <2>2, <4>3, <5>2, <5>3
        <4>4. QED
          BY <1>5, <1>9, <4>2, <4>3
      <3>2. QED
        BY <3>1 DEF Kept
    <2>9. QED
      BY <2>6, <2>7, <2>8 DEF Walking
  <1>12. Left' /\ CyclesReal'
    <2>1. \A d \in Concepts : Done(d)' <=> Done(d)
      BY <1>2, <1>7 DEF Done
    <2>2. \A S \in (SUBSET Concepts) \ {{}} : \A d \in S : Done(d)' <=> Done(d)
      BY <2>1
    <2>3. Left'
      BY <1>2, <2>1, <2>2 DEF WalkInv, Left
    <2>4. QED
      BY <1>2, <2>3 DEF WalkInv, CyclesReal
  <1>13. QED
    BY <1>6, <1>10, <1>11, <1>12 DEF WalkInv

LEMMA WalkSame ==
  ASSUME WalkInv, UNCHANGED <<graph, colour, stack, path, cycles>>
  PROVE  WalkInv'
  <1>1. PICK at : Marked(at) /\ Above(at) /\ Kept(at)
    BY DEF WalkInv, Walking
  <1>2. Marked(at)'
    BY <1>1 DEF Marked
  <1>3. Above(at)'
    BY <1>1 DEF Above, Waits
  <1>4. Kept(at)'
    BY <1>1 DEF Kept
  <1>5. Walking'
    BY <1>2, <1>3, <1>4 DEF Walking
  <1>6. WalkTyped' /\ OnPath' /\ CyclesReal'
    BY DEF WalkInv, WalkTyped, OnPath, CyclesReal
  <1>7. Left'
    BY DEF WalkInv, Left, Done
  <1>8. QED
    BY <1>5, <1>6, <1>7 DEF WalkInv

LEMMA WalkStep ==
  ASSUME WalkInv, [Serve]_servingVars
  PROVE  WalkInv'
  <1>1. CASE Validate
    BY <1>1, RootStep, LeaveStep, SkipStep, ReportStep, EnterStep, WalkSame DEF Validate, CheckItems
  <1>2. CASE UNCHANGED corpusVars
    BY <1>2, WalkSame DEF corpusVars
  <1>3. QED
    BY <1>1, <1>2 DEF Serve, servingVars, Plan, Submit

LEMMA WalkFinds ==
  ASSUME WalkInv
  PROVE  CyclesFound
  <1>1. ASSUME NEW cycle \in cycles
        PROVE  /\ cycle[1] = Last(cycle)
               /\ \A k \in 1 .. Len(cycle) - 1 : cycle[k + 1] \in Range(graph[cycle[k]])
    BY DEF WalkInv, CyclesReal, Last
  <1>2. ASSUME White = {}, stack = <<>>, Cyclic, cycles = {} PROVE FALSE
    <2>1. PICK at : Marked(at)
      BY DEF WalkInv, Walking
    <2>2. Len(stack) = 0 /\ Len(path) \in Nat
      BY <1>2 DEF WalkInv, WalkTyped
    <2>3. Len(path) = 0
      <3>1. SUFFICES ASSUME Len(path) # 0 PROVE FALSE
        OBVIOUS
      <3>2. 1 \in 1 .. Len(path)
        BY <2>2, <3>1
      <3>3. at[1] \in 1 .. 0
        BY <2>1, <2>2, <3>2 DEF Marked
      <3>4. QED
        BY <3>3
    <2>4. ASSUME NEW c \in Concepts PROVE Done(c)
      <3>1. colour[c] \in Colours /\ colour[c] # "white"
        BY <1>2 DEF WalkInv, WalkTyped, White
      <3>2. colour[c] # "grey"
        BY <2>3 DEF WalkInv, OnPath
      <3>3. QED
        BY <3>1, <3>2 DEF Colours, Done
    <2>5. PICK S \in (SUBSET Concepts) \ {{}} : \A c \in S : Range(graph[c]) \cap S # {}
      BY <1>2 DEF Cyclic
    <2>6. \A c \in S : Done(c)
      BY <2>4
    <2>7. QED
      BY <1>2, <2>5, <2>6 DEF WalkInv, Left
  <1>3. ASSUME cycles # {} PROVE Cyclic
    <2>1. PICK cycle \in cycles : TRUE
      BY <1>3
    <2>. PICK N : N = Len(cycle)
      OBVIOUS
    <2>2. /\ cycle \in Seq(Concepts) /\ N \in Nat /\ N >= 2 /\ cycle[1] = cycle[N]
          /\ \A k \in 1 .. N - 1 : cycle[k + 1] \in Range(graph[cycle[k]])
      BY DEF WalkInv, CyclesReal
    <2> DEFINE S == {cycle[k] : k \in 1 .. N - 1}
    <2>3. 1 \in 1 .. N - 1 /\ \A k \in 1 .. N - 1 : cycle[k] \in Concepts
      BY <2>2
    <2>4. S \in (SUBSET Concepts) \ {{}}
      BY <2>3
    <2>5. ASSUME NEW k \in 1 .. N - 1 PROVE cycle[k + 1] \in S
      BY <2>2, <2>3
    <2>6. \A c \in S : Range(graph[c]) \cap S # {}
      BY <2>2, <2>5
    <2> HIDE DEF S
    <2>7. QED
      BY <2>4, <2>6 DEF Cyclic
  <1>4. QED
    BY <1>1, <1>2, <1>3 DEF CyclesFound

\* Each cycle the gate has reported is one, and when it has left every concept it has reported
\* one if there is any (check_concept_graph).
THEOREM CyclesAreFound == ServingSpec => []CyclesFound
  <1>1. ServingInit => WalkInv
    BY WalkBegins DEF ServingInit
  <1>2. WalkInv /\ [Serve]_servingVars => WalkInv'
    BY WalkStep
  <1>3. WalkInv => CyclesFound
    BY WalkFinds
  <1>4. QED
    BY <1>1, <1>2, <1>3, PTL DEF ServingSpec

---------------------------------------------------------------------------
\* Recursion, sums and orders

\* What holds of nothing and, where it holds up to a number, of the next holds of them all.
LEMMA Counted ==
  ASSUME NEW N \in Nat, NEW S, 0 \in S, \A n \in 1 .. N : n - 1 \in S => n \in S
  PROVE  \A n \in 0 .. N : n \in S
  <1>1. SUFFICES ASSUME NEW k \in 0 .. N, k \notin S PROVE FALSE
    OBVIOUS
  <1> DEFINE missed == (0 .. N) \ S
  <1>2. missed \in SUBSET Nat /\ missed # {}
    BY <1>1
  <1>3. PICK m \in missed : \A n \in missed : m <= n
    BY <1>2, LeastNumber
  <1>4. m \in 1 .. N /\ m - 1 \in 0 .. N
    OBVIOUS
  <1>5. m - 1 \in S
    BY <1>3, <1>4
  <1>6. QED
    BY <1>4, <1>5

\* A step taken so many times from a start.
Steps(N, D, start, step, f) ==
    f \in [0 .. N -> D] /\ f[0] = start /\ \A n \in 1 .. N : f[n] = step[<<f[n - 1], n>>]

LEMMA Recursion ==
  ASSUME NEW N \in Nat, NEW D, NEW start \in D, NEW step \in [D \X (1 .. N) -> D]
  PROVE  \E f : Steps(N, D, start, step, f)
  <1> DEFINE Walk(m, f) == Steps(m, D, start, step, f)
             reached == {m \in 0 .. N : \E f : Walk(m, f)}
  <1>1. 0 \in reached
    <2> DEFINE f == [n \in 0 .. 0 |-> start]
    <2>1. f \in [0 .. 0 -> D] /\ f[0] = start /\ 1 .. 0 = {}
      OBVIOUS
    <2> HIDE DEF f
    <2>2. Walk(0, f)
      BY <2>1 DEF Steps
    <2>3. QED
      BY <2>2
  <1>2. ASSUME NEW m \in 1 .. N, m - 1 \in reached PROVE m \in reached
    <2>1. PICK f : Walk(m - 1, f)
      BY <1>2
    <2> DEFINE next == step[<<f[m - 1], m>>]
               g == [n \in 0 .. m |-> IF n = m THEN next ELSE f[n]]
    <2>. f \in [0 .. m - 1 -> D] /\ f[0] = start /\ \A n \in 1 .. m - 1 : f[n] = step[<<f[n - 1], n>>]
      BY <2>1 DEF Steps
    <2>2. f[m - 1] \in D
      OBVIOUS
    <2>3. next \in D
      BY <2>2
    <2>4. \A n \in 0 .. m - 1 : n \in 0 .. m /\ g[n] = f[n] /\ f[n] \in D
      BY <2>1
    <2>5. g[m] = next /\ \A n \in 0 .. m : n = m \/ n \in 0 .. m - 1
      OBVIOUS
    <2>6. g \in [0 .. m -> D]
      BY <2>3, <2>4, <2>5
    <2>7. g[0] = start
      BY <2>1, <2>4
    <2>8. ASSUME NEW n \in 1 .. m PROVE g[n] = step[<<g[n - 1], n>>]
      <3>1. n - 1 \in 0 .. m - 1 /\ g[n - 1] = f[n - 1]
        BY <2>4
      <3>2. CASE n = m
        BY <2>5, <3>1, <3>2
      <3>3. CASE n # m
        <4>1. n \in 1 .. m - 1 /\ n \in 0 .. m - 1
          BY <3>3
        <4>2. f[n] = step[<<f[n - 1], n>>] /\ g[n] = f[n]
          BY <2>1, <2>4, <4>1
        <4>3. QED
          BY <3>1, <4>2
      <3>4. QED
        BY <3>2, <3>3
    <2> HIDE DEF g, next
    <2>9. Walk(m, g)
      BY <2>6, <2>7, <2>8 DEF Steps
    <2>10. QED
      BY <2>9
  <1> HIDE DEF reached
  <1>3. \A n \in 0 .. N : n \in reached
    BY <1>1, <1>2, Counted
  <1>4. QED
    BY <1>3 DEF reached

\* The sums of the first so many numbers of a list.
Sums(numbers, upTo) ==
    /\ upTo \in [0 .. Len(numbers) -> Int] /\ upTo[0] = 0
    /\ \A n \in 1 .. Len(numbers) : upTo[n] = upTo[n - 1] + numbers[n]

LEMMA SumIs ==
  ASSUME NEW numbers \in Seq(Int)
  PROVE  \E upTo : Sums(numbers, upTo) /\ Sum(numbers) = upTo[Len(numbers)]
  <1> DEFINE N == Len(numbers)
             Solves(f) == f = [n \in 0 .. N |-> IF n = 0 THEN 0 ELSE f[n - 1] + numbers[n]]
             step == [x \in Int \X (1 .. N) |-> x[1] + numbers[x[2]]]
             chosen == CHOOSE f : Solves(f)
  <1>1. N \in Nat /\ \A n \in 1 .. N : numbers[n] \in Int
    OBVIOUS
  <1>2. step \in [Int \X (1 .. N) -> Int]
    BY <1>1
  <1>3. \A m \in Int, n \in 1 .. N : step[<<m, n>>] = m + numbers[n]
    OBVIOUS
  <1>4. Sum(numbers) = chosen[N]
    BY DEF Sum
  <1> HIDE DEF N, step
  <1>5. PICK f \in [0 .. N -> Int] : f[0] = 0 /\ \A n \in 1 .. N : f[n] = step[<<f[n - 1], n>>]
    <2>. PICK D, start : D = Int /\ start = 0
      OBVIOUS
    <2>1. start \in D /\ step \in [D \X (1 .. N) -> D]
      BY <1>2
    <2>2. \E f : Steps(N, D, start, step, f)
      BY <1>1, <2>1, Recursion
    <2>3. QED
      BY <2>2 DEF Steps
  <1>6. ASSUME NEW n \in 1 .. N PROVE n - 1 \in 0 .. N /\ f[n] = f[n - 1] + numbers[n]
    <2>1. n - 1 \in 0 .. N
      BY <1>1
    <2>2. f[n - 1] \in Int
      BY <1>5, <2>1
    <2>3. step[<<f[n - 1], n>>] = f[n - 1] + numbers[n]
      BY <1>3, <2>2
    <2>4. QED
      BY <1>5, <2>1, <2>3
  <1>7. Solves(f)
    <2>1. \A n \in 0 .. N : f[n] = IF n = 0 THEN 0 ELSE f[n - 1] + numbers[n]
      BY <1>1, <1>5, <1>6
    <2>2. QED
      BY <1>5, <2>1
  <1>8. Solves(chosen)
    BY <1>7
  <1> HIDE DEF chosen
  <1>9. chosen[0] = 0 /\ DOMAIN chosen = 0 .. N
    BY <1>1, <1>8
  <1>10. \A n \in 1 .. N : n - 1 \in 0 .. N /\ n \in 0 .. N /\ chosen[n] = chosen[n - 1] + numbers[n]
    BY <1>1, <1>8
  <1>11. \A n \in 0 .. N : n \in {m \in 0 .. N : chosen[m] \in Int}
    <2> DEFINE S == {m \in 0 .. N : chosen[m] \in Int}
    <2>1. 0 \in S
      BY <1>1, <1>9
    <2>2. ASSUME NEW n \in 1 .. N, n - 1 \in S PROVE n \in S
      <3>1. n \in 0 .. N /\ chosen[n - 1] \in Int /\ numbers[n] \in Int
        BY <1>1, <1>10, <2>2
      <3>2. chosen[n] \in Int
        BY <1>10, <3>1
      <3>3. QED
        BY <3>1, <3>2
    <2> HIDE DEF S
    <2>3. \A n \in 0 .. N : n \in S
      BY <1>1, <2>1, <2>2, Counted
    <2>4. QED
      BY <2>3 DEF S
  <1>12. chosen = [n \in 0 .. N |-> IF n = 0 THEN 0 ELSE chosen[n - 1] + numbers[n]]
    BY <1>8
  <1>13. chosen \in [0 .. N -> Int]
    BY <1>9, <1>11, <1>12
  <1>14. Sums(numbers, chosen)
    BY <1>9, <1>10, <1>13 DEF Sums, N
  <1>15. QED
    BY <1>4, <1>14 DEF N

\* The sum of no number, and of one more.
LEMMA SumEmpty == Sum(<<>>) = 0
  <1>1. <<>> \in Seq(Int) /\ Len(<<>>) = 0
    OBVIOUS
  <1>2. QED
    BY <1>1, SumIs DEF Sums

LEMMA SumTyped ==
  ASSUME NEW numbers \in Seq(Int)
  PROVE  Sum(numbers) \in Int
  <1>1. PICK upTo : Sums(numbers, upTo) /\ Sum(numbers) = upTo[Len(numbers)]
    BY SumIs
  <1>2. Len(numbers) \in 0 .. Len(numbers)
    OBVIOUS
  <1>3. QED
    BY <1>1, <1>2 DEF Sums

LEMMA SumAppend ==
  ASSUME NEW numbers \in Seq(Int), NEW number \in Int
  PROVE  Sum(Append(numbers, number)) = Sum(numbers) + number
  <1> DEFINE more == Append(numbers, number)
             N == Len(numbers)
  <1>1. /\ more \in Seq(Int) /\ Len(more) = N + 1 /\ more[N + 1] = number /\ N \in Nat
        /\ \A n \in 1 .. N : more[n] = numbers[n]
    OBVIOUS
  <1> HIDE DEF more
  <1>2. PICK f : Sums(numbers, f) /\ Sum(numbers) = f[N]
    BY SumIs
  <1>3. PICK g : Sums(more, g) /\ Sum(more) = g[N + 1]
    BY <1>1, SumIs
  <1> HIDE DEF N
  <1>4. \A n \in 1 .. N : f[n] = f[n - 1] + numbers[n]
    BY <1>2 DEF Sums, N
  <1>5. \A n \in 1 .. N : n \in 1 .. N + 1 /\ g[n] = g[n - 1] + numbers[n]
    BY <1>1, <1>3 DEF Sums
  <1>6. g[N + 1] = g[N] + number
    BY <1>1, <1>3 DEF Sums
  <1>7. \A n \in 0 .. N : n \in {m \in 0 .. N : f[m] = g[m]}
    <2> DEFINE S == {m \in 0 .. N : f[m] = g[m]}
    <2>1. 0 \in S
      BY <1>1, <1>2, <1>3 DEF Sums
    <2>2. \A n \in 1 .. N : n - 1 \in S => n \in S
      BY <1>1, <1>4, <1>5
    <2> HIDE DEF S
    <2>3. \A n \in 0 .. N : n \in S
      BY <1>1, <2>1, <2>2, Counted
    <2>4. QED
      BY <2>3 DEF S
  <1>8. N \in 0 .. N
    BY <1>1
  <1>9. QED
    BY <1>2, <1>3, <1>6, <1>7, <1>8 DEF more, N

\* Numbers none of which is beyond so many times its fellow have a sum that is not.
LEMMA SumBounded ==
  ASSUME NEW some \in Seq(Nat), NEW others \in Seq(Nat), Len(some) = Len(others), NEW times \in Nat,
         \A k \in 1 .. Len(some) : some[k] <= times * others[k]
  PROVE  /\ Sum(some) \in Nat /\ Sum(others) \in Nat
         /\ Sum(some) <= times * Sum(others)
  <1> DEFINE N == Len(some)
  <1>1. some \in Seq(Int) /\ others \in Seq(Int) /\ N \in Nat
    OBVIOUS
  <1>2. PICK f : Sums(some, f) /\ Sum(some) = f[N]
    BY <1>1, SumIs
  <1>3. PICK g : Sums(others, g) /\ Sum(others) = g[N]
    BY <1>1, SumIs
  <1> DEFINE S == {m \in 0 .. N : f[m] \in Nat /\ g[m] \in Nat /\ f[m] <= times * g[m]}
  <1>4. \A n \in 1 .. N : /\ f[n] = f[n - 1] + some[n] /\ g[n] = g[n - 1] + others[n]
                          /\ some[n] \in Nat /\ others[n] \in Nat /\ some[n] <= times * others[n]
    BY <1>2, <1>3 DEF Sums
  <1>5. 0 \in S
    BY <1>1, <1>2, <1>3 DEF Sums
  <1> HIDE DEF N
  <1>6. ASSUME NEW n \in 1 .. N, n - 1 \in S PROVE n \in S
    <2>1. PICK a \in Nat, b \in Nat : a = f[n - 1] /\ b = g[n - 1] /\ a <= times * b
      BY <1>6
    <2>2. PICK c \in Nat, d \in Nat : c = some[n] /\ d = others[n] /\ c <= times * d
      BY <1>4
    <2>3. f[n] = a + c /\ g[n] = b + d
      BY <1>4, <2>1, <2>2
    <2>4. times * (b + d) = times * b + times * d /\ times * b \in Nat /\ times * d \in Nat
      OBVIOUS
    <2>5. a + c <= times * (b + d)
      <3>. PICK x \in Nat, y \in Nat : x = times * b /\ y = times * d
        BY <2>4
      <3>1. a <= x /\ c <= y
        BY <2>1, <2>2
      <3>2. a + c <= x + y
        BY <3>1
      <3>3. QED
        BY <2>4, <3>2
    <2>6. QED
      BY <1>1, <2>3, <2>5
  <1> HIDE DEF S
  <1>7. \A n \in 0 .. N : n \in S
    BY <1>1, <1>5, <1>6, Counted
  <1>8. N \in S
    BY <1>1, <1>7
  <1>9. QED
    BY <1>2, <1>3, <1>8 DEF S

\* A strict total order on a set.
Orders(before, S) ==
    /\ \A x \in S : <<x, x>> \notin before
    /\ \A x, y, z \in S : <<x, y>> \in before /\ <<y, z>> \in before => <<x, z>> \in before
    /\ \A x, y \in S : x = y \/ <<x, y>> \in before \/ <<y, x>> \in before

UpTo(S, before, x) == {y \in S : y = x \/ <<y, x>> \in before}

\* How many come up to one tells the members of an ordered set apart and takes every value.
LEMMA PlaceOf ==
  ASSUME NEW S, IsFiniteSet(S), NEW before, Orders(before, S)
  PROVE  /\ Cardinality(S) \in Nat
         /\ \A x \in S : Cardinality(UpTo(S, before, x)) \in 1 .. Cardinality(S)
         /\ \A x, y \in S : Cardinality(UpTo(S, before, x)) = Cardinality(UpTo(S, before, y)) => x = y
         /\ \A r \in 1 .. Cardinality(S) : \E x \in S : Cardinality(UpTo(S, before, x)) = r
  <1> DEFINE upTo(x) == UpTo(S, before, x)
             rank == [x \in S |-> Cardinality(upTo(x))]
             N == Cardinality(S)
  <1>1. N \in Nat
    BY FS_CardinalityType
  <1>2. ASSUME NEW x \in S
        PROVE  /\ upTo(x) \in SUBSET S /\ IsFiniteSet(upTo(x)) /\ x \in upTo(x)
               /\ Cardinality(upTo(x)) \in Nat /\ Cardinality(upTo(x)) <= N /\ Cardinality(upTo(x)) # 0
    <2>1. upTo(x) \in SUBSET S /\ x \in upTo(x)
      BY DEF UpTo
    <2> HIDE DEF upTo
    <2>2. IsFiniteSet(upTo(x)) /\ Cardinality(upTo(x)) <= N
      BY <2>1, FS_Subset
    <2>3. Cardinality(upTo(x)) \in Nat /\ Cardinality(upTo(x)) # 0
      BY <2>1, <2>2, FS_CardinalityType, FS_EmptySet
    <2>4. QED
      BY <2>1, <2>2, <2>3
  <1>3. ASSUME NEW x \in S, NEW y \in S, <<x, y>> \in before
        PROVE  Cardinality(upTo(x)) # Cardinality(upTo(y))
    <2>1. <<y, x>> \notin before /\ x # y
      BY <1>3 DEF Orders
    <2>2. \A z \in upTo(x) : z \in upTo(y)
      BY <1>3 DEF Orders, UpTo
    <2>3. y \in upTo(y) /\ y \notin upTo(x)
      BY <2>1 DEF UpTo
    <2>4. upTo(x) \in SUBSET upTo(y) /\ IsFiniteSet(upTo(y))
      BY <1>2, <2>2
    <2> HIDE DEF upTo
    <2>5. QED
      BY <2>3, <2>4, FS_Subset
  <1>4. \A x, y \in S : Cardinality(upTo(x)) = Cardinality(upTo(y)) => x = y
    BY <1>3 DEF Orders
  <1>5. rank \in Injection(S, 1 .. N)
    <2>1. rank \in [S -> 1 .. N]
      <3> HIDE DEF upTo
      <3>1. QED
        BY <1>1, <1>2
    <2>2. \A x, y \in S : rank[x] = rank[y] => x = y
      BY <1>4
    <2> HIDE DEF rank
    <2>3. QED
      BY <2>1, <2>2 DEF Injection, IsInjective
  <1>6. rank \in Surjection(S, 1 .. N)
    <2>1. IsFiniteSet(1 .. N) /\ Cardinality(1 .. N) = N
      BY <1>1, FS_Interval
    <2> HIDE DEF rank
    <2>2. QED
      BY <1>5, <2>1, FS_Injection
  <1>7. \A r \in 1 .. N : \E x \in S : rank[x] = r
    <2> HIDE DEF rank
    <2>1. QED
      BY <1>6 DEF Surjection
  <1>8. \A x \in S : Cardinality(upTo(x)) \in 1 .. N
    BY <1>1, <1>2
  <1>9. QED
    BY <1>1, <1>4, <1>7, <1>8

\* Sorted lists every member of a finite set, once.
LEMMA SortedIs ==
  ASSUME NEW S, IsFiniteSet(S), NEW before, Orders(before, S)
  PROVE  /\ Sorted(S, before) \in Seq(S) /\ Range(Sorted(S, before)) = S
         /\ DOMAIN Sorted(S, before) = 1 .. Len(Sorted(S, before)) /\ Len(Sorted(S, before)) \in Nat
         /\ \A j, k \in DOMAIN Sorted(S, before) : Sorted(S, before)[j] = Sorted(S, before)[k] => j = k
  <1> DEFINE rank(x) == Cardinality(UpTo(S, before, x))
             at(n) == CHOOSE x \in S : rank(x) = n
             N == Cardinality(S)
  <1>1. /\ N \in Nat
        /\ \A x \in S : rank(x) \in 1 .. N
        /\ \A x, y \in S : rank(x) = rank(y) => x = y
        /\ \A r \in 1 .. N : \E x \in S : rank(x) = r
    BY PlaceOf
  <1>2. Sorted(S, before) = [n \in 1 .. N |-> at(n)]
    BY DEF Sorted, UpTo
  <1> HIDE DEF rank, N
  <1>3. \A n \in 1 .. N : at(n) \in S /\ rank(at(n)) = n
    BY <1>1
  <1>4. \A x \in S : at(rank(x)) = x
    BY <1>1, <1>3
  <1> HIDE DEF at
  <1>. PICK list : list = Sorted(S, before)
    OBVIOUS
  <1>5. list = [n \in 1 .. N |-> at(n)]
    BY <1>2
  <1>6. list \in Seq(S) /\ DOMAIN list = 1 .. N /\ Len(list) = N
    BY <1>1, <1>3, <1>5
  <1>7. Range(list) = S
    <2>1. \A x \in S : rank(x) \in 1 .. N /\ list[rank(x)] = x
      BY <1>1, <1>4, <1>5
    <2>2. \A n \in 1 .. N : list[n] \in S
      BY <1>3, <1>5
    <2>3. QED
      BY <1>6, <2>1, <2>2 DEF Range
  <1>8. \A j, k \in 1 .. N : list[j] = list[k] => j = k
    BY <1>3, <1>5
  <1>9. QED
    BY <1>1, <1>6, <1>7, <1>8

LEMMA PairOf ==
  ASSUME NEW a \in Int, NEW b \in Int
  PROVE  /\ Min({a, b}) = IF a <= b THEN a ELSE b
         /\ Max({a, b}) = IF a <= b THEN b ELSE a
  <1>1. Min({a, b}) = IF a <= b THEN a ELSE b
    <2> DEFINE P(x) == \A y \in {a, b} : x <= y
    <2>1. \E x \in {a, b} : P(x)
      OBVIOUS
    <2>2. Min({a, b}) = CHOOSE x \in {a, b} : P(x)
      BY DEF Min
    <2>3. (CHOOSE x \in {a, b} : P(x)) \in {a, b} /\ P(CHOOSE x \in {a, b} : P(x))
      BY <2>1
    <2>4. Min({a, b}) \in {a, b} /\ Min({a, b}) <= a /\ Min({a, b}) <= b
      BY <2>2, <2>3
    <2>5. QED
      BY <2>4
  <1>2. Max({a, b}) = IF a <= b THEN b ELSE a
    <2> DEFINE P(x) == \A y \in {a, b} : x >= y
    <2>1. \E x \in {a, b} : P(x)
      OBVIOUS
    <2>2. Max({a, b}) = CHOOSE x \in {a, b} : P(x)
      BY DEF Max
    <2>3. (CHOOSE x \in {a, b} : P(x)) \in {a, b} /\ P(CHOOSE x \in {a, b} : P(x))
      BY <2>1
    <2>4. Max({a, b}) \in {a, b} /\ Max({a, b}) >= a /\ Max({a, b}) >= b
      BY <2>2, <2>3
    <2>5. QED
      BY <2>4
  <1>3. QED
    BY <1>1, <1>2

\* The first of a finite set by an order.
LEMMA LeastBy ==
  ASSUME NEW S, IsFiniteSet(S), S # {}, NEW before, Orders(before, S)
  PROVE  \E x \in S : \A y \in S : y = x \/ <<x, y>> \in before
  <1>1. Cardinality(S) \in Nat /\ Cardinality(S) # 0
    BY FS_CardinalityType, FS_EmptySet
  <1>2. PICK x \in S : Cardinality(UpTo(S, before, x)) = 1
    <2>1. 1 \in 1 .. Cardinality(S)
      BY <1>1
    <2>2. QED
      BY <2>1, PlaceOf
  <1>3. ASSUME NEW y \in S, <<y, x>> \in before PROVE FALSE
    <2>1. UpTo(S, before, x) \in SUBSET S /\ {x, y} \in SUBSET UpTo(S, before, x)
      BY <1>3 DEF UpTo
    <2>2. IsFiniteSet(UpTo(S, before, x))
      BY <2>1, FS_Subset
    <2>3. x # y
      BY <1>3 DEF Orders
    <2>4. IsFiniteSet({x}) /\ Cardinality({x}) = 1
      BY FS_Singleton
    <2>5. {x} \in SUBSET UpTo(S, before, x) /\ {x} # UpTo(S, before, x)
      BY <2>1, <2>3
    <2>6. QED
      BY <1>2, <2>2, <2>4, <2>5, FS_Subset
  <1>4. QED
    BY <1>3 DEF Orders

\* A finite set of numbers that is not empty has a greatest.
LEMMA GreatestOf ==
  ASSUME NEW S \in SUBSET Int, IsFiniteSet(S), S # {}
  PROVE  Max(S) \in S /\ \A m \in S : m <= Max(S)
  <1> DEFINE before == {pair \in S \X S : pair[1] > pair[2]}
  <1>1. Orders(before, S)
    BY DEF Orders
  <1>2. \A x, y \in S : <<x, y>> \in before => x > y
    OBVIOUS
  <1> HIDE DEF before
  <1>3. PICK x \in S : \A y \in S : y = x \/ <<x, y>> \in before
    BY <1>1, LeastBy
  <1>4. ASSUME NEW y \in S PROVE x >= y
    <2>1. x \in Int /\ y \in Int /\ (y = x \/ x > y)
      BY <1>2, <1>3
    <2>2. QED
      BY <2>1
  <1>5. QED
    BY <1>4 DEF Max

\* The range of a list is finite.
LEMMA RangeFinite ==
  ASSUME NEW T, NEW list \in Seq(T)
  PROVE  /\ IsFiniteSet(Range(list)) /\ Range(list) \in SUBSET T
         /\ DOMAIN list = 1 .. Len(list) /\ Len(list) \in Nat
         /\ list # <<>> => Range(list) # {} /\ 1 \in DOMAIN list
         /\ \A n \in DOMAIN list : list[n] \in Range(list)
  <1>1. DOMAIN list = 1 .. Len(list) /\ Len(list) \in Nat
    OBVIOUS
  <1>2. IsFiniteSet(DOMAIN list)
    BY <1>1, FS_Interval
  <1>3. list \in Surjection(DOMAIN list, Range(list))
    BY <1>1 DEF Surjection, Range
  <1>4. IsFiniteSet(Range(list)) /\ Range(list) \in SUBSET T
    BY <1>1, <1>2, <1>3, FS_Surjection DEF Range
  <1>5. list # <<>> => 1 \in DOMAIN list
    BY <1>1
  <1>6. QED
    BY <1>1, <1>4, <1>5 DEF Range

---------------------------------------------------------------------------
\* The planner

LEMMA ListWider ==
  ASSUME NEW S, NEW T, S \subseteq T, NEW list \in Seq(S)
  PROVE  list \in Seq(T)
  <1>1. \A n \in 1 .. Len(list) : list[n] \in T
    OBVIOUS
  <1>2. QED
    BY <1>1

LEMMA ErrorRateTyped ==
  ASSUME NEW scores \in Seq(0 .. 100)
  PROVE  ErrorRate(scores) \in Int
  <1> DEFINE m == Min({RecentResults, Len(scores)})
             recent == SubSeq(scores, 1, m)
  <1>1. Len(scores) \in Nat /\ RecentResults \in Nat
    BY PlannerAssumption
  <1>2. m \in 0 .. Len(scores)
    BY <1>1, PairOf
  <1>3. ErrorRate(scores) = IF recent = <<>> THEN 0 ELSE 100 - Sum(recent) \div Len(recent)
    BY DEF ErrorRate
  <1> HIDE DEF m
  <1>4. recent \in Seq(Int) /\ Len(recent) \in Nat /\ (recent # <<>> => Len(recent) # 0)
    <2>. PICK T : T = Int
      OBVIOUS
    <2>1. scores \in Seq(T)
      <3>1. 0 .. 100 \subseteq T
        OBVIOUS
      <3>2. QED
        BY <3>1, ListWider
    <2> HIDE DEF recent
    <2>2. SubSeq(scores, 1, m) \in Seq(T) /\ Len(SubSeq(scores, 1, m)) = m
      BY <1>1, <1>2, <2>1
    <2>3. recent \in Seq(T) /\ Len(recent) = m
      BY <2>2 DEF recent
    <2>4. QED
      BY <1>2, <2>3
  <1> HIDE DEF recent
  <1>6. Sum(recent) \in Int
    BY <1>4, SumTyped
  <1>7. ASSUME recent # <<>> PROVE Sum(recent) \div Len(recent) \in Int
    BY <1>4, <1>6, <1>7
  <1>8. QED
    BY <1>3, <1>7

LEMMA UnlocksTyped ==
  ASSUME NEW g \in [Concepts -> Seq(Nat)], NEW c
  PROVE  Unlocks(g, c) \in 0 .. Cardinality(Concepts) /\ Cardinality(Concepts) \in Nat
  <1> DEFINE S == {d \in DOMAIN g : c \in Range(g[d])}
  <1>1. S \in SUBSET Concepts /\ IsFiniteSet(Concepts)
    BY CorpusAssumption
  <1>2. Unlocks(g, c) = Cardinality(S)
    BY DEF Unlocks
  <1> HIDE DEF S
  <1>3. IsFiniteSet(S) /\ Cardinality(S) <= Cardinality(Concepts)
    BY <1>1, FS_Subset
  <1>4. QED
    BY <1>1, <1>2, <1>3, FS_CardinalityType

LEMMA PriorityTyped ==
  ASSUME NEW g \in [Concepts -> Seq(Nat)], NEW standing \in Standings,
         Normalised(standing.ability) \in Int, NEW c
  PROVE  Priority(g, standing, c) \in Int
  <1> DEFINE S == {1} \cup {Unlocks(g, d) : d \in DOMAIN g}
             most == Max(S)
             share == (100 * Unlocks(g, c)) \div most
             late == OverdueRatio(standing)
             shown == (100 * standing.sessions) \div ExposureSessions
  <1>1. most \in Nat \ {0}
    <2>1. S \in SUBSET (0 .. Cardinality(Concepts) + 1) /\ Cardinality(Concepts) + 1 \in Nat
      BY UnlocksTyped
    <2>2. 1 \in S
      OBVIOUS
    <2> HIDE DEF S
    <2>. PICK top \in Nat : top = Cardinality(Concepts) + 1
      BY <2>1
    <2>3. Max(S) \in S /\ 1 <= Max(S)
      BY <2>1, <2>2, MaxOf
    <2> HIDE DEF most
    <2>4. most \in S /\ 1 <= most
      BY <2>3 DEF most
    <2>5. QED
      BY <2>1, <2>4
  <1>2. share \in Int
    <2>. PICK n \in Nat : n = Unlocks(g, c)
      BY UnlocksTyped
    <2> HIDE DEF most
    <2>1. QED
      BY <1>1
  <1>3. late \in Int
    <2>1. standing.overdue \in Int /\ standing.stability \in Nat \ {0}
      BY DEF Standings
    <2>2. (10 * standing.overdue) \div standing.stability \in Int
      BY <2>1
    <2>3. Min({100, (10 * standing.overdue) \div standing.stability}) \in Int
      BY <2>2, PairOf
    <2>4. QED
      BY <2>3 DEF OverdueRatio
  <1>4. Min({100, shown}) \in Int
    <2>1. shown \in Int
      BY PlannerAssumption DEF Standings
    <2> HIDE DEF shown
    <2>2. QED
      BY <2>1, PairOf
  <1>5. ErrorRate(standing.scores) \in Int
    BY ErrorRateTyped DEF Standings
  <1>6. Priority(g, standing, c) = 35 * (100 - Normalised(standing.ability)) + 25 * ErrorRate(standing.scores)
            + 20 * late + 10 * share - 20 * Min({100, shown})
    BY DEF Priority
  <1> HIDE DEF share, late, shown, most, S
  <1>7. QED
    BY <1>2, <1>3, <1>4, <1>5, <1>6

\* What a session is planned from.
Planned(g, learner, library, request) ==
    /\ g \in [Concepts -> Seq(Nat)] /\ learner \in Learners /\ request \in Wishes
    /\ library \in Libraries /\ ItemsSound(library, Concepts)

LEMMA PlannedTyped ==
  ASSUME NEW g, NEW learner, NEW library, NEW request, Planned(g, learner, library, request)
  PROVE  /\ DOMAIN g = Concepts
         /\ \A c \in Concepts : learner[c] \in Standings /\ learner[c].ability \in Int /\ learner[c].overdue \in Int
         /\ \A c \in Concepts : Priority(g, learner[c], c) \in Int
         /\ library \in Seq(Range(library)) /\ request.bias \in Int /\ request.budget \in 1 .. 240
         /\ \A item \in Range(library) : item.id \in Nat /\ item.minutes \in Nat
         /\ \A item, other \in Range(library) : item.id = other.id => item = other
         /\ \A item \in Range(library) : item.primary \in Concepts /\ Accepts(item, library, Concepts)
  <1>1. \A c \in Concepts : learner[c] \in Standings
    BY ServingAssumption DEF Planned
  <1>2. \A c \in Concepts : Normalised(learner[c].ability) \in Int
    BY ServingAssumption DEF Planned
  <1>3. \A c \in Concepts : Priority(g, learner[c], c) \in Int
    BY <1>1, <1>2, PriorityTyped DEF Planned
  <1>4. /\ library \in Seq(Range(library))
        /\ \A item \in Range(library) : item.id \in Nat /\ item.minutes \in Nat
    BY ServingAssumption DEF Planned, Shaped
  <1>5. request.bias \in Int /\ request.budget \in 1 .. 240
    BY ServingAssumption DEF Planned
  <1>6. \A item, other \in Range(library) : item.id = other.id => item = other
    BY DEF Planned, ItemsSound, Range
  <1>7. \A item \in Range(library) : item.primary \in Concepts /\ Accepts(item, library, Concepts)
    BY DEF Planned, ItemsSound, Accepts
  <1>8. QED
    BY <1>1, <1>3, <1>4, <1>5, <1>6, <1>7 DEF Planned, Standings

\* What a comprehension keeps: here the items a request can be served, and those of a concept.
LEMMA EligibleIs ==
  ASSUME NEW g, NEW learner, NEW library, NEW request, Planned(g, learner, library, request)
  PROVE  /\ Eligible(library, request) \in Seq(Range(library))
         /\ \A item \in Range(Eligible(library, request)) :
                item \in Range(library) /\ item.kind = "instance" /\ item.modality = request.mode
  <1> DEFINE places == {n \in DOMAIN library :
                 /\ library[n].kind = "instance" /\ library[n].active /\ library[n].modality = request.mode
                 /\ request.focus # {} => request.focus \cap library[n].concepts # {}}
  <1>1. library \in Seq(Range(library))
    BY PlannedTyped
  <1>2. places \in SUBSET DOMAIN library
    OBVIOUS
  <1>3. \A n \in places : library[n].kind = "instance" /\ library[n].modality = request.mode
    OBVIOUS
  <1>4. Eligible(library, request) = Picked(library, places)
    BY DEF Eligible
  <1> HIDE DEF places
  <1>5. /\ Picked(library, places) \in Seq(Range(library))
        /\ Range(Picked(library, places)) = {library[n] : n \in places}
    BY <1>1, <1>2, PickedIs
  <1>6. QED
    BY <1>2, <1>3, <1>4, <1>5 DEF Range

LEMMA PoolIs ==
  ASSUME NEW T, NEW offered \in Seq(T), NEW c
  PROVE  /\ Pool(offered, c) \in Seq(T)
         /\ \A item \in Range(Pool(offered, c)) : item \in Range(offered) /\ item.primary = c
         /\ IsFiniteSet(Range(Pool(offered, c)))
         /\ Pool(offered, c) # <<>> => Range(Pool(offered, c)) # {} /\ 1 \in DOMAIN Pool(offered, c)
         /\ \A n \in DOMAIN Pool(offered, c) : Pool(offered, c)[n] \in Range(Pool(offered, c))
  <1> DEFINE places == {n \in DOMAIN offered : offered[n].primary = c}
  <1>1. places \in SUBSET DOMAIN offered /\ \A n \in places : offered[n].primary = c
    OBVIOUS
  <1>2. Pool(offered, c) = Picked(offered, places)
    BY DEF Pool
  <1> HIDE DEF places
  <1>3. Picked(offered, places) \in Seq(T) /\ Range(Picked(offered, places)) = {offered[n] : n \in places}
    BY <1>1, PickedIs
  <1>4. \A item \in Range(Pool(offered, c)) : item \in Range(offered) /\ item.primary = c
    <2>1. ASSUME NEW n \in places PROVE offered[n] \in Range(offered) /\ offered[n].primary = c
      BY <1>1 DEF Range
    <2>2. Range(Pool(offered, c)) = {offered[n] : n \in places}
      BY <1>2, <1>3
    <2>3. QED
      BY <2>1, <2>2
  <1>5. Pool(offered, c) \in Seq(T)
    BY <1>2, <1>3
  <1>6. QED
    BY <1>4, <1>5, RangeFinite

LEMMA RankedIs ==
  ASSUME NEW g, NEW learner, NEW library, NEW request, Planned(g, learner, library, request)
  PROVE  Ranked(g, learner, request) \in Seq(Concepts) /\ Len(Ranked(g, learner, request)) \in Nat
  <1> DEFINE weight == [c \in DOMAIN g |-> Priority(g, learner[c], c)]
             known == {c \in DOMAIN g \ Retired : DomainModality[DomainOf[c]] = request.mode}
             wanted == known \cap request.focus
             before == {pair \in known \X known :
                           \/ weight[pair[1]] > weight[pair[2]]
                           \/ weight[pair[1]] = weight[pair[2]] /\ pair[1] < pair[2]}
             S == IF wanted = {} THEN known ELSE wanted
  <1>1. Ranked(g, learner, request) = Sorted(S, before)
    BY DEF Ranked
  <1>2. known \in SUBSET Concepts /\ \A c \in known : weight[c] \in Int /\ c \in Nat
    <2>1. DOMAIN g = Concepts /\ \A c \in Concepts : Priority(g, learner[c], c) \in Int
      BY PlannedTyped, Zenon
    <2>2. \A c \in known : c \in Concepts
      BY <2>1
    <2>3. \A c \in Concepts : c \in Nat
      BY CorpusAssumption
    <2>4. \A c \in known : weight[c] \in Int
      <3> HIDE DEF known
      <3>1. ASSUME NEW c \in known PROVE weight[c] \in Int
        <4>1. c \in DOMAIN g
          BY <2>1, <2>2
        <4>2. QED
          BY <2>1, <2>2, <4>1
      <3>2. QED
        BY <3>1
    <2> HIDE DEF known, weight
    <2>5. QED
      BY <2>2, <2>3, <2>4, Zenon
  <1>3. S \in SUBSET known
    OBVIOUS
  <1>4. S \in SUBSET Concepts /\ IsFiniteSet(S)
    BY <1>2, <1>3, CorpusAssumption, FS_Subset
  <1> HIDE DEF weight, known, S
  <1>5. \A x, y \in known : <<x, y>> \in before <=>
                                weight[x] > weight[y] \/ (weight[x] = weight[y] /\ x < y)
    OBVIOUS
  <1> HIDE DEF before
  <1>6. Orders(before, S)
    <2>1. \A x, y \in S : <<x, y>> \in before <=> weight[x] > weight[y] \/ (weight[x] = weight[y] /\ x < y)
      BY <1>3, <1>5
    <2>2. \A x \in S : weight[x] \in Int /\ x \in Nat
      BY <1>2, <1>3
    <2>3. QED
      BY <2>1, <2>2 DEF Orders
  <1>7. Sorted(S, before) \in Seq(S) /\ Len(Sorted(S, before)) \in Nat
    BY <1>4, <1>6, SortedIs
  <1>8. Sorted(S, before) \in Seq(Concepts)
    BY <1>4, <1>7, ListWider
  <1>9. QED
    BY <1>1, <1>7, <1>8

LEMMA SubstitutionIs ==
  ASSUME NEW g, NEW learner, NEW library, NEW request, Planned(g, learner, library, request),
         NEW ranked \in Seq(Concepts), NEW offered, NEW c \in Concepts
  PROVE  Substitution(c, ranked, g, learner, offered) \in Concepts
  <1> DEFINE prereqs == g[c]
             places == {k \in DOMAIN prereqs : /\ prereqs[k] \in Range(ranked)
                                               /\ learner[prereqs[k]].ability < learner[c].ability}
             weaker == Picked(prereqs, places)
             ability(k) == learner[weaker[k]].ability
             Weakest(k) == \A j \in DOMAIN weaker : ability(k) < ability(j) \/ (ability(k) = ability(j) /\ k <= j)
             first == CHOOSE k \in DOMAIN weaker : Weakest(k)
  <1>1. Substitution(c, ranked, g, learner, offered) =
            IF weaker # <<>> /\ Pool(offered, weaker[first]) # <<>> THEN weaker[first] ELSE c
    BY DEF Substitution
  <1>2. g[c] \in Seq(Nat)
    BY DEF Planned
  <1>3. Range(ranked) \in SUBSET Concepts
    BY RangeFinite
  <1>4. places \in SUBSET DOMAIN prereqs /\ \A k \in places : prereqs[k] \in Concepts
    BY <1>3
  <1> HIDE DEF places, prereqs
  <1>5. weaker \in Seq(Nat) /\ Range(weaker) = {prereqs[k] : k \in places}
    BY <1>2, <1>4, PickedIs DEF prereqs
  <1> HIDE DEF weaker
  <1>6. /\ DOMAIN weaker = 1 .. Len(weaker) /\ Len(weaker) \in Nat
        /\ \A k \in DOMAIN weaker : weaker[k] \in Concepts
    BY <1>4, <1>5, RangeFinite
  <1>7. ASSUME weaker # <<>> PROVE first \in DOMAIN weaker
    <2> DEFINE S == DOMAIN weaker
               before == {pair \in S \X S : \/ ability(pair[1]) < ability(pair[2])
                                            \/ ability(pair[1]) = ability(pair[2]) /\ pair[1] < pair[2]}
    <2>1. \A k \in S : ability(k) \in Int /\ k \in Nat
      BY <1>6, PlannedTyped
    <2>2. IsFiniteSet(S) /\ S # {}
      <3>1. 1 \in 1 .. Len(weaker)
        BY <1>5, <1>6, <1>7
      <3>2. IsFiniteSet(1 .. Len(weaker))
        BY <1>6, FS_Interval
      <3>3. QED
        BY <1>6, <3>1, <3>2
    <2> HIDE DEF ability
    <2>3. \A j, k \in S : <<j, k>> \in before <=>
                              ability(j) < ability(k) \/ (ability(j) = ability(k) /\ j < k)
      OBVIOUS
    <2> HIDE DEF before, S
    <2>4. Orders(before, S)
      BY <2>1, <2>3 DEF Orders
    <2>5. PICK k \in S : \A j \in S : j = k \/ <<k, j>> \in before
      BY <2>2, <2>4, LeastBy
    <2>6. Weakest(k)
      <3>1. ASSUME NEW j \in S PROVE ability(k) < ability(j) \/ (ability(k) = ability(j) /\ k <= j)
        <4>1. CASE j = k
          BY <2>1, <4>1
        <4>2. CASE j # k
          <5>1. <<k, j>> \in before
            BY <2>5, <4>2
          <5>2. ability(k) < ability(j) \/ (ability(k) = ability(j) /\ k < j)
            BY <2>3, <5>1
          <5>3. QED
            BY <2>1, <5>2
        <4>3. QED
          BY <4>1, <4>2
      <3>2. QED
        BY <3>1 DEF S
    <2> HIDE DEF Weakest
    <2>7. QED
      BY <2>6 DEF S
  <1> HIDE DEF first
  <1>8. QED
    BY <1>1, <1>6, <1>7

LEMMA BandDistanceTyped ==
  ASSUME NEW expected \in Int, NEW bias \in Int
  PROVE  BandDistance(expected, bias) \in Int
  <1>. PICK a, b : a = 60 - 10 * bias - expected /\ b = expected - (75 - 10 * bias)
    OBVIOUS
  <1>1. a \in Int /\ b \in Int /\ {0, a, b} \in SUBSET Int
    OBVIOUS
  <1>2. IsFiniteSet({0, a, b})
    <2>1. IsFiniteSet({0} \cup {a}) /\ IsFiniteSet({b})
      BY FS_Singleton, FS_Union
    <2>2. IsFiniteSet(({0} \cup {a}) \cup {b})
      BY <2>1, FS_Union
    <2>3. {0, a, b} = ({0} \cup {a}) \cup {b}
      OBVIOUS
    <2>4. QED
      BY <2>2, <2>3
  <1>3. Max({0, a, b}) \in Int
    BY <1>1, <1>2, GreatestOf
  <1>4. QED
    BY <1>3 DEF BandDistance

\* A concept that can be served, the item nearest to the band with it.
Rows(library) == [concept : Concepts, item : Range(library), distance : Int, priority : Int]

\* Each row has an item that is offered for its concept, and no concept has two.
Listed(library, offered, rows) ==
    /\ rows \in Seq(Rows(library))
    /\ \A n \in DOMAIN rows : rows[n].item \in Range(offered) /\ rows[n].item.primary = rows[n].concept
    /\ \A j, k \in DOMAIN rows : rows[j].concept = rows[k].concept => j = k

Distance(learner, request, item) ==
    BandDistance(Expected(learner[item.primary].ability - item.elo), request.bias)

Closest(learner, request, offered, c) ==
    CHOOSE item \in Range(Pool(offered, c)) : \A other \in Range(Pool(offered, c)) :
        \/ Distance(learner, request, item) < Distance(learner, request, other)
        \/ Distance(learner, request, item) = Distance(learner, request, other) /\ item.id <= other.id

LEMMA ClosestIs ==
  ASSUME NEW g, NEW learner, NEW library, NEW request, Planned(g, learner, library, request),
         NEW offered \in Seq(Range(library)), NEW c, Pool(offered, c) # <<>>
  PROVE  /\ Closest(learner, request, offered, c) \in Range(library)
         /\ Closest(learner, request, offered, c) \in Range(offered)
         /\ Closest(learner, request, offered, c).primary = c
         /\ Distance(learner, request, Closest(learner, request, offered, c)) \in Int
  <1> DEFINE S == Range(Pool(offered, c))
             far(item) == Distance(learner, request, item)
             before == {pair \in S \X S : \/ far(pair[1]) < far(pair[2])
                                          \/ far(pair[1]) = far(pair[2]) /\ pair[1].id < pair[2].id}
             Nearest(item) == \A other \in S : \/ far(item) < far(other)
                                               \/ far(item) = far(other) /\ item.id <= other.id
  <1>1. Closest(learner, request, offered, c) = CHOOSE item \in S : Nearest(item)
    BY DEF Closest
  <1>2. /\ IsFiniteSet(S) /\ S # {}
        /\ \A item \in S : item \in Range(offered) /\ item.primary = c
    BY PoolIs
  <1>3. Range(offered) \in SUBSET Range(library)
    BY RangeFinite
  <1>4. ASSUME NEW item \in S PROVE far(item) \in Int /\ item.id \in Nat
    <2>1. item \in Range(library) /\ item.primary \in Concepts /\ item.id \in Nat
      BY <1>2, <1>3, PlannedTyped
    <2>2. Expected(learner[item.primary].ability - item.elo) \in Int
      BY <2>1, ServingAssumption DEF Planned
    <2>3. request.bias \in Int
      BY PlannedTyped
    <2>4. QED
      BY <2>1, <2>2, <2>3, BandDistanceTyped DEF Distance
  <1>5. \A item, other \in S : item.id = other.id => item = other
    BY <1>2, <1>3, PlannedTyped
  <1> HIDE DEF far, S
  <1>6. \A x, y \in S : <<x, y>> \in before <=> (far(x) < far(y) \/ (far(x) = far(y) /\ x.id < y.id))
    OBVIOUS
  <1> HIDE DEF before
  <1>7. Orders(before, S)
    BY <1>4, <1>5, <1>6 DEF Orders
  <1>8. PICK x \in S : \A y \in S : y = x \/ <<x, y>> \in before
    BY <1>2, <1>7, LeastBy
  <1>9. Nearest(x)
    <2>1. ASSUME NEW y \in S PROVE far(x) < far(y) \/ (far(x) = far(y) /\ x.id <= y.id)
      <3>1. CASE y = x
        BY <1>4, <3>1
      <3>2. CASE y # x
        <4>1. <<x, y>> \in before
          BY <1>8, <3>2
        <4>2. far(x) < far(y) \/ (far(x) = far(y) /\ x.id < y.id)
          BY <1>6, <4>1
        <4>3. QED
          BY <1>4, <4>2
      <3>3. QED
        BY <3>1, <3>2
    <2>2. QED
      BY <2>1
  <1> HIDE DEF Nearest
  <1>10. Closest(learner, request, offered, c) \in S
    BY <1>1, <1>9
  <1>11. QED
    BY <1>2, <1>3, <1>4, <1>10 DEF far

\* What rank_candidates makes of the rows so far and the next concept.
Considered(g, learner, request, ranked, offered, rows, entry) ==
    LET c == Substitution(entry, ranked, g, learner, offered)
        item == Closest(learner, request, offered, c)
    IN  IF Pool(offered, c) = <<>> \/ \E row \in Range(rows) : row.concept = c
        THEN rows
        ELSE Append(rows, [concept |-> c, item |-> item, distance |-> Distance(learner, request, item),
                           priority |-> Priority(g, learner[c], c)])

LEMMA ConsideredIs ==
  ASSUME NEW g, NEW learner, NEW library, NEW request, Planned(g, learner, library, request),
         NEW ranked \in Seq(Concepts), NEW offered \in Seq(Range(library)), NEW entry \in Concepts,
         NEW rows, Listed(library, offered, rows)
  PROVE  Listed(library, offered, Considered(g, learner, request, ranked, offered, rows, entry))
  <1> DEFINE c == Substitution(entry, ranked, g, learner, offered)
             item == Closest(learner, request, offered, c)
             row == [concept |-> c, item |-> item, distance |-> Distance(learner, request, item),
                     priority |-> Priority(g, learner[c], c)]
             more == Append(rows, row)
             N == Len(rows)
  <1>1. c \in Concepts
    BY SubstitutionIs
  <1>2. Considered(g, learner, request, ranked, offered, rows, entry) =
            IF Pool(offered, c) = <<>> \/ \E other \in Range(rows) : other.concept = c THEN rows ELSE more
    BY DEF Considered
  <1> HIDE DEF c
  <1>3. CASE Pool(offered, c) = <<>> \/ \E other \in Range(rows) : other.concept = c
    BY <1>2, <1>3
  <1>4. CASE Pool(offered, c) # <<>> /\ \A other \in Range(rows) : other.concept # c
    <2>1. /\ item \in Range(library) /\ item \in Range(offered) /\ item.primary = c
          /\ Distance(learner, request, item) \in Int
      BY <1>4, ClosestIs
    <2> HIDE DEF item
    <2>2. Priority(g, learner[c], c) \in Int
      BY <1>1, PlannedTyped
    <2>3. /\ row \in Rows(library) /\ row.concept = c /\ row.item = item
      BY <1>1, <2>1, <2>2 DEF Rows
    <2> HIDE DEF row
    <2>. PICK T : T = Rows(library)
      OBVIOUS
    <2>4. rows \in Seq(T) /\ row \in T /\ N \in Nat /\ DOMAIN rows = 1 .. N
      BY <2>3 DEF Listed
    <2>5. /\ more \in Seq(T) /\ DOMAIN more = 1 .. N + 1 /\ more[N + 1] = row
          /\ \A n \in 1 .. N : more[n] = rows[n]
      BY <2>4
    <2> HIDE DEF more, N
    <2>6. \A n \in 1 .. N + 1 : n \in 1 .. N \/ n = N + 1
      BY <2>4
    <2>7. \A n \in 1 .. N : rows[n].concept # c
      BY <1>4, <2>4 DEF Range
    <2>8. \A n \in DOMAIN more : more[n].item \in Range(offered) /\ more[n].item.primary = more[n].concept
      BY <2>1, <2>3, <2>4, <2>5, <2>6 DEF Listed
    <2>9. \A j, k \in DOMAIN more : more[j].concept = more[k].concept => j = k
      BY <2>3, <2>4, <2>5, <2>6, <2>7 DEF Listed
    <2>10. Listed(library, offered, more)
      BY <2>5, <2>8, <2>9 DEF Listed
    <2>11. QED
      BY <1>2, <1>4, <2>10
  <1>5. QED
    BY <1>3, <1>4

LEMMA ShortlistIs ==
  ASSUME NEW g, NEW learner, NEW library, NEW request, Planned(g, learner, library, request)
  PROVE  LET offered == Eligible(library, request)
             list == Shortlist(g, learner, library, request)
         IN  /\ list \in Seq(Rows(library)) /\ DOMAIN list = 1 .. Len(list) /\ Len(list) \in Nat
             /\ \A n \in DOMAIN list : list[n].item \in Range(offered) /\ list[n].item.primary = list[n].concept
             /\ \A j, k \in DOMAIN list : list[j].item = list[k].item => j = k
  <1> DEFINE offered == Eligible(library, request)
             ranked == Ranked(g, learner, request)
             N == Len(ranked)
             next(rows, n) == Considered(g, learner, request, ranked, offered, rows, ranked[n])
             Solves(f) == f = [n \in 0 .. N |-> IF n = 0 THEN <<>> ELSE next(f[n - 1], n)]
             walk == CHOOSE f : Solves(f)
             chosen == Range(walk[N])
             before == {pair \in chosen \X chosen :
                 LET r == pair[1]
                     s == pair[2]
                 IN  \/ r.priority > s.priority
                     \/ r.priority = s.priority /\ r.distance < s.distance
                     \/ r.priority = s.priority /\ r.distance = s.distance /\ r.item.id < s.item.id}
             D == {rows \in Seq(Rows(library)) : Listed(library, offered, rows)}
             step == [x \in D \X (1 .. N) |-> next(x[1], x[2])]
  <1>1. Shortlist(g, learner, library, request) = Sorted(chosen, before)
    BY DEF Shortlist, Considered, Closest, Distance
  <1>2. /\ ranked \in Seq(Concepts) /\ N \in Nat /\ offered \in Seq(Range(library))
        /\ \A n \in 1 .. N : ranked[n] \in Concepts
    BY RankedIs, EligibleIs
  <1> HIDE DEF ranked, offered, N, before
  <1>3. ASSUME NEW rows \in D, NEW n \in 1 .. N PROVE next(rows, n) \in D
    <2>1. Listed(library, offered, next(rows, n))
      BY <1>2, ConsideredIs
    <2>2. QED
      BY <2>1 DEF Listed
  <1> HIDE DEF next
  <1>4. step \in [D \X (1 .. N) -> D]
    BY <1>3
  <1>5. \A rows \in D, n \in 1 .. N : step[<<rows, n>>] = next(rows, n)
    OBVIOUS
  <1>6. <<>> \in D
    BY DEF Listed
  <1> HIDE DEF D, step
  <1>7. PICK f : Steps(N, D, <<>>, step, f)
    <2>. PICK start : start = <<>>
      OBVIOUS
    <2>1. start \in D
      BY <1>6
    <2>2. \E f : Steps(N, D, start, step, f)
      BY <1>2, <1>4, <2>1, Recursion
    <2>3. QED
      BY <2>2
  <1>8. f \in [0 .. N -> D] /\ f[0] = <<>> /\ \A n \in 1 .. N : f[n] = step[<<f[n - 1], n>>]
    BY <1>7 DEF Steps
  <1>9. Solves(f)
    <2>1. ASSUME NEW n \in 0 .. N PROVE f[n] = IF n = 0 THEN <<>> ELSE next(f[n - 1], n)
      <3>1. CASE n = 0
        BY <1>8, <3>1
      <3>2. CASE n # 0
        <4>1. n \in 1 .. N /\ n - 1 \in 0 .. N
          BY <1>2, <3>2
        <4>2. f[n - 1] \in D
          BY <1>8, <4>1
        <4>3. QED
          BY <1>5, <1>8, <3>2, <4>1, <4>2
      <3>3. QED
        BY <3>1, <3>2
    <2>2. QED
      BY <1>8, <2>1
  <1>10. Solves(walk)
    BY <1>9
  <1> HIDE DEF walk
  <1>11. \A n \in 0 .. N : n \in {m \in 0 .. N : walk[m] \in D}
    <2> DEFINE S == {m \in 0 .. N : walk[m] \in D}
    <2>1. 0 \in S
      BY <1>2, <1>6, <1>10
    <2>2. ASSUME NEW n \in 1 .. N, n - 1 \in S PROVE n \in S
      <3>1. n \in 0 .. N /\ walk[n - 1] \in D
        BY <1>2, <2>2
      <3>2. walk[n] = next(walk[n - 1], n)
        <4>1. n # 0
          BY <1>2
        <4>2. QED
          BY <1>10, <3>1, <4>1
      <3>3. QED
        BY <1>3, <3>1, <3>2
    <2> HIDE DEF S
    <2>3. \A n \in 0 .. N : n \in S
      BY <1>2, <2>1, <2>2, Counted
    <2>4. QED
      BY <2>3 DEF S
  <1>. PICK rows : rows = walk[N]
    OBVIOUS
  <1>12. Listed(library, offered, rows)
    BY <1>2, <1>11 DEF D
  <1>13. rows \in Seq(Rows(library)) /\ chosen = Range(rows)
    BY <1>12 DEF Listed, chosen
  <1>14. IsFiniteSet(chosen) /\ chosen \in SUBSET Rows(library) /\ DOMAIN rows = 1 .. Len(rows)
    BY <1>13, RangeFinite
  <1>15. \A row \in chosen : row.item \in Range(offered) /\ row.item.primary = row.concept
    BY <1>12, <1>13 DEF Listed, Range
  <1>16. \A row, other \in chosen : row.item = other.item => row = other
    BY <1>12, <1>13, <1>15 DEF Listed, Range
  <1> HIDE DEF chosen
  <1>17. Orders(before, chosen)
    <2>1. ASSUME NEW row \in chosen
          PROVE  row.priority \in Int /\ row.distance \in Int /\ row.item.id \in Nat
      <3>1. row \in Rows(library)
        BY <1>14
      <3>2. row.item \in Range(library) /\ row.priority \in Int /\ row.distance \in Int
        BY <3>1 DEF Rows
      <3>3. QED
        BY <3>2, PlannedTyped
    <2>2. \A r, s \in chosen : r.item.id = s.item.id => r = s
      <3>1. \A r \in chosen : r.item \in Range(library)
        BY <1>14 DEF Rows
      <3>2. QED
        BY <1>16, <3>1, PlannedTyped
    <2>3. \A r, s \in chosen : <<r, s>> \in before <=>
              \/ r.priority > s.priority
              \/ r.priority = s.priority /\ r.distance < s.distance
              \/ r.priority = s.priority /\ r.distance = s.distance /\ r.item.id < s.item.id
      BY DEF before
    <2>4. QED
      BY <2>1, <2>2, <2>3 DEF Orders
  <1>. PICK list : list = Sorted(chosen, before)
    OBVIOUS
  <1>18. /\ list \in Seq(chosen) /\ Range(list) = chosen /\ DOMAIN list = 1 .. Len(list) /\ Len(list) \in Nat
         /\ \A j, k \in DOMAIN list : list[j] = list[k] => j = k
    BY <1>14, <1>17, SortedIs
  <1>19. list \in Seq(Rows(library)) /\ \A n \in DOMAIN list : list[n] \in chosen
    BY <1>14, <1>18, ListWider
  <1>20. \A j, k \in DOMAIN list : list[j].item = list[k].item => j = k
    BY <1>16, <1>18, <1>19
  <1>21. \A n \in DOMAIN list : list[n].item \in Range(offered) /\ list[n].item.primary = list[n].concept
    BY <1>15, <1>19
  <1>22. QED
    BY <1>1, <1>18, <1>19, <1>20, <1>21 DEF offered

LEMMA ReviewIs ==
  ASSUME NEW g, NEW learner, NEW library, NEW request, Planned(g, learner, library, request)
  PROVE  \/ Review(learner, library, request) = <<>>
         \/ \E item \in Range(Eligible(library, request)) : Review(learner, library, request) = <<item>>
  <1> DEFINE offered == Eligible(library, request)
             due == {c \in DOMAIN learner : /\ learner[c].overdue >= 0 /\ learner[c].ability >= ReviewFloor
                                            /\ Pool(offered, c) # <<>>}
             overdue(c) == learner[c].overdue
             Longest(c) == \A d \in due : overdue(c) > overdue(d) \/ (overdue(c) = overdue(d) /\ c <= d)
             first == CHOOSE c \in due : Longest(c)
  <1>1. Review(learner, library, request) = IF due = {} THEN <<>> ELSE << Pool(offered, first)[1] >>
    BY DEF Review
  <1>2. DOMAIN learner = Concepts
    BY ServingAssumption DEF Planned
  <1>3. /\ due \in SUBSET Concepts /\ \A c \in due : Pool(offered, c) # <<>>
    BY <1>2
  <1>4. offered \in Seq(Range(library))
    BY EligibleIs
  <1>5. \A c \in due : overdue(c) \in Int /\ c \in Nat
    BY <1>3, PlannedTyped, CorpusAssumption
  <1> HIDE DEF due, overdue, offered
  <1>6. ASSUME due # {} PROVE first \in due
    <2> DEFINE before == {pair \in due \X due : \/ overdue(pair[1]) > overdue(pair[2])
                                                \/ overdue(pair[1]) = overdue(pair[2]) /\ pair[1] < pair[2]}
    <2>1. \A x, y \in due : <<x, y>> \in before <=> (overdue(x) > overdue(y) \/ (overdue(x) = overdue(y) /\ x < y))
      OBVIOUS
    <2> HIDE DEF before
    <2>2. IsFiniteSet(due)
      BY <1>3, CorpusAssumption, FS_Subset
    <2>3. Orders(before, due)
      BY <1>5, <2>1 DEF Orders
    <2>4. PICK x \in due : \A y \in due : y = x \/ <<x, y>> \in before
      BY <1>6, <2>2, <2>3, LeastBy
    <2>5. ASSUME NEW y \in due PROVE overdue(x) > overdue(y) \/ (overdue(x) = overdue(y) /\ x <= y)
      <3>1. CASE y = x
        BY <1>5, <3>1
      <3>2. CASE y # x
        <4>1. <<x, y>> \in before
          BY <2>4, <3>2
        <4>2. overdue(x) > overdue(y) \/ (overdue(x) = overdue(y) /\ x < y)
          BY <2>1, <4>1
        <4>3. QED
          BY <1>5, <4>2
      <3>3. QED
        BY <3>1, <3>2
    <2>6. Longest(x)
      BY <2>5
    <2> HIDE DEF Longest
    <2>7. QED
      BY <2>6
  <1> HIDE DEF first
  <1>7. ASSUME due # {} PROVE Pool(offered, first)[1] \in Range(offered)
    BY <1>3, <1>4, <1>6, <1>7, PoolIs
  <1>8. QED
    BY <1>1, <1>7 DEF offered

\* The minutes of the items of a list.
LEMMA TotalIs ==
  ASSUME NEW T, \A item \in T : item.minutes \in Nat
  PROVE  /\ \A item \in T : Minutes(item) \in Nat
         /\ Total(<<>>) = 0
         /\ \A list \in Seq(T) : Total(list) \in Int
         /\ \A list \in Seq(T), item \in T : Total(Append(list, item)) = Total(list) + Minutes(item)
  <1> DEFINE minutes(list) == [k \in DOMAIN list |-> Minutes(list[k])]
  <1>1. \A item \in T : Minutes(item) \in Nat
    BY PlannerAssumption DEF Minutes
  <1>2. minutes(<<>>) = <<>>
    OBVIOUS
  <1>3. Total(<<>>) = 0
    BY <1>2, SumEmpty DEF Total
  <1>4. ASSUME NEW list \in Seq(T) PROVE minutes(list) \in Seq(Int) /\ Total(list) \in Int
    <2>1. \A k \in DOMAIN list : Minutes(list[k]) \in Int
      BY <1>1
    <2>2. DOMAIN list = 1 .. Len(list) /\ Len(list) \in Nat
      OBVIOUS
    <2>3. minutes(list) \in [1 .. Len(list) -> Int]
      BY <2>1, <2>2
    <2>4. minutes(list) \in Seq(Int)
      BY <2>2, <2>3
    <2> HIDE DEF minutes
    <2>5. Sum(minutes(list)) \in Int
      BY <2>4, SumTyped
    <2>6. QED
      BY <2>4, <2>5 DEF Total, minutes
  <1>5. ASSUME NEW list \in Seq(T), NEW item \in T
        PROVE  Total(Append(list, item)) = Total(list) + Minutes(item)
    <2>. PICK N \in Nat : N = Len(list)
      OBVIOUS
    <2>. PICK more : more = Append(list, item)
      OBVIOUS
    <2>1. /\ DOMAIN list = 1 .. N /\ DOMAIN more = 1 .. N + 1 /\ more[N + 1] = item
          /\ \A k \in 1 .. N : more[k] = list[k]
      OBVIOUS
    <2>2. minutes(list) \in Seq(Int) /\ Minutes(item) \in Int
      BY <1>1, <1>4
    <2>3. DOMAIN minutes(list) = 1 .. N /\ Len(minutes(list)) = N
      BY <2>1, <2>2
    <2>. PICK longer : longer = Append(minutes(list), Minutes(item))
      OBVIOUS
    <2>4. /\ DOMAIN longer = 1 .. N + 1 /\ longer[N + 1] = Minutes(item)
          /\ \A k \in 1 .. N : longer[k] = minutes(list)[k]
          /\ longer \in Seq(Int)
      <3>. PICK low \in Seq(Int), last \in Int : low = minutes(list) /\ last = Minutes(item)
        BY <2>2
      <3>1. Len(low) = N /\ longer = Append(low, last)
        BY <2>3
      <3>2. /\ DOMAIN longer = 1 .. N + 1 /\ longer[N + 1] = last
            /\ \A k \in 1 .. N : longer[k] = low[k]
            /\ longer \in Seq(Int)
        BY <3>1
      <3>3. QED
        BY <3>2
    <2>5. minutes(more) = longer
      <3>1. DOMAIN minutes(more) = 1 .. N + 1 /\ \A k \in 1 .. N + 1 : minutes(more)[k] = Minutes(more[k])
        BY <2>1
      <3>2. ASSUME NEW k \in 1 .. N + 1 PROVE minutes(more)[k] = longer[k]
        <4>1. CASE k = N + 1
          BY <2>1, <2>4, <3>1, <4>1
        <4>2. CASE k # N + 1
          <5>1. k \in 1 .. N
            BY <4>2
          <5>2. minutes(list)[k] = Minutes(list[k])
            BY <2>1, <5>1
          <5>3. QED
            BY <2>1, <2>4, <3>1, <5>1, <5>2
        <4>3. QED
          BY <4>1, <4>2
      <3>3. longer = [k \in 1 .. N + 1 |-> longer[k]]
        BY <2>4
      <3>4. minutes(more) = [k \in 1 .. N + 1 |-> minutes(more)[k]]
        BY <3>1
      <3> HIDE DEF minutes
      <3>5. QED
        BY <3>2, <3>3, <3>4
    <2> HIDE DEF minutes
    <2>6. Sum(longer) = Sum(minutes(list)) + Minutes(item)
      BY <2>2, SumAppend
    <2>7. QED
      BY <2>5, <2>6 DEF Total, minutes
  <1>6. QED
    BY <1>1, <1>3, <1>4, <1>5

\* What Fill makes of the plan so far and the next row.
Taken(sofar, row, review, room) ==
    IF row.item \in Range(review) \/ (sofar.items # <<>> /\ sofar.spent + Minutes(row.item) > room)
    THEN sofar
    ELSE [items |-> Append(sofar.items, row.item), spent |-> sofar.spent + Minutes(row.item)]

\* What the first n rows have made of it.
FilledTo(T, rows, review, room, n, sofar) ==
    /\ sofar \in [items : Seq(T), spent : Nat]
    /\ IsInjective(sofar.items)
    /\ \A item \in Range(sofar.items) : item \notin Range(review) /\ \E k \in 1 .. n : rows[k].item = item
    /\ sofar.spent = Total(sofar.items)
    /\ sofar.spent <= room \/ Len(sofar.items) = 1
    /\ \A k \in 1 .. n : \/ rows[k].item \in Range(review) \cup Range(sofar.items)
                         \/ sofar.spent + Minutes(rows[k].item) > room

\* One item more at the end of a list.
LEMMA OneMore ==
  ASSUME NEW T, NEW list \in Seq(T), NEW item \in T
  PROVE  /\ Append(list, item) \in Seq(T) /\ Len(Append(list, item)) = Len(list) + 1
         /\ Range(Append(list, item)) = Range(list) \cup {item}
         /\ (IsInjective(list) /\ item \notin Range(list)) => IsInjective(Append(list, item))
  <1>. PICK N \in Nat : N = Len(list)
    OBVIOUS
  <1>. PICK more : more = Append(list, item)
    OBVIOUS
  <1>1. /\ DOMAIN list = 1 .. N /\ DOMAIN more = 1 .. N + 1 /\ more[N + 1] = item
        /\ \A k \in 1 .. N : more[k] = list[k]
        /\ more \in Seq(T) /\ Len(more) = N + 1
    OBVIOUS
  <1>2. \A k \in 1 .. N + 1 : k \in 1 .. N \/ k = N + 1
    OBVIOUS
  <1>3. Range(more) = Range(list) \cup {item}
    <2>1. \A k \in 1 .. N : k \in 1 .. N + 1
      OBVIOUS
    <2>2. N + 1 \in 1 .. N + 1
      OBVIOUS
    <2>3. QED
      BY <1>1, <1>2, <2>1, <2>2 DEF Range
  <1>4. ASSUME IsInjective(list), item \notin Range(list)
        PROVE  IsInjective(more)
    <2>1. \A k \in 1 .. N : list[k] # item
      BY <1>1, <1>4 DEF Range
    <2>2. \A j, k \in 1 .. N : list[j] = list[k] => j = k
      BY <1>1, <1>4 DEF IsInjective
    <2>3. \A j, k \in 1 .. N + 1 : more[j] = more[k] => j = k
      BY <1>1, <1>2, <2>1, <2>2
    <2>4. QED
      BY <1>1, <2>3 DEF IsInjective
  <1>5. QED
    BY <1>1, <1>3, <1>4

LEMMA TakenIs ==
  ASSUME NEW T, \A item \in T : item.minutes \in Nat,
         NEW rows, NEW n \in Nat \ {0}, \A k \in 1 .. n : rows[k].item \in T,
         \A j, k \in 1 .. n : rows[j].item = rows[k].item => j = k,
         NEW review, NEW room \in Nat,
         NEW sofar, FilledTo(T, rows, review, room, n - 1, sofar)
  PROVE  FilledTo(T, rows, review, room, n, Taken(sofar, rows[n], review, room))
  <1>. PICK item : item = rows[n].item
    OBVIOUS
  <1>1. n \in 1 .. n /\ item \in T /\ \A k \in 1 .. n : k \in 1 .. n - 1 \/ k = n
    OBVIOUS
  <1>2. \A k \in 1 .. n - 1 : k \in 1 .. n /\ rows[k].item # item
    BY <1>1
  <1>3. /\ sofar.items \in Seq(T) /\ sofar.spent \in Nat /\ Minutes(item) \in Nat
        /\ Total(sofar.items) = sofar.spent
    BY <1>1, TotalIs DEF FilledTo
  <1>4. CASE item \in Range(review) \/ (sofar.items # <<>> /\ sofar.spent + Minutes(item) > room)
    <2>1. Taken(sofar, rows[n], review, room) = sofar
      BY <1>4 DEF Taken
    <2>2. item \in Range(review) \/ sofar.spent + Minutes(item) > room
      BY <1>4
    <2>3. \A k \in 1 .. n : \/ rows[k].item \in Range(review) \cup Range(sofar.items)
                            \/ sofar.spent + Minutes(rows[k].item) > room
      BY <1>1, <2>2 DEF FilledTo
    <2>4. \A other \in Range(sofar.items) : other \notin Range(review) /\ \E k \in 1 .. n : rows[k].item = other
      BY <1>2 DEF FilledTo
    <2>5. QED
      BY <2>1, <2>3, <2>4 DEF FilledTo
  <1>5. CASE item \notin Range(review) /\ (sofar.items = <<>> \/ ~(sofar.spent + Minutes(item) > room))
    <2>. PICK list : list = Append(sofar.items, item)
      OBVIOUS
    <2>. PICK spent : spent = sofar.spent + Minutes(item)
      OBVIOUS
    <2>. PICK next : next = [items |-> list, spent |-> spent]
      OBVIOUS
    <2>1. Taken(sofar, rows[n], review, room) = next
      BY <1>5 DEF Taken
    <2>2. item \notin Range(sofar.items)
      <3>1. \A other \in Range(sofar.items) : \E k \in 1 .. n - 1 : rows[k].item = other
        BY DEF FilledTo
      <3>2. QED
        BY <1>2, <3>1, Zenon
    <2>3. /\ list \in Seq(T) /\ Len(list) = Len(sofar.items) + 1 /\ Range(list) = Range(sofar.items) \cup {item}
          /\ IsInjective(list)
      <3>. PICK low \in Seq(T) : low = sofar.items
        BY <1>3
      <3>1. IsInjective(low) /\ item \notin Range(low)
        BY <2>2 DEF FilledTo
      <3>2. list = Append(low, item)
        OBVIOUS
      <3>3. QED
        BY <1>1, <3>1, <3>2, OneMore
    <2>4. spent \in Nat /\ spent = Total(list) /\ spent >= sofar.spent
      <3>1. Total(list) = Total(sofar.items) + Minutes(item)
        BY <1>1, <1>3, TotalIs
      <3>2. QED
        BY <1>3, <3>1
    <2>5. spent <= room \/ Len(list) = 1
      <3>1. CASE sofar.items = <<>>
        BY <2>3, <3>1
      <3>2. CASE ~(sofar.spent + Minutes(item) > room)
        BY <1>3, <3>2
      <3>3. QED
        BY <1>5, <3>1, <3>2
    <2>6. ASSUME NEW k \in 1 .. n
          PROVE  rows[k].item \in Range(review) \cup Range(list) \/ spent + Minutes(rows[k].item) > room
      <3>1. CASE k = n
        BY <2>3, <3>1
      <3>2. CASE k # n
        <4>1. k \in 1 .. n - 1 /\ Minutes(rows[k].item) \in Nat
          BY <1>1, <3>2, TotalIs
        <4>2. \/ rows[k].item \in Range(review) \cup Range(sofar.items)
              \/ sofar.spent + Minutes(rows[k].item) > room
          BY <4>1 DEF FilledTo
        <4>3. ASSUME sofar.spent + Minutes(rows[k].item) > room PROVE spent + Minutes(rows[k].item) > room
          BY <1>3, <2>4, <4>1, <4>3
        <4>4. QED
          BY <2>3, <4>2, <4>3
      <3>3. QED
        BY <3>1, <3>2
    <2>7. \A other \in Range(list) : other \notin Range(review) /\ \E k \in 1 .. n : rows[k].item = other
      <3>1. \A other \in Range(sofar.items) : other \notin Range(review) /\ \E k \in 1 .. n - 1 : rows[k].item = other
        BY DEF FilledTo
      <3>2. QED
        BY <1>1, <1>2, <1>5, <2>3, <3>1
    <2>8. next \in [items : Seq(T), spent : Nat] /\ next.items = list /\ next.spent = spent
      BY <2>3, <2>4
    <2>9. FilledTo(T, rows, review, room, n, next)
      BY <2>3, <2>4, <2>5, <2>6, <2>7, <2>8 DEF FilledTo
    <2>10. QED
      BY <2>1, <2>9
  <1>6. QED
    BY <1>4, <1>5

\* What is left of a list of at most one item without those taken already.
LeftOver(review, taken) == Picked(review, {n \in DOMAIN review : review[n] \notin taken})

LEMMA LeftOverIs ==
  ASSUME NEW item, NEW taken
  PROVE  /\ LeftOver(<<>>, taken) = <<>>
         /\ item \in taken => LeftOver(<<item>>, taken) = <<>>
         /\ item \notin taken => LeftOver(<<item>>, taken) = <<item>>
  <1>1. ASSUME NEW list PROVE Picked(list, {}) = <<>>
    <2>1. IsFiniteSet({}) /\ Cardinality({}) = 0
      BY FS_EmptySet
    <2>2. DOMAIN Ascending({}) = 1 .. Cardinality({})
      BY DEF Ascending
    <2>3. DOMAIN Ascending({}) = {}
      BY <2>1, <2>2
    <2>4. QED
      BY <2>3 DEF Picked
  <1>2. Picked(<<item>>, {1}) = <<item>>
    <2>1. IsFiniteSet({1}) /\ Cardinality({1}) = 1
      BY FS_Singleton
    <2>2. DOMAIN Ascending({1}) = 1 .. 1 /\ \A n \in DOMAIN Ascending({1}) : Ascending({1})[n] \in {1}
      <3>0. {1} \in SUBSET Nat
        OBVIOUS
      <3>. PICK S \in SUBSET Nat : S = {1}
        BY <3>0, Zenon
      <3>1. DOMAIN Ascending(S) = 1 .. Cardinality(S) /\ \A n \in DOMAIN Ascending(S) : Ascending(S)[n] \in S
        BY <2>1, AscendingLists
      <3>2. QED
        BY <2>1, <3>1
    <2>3. Picked(<<item>>, {1}) = [n \in 1 .. 1 |-> <<item>>[Ascending({1})[n]]]
      BY <2>2 DEF Picked
    <2>4. \A n \in 1 .. 1 : <<item>>[Ascending({1})[n]] = item
      BY <2>2
    <2>5. QED
      BY <2>3, <2>4
  <1>3. {n \in DOMAIN <<>> : <<>>[n] \notin taken} = {}
    OBVIOUS
  <1>4. item \in taken => {n \in DOMAIN <<item>> : <<item>>[n] \notin taken} = {}
    OBVIOUS
  <1>5. item \notin taken => {n \in DOMAIN <<item>> : <<item>>[n] \notin taken} = {1}
    OBVIOUS
  <1>6. QED
    BY <1>1, <1>2, <1>3, <1>4, <1>5 DEF LeftOver

\* What Fill promises.
Filled(T, rows, review, budget, made) ==
    /\ made \in [items : Seq(T), spent : Nat]
    /\ IsInjective(made.items)
    /\ Range(made.items) \subseteq T
    /\ made.spent = Total(made.items)
    /\ made.spent <= budget \/ Len(made.items) = 1
    /\ \A k \in DOMAIN rows :
           \/ rows[k].item \in Range(review) \cup Range(made.items)
           \/ made.spent + Total(LeftOver(review, Range(made.items))) + Minutes(rows[k].item) > budget

\* Rows of as many items, whose minutes are known.
Fillable(T, rows, N) ==
    /\ \A item \in T : item.minutes \in Nat
    /\ N \in Nat /\ N = Len(rows) /\ DOMAIN rows = 1 .. N
    /\ \A k \in 1 .. N : rows[k].item \in T
    /\ \A j, k \in 1 .. N : rows[j].item = rows[k].item => j = k

\* The rows are gone through, whatever their number.
LEMMA FillsUp ==
  ASSUME NEW T, NEW rows, NEW N, Fillable(T, rows, N),
         NEW review, NEW budget \in Nat, NEW reserved \in Nat,
         reserved = IF review = <<>> THEN 0 ELSE Minutes(review[1])
  PROVE  \E filled : /\ FilledTo(T, rows, review, Max({0, budget - reserved}), N, filled)
                     /\ Fill(rows, review, budget) =
                            IF review # <<>> /\ filled.spent + reserved <= budget
                            THEN [items |-> filled.items \o review, spent |-> filled.spent + reserved]
                            ELSE filled
  <1>0. /\ \A item \in T : item.minutes \in Nat
        /\ N \in Nat /\ N = Len(rows) /\ DOMAIN rows = 1 .. N
        /\ \A k \in 1 .. N : rows[k].item \in T
        /\ \A j, k \in 1 .. N : rows[j].item = rows[k].item => j = k
    BY DEF Fillable
  <1>. N \in Nat /\ N = Len(rows) /\ DOMAIN rows = 1 .. N
    BY <1>0
  <1> DEFINE room == Max({0, budget - reserved})
             none == [items |-> <<>>, spent |-> 0]
             next(sofar, n) == Taken(sofar, rows[n], review, room)
             Solves(f) == f = [n \in 0 .. N |-> IF n = 0 THEN none ELSE next(f[n - 1], n)]
             walk == CHOOSE f : Solves(f)
             D == [items : Seq(T), spent : Nat]
             step == [x \in D \X (1 .. N) |-> next(x[1], x[2])]
  <1>1. Fill(rows, review, budget) =
            IF review # <<>> /\ walk[N].spent + reserved <= budget
            THEN [items |-> walk[N].items \o review, spent |-> walk[N].spent + reserved]
            ELSE walk[N]
    BY DEF Fill, Taken
  <1>2. room \in Nat
    <2>0. 0 \in Int /\ budget - reserved \in Int
      OBVIOUS
    <2>. PICK zero, left \in Int : zero = 0 /\ left = budget - reserved
      BY <2>0, Zenon
    <2>1. Max({zero, left}) = IF zero <= left THEN left ELSE zero
      BY PairOf
    <2>2. QED
      BY <2>1
  <1> HIDE DEF room
  <1>3. ASSUME NEW sofar \in D, NEW n \in 1 .. N PROVE next(sofar, n) \in D
    <2>1. rows[n].item \in T /\ Minutes(rows[n].item) \in Nat
      BY <1>0, TotalIs
    <2>2. CASE next(sofar, n) = sofar
      BY <2>2
    <2>3. CASE next(sofar, n) = [items |-> Append(sofar.items, rows[n].item), spent |-> sofar.spent + Minutes(rows[n].item)]
      <3>1. Append(sofar.items, rows[n].item) \in Seq(T) /\ sofar.spent + Minutes(rows[n].item) \in Nat
        BY <2>1
      <3>2. QED
        BY <2>3, <3>1
    <2>4. QED
      BY <2>2, <2>3 DEF Taken
  <1>4. FilledTo(T, rows, review, room, 0, none)
    <2>1. none.items = <<>> /\ none.spent = 0 /\ none \in D /\ DOMAIN <<>> = {} /\ 1 .. 0 = {}
      OBVIOUS
    <2>2. Total(none.items) = 0
      BY <2>1, <1>0, TotalIs
    <2>3. IsInjective(none.items) /\ Range(none.items) = {}
      BY <2>1 DEF IsInjective, Range
    <2> HIDE DEF none
    <2>4. QED
      BY <1>2, <2>1, <2>2, <2>3 DEF FilledTo
  <1>5. none \in D
    OBVIOUS
  <1> HIDE DEF none
  <1>6. ASSUME NEW n \in 1 .. N, NEW sofar, FilledTo(T, rows, review, room, n - 1, sofar)
        PROVE  FilledTo(T, rows, review, room, n, next(sofar, n))
    <2>1. \A k \in 1 .. n : k \in 1 .. N
      OBVIOUS
    <2>2. n \in Nat \ {0} /\ (\A k \in 1 .. n : rows[k].item \in T)
          /\ \A j, k \in 1 .. n : rows[j].item = rows[k].item => j = k
      BY <1>0, <2>1
    <2>3. QED
      BY <1>2, <1>6, <1>0, <2>2, TakenIs
  <1> HIDE DEF next
  <1>7. step \in [D \X (1 .. N) -> D]
    BY <1>3
  <1>8. \A sofar \in D, n \in 1 .. N : step[<<sofar, n>>] = next(sofar, n)
    OBVIOUS
  <1> HIDE DEF D, step
  <1>9. PICK f : Steps(N, D, none, step, f)
    BY <1>5, <1>7, Recursion
  <1>10. f \in [0 .. N -> D] /\ f[0] = none /\ \A n \in 1 .. N : f[n] = step[<<f[n - 1], n>>]
    BY <1>9 DEF Steps
  <1>11. Solves(f)
    <2>1. ASSUME NEW n \in 0 .. N PROVE f[n] = IF n = 0 THEN none ELSE next(f[n - 1], n)
      <3>1. CASE n = 0
        BY <1>10, <3>1
      <3>2. CASE n # 0
        <4>1. n \in 1 .. N /\ n - 1 \in 0 .. N
          BY <3>2
        <4>2. f[n - 1] \in D
          BY <1>10, <4>1
        <4>3. QED
          BY <1>8, <1>10, <3>2, <4>1, <4>2
      <3>3. QED
        BY <3>1, <3>2
    <2>2. QED
      BY <1>10, <2>1
  <1>12. Solves(walk)
    BY <1>11
  <1> HIDE DEF walk
  <1>13. \A n \in 0 .. N : n \in {m \in 0 .. N : FilledTo(T, rows, review, room, m, walk[m])}
    <2> DEFINE S == {m \in 0 .. N : FilledTo(T, rows, review, room, m, walk[m])}
    <2>1. 0 \in S
      BY <1>4, <1>12
    <2>2. ASSUME NEW n \in 1 .. N, n - 1 \in S PROVE n \in S
      <3>1. n \in 0 .. N /\ FilledTo(T, rows, review, room, n - 1, walk[n - 1])
        BY <2>2
      <3>2. walk[n] = next(walk[n - 1], n)
        BY <1>12, <3>1
      <3>3. QED
        BY <1>6, <3>1, <3>2
    <2> HIDE DEF S
    <2>3. \A n \in 0 .. N : n \in S
      BY <2>1, <2>2, Counted
    <2>4. QED
      BY <2>3 DEF S
  <1>14. N \in 0 .. N
    OBVIOUS
  <1>. PICK filled : filled = walk[N]
    OBVIOUS
  <1>15. FilledTo(T, rows, review, room, N, filled)
    BY <1>13, <1>14
  <1>16. Fill(rows, review, budget) =
             IF review # <<>> /\ filled.spent + reserved <= budget
             THEN [items |-> filled.items \o review, spent |-> filled.spent + reserved]
             ELSE filled
    BY <1>1
  <1>17. FilledTo(T, rows, review, Max({0, budget - reserved}), N, filled)
    BY <1>15 DEF room
  <1>18. QED
    BY <1>16, <1>17, Zenon

LEMMA FillIs ==
  ASSUME NEW T, NEW rows, NEW N, Fillable(T, rows, N),
         NEW review, review = <<>> \/ \E item \in T : review = <<item>>,
         NEW budget \in Nat
  PROVE  Filled(T, rows, review, budget, Fill(rows, review, budget))
  <1>0. /\ \A item \in T : item.minutes \in Nat
        /\ N \in Nat /\ N = Len(rows) /\ DOMAIN rows = 1 .. N
        /\ \A k \in 1 .. N : rows[k].item \in T
        /\ \A j, k \in 1 .. N : rows[j].item = rows[k].item => j = k
    BY DEF Fillable
  <1>. N \in Nat /\ N = Len(rows) /\ DOMAIN rows = 1 .. N
    BY <1>0
  <1>. PICK reserved : reserved = IF review = <<>> THEN 0 ELSE Minutes(review[1])
    OBVIOUS
  <1>1. reserved \in Nat
    <2>1. CASE review = <<>>
      BY <2>1
    <2>2. ASSUME NEW item \in T, review = <<item>> PROVE reserved \in Nat
      BY <2>2, <1>0, TotalIs
    <2>3. QED
      BY <2>1, <2>2
  <1>. PICK room : room = Max({0, budget - reserved})
    OBVIOUS
  <1>2. room \in Nat /\ room >= budget - reserved /\ room <= budget
    <2>. PICK none, left \in Int : none = 0 /\ left = budget - reserved
      BY <1>1
    <2>1. Max({none, left}) = IF none <= left THEN left ELSE none
      BY PairOf
    <2>2. QED
      BY <1>1, <2>1
  <1>a. \E filled : /\ FilledTo(T, rows, review, Max({0, budget - reserved}), N, filled)
                    /\ Fill(rows, review, budget) =
                           IF review # <<>> /\ filled.spent + reserved <= budget
                           THEN [items |-> filled.items \o review, spent |-> filled.spent + reserved]
                           ELSE filled
    BY <1>1, FillsUp
  <1>3. PICK filled : /\ FilledTo(T, rows, review, room, N, filled)
                      /\ Fill(rows, review, budget) =
                            IF review # <<>> /\ filled.spent + reserved <= budget
                            THEN [items |-> filled.items \o review, spent |-> filled.spent + reserved]
                            ELSE filled
    BY <1>a, Zenon
  <1>. PICK made : made = Fill(rows, review, budget)
    OBVIOUS
  <1>4. /\ filled \in [items : Seq(T), spent : Nat] /\ filled.items \in Seq(T) /\ filled.spent \in Nat
        /\ IsInjective(filled.items)
        /\ \A item \in Range(filled.items) : item \notin Range(review)
        /\ filled.spent = Total(filled.items)
        /\ filled.spent <= room \/ Len(filled.items) = 1
        /\ \A k \in 1 .. N : \/ rows[k].item \in Range(review) \cup Range(filled.items)
                             \/ filled.spent + Minutes(rows[k].item) > room
    BY <1>3 DEF FilledTo
  <1>5. Range(filled.items) \subseteq T
    BY <1>4, RangeFinite
  <1>6. \A k \in 1 .. N : Minutes(rows[k].item) \in Nat
    BY <1>0, TotalIs
  <1>7. ASSUME review = <<>> PROVE Filled(T, rows, review, budget, made)
    <2>1. made = filled /\ reserved = 0
      BY <1>3, <1>7
    <2>2. Total(LeftOver(review, Range(made.items))) = 0
      BY <1>7, <1>0, LeftOverIs, TotalIs
    <2>3. made.spent <= budget \/ Len(made.items) = 1
      BY <1>2, <1>4, <2>1
    <2>4. ASSUME NEW k \in 1 .. N
          PROVE  \/ rows[k].item \in Range(review) \cup Range(made.items)
                 \/ made.spent + Total(LeftOver(review, Range(made.items))) + Minutes(rows[k].item) > budget
      <3>. PICK minutes \in Nat, spent \in Nat : minutes = Minutes(rows[k].item) /\ spent = filled.spent
        BY <1>4, <1>6
      <3>1. spent + minutes > room => spent + 0 + minutes > budget
        BY <1>2, <2>1
      <3>2. QED
        BY <1>4, <2>1, <2>2, <3>1
    <2>5. QED
      BY <1>4, <1>5, <2>1, <2>3, <2>4 DEF Filled
  <1>8. ASSUME NEW item \in T, review = <<item>> PROVE Filled(T, rows, review, budget, made)
    <2>1. reserved = Minutes(item) /\ Range(review) = {item} /\ review # <<>>
      BY <1>8 DEF Range
    <2>2. item \notin Range(filled.items)
      BY <1>4, <2>1
    <2>3. CASE ~(filled.spent + reserved <= budget)
      <3>1. made = filled
        BY <1>3, <2>3
      <3>2. Total(LeftOver(review, Range(made.items))) = reserved
        <4>1. LeftOver(review, Range(made.items)) = <<item>>
          BY <1>8, <2>2, <3>1, LeftOverIs
        <4>2. <<>> \in Seq(T) /\ <<item>> = Append(<<>>, item)
          OBVIOUS
        <4>3. Total(<<item>>) = Total(<<>>) + Minutes(item) /\ Total(<<>>) = 0
          BY <4>2, <1>0, TotalIs
        <4>4. QED
          BY <1>1, <2>1, <4>1, <4>3
      <3>3. made.spent <= budget \/ Len(made.items) = 1
        BY <1>2, <1>4, <3>1
      <3>4. ASSUME NEW k \in 1 .. N
            PROVE  \/ rows[k].item \in Range(review) \cup Range(made.items)
                   \/ made.spent + Total(LeftOver(review, Range(made.items))) + Minutes(rows[k].item) > budget
        <4>. PICK minutes \in Nat, spent \in Nat : minutes = Minutes(rows[k].item) /\ spent = filled.spent
          BY <1>4, <1>6
        <4>1. spent + minutes > room => spent + reserved + minutes > budget
          BY <1>1, <1>2
        <4>2. QED
          BY <1>4, <3>1, <3>2, <4>1
      <3>5. QED
        BY <1>4, <1>5, <3>1, <3>3, <3>4 DEF Filled
    <2>4. CASE filled.spent + reserved <= budget
      <3>. PICK list : list = Append(filled.items, item)
        OBVIOUS
      <3>. PICK spent : spent = filled.spent + reserved
        OBVIOUS
      <3>1. made = [items |-> list, spent |-> spent]
        <4>1. filled.items \o review = list
          <5>. PICK low \in Seq(T) : low = filled.items
            BY <1>4
          <5>1. low \o <<item>> = Append(low, item)
            OBVIOUS
          <5>2. QED
            BY <1>8, <5>1
        <4>2. QED
          BY <1>3, <2>1, <2>4, <4>1
      <3>2. /\ list \in Seq(T) /\ Range(list) = Range(filled.items) \cup {item} /\ IsInjective(list)
        BY <1>4, <2>2, OneMore
      <3>3. spent \in Nat /\ spent <= budget /\ spent = Total(list)
        <4>1. Total(list) = Total(filled.items) + Minutes(item)
          BY <1>4, <1>0, TotalIs
        <4>2. QED
          BY <1>1, <1>4, <2>1, <2>4, <4>1
      <3>4. Total(LeftOver(review, Range(list))) = 0
        BY <1>8, <3>2, <1>0, LeftOverIs, TotalIs
      <3>5. ASSUME NEW k \in 1 .. N
            PROVE  \/ rows[k].item \in Range(review) \cup Range(list)
                   \/ spent + Total(LeftOver(review, Range(list))) + Minutes(rows[k].item) > budget
        <4>1. CASE rows[k].item \in Range(review) \cup Range(filled.items)
          BY <3>2, <4>1
        <4>2. CASE filled.spent + Minutes(rows[k].item) > room
          <5>. PICK minutes \in Nat, before \in Nat : minutes = Minutes(rows[k].item) /\ before = filled.spent
            BY <1>4, <1>6
          <5>1. before + minutes > room /\ spent = before + reserved
            BY <4>2
          <5>2. spent + 0 + minutes > budget
            BY <1>1, <1>2, <5>1
          <5>3. QED
            BY <3>4, <5>2
        <4>3. QED
          BY <1>4, <4>1, <4>2
      <3>6. made \in [items : Seq(T), spent : Nat] /\ made.items = list /\ made.spent = spent
        BY <3>1, <3>2, <3>3
      <3>7. Range(list) \subseteq T
        BY <1>5, <3>2
      <3>8. QED
        BY <3>2, <3>3, <3>5, <3>6, <3>7 DEF Filled
    <2>5. QED
      BY <1>1, <1>4, <2>3, <2>4
  <1>9. QED
    BY <1>7, <1>8

\* What build_plan makes of a request: what Fill promises of the shortlist and the review.
LEMMA PlanIs ==
  ASSUME NEW g, NEW learner, NEW library, NEW request, Planned(g, learner, library, request)
  PROVE  Filled(Range(Eligible(library, request)), Shortlist(g, learner, library, request),
                Review(learner, library, request), request.budget, BuildPlan(g, learner, library, request))
  <1>. PICK T : T = Range(Eligible(library, request))
    OBVIOUS
  <1>. PICK rows : rows = Shortlist(g, learner, library, request)
    OBVIOUS
  <1>. PICK review : review = Review(learner, library, request)
    OBVIOUS
  <1>0. request.budget \in 1 .. 240
    BY PlannedTyped
  <1>. PICK budget \in Nat : budget = request.budget
    BY <1>0
  <1>1. /\ DOMAIN rows = 1 .. Len(rows) /\ Len(rows) \in Nat
        /\ \A n \in DOMAIN rows : rows[n].item \in T
        /\ \A j, k \in DOMAIN rows : rows[j].item = rows[k].item => j = k
    BY ShortlistIs
  <1>2. \A item \in T : item.minutes \in Nat
    BY PlannedTyped, EligibleIs
  <1>3. Fillable(T, rows, Len(rows))
    BY <1>1, <1>2 DEF Fillable
  <1>4. review = <<>> \/ \E item \in T : review = <<item>>
    BY ReviewIs
  <1>5. Filled(T, rows, review, budget, Fill(rows, review, budget))
    BY <1>3, <1>4, FillIs
  <1>6. QED
    BY <1>5 DEF BuildPlan

---------------------------------------------------------------------------
\* What is served

\* An item that passed the gate and may be served.
Usable(item) ==
    /\ Shaped(item) /\ item.kind = "instance" /\ GradingSound(item, Concepts)
    /\ item.modality = DomainModality[item.domain]
    /\ item.concepts \subseteq Concepts /\ item.primary \in item.concepts

\* Nothing is served before the corpus is let through; then a plan is what the planner made of
\* the items that were, and what is graded is one of them.
Served ==
    /\ graph \in Graphs
    /\ verdict = "valid" => items \in Libraries /\ ItemsSound(items, Concepts)
    /\ verdict # "valid" => asked = Nothing /\ plan = NoPlan /\ graded = Nothing
    /\ plan.items \in Seq({item \in Range(plan.items) : Usable(item)})
    /\ asked # Nothing => /\ asked.learner \in Learners /\ asked.request \in Wishes
                          /\ plan = BuildPlan(graph, asked.learner, items, asked.request)
    /\ graded # Nothing => /\ Usable(graded.item) /\ graded.submission \in Submissions
                           /\ Fits(graded.item, graded.submission)
                           /\ graded.grade = Grade(graded.item, graded.submission)

LEMMA UsableIs ==
  ASSUME NEW g, NEW learner, NEW library, NEW request, Planned(g, learner, library, request)
  PROVE  \A item \in Range(Eligible(library, request)) : Usable(item)
  <1>1. SUFFICES ASSUME NEW item \in Range(Eligible(library, request)) PROVE Usable(item)
    OBVIOUS
  <1>2. item \in Range(library) /\ item.kind = "instance"
    BY EligibleIs
  <1>3. Accepts(item, library, Concepts) /\ Shaped(item)
    BY <1>2, PlannedTyped, ServingAssumption DEF Planned
  <1>4. QED
    BY <1>2, <1>3 DEF Accepts, Usable

LEMMA UsableList ==
  ASSUME NEW T, \A item \in T : Usable(item), NEW list \in Seq(T)
  PROVE  list \in Seq({item \in Range(list) : Usable(item)})
  <1>1. /\ DOMAIN list = 1 .. Len(list) /\ Len(list) \in Nat /\ Range(list) \in SUBSET T
        /\ \A n \in DOMAIN list : list[n] \in Range(list)
    BY RangeFinite
  <1>2. \A n \in 1 .. Len(list) : list[n] \in {item \in Range(list) : Usable(item)}
    BY <1>1
  <1>3. QED
    BY <1>1, <1>2

LEMMA ServedFirst == ServingInit => Served
  <1>1. SUFFICES ASSUME ServingInit PROVE Served
    OBVIOUS
  <1>2. graph \in Graphs /\ verdict = "walking" /\ asked = Nothing /\ plan = NoPlan /\ graded = Nothing
    BY <1>1 DEF ServingInit, CorpusInit
  <1>3. plan.items = <<>>
    BY <1>2 DEF NoPlan
  <1>4. <<>> \in Seq({item \in Range(<<>>) : Usable(item)})
    OBVIOUS
  <1>5. QED
    BY <1>2, <1>3, <1>4 DEF Served

LEMMA ServedNext == Served /\ [Serve]_servingVars => Served'
  <1>1. SUFFICES ASSUME Served, [Serve]_servingVars PROVE Served'
    OBVIOUS
  <1>2. ASSUME Validate, UNCHANGED planVars PROVE Served'
    <2>1. UNCHANGED <<asked, plan, graded>>
      BY <1>2 DEF planVars
    <2>2. ASSUME UNCHANGED <<graph, items, verdict>> PROVE Served'
      BY <1>1, <2>1, <2>2 DEF Served
    <2>3. ASSUME NEW library \in Libraries, CheckItems(library) PROVE Served'
      <3>1. /\ graph' = graph /\ verdict = "walking" /\ items' = library
            /\ verdict' = "valid" => ItemsSound(library, Concepts)
        BY <2>3 DEF CheckItems
      <3>2. asked' = Nothing /\ plan' = NoPlan /\ graded' = Nothing
        BY <1>1, <2>1, <3>1 DEF Served
      <3>3. plan' = plan
        BY <2>1
      <3>4. QED
        BY <1>1, <3>1, <3>2, <3>3 DEF Served
    <2>4. QED
      BY <1>2, <2>2, <2>3 DEF Validate, Root, Leave, Skip, Report, Enter
  <1>3. ASSUME NEW learner \in Learners, NEW request \in Wishes, Plan(learner, request) PROVE Served'
    <2>. PICK made : made = BuildPlan(graph, learner, items, request)
      OBVIOUS
    <2>. PICK session : session = [kind |-> "session", learner |-> learner, request |-> request]
      OBVIOUS
    <2>1. /\ verdict = "valid" /\ plan' = made /\ asked' = session /\ graded = Nothing /\ graded' = Nothing
          /\ graph' = graph /\ items' = items /\ verdict' = verdict
      BY <1>3 DEF Plan, corpusVars
    <2>2. session.learner = learner /\ session.request = request
      OBVIOUS
    <2>3. Planned(graph, learner, items, request)
      BY <1>1, <2>1, CorpusAssumption DEF Served, Planned
    <2>4. made.items \in Seq(Range(Eligible(items, request)))
      BY <2>3, PlanIs DEF Filled
    <2>5. made.items \in Seq({item \in Range(made.items) : Usable(item)})
      BY <2>3, <2>4, UsableIs, UsableList
    <2>6. Libraries' = Libraries
      OBVIOUS
    <2>7. /\ graph' \in Graphs
          /\ items' \in Libraries /\ ItemsSound(items', Concepts)
          /\ plan' = BuildPlan(graph', learner, items', request)
      BY <1>1, <2>1 DEF Served
    <2>8. QED
      BY <2>1, <2>2, <2>5, <2>7 DEF Served
  <1>4. ASSUME NEW submission \in Submissions, Submit(submission) PROVE Served'
    <2>. PICK item : item = Head(plan.items)
      OBVIOUS
    <2>. PICK rest : rest = Tail(plan.items)
      OBVIOUS
    <2>. PICK record : record = [kind |-> "graded", item |-> item, submission |-> submission,
                                 grade |-> Grade(item, submission)]
      OBVIOUS
    <2>1. /\ plan.items # <<>> /\ Fits(item, submission)
          /\ graded' = record /\ plan' = [items |-> rest, spent |-> 0] /\ asked' = Nothing
          /\ graph' = graph /\ items' = items /\ verdict' = verdict
      BY <1>4 DEF Submit, corpusVars
    <2>2. record.item = item /\ record.submission = submission /\ record.grade = Grade(item, submission)
      OBVIOUS
    <2>. PICK list : list = plan.items
      OBVIOUS
    <2>. PICK T : T = {served \in Range(list) : Usable(served)}
      OBVIOUS
    <2>3. list \in Seq(T) /\ \A served \in T : Usable(served)
      BY <1>1 DEF Served
    <2>4. item \in T /\ rest \in Seq(T)
      BY <2>1, <2>3
    <2>5. rest \in Seq({served \in Range(rest) : Usable(served)})
      BY <2>3, <2>4, UsableList
    <2>6. plan'.items = rest
      BY <2>1
    <2>7. verdict = "valid"
      <3>1. NoPlan.items = <<>>
        BY DEF NoPlan
      <3>2. QED
        BY <1>1, <2>1, <3>1 DEF Served
    <2>8. QED
      BY <1>1, <2>1, <2>2, <2>3, <2>4, <2>5, <2>6, <2>7 DEF Served
  <1>5. ASSUME UNCHANGED servingVars PROVE Served'
    <2>1. UNCHANGED <<graph, items, verdict, asked, plan, graded>>
      BY <1>5 DEF servingVars, planVars, corpusVars
    <2>2. QED
      BY <1>1, <2>1 DEF Served
  <1>6. QED
    BY <1>1, <1>2, <1>3, <1>4, <1>5 DEF Serve

LEMMA AlwaysServed == ServingSpec => []Served
  <1>1. QED
    BY ServedFirst, ServedNext, PTL DEF ServingSpec

\* A plan serves no item twice, although the item under review is chosen apart from the
\* weaknesses (build_plan), keeps within the minutes asked for unless it is one item, and has
\* passed over nothing that would have fitted.
THEOREM PlansAreSound == ServingSpec => []PlanSound
  <1>1. Served => PlanSound
    <2>1. SUFFICES ASSUME Served, asked # Nothing
                   PROVE  LET request == asked.request
                              review == Review(asked.learner, items, request)
                              reserved == Picked(review, {n \in DOMAIN review : review[n] \notin Range(plan.items)})
                              passed == {row.item : row \in Range(Shortlist(graph, asked.learner, items, request))}
                                            \ (Range(plan.items) \cup Range(review))
                          IN  /\ IsInjective(plan.items) /\ plan.spent = Total(plan.items)
                              /\ plan.spent <= request.budget \/ Len(plan.items) = 1
                              /\ \A item \in passed : plan.spent + Total(reserved) + Minutes(item) > request.budget
      BY Zenon DEF PlanSound
    <2>. PICK request : request = asked.request
      OBVIOUS
    <2>. PICK learner : learner = asked.learner
      OBVIOUS
    <2>. PICK rows : rows = Shortlist(graph, learner, items, request)
      OBVIOUS
    <2>. PICK review : review = Review(learner, items, request)
      OBVIOUS
    <2>2. /\ graph \in Graphs /\ items \in Libraries /\ ItemsSound(items, Concepts)
          /\ learner \in Learners /\ request \in Wishes /\ plan = BuildPlan(graph, learner, items, request)
      BY <2>1 DEF Served
    <2>3. Planned(graph, learner, items, request)
      BY <2>2, CorpusAssumption DEF Planned
    <2>4. \E T : Filled(T, rows, review, request.budget, plan)
      BY <2>2, <2>3, PlanIs
    <2>5. /\ IsInjective(plan.items) /\ plan.spent = Total(plan.items)
          /\ plan.spent <= request.budget \/ Len(plan.items) = 1
          /\ \A k \in DOMAIN rows :
                \/ rows[k].item \in Range(review) \cup Range(plan.items)
                \/ plan.spent + Total(LeftOver(review, Range(plan.items))) + Minutes(rows[k].item) > request.budget
      BY <2>4 DEF Filled
    <2>6. \A item \in {row.item : row \in Range(rows)} \ (Range(plan.items) \cup Range(review)) :
              plan.spent + Total(LeftOver(review, Range(plan.items))) + Minutes(item) > request.budget
      BY <2>5 DEF Range
    <2>7. QED
      BY <2>5, <2>6 DEF LeftOver
  <1>2. QED
    BY <1>1, AlwaysServed, PTL

---------------------------------------------------------------------------
\* The answer to a quantitative question

\* What is marked and followed by an expression where the working ends.
Declarations(lines) == {k \in DOMAIN lines : k >= LastArithmetic(lines) /\ lines[k].marked /\ lines[k].rest # <<>>}

\* The last line with arithmetic, and no declaration before or after it.
LEMMA LastIs ==
  ASSUME NEW lines \in Seq(AnswerLines)
  PROVE  /\ LastArithmetic(lines) \in 0 .. Len(lines)
         /\ \A k \in Arithmetic(lines) : k \in 1 .. Len(lines) /\ k <= LastArithmetic(lines)
         /\ Arithmetic(lines) # {} => LastArithmetic(lines) \in Arithmetic(lines)
         /\ Arithmetic(lines) = {} => LastArithmetic(lines) = 0
         /\ \A k \in Declarations(lines) : k = LastArithmetic(lines)
  <1>. PICK N \in Nat : N = Len(lines)
    OBVIOUS
  <1> DEFINE S == Arithmetic(lines) \cup {0}
  <1>1. DOMAIN lines = 1 .. N /\ Arithmetic(lines) \in SUBSET (1 .. N)
    BY DEF Arithmetic
  <1>2. S \in SUBSET (0 .. N) /\ 0 \in S
    BY <1>1
  <1>3. LastArithmetic(lines) = Max(S)
    BY DEF LastArithmetic
  <1>. PICK L : L = LastArithmetic(lines)
    OBVIOUS
  <1>4. L \in S /\ \A k \in S : k <= L
    <2> HIDE DEF S
    <2>1. S # {}
      BY <1>2
    <2>2. QED
      BY <1>2, <1>3, <2>1, MaxOf
  <1>5. \A k \in Arithmetic(lines) : k \in 1 .. N /\ k <= L
    BY <1>1, <1>4
  <1>6. Arithmetic(lines) # {} => L \in Arithmetic(lines)
    BY <1>1, <1>4, <1>5
  <1>7. Arithmetic(lines) = {} => L = 0
    BY <1>4
  <1>8. ASSUME NEW k \in Declarations(lines) PROVE k = L
    <2>1. k \in 1 .. N /\ k >= L /\ lines[k].rest # <<>> /\ lines[k] \in AnswerLines
      BY <1>1, <1>8 DEF Declarations
    <2>. PICK before \in Seq(Nat), rest \in Seq(Nat) : before = lines[k].before /\ rest = lines[k].rest
      BY <2>1 DEF AnswerLines
    <2>2. Len(rest) # 0 /\ Len(before \o rest) = Len(before) + Len(rest) /\ Len(before) \in Nat /\ Len(rest) \in Nat
      BY <2>1
    <2>3. before \o rest # <<>>
      BY <2>2
    <2>4. k \in Arithmetic(lines)
      BY <1>1, <2>1, <2>3 DEF Arithmetic, Expressions
    <2>5. QED
      BY <1>2, <1>4, <1>5, <2>1, <2>4
  <1>9. QED
    BY <1>2, <1>4, <1>5, <1>6, <1>7, <1>8

\* So the closing statement is read from that line alone.
LEMMA ClosingIs ==
  ASSUME NEW lines \in Seq(AnswerLines), Arithmetic(lines) # {},
         NEW L, L = LastArithmetic(lines), NEW line, line = lines[L]
  PROVE  ClosingStatement(lines) =
             IF line.marked /\ line.rest # <<>>
             THEN [declared |-> TRUE, spans |-> line.rest, form |-> line.form]
             ELSE IF L > Len(lines) - ClosingLines
             THEN [declared |-> FALSE, spans |-> Expressions(line), form |-> line.form]
             ELSE Unstated
  <1>1. L \in 1 .. Len(lines) /\ L \in Arithmetic(lines) /\ DOMAIN lines = 1 .. Len(lines) /\ Len(lines) \in Nat
    BY LastIs
  <1>2. Declarations(lines) = IF line.marked /\ line.rest # <<>> THEN {L} ELSE {}
    <2>1. \A k \in Declarations(lines) : k = L
      BY LastIs
    <2>2. L \in Declarations(lines) <=> line.marked /\ line.rest # <<>>
      BY <1>1 DEF Declarations
    <2>3. QED
      BY <2>1, <2>2
  <1> DEFINE concluding == {k \in Arithmetic(lines) : k > Len(lines) - ClosingLines}
  <1>3. ClosingLines \in Nat
    BY GradersAssumption
  <1>4. \A k \in Arithmetic(lines) : k \in 1 .. Len(lines) /\ k <= L
    BY LastIs
  <1>5. L > Len(lines) - ClosingLines => L \in concluding
    BY <1>1
  <1>. PICK N \in Nat, C \in Nat : N = Len(lines) /\ C = ClosingLines
    BY <1>3
  <1>6. ~(L > Len(lines) - ClosingLines) => concluding = {}
    <2>1. SUFFICES ASSUME ~(L > N - C), NEW k \in concluding PROVE FALSE
      OBVIOUS
    <2>2. k \in 1 .. N /\ k <= L /\ k > N - C
      BY <1>4
    <2>3. L \in 1 .. N
      BY <1>1
    <2>4. QED
      BY <2>1, <2>2, <2>3
  <1>7. concluding # {} => Max(concluding) = L
    <2>1. concluding \in SUBSET (0 .. Len(lines)) /\ \A k \in concluding : k <= L
      <3>1. ASSUME NEW k \in concluding PROVE k \in 0 .. N /\ k <= L
        BY <1>4
      <3>2. QED
        BY <3>1
    <2>2. concluding # {} => L \in concluding
      BY <1>5, <1>6
    <2> HIDE DEF concluding
    <2>3. ASSUME concluding # {} PROVE Max(concluding) = L
      <3>1. Max(concluding) \in concluding /\ \A k \in concluding : k <= Max(concluding)
        BY <1>1, <2>1, <2>3, MaxOf
      <3>2. L <= Max(concluding) /\ Max(concluding) <= L /\ Max(concluding) \in 0 .. N
        BY <2>1, <2>2, <2>3, <3>1
      <3>3. QED
        BY <1>1, <3>2
    <2>4. QED
      BY <2>3
  <1>8. Max({L}) = L
    <2>1. {L} \in SUBSET (0 .. Len(lines)) /\ {L} # {}
      BY <1>1
    <2>2. Max({L}) \in {L}
      BY <1>1, <2>1, MaxOf
    <2>3. QED
      BY <2>2
  <1>9. ClosingStatement(lines) =
            IF Declarations(lines) # {}
            THEN [declared |-> TRUE, spans |-> lines[Max(Declarations(lines))].rest,
                  form |-> lines[Max(Declarations(lines))].form]
            ELSE IF concluding # {}
            THEN [declared |-> FALSE, spans |-> Expressions(lines[Max(concluding)]), form |-> lines[Max(concluding)].form]
            ELSE Unstated
    BY Zenon DEF ClosingStatement, Declarations
  <1> HIDE DEF concluding
  <1>10. CASE line.marked /\ line.rest # <<>>
    <2>1. Declarations(lines) = {L}
      BY <1>2, <1>10
    <2>2. Declarations(lines) # {} /\ lines[Max(Declarations(lines))] = line
      BY <1>8, <2>1
    <2>3. QED
      BY <1>9, <1>10, <2>2, Zenon
  <1>11. CASE ~(line.marked /\ line.rest # <<>>)
    <2>1. Declarations(lines) = {}
      BY <1>2, <1>11
    <2>2. CASE L > Len(lines) - ClosingLines
      <3>1. concluding # {} /\ lines[Max(concluding)] = line
        BY <1>5, <1>7, <2>2
      <3>2. QED
        BY <1>9, <1>11, <2>1, <2>2, <3>1, Zenon
    <2>3. CASE ~(L > Len(lines) - ClosingLines)
      BY <1>6, <1>9, <1>11, <2>1, <2>3, Zenon
    <2>4. QED
      BY <2>2, <2>3
  <1>12. QED
    BY <1>10, <1>11

\* What is cut off before the last line with arithmetic is not missed.
LEMMA ClosingTail ==
  ASSUME NEW lines \in Seq(AnswerLines), NEW k \in 1 .. LastArithmetic(lines),
         NEW N \in Nat, N = Len(lines), NEW rest \in Seq(AnswerLines),
         Len(rest) = N - k + 1, \A j \in 1 .. N - k + 1 : rest[j] = lines[j + k - 1]
  PROVE  ClosingStatement(rest) = ClosingStatement(lines)
  <1>. PICK L : L = LastArithmetic(lines)
    OBVIOUS
  <1>1. L \in 1 .. N /\ k \in 1 .. L /\ k \in 1 .. N /\ L \in Arithmetic(lines) /\ DOMAIN lines = 1 .. N
    BY LastIs
  <1>2. /\ rest \in Seq(AnswerLines) /\ Len(rest) = N - k + 1 /\ DOMAIN rest = 1 .. N - k + 1
        /\ \A j \in 1 .. N - k + 1 : rest[j] = lines[j + k - 1]
    BY <1>1
  <1>3. L - k + 1 \in 1 .. N - k + 1 /\ rest[L - k + 1] = lines[L]
    BY <1>1, <1>2
  <1>4. L - k + 1 \in Arithmetic(rest)
    BY <1>1, <1>2, <1>3 DEF Arithmetic
  <1>5. ASSUME NEW j \in Arithmetic(rest) PROVE j <= L - k + 1
    <2>1. j \in 1 .. N - k + 1 /\ rest[j] = lines[j + k - 1] /\ j + k - 1 \in 1 .. N
      BY <1>1, <1>2 DEF Arithmetic
    <2>2. j + k - 1 \in Arithmetic(lines)
      BY <1>1, <1>2, <2>1 DEF Arithmetic
    <2>3. j + k - 1 <= L
      BY <2>2, LastIs
    <2>4. QED
      BY <1>1, <2>1, <2>3
  <1>6. LastArithmetic(rest) = L - k + 1
    <2>1. LastArithmetic(rest) \in Arithmetic(rest) /\ L - k + 1 <= LastArithmetic(rest) /\ LastArithmetic(rest) \in Int
      BY <1>2, <1>4, LastIs
    <2>2. QED
      BY <1>1, <1>5, <2>1
  <1>7. (L - k + 1 > Len(rest) - ClosingLines) <=> (L > N - ClosingLines)
    BY <1>1, <1>2, GradersAssumption
  <1>. PICK line : line = lines[L]
    OBVIOUS
  <1>8. ClosingStatement(lines) =
            IF line.marked /\ line.rest # <<>>
            THEN [declared |-> TRUE, spans |-> line.rest, form |-> line.form]
            ELSE IF L > N - ClosingLines
            THEN [declared |-> FALSE, spans |-> Expressions(line), form |-> line.form]
            ELSE Unstated
    BY <1>1, ClosingIs
  <1>9. ClosingStatement(rest) =
            IF line.marked /\ line.rest # <<>>
            THEN [declared |-> TRUE, spans |-> line.rest, form |-> line.form]
            ELSE IF L - k + 1 > Len(rest) - ClosingLines
            THEN [declared |-> FALSE, spans |-> Expressions(line), form |-> line.form]
            ELSE Unstated
    BY <1>2, <1>3, <1>4, <1>6, ClosingIs
  <1>10. CASE line.marked /\ line.rest # <<>>
    BY <1>8, <1>9, <1>10, Zenon
  <1>11. CASE ~(line.marked /\ line.rest # <<>>) /\ L > N - ClosingLines
    BY <1>7, <1>8, <1>9, <1>11, Zenon
  <1>12. CASE ~(line.marked /\ line.rest # <<>>) /\ ~(L > N - ClosingLines)
    BY <1>7, <1>8, <1>9, <1>12, Zenon
  <1>13. QED
    BY <1>10, <1>11, <1>12

LEMMA ClosingSame ==
  ASSUME NEW lines \in Seq(AnswerLines), NEW k \in 1 .. LastArithmetic(lines)
  PROVE  ClosingStatement(SubSeq(lines, k, Len(lines))) = ClosingStatement(lines)
  <1>. PICK N \in Nat : N = Len(lines)
    OBVIOUS
  <1>1. k \in 1 .. N
    <2>1. LastArithmetic(lines) \in 0 .. N
      BY LastIs
    <2>2. QED
      BY <2>1
  <1>2. /\ SubSeq(lines, k, N) \in Seq(AnswerLines) /\ Len(SubSeq(lines, k, N)) = N - k + 1
        /\ \A j \in 1 .. N - k + 1 : SubSeq(lines, k, N)[j] = lines[j + k - 1]
    BY <1>1
  <1>3. QED
    BY <1>2, ClosingTail

\* Where nothing is worked out nothing is stated.
LEMMA SilentIs ==
  ASSUME NEW lines \in Seq(AnswerLines), Arithmetic(lines) = {}
  PROVE  ClosingStatement(lines) = Unstated
  <1>1. Declarations(lines) = {}
    <2>1. \A k \in Declarations(lines) : k = 0 /\ k \in DOMAIN lines
      BY LastIs DEF Declarations
    <2>2. 0 \notin DOMAIN lines
      OBVIOUS
    <2>3. QED
      BY <2>1, <2>2
  <1>2. {k \in Arithmetic(lines) : k > Len(lines) - ClosingLines} = {}
    OBVIOUS
  <1>3. QED
    BY <1>1, <1>2, Zenon DEF ClosingStatement, Declarations

\* A declaration that counts is on the last line with arithmetic and is held to its first expression.
LEMMA DeclaredIs ==
  ASSUME NEW lines \in Seq(AnswerLines), NEW grading,
         CheckAnswer(grading, lines).correct, CheckAnswer(grading, lines).declared
  PROVE  LET line == lines[LastArithmetic(lines)]
         IN  line.marked /\ (line.rest[1] \in {grading.exact, grading.numeric} \/ line.form)
  <1>. PICK statement : statement = ClosingStatement(lines)
    OBVIOUS
  <1>. PICK line : line = lines[LastArithmetic(lines)]
    OBVIOUS
  <1> DEFINE candidates == IF statement.declared THEN {statement.spans[1]} ELSE Range(statement.spans)
  <1>1. /\ CheckAnswer(grading, lines).declared = statement.declared
        /\ CheckAnswer(grading, lines).correct =
               (\/ (candidates \ {None}) \cap {grading.exact, grading.numeric} # {}
                \/ statement.form /\ grading.forms)
    BY Zenon DEF CheckAnswer
  <1>2. statement.declared
    BY <1>1
  <1>3. \/ statement.spans[1] \in {grading.exact, grading.numeric}
        \/ statement.form
    BY <1>1, <1>2
  <1>4. Arithmetic(lines) # {}
    <2>1. Unstated.declared = FALSE
      BY DEF Unstated
    <2>2. QED
      BY <1>2, <2>1, SilentIs
  <1>5. statement =
            IF line.marked /\ line.rest # <<>>
            THEN [declared |-> TRUE, spans |-> line.rest, form |-> line.form]
            ELSE IF LastArithmetic(lines) > Len(lines) - ClosingLines
            THEN [declared |-> FALSE, spans |-> Expressions(line), form |-> line.form]
            ELSE Unstated
    BY <1>4, ClosingIs
  <1>6. line.marked /\ statement.spans = line.rest /\ statement.form = line.form
    <2>1. Unstated.declared = FALSE
      BY DEF Unstated
    <2>2. QED
      BY <1>2, <1>5, <2>1
  <1>7. QED
    BY <1>3, <1>6

---------------------------------------------------------------------------
\* What is graded

\* An item that passed the gate is graded by its own grader, for code or for prose.
LEMMA KindOf ==
  ASSUME NEW item, Usable(item)
  PROVE  \/ item.modality = "coding" /\ item.grading.type = "tests" /\ TestsSound(item.grading)
         \/ item.modality # "coding" /\ item.grading.type = "answer" /\ AnswerSound(item.grading, Concepts)
         \/ /\ item.modality # "coding" /\ item.grading.type = "rubric"
            /\ Len(item.grading.criteria) >= 3 /\ CriteriaSound(item.grading.criteria, Concepts)
  <1>. PICK type : type = item.grading.type
    OBVIOUS
  <1>1. item.domain \in {"coding", "quant", "system_design", "behavioral"}
    BY DEF Usable, Shaped, DomainModality
  <1>2. item.modality \in {"coding", "quant", "design", "behavioral"}
    BY <1>1 DEF Usable, DomainModality
  <1>3. /\ type = ModalityGrading[item.modality]
        /\ CASE type = "tests" -> TestsSound(item.grading)
             [] type = "answer" -> AnswerSound(item.grading, Concepts)
             [] type = "rubric" ->
                    Len(item.grading.criteria) >= 3 /\ CriteriaSound(item.grading.criteria, Concepts)
    BY DEF Usable, GradingSound
  <1>4. CASE item.modality = "coding"
    <2>1. type = "tests"
      BY <1>3, <1>4 DEF ModalityGrading
    <2>2. QED
      BY <1>3, <1>4, <2>1
  <1>5. CASE item.modality = "quant"
    <2>1. type = "answer"
      BY <1>3, <1>5 DEF ModalityGrading
    <2>2. QED
      BY <1>3, <1>5, <2>1
  <1>6. CASE item.modality \in {"design", "behavioral"}
    <2>1. type = "rubric"
      BY <1>3, <1>6 DEF ModalityGrading
    <2>2. QED
      BY <1>3, <1>6, <2>1
  <1>7. QED
    BY <1>2, <1>4, <1>5, <1>6

\* What fits an item is typed.
LEMMA FitsIs ==
  ASSUME NEW item, Usable(item), NEW submission \in Submissions, Fits(item, submission)
  PROVE  /\ item.modality = "coding" =>
                /\ submission.kind = "code" /\ submission \in Runs /\ submission.passed <= submission.total
                /\ submission.language \in item.grading.languages
         /\ item.modality # "coding" =>
                /\ submission.kind = "prose" /\ submission.lines \in Seq(AnswerLines) /\ submission.hints \in Nat
                /\ \A id \in DOMAIN submission.verdicts : submission.verdicts[id] \in ModelVerdicts
  <1>1. submission \in Runs => submission.kind = "code"
    BY DEF Runs
  <1>2. \/ submission \in Runs /\ submission.passed <= submission.total
        \/ /\ submission.kind = "prose" /\ submission.lines \in Seq(AnswerLines) /\ submission.hints \in Nat
           /\ \A id \in DOMAIN submission.verdicts : submission.verdicts[id] \in ModelVerdicts
    BY ServingAssumption
  <1>3. QED
    BY <1>1, <1>2 DEF Fits

\* The answer is read from where the working ends (closing_statement): no line before the last
\* one with arithmetic changes what is taken for it, and a wrong declaration is not saved by
\* the right number beside it.
THEOREM AnswersAreConclusions == ServingSpec => []AnswerIsConclusion
  <1>1. Served => AnswerIsConclusion
    <2>1. SUFFICES ASSUME Served, graded # Nothing, graded.item.grading.type = "answer"
                   PROVE  LET grading == graded.item.grading
                              lines == graded.submission.lines
                              check == CheckAnswer(grading, lines)
                          IN  /\ \A k \in 1 .. LastArithmetic(lines) :
                                     CheckAnswer(grading, SubSeq(lines, k, Len(lines))) = check
                              /\ (check.correct /\ check.declared) =>
                                     LET line == lines[LastArithmetic(lines)]
                                     IN  line.marked /\ (line.rest[1] \in {grading.exact, grading.numeric} \/ line.form)
      BY Zenon DEF AnswerIsConclusion
    <2>. PICK item, submission : item = graded.item /\ submission = graded.submission
      OBVIOUS
    <2>. PICK grading : grading = item.grading
      OBVIOUS
    <2>2. Usable(item) /\ submission \in Submissions /\ Fits(item, submission)
      BY <2>1 DEF Served
    <2>3. item.modality # "coding"
      BY <2>1, <2>2, KindOf
    <2>4. submission.lines \in Seq(AnswerLines)
      BY <2>2, <2>3, FitsIs
    <2>. PICK lines \in Seq(AnswerLines) : lines = submission.lines
      BY <2>4
    <2>5. ASSUME NEW k \in 1 .. LastArithmetic(lines)
          PROVE  CheckAnswer(grading, SubSeq(lines, k, Len(lines))) = CheckAnswer(grading, lines)
      <3>1. ClosingStatement(SubSeq(lines, k, Len(lines))) = ClosingStatement(lines)
        BY ClosingSame
      <3>2. QED
        BY <3>1, Zenon DEF CheckAnswer
    <2>6. ASSUME CheckAnswer(grading, lines).correct, CheckAnswer(grading, lines).declared
          PROVE  LET line == lines[LastArithmetic(lines)]
                 IN  line.marked /\ (line.rest[1] \in {grading.exact, grading.numeric} \/ line.form)
      BY <2>6, DeclaredIs
    <2>7. QED
      BY <2>5, <2>6, Zenon
  <1>2. QED
    BY <1>1, AlwaysServed, PTL

---------------------------------------------------------------------------
\* The probe

\* Up to cubic growth a size takes one to eight times as long as the one before.
LEMMA PowerIs ==
  ASSUME NEW growth \in 0 .. 3
  PROVE  2 ^ growth \in 1 .. 8
  <1>1. CASE growth = 0
    BY <1>1
  <1>2. CASE growth = 1
    BY <1>2
  <1>3. CASE growth = 2
    BY <1>3
  <1>4. CASE growth = 3
    BY <1>4
  <1>5. QED
    BY <1>1, <1>2, <1>3, <1>4

LEMMA Monotone ==
  ASSUME NEW a \in Nat, NEW b \in Nat, a <= b, NEW c \in Nat
  PROVE  a * c <= b * c /\ a * c \in Nat /\ b * c \in Nat
  <1>1. (b - a) * c \in Nat /\ b * c = a * c + (b - a) * c
    OBVIOUS
  <1>2. a * c \in Nat /\ b * c \in Nat
    OBVIOUS
  <1>3. QED
    BY <1>1, <1>2

\* What is taken at each size.
Taking(cost, p, N, T) == T \in [1 .. N -> Nat] /\ T[1] = cost /\ \A n \in 2 .. N : T[n] = T[n - 1] * p

LEMMA TimesAre ==
  ASSUME NEW cost \in Nat, NEW growth \in 0 .. 3, NEW sizes \in Seq(Nat), sizes # <<>>
  PROVE  Taking(cost, 2 ^ growth, Len(sizes), Times(cost, growth, sizes))
  <1>a. 2 ^ growth \in 1 .. 8
    BY PowerIs
  <1>b. \A n \in 1 .. 8 : n \in Nat
    OBVIOUS
  <1>. PICK p \in Nat : p = 2 ^ growth
    BY <1>a, <1>b, Zenon
  <1>. PICK N \in Nat \ {0} : N = Len(sizes)
    OBVIOUS
  <1> DEFINE Solves(f) == f = [n \in DOMAIN sizes |-> IF n = 1 THEN cost ELSE f[n - 1] * 2 ^ growth]
             walk == CHOOSE f : Solves(f)
             step == [x \in Nat \X (1 .. N) |-> IF x[2] = 1 THEN cost ELSE x[1] * p]
  <1>1. DOMAIN sizes = 1 .. N /\ 1 \in 1 .. N
    OBVIOUS
  <1>2. Times(cost, growth, sizes) = walk
    BY DEF Times
  <1>3. step \in [Nat \X (1 .. N) -> Nat]
    OBVIOUS
  <1>4. \A m \in Nat, n \in 1 .. N : step[<<m, n>>] = IF n = 1 THEN cost ELSE m * p
    OBVIOUS
  <1> HIDE DEF step
  <1>5. PICK f : f \in [0 .. N -> Nat] /\ \A n \in 1 .. N : f[n] = step[<<f[n - 1], n>>]
    <2>. PICK D, start : D = Nat /\ start = 0
      OBVIOUS
    <2>1. start \in D /\ step \in [D \X (1 .. N) -> D]
      BY <1>3
    <2>2. \E f : Steps(N, D, start, step, f)
      BY <2>1, Recursion
    <2>3. QED
      BY <2>2 DEF Steps
  <1>6. ASSUME NEW n \in 1 .. N PROVE f[n] = IF n = 1 THEN cost ELSE f[n - 1] * p
    <2>1. n - 1 \in 0 .. N
      OBVIOUS
    <2>2. f[n - 1] \in Nat
      BY <1>5, <2>1
    <2>3. QED
      BY <1>4, <1>5, <2>2
  <1>. PICK g : g = [n \in 1 .. N |-> f[n]]
    OBVIOUS
  <1>7. Solves(g)
    <2>1. ASSUME NEW n \in 1 .. N PROVE g[n] = IF n = 1 THEN cost ELSE g[n - 1] * 2 ^ growth
      <3>1. CASE n = 1
        BY <1>6, <3>1
      <3>2. CASE n # 1
        <4>1. n - 1 \in 1 .. N
          BY <3>2
        <4>2. g[n - 1] = f[n - 1]
          BY <4>1
        <4>3. QED
          BY <1>6, <3>2, <4>2
      <3>3. QED
        BY <3>1, <3>2
    <2>2. g = [n \in 1 .. N |-> IF n = 1 THEN cost ELSE g[n - 1] * 2 ^ growth]
      BY <2>1
    <2>3. QED
      BY <1>1, <2>2
  <1>8. Solves(walk)
    <2> HIDE DEF Solves
    <2>1. QED
      BY <1>7, Zenon
  <1> HIDE DEF walk
  <1>9. walk = [n \in 1 .. N |-> IF n = 1 THEN cost ELSE walk[n - 1] * p]
    BY <1>1, <1>8
  <1>10. walk[1] = cost /\ \A n \in 2 .. N : n \in 1 .. N /\ walk[n] = walk[n - 1] * p
    <2>1. ASSUME NEW n \in 2 .. N PROVE n \in 1 .. N /\ n # 1
      OBVIOUS
    <2>2. QED
      BY <1>1, <1>9, <2>1
  <1>11. \A n \in 0 .. N : n \in {m \in 0 .. N : m = 0 \/ walk[m] \in Nat}
    <2> DEFINE S == {m \in 0 .. N : m = 0 \/ walk[m] \in Nat}
    <2>1. 0 \in S
      OBVIOUS
    <2>2. ASSUME NEW n \in 1 .. N, n - 1 \in S PROVE n \in S
      <3>1. CASE n = 1
        BY <1>10, <3>1
      <3>2. CASE n # 1
        <4>1. n \in 2 .. N /\ walk[n - 1] \in Nat
          BY <2>2, <3>2
        <4>2. walk[n] \in Nat
          BY <1>10, <4>1
        <4>3. QED
          BY <4>2
      <3>3. QED
        BY <3>1, <3>2
    <2> HIDE DEF S
    <2>3. \A n \in 0 .. N : n \in S
      BY <2>1, <2>2, Counted
    <2>4. QED
      BY <2>3 DEF S
  <1>12. walk \in [1 .. N -> Nat]
    <2>1. \A n \in 1 .. N : walk[n] \in Nat
      BY <1>11
    <2>2. QED
      BY <1>9, <2>1
  <1>13. QED
    BY <1>2, <1>10, <1>12 DEF Taking

\* One size more of a sweep.
Measured(cost, growth, sweep) ==
    LET time == IF sweep.times = <<>> THEN cost ELSE Last(sweep.times) * 2 ^ growth
        spent == sweep.spent + time * (IF time > SlowRun THEN 1 ELSE Repeats)
    IN  IF sweep.truncated THEN sweep
        ELSE IF sweep.times # <<>> /\ Projected(sweep.times, growth) > ProbeBudget - sweep.spent
        THEN [sweep EXCEPT !.truncated = TRUE]
        ELSE [times |-> Append(sweep.times, time), spent |-> spent, truncated |-> spent > ProbeBudget]

Sweeps == [times : Seq(Nat), spent : Nat, truncated : BOOLEAN]

\* After so many sizes: it has a time for each of them unless it was cut short, and the wall
\* is not reached.
Swept(T, n, sweep) ==
    /\ sweep \in Sweeps
    /\ n # 0 => sweep.times # <<>>
    /\ sweep.times = <<>> => sweep.spent = 0 /\ ~sweep.truncated
    /\ Len(sweep.times) <= n /\ \A k \in 1 .. Len(sweep.times) : sweep.times[k] = T[k]
    /\ ~sweep.truncated => Len(sweep.times) = n /\ sweep.spent <= ProbeBudget
    /\ sweep.spent <= ProbeWall

\* No next size takes longer than it is expected to.
LEMMA ProjectedIs ==
  ASSUME NEW times \in Seq(Nat), times # <<>>, NEW growth \in 1 .. 3
  PROVE  /\ Last(times) \in Nat /\ 2 ^ growth \in Nat /\ Projected(times, growth) \in Nat
         /\ Last(times) * 2 ^ growth <= Projected(times, growth)
  <1>. PICK last \in Nat : last = Last(times)
    BY FrontIs
  <1>1. Clamp(1, 3, growth) = growth
    <2>1. Min({3, growth}) = growth
      BY PairOf
    <2>2. Max({1, growth}) = growth
      <3>a. \A a, b \in Int : Max({a, b}) = IF a <= b THEN b ELSE a
        BY PairOf
      <3>1. Max({1, growth}) = IF 1 <= growth THEN growth ELSE 1
        BY <3>a
      <3>2. QED
        BY <3>1
    <2>3. QED
      BY <2>1, <2>2 DEF Clamp
  <1>0. growth \in 0 .. 3
    OBVIOUS
  <1>a. 2 ^ growth \in 1 .. 8
    BY <1>0, PowerIs
  <1>. PICK p \in 1 .. 8 : p = 2 ^ growth
    BY <1>a, Zenon
  <1>2. 2 ^ 3 = 8
    OBVIOUS
  <1>3. Projected(times, growth) = last * (IF Len(times) = 1 THEN 8 ELSE p)
    <2>1. CASE Len(times) = 1
      BY <1>2, <2>1 DEF Projected
    <2>2. CASE Len(times) # 1
      BY <1>1, <2>2 DEF Projected
    <2>3. QED
      BY <2>1, <2>2
  <1>4. last * p <= last * 8 /\ last * p \in Nat /\ last * 8 \in Nat
    <2>1. p * last <= 8 * last /\ p * last \in Nat /\ 8 * last \in Nat
      BY Monotone
    <2>2. QED
      BY <2>1
  <1>5. QED
    BY <1>3, <1>4

\* Each size keeps it so: the sweep starts none it cannot afford, and the wall has room for the
\* one it is at.
LEMMA MeasuredIs ==
  ASSUME NEW cost \in Nat, cost <= ProbeWall, NEW growth \in 1 .. 3, NEW N \in Nat \ {0},
         NEW T, Taking(cost, 2 ^ growth, N, T), NEW n \in 1 .. N, NEW sweep, Swept(T, n - 1, sweep)
  PROVE  Swept(T, n, Measured(cost, growth, sweep))
  <1>0. growth \in 0 .. 3
    OBVIOUS
  <1>a. 2 ^ growth \in 1 .. 8
    BY <1>0, PowerIs
  <1>. PICK p \in 1 .. 8 : p = 2 ^ growth
    BY <1>a, Zenon
  <1>1. /\ SlowRun \in Nat /\ ProbeBudget \in Nat /\ ProbeWall \in Nat /\ Repeats \in Nat \ {0}
        /\ ProbeBudget + Repeats * SlowRun <= ProbeWall
    BY ProbeAssumption
  <1>2. /\ sweep.times \in Seq(Nat) /\ sweep.spent \in Nat /\ sweep.truncated \in BOOLEAN
        /\ sweep = [times |-> sweep.times, spent |-> sweep.spent, truncated |-> sweep.truncated]
        /\ Len(sweep.times) \in Nat /\ Len(sweep.times) <= n - 1
        /\ sweep.spent <= ProbeWall
    BY DEF Swept, Sweeps
  <1>3. \A k \in 1 .. Len(sweep.times) : sweep.times[k] = T[k]
    BY DEF Swept
  <1>d. /\ \A t, e \in Nat, room \in Int : t <= e /\ ~(e > room) => t <= room
        /\ \A b, t, k, l, w \in Nat : t <= l - b /\ l + k <= w => b + t \in Nat /\ b + t <= w
        /\ \A b, t, k, l, w \in Nat : b <= l /\ t <= k /\ l + k <= w => b + t \in Nat /\ b + t <= w
    OBVIOUS
  <1>. PICK times \in Seq(Nat), before \in Nat : times = sweep.times /\ before = sweep.spent
    BY <1>2
  <1>4. times = <<>> => n = 1
    BY DEF Swept
  <1>c. PICK time : time = IF times = <<>> THEN cost ELSE Last(times) * 2 ^ growth
    OBVIOUS
  <1>b. PICK spent : spent = before + time * (IF time > SlowRun THEN 1 ELSE Repeats)
    OBVIOUS
  <1>5. Measured(cost, growth, sweep) =
            IF sweep.truncated THEN sweep
            ELSE IF times # <<>> /\ Projected(times, growth) > ProbeBudget - before
            THEN [sweep EXCEPT !.truncated = TRUE]
            ELSE [times |-> Append(times, time), spent |-> spent, truncated |-> spent > ProbeBudget]
    BY <1>b, <1>c, Zenon DEF Measured
  <1>6. CASE sweep.truncated
    <2>1. Measured(cost, growth, sweep) = sweep
      BY <1>5, <1>6
    <2>2. times # <<>>
      BY <1>6 DEF Swept
    <2>3. QED
      BY <1>2, <1>3, <1>6, <2>1, <2>2 DEF Swept
  <1>7. CASE ~sweep.truncated /\ times # <<>> /\ Projected(times, growth) > ProbeBudget - before
    <2>. PICK next : next = [sweep EXCEPT !.truncated = TRUE]
      OBVIOUS
    <2>1. Measured(cost, growth, sweep) = next
      BY <1>5, <1>7
    <2>2. next = [times |-> times, spent |-> before, truncated |-> TRUE]
      BY <1>2
    <2>3. next \in Sweeps /\ next.times = times /\ next.spent = before /\ next.truncated
      BY <2>2 DEF Sweeps
    <2>4. QED
      BY <1>2, <1>3, <1>7, <2>1, <2>3 DEF Swept
  <1>8. CASE ~sweep.truncated /\ ~(times # <<>> /\ Projected(times, growth) > ProbeBudget - before)
    <2>1. Len(times) = n - 1 /\ before <= ProbeBudget
      BY <1>8 DEF Swept
    <2>2. time \in Nat /\ time = T[n]
      <3>1. CASE times = <<>>
        BY <1>c, <1>4, <3>1 DEF Taking
      <3>2. CASE times # <<>>
        <4>a. Last(times) \in Nat /\ Last(times) = times[Len(times)] /\ Len(times) \in Nat \ {0}
          BY <3>2, FrontIs
        <4>1. Last(times) \in Nat /\ Last(times) = times[n - 1] /\ n \in 2 .. N /\ n - 1 \in 1 .. Len(times)
          BY <2>1, <4>a
        <4>2. Last(times) = T[n - 1]
          BY <1>3, <4>1
        <4>3. T[n] = T[n - 1] * p /\ T[n] \in Nat
          BY <4>1 DEF Taking
        <4>4. QED
          BY <1>c, <3>2, <4>2, <4>3
      <3>3. QED
        BY <3>1, <3>2
    <2>3. times # <<>> => time <= ProbeBudget - before
      <3>1. ASSUME times # <<>> PROVE time <= ProbeBudget - before
        <4>1. time <= Projected(times, growth) /\ Projected(times, growth) \in Nat
          BY <1>c, <3>1, ProjectedIs
        <4>2. ~(Projected(times, growth) > ProbeBudget - before)
          BY <1>8, <3>1
        <4>3. ProbeBudget - before \in Int /\ time \in Nat
          BY <1>1, <2>2
        <4>4. QED
          BY <1>d, <4>1, <4>2, <4>3, Zenon
      <3>2. QED
        BY <3>1
    <2>4. time <= SlowRun => time * Repeats <= Repeats * SlowRun
      <3>1. ASSUME time <= SlowRun PROVE time * Repeats <= SlowRun * Repeats
        BY <1>1, <2>2, <3>1, Monotone
      <3>2. QED
        BY <1>1, <2>2, <3>1
    <2>a. /\ before \in Nat /\ before <= ProbeBudget /\ time \in Nat
          /\ ProbeBudget \in Nat /\ ProbeWall \in Nat /\ Repeats * SlowRun \in Nat
          /\ ProbeBudget + Repeats * SlowRun <= ProbeWall
      BY <1>1, <2>1, <2>2
    <2>5. spent \in Nat /\ spent <= ProbeWall
      <3>1. CASE time > SlowRun
        <4>1. spent = before + time
          BY <1>b, <2>2, <3>1
        <4>2. CASE times = <<>>
          <5>1. n = 1 /\ time = cost
            BY <1>c, <1>4, <4>2
          <5>2. before = 0
            BY <4>2 DEF Swept
          <5>3. QED
            BY <4>1, <5>1, <5>2
        <4>3. CASE times # <<>>
          <5>. PICK most \in Nat : most = Repeats * SlowRun
            BY <2>a, Zenon
          <5>1. ProbeBudget + most <= ProbeWall
            BY <2>a, Zenon
          <5>2. time <= ProbeBudget - before
            BY <2>3, <4>3
          <5>3. QED
            BY <1>d, <2>a, <4>1, <5>1, <5>2, Zenon
        <4>4. QED
          BY <4>2, <4>3
      <3>2. CASE ~(time > SlowRun)
        <4>1. time <= SlowRun
          BY <1>1, <2>2, <3>2
        <4>a. time * Repeats \in Nat /\ Repeats * SlowRun \in Nat
          BY <1>1, <2>2
        <4>. PICK more \in Nat, most \in Nat : more = time * Repeats /\ most = Repeats * SlowRun
          BY <4>a, Zenon
        <4>2. spent = before + more
          BY <1>b, <3>2
        <4>3. more <= most /\ ProbeBudget + most <= ProbeWall
          BY <2>4, <2>a, <4>1, Zenon
        <4>4. before \in Nat /\ before <= ProbeBudget /\ ProbeBudget \in Nat /\ ProbeWall \in Nat
          BY <2>a, Zenon
        <4>5. QED
          BY <1>d, <4>2, <4>3, <4>4, Zenon
      <3>3. QED
        BY <3>1, <3>2
    <2>. PICK list : list = Append(times, time)
      OBVIOUS
    <2>6. /\ list \in Seq(Nat) /\ Len(list) = n /\ list # <<>> /\ list[n] = time
          /\ \A k \in 1 .. n - 1 : list[k] = times[k]
      BY <2>1, <2>2
    <2>7. \A k \in 1 .. n : list[k] = T[k]
      <3>1. ASSUME NEW k \in 1 .. n PROVE list[k] = T[k]
        <4>1. CASE k = n
          BY <2>2, <2>6, <4>1
        <4>2. CASE k # n
          <5>1. k \in 1 .. n - 1 /\ k \in 1 .. Len(times)
            BY <2>1, <4>2
          <5>2. QED
            BY <1>3, <2>6, <5>1
        <4>3. QED
          BY <4>1, <4>2
      <3>2. QED
        BY <3>1
    <2>. PICK next : next = [times |-> list, spent |-> spent, truncated |-> spent > ProbeBudget]
      OBVIOUS
    <2>8. Measured(cost, growth, sweep) = next
      BY <1>5, <1>8
    <2>9. next \in Sweeps /\ next.times = list /\ next.spent = spent /\ (~next.truncated => spent <= ProbeBudget)
      <3>1. CASE spent > ProbeBudget
        <4>1. next = [times |-> list, spent |-> spent, truncated |-> TRUE]
          BY <3>1
        <4>2. QED
          BY <2>5, <2>6, <4>1 DEF Sweeps
      <3>2. CASE ~(spent > ProbeBudget)
        <4>a. (spent > ProbeBudget) = FALSE
          BY <3>2
        <4>1. next = [times |-> list, spent |-> spent, truncated |-> FALSE]
          BY <4>a, Zenon
        <4>2. spent <= ProbeBudget
          BY <1>1, <2>5, <3>2
        <4>3. QED
          BY <2>5, <2>6, <4>1, <4>2 DEF Sweeps
      <3>3. QED
        BY <3>1, <3>2
    <2>10. Len(list) <= n /\ n # 0 /\ spent <= ProbeWall
      BY <2>5, <2>6
    <2>11. Swept(T, n, next)
      BY <2>6, <2>7, <2>9, <2>10, Zenon DEF Swept
    <2>12. QED
      BY <2>8, <2>11
  <1>9. QED
    BY <1>6, <1>7, <1>8

\* The whole sweep.
LEMMA SweepIs ==
  ASSUME NEW cost \in Nat, cost <= ProbeWall, NEW growth \in 1 .. 3, NEW sizes \in Seq(Nat), sizes # <<>>
  PROVE  Swept(Times(cost, growth, sizes), Len(sizes), Sweep(cost, growth, sizes))
  <1>. PICK N \in Nat \ {0} : N = Len(sizes)
    OBVIOUS
  <1>. PICK T : T = Times(cost, growth, sizes)
    OBVIOUS
  <1> DEFINE none == [times |-> <<>>, spent |-> 0, truncated |-> FALSE]
             next(sweep) == Measured(cost, growth, sweep)
             Solves(f) == f = [n \in 0 .. N |-> IF n = 0 THEN none ELSE next(f[n - 1])]
             walk == CHOOSE f : Solves(f)
  <1>1. Sweep(cost, growth, sizes) = walk[N]
    BY DEF Sweep, Measured
  <1>2. Taking(cost, 2 ^ growth, N, T)
    <2>1. growth \in 0 .. 3
      OBVIOUS
    <2>2. QED
      BY <2>1, TimesAre
  <1>3. Swept(T, 0, none)
    <2>1. none \in Sweeps /\ none.times = <<>> /\ none.spent = 0 /\ ~none.truncated /\ Len(<<>>) = 0 /\ 1 .. 0 = {}
      BY DEF Sweeps
    <2>2. ProbeBudget \in Nat /\ ProbeWall \in Nat
      BY ProbeAssumption
    <2> HIDE DEF none
    <2>3. QED
      BY <2>1, <2>2 DEF Swept
  <1>4. ASSUME NEW n \in 1 .. N, NEW sweep, Swept(T, n - 1, sweep) PROVE Swept(T, n, next(sweep))
    BY <1>2, <1>4, MeasuredIs
  <1> HIDE DEF none, next
  <1>5. \E f : f = [n \in 0 .. N |-> IF n = 0 THEN none ELSE next(f[n - 1])]
    <2> DEFINE G == {n \in 0 .. N : \E f : DOMAIN f = 0 .. n /\ f[0] = none /\ \A k \in 1 .. n : f[k] = next(f[k - 1])}
    <2>1. 0 \in G
      <3>. PICK f : f = [n \in 0 .. 0 |-> none]
        OBVIOUS
      <3>1. DOMAIN f = 0 .. 0 /\ f[0] = none /\ 1 .. 0 = {}
        OBVIOUS
      <3>2. QED
        BY <3>1
    <2>2. ASSUME NEW n \in 1 .. N, n - 1 \in G PROVE n \in G
      <3>1. PICK f : DOMAIN f = 0 .. n - 1 /\ f[0] = none /\ \A k \in 1 .. n - 1 : f[k] = next(f[k - 1])
        BY <2>2
      <3>. PICK last : last = next(f[n - 1])
        OBVIOUS
      <3>. PICK g : g = [k \in 0 .. n |-> IF k = n THEN last ELSE f[k]]
        OBVIOUS
      <3>2. DOMAIN g = 0 .. n /\ g[n] = last /\ \A k \in 0 .. n - 1 : g[k] = f[k]
        OBVIOUS
      <3>3. g[0] = none
        BY <3>1, <3>2
      <3>4. ASSUME NEW k \in 1 .. n PROVE g[k] = next(g[k - 1])
        <4>1. k - 1 \in 0 .. n - 1 /\ g[k - 1] = f[k - 1]
          BY <3>2
        <4>2. CASE k = n
          BY <3>2, <4>1, <4>2
        <4>3. CASE k # n
          <5>1. k \in 1 .. n - 1 /\ k \in 0 .. n - 1
            BY <4>3
          <5>2. QED
            BY <3>1, <3>2, <4>1, <5>1
        <4>4. QED
          BY <4>2, <4>3
      <3>5. \E h : DOMAIN h = 0 .. n /\ h[0] = none /\ \A k \in 1 .. n : h[k] = next(h[k - 1])
        BY <3>2, <3>3, <3>4, Zenon
      <3>6. n \in 0 .. N
        OBVIOUS
      <3>7. QED
        BY <3>5, <3>6, Zenon
    <2> HIDE DEF G
    <2>3. \A n \in 0 .. N : n \in G
      BY <2>1, <2>2, Counted
    <2>4. N \in G
      BY <2>3
    <2>5. PICK f : DOMAIN f = 0 .. N /\ f[0] = none /\ \A k \in 1 .. N : f[k] = next(f[k - 1])
      BY <2>4 DEF G
    <2>. PICK g : g = [n \in 0 .. N |-> f[n]]
      OBVIOUS
    <2>6. ASSUME NEW n \in 0 .. N PROVE g[n] = IF n = 0 THEN none ELSE next(g[n - 1])
      <3>1. CASE n = 0
        BY <2>5, <3>1
      <3>2. CASE n # 0
        <4>1. n \in 1 .. N /\ n - 1 \in 0 .. N
          BY <3>2
        <4>2. QED
          BY <2>5, <3>2, <4>1
      <3>3. QED
        BY <3>1, <3>2
    <2>7. g = [n \in 0 .. N |-> IF n = 0 THEN none ELSE next(g[n - 1])]
      BY <2>6
    <2>8. QED
      BY <2>7
  <1>6. Solves(walk)
    BY <1>5
  <1> HIDE DEF walk
  <1>7. \A n \in 0 .. N : n \in {m \in 0 .. N : Swept(T, m, walk[m])}
    <2> DEFINE S == {m \in 0 .. N : Swept(T, m, walk[m])}
    <2>1. 0 \in S
      BY <1>3, <1>6
    <2>2. ASSUME NEW n \in 1 .. N, n - 1 \in S PROVE n \in S
      <3>1. n \in 0 .. N /\ Swept(T, n - 1, walk[n - 1])
        BY <2>2
      <3>2. walk[n] = next(walk[n - 1])
        BY <1>6, <3>1
      <3>3. QED
        BY <1>4, <3>1, <3>2
    <2> HIDE DEF S
    <2>3. \A n \in 0 .. N : n \in S
      BY <2>1, <2>2, Counted
    <2>4. QED
      BY <2>3 DEF S
  <1>8. N \in 0 .. N
    OBVIOUS
  <1>9. QED
    BY <1>1, <1>7, <1>8

\* What is clearly too slow and can be measured is judged slower.
LEMMA SlowIs ==
  ASSUME NEW run \in Runs, NEW sizes \in Seq(Nat), Len(sizes) >= 3, NEW band \in DOMAIN Ceiling,
         Measurable(run, sizes), run.growth <= 3, 100 * run.growth >= Ceiling[band] + Margin
  PROVE  ProbeVerdict(run, sizes, band) = "slower_than_target"
  <1>. PICK cost \in Nat, growth \in Nat : cost = run.cost /\ growth = run.growth
    BY DEF Runs
  <1>1. Ceiling[band] \in Nat /\ Margin \in Nat \ {0} /\ NoiseFloor \in Nat \ {0} /\ ProbeWall \in Nat /\ SlowRun \in Nat
    BY ProbeAssumption
  <1>2. growth \in 1 .. 3 /\ growth \in 0 .. 3 /\ sizes # <<>>
    <2>. PICK low \in Nat, margin \in Nat \ {0} : low = Ceiling[band] /\ margin = Margin
      BY <1>1
    <2>1. 100 * growth >= low + margin /\ growth <= 3
      OBVIOUS
    <2>2. growth # 0
      BY <2>1
    <2>3. sizes # <<>>
      OBVIOUS
    <2>b. \A n \in Nat : (n <= 3 /\ n # 0) => (n \in 1 .. 3 /\ n \in 0 .. 3)
      OBVIOUS
    <2>c. growth \in Nat /\ growth <= 3
      BY <2>1
    <2>a. growth \in 1 .. 3 /\ growth \in 0 .. 3
      BY <2>b, <2>c, <2>2, Zenon
    <2>4. QED
      BY <2>a, <2>3, Zenon
  <1>. PICK T : T = Times(cost, growth, sizes)
    OBVIOUS
  <1>3. /\ run.measurable /\ cost <= ProbeWall
        /\ \E n \in DOMAIN sizes : T[n] >= NoiseFloor
    BY DEF Measurable
  <1>. PICK sweep : sweep = Sweep(cost, growth, sizes)
    OBVIOUS
  <1>4. Swept(T, Len(sizes), sweep)
    BY <1>2, <1>3, SweepIs
  <1>5. /\ sweep.times \in Seq(Nat) /\ sweep.spent \in Nat /\ sweep.times # <<>>
        /\ ~(sweep.spent > ProbeWall)
        /\ ~sweep.truncated => Len(sweep.times) = Len(sizes)
        /\ \A k \in 1 .. Len(sweep.times) : sweep.times[k] = T[k]
    BY <1>1, <1>4 DEF Swept, Sweeps
  <1>6. ProbeVerdict(run, sizes, band) = Judge(sweep, growth, band)
    BY <1>3, <1>5 DEF ProbeVerdict
  <1>7. ASSUME ~sweep.truncated PROVE ~(Len(sweep.times) < 3) /\ ~(Max(Range(sweep.times)) < NoiseFloor)
    <2>. PICK times \in Seq(Nat) : times = sweep.times
      BY <1>5
    <2>1. Len(times) = Len(sizes) /\ DOMAIN sizes = 1 .. Len(sizes)
      BY <1>5, <1>7
    <2>2. PICK n \in 1 .. Len(times) : times[n] >= NoiseFloor
      BY <1>3, <1>5, <2>1
    <2>3. /\ IsFiniteSet(Range(times)) /\ Range(times) \in SUBSET Nat /\ DOMAIN times = 1 .. Len(times)
          /\ \A k \in DOMAIN times : times[k] \in Range(times)
      BY RangeFinite
    <2>4. times[n] \in Range(times) /\ Range(times) \in SUBSET Int /\ Range(times) # {}
      <3>1. times[n] \in Range(times)
        BY <2>3
      <3>a. \A m \in Nat : m \in Int
        OBVIOUS
      <3>2. \A m \in Range(times) : m \in Int
        BY <2>3, <3>a, Zenon
      <3>3. Range(times) \in SUBSET Int
        BY <3>2, Zenon
      <3>4. Range(times) # {}
        BY <3>1, Zenon
      <3>5. QED
        BY <3>1, <3>3, <3>4, Zenon
    <2>5. Max(Range(times)) \in Range(times) /\ times[n] <= Max(Range(times))
      BY <2>3, <2>4, GreatestOf
    <2>. PICK most \in Nat, here \in Nat, floor \in Nat :
             most = Max(Range(times)) /\ here = times[n] /\ floor = NoiseFloor
      BY <1>1, <2>3, <2>4, <2>5
    <2>6. here >= floor /\ here <= most
      BY <2>2, <2>5
    <2>7. ~(most < floor)
      BY <2>6
    <2>8. ~(Len(times) < 3)
      BY <2>1
    <2>9. QED
      BY <2>7, <2>8
  <1>8. ~(100 * growth <= Ceiling[band]) /\ 100 * growth >= Ceiling[band] + Margin
    BY <1>1
  <1>9. Judge(sweep, growth, band) = "slower_than_target"
    <2>1. CASE sweep.truncated \/ sweep.times[1] > SlowRun
      BY <1>5, <2>1 DEF Judge
    <2>2. CASE ~sweep.truncated /\ ~(sweep.times[1] > SlowRun)
      BY <1>7, <1>8, <2>2 DEF Judge
    <2>3. QED
      BY <2>1, <2>2
  <1>10. QED
    BY <1>6, <1>9

\* A submission that grows clearly faster than its target allows is called slower, whether its
\* sweep ends or is cut short (judge), for every growth the driver expects of a next size.
THEOREM SlowIsAlwaysCaught == ServingSpec => []SlowIsCaught
  <1>1. Served => SlowIsCaught
    <2>1. SUFFICES ASSUME Served, graded # Nothing, graded.submission.kind = "code",
                          graded.item.grading.target # NoTarget,
                          Measurable(graded.submission, graded.item.grading.sizes), graded.submission.growth <= 3,
                          100 * graded.submission.growth >= Ceiling[graded.item.grading.target] + Margin
                   PROVE  ProbeVerdict(graded.submission, graded.item.grading.sizes, graded.item.grading.target)
                              = "slower_than_target"
      BY Zenon DEF SlowIsCaught
    <2>. PICK item, run : item = graded.item /\ run = graded.submission
      OBVIOUS
    <2>2. Usable(item) /\ run \in Submissions /\ Fits(item, run)
      BY <2>1 DEF Served
    <2>3. item.modality = "coding"
      <3>1. "code" # "prose"
        OBVIOUS
      <3>2. QED
        BY <2>1, <2>2, <3>1, FitsIs
    <2>4. item.grading.type = "tests" /\ TestsSound(item.grading)
      BY <2>2, <2>3, KindOf
    <2>5. run \in Runs
      BY <2>2, <2>3, FitsIs
    <2>6. item.grading.sizes \in Seq(Nat)
      BY <2>2, <2>4 DEF Usable, Shaped
    <2>7. item.grading.target \in Bands /\ item.grading.sizes # <<>> /\ Len(item.grading.sizes) >= MinProbeSizes
      BY <2>1, <2>4 DEF TestsSound, ComplexitySound
    <2>8. Len(item.grading.sizes) >= 3 /\ item.grading.target \in DOMAIN Ceiling
      BY <2>6, <2>7, ItemRulesAssumption, GradersAssumption
    <2>9. QED
      BY <2>1, <2>5, <2>6, <2>8, SlowIs
  <1>2. QED
    BY <1>1, AlwaysServed, PTL

---------------------------------------------------------------------------
\* Scores and confidences

\* What lies between two multiples is divided to something between them.
LEMMA DivIs ==
  ASSUME NEW m \in Nat, NEW d \in Nat \ {0}, NEW low \in Nat, NEW high \in Nat,
         low * d <= m, m <= high * d
  PROVE  m \div d \in low .. high
  <1>. PICK q : q = m \div d
    OBVIOUS
  <1>1. q \in Int /\ d * q <= m /\ m < d * (q + 1)
    OBVIOUS
  <1>2. q >= 0
    <2>1. SUFFICES ASSUME q + 1 <= 0 PROVE FALSE
      BY <1>1
    <2>2. d * (q + 1) <= 0
      BY <1>1, <2>1
    <2>3. QED
      BY <1>1, <2>2
  <1>3. q <= high
    <2>1. SUFFICES ASSUME high + 1 <= q PROVE FALSE
      BY <1>1
    <2>2. (high + 1) * d <= q * d
      BY <1>1, <1>2, <2>1, Monotone
    <2>3. (high + 1) * d = high * d + d /\ q * d = d * q /\ high * d \in Nat
      BY <1>1
    <2>4. QED
      BY <1>1, <2>2, <2>3
  <1>4. low <= q
    <2>1. SUFFICES ASSUME q + 1 <= low PROVE FALSE
      BY <1>1
    <2>2. (q + 1) * d <= low * d
      BY <1>1, <1>2, <2>1, Monotone
    <2>3. (q + 1) * d = d * (q + 1)
      BY <1>1
    <2>4. low * d \in Nat /\ d * (q + 1) \in Int
      BY <1>1
    <2>5. QED
      BY <1>1, <2>2, <2>3, <2>4
  <1>5. QED
    BY <1>1, <1>3, <1>4

\* A share of a whole is no more than it.
LEMMA ShareIs ==
  ASSUME NEW whole \in Nat, NEW a \in 0 .. whole, NEW d \in Nat \ {0}, NEW b \in 0 .. d
  PROVE  (a * b) \div d \in 0 .. whole
  <1>1. a \in Nat /\ b \in Nat
    OBVIOUS
  <1>2. b * a <= d * a /\ a * d <= whole * d
    BY <1>1, Monotone
  <1>3. b * a = a * b /\ d * a = a * d /\ a * b \in Nat /\ a * d \in Nat /\ whole * d \in Nat /\ 0 * d = 0
    BY <1>1
  <1>4. 0 * d <= a * b /\ a * b <= whole * d
    BY <1>2, <1>3
  <1>5. QED
    BY <1>3, <1>4, DivIs

\* Hints keep a share.
LEMMA HintRetentionIs ==
  ASSUME NEW hints \in Nat
  PROVE  HintRetention(hints) \in 0 .. Whole
  <1> DEFINE rate(level) == HintPenalties[Min({level, Len(HintPenalties)})]
             next(kept, level) == (kept * (100 - rate(level))) \div 100
             Solves(f) == f = [level \in 0 .. hints |-> IF level = 0 THEN Whole ELSE next(f[level - 1], level)]
             walk == CHOOSE f : Solves(f)
             D == 0 .. Whole
             step == [x \in D \X (1 .. hints) |-> next(x[1], x[2])]
  <1>1. HintRetention(hints) = walk[hints]
    BY DEF HintRetention
  <1>2. ASSUME NEW level \in 1 .. hints PROVE 100 - rate(level) \in 0 .. 100
    <2>1. HintPenalties \in Seq(0 .. 100) /\ Len(HintPenalties) \in Nat \ {0}
      BY GradersAssumption
    <2>. PICK m \in Nat \ {0} : m = Len(HintPenalties)
      BY <2>1
    <2>2. Min({level, m}) = IF level <= m THEN level ELSE m
      BY PairOf
    <2>3. Min({level, m}) \in 1 .. m
      BY <2>2
    <2>4. rate(level) \in 0 .. 100
      <3>1. \A k \in 1 .. m : HintPenalties[k] \in 0 .. 100
        BY <2>1
      <3>2. QED
        BY <2>3, <3>1
    <2> HIDE DEF rate
    <2>5. \A r \in 0 .. 100 : 100 - r \in 0 .. 100
      OBVIOUS
    <2>6. QED
      BY <2>4, <2>5
  <1> HIDE DEF rate
  <1>3. ASSUME NEW kept \in D, NEW level \in 1 .. hints PROVE next(kept, level) \in D
    <2>. PICK share \in 0 .. 100 : share = 100 - rate(level)
      BY <1>2
    <2>. PICK whole \in Nat, hundred \in Nat \ {0} : whole = Whole /\ hundred = 100
      BY DEF Whole
    <2>1. kept \in 0 .. whole /\ share \in 0 .. hundred
      OBVIOUS
    <2>2. (kept * share) \div hundred \in 0 .. whole
      BY <2>1, ShareIs
    <2>3. QED
      BY <2>2
  <1> HIDE DEF next
  <1>4. step \in [D \X (1 .. hints) -> D]
    BY <1>3
  <1>5. \A kept \in D, level \in 1 .. hints : step[<<kept, level>>] = next(kept, level)
    OBVIOUS
  <1>6. Whole \in D
    BY DEF Whole
  <1> HIDE DEF D, step
  <1>7. PICK f : Steps(hints, D, Whole, step, f)
    BY <1>4, <1>6, Recursion
  <1>8. f \in [0 .. hints -> D] /\ f[0] = Whole /\ \A n \in 1 .. hints : f[n] = step[<<f[n - 1], n>>]
    BY <1>7 DEF Steps
  <1>9. Solves(f)
    <2>1. ASSUME NEW n \in 0 .. hints PROVE f[n] = IF n = 0 THEN Whole ELSE next(f[n - 1], n)
      <3>1. CASE n = 0
        BY <1>8, <3>1
      <3>2. CASE n # 0
        <4>1. n \in 1 .. hints /\ n - 1 \in 0 .. hints
          BY <3>2
        <4>2. f[n - 1] \in D
          BY <1>8, <4>1
        <4>3. QED
          BY <1>5, <1>8, <3>2, <4>1, <4>2
      <3>3. QED
        BY <3>1, <3>2
    <2>2. QED
      BY <1>8, <2>1
  <1>10. Solves(walk)
    BY <1>9
  <1> HIDE DEF walk
  <1>11. \A n \in 0 .. hints : n \in {m \in 0 .. hints : walk[m] \in D}
    <2> DEFINE S == {m \in 0 .. hints : walk[m] \in D}
    <2>1. 0 \in S
      BY <1>6, <1>10
    <2>2. ASSUME NEW n \in 1 .. hints, n - 1 \in S PROVE n \in S
      <3>1. n \in 0 .. hints /\ walk[n - 1] \in D
        BY <2>2
      <3>2. walk[n] = next(walk[n - 1], n)
        BY <1>10, <3>1
      <3>3. QED
        BY <1>3, <3>1, <3>2
    <2> HIDE DEF S
    <2>3. \A n \in 0 .. hints : n \in S
      BY <2>1, <2>2, Counted
    <2>4. QED
      BY <2>3 DEF S
  <1>12. hints \in 0 .. hints
    OBVIOUS
  <1>13. QED
    BY <1>1, <1>11, <1>12 DEF D

\* The sum of as many equal numbers.
LEMMA SumSame ==
  ASSUME NEW N \in Nat, NEW c \in Nat
  PROVE  Sum([k \in 1 .. N |-> c]) = c * N
  <1>. PICK list : list = [k \in 1 .. N |-> c]
    OBVIOUS
  <1>1. list \in Seq(Int) /\ Len(list) = N /\ \A k \in 1 .. N : list[k] = c
    OBVIOUS
  <1>2. PICK f : Sums(list, f) /\ Sum(list) = f[N]
    BY <1>1, SumIs
  <1>3. f[0] = 0 /\ \A n \in 1 .. N : f[n] = f[n - 1] + c
    BY <1>1, <1>2 DEF Sums
  <1>4. \A n \in 0 .. N : n \in {m \in 0 .. N : f[m] = c * m}
    <2> DEFINE S == {m \in 0 .. N : f[m] = c * m}
    <2>1. 0 \in S
      BY <1>3
    <2>2. ASSUME NEW n \in 1 .. N, n - 1 \in S PROVE n \in S
      <3>1. f[n] = c * (n - 1) + c
        BY <1>3, <2>2
      <3>2. c * (n - 1) + c = c * n
        OBVIOUS
      <3>3. QED
        BY <3>1, <3>2
    <2> HIDE DEF S
    <2>3. \A n \in 0 .. N : n \in S
      BY <2>1, <2>2, Counted
    <2>4. QED
      BY <2>3 DEF S
  <1>5. N \in 0 .. N
    OBVIOUS
  <1>6. QED
    BY <1>2, <1>4, <1>5

\* What a run of the tests shows is a claim of some confidence.
LEMMA ConfidenceIs ==
  ASSUME NEW failures \in Seq(DOMAIN FailureSoftness)
  PROVE  Confidence(failures) \in 4 .. 90
  <1>1. CASE failures = <<>>
    BY <1>1 DEF Confidence
  <1>2. CASE failures # <<>>
    <2>. PICK N \in Nat \ {0} : N = Len(failures)
      BY <1>2
    <2>1. DOMAIN failures = 1 .. N /\ \A k \in 1 .. N : FailureSoftness[failures[k]] \in 5 .. 100
      BY GradersAssumption
    <2>. PICK soft : soft = [k \in DOMAIN failures |-> FailureSoftness[failures[k]]]
      OBVIOUS
    <2>2. soft \in Seq(Nat) /\ Len(soft) = N /\ \A k \in 1 .. N : soft[k] \in 5 .. 100
      <3>1. DOMAIN soft = 1 .. N /\ \A k \in 1 .. N : soft[k] \in 5 .. 100
        BY <2>1
      <3>a. \A x \in 5 .. 100 : x \in Nat
        OBVIOUS
      <3>2. \A k \in 1 .. N : soft[k] \in Nat
        BY <3>1, <3>a, Zenon
      <3>3. soft = [k \in 1 .. N |-> soft[k]]
        BY <2>1
      <3>4. soft \in [1 .. N -> Nat]
        BY <3>2, <3>3
      <3>5. soft \in Seq(Nat) /\ Len(soft) = N
        BY <3>4
      <3>6. QED
        BY <3>1, <3>5
    <2>. PICK ones : ones = [k \in 1 .. N |-> 1]
      OBVIOUS
    <2>. PICK fives : fives = [k \in 1 .. N |-> 5]
      OBVIOUS
    <2>3. /\ ones \in Seq(Nat) /\ Len(ones) = N /\ \A k \in 1 .. N : ones[k] = 1
          /\ fives \in Seq(Nat) /\ Len(fives) = N /\ \A k \in 1 .. N : fives[k] = 5
      OBVIOUS
    <2>4. Sum(ones) = 1 * N /\ Sum(fives) = 5 * N
      BY SumSame
    <2>5. \A k \in 1 .. N : soft[k] <= 100 * ones[k] /\ fives[k] <= 1 * soft[k]
      <3>1. ASSUME NEW k \in 1 .. N PROVE soft[k] <= 100 * ones[k] /\ fives[k] <= 1 * soft[k]
        <4>1. soft[k] \in 5 .. 100 /\ ones[k] = 1 /\ fives[k] = 5
          BY <2>2, <2>3
        <4>2. \A x \in 5 .. 100 : x <= 100 * 1 /\ 5 <= 1 * x
          OBVIOUS
        <4>3. QED
          BY <4>1, <4>2
      <3>2. QED
        BY <3>1
    <2>a. ASSUME NEW some \in Seq(Nat), NEW others \in Seq(Nat), NEW times \in Nat, Len(some) = N, Len(others) = N,
                 \A k \in 1 .. N : some[k] <= times * others[k]
          PROVE  Sum(some) \in Nat /\ Sum(some) <= times * Sum(others)
      <3>1. Len(some) = Len(others) /\ \A k \in 1 .. Len(some) : some[k] <= times * others[k]
        BY <2>a, Zenon
      <3>2. QED
        BY <3>1, SumBounded
    <2>b. 100 \in Nat /\ 1 \in Nat
      OBVIOUS
    <2>c. Len(soft) = N /\ Len(ones) = N /\ \A k \in 1 .. N : soft[k] <= 100 * ones[k]
      BY <2>2, <2>3, <2>5, Zenon
    <2>d. soft \in Seq(Nat) /\ ones \in Seq(Nat) /\ 100 \in Nat
      BY <2>2, <2>3, <2>b, Zenon
    <2>6. Sum(soft) \in Nat /\ Sum(soft) <= 100 * Sum(ones)
      BY <2>a, <2>c, <2>d
    <2>e. Len(fives) = N /\ Len(soft) = N /\ \A k \in 1 .. N : fives[k] <= 1 * soft[k]
      BY <2>2, <2>3, <2>5, Zenon
    <2>f. soft \in Seq(Nat) /\ fives \in Seq(Nat) /\ 1 \in Nat
      BY <2>2, <2>3, <2>b, Zenon
    <2>7. Sum(fives) <= 1 * Sum(soft)
      BY <2>a, <2>e, <2>f, Zenon
    <2>. PICK s \in Nat : s = Sum(soft)
      BY <2>6
    <2>8. 5 * N <= s /\ s <= 100 * N
      BY <2>4, <2>6, <2>7
    <2>9. (90 * s) \div (100 * N) \in 4 .. 90
      <3>0. 90 * s \in Nat /\ 100 * N \in Nat \ {0}
        OBVIOUS
      <3>1. ASSUME NEW m \in Nat, NEW d \in Nat \ {0}, 4 * d <= m, m <= 90 * d
            PROVE  m \div d \in 4 .. 90
        <4>. PICK low \in Nat, high \in Nat : low = 4 /\ high = 90
          OBVIOUS
        <4>1. low * d <= m /\ m <= high * d
          BY <3>1
        <4>2. m \div d \in low .. high
          BY <4>1, DivIs, Zenon
        <4>3. QED
          BY <4>2
      <3>2. 4 * (100 * N) <= 90 * s /\ 90 * s <= 90 * (100 * N)
        BY <2>8
      <3>3. QED
        BY <3>0, <3>1, <3>2, Zenon
    <2>10. Confidence(failures) = (90 * s) \div (100 * N)
      BY <1>2 DEF Confidence
    <2>11. QED
      BY <2>9, <2>10
  <1>3. QED
    BY <1>1, <1>2

\* The highest level of a criterion.
LEMMA LevelMaxIs ==
  ASSUME NEW criterion \in Criteria, IsFiniteSet(criterion.anchors)
  PROVE  LevelMax(criterion) \in Nat \ {0}
  <1>. PICK anchors : anchors = criterion.anchors
    OBVIOUS
  <1>1. anchors \in SUBSET Nat /\ IsFiniteSet(anchors)
    BY DEF Criteria
  <1>2. anchors \cup {0} \in SUBSET Int /\ IsFiniteSet(anchors \cup {0}) /\ anchors \cup {0} # {}
    BY <1>1, FS_AddElement
  <1>3. Max(anchors \cup {0}) \in anchors \cup {0} /\ \A m \in anchors : m <= Max(anchors \cup {0})
    BY <1>2, GreatestOf
  <1>4. CASE Max(anchors \cup {0}) > 0
    <2>1. Max(anchors \cup {0}) \in anchors /\ anchors \in SUBSET Int /\ anchors # {}
      BY <1>1, <1>3, <1>4
    <2>2. Max(anchors) \in anchors /\ Max(anchors \cup {0}) <= Max(anchors)
      BY <1>1, <2>1, GreatestOf
    <2>3. Max(anchors) \in Nat /\ Max(anchors \cup {0}) \in Nat
      BY <1>1, <2>1, <2>2
    <2>4. Max(anchors) # 0
      BY <1>4, <2>2, <2>3
    <2>5. LevelMax(criterion) = Max(anchors)
      BY <1>4 DEF LevelMax
    <2>6. QED
      BY <2>3, <2>4, <2>5
  <1>5. CASE ~(Max(anchors \cup {0}) > 0)
    BY <1>5, GradersAssumption DEF LevelMax
  <1>6. QED
    BY <1>4, <1>5

\* The verdicts of a prose answer are typed.
VerdictsTyped(verdicts) == \A id \in DOMAIN verdicts : verdicts[id] \in ModelVerdicts

LEMMA JudgedScoreIs ==
  ASSUME NEW criterion \in Criteria, IsFiniteSet(criterion.anchors), NEW verdicts, VerdictsTyped(verdicts)
  PROVE  JudgedScore(criterion, verdicts) \in 0 .. Whole
  <1>1. CASE ~Demonstrated(criterion, verdicts)
    BY <1>1 DEF JudgedScore, Whole
  <1>2. CASE Demonstrated(criterion, verdicts)
    <2>1. verdicts[criterion.id].level \in Int
      BY <1>2 DEF Demonstrated, VerdictsTyped, ModelVerdicts
    <2>. PICK level \in Int : level = verdicts[criterion.id].level
      BY <2>1
    <2>. PICK top \in Nat \ {0} : top = LevelMax(criterion)
      BY LevelMaxIs
    <2>. PICK whole \in Nat : whole = Whole
      BY DEF Whole
    <2>2. Clamp(0, top, level) \in 0 .. top
      <3>1. Min({top, level}) = IF top <= level THEN top ELSE level
        BY PairOf
      <3>. PICK low \in Int : low = Min({top, level})
        BY <3>1
      <3>2. low <= top
        BY <3>1
      <3>a. \A a, b \in Int : Max({a, b}) = IF a <= b THEN b ELSE a
        BY PairOf
      <3>b. 0 \in Int /\ low \in Int
        OBVIOUS
      <3>3. Max({0, low}) = IF 0 <= low THEN low ELSE 0
        BY <3>a, <3>b, Zenon
      <3>4. QED
        BY <3>2, <3>3 DEF Clamp
    <2>. PICK clamped \in 0 .. top : clamped = Clamp(0, top, level)
      BY <2>2
    <2>3. (whole * clamped) \div top \in 0 .. whole
      <3>1. whole \in 0 .. whole
        OBVIOUS
      <3>2. QED
        BY <3>1, ShareIs
    <2>4. QED
      BY <1>2, <2>3 DEF JudgedScore
  <1>3. QED
    BY <1>1, <1>2

\* The criteria of an item that passed the gate.
Weighed(criteria) ==
    /\ criteria \in Seq(Criteria) /\ \A criterion \in Range(criteria) : IsFiniteSet(criterion.anchors)
    /\ CriteriaSound(criteria, Concepts)

LEMMA WeightedScoreIs ==
  ASSUME NEW criteria, Weighed(criteria), criteria # <<>>, NEW verdicts, VerdictsTyped(verdicts)
  PROVE  WeightedScore(criteria, verdicts) \in 0 .. Whole
  <1>. PICK N \in Nat : N = Len(criteria)
    BY DEF Weighed
  <1>1. criteria \in Seq(Criteria) /\ DOMAIN criteria = 1 .. N
    BY DEF Weighed
  <1>2. ASSUME NEW k \in 1 .. N
        PROVE  criteria[k].weight \in Nat /\ JudgedScore(criteria[k], verdicts) \in 0 .. Whole
    <2>1. criteria[k] \in Criteria /\ criteria[k] \in Range(criteria)
      BY <1>1 DEF Range
    <2>2. IsFiniteSet(criteria[k].anchors) /\ criteria[k].weight \in Nat
      BY <2>1 DEF Weighed, Criteria
    <2>3. QED
      BY <2>1, <2>2, JudgedScoreIs
  <1>. PICK whole \in Nat \ {0} : whole = Whole
    BY DEF Whole
  <1>. PICK weights : weights = [k \in DOMAIN criteria |-> criteria[k].weight]
    OBVIOUS
  <1>. PICK scored : scored = [k \in DOMAIN criteria |-> criteria[k].weight * JudgedScore(criteria[k], verdicts)]
    OBVIOUS
  <1>3. ASSUME NEW k \in 1 .. N
        PROVE  /\ weights[k] \in Nat /\ scored[k] \in Nat /\ scored[k] <= whole * weights[k]
    <2>. PICK w \in Nat, s \in Nat : w = criteria[k].weight /\ s = JudgedScore(criteria[k], verdicts) /\ s <= whole
      BY <1>2
    <2>1. s * w <= whole * w /\ s * w \in Nat
      BY Monotone
    <2>2. w * s = s * w
      OBVIOUS
    <2>3. weights[k] = w /\ scored[k] = w * s
      BY <1>1
    <2>4. QED
      BY <2>1, <2>2, <2>3
  <1>4. weights \in Seq(Nat) /\ scored \in Seq(Nat) /\ Len(weights) = N /\ Len(scored) = N
    <2>1. weights = [k \in 1 .. N |-> weights[k]] /\ scored = [k \in 1 .. N |-> scored[k]]
      BY <1>1
    <2>2. weights \in [1 .. N -> Nat] /\ scored \in [1 .. N -> Nat]
      BY <1>3, <2>1
    <2>3. \A f \in [1 .. N -> Nat] : f \in Seq(Nat) /\ Len(f) = N
      OBVIOUS
    <2>4. QED
      BY <2>2, <2>3, Zenon
  <1>5. Sum(scored) \in Nat /\ Sum(scored) <= whole * Sum(weights)
    BY <1>3, <1>4, SumBounded
  <1>6. Sum(weights) = 100
    BY DEF Weighed, CriteriaSound
  <1>. PICK s \in Nat : s = Sum(scored)
    BY <1>5
  <1>7. s \div 100 \in 0 .. whole
    <2>1. s <= whole * 100 /\ 0 * 100 <= s
      BY <1>5, <1>6
    <2>2. QED
      BY <2>1, DivIs
  <1>8. WeightedScore(criteria, verdicts) = s \div 100
    BY <1>6 DEF WeightedScore
  <1>9. QED
    BY <1>7, <1>8

\* What the judge's verdicts are evidence of.
LEMMA EvidenceIs ==
  ASSUME NEW criteria, Weighed(criteria), NEW verdicts, VerdictsTyped(verdicts),
         NEW row \in EvidenceFrom(criteria, verdicts)
  PROVE  row.concept \in Concepts /\ row.score \in 0 .. Whole /\ row.confidence = 50
  <1>1. PICK criterion \in Range(criteria) :
            /\ criterion.concept # None
            /\ row = [concept |-> criterion.concept, score |-> JudgedScore(criterion, verdicts), confidence |-> 50]
    BY DEF EvidenceFrom
  <1>2. criteria \in Seq(Criteria)
    BY DEF Weighed
  <1>3. criterion \in Criteria /\ criteria # <<>>
    BY <1>2 DEF Range
  <1>4. IsFiniteSet(criterion.anchors) /\ criterion.concept \in Concepts \cup {None}
    BY <1>3 DEF Weighed, CriteriaSound
  <1>5. JudgedScore(criterion, verdicts) \in 0 .. Whole
    BY <1>3, <1>4, JudgedScoreIs
  <1>6. QED
    BY <1>1, <1>4, <1>5

\* What is promised of a grade, but for what an executor that does not answer may change.
Sound(item, submission, grade) ==
    /\ grade.status = "raised" => Blank(submission) \/ Worded(item) \/ Outage(item, submission)
    /\ IF grade.status = "graded" THEN grade.score \in 0 .. Whole
       ELSE grade.score = Unscored /\ grade.evidence = {}
    /\ \A row \in grade.evidence :
           row.concept \in Concepts /\ row.score \in 0 .. Whole /\ row.confidence \in 1 .. 90
    /\ submission.kind = "prose" =>
           ((\E row \in grade.evidence : row.concept = item.primary /\ row.confidence > 50)
                => Arithmetic(submission.lines) # {})

\* Nothing is promised of an item that its grader raises for.
LEMMA RaisedIs ==
  ASSUME NEW item, NEW submission, Blank(submission) \/ Worded(item) \/ Outage(item, submission)
  PROVE  Sound(item, submission, Raised)
  <1>1. Raised.status = "raised" /\ Raised.score = Unscored /\ Raised.evidence = {}
    BY DEF Raised
  <1>2. QED
    BY <1>1, Zenon DEF Sound

LEMMA FailedIs ==
  ASSUME NEW item, NEW submission
  PROVE  Sound(item, submission, Failed)
  <1>1. Failed.status = "failed" /\ Failed.score = Unscored /\ Failed.evidence = {} /\ Failed.status # "raised"
        /\ Failed.status # "graded"
    BY DEF Failed
  <1>2. QED
    BY <1>1, Zenon DEF Sound

LEMMA CodeSound ==
  ASSUME NEW item, Usable(item), item.modality = "coding", NEW run \in Submissions, Fits(item, run)
  PROVE  Sound(item, run, Grade(item, run))
  <1> DEFINE grading == item.grading
             passed == run.passed
             total == run.total
             hints == run.hints
             failures == run.failures
  <1>1. /\ grading.type = "tests" /\ grading.tests >= 3 /\ grading.entrypoint
        /\ run \in Runs /\ run.passed <= run.total /\ run.kind = "code" /\ run.language \in grading.languages
    BY KindOf, FitsIs DEF TestsSound
  <1>2. Grade(item, run) = GradeCoding(item, run)
    BY <1>1 DEF Grade
  <1>. passed \in Nat /\ total \in Nat /\ hints \in Nat /\ failures \in Seq(DOMAIN FailureSoftness)
    BY <1>1 DEF Runs
  <1> DEFINE correctness == (Whole * passed) \div total
             probing == passed > 0 /\ grading.sizes # <<>> /\ grading.target # NoTarget
             slower == /\ probing /\ "probe" \notin run.unanswered
                       /\ ProbeVerdict(run, grading.sizes, grading.target) = "slower_than_target"
             kept == IF slower THEN 75 ELSE 100
             score == (((correctness * kept) \div 100) * HintRetention(hints)) \div Whole
             confidence == Confidence(failures)
             rows == {[concept |-> c, score |-> score,
                       confidence |-> IF c = item.primary THEN confidence ELSE (confidence * 60) \div 100]
                      : c \in item.concepts}
  <1>3. GradeCoding(item, run) =
            IF \/ grading.type # "tests" \/ run.language \notin grading.languages
               \/ ~grading.entrypoint \/ grading.tests = 0 \/ Unanswered(run, "execute") THEN Raised
            ELSE IF ~run.gradeable \/ total = 0 THEN Failed
            ELSE IF probing /\ Unanswered(run, "probe") THEN Raised
            ELSE [status |-> "graded", score |-> score, evidence |-> rows]
    BY Zenon DEF GradeCoding
  <1>4. grading.tests # 0
    BY <1>1
  <1>a. CASE Unanswered(run, "execute")
    <2>1. Outage(item, run)
      BY <1>1, <1>a DEF Outage, Unanswered
    <2>2. Grade(item, run) = Raised
      BY <1>2, <1>3, <1>a, Zenon
    <2>3. QED
      BY <2>1, <2>2, RaisedIs
  <1>b. CASE ~Unanswered(run, "execute") /\ run.gradeable /\ total # 0 /\ probing /\ Unanswered(run, "probe")
    <2>1. Outage(item, run)
      BY <1>1, <1>b DEF Outage, Unanswered
    <2>2. Grade(item, run) = Raised
      BY <1>1, <1>2, <1>3, <1>4, <1>b, Zenon
    <2>3. QED
      BY <2>1, <2>2, RaisedIs
  <1>5. CASE ~Unanswered(run, "execute") /\ (~run.gradeable \/ total = 0)
    BY <1>1, <1>2, <1>3, <1>4, <1>5, FailedIs, Zenon
  <1>6. CASE /\ ~Unanswered(run, "execute") /\ run.gradeable /\ total # 0
             /\ ~(probing /\ Unanswered(run, "probe"))
    <2>1. score \in 0 .. Whole
      <3>. PICK whole \in Nat \ {0}, hundred \in Nat \ {0} : whole = Whole /\ hundred = 100
        BY DEF Whole
      <3>1. (whole * passed) \div total \in 0 .. whole
        <4>1. whole \in 0 .. whole /\ passed \in 0 .. total /\ total \in Nat \ {0}
          BY <1>1, <1>6
        <4>2. QED
          BY <4>1, ShareIs
      <3>2. kept \in 0 .. hundred
        OBVIOUS
      <3>3. correctness \in 0 .. whole
        BY <3>1
      <3> HIDE DEF kept, correctness
      <3>4. (correctness * kept) \div hundred \in 0 .. whole
        BY <3>2, <3>3, ShareIs
      <3>. PICK share \in 0 .. whole : share = (correctness * kept) \div 100
        BY <3>4
      <3>5. HintRetention(hints) \in 0 .. whole
        BY HintRetentionIs
      <3>6. (share * HintRetention(hints)) \div whole \in 0 .. whole
        BY <3>5, ShareIs
      <3>7. QED
        BY <3>6
    <2>2. confidence \in 4 .. 90
      BY ConfidenceIs
    <2>3. (confidence * 60) \div 100 \in 1 .. 90
      <3> HIDE DEF confidence
      <3>1. \A c \in 4 .. 90 : (c * 60) \div 100 \in 1 .. 90
        OBVIOUS
      <3>2. QED
        BY <2>2, <3>1
    <2> HIDE DEF score, confidence
    <2>4. \A row \in rows : row.concept \in Concepts /\ row.score \in 0 .. Whole /\ row.confidence \in 1 .. 90
      <3>1. SUFFICES ASSUME NEW c \in item.concepts, NEW row,
                            row = [concept |-> c, score |-> score,
                                   confidence |-> IF c = item.primary THEN confidence ELSE (confidence * 60) \div 100]
                     PROVE  row.concept \in Concepts /\ row.score \in 0 .. Whole /\ row.confidence \in 1 .. 90
        OBVIOUS
      <3>2. row.concept = c /\ row.score = score
            /\ row.confidence = IF c = item.primary THEN confidence ELSE (confidence * 60) \div 100
        BY <3>1
      <3>3. \A n \in 4 .. 90 : n \in 1 .. 90
        OBVIOUS
      <3>4. c \in Concepts
        BY DEF Usable
      <3>5. QED
        BY <2>1, <2>2, <2>3, <3>2, <3>3, <3>4, Zenon
    <2> HIDE DEF rows
    <2>. PICK grade : grade = [status |-> "graded", score |-> score, evidence |-> rows]
      OBVIOUS
    <2>5. grade.status = "graded" /\ grade.status # "raised" /\ grade.score = score /\ grade.evidence = rows
      OBVIOUS
    <2>6. Grade(item, run) = grade
      BY <1>1, <1>2, <1>3, <1>4, <1>6, Zenon
    <2>7. run.kind # "prose"
      BY <1>1
    <2>8. QED
      BY <2>1, <2>4, <2>5, <2>6, <2>7, Zenon DEF Sound
  <1>7. QED
    BY <1>1, <1>a, <1>b, <1>5, <1>6, Zenon

\* An executor that does not answer may cost a submission its grade, and changes no grade.
LEMMA GradeOfOutage ==
  ASSUME NEW item, item.grading.type = "tests", NEW run \in Runs, Grade(item, run).status # "raised"
  PROVE  Grade(item, run) = Grade(item, [run EXCEPT !.unanswered = {}])
  <1> DEFINE grading == item.grading
             probing(r) == r.passed > 0 /\ grading.sizes # <<>> /\ grading.target # NoTarget
             slower(r) == /\ probing(r) /\ "probe" \notin r.unanswered
                          /\ ProbeVerdict(r, grading.sizes, grading.target) = "slower_than_target"
             score(r) == (((((Whole * r.passed) \div r.total) * (IF slower(r) THEN 75 ELSE 100)) \div 100)
                            * HintRetention(r.hints)) \div Whole
             rows(r) == {[concept |-> c, score |-> score(r),
                          confidence |-> IF c = item.primary THEN Confidence(r.failures)
                                         ELSE (Confidence(r.failures) * 60) \div 100] : c \in item.concepts}
             grade(r) == [status |-> "graded", score |-> score(r), evidence |-> rows(r)]
             Refuses(r) == \/ grading.type # "tests" \/ r.language \notin grading.languages
                           \/ ~grading.entrypoint \/ grading.tests = 0
             verdictOf(measurable, cost, growth) ==
                 LET sweep == Sweep(cost, growth, grading.sizes)
                 IN  IF grading.target \notin DOMAIN Ceiling \/ ~measurable \/ sweep.spent > ProbeWall
                     THEN "inconclusive" ELSE Judge(sweep, growth, grading.target)
  <1>. PICK other : other = [run EXCEPT !.unanswered = {}]
    OBVIOUS
  <1>1. /\ other.language = run.language /\ other.gradeable = run.gradeable /\ other.passed = run.passed
        /\ other.total = run.total /\ other.failures = run.failures /\ other.measurable = run.measurable
        /\ other.cost = run.cost /\ other.growth = run.growth /\ other.hints = run.hints
        /\ other.unanswered = {}
    BY DEF Runs
  <1>2. ~Unanswered(other, "execute") /\ ~Unanswered(other, "probe")
    BY <1>1 DEF Unanswered
  <1>3. \A r : Grade(item, r) = GradeCoding(item, r)
    BY Zenon DEF Grade
  <1>4. \A r : GradeCoding(item, r) =
            IF Refuses(r) \/ Unanswered(r, "execute") THEN Raised
            ELSE IF ~r.gradeable \/ r.total = 0 THEN Failed
            ELSE IF probing(r) /\ Unanswered(r, "probe") THEN Raised
            ELSE grade(r)
    BY DEF GradeCoding
  <1>5. ProbeVerdict(other, grading.sizes, grading.target) = ProbeVerdict(run, grading.sizes, grading.target)
    <2>1. \A r : ProbeVerdict(r, grading.sizes, grading.target) = verdictOf(r.measurable, r.cost, r.growth)
      BY DEF ProbeVerdict
    <2> HIDE DEF verdictOf
    <2>2. QED
      BY <1>1, <2>1
  <1>6. (Refuses(other) <=> Refuses(run)) /\ (probing(other) <=> probing(run))
    BY <1>1
  <1>7. Raised.status = "raised"
    BY DEF Raised
  <1>8. ASSUME ~(probing(run) /\ Unanswered(run, "probe"))
        PROVE  grade(other) = grade(run)
    <2>1. slower(other) <=> slower(run)
      BY <1>1, <1>5, <1>6, <1>8 DEF Unanswered
    <2>2. score(other) = score(run)
      <3> HIDE DEF slower
      <3>1. QED
        BY <1>1, <2>1
    <2> HIDE DEF score
    <2>3. Confidence(other.failures) = Confidence(run.failures)
      BY <1>1
    <2>4. rows(other) = rows(run)
      BY <2>2, <2>3
    <2> HIDE DEF rows
    <2>5. QED
      BY <2>2, <2>4
  <1> HIDE DEF Refuses, probing, grade
  <1>9. Grade(item, other) = (IF Refuses(run) THEN Raised
                              ELSE IF ~run.gradeable \/ run.total = 0 THEN Failed ELSE grade(other))
    <2>1. GradeCoding(item, other) = (IF Refuses(other) \/ Unanswered(other, "execute") THEN Raised
                                      ELSE IF ~other.gradeable \/ other.total = 0 THEN Failed
                                      ELSE IF probing(other) /\ Unanswered(other, "probe") THEN Raised
                                      ELSE grade(other))
      BY <1>4, Zenon
    <2>2. Grade(item, other) = (IF Refuses(other) THEN Raised
                                ELSE IF ~other.gradeable \/ other.total = 0 THEN Failed ELSE grade(other))
      BY <1>2, <1>3, <2>1
    <2>3. QED
      BY <1>1, <1>6, <2>2
  <1>10. /\ ~Refuses(run) /\ ~Unanswered(run, "execute")
         /\ run.gradeable /\ run.total # 0 => ~(probing(run) /\ Unanswered(run, "probe"))
    BY <1>3, <1>4, <1>7
  <1>11. Grade(item, run) = (IF ~run.gradeable \/ run.total = 0 THEN Failed ELSE grade(run))
    BY <1>3, <1>4, <1>10
  <1>12. QED
    BY <1>8, <1>9, <1>10, <1>11

\* What is handed in as prose for an item that passed the gate.
LEMMA ProseIs ==
  ASSUME NEW item, Usable(item), item.modality # "coding", NEW answer \in Submissions, Fits(item, answer)
  PROVE  /\ answer.kind = "prose" /\ answer.lines \in Seq(AnswerLines) /\ answer.hints \in Nat
         /\ VerdictsTyped(answer.verdicts) /\ Weighed(item.grading.criteria)
         /\ CannotJudge(item.grading.criteria, answer) =>
                item.grading.criteria = <<>> \/ Blank(answer) \/ Worded(item) \/ Outage(item, answer)
  <1>1. /\ answer.kind = "prose" /\ answer.lines \in Seq(AnswerLines) /\ answer.hints \in Nat
        /\ VerdictsTyped(answer.verdicts)
    BY FitsIs DEF VerdictsTyped
  <1>2. item.grading.type \in {"answer", "rubric"} /\ CriteriaSound(item.grading.criteria, Concepts)
    BY KindOf DEF AnswerSound
  <1>3. Weighed(item.grading.criteria)
    BY <1>2 DEF Weighed, Usable, Shaped
  <1>4. CannotJudge(item.grading.criteria, answer) =>
            item.grading.criteria = <<>> \/ Blank(answer) \/ Worded(item) \/ Outage(item, answer)
    <2>1. answer.kind # "code"
      BY <1>1
    <2>2. NoReply(answer) /\ item.grading.criteria # <<>> => Outage(item, answer)
      BY <2>1, Zenon DEF NoReply, Outage
    <2>3. QED
      BY <1>1, <2>2, Zenon DEF CannotJudge, Blank, Worded
  <1>5. QED
    BY <1>1, <1>3, <1>4

LEMMA RubricSound ==
  ASSUME NEW item, Usable(item), item.grading.type = "rubric", item.modality # "coding",
         NEW answer \in Submissions, Fits(item, answer)
  PROVE  Sound(item, answer, Grade(item, answer))
  <1> DEFINE criteria == item.grading.criteria
             weighted == WeightedScore(criteria, answer.verdicts)
             score == (weighted * HintRetention(answer.hints)) \div Whole
             rows == EvidenceFrom(criteria, answer.verdicts)
  <1>1. /\ answer.kind = "prose" /\ answer.hints \in Nat
        /\ VerdictsTyped(answer.verdicts) /\ Weighed(criteria)
        /\ CannotJudge(criteria, answer) =>
               criteria = <<>> \/ Blank(answer) \/ Worded(item) \/ Outage(item, answer)
    BY ProseIs
  <1>2. Grade(item, answer) = GradeRubric(item, answer)
    BY DEF Grade
  <1>3. GradeRubric(item, answer) =
            IF item.grading.type # "rubric" \/ CannotJudge(criteria, answer) THEN Raised
            ELSE [status |-> "graded", score |-> score, evidence |-> rows]
    BY Zenon DEF GradeRubric
  <1>4. criteria # <<>>
    <2>1. Len(criteria) >= 3
      BY KindOf
    <2>2. criteria \in Seq(Criteria)
      BY <1>1 DEF Weighed
    <2> HIDE DEF criteria
    <2>3. QED
      BY <2>1, <2>2
  <1>5. CASE CannotJudge(criteria, answer)
    <2>1. Blank(answer) \/ Worded(item) \/ Outage(item, answer)
      BY <1>1, <1>4, <1>5
    <2>2. Grade(item, answer) = Raised
      BY <1>2, <1>3, <1>5
    <2>3. QED
      BY <2>1, <2>2, RaisedIs
  <1>6. CASE ~CannotJudge(criteria, answer)
    <2>1. score \in 0 .. Whole
      <3>. PICK whole \in Nat \ {0} : whole = Whole
        BY DEF Whole
      <3>1. weighted \in 0 .. whole /\ HintRetention(answer.hints) \in 0 .. whole
        BY <1>1, <1>4, WeightedScoreIs, HintRetentionIs
      <3> HIDE DEF weighted
      <3>2. QED
        BY <3>1, ShareIs
    <2>2. \A row \in rows : row.concept \in Concepts /\ row.score \in 0 .. Whole /\ row.confidence = 50
      BY <1>1, EvidenceIs
    <2>3. 50 \in 1 .. 90 /\ ~(50 > 50)
      OBVIOUS
    <2> HIDE DEF rows, score
    <2>. PICK grade : grade = [status |-> "graded", score |-> score, evidence |-> rows]
      OBVIOUS
    <2>4. grade.status = "graded" /\ grade.status # "raised" /\ grade.score = score /\ grade.evidence = rows
      OBVIOUS
    <2>5. Grade(item, answer) = grade
      BY <1>2, <1>3, <1>6, Zenon
    <2>6. QED
      BY <2>1, <2>2, <2>3, <2>4, <2>5, Zenon DEF Sound
  <1>7. QED
    BY <1>5, <1>6

LEMMA QuantSound ==
  ASSUME NEW item, Usable(item), item.grading.type = "answer", item.modality # "coding",
         NEW answer \in Submissions, Fits(item, answer)
  PROVE  Sound(item, answer, Grade(item, answer))
  <1> DEFINE grading == item.grading
             criteria == grading.criteria
             check == CheckAnswer(grading, answer.lines)
             right == IF check.correct THEN Whole ELSE 0
             weighted == WeightedScore(criteria, answer.verdicts)
             raw == IF criteria = <<>> THEN right ELSE (40 * right + 60 * weighted) \div 100
             score == (raw * HintRetention(answer.hints)) \div Whole
             sure == IF check.declared THEN 90 ELSE 75
             claim == {[concept |-> item.primary, score |-> right, confidence |-> sure]}
             judged == EvidenceFrom(criteria, answer.verdicts)
             rows == judged \cup (IF check.stated THEN claim ELSE {})
             Refused == \/ grading.type # "answer" \/ {grading.exact, grading.numeric} = {None} \/ answer.lines = <<>>
                        \/ criteria # <<>> /\ CannotJudge(criteria, answer)
  <1>1. /\ answer.kind = "prose" /\ answer.lines \in Seq(AnswerLines) /\ answer.hints \in Nat
        /\ VerdictsTyped(answer.verdicts) /\ Weighed(criteria)
        /\ CannotJudge(criteria, answer) =>
               criteria = <<>> \/ Blank(answer) \/ Worded(item) \/ Outage(item, answer)
    BY ProseIs
  <1>2. Grade(item, answer) = GradeQuant(item, answer)
    BY DEF Grade
  <1>3. GradeQuant(item, answer) =
            IF Refused THEN Raised ELSE [status |-> "graded", score |-> score, evidence |-> rows]
    BY Zenon DEF GradeQuant
  <1>4. {grading.exact, grading.numeric} # {None}
    <2>1. grading.exact # None \/ grading.numeric # None
      BY KindOf DEF AnswerSound
    <2>2. QED
      BY <2>1
  <1>5. CASE Refused
    <2>1. Blank(answer) \/ Worded(item) \/ Outage(item, answer)
      BY <1>1, <1>4, <1>5 DEF Blank
    <2> HIDE DEF Refused
    <2>2. Grade(item, answer) = Raised
      BY <1>2, <1>3, <1>5
    <2>3. QED
      BY <2>1, <2>2, RaisedIs
  <1>6. CASE ~Refused
    <2>. PICK whole \in Nat \ {0} : whole = Whole
      BY DEF Whole
    <2>1. right \in 0 .. whole
      OBVIOUS
    <2>2. raw \in 0 .. whole
      <3>1. CASE criteria = <<>>
        BY <2>1, <3>1
      <3>2. CASE criteria # <<>>
        <4>1. weighted \in 0 .. whole
          BY <1>1, <3>2, WeightedScoreIs
        <4> HIDE DEF weighted, right
        <4>2. \A r, w \in 0 .. whole : (40 * r + 60 * w) \div 100 \in 0 .. whole
          <5>1. SUFFICES ASSUME NEW r \in 0 .. whole, NEW w \in 0 .. whole
                         PROVE  (40 * r + 60 * w) \div 100 \in 0 .. whole
            OBVIOUS
          <5>2. 40 * r + 60 * w \in Nat /\ 40 * r + 60 * w <= whole * 100 /\ 0 * 100 <= 40 * r + 60 * w
            OBVIOUS
          <5>. PICK m \in Nat : m = 40 * r + 60 * w
            BY <5>2, Zenon
          <5>3. m \div 100 \in 0 .. whole
            BY <5>2, DivIs
          <5>4. QED
            BY <5>3
        <4>3. QED
          BY <2>1, <3>2, <4>1, <4>2
      <3>3. QED
        BY <3>1, <3>2
    <2>3. score \in 0 .. Whole
      <3>1. HintRetention(answer.hints) \in 0 .. whole
        BY <1>1, HintRetentionIs
      <3> HIDE DEF raw
      <3>2. QED
        BY <2>2, <3>1, ShareIs
    <2>4. sure \in 1 .. 90
      OBVIOUS
    <2>5. \A row \in judged : row.concept \in Concepts /\ row.score \in 0 .. Whole /\ row.confidence = 50
      BY <1>1, EvidenceIs
    <2>6. item.primary \in Concepts
      BY DEF Usable
    <2>7. \A row \in claim : row.concept \in Concepts /\ row.score \in 0 .. Whole /\ row.confidence \in 1 .. 90
      <3> HIDE DEF sure, right
      <3>1. QED
        BY <2>1, <2>4, <2>6
    <2>8. check.stated => Arithmetic(answer.lines) # {}
      <3>1. check.stated = (ClosingStatement(answer.lines) # Unstated)
        BY Zenon DEF CheckAnswer
      <3>2. QED
        BY <1>1, <3>1, SilentIs
    <2>9. 50 \in 1 .. 90 /\ ~(50 > 50)
      OBVIOUS
    <2>10. \A row \in rows : row \in judged \/ (check.stated /\ row \in claim)
      <3> HIDE DEF judged, claim, check
      <3>1. QED
        OBVIOUS
    <2> HIDE DEF rows, score, judged, claim, check, Refused
    <2>. PICK grade : grade = [status |-> "graded", score |-> score, evidence |-> rows]
      OBVIOUS
    <2>11. grade.status = "graded" /\ grade.status # "raised" /\ grade.score = score /\ grade.evidence = rows
      OBVIOUS
    <2>12. Grade(item, answer) = grade
      BY <1>2, <1>3, <1>6, Zenon
    <2>13. \A row \in rows : row.concept \in Concepts /\ row.score \in 0 .. Whole /\ row.confidence \in 1 .. 90
      BY <2>5, <2>7, <2>9, <2>10, Zenon
    <2>14. (\E row \in rows : row.confidence > 50) => Arithmetic(answer.lines) # {}
      BY <2>5, <2>8, <2>9, <2>10, Zenon
    <2>15. QED
      BY <2>3, <2>11, <2>12, <2>13, <2>14, Zenon DEF Sound
  <1>7. QED
    BY <1>5, <1>6

\* An item that passed the gate (validate.py) is one its grader can grade (_grade), whatever is
\* handed in: it raises only for a blank answer, an anchor that is no number or an executor or a
\* model that does not answer, a score is a share of the whole and what it would be had the
\* executor answered, evidence is only of concepts the corpus has, and a derivation without an
\* answer or a demonstration is evidence of nothing.
THEOREM GradesAreSound == ServingSpec => []GradesSound
  <1>1. Served => GradesSound
    <2>1. SUFFICES ASSUME Served, graded # Nothing
                   PROVE  /\ Sound(graded.item, graded.submission, graded.grade)
                          /\ graded.submission.kind = "code" /\ graded.grade.status # "raised" =>
                                 graded.grade = Grade(graded.item, [graded.submission EXCEPT !.unanswered = {}])
      BY Zenon DEF GradesSound, Sound
    <2>. PICK item, submission : item = graded.item /\ submission = graded.submission
      OBVIOUS
    <2>2. /\ Usable(item) /\ submission \in Submissions /\ Fits(item, submission)
          /\ graded.grade = Grade(item, submission)
      BY <2>1 DEF Served
    <2>3. CASE item.modality = "coding"
      <3>1. submission \in Runs /\ item.grading.type = "tests"
        BY <2>2, <2>3, KindOf, FitsIs
      <3>2. graded.grade.status # "raised" =>
                graded.grade = Grade(item, [submission EXCEPT !.unanswered = {}])
        BY <2>2, <3>1, GradeOfOutage
      <3>3. QED
        BY <2>2, <2>3, <3>2, CodeSound
    <2>4. CASE item.modality # "coding"
      <3>1. submission.kind # "code"
        BY <2>2, <2>4, ProseIs
      <3>2. QED
        BY <2>2, <2>4, <3>1, KindOf, RubricSound, QuantSound
    <2>5. QED
      BY <2>3, <2>4
  <1>2. QED
    BY <1>1, AlwaysServed, PTL
=============================================================================
