----------------------------- MODULE Transcript -----------------------------
(***************************************************************************)
(* The turn loop of the interviewer (apps/api/src/api/agent/loop.py) over  *)
(* one item of one session.  Every row of the transcript is committed as   *)
(* it is written, under a sequence number the turn computed before its     *)
(* first row and then counts up by itself; turns(session_id, seq) is       *)
(* unique, and that constraint is all that keeps two turns apart.  The     *)
(* rations of the tools are counted from the rows (agent/tools.py), while  *)
(* the evidence of an observation is committed before its row.             *)
(***************************************************************************)
EXTENDS Integers, FiniteSets

CONSTANTS
    Turns,            \* requests POST /sessions/{id}/turns
    Hints,            \* hints the item has
    MaxAnswerChecks,  \* MAX_ANSWER_CHECKS
    MaxObservations,  \* MAX_OBSERVATIONS
    MaxRounds,        \* MAX_TOOL_ROUNDS
    MaxCalls,         \* MAX_TOOL_CALLS_PER_TURN
    MaxUses           \* tool uses in one model response (a bound of the model)

ASSUME LimitsAssumption ==
    /\ Hints \in Nat /\ MaxAnswerChecks \in Nat /\ MaxObservations \in Nat
    /\ MaxRounds \in Nat \ {0} /\ MaxCalls \in Nat /\ MaxUses \in Nat

VARIABLES
    rows,      \* the `turns` table
    evidence,  \* interviewer_observation rows of concept_evidence for the item
    pc,        \* turn -> where run_turn is
    seq,       \* turn -> its local `seq`
    context,   \* turn -> its ToolContext, rebuilt every turn
    rounds,    \* turn -> model calls made
    calls,     \* turn -> tools executed
    uses       \* turn -> tool uses of the last response still to run

vars == <<rows, evidence, pc, seq, context, rounds, calls, uses>>

\* What a row records: the candidate's words, a response that asks for tools, the reply,
\* the reply at a cap, and a tool's result ("other" is run_code, end_round or a refusal).
Kinds == {"candidate", "asking", "reply", "stopped", "hint", "check", "observe", "other"}
Row == [seq : Nat \ {0}, by : Turns, kind : Kinds, level : Nat]

Contexts == [hints : Nat, checks : Nat, observations : Nat]
Labels == {"idle", "say", "context", "model", "tools", "observed", "cap", "answered", "dead"}

TypeOK ==
    /\ rows \subseteq Row
    /\ evidence \in Nat
    /\ pc \in [Turns -> Labels]
    /\ seq \in [Turns -> Nat]
    /\ context \in [Turns -> Contexts]
    /\ rounds \in [Turns -> Nat]
    /\ calls \in [Turns -> Nat]
    /\ uses \in [Turns -> Nat]

Init ==
    /\ rows = {}
    /\ evidence = 0
    /\ pc = [t \in Turns |-> "idle"]
    /\ seq = [t \in Turns |-> 0]
    /\ context = [t \in Turns |-> [hints |-> 0, checks |-> 0, observations |-> 0]]
    /\ rounds = [t \in Turns |-> 0]
    /\ calls = [t \in Turns |-> 0]
    /\ uses = [t \in Turns |-> 0]

Seqs == {r.seq : r \in rows}
Goto(t, label) == pc' = [pc EXCEPT ![t] = label]

\* Seeded fault: turns(session_id, seq) is not unique.
WriteAnyway(t, kind, level, label) ==
    /\ rows' = rows \cup {[seq |-> seq[t], by |-> t, kind |-> kind, level |-> level]}
    /\ seq' = [seq EXCEPT ![t] = @ + 1]
    /\ Goto(t, label)

\* _write commits one row, or the unique constraint ends the request with an error.
Write(t, kind, level, label) ==
    \/ /\ seq[t] \notin Seqs
       /\ rows' = rows \cup {[seq |-> seq[t], by |-> t, kind |-> kind, level |-> level]}
       /\ seq' = [seq EXCEPT ![t] = @ + 1]
       /\ Goto(t, label)
    \/ /\ seq[t] \in Seqs
       /\ Goto(t, "dead")
       /\ UNCHANGED <<rows, seq>>

---------------------------------------------------------------------------
\* run_turn

LastSeq == CHOOSE n \in Seqs : \A m \in Seqs : m <= n

\* next_seq: one more than the last row, read before anything is written.
NextSeq == IF rows = {} THEN 1 ELSE LastSeq + 1

Start(t) ==
    /\ pc[t] = "idle"
    /\ seq' = [seq EXCEPT ![t] = NextSeq]
    /\ Goto(t, "say")
    /\ UNCHANGED <<rows, evidence, context, rounds, calls, uses>>

Say(t) ==
    /\ pc[t] = "say"
    /\ Write(t, "candidate", 0, "context")
    /\ UNCHANGED <<evidence, context, rounds, calls, uses>>

\* hints_revealed, answer_checks and observations_recorded, from the rows there are.
HighestHint == CHOOSE l \in 0 .. Hints :
    /\ l = 0 \/ \E r \in rows : r.kind = "hint" /\ r.level = l
    /\ \A r \in rows : r.kind = "hint" => r.level <= l
RowsOf(kind) == {r \in rows : r.kind = kind}

\* Seeded fault: the rations start afresh with each turn.
LoadContextEmpty(t) ==
    /\ pc[t] = "context"
    /\ Goto(t, "model")
    /\ UNCHANGED <<rows, evidence, seq, context, rounds, calls, uses>>

LoadContext(t) ==
    /\ pc[t] = "context"
    /\ context' = [context EXCEPT ![t] = [hints |-> HighestHint,
                                          checks |-> Cardinality(RowsOf("check")),
                                          observations |-> Cardinality(RowsOf("observe"))]]
    /\ Goto(t, "model")
    /\ UNCHANGED <<rows, evidence, seq, rounds, calls, uses>>

\* One model call: the response is stored, and it either ends the turn or asks for tools.
AskModel(t) ==
    /\ pc[t] = "model"
    /\ rounds' = [rounds EXCEPT ![t] = @ + 1]
    /\ \/ Write(t, "reply", 0, "answered") /\ UNCHANGED uses
       \/ \E n \in 1 .. MaxUses :
            /\ Write(t, "asking", 0, "tools")
            /\ uses' = [uses EXCEPT ![t] = n]
    /\ UNCHANGED <<evidence, context, calls>>

\* The provider or the budget refuses the call; the rows written so far stay.
ModelFails(t) ==
    /\ pc[t] = "model"
    /\ Goto(t, "dead")
    /\ UNCHANGED <<rows, evidence, seq, context, rounds, calls, uses>>

CanUse(t) == pc[t] = "tools" /\ uses[t] > 0 /\ calls[t] < MaxCalls

CountUse(t) ==
    /\ calls' = [calls EXCEPT ![t] = @ + 1]
    /\ uses' = [uses EXCEPT ![t] = @ - 1]

\* Seeded fault: any level is revealed when it is asked for.
RevealHintAny(t, level) ==
    /\ CanUse(t) /\ CountUse(t)
    /\ context' = [context EXCEPT ![t].hints = IF level > @ THEN level ELSE @]
    /\ Write(t, "hint", level, "tools")
    /\ UNCHANGED <<evidence, rounds>>

\* _reveal_hint: levels are taken in order, a level already given may be repeated.
RevealHint(t, level) ==
    /\ CanUse(t) /\ CountUse(t)
    /\ level <= context[t].hints + 1
    /\ context' = [context EXCEPT ![t].hints = IF level > @ THEN level ELSE @]
    /\ Write(t, "hint", level, "tools")
    /\ UNCHANGED <<evidence, rounds>>

CheckAnswer(t) ==
    /\ CanUse(t) /\ CountUse(t)
    /\ context[t].checks < MaxAnswerChecks
    /\ context' = [context EXCEPT ![t].checks = @ + 1]
    /\ Write(t, "check", 0, "tools")
    /\ UNCHANGED <<evidence, rounds>>

\* _write_observation commits the evidence row; the tool's row comes after it.
RecordObservation(t) ==
    /\ CanUse(t) /\ CountUse(t)
    /\ context[t].observations < MaxObservations
    /\ context' = [context EXCEPT ![t].observations = @ + 1]
    /\ evidence' = evidence + 1
    /\ Goto(t, "observed")
    /\ UNCHANGED <<rows, seq, rounds>>

FileObservation(t) ==
    /\ pc[t] = "observed"
    /\ Write(t, "observe", 0, "tools")
    /\ UNCHANGED <<evidence, context, rounds, calls, uses>>

\* run_code, end_round, and every call that is refused.
UseOther(t) ==
    /\ CanUse(t) /\ CountUse(t)
    /\ Write(t, "other", 0, "tools")
    /\ UNCHANGED <<evidence, context, rounds>>

\* Seeded fault: a response the tool cap cuts short is waited for.
FinishRoundWaiting(t) ==
    /\ pc[t] = "tools"
    /\ uses[t] = 0
    /\ Goto(t, IF rounds[t] >= MaxRounds THEN "cap" ELSE "model")
    /\ UNCHANGED <<rows, evidence, seq, context, rounds, calls, uses>>

\* The response is used up, or the tool cap cut it short: ask again unless a cap is reached.
FinishRound(t) ==
    /\ pc[t] = "tools"
    /\ uses[t] = 0 \/ calls[t] >= MaxCalls
    /\ Goto(t, IF uses[t] > 0 \/ rounds[t] >= MaxRounds THEN "cap" ELSE "model")
    /\ UNCHANGED <<rows, evidence, seq, context, rounds, calls, uses>>

StopAtCap(t) ==
    /\ pc[t] = "cap"
    /\ Write(t, "stopped", 0, "answered")
    /\ UNCHANGED <<evidence, context, rounds, calls, uses>>

---------------------------------------------------------------------------

Progress(t) ==
    \/ Say(t) \/ LoadContext(t) \/ AskModel(t) \/ ModelFails(t)
    \/ \E level \in 1 .. Hints : RevealHint(t, level)
    \/ CheckAnswer(t) \/ RecordObservation(t) \/ FileObservation(t) \/ UseOther(t)
    \/ FinishRound(t) \/ StopAtCap(t)

Next == \E t \in Turns : Start(t) \/ Progress(t)

Spec == Init /\ [][Next]_vars

\* A request that has started is run by the server to its end; a model call returns or
\* fails within the client's timeout.
FairSpec == Spec /\ \A t \in Turns : WF_vars(Progress(t))

---------------------------------------------------------------------------
\* Properties

\* The transcript is numbered from 1 without a gap and without a repetition, although
\* each turn counts by itself from a number it read once (next_seq, _write).
SeqsDense ==
    /\ \A r, q \in rows : r.seq = q.seq => r = q
    /\ \A r \in rows : r.seq > 0 /\ \A k \in 1 .. r.seq : k \in Seqs

\* The rows of one turn stand together: no other turn's row is among them, so the model
\* never reads half of somebody else's exchange (as_messages).
TurnsDoNotInterleave ==
    \A r, q, s \in rows : r.by = s.by /\ r.seq < q.seq /\ q.seq < s.seq => q.by = r.by

\* Hint N is only on record after hint N-1, whichever turns revealed them (_reveal_hint:
\* "level N implies N-1 was given").
HintsInOrder ==
    \A r \in rows : r.kind = "hint" /\ r.level > 1 =>
        \E q \in rows : q.kind = "hint" /\ q.level = r.level - 1 /\ q.seq < r.seq

\* The rations hold over all the turns of an item, although each turn counts in a context
\* of its own (answer_checks, observations_recorded).
RationsHold ==
    /\ Cardinality(RowsOf("check")) <= MaxAnswerChecks
    /\ Cardinality(RowsOf("observe")) <= MaxObservations

\* A turn that was begun ends, however many tools the model asks for.
TurnEnds == \A t \in Turns : pc[t] = "say" ~> pc[t] \in {"answered", "dead"}

\* The ration on evidence itself: one conversation moves mastery by at most
\* MAX_OBSERVATIONS readings (agent/tools.py).  Not kept: evidence is committed before its row.
ObservationsRationed == evidence <= MaxObservations
=============================================================================
