---------------------------- MODULE ItemVerdicts ----------------------------
(***************************************************************************)
(* What a session promises about its items, free of requests and of the    *)
(* session's own status: an item is submitted once, judged once, and the   *)
(* evidence of a passing judgement appears with the judgement and is never *)
(* retracted (sessions.py; docs/API.md, "abandoned still writes            *)
(* evidence").                                                             *)
(***************************************************************************)
EXTENDS Integers

CONSTANTS
    NumItems,    \* planned items
    Overrulable  \* whether an exception may follow a committed grade

VARIABLES
    verdict,  \* item -> what the session reports of it
    proven    \* items whose grading wrote evidence

verdictVars == <<verdict, proven>>
AllItems == 1 .. NumItems

VerdictInit ==
    /\ verdict = [i \in AllItems |-> "not_attempted"]
    /\ proven = {}

Submit(i) ==
    /\ verdict[i] = "not_attempted"
    /\ verdict' = [verdict EXCEPT ![i] = "grading"]
    /\ UNCHANGED proven

Pass(i) ==
    /\ verdict[i] = "grading"
    /\ verdict' = [verdict EXCEPT ![i] = "graded"]
    /\ proven' = proven \cup {i}

Fail(i) ==
    /\ verdict[i] = "grading"
    /\ verdict' = [verdict EXCEPT ![i] = "failed"]
    /\ UNCHANGED proven

\* grade_artifact files a crash after a grade was committed: the newest grading wins.
Overrule(i) ==
    /\ Overrulable
    /\ verdict[i] = "graded"
    /\ verdict' = [verdict EXCEPT ![i] = "failed"]
    /\ UNCHANGED proven

VerdictNext == \E i \in AllItems : Submit(i) \/ Pass(i) \/ Fail(i) \/ Overrule(i)

Spec == VerdictInit /\ [][VerdictNext]_verdictVars

FairSpec == Spec /\ \A i \in AllItems : WF_verdictVars(Pass(i) \/ Fail(i))
=============================================================================
