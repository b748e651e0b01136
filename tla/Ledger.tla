------------------------------- MODULE Ledger -------------------------------
(***************************************************************************)
(* The budget of the model calls (apps/api/src/api/llm.py): every call     *)
(* claims room under the session, day and month ceilings before the        *)
(* provider is asked, and settles the claim into what the call cost.  One  *)
(* unit stands for dollars and for tokens, which are checked alike.        *)
(***************************************************************************)
EXTENDS Integers, FiniteSetsExt

CONSTANTS
    Calls,         \* model calls
    Sessions,      \* interview sessions; a call may belong to none
    NoSession,
    SessionLimit, DayLimit, MonthLimit,  \* max_*_per_session, per_day, per_month
    MaxClaim,      \* the largest reservation: the estimated input and max_tokens
    MaxCost,       \* what a call costs at most: searches and cache writes exceed the claim
    DaysPerMonth,
    LastDay        \* the model's bound on time

Nobody == "nobody"

ASSUME LedgerAssumption ==
    /\ IsFiniteSet(Calls)
    /\ NoSession \notin Sessions /\ {"day", "month"} \cap Sessions = {}
    /\ Nobody \notin Calls
    /\ {SessionLimit, DayLimit, MonthLimit, MaxClaim, DaysPerMonth, LastDay} \subseteq Nat \ {0}
    /\ MaxCost \in Nat

VARIABLES
    today,    \* the UTC day
    lock,     \* who holds pg_advisory_xact_lock(_BUDGET_LOCK_KEY)
    rows,     \* call -> its row in llm_calls, NoRow before there is one
    pc,       \* call -> where it is
    session,  \* call -> the session it is made for
    claimed   \* call -> the claim its row was written with (history)

vars == <<today, lock, rows, pc, session, claimed>>

\* `old`: the row was still reserved when RESERVATION_TTL had passed.
NoRow == [status |-> "none", day |-> 0, held |-> 0, cost |-> 0, old |-> FALSE]
Reservation == [status : {"reserved"}, day : 1 .. LastDay, held : 1 .. MaxClaim, cost : {0}, old : BOOLEAN]
Record == [status : {"settled", "failed"}, day : 1 .. LastDay, held : {0}, cost : 0 .. MaxCost, old : BOOLEAN]

TypeOK ==
    /\ today \in 1 .. LastDay
    /\ lock \in Calls \cup {Nobody}
    /\ rows \in [Calls -> Reservation \cup Record \cup {NoRow}]
    /\ pc \in [Calls -> {"idle", "claiming", "asking", "done", "refused", "dead"}]
    /\ session \in [Calls -> Sessions \cup {NoSession}]
    /\ claimed \in [Calls -> 0 .. MaxClaim]

Init ==
    /\ today = 1
    /\ lock = Nobody
    /\ rows = [c \in Calls |-> NoRow]
    /\ pc = [c \in Calls |-> "idle"]
    /\ session \in [Calls -> Sessions \cup {NoSession}]
    /\ claimed = [c \in Calls |-> 0]

Goto(c, label) == pc' = [pc EXCEPT ![c] = label]

---------------------------------------------------------------------------
\* budget_status

\* Seeded fault: a reservation counts however old it is.
ContributionForever(row) == IF row.status = "reserved" THEN row.held ELSE row.cost

\* A live reservation counts as what it holds, anything else as what it cost.
Contribution(row) == IF row.status = "reserved" /\ ~row.old THEN row.held ELSE row.cost

Scopes == Sessions \cup {"day", "month"}
Limit(scope) ==
    CASE scope = "day" -> DayLimit [] scope = "month" -> MonthLimit [] OTHER -> SessionLimit

Month(day) == (day - 1) \div DaysPerMonth
InScope(c, scope) ==
    /\ rows[c] # NoRow
    /\ CASE scope = "day" -> rows[c].day = today
         [] scope = "month" -> Month(rows[c].day) = Month(today)
         [] OTHER -> session[c] = scope
RowsIn(scope) == {c \in Calls : InScope(c, scope)}

Spent(scope) == MapThenSumSet(LAMBDA c : Contribution(rows[c]), RowsIn(scope))

\* enforce_budget skips the session scope of a call that belongs to none.
ScopesOf(c) == {"day", "month"} \cup ({session[c]} \ {NoSession})

---------------------------------------------------------------------------
\* reserve

\* Seeded fault: the check does not take the lock.
CheckUnlocked(c) ==
    /\ pc[c] = "idle"
    /\ IF \A scope \in ScopesOf(c) : Spent(scope) < Limit(scope)
       THEN Goto(c, "claiming") /\ lock' = c
       ELSE Goto(c, "refused") /\ UNCHANGED lock
    /\ UNCHANGED <<today, rows, session, claimed>>

\* enforce_budget, under the lock: refused only if a ceiling is already reached.
Check(c) ==
    /\ pc[c] = "idle"
    /\ lock = Nobody
    /\ IF \A scope \in ScopesOf(c) : Spent(scope) < Limit(scope)
       THEN Goto(c, "claiming") /\ lock' = c
       ELSE Goto(c, "refused") /\ UNCHANGED lock
    /\ UNCHANGED <<today, rows, session, claimed>>

\* The commit makes the row visible and gives up the lock.  The day may have changed.
Claim(c, amount) ==
    /\ pc[c] = "claiming"
    /\ rows' = [rows EXCEPT ![c] =
         [status |-> "reserved", day |-> today, held |-> amount, cost |-> 0, old |-> FALSE]]
    /\ claimed' = [claimed EXCEPT ![c] = amount]
    /\ lock' = Nobody
    /\ Goto(c, "asking")
    /\ UNCHANGED <<today, session>>

---------------------------------------------------------------------------
\* complete, stream

\* An answer is settled at its price, a failure at nothing or at what a dropped stream
\* had delivered.
Settle(c, how, cost) ==
    /\ pc[c] = "asking"
    /\ rows' = [rows EXCEPT ![c].status = how, ![c].held = 0, ![c].cost = cost]
    /\ Goto(c, "done")
    /\ UNCHANGED <<today, lock, session, claimed>>

---------------------------------------------------------------------------
\* The environment

\* The process dies: the transaction of a check is rolled back, a committed row stays.
Die(c) ==
    /\ pc[c] \in {"claiming", "asking"}
    /\ Goto(c, "dead")
    /\ lock' = IF lock = c THEN Nobody ELSE lock
    /\ UNCHANGED <<today, rows, session, claimed>>

\* RESERVATION_TTL passes, for a dead call or for one that is still being answered.
Age(c) ==
    /\ rows[c].status = "reserved" /\ ~rows[c].old
    /\ rows' = [rows EXCEPT ![c].old = TRUE]
    /\ UNCHANGED <<today, lock, pc, session, claimed>>

NextDay ==
    /\ today < LastDay
    /\ today' = today + 1
    /\ UNCHANGED <<lock, rows, pc, session, claimed>>

Reserve(c) == Check(c) \/ \E amount \in 1 .. MaxClaim : Claim(c, amount)
Answer(c) == \E how \in {"settled", "failed"}, cost \in 0 .. MaxCost : Settle(c, how, cost)

Next ==
    \/ \E c \in Calls : Reserve(c) \/ Answer(c) \/ Die(c) \/ Age(c)
    \/ NextDay

Spec == Init /\ [][Next]_vars

\* Only time is fair: a row grows old, whether or not anybody answers for it.
FairSpec == Spec /\ \A c \in Calls : WF_vars(Age(c))

---------------------------------------------------------------------------
\* Properties

\* What a row takes of the ceilings within its claim.  The rest a check could not know of:
\* a cost beyond the claim, and what a call costs that outlived its reservation.
Accounted(c) ==
    IF rows[c].old THEN 0
    ELSE IF Contribution(rows[c]) < claimed[c] THEN Contribution(rows[c]) ELSE claimed[c]

\* A ceiling is overshot by one call at most: without some one row of it, what the rows of
\* a scope claimed is below its limit, however many calls overlap, fail or die and wherever
\* midnight falls (reserve, enforce_budget: "the last call before a refusal can overshoot").
CeilingsHold ==
    \A scope \in Scopes : RowsIn(scope) # {} =>
        \E last \in RowsIn(scope) :
            MapThenSumSet(Accounted, RowsIn(scope) \ {last}) < Limit(scope)

\* No claim holds a ceiling for ever: it is settled, or its call's death is noticed by its
\* age (RESERVATION_TTL).
ClaimsEnd ==
    \A c \in Calls : rows[c].status = "reserved" ~> Contribution(rows[c]) = rows[c].cost
=============================================================================
