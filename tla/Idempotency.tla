---------------------------- MODULE Idempotency ----------------------------
(***************************************************************************)
(* run_once (apps/api/src/api/idempotency.py) around the two handlers that *)
(* accept an Idempotency-Key: POST /sessions, which always inserts, and    *)
(* POST /sessions/{id}/submissions, whose artifact the unique constraint   *)
(* on (session, item) guards.  Every request has a database session of its *)
(* own; a step of the model is one commit or one read of it.               *)
(***************************************************************************)

CONSTANTS
    Requests,  \* requests, retries among them
    Keys,      \* (user, endpoint, Idempotency-Key)
    Bodies,    \* request bodies, which is what the fingerprint is taken of
    ItemOf,    \* the bodies that are submissions -> item_id
    Sessions,  \* the sessions of the path of a submission
    NoKey,     \* the header is absent
    NoSession  \* POST /sessions has no session in its path

Guarded == DOMAIN ItemOf

ASSUME KeysAssumption ==
    /\ NoKey \notin Keys /\ NoSession \notin Sessions
    /\ Guarded \subseteq Bodies
    /\ Requests \cap {"none", "failed", "refused"} = {}

VARIABLES
    rows,      \* the idempotency_keys table
    forgotten, \* keys whose row expired (history)
    effects,   \* what handlers committed: an artifact or a session each
    pc,        \* request -> where it is
    asked,     \* request -> its key, its body and the session of its path
    answer     \* request -> the request whose response it was given, or how it was refused

vars == <<rows, forgotten, effects, pc, asked, answer>>

\* `response` is the request that produced the stored response; `old` is the TTL's verdict.
Row == [key : Keys, body : Bodies, response : Requests \cup {"none"}, old : BOOLEAN]
Asked == [key : Keys \cup {NoKey}, body : Bodies, session : Sessions \cup {NoSession}]
Effect == [by : Requests, key : Keys \cup {NoKey}, body : Bodies, session : Sessions \cup {NoSession}]
\* "done" has cleaned up after itself, "gone" has not.
Labels == {"idle", "expire", "reserve", "lookup", "handler", "insert", "release", "store", "done", "gone"}
Handling == {"handler", "insert", "release", "store"}

TypeOK ==
    /\ rows \subseteq Row
    /\ forgotten \subseteq Keys
    /\ effects \subseteq Effect
    /\ pc \in [Requests -> Labels]
    /\ asked \in [Requests -> Asked]
    /\ answer \in [Requests -> Requests \cup {"none", "failed", "refused"}]

Init ==
    /\ rows = {}
    /\ forgotten = {}
    /\ effects = {}
    /\ pc = [r \in Requests |-> "idle"]
    /\ asked \in [Requests -> Asked]
    /\ \A r \in Requests : asked[r].body \in Guarded <=> asked[r].session \in Sessions
    /\ \A r, q \in Requests : asked[r].key = asked[q].key /\ asked[r].key # NoKey =>
         (asked[r].body \in Guarded <=> asked[q].body \in Guarded)  \* a key names its endpoint
    /\ answer = [r \in Requests |-> "none"]

Mine(r) == {row \in rows : row.key = asked[r].key}
Goto(r, label) == pc' = [pc EXCEPT ![r] = label]
Finish(r, how) == Goto(r, "done") /\ answer' = [answer EXCEPT ![r] = how]

---------------------------------------------------------------------------
\* run_once

Arrive(r) ==
    /\ pc[r] = "idle"
    /\ Goto(r, IF asked[r].key = NoKey THEN "handler" ELSE "expire")
    /\ UNCHANGED <<rows, forgotten, effects, asked, answer>>

\* _expire: rows past their TTL go, or the statement fails and none does.
Expire(r) ==
    /\ pc[r] = "expire"
    /\ rows' \in {rows, {row \in rows : ~row.old}}
    /\ forgotten' = forgotten \cup {row.key : row \in rows \ rows'}
    /\ Goto(r, "reserve")
    /\ UNCHANGED <<effects, asked, answer>>

\* The reservation is inserted and committed before the handler runs.  It says nothing of the
\* session: the endpoint is the route's template and the fingerprint is the body's.
Reservation(r) == [key |-> asked[r].key, body |-> asked[r].body, response |-> "none", old |-> FALSE]

\* Seeded fault: the key is looked up first and inserted later, without a constraint.
ReserveUnguarded(r) ==
    /\ pc[r] = "reserve"
    /\ \/ rows' = rows \cup {Reservation(r)} /\ Goto(r, "handler")
       \/ Mine(r) # {} /\ Goto(r, "lookup") /\ UNCHANGED rows
    /\ UNCHANGED <<forgotten, effects, asked, answer>>

Reserve(r) ==
    /\ pc[r] = "reserve"
    /\ \/ Mine(r) = {} /\ rows' = rows \cup {Reservation(r)} /\ Goto(r, "handler")
       \/ Mine(r) # {} /\ Goto(r, "lookup") /\ UNCHANGED rows
    /\ UNCHANGED <<forgotten, effects, asked, answer>>

\* Seeded fault: the fingerprint is not compared.
LookupAnyBody(r) ==
    /\ pc[r] = "lookup"
    /\ \/ \E row \in Mine(r) : row.response # "none" /\ Finish(r, row.response)
       \/ (\A row \in Mine(r) : row.response = "none") /\ Finish(r, "refused")
    /\ UNCHANGED <<rows, forgotten, effects, asked>>

Replayable(r) == {row \in Mine(r) : row.body = asked[r].body /\ row.response # "none"}

\* Seeded fault: a reservation without a response is taken over.
LookupTakesOver(r) ==
    /\ pc[r] = "lookup"
    /\ \/ \E row \in Replayable(r) : Finish(r, row.response)
       \/ Replayable(r) = {} /\ Goto(r, "handler") /\ UNCHANGED answer
    /\ UNCHANGED <<rows, forgotten, effects, asked>>

\* The insert lost: replay a stored response to the same body, refuse anything else.
Lookup(r) ==
    /\ pc[r] = "lookup"
    /\ \/ \E row \in Replayable(r) : Finish(r, row.response)
       \/ Replayable(r) = {} /\ Finish(r, "refused")
    /\ UNCHANGED <<rows, forgotten, effects, asked>>

\* The session has an artifact for the item, whatever is in it.
Taken(r) ==
    /\ asked[r].body \in Guarded
    /\ \E e \in effects : e.session = asked[r].session /\ ItemOf[e.body] = ItemOf[asked[r].body]

\* What a failed handler leads to: the keyed request releases its reservation.
Fail(r) ==
    IF asked[r].key = NoKey THEN Finish(r, "failed") ELSE Goto(r, "release") /\ UNCHANGED answer

\* The handler's checks; it may refuse the request for any reason of its own.
HandlerCheck(r) ==
    /\ pc[r] = "handler"
    /\ \/ ~Taken(r) /\ Goto(r, "insert") /\ UNCHANGED answer
       \/ Fail(r)
    /\ UNCHANGED <<rows, forgotten, effects, asked>>

Insert(r) ==
    effects' = effects \cup {[by |-> r, key |-> asked[r].key, body |-> asked[r].body,
                              session |-> asked[r].session]}

\* The handler's commit.  When the constraint refuses it, the session needs a rollback that
\* nobody issues: the clean-up's first query raises, and the request ends without it.
HandlerInsert(r) ==
    /\ pc[r] = "insert"
    /\ \/ /\ ~Taken(r)
          /\ Insert(r)
          /\ IF asked[r].key = NoKey THEN Finish(r, r) ELSE Goto(r, "store") /\ UNCHANGED answer
       \/ Taken(r) /\ Goto(r, "gone") /\ answer' = [answer EXCEPT ![r] = "failed"] /\ UNCHANGED effects
    /\ UNCHANGED <<rows, forgotten, asked>>

\* Seeded fault: a failed request keeps its key.
ReleaseNothing(r) ==
    /\ pc[r] = "release"
    /\ Finish(r, "failed")
    /\ UNCHANGED <<rows, forgotten, effects, asked>>

Release(r) ==
    /\ pc[r] = "release"
    /\ rows' = rows \ Mine(r)
    /\ Finish(r, "failed")
    /\ UNCHANGED <<forgotten, effects, asked>>

Store(r) ==
    /\ pc[r] = "store"
    /\ rows' = (rows \ Mine(r)) \cup {[row EXCEPT !.response = r] : row \in Mine(r)}
    /\ Finish(r, r)
    /\ UNCHANGED <<forgotten, effects, asked>>

---------------------------------------------------------------------------
\* The environment

\* The TTL runs out.  No request is handled for as long as that (TTL_HOURS).
Age(row) ==
    /\ row \in rows /\ ~row.old
    /\ \A r \in Requests : asked[r].key = row.key => pc[r] \notin Handling
    /\ rows' = (rows \ {row}) \cup {[row EXCEPT !.old = TRUE]}
    /\ UNCHANGED <<forgotten, effects, pc, asked, answer>>

\* The process stops and starts again: the table survives, the requests do not.
Restart ==
    /\ pc' = [r \in Requests |-> IF pc[r] \in {"idle", "done"} THEN pc[r] ELSE "gone"]
    /\ pc' # pc
    /\ UNCHANGED <<rows, forgotten, effects, asked, answer>>

Step(r) ==
    \/ Arrive(r) \/ Expire(r) \/ Reserve(r) \/ Lookup(r)
    \/ HandlerCheck(r) \/ HandlerInsert(r) \/ Release(r) \/ Store(r)

Next == (\E r \in Requests : Step(r)) \/ Restart \/ \E row \in rows : Age(row)

Spec == Init /\ [][Next]_vars

\* A request that was accepted is served, unless its process stops.
FairSpec == Spec /\ \A r \in Requests : WF_vars(pc[r] # "idle" /\ Step(r))

---------------------------------------------------------------------------
\* Properties

\* At any moment one request of a key is in its handler, and none is once a response is
\* stored, although the retry that lost the insert reads the row later (run_once).
Holds(r) == pc[r] \in Handling /\ asked[r].key # NoKey
OneHandler ==
    /\ \A r, q \in Requests : Holds(r) /\ Holds(q) /\ asked[r].key = asked[q].key => r = q
    /\ \A r \in Requests : Holds(r) => \A row \in Mine(r) : row.response = "none"

\* A replayed response is what a handler did for the same key and a body with the same
\* fingerprint, never a response to something that did not happen (run_once).
DoneFor(by, key, body) == \E e \in effects : e.by = by /\ e.key = key /\ e.body = body
ReplayFaithful ==
    \A r \in Requests : answer[r] \in Requests => DoneFor(answer[r], asked[r].key, asked[r].body)

\* "Returning the first request's answer to a different question would be silently wrong"
\* (idempotency.py:24-25): a submission is answered with what was done in its own session.
\* Not kept, because the session is in neither the endpoint nor the fingerprint.
ReplayOfOwnSession ==
    \A r \in Requests : answer[r] \in Requests =>
        \E e \in effects : e.by = answer[r] /\ e.session = asked[r].session

\* As long as its row has not expired, a key brings about one effect, whatever is retried,
\* crashes or restarts in between (run_once).
AtMostOnce ==
    \A e, f \in effects : e.key = f.key /\ e.key \in Keys \ forgotten => e = f

\* No retry is told for ever that the original is still running: a reservation is answered
\* or released, unless a request of its key ended without cleaning up.
Unanswered(k) == \E row \in rows : row.key = k /\ row.response = "none"
ReservationsResolve ==
    \A k \in Keys : Unanswered(k)
        ~> ~Unanswered(k) \/ \E r \in Requests : asked[r].key = k /\ pc[r] = "gone"

\* "A failed request releases its key" (docs/API.md): what is left of it is another
\* request's reservation.  Not kept when the handler's own transaction is broken.
FailedReleases ==
    \A r \in Requests : answer[r] = "failed" =>
        \A row \in Mine(r) : \/ row.response # "none"
                             \/ \E q \in Requests \ {r} : asked[q].key = row.key /\ pc[q] \in Handling \cup {"gone"}
=============================================================================
