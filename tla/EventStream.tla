----------------------------- MODULE EventStream -----------------------------
(***************************************************************************)
(* The live channel of one session: the in-process bus (apps/api/src/api/  *)
(* events.py), the stream that serves it (routes/events.py) and the client *)
(* that folds it (apps/web/src/lib/use-session-stream.ts and               *)
(* session-reducer.ts).  Other sessions are there only as what the bus may *)
(* evict this one for.                                                     *)
(*                                                                         *)
(* An event has the sequence number the bus gives it and an id of its own, *)
(* its place among all events of the session, which no part of the program *)
(* sees: the numbers start again when a channel does.                      *)
(***************************************************************************)
EXTENDS Lists, SequencesExt

CONSTANTS
    Others,       \* the other sessions that publish
    BufferSize,   \* BUFFER_SIZE
    MaxChannels,  \* MAX_CHANNELS
    MaxEvents, MaxFaults  \* the model's bounds on events, and on lost connections and restarts

Watched == "watched"
NaN == -1  \* what Math.max makes of a number that is missing

ASSUME StreamAssumption ==
    /\ Watched \notin Others
    /\ BufferSize \in Nat \ {0} /\ MaxChannels \in Nat \ {0}
    /\ MaxEvents \in Nat /\ MaxFaults \in Nat

VARIABLES
    lru,        \* the sessions with a channel, the least recently published first
    last,       \* the channel's seq, 0 if there is no channel
    buffer,     \* the channel's events
    published,  \* how many events the session has had
    epoch,      \* how many channels the session has had
    status,     \* sessions.status, as far as the stream tells states apart
    announced,  \* the terminal session.state: not due, owed, published, or lost with its process
    pc,         \* the stream's generator
    cursor, finished,
    wire,       \* the frames between server and client
    client,     \* the EventSource and the reducer's state
    faults

vars == <<lru, last, buffer, published, epoch, status, announced, pc, cursor, finished, wire, client, faults>>

Event == [kind : {"event", "terminal"}, seq : 1 .. MaxEvents, id : 1 .. MaxEvents, epoch : 1 .. MaxEvents]
\* stream.gap and stream.timeout are written without a seq and without an SSE id.
Control == [kind : {"gap", "timeout"}]
\* A received event, and whether a loss just before it was shown to the user.
Received == [event : Event, told : BOOLEAN, blind : BOOLEAN]

TypeOK ==
    /\ lru \in Seq(Others \cup {Watched}) /\ Len(lru) <= MaxChannels
    /\ buffer \in Seq(Event) /\ Len(buffer) <= BufferSize
    /\ last \in 0 .. MaxEvents /\ published \in 0 .. MaxEvents /\ epoch \in 0 .. MaxEvents
    /\ (buffer = <<>>) <=> (\A n \in DOMAIN lru : lru[n] # Watched)
    /\ status \in {"open", "ended"} /\ announced \in {"no", "owed", "yes", "lost"}
    /\ pc \in {"none", "start", "poll", "check", "leave"}
    /\ cursor \in 0 .. MaxEvents /\ finished \in BOOLEAN
    /\ wire \in Seq(Event \cup Control)
    /\ client \in [open : BOOLEAN, lastId : 0 .. MaxEvents, lastSeq : 0 .. MaxEvents \cup {NaN},
                   gapTold : BOOLEAN, got : Seq(Received)]
    /\ faults \in 0 .. MaxFaults

Init ==
    /\ lru = <<>> /\ last = 0 /\ buffer = <<>> /\ published = 0 /\ epoch = 0
    /\ status = "open" /\ announced = "no"
    /\ pc = "none" /\ cursor = 0 /\ finished = FALSE
    /\ wire = <<>>
    /\ client = [open |-> TRUE, lastId |-> 0, lastSeq |-> 0, gapTold |-> FALSE, got |-> <<>>]
    /\ faults = 0

bus == <<lru, last, buffer, published, epoch>>
stream == <<pc, cursor, finished>>

---------------------------------------------------------------------------
\* The bus

Newest(seq, n) == SubSeq(seq, Len(seq) - n + 1, Len(seq))
Bounded(seq, n) == IF Len(seq) > n THEN Newest(seq, n) ELSE seq

\* move_to_end and popitem: a channel is made if there is none, and the oldest makes room.
Touched(session) ==
    LET held == {n \in DOMAIN lru : lru[n] = session}
        others == IF held = {} THEN lru ELSE RemoveAt(lru, CHOOSE n \in held : TRUE)
    IN  Bounded(Append(others, session), MaxChannels)

\* EventBus.publish of this session's next event, under the bus's lock.
PublishWatched(kind) ==
    LET event == [kind |-> kind, seq |-> last + 1, id |-> published + 1,
                  epoch |-> IF last = 0 THEN epoch + 1 ELSE epoch]
    IN  /\ published < MaxEvents
        /\ lru' = Touched(Watched)
        /\ last' = last + 1
        /\ epoch' = event.epoch
        /\ published' = published + 1
        /\ buffer' = Bounded(Append(buffer, event), BufferSize)

\* Seeded fault: the event just after the cursor is taken for seen.
SinceSkips(after) == Picked(buffer, {n \in DOMAIN buffer : buffer[n].seq > after + 1})

\* EventBus.since
Since(after) == Picked(buffer, {n \in DOMAIN buffer : buffer[n].seq > after})

OldestSeq == IF buffer = <<>> THEN 0 ELSE buffer[1].seq

\* A turn, a tool or a grader publishes; a grader also after the session has ended.
Publish ==
    /\ PublishWatched("event")
    /\ UNCHANGED <<status, announced, stream, wire, client, faults>>

\* Another session publishes: this one's channel may be the one to go.
PublishOther(session) ==
    /\ lru' = Touched(session)
    /\ IF Watched \in Range(lru')
       THEN UNCHANGED <<last, buffer>>
       ELSE last' = 0 /\ buffer' = <<>>
    /\ UNCHANGED <<published, epoch, status, announced, stream, wire, client, faults>>

\* end_session and _maybe_complete commit the terminal status, ...
EndSession ==
    /\ status = "open"
    /\ status' = "ended" /\ announced' = "owed"
    /\ UNCHANGED <<bus, stream, wire, client, faults>>

\* ... and publish it afterwards.
Announce ==
    /\ announced = "owed"
    /\ PublishWatched("terminal")
    /\ announced' = "yes"
    /\ UNCHANGED <<status, stream, wire, client, faults>>

---------------------------------------------------------------------------
\* The stream

\* The browser opens the stream, or reopens it with Last-Event-ID; the status is read.
Connect ==
    /\ client.open /\ pc = "none" /\ wire = <<>>
    /\ cursor' = client.lastId
    /\ finished' = (status = "ended")
    /\ pc' = "start"
    /\ UNCHANGED <<bus, status, announced, wire, client, faults>>

\* Seeded fault: the stream resumes at the oldest event instead of before it.
StartSkips ==
    /\ pc = "start"
    /\ IF cursor # 0 /\ OldestSeq # 0 /\ cursor < OldestSeq - 1
       THEN cursor' = OldestSeq /\ wire' = Append(wire, [kind |-> "gap"])
       ELSE UNCHANGED <<cursor, wire>>
    /\ pc' = "poll"
    /\ UNCHANGED <<bus, status, announced, finished, client, faults>>

\* The one time the server looks for a gap.
Start ==
    /\ pc = "start"
    /\ IF cursor # 0 /\ OldestSeq # 0 /\ cursor < OldestSeq - 1
       THEN cursor' = OldestSeq - 1 /\ wire' = Append(wire, [kind |-> "gap"])
       ELSE UNCHANGED <<cursor, wire>>
    /\ pc' = "poll"
    /\ UNCHANGED <<bus, status, announced, finished, client, faults>>

\* Everything buffered after the cursor is sent.
Poll ==
    /\ pc = "poll"
    /\ wire' = wire \o Since(cursor)
    /\ cursor' = IF Since(cursor) = <<>> THEN cursor ELSE Last(Since(cursor)).seq
    /\ finished' = (finished \/ \E event \in Range(Since(cursor)) : event.kind = "terminal")
    /\ pc' = "check"
    /\ UNCHANGED <<bus, status, announced, client, faults>>

\* Seeded fault: the row that was loaded before the stream opened is tested again and again.
CheckSnapshot(due) ==
    /\ pc = "check"
    /\ pc' = "leave"
    /\ UNCHANGED <<bus, status, announced, cursor, finished, wire, client, faults>>

\* Every FINISHED_CHECK_SECONDS, which may be now, the database is asked.
Check(due) ==
    /\ pc = "check"
    /\ finished' = (finished \/ (due /\ status = "ended"))
    /\ pc' = "leave"
    /\ UNCHANGED <<bus, status, announced, cursor, wire, client, faults>>

\* A finished session with nothing buffered ends its stream; else it sleeps and polls.
Leave ==
    /\ pc = "leave"
    /\ pc' = IF finished /\ Since(cursor) = <<>> THEN "none" ELSE "poll"
    /\ UNCHANGED <<bus, status, announced, cursor, finished, wire, client, faults>>

\* MAX_STREAM_SECONDS
Timeout ==
    /\ pc = "leave" /\ ~(finished /\ Since(cursor) = <<>>)
    /\ faults < MaxFaults
    /\ wire' = Append(wire, [kind |-> "timeout"])
    /\ pc' = "none"
    /\ faults' = faults + 1
    /\ UNCHANGED <<bus, status, announced, cursor, finished, client>>

---------------------------------------------------------------------------
\* The client

\* Seeded fault: a single missing event is not noticed.
LossAfterTwo(seq) == client.lastSeq > 0 /\ seq > client.lastSeq + 2

\* sessionReducer's loss detection.
Loss(seq) == client.lastSeq > 0 /\ seq > client.lastSeq + 1

\* An event arrives: the browser keeps its id, the reducer its number, and the terminal state
\* closes the connection from this side.
Receive ==
    /\ wire # <<>> /\ Head(wire).kind \in {"event", "terminal"}
    /\ LET event == Head(wire)
           closes == event.kind = "terminal"
       IN  /\ client' = [open |-> ~closes,
                         lastId |-> event.seq,
                         lastSeq |-> IF client.lastSeq = NaN THEN NaN
                                     ELSE Max({client.lastSeq, event.seq}),
                         gapTold |-> FALSE,
                         got |-> Append(client.got, [event |-> event,
                                     told |-> client.gapTold \/ Loss(event.seq),
                                     blind |-> client.lastSeq = NaN])]
           /\ wire' = IF closes THEN <<>> ELSE Tail(wire)
           /\ IF closes
              THEN pc' = "none" /\ cursor' = 0 /\ finished' = FALSE
              ELSE UNCHANGED stream
    /\ UNCHANGED <<bus, status, announced, faults>>

\* A control frame carries no number: Math.max(lastSeq, undefined) is NaN from then on.
ReceiveControl ==
    /\ wire # <<>> /\ Head(wire).kind \in {"gap", "timeout"}
    /\ client' = [client EXCEPT !.lastSeq = NaN,
                                !.gapTold = client.gapTold \/ Head(wire).kind = "gap"]
    /\ wire' = Tail(wire)
    /\ UNCHANGED <<bus, status, announced, stream, faults>>

\* The connection is lost with everything on it.
Drop ==
    /\ faults < MaxFaults /\ (pc # "none" \/ wire # <<>>)
    /\ wire' = <<>> /\ pc' = "none" /\ cursor' = 0 /\ finished' = FALSE
    /\ faults' = faults + 1
    /\ UNCHANGED <<bus, status, announced, client>>

\* The API process restarts: the bus is memory, and so is what a request had yet to publish.
Restart ==
    /\ faults < MaxFaults
    /\ lru' = <<>> /\ last' = 0 /\ buffer' = <<>>
    /\ wire' = <<>> /\ pc' = "none" /\ cursor' = 0 /\ finished' = FALSE
    /\ announced' = IF announced = "owed" THEN "lost" ELSE announced
    /\ faults' = faults + 1
    /\ UNCHANGED <<published, epoch, status, client>>

Serve == Start \/ Poll \/ (\E due \in BOOLEAN : Check(due)) \/ Leave
Browse == Connect \/ Receive \/ ReceiveControl

Next ==
    \/ Publish \/ EndSession \/ Announce
    \/ \E session \in Others : PublishOther(session)
    \/ Serve \/ Timeout
    \/ Browse \/ Drop \/ Restart

Spec == Init /\ [][Next]_vars

\* The server runs the generator, asks the database again and again, and publishes what it has
\* committed; the browser reads what it is sent and reconnects.
FairSpec ==
    /\ Spec
    /\ WF_vars(Serve) /\ SF_vars(Check(TRUE)) /\ WF_vars(Browse) /\ WF_vars(Announce)

---------------------------------------------------------------------------
\* Properties

\* Whether events of one channel are missing between a received event and the one before it.
Skipped(n) ==
    LET a == client.got[n - 1].event
        b == client.got[n].event
    IN  n > 1 /\ a.epoch = b.epoch /\ b.seq > a.seq + 1

\* However often the connection drops, times out or is resumed, the client receives events
\* in the order they were published and none twice; and, as long as a channel lives, it
\* misses only what the bounded buffer could not hold: what follows a loss was the oldest
\* event of a full buffer (routes/events.py, "`Last-Event-ID` makes that lossless").
InOrder ==
    LET got == client.got IN
    /\ \A n \in DOMAIN got : n > 1 => got[n - 1].event.id < got[n].event.id
    /\ \A n \in DOMAIN got :
           Skipped(n) /\ got[n].event.epoch = epoch /\ last # 0
               => last >= got[n].event.seq + BufferSize - 1

\* A client that has had no control frame shows a loss exactly where events of one channel
\* are missing (session-reducer.ts, "A gap is visible").
LossIsShown ==
    \A n \in DOMAIN client.got :
        /\ Skipped(n) /\ ~client.got[n].blind => client.got[n].told
        /\ client.got[n].told =>
               n > 1 /\ client.got[n].event.id > client.got[n - 1].event.id + 1

\* The terminal state, once published, reaches the client and closes its stream, unless the
\* bus loses it first or has started to number anew below what the client has seen
\* (session_events: the database is re-read "as a backstop").
Reachable == \E event \in Range(buffer) : event.kind = "terminal" /\ event.seq > client.lastId
EndIsSeen == announced = "yes" ~> ~client.open \/ ~Reachable

\* A stream does not outlive its session: the client may never learn of the end, for the bus
\* can lose it, but the server lets go of the connection (session_events: "each hung stream
\* pins a pooled connection").
StreamEnds == status = "ended" ~> pc = "none"

\* "`seq` is checked client-side too ... the reducer flags it itself" (docs/WEB.md): a loss
\* within the life of a channel is shown, whatever frames came before.
LossAlwaysShown == \A n \in DOMAIN client.got : Skipped(n) => client.got[n].told
=============================================================================
