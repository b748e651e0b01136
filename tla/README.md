# interview_helper in TLA+

A TLA+ development kept beside the source of interview_helper: modules translated from the
code, TLC runs over small instances of them, and TLAPS proofs of properties they check for
every value of the constants. `PROJECT.json` maps each definition to the
lines it models and lists the runs, mutants, findings, hazards and theorems by name.

1. [The system](#the-system)
2. [The modules and how they correspond to the code](#the-modules)
3. [The runs, their bounds and what they show](#the-runs)
4. [Fairness](#fairness)
5. [The proofs](#the-proofs)
6. [Findings](#findings)
7. [What is not modelled](#what-is-not-modelled)
8. [The plan](#the-plan)

## The system

One candidate, one PostgreSQL database, one API process (FastAPI, synchronous handlers in a
thread pool), one executor process that runs submitted code in containers, a model provider,
and a web client. Everything of record is in the database. All concurrency that matters is
between requests, background graders and command-line jobs, each with a database session of
its own at READ COMMITTED: a handler reads rows, decides, and writes in a later statement or
transaction, and whatever another handler commits in between is the difficulty of this code.

| Component | State | Operations | Hard behaviour | Correct when | Module |
|---|---|---|---|---|---|
| Session lifecycle and grading (`sessions.py`) | `sessions.status`, `ended_at`, plan; `artifacts`, `gradings`, evidence | take a turn, submit, grade in the background, complete, end | status written from a row read earlier; several graders each deciding whether they are the last; an exception after a commit | an item is judged once; completion covers every item, is noticed and is final | `Sessions`, `ItemVerdicts` |
| Interviewer turn loop (`agent/loop.py`, `agent/tools.py`) | `turns` rows with a per-session number; a context rebuilt per turn | ask the model, reveal a hint, check an answer, record an observation, run code, end the round | two turns counting from one number; effects committed before the row that counts them | transcript dense and not interleaved; hints in order; rations hold over all turns | `Transcript` |
| Idempotency keys (`idempotency.py`) | `idempotency_keys` rows | reserve, replay, refuse, store, release, expire | concurrent retries, a crash between the effect and the stored response, clean-up that fails | one handler and one effect per key; faithful replay | `Idempotency` |
| Budget ledger (`llm.py`) | `llm_calls` rows: reserved, settled, failed | reserve under an advisory lock, settle, lapse | overlapping calls, claims of dead processes, midnight between check and insert | each ceiling overshot by one call at most; no claim lasts for ever | `Ledger` |
| Mastery projection (`mastery.py`, and its writers in `sessions.py`, `agent/loop.py`, `practice.py`, `seed.py`) | `concept_evidence` (append-only), `mastery`, `items.elo`, `items.difficulty_elo` | append and fold evidence, rebuild, re-rate items | several writers of one rating; replay order against live order; a seeding beside a rebuild | live ratings are the replay of the evidence; an attempt moves its item once | `Mastery` |
| Practice log (`practice.py`, `leetcode.py`, `neetcode.py`) | `practice_problems`, `practice_solves` | log, import, confirm a classification, review, edit, list | checks on unlocked rows, counts from a stale row, an import that looks once and commits many times | the row is the schedule its solves make; a solve's evidence is written once; graduation is earned; one problem is one row | `Practice`, `Classification` |
| Event bus and SSE (`events.py`, `routes/events.py`), stream hook and reducer (`use-session-stream.ts`, `session-reducer.ts`) | channels in memory with a bounded buffer; the client's last number | publish, stream, check the database, time out, drop, resume | eviction restarts the numbering; overflow; the end of the stream against the last event | events arrive in order and once, a loss is shown, a stream ends with its session | `EventStream` |
| Job tracker (`jobs.py`, `routes/jobs.py`) | `job_applications` and their append-only events | create, import with research, advance, recompute, classify, delete | projection written from rows read at different times; minutes of research between a read and its insert | the board is the replay of the history; a name is there once | `Jobs`, `JobRows` |
| Corpus gate (`packages/corpus`, `validate.py`) | none; a walk over the concepts | check the graph, check the items | an explicit stack; rules the graders silently rely on | cycles are found; an item that passes is one its grader can grade | `Corpus`, `ItemRules` |
| Planner (`planner.py`, `priority.py`) | none; the plan of a new session | rank, substitute a prerequisite, shortlist, reserve a review, fill | the review and the fill are chosen apart | within the minutes, no item twice, nothing passed over that fits | `Planner` |
| Graders (`grading/`) | none | score code, derivations and prose | an unavailable executor is not a zero; where an answer ends | a score in range or a failure without evidence | `Graders` |
| Executor (`apps/executor`, `executor_client.py`) | one container per run | run tests, sweep sizes, judge growth; launch, wait, kill, remove | a sweep that is cut short; the client's timeout against the executor's own clean-up | what is slow is called slow; a run has one outcome | `Probe` for the sweep |
| Authentication (`auth.py`, `users.py`) | signed cookies, the user row | log in, verify, adopt the first user | first login | one user row | not planned |
| Model router, pricing, cost reports, settings, the rest of the web client | tables, none | look up, report, draw | none | - | not planned |

How they interact: a turn (`take_turn`) runs the turn loop, which claims budget for each
model call and may append evidence; a submission is wrapped in `run_once`, stores an artifact
and leaves a background grader behind, whose transaction takes the projection lock and folds
the evidence in; both then look whether the session is complete. Practice solves append
evidence under the same lock. All of them publish events after they commit. The gate
runs before the service starts, the planner reads what it let through, and the graders rely on
its promises without checking them again; the three never call one another (`Serving`). A practice
review holds its problem's row and a seeding its items' rows before, or without, the
projection lock; whoever holds that lock may wait for a seeding, which waits for nobody, and
never for a practice problem. The budget lock is taken in a database session of its own that
holds nothing else. So the locks have no cycle to wait in.

## The modules

A step of a model is what happens between two points at which another request's commit can
take effect: one commit, or one read that a later write relies on. A process, thread or
request that stops is one that is never scheduled again; where what it leaves behind differs
from that (a rolled-back transaction, a dropped lock) there is an action for it.

**`Sessions`** - one session and the requests over it. `status`, `endedAt`, `artifacts`,
`ended`, `gradings` and `evidence` are the rows; `pc`, `seen` and `target` are what each
request holds between statements (`seen` is the status on its loaded row). `Turn*` is
`take_turn`, with `TurnEndRound` for the commit of the model's `end_round`; `Submit*` is
`record_submission`, after which the same request goes on as the grader `grade_artifact`
(`RecordGrade`, `RecordFailure`, `GraderRaises`, `RecordCrash`); `CompleteLoad`,
`CompleteDecide` and `CompleteWrite` are `_maybe_complete`; `EndOpen` and `EndWrite` are
`end_session`. The conditional writes are conditional on the row, the others are not, exactly
as in the code. `GradersRaise` says whether something raises inside `grade_artifact`.

**`ItemVerdicts`** - the abstract specification: per item, submitted once, judged once,
evidence together with the passing judgement. `Sessions` implements it under
`verdict <- Outcome`, `proven <- items with evidence`. `Overrule` is a concession to the code
(see Findings): it is enabled only where `GradersRaise` is.

**`Transcript`** - `run_turn` over one item, split at its commits. `Write` is `_write` with the
unique constraint on (session, seq); `LoadContext` rebuilds the ration counters from the rows
(three queries in the code, one step here: a turn that another turn's row could separate them
from has lost its number and dies at its next write). `RecordObservation` commits the evidence
and `FileObservation` the row. `UseOther` is `run_code`, `end_round` and every refusal.

**`Idempotency`** - `run_once` around the two handlers that use it. `Arrive`, `Expire`,
`Reserve`, `Lookup` are its steps, `HandlerCheck` and `HandlerInsert` the handler's,
`Release` and `Store` the ends. A body in `Guarded` is a submission, whose artifact the unique
constraint guards; another body is `POST /sessions`, which always inserts. A key stands for
(user, endpoint, header), a body for what the fingerprint is taken of. The session of a
submission's path is in neither (`Reservation`): the endpoint is the route's template and the
body is `SubmissionRequest`. So a key and body that are sent to another session are replayed there
(see Findings); it is the artifact that knows its session (`Taken`). `Restart` ends all
requests, `Age` is the lapse of the TTL.

**`Ledger`** - `reserve`, `complete` and `stream`, budget side only. One unit stands for
tokens and for dollars, which are checked alike. `Check` holds the advisory lock until `Claim`
commits; the day may change between them. `Settle` writes the price, `Age` is
`RESERVATION_TTL`, `Die` a process that stops. `MaxCost` may exceed `MaxClaim`: searches and
cache writes are billed at settlement and are not in the claim.

**`Mastery`** - the projection. A rating is not a number but what it was computed from: the
rows folded in, each with the rows before it and the item rating it was scored against; an
item's rating is its prior and the rows that moved it. Floating-point Elo and FSRS updates are
functions of exactly that, so equal histories are equal numbers, and a lost or reordered
update shows. `Lock`, `Stamp`, `Fold`, `Commit` are a writer's transaction; `Lock`, `ReadPriors`,
`ReadLog`, `Fold`, `Commit` are `recompute`. A seeding is `OpenSeed` and `Seed`, whose commit
comes before, and outside, the rebuild's transaction, then `CountItems`, then `recompute` without
`ReadPriors`: `main` has loaded the item rows to count them before it waits for the lock, and a
row that is in memory is not refreshed. The ORM writes what has changed: an item whose loaded
rating is its loaded prior is `AtPrior` already and is not written (`dirty`). `behind` are the
seedings whose item rows had changed when they got the lock. Drafts are the transaction's own
writes, which it reads back; `Die` rolls them back. A session is identified with the transaction that grades it:
`JudgedOnce` in `Sessions` gives one grading per item and session. The wall clock that stamps
evidence is monotone in the model; a clock set back would reorder a replay.

**`Practice`** - the log and the clients that work on it. `log` is `practice_problems`, each row
with its `practice_solves`; a solve keeps the evidence (`marks`) written for it and by whom.
Each request is split between what it reads and the commit that relies on it: `OpenResolve` and
`WriteResolve` are `resolve_classification`, `OpenReview`, `CountSolves` and `WriteReview` are
`record_review` (the count is a second query, after the row), `OpenEdit` and `WriteEdit` are
`update_problem`, and `OpenImport`, `SkipLink`, `ImportLink`, `EndImport` are
`import_from_leetcode`, which looks once and then commits problem by problem. `LogProblem` is
`log_problem` with the one commit that matters. `Update` is what an ORM session writes back:
only the columns that the request changed. The number of a solve is unique per problem, so a
second review under one number is refused (`Fail`). Intervals are in 64ths of a day; dates are
the number of the solve they are counted from. `Page` is the listing with its cursor.

**`Classification`** - the identity of a link on either site (`NeetCodeSlug`, `LeetCodeSlug`,
`SameProblemKey`, `Resolved`), what is kept of a model's proposal, and the concept LeetCode's
tags name, as operators used by `Practice`.

**`EventStream`** - bus, server side and browser of one watched session; other sessions only
compete for channels. `lru`, `last` and `buffer` are `EventBus`; `Publish*` is `publish` with
eviction (`Touched`) and the bounded deque (`Newest`). `Connect`, `Start`, `Poll`, `Check`,
`Leave`, `Timeout` are `session_events` and its generator; `Receive` and `ReceiveControl` are
the reducer with its loss detection, in which `NaN` is the number a frame without `seq` leaves
behind; `Drop` is a broken connection, `Restart` a restarted process. An ending is committed
(`EndSession`) before it is published (`Announce`). `epoch` and `id` are history: the life of a
channel an event belongs to, and its place among all that were published.

**`JobRows`** and **`Jobs`** - the tracker. `JobRows` is what is computed without the database:
`Project` (the projection), `Listed` and `Cleaned` (a model's rows), `Candidates` and
`Researched` (the research pass). In `Jobs`, `board` is `job_applications`, `history` the events;
each request is split at its reads: `OpenAdvance`, `ReadHistory`, `AppendEvent` are `advance`;
`OpenRebuild`, `ReadAll`, `Rewrite` are `recompute_all`; `OpenImport`, `Research`, `WriteImport`
are `ingest`. `Update` is the ORM's write, as in `Practice`. The unique index on (user, company,
role), the unique (application, sequence) and the rows that vanish under a request are modelled
with the errors they raise (`Fail`). An application has two names here: `Key` is how an import
compares (lower case, stripped), `Index` how the database does (lower case only).

**`Corpus`** and **`ItemRules`** - `validate.py`. The walk of `check_concept_graph` is a state
machine with its stack, path and colours (`Root`, `Enter`, `Skip`, `Report`, `Leave`);
`ItemRules` is `check_items` with the rules for originality, criteria, complexity and answers
as operators over an item's shape, and the part of `item.schema.json` those rules take for
granted (`Criteria`, `Shaped`).

**`Planner`**, **`Probe`**, **`Graders`** - operators. `Planner` is `rank_concepts` and
`build_plan` with the weights in hundredths; `Probe` is the driver that is sent into the sandbox
and `judge`, with times in ten-thousandths of a second and growth as a power in hundredths of
what doubling does; `Graders` is `grade_coding`, `grade_quant` and `grade_rubric` over what a
run, a line or a model's verdict can be (`Runs`, `AnswerLines`, `ModelVerdicts`; the types of
`RunResult` and `response_schema`). Either call to the executor may go unanswered (unreachable, an
error status, an unreadable body: `Unanswered`), and so may the call to the model (no budget, a
provider error, a reply without criteria: `NoReply`). The grader then raises, and `_grade` files
a failure without evidence. Parsing algebra is a table: each expression is the
value it parses to. `Standings` is what `rank_concepts` reads of a learner at a concept.

**`Serving`** - `Corpus`, `Planner` and `Graders` composed (`ServingInit`, `Serve`, `ServingSpec`):
`Validate`, then `Plan` for a learner and one of the `Wishes` a request may state, then
`Submit`. Each relies on what the part before has promised, and nothing checks that promise a
second time.

**`Lists`** - what a comprehension keeps of a list, the places in order (`Ascending`) and their
elements (`Picked`), what `sorted` makes of a set under a strict order (`Sorted`) and the `Sum` of
a list, without recursive operators, so that the modules that use it can be proved about.

The `MC` modules declare the model values and the inputs of each instance. `SessionsProofs`,
`TranscriptProofs`, `IdempotencyProofs`, `LedgerProofs`, `MasteryProofs`, `PracticeProofs`,
`EventStreamProofs` and `JobsProofs` hold the theorems; `SessionsProofs` has two parts, how a
session runs (`Sessions`) and what it serves (`Serving`).

The operators marked *Seeded fault* in the modules are plausible bugs. None of them is
reachable from a specification; each mutant in `PROJECT.json` puts one in the place of the
definition beside it and a run must then fail.

## The runs

Each finishes within two minutes with two workers. In `Sessions`, `Transcript`, `Idempotency`,
`Ledger` and `Mastery` every request runs once, and in `EventStream` a stream may end for good,
so a behaviour may stop: deadlock checking is off for that reason alone, and the liveness
properties, where there are any, say what must have happened by then. `Practice`, `Jobs` and `Serving` never stop.

| Run | Instance | Properties | States |
|---|---|---|---|
| `sessions` | 2 items, 2 turns, 1 submission, 1 end, graders raise | `CompleteAccounted`, `ImplementsVerdicts`, `WrappingResolves` | 338 thousand |
| `sessions_no_turns` | 2 items, 3 submissions, 1 end, graders raise | `JudgedOnce`, `EndedIsTerminal`, `AllJudgedCompletes`, `ImplementsFairVerdicts` | 338 thousand |
| `transcript` | 2 turns, 2 hints, one answer check, one observation, 2 rounds, 2 calls, 2 uses per response | `SeqsDense`, `TurnsDoNotInterleave`, `HintsInOrder`, `RationsHold`, `TurnEnds` | 255 thousand |
| `idempotency` | 3 requests, 1 key or none, 2 submissions of one item, 2 sessions, 1 plan | `OneHandler`, `ReplayFaithful`, `AtMostOnce`, `ReservationsResolve` | 777 thousand |
| `ledger` | 3 calls, 1 session or none, 3 days in 2 months; limits 1, 2, 3; claims of 1, costs up to 2 | `CeilingsHold`, `ClaimsEnd` | 1.29 million |
| `mastery` | 2 writers of any of 4 shapes, 1 rebuild, 2 seedings, 2 concepts, 1 item, priors 0, 1 and 2 | `LiveIsReplay`, `AttemptMovesOnce`, `SeedRebases` | 979 thousand |
| `practice` | 2 clients, one problem under 3 spellings, 2 concepts, graduation at 3 solves, 5 rows of problems and solves | `ScheduleIsReplay`, `GraduationEarned`, `EvidenceOnce`, `ImportAddsOnce`, `ListingComplete` | 1.15 million |
| `events` | 2 channels for 3 sessions, buffer of 2, 4 events, 2 faults (drop, restart) | `InOrder`, `LossIsShown`, `EndIsSeen`, `StreamEnds` | 256 thousand |
| `jobs` | 2 clients of which 1 recomputes, 2 applications, 3 events each, an import of 4 rows | `BoardFollows`, `BoardHasBeen`, `HistorySound`, `OnePerName` | 1.28 million |
| `serving` | 1001 graphs over 3 concepts, 14 libraries, 27 learners, prose of up to 3 lines, answered or not | `CyclesFound`, `PlanSound`, `GradesSound`, `AnswerIsConclusion`, `SlowIsCaught` | 124 thousand |

Why these are enough to mean something:

- *sessions*: two items are the least for "the last one" to differ from "this one"; two turns
  let one overtake the other between any two commits; a raising grader may fail before or
  after its grade. `CompleteAccounted` is the strongest form of "no item is forgotten" that is
  true with turns: an item may stay ungraded only if the interviewer ended it.
  `WrappingResolves` says that the status leaves `wrapping`, not that it becomes `complete`: a
  stale turn may reopen a wrapping session (the finding `sessions_reopened`).
- *sessions_no_turns*: three submissions race for two items, so one item is submitted twice,
  and the last two graders may decide at the same time. Without turns every session property
  holds in its full form, among them `EndedIsTerminal`, which turns break.
- *transcript*: two turns, each with two rounds and two tools, meet at every pair of rows;
  one check and one observation per item make the second one of either the one to refuse.
- *idempotency*: three requests are an original and two retries, or one of them comes without a
  key, or with another version of the submission, or for another session; the process may
  restart and the row expire between any two steps. One key is enough: a request touches only the
  rows of its own key, and meets requests under another key in the handler alone, where they
  are as good as without one.
- *ledger*: the limits 1, 2, 3 make the session, the day and the month in turn the ceiling that
  refuses; the third day is in the next month; a cost of 2 is more than was claimed.
  `CeilingsHold` is stated over what was claimed: beyond it, a call's own excess, and that of a
  call that outlived its reservation, is what no check could have known.
- *mastery*: the shapes are a grading of two concepts, a grading whose primary concept is named
  twice, an observation and a practice solve, so two writers meet on a concept, on an item,
  on both or on neither; two seedings with three priors let a prior change, change back or
  go on to a third between any two steps of a rebuild. Writers are interchangeable and so are
  seedings, and the properties of this run are invariants: the instance is checked up to symmetry.
- *practice*: two problems with one solve each, or one problem with four, fit in five rows; four
  solves are one more than graduation takes, so a review can meet a problem that has just
  graduated. The three spellings (a LeetCode link, NeetCode's own name, a bare word) name one
  problem, so an import that compares anything less than the problem adds it again.
- *events*: the fourth event overflows a buffer of two while a client is two behind; the third
  session evicts the watched one; two faults let a resumption be followed by a restart.
- *jobs*: a name, its spelling with a space and a second name collide in every way two rows can;
  three events are the first, one by each client, in either order, with a rebuild between.
- *serving*: three concepts are the least with a cycle through a third; the libraries hold an item
  per rule that the gate could forget; the learners differ in who is weak, due or new. Items are
  read after the walk; a duplicate concept id and topics are left out, and the libraries hold
  only what the JSON schema has passed. A submission grows at most as the cube of its input:
  `SlowIsCaught` is stated up to there, because the driver expects no worse of the next size
  (`complexity.py:106`, `:112`), and beyond it a size can outlast the sandbox, which leaves nothing
  to judge.

The two violation runs are under Findings.

## Fairness

`Spec` is always free of fairness and is what safety is checked and proved of. `FairSpec` adds:

- `Sessions`, `Transcript`: weak fairness for each request once it is begun. The server runs a
  handler to its end, model calls have a timeout, a grader is a background task of the
  process. Opening a request, calling `end_round` and raising an exception are choices and are
  not fair. A process that stops is excluded by `FairSpec` and allowed by `Spec`.
- `Idempotency`: weak fairness for a request that has arrived. `Restart` stays possible at every
  moment and makes its requests `gone`, and `ReservationsResolve` exempts a key with a request
  that is gone: that reservation waits for its expiry, which nobody guarantees.
- `Ledger`: time only. A reservation grows old whether or not its process lives.
- `EventStream`: weak fairness for the server's generator, for the browser, which reconnects by
  itself, and for the publication that follows a commit; strong fairness for the database check
  that finds the session ended, which is one alternative of a loop (poll, check, leave) that comes
  back to it again and again without staying at it. Publishing, ending a session, drops and
  restarts are not fair; timeouts, drops and restarts are bounded.
- `Mastery`, `Practice`, `Jobs`, `Serving`: none, for no liveness is claimed: each request either
  commits or is refused by itself, and what it waits for, if anything, is the projection lock,
  which a transaction gives up when it ends.

## The proofs

`tlapm` proves, for every value of the constants that satisfies the modules' assumptions
(disjoint names, limits that are naturals, the shapes of inputs; each is an `ASSUME` that TLC
evaluates on the runs):

| Theorem | States |
|---|---|
| `SessionsProofs!TypeCorrect` | `Spec => []TypeOK` |
| `SessionsProofs!CompletionIsAccounted` | `Spec => []CompleteAccounted` |
| `SessionsProofs!JudgedAtMostOnce` | `Spec => []JudgedOnce` |
| `SessionsProofs!RefinesVerdicts` | `Spec => ImplementsVerdicts` |
| `SessionsProofs!EndedWithoutTurns` | `Turns = {}` implies `Spec => []EndedIsTerminal` |
| `SessionsProofs!CyclesAreFound` | `ServingSpec => []CyclesFound` |
| `SessionsProofs!PlansAreSound` | `ServingSpec => []PlanSound` |
| `SessionsProofs!AnswersAreConclusions` | `ServingSpec => []AnswerIsConclusion` |
| `SessionsProofs!SlowIsAlwaysCaught` | `ServingSpec => []SlowIsCaught` |
| `SessionsProofs!GradesAreSound` | `ServingSpec => []GradesSound` |
| `TranscriptProofs!TranscriptTypes`, `DenselyNumbered`, `TurnsStandTogether`, `LadderInOrder`, `RationsKept` | `TypeOK`, `SeqsDense`, `TurnsDoNotInterleave`, `HintsInOrder`, `RationsHold` |
| `IdempotencyProofs!IdempotencyTypes`, `OneInHandler`, `ReplaysAreFaithful`, `KeyedAtMostOnce` | `TypeOK`, `OneHandler`, `ReplayFaithful`, `AtMostOnce` |
| `LedgerProofs!LedgerTypes`, `CeilingsAreHeld` | `TypeOK`, `CeilingsHold` |
| `MasteryProofs!MasteryTypes`, `LiveEqualsReplay`, `AttemptsMoveOnce`, `SeedsRebase` | `TypeOK`, `LiveIsReplay`, `AttemptMovesOnce`, `SeedRebases` |
| `PracticeProofs!GraduationIsEarned`, `EvidenceIsOnce`, `ImportsAddOnce`, `ListingIsComplete`, `SchedulesAreReplays` | `GraduationEarned`, `EvidenceOnce`, `ImportAddsOnce`, `ListingComplete`, `ScheduleIsReplay` |
| `EventStreamProofs!TypeCorrect`, `DeliveredInOrder`, `LossesShown` | `TypeOK`, `InOrder`, `LossIsShown` |
| `JobsProofs!TypeCorrect`, `HistoriesSound`, `NamesOnce`, `BoardSeen`, `BoardProjects` | `TypeOK`, `HistorySound`, `OnePerName`, `BoardHasBeen`, `BoardFollows` |

Few of the properties are inductive by themselves. The arguments:

- *Completion.* What a request has decided stays true until it writes: an item once finished
  (submitted or ended) stays so, and an item once judged stays judged. The invariant ties each
  label of the completing requests to what they have seen, so that the unconditional write of
  `complete` only happens over accounted items. The evidence invariant ties a grader's label to
  the artifact it alone inserted (the unique constraint) and to whether it has graded.
- *Refinement.* Initial states map to `VerdictInit`; every action is an `ItemVerdicts` action on
  the item of its request or leaves `verdict` and `proven` as they are.
- *Corpus.* The invariant of the walk (`WalkInv`) says where on the stack each concept of the path
  will be left (`Marked`), that what waits above such a mark is a prerequisite of its concept
  (`Above`) and that none has been forgotten (`Kept`), that the path is a way through the graph
  and holds exactly what is grey (`OnPath`), and that what has been left leads only to what has
  been left and lies on no cycle (`Left`). A concept that is met again on the path closes a
  cycle (`CyclesReal`); if every concept has been left and no cycle was reported, `Left` says there
  is none. `Kept` and `Left` are claimed only while nothing is reported: a prerequisite that is
  reported is taken off the stack still grey. What is proved is that one cycle is reported if
  there is any, not that all are.
- *Serving.* One invariant for the four others (`Served`): nothing is planned before the gate lets
  the corpus through, the plan that stands is what `BuildPlan` makes of it, its items have
  passed the rules (`Usable`), and a grade is the grade of one of them. Each property is then one
  of the operators, for every input:
  - *Plans.* `Sorted` is injective and a permutation of its set for a strict total order, which
    priority, distance and id are because the gate keeps ids apart. The first fit keeps
    `FilledTo`: what it passed over was reviewed anyway or did not fit in what the reserve left.
    Adding the review afterwards (`Filled`) needs the case in which it no longer fits.
  - *Answers.* A derivation cut before its last line with arithmetic ends in the same statement
    (`ClosingIs`, `ClosingSame`), declared or concluded.
  - *Probes.* While a sweep goes on, it has measured what the submission takes at each size so far
    and kept its budget (`Swept`); up to cubic growth the size it starts next is one it
    expected to afford, so it never outlasts the sandbox. So it ends complete, and is judged by
    its slope, or cut short, and is slower by that alone. `ProbeAssumption` states what is
    used of the time-outs: the budget and one more size of slow runs fit within the wall.
  - *Grades.* The weights of criteria are a whole, so a sum of judged shares is at most the whole
    (`SumBounded`); a hint keeps a share of what is left; the softness of failures is between
    5 and 100 in a hundred, which bounds a mean of them; an entry point, a language, a probe's
    band and at least three sizes are there because the gate asked for them (`Usable`).
- *Transcript.* Numbers in use are an initial segment, and a live turn's counter is either
  above all rows, following a row of its own, or is a number that is taken already, in which
  case its next write ends it. That is why the unique constraint alone keeps two turns apart,
  and why a context computed from the rows stays right as long as its turn lives (`Owned`,
  `Counted`).
- *Idempotency.* At most one row per key, which says what fingerprint it was reserved for; a request in the handler holds its key's row,
  unanswered; a stored response and an effect of a key that has not expired have a row behind
  them (`UniqueRows`, `Held`, `Remembered`, `Backed`).
- *Ledger.* What a row counts for within its claim never grows: settling, lapsing and midnight
  only lower it, and a claim starts at nothing (`Placed`). Nobody writes a row while the lock is
  held but its holder, so the room a check has found is still there when it claims (`Room`), and
  the row it claims is the one the ceiling may be overshot by. Midnight and a new month take rows
  out of a scope and put none in. A sum is the number of its units (`Units`), which turns
  inequalities of sums into inclusions of finite sets; that the library's fold computes it is a
  least-counterexample argument on the size of the set (`TotalIsUnits`).
- *Mastery.* The lock admits one open transaction (`Locked`); stamps are in the past and belong
  to one row, so a new transaction's rows come after all committed ones (`Stamped`); an open
  draft is the replay of the rows applied so far (`Drafted`). `LaterRows` (a row is replayed
  alike with or without later rows in the log) carries the invariant over `Stamp`, `ApplyOne`
  over `Fold`. The item rows a
  seeding has loaded are the table's unless it is in `behind`, and a rebuild that is behind
  spoils the concepts until the next one that is not (`latest`, `Carried`). Which rows have moved an item
  is right even then, because an item that it leaves unwritten is one that no evidence moves. For
  the seedings, `Owed`: either the ratings and the rebuilds under way stand on the present priors,
  but for seedings that are behind and a last rebuild that was (`Based`), or some seeding still
  owes a rebuild that is behind or has read, or will read, the present ones (`Pending`).
- *Practice.* Each row is sound by itself (`Sound`), and a row that was read relates to what it
  has become since (`Became`: the solves it had are still there with their outcomes, and it never
  goes back to pending). That suffices although nothing is locked: a count that a review raises
  from a stale row is still one below the successes of the row it writes to, and a write that
  names only changed columns cannot take back another's status. A client that is confirming has
  no mark of its own yet, so a second mark is another client's. For imports, `ImportInv`: what an
  import has seen covers every problem its client has logged, and `StoredKey`, the URL that is
  stored has the key of the problem that was fetched. The schedule of a row that one client alone
  has written is the replay of its solves (`Follows`): what that client has loaded is what is
  there (`Current`), so the columns it writes carry the schedule one solve onward; any other
  write adds a second writer to the solves or leaves solves and schedule alone (`Untouched`). The
  fold over the solves is unfolded as a recursion over the places it has passed (`Spaces`,
  `DaysOnward`). A page is the rows next below its cursor, and the next page begins
  where it ends (`Turn`, `OnePageMore`); a walk over all the pages exists (`WalkExists`), and the
  least cursor from which one could skip or repeat a row is refuted (`WalkComplete`), for any
  page size (`PagesComplete`).
- *Events.* An event's number in its channel is its id less a distance that is fixed for the life
  of the channel (`Channel`, `Numbered`). What the client has received, followed by what is on the
  wire, is one list in which each event follows the one before (`Sent`, `NextSent`): in the same
  life, the next number or a later one if the buffer has dropped what lies between. The server's
  cursor is never behind the end of that list and ahead of it only by what the buffer dropped
  (`Cursor`), and the client's number is one it was sent (`Remembered`), so a resumption starts
  where the last stream broke off. `GapIsReal` is why a gap that is shown is a gap.
- *Jobs.* A row and its history are `Healthy` together (the first event is the application, none
  repeats, the row shows stages the history holds), and histories only grow while a request works
  on them (`Evolves`). A request's own history is `Current`: if nobody else has moved the
  application, what the request has read is what is there, so its projection is the history's.
  The two unique constraints are the whole of `OneIndex` and of a dense history; an import
  compares by `Key`, and a row it inserts is stripped, which makes its index its key. The funnel's
  suffix sums count a set each (`Reached` at rung k is the number of applications at k or above).

Only model-checked: every liveness property (`WrappingResolves`, `AllJudgedCompletes`,
`ImplementsFairVerdicts`, `TurnEnds`, `ReservationsResolve`, `ClaimsEnd`,
`EndIsSeen`, `StreamEnds`), since liveness under fairness and ENABLED are beyond the prover. Every
safety property of the passing runs is a theorem. The type invariants of the proved modules are
theorems and no run lists them, except `Practice!TypeOK`: TLC finds it kept on the instance of `practice`,
and the proofs rest on the weaker `Typed`, which leaves out the bound `MaxRows`.

Induction over data is out of the prover's reach as a rule of the library; the proofs that need
one over a number take the least counterexample (`Counted`), or give a recursive function explicitly
and show that it satisfies its equations (`Recursion`, from which sums, hints, sweeps, shortlists
and fills get their values).

## Findings

Two runs are expected to find a violation: a document, comment or docstring says one thing and
the code does another.

- `sessions_reopened` (`EndedIsTerminal`): a first turn that loaded the row before `/end`
  committed sets the abandoned session back to `interviewing`, with `ended_at` set.
  `end_session`'s docstring calls that state impossible; the submission's write was made
  conditional, the turn's was not. The wrapping write has the same form.
- `events_blind` (`LossAlwaysShown`): `stream.gap` and `stream.timeout` are sent without a `seq`
  (`routes/events.py:97`, `:149`). The reducer takes the maximum of its last number and the
  frame's (`session-reducer.ts:133`), which is `NaN` from then on, and every later comparison
  that looks for a loss is false. docs/WEB.md:323 says the reducer flags such a loss itself; the
  reducer's tests give both frames a `seq` that the server never sends.

Formulas that the code does not keep, stated in the modules under *Not kept* and left without a
run of their own:

- `Sessions!AbandonedStays`: `_maybe_complete` writes `complete` unconditionally (`sessions.py:618`)
  over an `abandoned` committed after it looked, and rewrites `ended_at`; docs/API.md:488 says
  that nothing follows `abandoned`.
- `Sessions!FailedHasNoEvidence`: an exception after the grade's commit files a newer, failed
  grading (`sessions.py:415`); the item is reported as failed and its evidence stands.
- `Sessions!NothingLeftGrading`: an artifact inserted from a stale row into a session that the
  interviewer's turn has just completed. Its `grading.result` then follows the terminal state.
- `Transcript!ObservationsRationed`: an observation's evidence is committed before the row the
  ration is counted from; a turn that dies between the two leaves evidence that is never counted.
- `Idempotency!FailedReleases`: the clean-up runs on a database session that needs a rollback after
  the handler's `IntegrityError`, raises itself, and leaves the key reserved.
- `Idempotency!ReplayOfOwnSession`: a submission is looked up by user, the literal
  `"POST /sessions/{id}/submissions"`, key and a fingerprint of `SubmissionRequest`, none of which
  names the session (`routes/sessions.py:198-205`, `schemas.py:42-55`). The same key and body for
  another session is answered with the first session's artifact, and nothing is submitted to the
  second. The module's docstring says that answering a different question would be silently wrong
  (`idempotency.py:24-25`).
- `Mastery!SeedsAlwaysRebase`: `seed.main` loads all items to count them (`seed.py:130`), then waits
  for the lock, and `recompute` goes on with those rows (`mastery.py:289`). If another seeding
  commits and rebuilds meanwhile, the first puts the ratings back on the priors it had loaded; if
  its loaded ratings happen to be on them already, it writes none and computes mastery against
  ratings the table does not have. It then prints that the live table and a replay agree
  (`seed.py:141-142`; docs/ADAPTIVE.md:289 says the same). `LiveIsReplay` and `SeedRebases` are what
  does hold: the exception lasts from such a rebuild to the next one that is not behind.
- `Practice!SoleProjection` and `GraduatedNotDue`: two confirmations that overlap write the first
  solve's evidence twice and reset the schedule; a review that loaded the row before another
  graduated the problem puts a due date on it (docs/PRACTICE_LOG.md:150: null once graduated).
- `Jobs!BoardIsHistory`: with one advance between `recompute_all`'s two reads and another after
  them, or between an advance's two, the board is left on an older stage than the history.
  `Jobs!OnePerKey`: a row created by hand is not stripped, so " k1 " and "k1" are two applications;
  creating " k1 " twice ends in an `IntegrityError` that nothing turns into an answer.
  `Jobs!CategoryFollows`: two classifications that overlap can each change one of the two columns
  `set_classification` says it keeps together.
- `Serving!SlowerStaysSlower`: a first size that runs for over a second is measured once, a faster
  one five times, and all five count towards the probe's budget: a linear submission of 0.47 s is
  cut short and called slower than its target where one of 0.51 s matches it. A first size that
  takes longer than the sandbox's minute is inconclusive.

Met while modelling, and not runs of their own:

- docs/API.md:237 says that rows of idempotency keys "are kept indefinitely";
  `idempotency.py:97` deletes those older than the TTL. The model expires them.
- `seed.py` commits new priors (122) and rebuilds in another transaction (137). One that dies in
  between leaves the ratings on the old priors, and the next seeding sees no change and
  rebuilds nothing. `SeedRebases` excludes seedings that die.
- A non-numeric anchor in a criterion's `levels` passes the gate and makes `rubric.level_max` raise
  (the exception `Worded` in `GradesSound`, beside a blank answer and an `Outage`); an `exact` answer that cannot be parsed passes too.
- docs/ADAPTIVE.md:189 calls the prerequisite gate hard; it looks at the weakest weak prerequisite
  only, and does not look at the prerequisites of what it substitutes (`Substitution`).
- A plan of nothing but a due review longer than the budget is empty, and the 422 that answers it
  says that no item matches.
- After an eviction or a restart the numbering starts again: a stream resumed with a higher
  `Last-Event-ID` misses events until the numbers overtake it, and no gap is reported
  (`InOrder` and `EndIsSeen` are stated for the life of a channel for that reason).
- docs/COST.md bounds the overshoot of a ceiling by the call's `max_tokens` and estimated input;
  web searches and cache writes are priced at settlement on top of that. And a reservation
  lapses after fifteen minutes while the SDK, with its retries, may still be waiting for the
  answer. `CeilingsHold` accounts for both.

## What is not modelled

- *Data*: texts, prompts, prices, scores, the arithmetic of Elo, FSRS and the priority formula.
  Where a property depends on what a number was computed from, it is kept symbolically.
- *READ COMMITTED inside one statement*: a statement is atomic.
- *The provider, Docker and PostgreSQL*: modelled from how the code uses them (an answer, a
  refusal or none; locks, unique constraints and rollback as PostgreSQL documents them).
- *Executor*: the life of a container and its time-outs against the client's, a chain of Docker
  calls whose durations the code does not bound. What the sandbox reports, or that the executor does not
  answer, is an input of `Graders`.
- *Job statistics* apart from the funnel, prompts, and the read-only routes: single reads.
- *Corpus*: the JSON schema but for the shapes the rules rely on, duplicate concept ids, topics and
  the loader.
- *Web client* apart from the stream: it keeps no record and draws what it is sent.
- *Authentication, model router, pricing, cost reports, settings, migrations*: no state whose
  interleavings could go wrong: signed cookies, tables, reads and start-up. The two crossings of
  the user row (`users.py`) happen once in the lifetime of a deployment.

## The plan

1. **`Executor`**: one run with its wall clock, kill, inspection and removal, against the client's
   timeout.
2. **Composition**: `Sessions` with `Mastery`'s writers (a grading's commit is one transaction of
   both), and `Idempotency` around `Sessions`' submissions.
