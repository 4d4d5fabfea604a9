# Poliscope: a verification project

Poliscope takes a research claim, lets a council of model-backed "seats" deliberate it through a fixed
sequence of phases, records everything they do as events of a per-task ledger, projects the admissible
ones into an evidence graph and writes a paper. This directory holds TLA+ models of the parts of the
program whose correctness depends on order, concurrency and failure, the TLC configurations that check
them and proofs for TLAPS. Paths below are relative to the repository (`packages/` and `apps/` are under
`src/`).

Contents: [inventory](#inventory) · [modules](#modules) · [runs](#runs-and-what-they-show) ·
[findings](#findings) · [observations](#observations) · [fairness](#fairness) · [proofs](#proofs) ·
[not modelled](#what-is-not-modelled) · [plan](#plan)

## Inventory

One PostgreSQL database, one API process, one worker process (`docker-compose.yml:111`; the code is
written for several), a browser page. Worker and API never talk to each other directly: they meet in
table rows, PostgreSQL row locks and advisory locks, and in an object store without transactions.

| Part | State | Operations | What makes it hard, and what makes it correct |
|---|---|---|---|
| **Council orchestrator** `packages/epistemo/orchestrator.py`, `state_machine.py`, `contracts.py` | `CouncilCheckpoint` (run phases, snapshots, failed slots, gate flag, guidance), the phase events, the accumulator of the pass | `run`: fast-forward, stop check, researcher gate, budget skip, phase, checkpoint hook, final report | A pass may end anywhere and the next one knows only the checkpoint. The gate must be offered, the answer must reach its reader, nothing paid for twice, completion honest, the task must finish |
| **Worker** `apps/worker/main.py`, `jobs.py` | row status, advisory lease, row lock of the deliberation transaction, retry counter | claim, lease, run, in-place recovery, requeue, watchdog, stale recovery, gate expiry, projection sweep | Locks end at different times; late handlers act on a row that has moved on. One run at a time, no resurrection, no lost work, everything comes to rest |
| **Research service** `packages/research/service.py`, `apps/api/routers/tasks.py` | task row, stop requests | queue, pause, resume, cancel, guidance, re-research | Each call reads, decides and writes without looking again, and puts back a whole checkpoint |
| **Task records** `routers/tasks.py`, `routers/papers.py`, `task_lifecycle.py` | task rows, file references, objects, the trial counter | create, attach, confirm, clone, rerun fresh, delete under a running worker | Files shared by clones, a worker that still writes, the last trial slot |
| **Seats of a phase** `packages/council/rounds/registry.py` `_collect`, `deliberation.py` | attempts, deadlines, errors, audit rows | ask side by side, retry, time out, stop | A paid answer must be recorded although its asker was cancelled; an absence must be explained by the right failure; the phase must end |
| **A model call** `packages/models/openai_compatible.py`, `kernel/http_retry.py` | retries, bill | stream, fall back, repair, downgrade | Loops inside loops; every reply has a price, and an exception loses what was paid |
| **Rounds** `packages/council/rounds/` | carry between rounds, events and slots of a round | seven handlers | Missing and repeated answers: no citation from nowhere, no lost dissent, no two events of one key |
| **Acquisition** `packages/papers/`, `packages/tools/`, `epistemo/budget.py` | sources, findings, budget counters, the round's outcome | turns of the pool, look up, fetch, extract | Half a phase is made permanent by audit commits; what a replay finds already there; exactly N |
| **Memory** `packages/memory/` | collective view, each seat's memory, snapshots, attendance | absorb, recall, remember, organise, restore | A view rebuilt from the ledger must equal the one that grew with it |
| **Event ledger** `packages/evidence/sql_ledger.py` | `scientific_events` | idempotent append under a per-task lock, ordered reads | Sequence numbers are computed by the appender; a number must never become visible below one that already was |
| **Evidence gate** `packages/evidence/gate.py` and the verifiers it calls | none | six audit stages, a tier matrix | Graded downgrades mixed with vetoes: an improvement must never hurt, nothing unsound be admitted |
| **Projector** `packages/evidence/sql_projector.py` | `graph_nodes`, `graph_edges`, `event_audits`, projection checkpoint | `project_pending` under a lock | Two passes race, a pass dies or fails half-way. Each event judged once and in order, no half projection visible, every event judged in the end |
| **Report** `packages/reports/` | catalogue, map, paper events | draft, fall back, file, show an older paper | No item the council produced is dropped; what the brief can see when it is written |
| **Event stream** `apps/api/routers/stream.py` | a cursor; the client's Last-Event-ID | poll, deliver, resume | A reconnect in the middle of a batch: nothing missed, nothing twice |
| **Live trace** `packages/evidence/process_stream.py`, `routers/stream.py`, `useWorkspace.ts` | buffer, batches in flight, table; window, frames, snapshot requests | emit, flush, put back, close; replay, cap, refresh | Overlapping and cancelled flushes; bounded replay; answers that overtake each other |
| **Follow-up** `routers/tasks.py`, `FollowUpView.tsx` | segments, thread, history | ask, stream, continue, cut | Cut streams and length limits; whole or marked |
| **Accounts** `packages/accounts/` | users, tokens, code rows | request, verify, register, reset, delete | Replaced, expired and guessed codes under concurrent requests |
| **Knowledge bases** `packages/knowledge/` | bases, documents, objects, links | upload, note, save, link, read by a run, delete | A store without transactions, and a run's uncommitted rows, against deletes |
| **Skills** `packages/skills/` | rows, cached files of two containers | add, toggle, delete, backfill, load | A text in three places; rows of an older schema |
| **Everything else** | intake, evaluation, CLI, migrations, kernel | text, views, configuration | no protocol of their own |

`PROJECT.json` lists every part with its files, and under `hazards` each place where the code could go
wrong in a way a test would hardly reach, with the properties that would notice.

How they interact. The worker claims a row (TaskLifecycle) and runs a council pass over it
(CouncilProtocol). A phase of the pass collects the seats (SeatCollection), each by a model call
(ModelCall), and makes events of the answers (CouncilRounds); the acquisition phase brings in sources
(Acquisition, Knowledge); memory is recalled before and fed after each phase (SeatMemory); the pass ends
with the paper (Report). The pass appends events to the ledger, the worker and the sweep project them,
the API streams them (EvidencePipeline), and a second, unreliable stream shows the run live
(ProcessStream, LiveView). Around it the API serves accounts, task records, follow-ups, skills.

## Modules

| Module | Models | Checked by | Proofs |
|---|---|---|---|
| `CouncilProtocol` | orchestrator passes over one task | `MCCouncil` | `CouncilProtocolProofs` |
| `SeatCollection` | the seats of a phase under deadline, time-outs and a stop | `MCCouncilFloor` | `CouncilFloorProofs` |
| `ModelCall` | one seat's call to its vendor | `MCCouncilFloor` | `CouncilFloorProofs` |
| `CouncilRounds` | what the rounds make of the answers | `MCCouncilFloor` | `CouncilFloorProofs`, `SequenceLemmas` |
| `Acquisition` | the acquisition phase over several passes | `MCCouncil` | `CouncilPassProofs` |
| `SeatMemory` | collective and private memory over several passes | `MCCouncil` | `CouncilPassProofs` |
| `Report` | the paper and its reasoning map | `MCCouncil`, `MCReport` | `CouncilPassProofs` |
| `TaskLifecycle` | workers and API calls around one task row | `MCTaskLifecycle`, `MCTaskDesk` | `TaskLifecycleProofs` |
| `TaskDesk` | task records, files, trials around runs | `MCTaskDesk` | `DeskProofs` |
| `Accounts` | codes, registration, sessions | `MCTaskDesk` | `DeskProofs` |
| `FollowUp` | follow-up questions and their page | `MCTaskDesk` | `DeskProofs` |
| `Knowledge` | knowledge bases, the runs that read them | `MCTaskDesk` | `LibraryProofs` |
| `Skills` | installed instructions, caches and runs | `MCTaskDesk` | `LibraryProofs` |
| `EvidenceGate` | the audit of one event, as operators | through the pipeline | `StreamsProofs` |
| `EvidenceLog` | what the pipeline promises (abstract) | as a property of the pipeline | `StreamsProofs` (that the pipeline implements it) |
| `EvidencePipeline` | ledger, projector, event stream of one task | `MCStreams`, `MCEvidencePipeline` | `StreamsProofs` |
| `ProcessStream` | the writer of the live trace | `MCStreams` | `StreamsProofs` |
| `LiveView` | the reader of the live trace | `MCStreams` | `StreamsProofs` |
| `Selections` | what several modules take out of a sequence | through them | `SequenceLemmas` |

Operators with a comment that starts "A mistake:" are wrong variants of their neighbours, the mutants
of `PROJECT.json`; no behaviour of a model uses them. Each property is violated when the operator it is
paired with is replaced by its wrong variant.

**Side by side.** `MCCouncil`, `MCCouncilFloor`, `MCTaskDesk` and `MCStreams` each put several
components into one instance. A variable `part` says at the start which of them a behaviour is about;
the others stay as they begin. The components share no variables, so nothing is lost: the reachable
states are those of each component alone, and a property of one holds trivially in the behaviours of
another. It is one instance per layer of the program, not a composition in which the parts interact;
what one part assumes of another is said with each module below.

### CouncilProtocol

`status`, `checkpoint`, `ledger`, `stopRequest` are rows; `run` is the local state of `run()`.
`failure`, `gateOffered`, `answer` are history variables; `interruptions`, `reruns` count against
bounds.

| Action | Code |
|---|---|
| `Claim` | `claim_queued_tasks` |
| `BeginPass`, `RejectPass` | `_deliberate_impl` and the head of `run()`: what is kept, which snapshot is restored, whether the state machine accepts the replay |
| `PassKept` | `if phase in kept: continue` |
| `StopAtBoundary`, `PassStopCheck` | the stop check before a phase |
| `HaltAtGate` | `stop_before` |
| `SkipPhase`, `EnterPhase` | the wall-clock check and the entry of `_run_phase` |
| `AuditCommit` | the commit an audited model call makes inside the phase |
| `CompletePhase`, `FailPhase`, `ConflictingPhase`, `StopInPhase` | the four ways `_run_phase` ends, with the running checkpoint that commits together with the events |
| `FinishPass` | the final report |
| `Interrupt`, `Abort` | process or connection lost; watchdog or unexpected exception |
| `RequestStop`, `SubmitGuidance`, `ExpireGate`, `ReResearch` | the calls and the gate's grace period |

Abstractions. Phases are numbers. `run_phases` is a set plus one flag, "some phase was appended after a
later one", because its order only matters to the state machine's `current + 1` rule. The accumulator
keeps which phases' results it carries, which failed or were skipped, and whether there is any other
gap. A skip needs a phase executed earlier in the pass (`ClockMayBeSpent`: the clock starts with the
pass). An empty checkpoint and none are one value, as they are to `run()`. A re-run of a phase that is
on the ledger always conflicts: its payload holds model text.

### SeatCollection, ModelCall, CouncilRounds: inside a phase

`SeatCollection`: `_collect` starts a coroutine per seat, `Concurrency` at a time, in roster order
(`Take`). A seat asks (`AskSeat`), streams and falls back to a plain call (`StreamFails`), pauses and
retries (`Retry`, `Wake`), is timed out (`AttemptTimesOut`), or is absent when its attempts or the
deadline are used up (`GiveUp`, `Absent`). An answered call takes the session's lock and writes its
audit row in a shielded task (`BeginWrite`, `Recorded`, `WriteFails`), which a time-out or a stop cannot
cut off (`CutOff`). A stop (`RequestStop`, `StopSeen`) or an error of one seat (`Raise`) cancels the
others (`CancelOthers`). `Tick` advances time only to the next thing that is due, as an event loop does;
vendors may hang for ever. The answers of the phase are then given to the rounds.

`ModelCall` is one call: a stream that fails is given up, then at most `Repairs + 1` questions, each
with its own transport retries, one downgrade when the vendor refuses the forced tool. The vendor
chooses the reply (`Reply`) every time. Token counts are locals of the method: a call that ends in an
exception (`Fail`: transport given up, rejection, garbled body, deadline, stop) bills nothing, not even
the replies it had been given before.

`CouncilRounds` holds the seven rounds of a pass, each with any answers of any subset of seats. A round
is an operator from answers and carried values to events, slots and hand-over, named for its handler.
`Close` ends it as the orchestrator does. A runner that raises fails its round (`Fails`: PHASE_FAILED, a
slot, the next round goes on): a malformed evidence reference in a request to revive a node, a bounty
score that cannot be quantised or ordered, or the failures `LoseRound` stands for. The append stands
outside that `try`, so a conflict among the round's own keys (`Conflicts`) ends the pass: it is rolled
back, the task is FAILED, and no round follows. Otherwise the round is kept (`Keeps`). Texts are reduced
to what handlers branch on. It assumes of SeatCollection only that the
answers are those of some subset of the roster.

### Acquisition

`db` and `durable` are the session's and the committed rows; every audited call commits the first into
the second (`Commit` inside the actions). `outcome`, `appended` are what the pass will report; `bought`
counts calls paid by the two limits. The pool's turns, the researcher's DOIs, uploads and linked
documents follow the order of `acquire_for_round`; a search may return any paper or none, screens refuse
retracted, late and off-topic ones; extraction may fail. `Crash` loses the pass and what is not durable,
and the next one starts with new requests and a new budget.

### SeatMemory

Follows `CouncilOrchestrator._run_phase`: every seat recalls in its turn, the phase speaks (`spoke`),
every seat remembers, the events are appended, the checkpoint is stored. `minds` is the private memory
(log, organised nodes, whether its load failed), `frontier` the shared one, rebuilt from the ledger when
a pass starts. Each answered call of the memory model commits the session in the middle
(`CommitSession`): this is why `events` and `uncommitted` are apart. Mishaps are absences, failed
organisation, a snapshot that cannot be taken, crashes and a change of adapter between passes.
`forgotten` is a history variable: how many phases the seats of this pass were not given back. A
checkpoint carries it along (`stored.since`), because a pass that is resumed from a snapshot lacks what
the pass that wrote the snapshot had lacked.

### Report

Rows are put on the ledger by the council and admitted to the graph by the projector, which does not
touch a RUNNING task; the paper is written in between. What can be missed by then depends on `gate`. A
first pass parks before joint modeling (`ParkCouncil`), and `run_task` projects it before its worker
claims anything again, so that the pass behind the gate (`ResumeCouncil`) starts with all its nodes; it
may lack them only if that worker died or the projection was given up, which counts as a loss. A pass
whose wall clock is found spent at an earlier boundary does not park (`OverrunGate`): it skips all but the
last two phases and writes its paper with nothing projected. `PhaseRows` says which rows belong to which
side; a dissent repeats the judgment of its author (`Restated`), and no phase appends a study. `Catalog` is `build_catalog`, `ParseModelMap`,
`FileUncited`, `DeterministicMap` and `DeterministicPositions` are the functions of
`reasoning_map.py` on items reduced to id, kind, seat, text, stance. `Shown` is what a reader gets for a
paper an earlier program stored. The emergency paper and the final one have their own keys.

### TaskLifecycle

`status`, `aged` (whether `updated_at` is older than the grace of that status) and `checkpoint` are the
row; `rowLock` is the row lock of a deliberation transaction; `lease` the advisory lock; `worker[w]`
and `request[c]` the processes in between. `Read`/`Write` split each API call where the code does: the
decision is taken on what was read, the write does not look again and waits for the row lock.

Worker actions follow `run_one`: `Claim`, `TakeLease` (which may fail and never stops the run),
`BeginPass` or `Refuse`, the phases, `AuditCommit` (which gives the row lock up), `Park`, `Stop`,
`Finish`, `DraftPaper`, `EventConflict`, `Project`. Faults are `Crash`, `LoseConnection`, `Abort` and a
"blip" on the lease's connection; repairs are `Requeue`, `Finalize`, `Recover`, `ExpireGate`, `Sweep`.
Rows are changed under READ COMMITTED: what a worker has not committed is in `worker[w].cp`.

Abstractions. A council pass keeps the phases run and failed, the gate and a pending rewind; skips,
guidance texts and snapshots are CouncilProtocol's. Since the restored snapshot is not modelled, a
rewound pass starts with any subset of the old failures. `Age` does not fire between a claim and its
lease: `LEASE_CLAIM_GRACE_SECONDS` is taken to be long enough for that, and this is an assumption about
time. `Project` succeeds, and a projection that fails is `Abort` in that place; whether projections can
fail for ever is EvidencePipeline's question.

### TaskDesk, Accounts, FollowUp: the API

A request is read, wait, write: `service[h]` (`desk[h]` in Accounts) holds what a handler has read and
not used yet, and other handlers run at each such point. What the database itself makes atomic is one
step: `consume_free_trial`'s guarded UPDATE, the INSERT ... ON CONFLICT of a code, a row lock until the
end of the transaction (`holder`). In TaskDesk a worker only takes, writes about and ends a task, and a
delete waits for it (`stop_active_task_if_needed`) or gives up waiting. In FollowUp the model, the wire
and the reader can each stop at any delta.

### Knowledge and Skills

`Knowledge`: a file goes to the store (`StoreFile`) before its row (`AddDocument`); a run lists
documents, writes sources (`CiteDocument`, uncommitted in `drafts`), commits them with the next audit
row (`CommitDrafts`). Foreign keys are guards: `sources.knowledge_document_id` has no action on delete,
so a document that is cited, or being cited in an uncommitted row, cannot be deleted. `Skills`: a row's
text, the file of each container (`files`), and repositories that carry several skills.
`EnsureDownloaded` prefers the row, then the file, then the repository; `StartRun`, `LoadSkill` and
`SkipSkill` are the worker's loop, which commits after each skill.

### EvidenceGate, EvidencePipeline, EvidenceLog

An event is a record of exactly what the gate reads: type, level, identity, source, and the flags of
the stages. Method scores are three bands (strong, below the threshold, below the floor); a claim type
with its study design is one flag, "overclaims". The audit rows are not kept, only the status a pass
writes; `DISCOVERY_ONLY` and `TOOL_LEAD_ONLY` share the status "lead". Schema and deduplication
(stages 1 and 2) cannot fail in the code.

`rows` is what is committed, `tx[s]` what session s has inserted, `appendLock` and `projectorLock` the
two advisory locks, `pass[p]` the memory of a projection pass. `AppendNew`, `AppendAgain` and `Conflict`
are the branches of `append`; `Commit` and `Rollback` end the session's transaction and with it the
lock. A pass is `BeginPass` (lock, checkpoint), `ReadPending`, `ProjectOne` per event, `CommitPass`, or
`FailPass` (`ProjectionError`) or `LosePass`. `ReadPending` is a step of its own because events may
commit after the checkpoint was read. Events of a commit are visible from then on, also to a pass that
has not read yet. `Connect`, `Deliver`, `Disconnect` are the stream and its client; a delivery may be
cut off anywhere in the batch that was fetched.

`Emits` says which events a session may append. `Emittable` restricts it to what the code can emit: a
finding is emitted after its source, an edge after its target (`rounds/registry.py:1098-1165`).

`EvidenceLog` is the promise: a log that only grows at its end and never changes, judged once and in
order, delivered in order and exactly once. `EvidencePipeline` maps `log` to `rows`, `judged` to the
verdicts up to the projection checkpoint and `delivered` to what the client has.

### ProcessStream, LiveView

One writer serves all seats and the run. `emit` appends to `buffer`; `flush` takes it away (`Take`) and
waits for the lock, so `batch` has one batch per flushing coroutine and `queue` their order; under the
lock the next number is read (`Allocate`) and the rows written (`Store`). Heartbeats are cancelled by
their seat (`Cancel`), a refused batch with a closing row is put back (`PutBack`), and the run's end
flushes once more (`CloseTrace`). A row's text is the sequence of what was emitted into it, so merging
rows of one seat is visible.

`LiveView` has the table as `trace`, the server's cursor and its replay window, the EventSource that
reconnects without a resume point, frames held back for a tick, the page's cap, and the requests of the
snapshot, each of which may answer at any time until the page aborts it. The two sides choose what
they keep by different lists: the server replays `Structural` rows (STRUCTURAL_KINDS), the page keeps
`Light` ones (all that is not in HEAVY_PROCESS_KINDS). Rows of kinds in neither (the tokens, reasoning and
heartbeats of the paper's writer, `run_recovering`) are strays: not replayed, but counted by the page.

## Runs and what they show

All bounds are in the `.cfg` files and the MC modules. Every passing run is exhaustive; the larger ones
take between one and three minutes.

| Run | Bounds |
|---|---|
| `council_protocol` (685 000 states) | protocol: 4 phases, gate before the third, the last always runs, 1 lost pass, 1 re-research. acquisition: 3 papers (one retracted, one late, one off-topic), 2 searches, 1 upload, source limit 2, tool limit 3, 1 crash. memory: 2 seats, 5 phases, 2 mishaps. report: up to 3 rows, 1 lost session or projection, budget spent before the gate or not |
| `council_floor` (751 000) | 2 seats, 2 attempts, deadline 3, 2 phases; a call with 1 repair and 3 transport retries; seven rounds, 1 claim, 1 source, 1 quarantined node |
| `task_lifecycle` | 2 workers, 1 client whose calls overlap anything, 2 phases, 1 fault of any kind |
| `task_recovery` (1 469 000) | lifecycle: 1 worker, calls that do not overlap, 3 phases, 2 faults, 2 re-researches. accounts, desk, knowledge: 2 requests at once; 2 codes, 1 guess, 1 a day; 2 tasks, 1 file, 1 trial; 2 bases, 2 documents. follow-up: 1 continuation, answers of 3 deltas, 2 questions. skills: 3, in repositories with two, one and no skill files |
| `task_liveness` | 1 worker, overlapping calls, 2 phases, 2 faults, 1 re-research |
| `evidence_pipeline` | ledger: 2 sessions, 6 events, 2 projectors, 1 client. trace: 2 seats, 2 deltas or heartbeats, 2 refusals. page: 4 versions, 3 rows, 2 snapshot requests, window, anchor cap and page size of 1 |
| six violation runs | see Findings |

Why these bounds are enough to be worth something. Four phases are the fewest with something before
the gate that can fail while something else is kept, the gate's phase, and a phase that runs even
without time behind it; one lost pass and one re-research put a crash before, in and after a rewind.
Two workers and one client, or two requests, give every pair of racers; a third adds no new pair of
locks. Limits (guesses, codes a day, trials, window, cap, repairs) are one, or one less than what is
asked for, so that the boundary is reached by both the last that fits and the first that does not. The
deadline of the seats is one and a half attempts, so that an attempt is cut by either. Of six events two
carry one node (an upsert), two carry one key (a conflict), one is refused a node and one depends on
that node. In acquisition three papers exceed the source limit, and each screen has its paper. Faults
are counted, not time: any number of retries in the code is bounded by the backoff table, here of length 1. Process traces (`MODEL_REASONING_CAPTURED`) occur in `events_are_judged` only, to keep
`evidence_pipeline` small. `KbDoc` is empty in `council_protocol`: linked documents take the path of
uploads, and Knowledge has what is special about them.

What the properties say. Of the protocol and the lifecycle:

- `GateNotBypassed`, `GuidanceIsTheAnswer`: joint modeling never starts on a task that was not parked
  at the gate, and never reads a text that is not the answer to the latest gate; without rewinds and
  skips it does read that answer, whatever crashes in between.
- `CheckpointCoversLedger`, `CompletedPhaseNotRepolled`: what is committed is what a resumed pass keeps,
  so that no phase is paid for twice. A phase that has also been skipped is the stated exception: it
  can execute in a pass that is then lost.
- `CompletionIsHonest`, `CompletionIsBacked`: COMPLETED means every phase is on the ledger.
- `PhasesInProtocolOrder`: over all passes, a phase first starts after each earlier one was dealt with.
- `DeliberationFinishes`, `QueuedTaskComesToRest`, `EventsAreProjected`: no loop of gates, rewinds,
  retries or reclaims, and no events that nobody projects.
- `CheckpointIsBacked`: no checkpoint, stored, in a worker or in a call that is about to write, claims
  work that is not committed, even when two runs overlap or a call puts back an old checkpoint.
- `FinishedStaysFinished`, `CompletedWorkIsKept`: late handlers and stale recovery do no harm, with one
  worker and without overlapping calls. With overlapping calls `FinishedStaysFinished` is false (a
  cancel or a guidance that read the row earlier overwrites a finished status), which is why this run
  uses `SerialNext`. One case is excepted by the property itself: a task that was cancelled while a pass
  of it was still going may be parked by that pass (see Observations). The run has
  one recovery in place, so that its limit is reached; the excepted case takes two, and it was the attempt
  to prove the property for any number of them that led to it. With `MaxRetries = 2` TLC passes the
  property as it stands (1 553 000 states) and finds the case when the exception is dropped.

Inside a phase:

- `AbsenceIsExplained`, `PaidCallsAreRecorded`, `PassEnds`: an absent seat has its own last failure or
  the deadline as its reason; every answered call has its audit row when the pass is over, unless the
  connection is gone; and the pass ends even if no vendor ever answers.
- `CallIsAccountedFor`: the nested loops never exceed what their bounds add up to; a result bills every
  reply of the call exactly once; and a call that ends in an exception, which bills nothing, had been given
  at most `Repairs` replies (see Observations).
- `RoundsKeepWhatIsSaid`, `OnlyReusedIdsEndThePass`: citations are published or reported, a fork
  follows its anchor, a dissent leaves a certificate or a slot; and the events of one round conflict, which
  ends the pass, only in the two ways the second property names (see Observations). It says nothing of
  rounds that fail, nor of conflicts with events of an earlier pass, which are CouncilProtocol's
  (`ConflictingPhase`).
- `OneRowPerPaper`, `BudgetBuysExactlyN`, `AcquisitionIsAccountedFor`: as their names say; an
  interrupted pass is excepted from the findings part (see Observations).
- `MemoryFollowsTheLedger`: seven statements that make memory a view of the checkpointed phases over
  crashes and failures. That a loss is inherited by the passes after it takes three mishaps to show (the
  adapter is changed, the pass that starts afresh is checkpointed and lost, and the next one is given its
  snapshot); the run allows fewer, and what covers the longer histories is the theorem.
- `NothingIsLostOnTheWay`: two losses between the council and the reader. `EveryItemIsFiled`: whatever the
  model answers, no item is lost, invented or filed twice. `GuidedPaperSeesTheCouncil`: a paper written
  behind the researcher's gate has all the council said, if no session and no projection was lost; the
  counterpart of finding 6.

Around a run:

- `CodesAreLimited`, `TrialsAreCounted`, `DeletedTaskLeavesNoRows`, `AnswersAreWhole`,
  `DocumentsBackTheirSources`, `SkillsKeepTheirText`: stated above each definition.
- `GraphIsAFunctionOfTheLedger`: no dangling edge, a source behind every finding, and each node is what
  the last admitted event of that identity made of it. `ImplementsEvidenceLog`: see above.
- `TraceIsWhatWasEmitted`, `ClosingRowsAreNotDropped`, `AnchorsReachTheView`, `SnapshotsNeverGoBack`:
  the trace is in order and complete while nothing is refused or cancelled, a card is closed but for the
  named losses, a page that is connected has every anchor its cap allows, and never goes back in time. The
  anchors a cap allows are those among its newest rows that are not heavy: strays take their places.

Type invariants of the components are conjuncts of one property each (`TypeOK`, `FloorTypeOK`,
`StreamsTypeOK`, or the component's main invariant).

The runs turn the deadlock check off, because a finished task, a recorded pass or a closed page has
nothing left to do; `task_liveness`, `DeliberationFinishes` and `PassEnds` are what shows that nothing
stops before.

## Findings

Each is a run that checks one statement the repository makes and finds it violated.

1. `fast_forward_is_legal`: a checkpoint whose run phases have holes (a spent wall clock skips phases
   and still runs the final ones) or are out of order (a rewind appends) cannot be replayed by the
   strict state machine; the next pass raises `InvalidTransition` before its first phase.
2. `guidance_reaches_joint_modeling`: running checkpoints drop the guidance, so that joint modeling may
   first execute without the researcher's answer.
3. `at_most_one_run`: the lease outlives the run and not getting it does not stop the next run, so that
   a run without a lease can look stale, be requeued and be joined by a second one.
4. `completion_is_not_revoked`: a rewound task that completes again writes its paper under the old key
   with another payload; the conflict turns the completed task FAILED.
5. `events_are_judged`: a DOI without a title is worth a lead and no node, the finding from its full
   text is admitted, and its edge to the missing node fails every projection pass of the task.
6. `paper_sees_the_council`: the paper is written inside the deliberation transaction, from graph nodes
   that the projector makes only afterwards. A pass that parked was projected then, and its paper lacks
   nothing (`GuidedPaperSeesTheCouncil`). A first pass that finds its wall clock spent between acquisition
   and the gate does not park, and its paper is made without any of its findings, and without the blindspot
   acquisition reports when its sources are too much alike.

## Observations

Smaller disagreements between words and code, and limits of what the code promises, seen while
modelling. They are not runs.

*Council and rounds.* `jobs.py:589-592` speaks of a checkpoint that is cleared where 892-901 keep it.
`jobs.py:967-1003` re-stamps the rounds of kept phases. A model budget that is used up never stops the
council (`deliberation.py:859-864`, `orchestrator.py:767-791`). A seat's live slice is not closed when
`wait_for` times it out. `gateway.py:16` and `tools/audit.py:10` say every attempt is persisted; failed
calls leave no row, so what a vendor was paid for a reply that was refused, before the repair ended in an
exception, is neither recorded nor charged to the model budget (`openai_compatible.py:285-299`,
`deliberation.py:831-864`). A blindspot id that repeats is re-keyed from its statement but not checked
again, so two repeats with the same words and different scores conflict (`registry.py:1941-1948`), and the
key of a resurrection lacks the seat, so a node revived twice over conflicts too: these are the two ways
`OnlyReusedIdsEndThePass` names. Both end the task FAILED, although "one round's failure degrades the run"
(`orchestrator.py:876`), because the append stands outside the `try`. A malformed `evidence_refs`
(`registry.py:1574-1576`) costs only its round, but the whole of it; so does a bounty score that is
infinite, too long, or no number beside another (`registry.py:894-899`, `blindspot_bounty.py:47-57`).
The anchor claims behind forks carry no level and no design, so the gate never gives them or the forks a
node, although `registry.py` speaks of a parallel claim node. `consensus.py`'s reclassification and
`claim_revision.py` run in tests only.

*Worker.* The audit row of the synthesis call commits a terminal status before the pass is over. When the
connection is lost there, the job recovers in place after a backoff, and a re-research accepted in that
pause makes the row QUEUED; the retry's `_claim` (`jobs.py:182-193`) accepts QUEUED and goes on under the
row lock. So a waiting row may be held, although `cancel` writes CANCELLED at once because "nothing holds
these rows" (`service.py:369-372`), and the pass that is still going then overwrites it.

*Acquisition.* A source made durable by an audit commit before a crash is `already_known` to the next
pass and never gets its finding (`registry.py:1132`). The diversity count may count one paper twice. A
DOI that is listed twice by the researcher makes two events of one key.

*Memory.* `council_memory.py:24-26` against a recall that slices from the oldest text. The vendored
`memorize`'s bare `except` drops an episode; a failed organisation shows failed episodes twice in the
fallback; a fold whose last place is protected drops its episodes. A pass with another adapter starts
fresh and overwrites the snapshot. `absorb` is called idempotent and appends again (the caller never
feeds it twice).

*Ledger and streams.* `stream.py:120-121` says a terminal task emits nothing more, but the paper is
appended after the terminal status; the process stream may end with rows unsent. `process_stream.py:45-50`
says closing batches are retried: a flush cancelled with its heartbeat loses its whole batch, a batch put
back may stand behind a newer one, and `close` flushes once. `process_stream.py:16-18` relies on what
`at_most_one_run` refutes. The page's cleanup drops frames held for up to 250 ms; `useWorkspace.ts:120-122`
says the terminal ledger "cannot leak" but its load has no abort; a hung refresh after an error leaves
the page loading. `useWorkspace.ts:68-76` says the anchors of seat and tool cards are kept regardless of
age, and line 83 that what is kept beside the window is bounded to a handful per seat and phase; but the
page counts every row that is not heavy, the paper's token rows too (`synthesis_token`,
`synthesis_reasoning`, `synthesis_working`), and enough of them put the anchors out of its cap.

*Report.* The catalogue removes duplicates across kinds and seats, so one of two equal texts is shown.

*API.* `tasks.py:362-364` says a task can be confirmed exactly once; two confirmations that both read the
status may each draw a trial. Free-trial clones are not charged. `rerun-fresh` says the original stays
untouched and then deletes it (`tasks.py:1222`). A replay copies file ids without rehoming the objects;
`add_pdf_object_id` reads, modifies and writes. Rows of the process stream stay after a delete.
`tasks.py:1007` says the oldest turns are dropped and not the last reply, but a reply longer than the
limit is; the plain `follow_up` ignores the finish reason.

*Knowledge.* A note has an `object_key` that is unique and no object: a second identical note, or saving
a brief twice, is a constraint error; objects are never removed from the store.

*Skills.* `service.py:65-69` says a duplicate is skipped rather than failing the batch; the failed
INSERT leaves the session unusable, so the batch is lost while its files are written. Skills of one name
share a cache path, so a row of the older schema may be given another skill's text. A follow-up's skills
ignore `enabled`.

## Fairness

The worker's loop catches every exception of an iteration and goes on (`main.py:674-688`), its process
is restarted (`docker-compose.yml:115-119`), and each iteration sweeps, reclaims, resumes expired gates
and drains. That justifies weak fairness of a pass (`Pass`, `Work(w)`) and of claim, recovery, expiry
and sweep. `Age` is the passing of time, `Write(c)` a request that has read. No fairness is assumed of
faults or of a caller's first step, and a finite number of faults is a bound and not an assumption of
the code; `FairSpec` of the pipeline says instead that some time the database stays up
(`<>[][...]_vars`), since connections lost for ever would explain any starvation.

`FairSeats` is weak fairness of `Progress`: the event loop runs what is ready, clocks advance, and a
write ends, if only with an error (database time-outs). Vendors, the researcher and lost connections are
not in it. `FloorSpec` and `CouncilSpec` assume the same for the behaviours of those parts.

## Proofs

Eight modules hold proofs that TLAPS checks. The theorems are about every value of the constants: any
number of phases, seats, workers, clients, sessions, projectors, requests, papers, events, faults and
re-researches, any limits and budgets. They rest on these assumptions and nothing else:

| Assumption | Says |
|---|---|
| `ProtocolAssumption`, `LifecycleAssumption`, `PipelineAssumption` | the gate's position is a phase; bounds are naturals; `Nobody` and the like are none of the real values |
| `SeatAssumption`, `ModelCallAssumption` | a roster has a seat and none twice; limits are positive, pauses, prices and retries natural |
| `RoundsAssumption` | the bench is a sequence; claims and quarantined nodes are finitely many |
| `AcquisitionAssumption` | limits are naturals; texts are none of the papers, uploads and documents; no DOI is the name of an answer |
| `LiveViewAssumption`, `AccountsAssumption` | window and page, and the limits of codes, are positive; other bounds natural |
| `TaskDeskAssumption`, `KnowledgeAssumption` | at least one task claims atomically and one text exists; the trial limit is natural; `Nowhere` is no task |
| `SeatMemoryAssumption` | at least one seat and none twice; a role weighs each kind of event between 0 and `MaxWeight`; budgets and bounds natural |
| `FollowUpAssumption`, `ProcessStreamAssumption`, `ReportAssumption` | limits and bounds natural |
| `RecordedRowAssumption` | rows are of the kinds the council records, with the stances, sections and dimensions its schemas allow |
| `SkillsAssumption` | what a repository carries is a sequence of names, not empty in a conventional one |

`FinishedTasksStayFinished` and `CompletedPhasesAreKept` have two hypotheses more: `OneWorker`
(`docker-compose.yml:111`) and, as in the run, calls that do not overlap (`SerialSpec`). Overlapping
calls make the first false (see `FinishedStaysFinished` above), and with several workers two runs of one
task may overlap (`at_most_one_run`). The others are about the full `Spec` of their module.

Hardly any of these invariants is inductive as the run states it. What each needs beside itself:

- `CouncilProtocolProofs!TypeCorrect`, `GateIsOffered`. `GateNotBypassed` speaks about the gate's phase
  on the ledger and in progress. `GateInv` adds that a checkpoint that would let a pass through
  (`gateReached`, or the phase among the run ones, also among the kept ones of a pass) exists only after
  the gate was offered, and that a pass which began without it still has `stopBefore` set. The lemma
  `GateOfCheckpoints` says what each way of writing a checkpoint does to it.
- `CouncilProtocolProofs!CheckpointAgreesWithLedger`, `CompletionIsAlwaysHonest`,
  `PhasesStartInProtocolOrder`, `CompletedPhaseIsKept`. One invariant, `LedgerInv`, carries all four. A
  checkpoint's phases, the snapshots beside them and the accumulator each account for the same things:
  what completed is carried, what failed or was skipped has a slot (`AccountInv`, `CpInv`); the snapshots
  are layered, each within the next (`Layered`), so that restoring an earlier one on a rewind loses
  nothing that is on the ledger and was not skipped (`ResumeKeepsTheLedger`); and a pass has accounted
  for every phase behind the one it is at.
- `CouncilProtocolProofs!AnswerReachesJointModeling`. `GuidanceInv` follows the text from the gate's
  answer to the checkpoint and to the pass, and says that where there was neither a rewind nor a skip, a
  pass past the gate has it.
- `TaskLifecycleProofs!TypeCorrect`, `CheckpointsAreBacked`, `CompletionsAreBacked`. `IInv` is type
  correctness, every checkpoint in the row, in workers and in calls is backed, each pass has every phase
  either run or still to do (`PassesAccountForAll`), and COMPLETED is backed. That the ledger only grows
  is the lemma under which an old checkpoint in a slow call stays harmless.
- `TaskLifecycleProofs!FinishedTasksStayFinished`, `CompletedPhasesAreKept`. `SerialInv` adds that a call
  in flight still finds what it has read (`CallsAreSerial`), that a pass has at least the row's completed
  phases, no rewind, and nothing to do when the row says completed (`PassAgrees`), and that a completed
  row's checkpoint is whole (`CompletedIsWhole`).
- `StreamsProofs!GateIsMonotone`, `OnlySoundEventsAreAdmitted` are about the gate's operators.
  `LedgerIsDense` and `LedgerOnlyGrowsAtItsEnd` rest on `LedgerInv`: committed numbers are 1..n, only the
  holder of the append lock has uncommitted rows, and they go on where the committed ones end.
- `StreamsProofs!GraphFollowsTheLedger`. The committed graph is `GraphOf` the admitted events up to the
  checkpoint, and the private graph of the one pass that holds the lock is `GraphOf` those up to its own
  `last` (`JudgeInv`, `PassInv`). `ProjectOne` extends the second by one event, `CommitPass` makes it the
  first; whatever else ends a pass only drops it.
- `StreamsProofs!PipelineImplementsEvidenceLog`: the refinement. Initial states map to an initial state
  and every step to a step or a stutter, under `StreamInv`, which adds that the client has exactly the
  events up to the server's cursor or its own last id, and `JudgedPrefixInv`, that the verdicts go
  exactly up to the checkpoint.
- `StreamsProofs!AnchorsAlwaysReachTheView`, `PagesNeverGoBack`. `FrameInv`: a connection has received
  what follows its base and the anchors its cap allows, and of those only anchors beyond the cap and rows
  behind the newest window are not shown; an anchor that strays displace is beyond the cap. `FetchInv`: the request a page still listens to answers from a
  time no earlier than what it shows, because `useWorkspace.ts` listens to the newest only.
- `CouncilFloorProofs!CallTypeCorrect`, `CallsAreAccountedFor`. That a call makes at most `MostRequests`
  requests does not follow from itself. `UnderWay` says where each request belongs: every finished pass
  over the schema took at most `TransportRetries + 1`, the current one took `tries`, and `Passes` counts
  the finished ones. A pass ends with a repair, which raises `attempt`, or with the tool refused, which
  happens once because `forced` never comes back. While the call is under way the bill is exact, a result
  takes it over, and an exception drops it (`Fail`): a reply is answered by a result or by a repair, so
  there are at most `Repairs` to lose.
- `CouncilFloorProofs!SeatsAreTypeCorrect`, `PaidCallsHaveTheirRows`, `AbsencesAreExplained`. Both
  promises speak of a pass that is over. What every step keeps is a balance for each seat (`CallsInv`:
  rows committed plus the row being written are the calls answered, unless the connection is gone), that
  the lock is held by a seat that writes, and the reason of an absence from when it is given.
- `CouncilFloorProofs!RoundsAreTypeCorrect`, `NothingSaidIsLost`, `ConflictsAreReusedIds`. The work is
  in lemmas about the handlers as operators: in the other rounds the key of an event decides its payload,
  so its events agree; in the exchange each piece made of an answer has its anchor before the fork, and a
  flattened sequence of anchored pieces is anchored; re-keying in the bounty leaves two events of one key
  only where the property says.
- `CouncilPassProofs!OneFetchPerPaper`, `BudgetIsSpentWhole`, `PassAccountsForWhatItWasAsked`. `Control`
  says of each stage where an item that was asked for is: still to do, with a provider, or with an
  outcome. `Data` relates the two counters of the tracker to what was paid (only a charge that found the
  tool budget empty bought nothing), the committed rows to the seen ones, and, until the first crash,
  every row to a finding, a gap or a source about to be read.
- `CouncilPassProofs!GuidedPapersLoseNothing`, for `EveryItemIsFiled`. Most of it is about operators. An item is numbered within its kind,
  so no two of a catalogue have one id, whatever rows it is built from. A map of a catalogue that has its
  positions and steps from it, and leaves over what neither cites nor files, files every item once
  (`MapOK`, `MapIsFiled`); the map made without a model is one, the one read from any answer of a model is
  one after `FileUncited`, and it stays one when the positions are replaced or withheld. The invariant
  `ReportInv` says that every stored paper is one of which that can be shown (`StoredOK`), for each of the
  three eras of stored papers. For `GuidedPaperSeesTheCouncil`: the brief has every node of the graph and
  every judgment of the ledger (`MaterialHas`), and a catalogue says what every row says that it is made
  from (`CatalogTells`). `HeardInv` is the story of a run that loses nothing: no paper stands before the
  run is done; behind the gate, all that was said is in the graph, projected at the park, or repeats a
  judgment (`BriefIsWhole`); so the catalogue says it while the paper is written (`CatalogueIsWhole`), and
  the stored paper, which has the items of the catalogue (`PaperItems`).
- `CouncilPassProofs!MemoryIsOfTheLedger`. `MemoryInv` says that nothing is uncommitted except the phase
  that is being stored, so that the commit a memory call makes in the middle of a phase commits nothing
  (`NothingToCommit`), that only phases of the checkpoint have committed events, and of each seat's log
  that it is `InTurn` of its phases; a new phase comes after all of them and so extends the log at its end
  (`InTurnNext`). The snapshot in the checkpoint is held to the same, counted from where its writer began
  (`since`). That absorbing the ledger gives the frontier, and that weighing it leaves every seat with all
  of it in the order of its role's weights, are lemmas about `Absorbed` and about blocks of a sequence
  (`AbsorbedIndexes`, `BlocksDescend`). With `forgotten` reset at every restored snapshot, as an earlier
  version of the model had it, `SeatsRemember` is not invariant, which the proof showed first.
- `DeskProofs!CodesBuyOnce`: a row is held by one request (`HolderInv`), a code is in one row, which
  knows its history (`CodesInv`), a code being mailed has none yet (`StoredInv`), and one being redeemed
  is still the row's and still open (`AcceptedInv`). `TrialsAreNeverOverdrawn`, `DeletionIsComplete`:
  requests and rows refer only to tasks that are there (`RequestsAreOfTasks`, `RowsAreOfTasks`).
- `DeskProofs!FollowUpAnswersAreWhole`. A delta is named by its place in the answer. `Streaming` relates
  what the model has said, the segment under way, the frames on the wire and what the page has: each is the
  numbers from where the one before it ends, and a stream that is over has an end the page will see. What
  the next question is shown is `FitStep` taken from the newest message back, which keeps the last answer
  when it fits (`NextSeesTheAnswer`).
- `StreamsProofs!TheTraceIsWhatWasEmitted`, `NoClosingRowIsDropped`. The table, the batches of the flushers
  in the order of the lock, and the buffer are one sequence, and with the heartbeats left out its text is
  the text that was emitted (`Account`); a flusher has a batch exactly while it waits (`Queued`). That
  merging neighbours changes neither the text nor the closing rows is proved of `Coalesced` by induction
  over the rows (`CoalescedWell`). A failed flush puts its batch back, so the order is claimed only while
  nothing failed and no flush was cancelled, as the property says.
- `LibraryProofs!SourcesAreBacked`. A request about to make a file's row has stored the file
  (`FiledFilesHaveObjects`); what a run has listed was in the base its task is linked to
  (`ListsAreOfTheBase`); uncommitted sources belong to runs (`DraftsAreOfRuns`), so that the delete of a
  task at rest leaves none behind. `SkillsInstructWithTheirText`: what is being loaded or was told was
  installed and carries its own text, and no two installed skills have one text.
- `SequenceLemmas` is about sequences built piece by piece and about recursive functions. The induction
  theorems of the library cannot be instantiated by the provers, but the principle of the least element
  can be used of a *set* of numbers (`EveryNumber`, from `WFMin` and `NatLessThanWellFounded`), and from it
  follows that a set of sequences with the empty one and every extension has them all (`EverySequence`).
  So what `FlattenSeq` and `Chosen` compute is proved and not assumed: it exists for every length
  (`FlattenedExists`), is made of the elements of its pieces, and splits into what comes before and after
  any of them; and a fold written as a recursive function is determined step by step (`FoldExists`,
  `FoldTyped`).

Only model-checked:

- `DeliberationFinishes`, `PassEnds`, `QueuedTaskComesToRest`, `EventsAreProjected`: liveness under
  fairness, and ENABLED, are out of the prover's reach.
- `FloorTypeOK` and `StreamsTypeOK` are conjunctions over the components of an instance. The three
  conjuncts of the first are proved one by one, and `ViewTypeOK` of the second as part of `ViewInv`.

## What is not modelled

- Text and its rendering, prompts, query planning, PDF and BibTeX parsing, HTTP adapters and their
  redirects, SMTP, hashing: data and I/O without a protocol.
- Read-only views (workspace, reports, search, lineage and independence over the graph): no state.
- The command line client, evaluation, migrations, the rest of the web client: sequential or offline.
- `MinimalEvidenceGate`, the in-memory ledger, projector and memory adapter, `stopping.py`'s convergence,
  `consensus.py`'s reclassification, `claim_revision.py`: used by tests only.
- Several tasks at once. Each module has one task (TaskDesk two records), so the order in which a sweep
  picks among tasks is not modelled.
- The parts are not composed into one state space. Where one part rests on another (a phase "completes or
  fails", the ledger "is a set of committed phases") the text of the module says so; that the more
  detailed part keeps to it is not checked.

## Plan

1. **Done**: protocol, lifecycle, gate, pipeline with their proofs; seats, model call, rounds,
   acquisition, memory, report; accounts, task records, follow-up, knowledge, skills; live trace and page.
2. Proofs. **Done**: every safety invariant and action property of the runs, apart from the two type
   conjunctions named above.
3. A refinement that shows CouncilProtocol's reduced pass inside TaskLifecycle, and one from
   SeatCollection to a phase that ends with explained absences.
