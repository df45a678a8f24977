# A formal model of CENTRI and of the engine it drives

CENTRI is an ambient assistant in two halves. The *agent core* is a long-lived Python
process (`src/core/src/centri`): it takes utterances and HTTP requests, runs coding jobs
through external "hands", asks people for approval before anything risky, records
everything on an append-only ledger (the *spine*) and folds that ledger into a memory
graph. The *engine* is a fork of OpenCode in TypeScript (`src/packages`), of which
`packages/core` holds the sessions: their event log, their inbox of prompts, the lane
that runs them, background jobs, permissions and locks; `packages/opencode` holds the
control plane that moves sessions between workspaces.

This directory models the concurrent parts of both in TLA+, checks them with TLC on small
instances, and proves the main safety results with TLAPS for all instances.

**What one step is.** In both halves the code of one process runs on one thread, so what
stands between two awaits (two `yield*` of an Effect) is one step. A database transaction
is one step; of different fibers, transactions land in any order. Between processes, a
file operation, a request, its service and the use of its answer are steps of their own.

## 1. Inventory

### Agent core (Python)

| Component | State | Operations | Hard behaviour | Correct when |
|---|---|---|---|---|
| Control plane (`jobs.py`, `coordinator.py`, `app.py`) | `tasks`, `approvals`, `Jobs._running`, terminal ledger events | submit, ask, approve, reject, start, cancel, run, fail, reap, recover | rows read before an await; a registry keyed by task; timeouts racing answers; writes that land after a cancellation; crashes | no job without consent; cancellation reaches live jobs; ends are announced; a gate answers once |
| Permission policy (`permissions.py`) | the autonomy level | `assert_allowed` | an action listed under two risks | every risky action needs a person |
| Consolidation scheduler (`scheduler.py`), LLM tier | cursor, seen set, backlog, idle and backoff counts | tick: two reads, stage, fold, move the cursor, run the tier | two overlapping reads; state advanced before the work is done; all lost at restart | the cursor passes nothing unseen, no event is folded twice; the backlog drains |
| Hands, typed memory graph, ingestion, fork client, event bus and cache, tool registry, curation | connections; supersession pointers; cursors; subscriber queues | - | see section 7 | not modelled, or only as far as a module above sees them |

### Engine (TypeScript)

| Component | State | Operations | Hard behaviour | Correct when |
|---|---|---|---|---|
| Event log and streams (`core/src/event.ts`) | tables `EventSequence`, `Event`; wake channel and cursor of each stream | publish, replay, claim, remove; open, read, wait, close a stream | replays twice, late, with gaps, under a foreign owner; a commit between subscription, read and wait | the tables are one gapless log per aggregate; each stream delivers it in order and to its end |
| Workspace synchronization and warp (`control-plane/workspace.ts`, `handlers/sync.ts`) | tables of each node, status of each loop, the warp being served | connect, ask history, replay, follow, steal, claim, transfer | history and stream overlap; streams drop; events announced out of order; late work of an old workspace | a follower is a prefix of its source; the old workspace is fenced off |
| Inbox, run coordinator, drain (`session/input.ts`, `run-coordinator.ts`, `runner/llm.ts`, `session.ts`) | prompts, the lane's entry, follow-up and boundaries, the drain's place | prompt, resume, interrupt, wake, run, promote, settle | commit and wake are separate; demands coalesce; interrupts arrive late | no prompt is forgotten; taken in order; callers are answered and not deceived |
| Background jobs (`background-job.ts`) | the registry's entry, runs, deferreds, scopes | start, extend, cancel, promote, wait, settle | runs settle in any order; fibers of an old generation settle late | completed means every run succeeded; an end is announced once |
| Permission service (`permission.ts`) | pending requests, saved rules | assert, reply, sweep | replies walk the map while calls come and other replies walk it; listeners fail | no tool without consent; nobody waits unseen |
| File lock (`util/flock.ts`) | lock and breaker directories | acquire, take over, release | any process crashes at any file operation | at most one owner; a dead owner's lock goes |
| Question service; front ends, providers, tools, generated clients | - | - | - | not modelled (section 7) |

How they meet: a prompt is an event of the session's log (`SessionInbox` numbers prompts
by it); streams of that log feed clients, and the workspace stream that the sync loop
follows; a drain's tools ask the permission service. The Python core starts the engine as
a process and sees it as a hand. `PROJECT.json` lists the hazards of each part at their
lines, with the properties that cover them.

## 2. Plan

1. **Agent core, control plane**: `Permissions`, `ApprovalGate`, `Jobs`, `ControlPlane`. Done.
2. **Agent core, consolidation**: `SpineFold`, `Consolidation`. Done.
3. **Event log**: `EventStore`, `AppendOnlyLog`, `EventStreams`. Done.
4. **Workspaces over that log**: `WorkspaceSync`. Done.
5. **Session lane**: `SessionInbox`, `RunCoordinator`, `SessionLane`. Done.
6. **Background jobs, permissions, lock**: `BackgroundJob`, `PermissionService`, `Flock`. Done.
7. **Next**: `awaitIdle` and the shutdown of the coordinator in `RunCoordinator`; the
   question service beside `PermissionService`; the memory graph (supersession as three row
   operations with two writers, against a map from topics to their newest statement);
   the ACP connection (one result per execution).

| Abstract | Implemented by | How |
|---|---|---|
| `ApprovalGate`: asked, granted, answered | `ControlPlane` (`GateImplements`) | the gate of each job |
| `SpineFold`: each event folded once in a life, shown to the model once and after | `Consolidation` (`FoldsOnce`) | seen and shown sets |
| `AppendOnlyLog`: one log per aggregate that grows at its end or is removed | `EventStreams` (`LogImplements`) | rows in the order of their numbers |

`ControlPlane` composes `Jobs` and `Permissions`; `EventStreams` and `WorkspaceSync` both
use the transactions of `EventStore`, the second with a database for each node;
`SessionLane` composes `SessionInbox` and `RunCoordinator` with the drain.

## 3. Modules

| Module | Models | Correspondence |
|---|---|---|
| `Permissions` | `permissions.py` | the risk table in the order it is searched; `Verdict` is `assert_allowed` |
| `Jobs` | `jobs.py`, task and approval rows | `pc` is the place of a job in `_run_job`, `gpc` of its gate in `_await_approval`; `registry` is `_running`; `mode` and `orphans` are `recover_on_boot` and the rows it has listed; `lateStatus`, `lateDeny` are writes of a worker thread whose coroutine is gone |
| `ControlPlane` | handlers of `coordinator.py`, `app.py` | each request is a coroutine; `rpc` says what it does next, `rtask` and `rapv` are its locals |
| `Consolidation` | `run_consolidation`, `run_llm_consolidation` | `mark` is the cursor, `seen` the id cache, `old`, `oldTodo`, `newTodo` the rows of a pass |
| `EventStore` | `commitSyncEvent`, `replay`, `claim`, `remove` of `event.ts` | each operator is one immediate transaction: the database it leaves and what its caller is told |
| `EventStreams` | `publish`, `replay`, `aggregateEvents` | `waking` is a writer between commit and wake; a stream's sliding channel of one message is a flag |
| `WorkspaceSync` | sync loop, history, replay and steal requests, `warp` | `link` is the place of a loop; `rows`, `stream`, `unsent` are what travels; `home` is `workspace_id` of the session row; `fenced` marks events written after their author had lost the session |
| `SessionInbox` | `input.ts` | `admit`, `promoteSteers`, `promoteNextQueued`, `hasPending` |
| `RunCoordinator` | `run-coordinator.ts` | each operator is one synchronous transition of the entry: `run`, `wake`, `interrupt`, `settle` |
| `SessionLane` | `session.ts`, the loop of `runner/llm.ts` | `drain.pc` is the place of the owner in the loop; `wakes` and `interrupts` are committed and not yet at the lane |
| `BackgroundJob` | `background-job.ts` | `job` is the registry's entry, `run[g][s]` the fiber of run `s` of generation `g`, `done` the deferred of a generation, `closed` the closed scopes |
| `PermissionService` | `permission.ts`, `permission/saved.ts` | `call[r]` is the place of `assert`, `reply[u]` that of `reply` with its loop |
| `Flock` | `util/flock.ts` | `pc` is the place in `tryAcquireLockDir` and `release`; every file operation is a step |
| `ApprovalGate`, `SpineFold`, `AppendOnlyLog` | promises | the table above |
| `MC*` | instances | symmetry, rules and times that a cfg cannot write |
| `*_proofs` | proofs | section 6 |

### What the models abstract

*Control plane.* A hand is a result, a timeout that tears down its gate, or a degrade to
the next hand; `Hands.execute` turns exceptions into results. The read loop of a hand
awaits the permission handler, so a hand reads nothing while its question is open. An
approval asks for a start, a steering or a tool; a tool titled "coding.start_task" is left
out. The ledger is reduced to the terminal events of a job. A crash drops transactions in
worker threads; a cancellation may leave one to land later. Recovery lists the rows that say
running, marks them one by one, and may die in between; requests come after it.

*Consolidation.* Events are numbered by `(ts, id)` and appended in any order, so that an
import gives a *late* event. Low-importance events and further hints of one event are left
out. A restart keeps ledger and graph and loses the scheduler's memory.

*Event log.* Data, type and version of an event never change once its id is given out, so
that the id stands for them. Removal is part of the model; a stream whose aggregate was
removed under it is marked `stale`, and only the part of `StreamInOrder` that holds of such
a stream is stated of it.

*Workspaces.* One session. An event says who published it and which home it sets. Histories
in transit are sets that are taken in order. Two events that were committed one after the
other may be put on the stream in either order, because each is announced after its commit.
A lost answer, a dropped stream and a refused replay are failures; the file patch of a warp
is only its failure. `settled` is a history variable: nobody has claimed the session since
the loop asked for its history. The rows a loop skips while the session is claimed for
another it does not ask for again, even when the session is claimed back, so that being
connected means being caught up only while `settled` holds.

*Session lane.* A turn of the language model is an outcome (done, wants another step,
fails), and it may fail before it has promoted anything. Sequence numbers are those of the session's log, in which the interrupt and the
prompts are events. The history variables `forced`, `asked`, `failed` and `stopped` are
read by the properties only.

*Background jobs.* One id. Bodies end in success, failure or interruption, and may not end.
The scope of the registry stays open (section 7).

*Permission service.* One action; a resource is a value and a pattern the set of resources
it matches; rules of an agent are fixed. The map of open requests is walked in any order,
a superset of its insertion order. Announcing may fail (a listener died), and so may saving.
Listeners run in turn, so that one that fails may come after others that have seen the
event; such an event counts as not announced, and `AnswersAreCarriedOut` promises nothing of
it: the request may stay open although a listener has heard an answer.

*Lock.* Time is the age of a directory, and only what a crashed process left behind gets
old: live owners beat three times in `staleMs`, and live contenders take less than that for
a step. This is what the design assumes; an owner paused for longer is outside of it.
`orphaned` is a history variable.

## 4. Runs

| Run | Bounds | Checks | States, result |
|---|---|---|---|
| `control_faults` | 1 task, 2 requests, 2 jobs, 1 approval, levels supervised and autonomous_local, one fault or crash | `GatedStart`, `LiveJobReachable`, `ControlInv`, `NoStartIsLost`, `EndIsAnnounced`, `RunningHasJob`, `GateImplements` | 504,772, holds |
| `control_live` | 1 task, 1 request, 2 jobs, 1 approval, levels locked and autonomous_local, no fault | `GateNeverHangs`, `WorkEnds`, `ApprovedStartHappens` | holds |
| `consolidation` | 5 events, two of one stamp, batch 2, at most 3 appends between reads of the newest, one failure or restart | `NothingSkipped`, `FoldsOnce`, `BacklogDrains` | 367,740, holds |
| `consolidation_stall` | 6 events of different stamps, batch 2, at most 3 appends between reads of the newest, no failure | `EventsAreFolded` | violated |
| `event_streams` | 2 aggregates, 2 event ids, 2 owners, 2 writers, 1 stream | `LogContiguous`, `NoLostWake`, `StreamInOrder`, `LogImplements`, `StreamCatchesUp` | 26,555, holds |
| `workspace_sync` | 2 workspaces, 3 events, 2 warps, 2 failures | `ReplicaIsPrefix`, `FencedWork`, `ConnectedIsCaughtUp` | 3,505,862, holds |
| `session_lane` | 2 prompts, 1 caller, 2 steps, 1 interrupt or resend | `NothingForgotten`, `TakenInOrder`, `SuccessWasForced`, `WaitersAreServed`, `CallersAreAnswered`, `PromptsAreTaken` | 797,195, holds |
| `session_lane_boundary` | the same | `WakesAfterBoundaryRun` | violated |
| `background_job` | 2 generations of 2 runs, 1 waiter | `CompletedIsWhole`, `RunsTakeTurns`, `EndsOnce`, `WaitersAreTold` | 651,697, holds |
| `permission_service` | 3 requests of 2 sessions, 2 users, 2 different answers, one removable session | `GrantWasDue`, `NobodyIsStuck`, `OutcomeIsAnnounced`, `AnswersAreCarriedOut`, `SweepIsComplete` | 835,996, holds |
| `flock` | 3 processes, each crashes once, anywhere | `MutualExclusion`, `LiveOwnerKeepsLock`, `StaleLockIsCleared` | 296,868, holds |
| `flock_breaker` | the same | `OneCleaner` | violated |

Why the bounds are enough to be interesting:

- *Control plane.* Every race is between two parties (two answers of one row, an answer and
  a timeout, a second start and the first job, a cancellation and a job's write). One fault
  is placed at every operation of every actor. The one approval is that of a start at the
  level supervised and of a tool at autonomous_local. That consent to one task does not
  start another is what the proof of `GatedStart` says for any number of tasks.
- *Consolidation.* Up to three appends between two reads, with a batch of two, give windows
  that overlap, windows that leave a gap, a full window of seen rows, and a backlog below and
  above its threshold. The stall needs one event more than a batch twice: once to leave the
  cursor behind, once to lose an event.
- *Event log.* Two ids in two aggregates give a replay of a stored event, of a known id at
  another number or aggregate, and of a gap. Two writers, one before its wake and one after.
- *Workspaces.* Three events are the creation of the session, its work and its new home;
  two warps take the session away and back, which is when late work may come home again.
  Two failures let a warp fail after its claim and a stream drop, which is the least with
  which a loop skips rows, the session is claimed back, and the loop reports connected
  without them.
- *Lane.* Two prompts on both sides of one interrupt, or one of them sent twice; a follow-up
  while a drain settles. An interrupt and a resend in one behaviour are left to the theorems,
  which hold for any number of both.
- *Jobs.* A second run extends the first, before or after it ends; a second generation
  begins while fibers of the first are on their way.
- *Permissions.* Two requests of one session and one of another are the least with which a
  sweep spares somebody; two users the least that contradict each other.
- *Lock.* One crashed owner, one crashed cleaner and one more contender, each of which may
  come back in a new life.

Every bound is named: `MaxMishaps`, `JobSpare` (requests that may start a job come only
while job ids are left), `ApprovalsLast`, `Burst`, `Waits`, the cap of `failures` in
`LlmReturn`, `MaxWarps`, `MaxDrops`, `MaxSteps` (of the code), `MaxExtras`
(interrupts and resends), `MaxStarts`, `MaxRuns`, `MaxAnswers`, `Removable`, `MaxCrashes`.
`CHECK_DEADLOCK FALSE` is set where an instance stops when its ids or bounds are used up;
the lock never stops, and its runs check deadlock.

### What the violated runs show

- **A cursor that stops** (`consolidation_stall`, `scheduler.py:182`). "Imported events are
  folded by consolidation on the next scheduler tick, exactly like native events"
  (`app.py:671`), and a tick "drains the events appended since the last run"
  (`scheduler.py:6`). Each pass reads a batch after the cursor and the batch of the newest
  events, and skips what it has seen without moving the cursor. When one event more than a
  batch has come since the last pass, the newest batch reaches beyond what the forward scan
  will return next; the scan then returns a whole batch of seen rows, and the branch that
  says it "still need[s] to advance" the cursor (`scheduler.py:202`) assigns it the value it
  has. From then on, until a restart, only the newest batch is read. The next time that more
  than a batch arrives between two passes, what lies in between is never folded. The property
  excuses events that were appended behind the newest one (`late`); those fare no better.
- **A wake from after the interrupt that does not run** (`session_lane_boundary`,
  `run-coordinator.ts:257`). The comment at line 26 promises that "advisory wakes after the
  boundary run after cleanup". An interrupt is recorded; a prompt is admitted after it; its
  wake reaches the lane first and is coalesced into a pending run that an explicit resume
  had asked for, where its number is lost. The interrupt arrives, and the pending run is
  suppressed as older than the boundary. The prompt stays in the inbox of an idle lane until
  somebody wakes the session again. `NothingForgotten` is what does hold: an idle lane
  leaves no such prompt unless an interrupt has stopped a run since it was admitted.
- **Two cleaners of one lock** (`flock_breaker`, `flock.ts:172`). The comment at line 185
  promises that "only one contender performs stale cleanup". An old breaker is removed by a
  `stat` and an `rm` that does not look again. After a crash under the breaker, a contender
  between the two removes the breaker that another has made meanwhile; a third makes its
  own, and two contenders remove the lock directory, the second of them possibly with a new
  owner in it. Until a crash leaves a breaker behind, `MutualExclusion` holds, and is proved.

Other behaviour that TLC shows and no line of the repository rules out is in `PROJECT.json`
as a hazard with its note: a task row that stays running after its job was cancelled
(`coordinator.py:943`), a warp that fails after the claim and leaves a session that nobody
follows (`workspace.ts:605`), a sync loop that dies of a refused replay (`workspace.ts:367`),
an aggregate that is removed and reborn under an open stream (`event.ts:518`), a queued
prompt left behind by a failing drain (`runner/llm.ts:391`).

## 5. Fairness

- *Control plane* (`LiveSpec`): each step of a job, of its gate and of a request (asyncio
  runs every ready coroutine), the return of a hand whose gate is closed (every hand has a
  timeout), the writes of worker threads, and recovery. Users, questions, faults and crashes
  are free.
- *Consolidation*: the scheduler's loop (`_loop` catches every exception and runs on).
  `BacklogDrains` starts from a backlog of `MinStale` events, because staleness needs that
  many. `EventsAreFolded` is refuted under the same fairness.
- *Event streams*: a writer's announcement after its commit, a stream's first read and its
  reads after a wake. Nobody has to publish, open or close.
- *Workspaces*: the steps of the sync loop and the announcement of what was committed. The
  run has no liveness property; failures, warps and publications are free.
- *Session lane*: what was committed reaches the lane (`Deliver`), a caller that
  was told to ask again asks again, and the drain runs on. Clients are free, and so is the
  outcome of a turn.
- *Background jobs*: fibers are forked, begin and settle, ends are announced, and waiters
  are resumed. Bodies need not end, which is why `WaitersAreTold` allows a waiter to wait
  for a body that runs for ever, and for nothing else.
- *Lock*: contenders go on with their attempt and try again, and time passes over what a
  crash left. Owners need not release, and nobody has to crash.
- *Permission service*: none; its properties are safety.

## 6. Proofs

Each proof module has an invariant, a lemma for each action that can disturb it, and one
theorem for each property. They hold for every value of the constants that the named
assumptions admit.

**`ControlPlane_proofs`** (from `ConstantsAssumption`, `RequestsAssumption`).
`ControlInvariant`, `TypesCorrect`, `StartsAreGated`, `StartsAreNotLost`,
`LiveJobsAreReachable`, `EndsAreAnnounced`, `GateRefinement`, `RunningRowsHaveJobs`. `GatedStart` is not inductive: a
job is started long after the person answered. `ControlInv` adds the chain in between.
`Consent`: a request at "start" has a grant or needs none, and a hand's question belongs to
a task that already had a job. `GateInv`: a waiting gate has a row of its own that is not
answered yet, allows only after a grant, and a row that says approved was granted, late
denials included; this gives the refinement. `Announcing`: what has been announced at each
control point. `Shape`: the operands of each step exist. `Recovering`: every row that says
running is on the list of the recovery under way, and whoever marks one running, a request
or a late write, has a job of this process behind it; a crash forgets requests and late
writes before the list is made. Hence `RunningHasJob`, for rows marked at any time after the
boot, and not at its end alone. `NoStartIsLost` is the safe half
of `ApprovedStartHappens`: while no operation raises and the process lives, an approved
start is at a request about to start it or has a job, and a pending task waits for one of
these, for a question or for its cancellation. It needs `RowKinds`: gates and their
timeouts refuse only the questions of hands, so nothing but an answer ends a question
about a start.

**`Consolidation_proofs`** (from `ConsolidationAssumption`). `CycleTypesCorrect`,
`ConsolidationInvariant`, `CursorSkipsNothing`, `FoldRefinement`. `CursorInv` carries the
argument over the awaits of a pass: what the first read returned is contiguous, so the
place where the cursor will be put is covered. `FoldInv`: the fold has consumed exactly
what was seen and is not pending. `BacklogInv`: an event waits for the model, is with it,
or was shown, never two of these. `TopicInv` gives the types of the statements. That the
cursor *moves* is liveness.

**`EventStreams_proofs`** (from `OwnerAssumption`, `StreamsAssumption`).
`StreamsInvariant`, `LogIsContiguous`, `WakesAreNotLost`, `StreamsDeliverInOrder`,
`StreamsTypes`, `TablesImplementLogs`. The invariant is the shape of the state, `LogContiguous` and `NoLostWake`: the checks of a
commit keep the numbers of an aggregate gapless, and a stream that is behind has its flag
set or a writer that has committed and not announced. With gapless numbers the rows *are* a
function on `0..latest`, and each transaction is a step of `AppendOnlyLog` or a stutter.
For the delivery it gives that the rows a read finds are as many as the numbers between the
cursor and the end (`BatchIsRun`), so that the i-th of them in the order of the statement
has the i-th number after the cursor (`RowsUpTo`), and what a read adds continues what was
delivered (`ReadContinues`).

**`WorkspaceSync_proofs`** (from `SyncAssumption`, `OwnerAssumption`). `SyncInvariant`,
`SyncTypes`, `LateWorkIsFenced`, `FollowInvariant`, `ReplicaNeverLeads`,
`ConnectedLoopsAreCaughtUp`. Two arguments. The first is of *origin* (`SyncInv`): each row
of a workspace is its own or the control plane's, each row of the control plane is its own
or still with its author, and what travels was read from a log that still has it
(`RowsHaveOrigin`, `InTransit`). Fenced work comes from its author only by steps that name
the author as owner, which `replay` checks against the claim. The second is of *following*
(`FollowInv`), for a control plane that has written nothing of the session itself. It sees
one author, or two between the steal of a warp and the answer to it, and then what the
thief wrote begins with the steal (`KnownAuthors`); with gapless logs (`LogsWhole`) and a
home that an event of the log has set (`HomesAreSet`) the replica is a prefix. A warp has
the session claimed while it sends it, and what the target lacks is still to be sent
(`WarpClaimed`, `TransferWhole`). The fence of a loop lies below all that is missing, and
the history that it is given has all of it (`HistoryCovers`): after the replay nothing is
missing but what the stream still brings.

**`SessionLane_proofs`** (from `LaneAssumption`). `LaneInvariant`, `LaneTypes`,
`NoPromptForgotten`, `PromptsInOrder`, `SuccessNeedsForce`, `WaitersHaveEntry`. The invariant says where each
prompt that is owed a run is looked after: on its way as a wake, covered by the follow-up,
by the drain before its last check, or excused by a boundary, a failure or a stop; that the
numbers in the lane are those of events in the log; that waiters of an entry were forced;
and that whoever waits is noted by an entry with a forced run in it or behind it, or a stop.

**`BackgroundJob_proofs`** (from `JobAssumption`). `JobInvariant`, `CompletedIsComplete`,
`RunsNeverOverlap`, `EndsAreFinal`, `WaitersHaveMover`. A counting argument: while the job runs, `pending` is
the number of its unsettled runs, and those that settled succeeded with an output no newer
than the one kept (`CountInv`); so when the count reaches zero all have, and the kept output
is the last. `TurnInv`: a run that began has every run before it behind it. `EndInv`: a
generation that has ended is being announced, or is. `WaitersHaveMover` is the safe half of
`WaitersAreTold`: while somebody waits, an end is decided or a fiber of that generation can
move. A job that runs counts somebody (`HeldInv`), and the first run that it counts has only
settled runs before it; that there is a first is the well-foundedness of strict inclusion
of finite sets, which needs no induction over data. `NobodyWaitsInVain` is in no run.

**`PermissionService_proofs`** (from `RequestAssumption`). `PermissionInvariant`,
`PermissionTypes`, `GrantsAreDue`, `RequestsStayAnswerable`, `OutcomesAreAnnounced`,
`AnswersLead`, `SweepsAreComplete`. `CallInv`: saved rules were consented to and what
settled a request was due. `ReplyOK`: what a reply is about to do was chosen and announced.
`SweepOK`: what a loop has visited is settled or not covered by what it read.

**`Flock_proofs`** (from `FlockAssumption`). `FlockInvariant`, `FlockTypes`,
`OwnerKeepsLock`, `LockExcludes`. Until a crash leaves a breaker behind, the breaker exists
exactly while one live process is between making and removing it, an old lock is a dead
owner's, and the process about to clear has the old lock before it; so nobody else can have
made a new one since it looked. Types hold in every behaviour.

### Only model-checked

All liveness (`GateNeverHangs`, `WorkEnds`, `ApprovedStartHappens`, `BacklogDrains`, `StreamCatchesUp`, `CallersAreAnswered`, `PromptsAreTaken`,
`WaitersAreTold`, `StaleLockIsCleared`), since fairness and ENABLED are beyond the prover,
and the three violated properties. Every other property of every run is a theorem.

## 7. Not modelled

- *Inside modelled parts.* `awaitIdle` and the shutdown of the run coordinator; compaction
  and what happens inside a turn; `waitForPromotion`, `list` and `get` of background jobs
  (they change nothing); the closure of that registry's own scope, which interrupts its runs
  and after which nothing is promised to settle (`background-job.test.ts:86`); `list`, `get` and `forSession` of permissions, the finalizer of
  that service, and request ids used twice; creating, listing and removing workspaces;
  process-wide listeners of events; `detect_dormant_loops` and health of a tick.
- *Question service.* The permission service without rules.
- *Memory graph.* Supersession is three awaits, replay meets rows of the same id, and the
  backfill writes a snapshot back; this needs a model of its own database and is planned.
- *Hands.* The JSON-RPC connection: futures, the read loop, cancellation keyed by the
  request.
- *Ingestion, fork client and Hermes plugin.* Parsers and buffers whose effect on what is
  modelled is an append, which is modelled.
- *Event bus, hot cache, tool registry, recall.* Bounded queues that drop subscribers, a
  cache that nothing modelled reads, one invocation with the same gate as a job, and
  numeric ranking.
- *The rest.* Prompts, parsers, wording and redaction are text processing. Front ends (the
  terminal, web and desktop applications), generated SDK clients, icons, providers,
  language servers, the tools themselves, clients of external services, the command line
  and the benchmarks are most of the repository's lines and keep no protocol state: they
  show the log, or call something outside. The modelled share of the lines is small for
  that reason.
