# A verification project for AEIS (sylion-pipeline)

TLA+ models of the parts of `src/src/sylion-pipeline/sylion` that decide, record
and carry out what the system does: the governance tickets and their audit
chain, the approval plane that joins gates, tickets and ideas, the execution of
pipeline runs, the autonomy loop, the build workers with the modules assigned
to them, and the retry budget of failed operations. TLC checks small instances of them; TLAPS
proves the central theorems for every instance. Paths below are relative to
`src/src/sylion-pipeline/sylion/`.

## 1. Inventory

AEIS is one FastAPI process (`api/app.py`) over singletons, one per component.
Each singleton owns tables of a shared SQLite file through a connection of its
own (WAL mode, 30 s busy timeout) and guards its calls with a lock of its own.
Handlers written `def` run in a pool of threads and interleave; handlers written
`async def` without an `await` (all of `api/pipeline_routes.py`) run one at a
time on the event loop. A restart keeps every committed row and drops every
thread, lock and in-memory set. There are no transactions across components.

### Components of the core

| component | state | operations | what makes it correct |
|---|---|---|---|
| **Ticket store** `governance/ticket.py` | `governance_tickets`, `governance_ticket_events` | submit, resolve, withdraw, escalate | a final decision stays; events tell the state; an answer is durable |
| **Audit chain** `governance/audit_chain.py` over `governance/evidence_spine.py` | `spine_entries` (hash chain) | append, verify | never behind the tickets it records |
| **Human gate** `governance/human_gate.py` | requests, reviews, decision-tree sessions | create_request, submit_review, escalate_request; present, choose, undo, rollback | agrees with the mirrored ticket; a verdict reaches who waits for it |
| **Idea vault** `cognitive/idea_vault.py` | ideas with status and gate fields | update, request_approval, record_human_gate_decision, delete, ... | no idea accepted over its gate |
| **Pipeline controller** `core/pipeline_controller.py`, `api/pipeline_routes.py` | `pipeline_runs`, `_active_executions`, daemon threads | submit_idea, execute_run, cancel_run | one executor per run; no step lost; complete only when earned; executions end |
| **Run state machine** `pipeline/state_machine.py` | run state, paused_from, revisions, log | create_run, transition, pause, resume, cancel, handle_decision_change | log is the history; pauses are remembered; ended is ended |
| **Autonomy machine** `autonomy/stage_machine.py` | phase, event count, transitions | record_event, advance, steer | log and phase together; risky moves are decided and ticketed |
| **Worker fleet** `worker/registry.py`, `worker/assignment.py`, `worker/lifecycle.py`, `api/worker_routes.py` | `worker_registry` with `assigned_modules`, `worker_assignments` | register, PATCH, unregister; create, update, delete an assignment; graceful_shutdown, rebalance, auto_assign | loads tell the table; no module is lost or built twice; work lands where there is room |
| **Retry orchestrator** `execution/retry_orchestrator.py` | `retry_attempts`, `dead_letter_queue` | register_attempt, record_success, review_dlq_entry, retry_dlq_entry | the budget holds; what exhausts it is queued, and only that |

How they interact:

- submit, resolve, withdraw and escalate of a ticket call the audit chain inside
  the store's lock, *before* writing the ticket.
- `HumanGate` mirrors each request into a ticket of the same id
  (`_mirror_create`, `_mirror_resolve`, `_mirror_escalate`), best effort.
- `POST /gates/human/reviews` reviews the request, mirrors into the ticket twice
  (inside the gate and in the route) and writes the idea. `POST
  /governance/tickets/{id}/resolve` goes the other way: ticket, gate, idea.
- `PUT /ideas/{id}` either asks for approval (vault, gate, ticket, vault) or sets
  the status after a guard on the gate fields.
- `POST /runs/{id}/execute` starts a daemon thread that keeps its own copy of the
  row; cancel writes the row under it, and also calls the run state machine.
- `advance` and `steer` call the ticket store and the audit chain, both best
  effort, and commit twice on their own connection.
- Shutdown, rebalance and auto_assign are sequences of registry calls. Each call
  takes the registry's lock; nothing is held between them. Placements go by
  `assigned_modules`, which every write of an assignment makes anew afterwards.
- The autoscaler registers and unregisters workers through the same registry.
- `POST /retry/attempts` reports a failure and carries back whether to retry; the
  caller does the retrying.

### The rest of the system

`PROJECT.json` lists every part. In short: the rest of execution
(`job_runner`, `task_scheduler`, `workflow_engine`), the councils, the
decision gate engines, event bus and backbone, hot swap and cutover, circuit
breakers and self-healing, sessions, operator mobile, project mode, funding
autopilot, AEIS v2, cognitive services, memory, skills, quality, monitoring,
database pool and migrations; laboratory and device drivers; generated contracts
and stubs; the web and mobile front ends; the scripts from before the package.

### What is hard to test here

The list with its lines is `hazards` in `PROJECT.json`. The themes are:

- **two commits that should be one**: ticket and chain, transition and phase,
  request, ticket and idea;
- **connections that never roll back**: a refused statement leaves an implicit
  transaction open, and what happens next depends on which snapshot it pinned;
- **read, unlock, act**: `ticket_before`, the run state machine's guards, the
  whole-row copy of a daemon thread, the loads a rebalance saw, the count of
  attempts before the insert;
- **delete, then create**: the move of a module from worker to worker;
- **best effort mirrors**, whose failure is a log line;
- **restart** with a row that says work is in progress.

## 2. Modules

| module | models | notes |
|---|---|---|
| `TicketLifecycle` | what the store promises: one legal move at a time | abstract specification |
| `TicketStore` | ticket store and audit chain, statement by statement | implements `TicketLifecycle` on what is committed |
| `TicketStoreProofs` | theorems about `TicketStore` | TLAPS |
| `HumanGatePlane` | gate, ticket and idea, with the routes between them | instantiates `TicketLifecycle` for its tickets |
| `RunLedger` | what a reader of a run is promised: steps grow by one plan at once, one execution at a time | abstract specification |
| `PipelineExecution` | controller, execute and cancel routes, daemon threads | implements `RunLedger`; fairness: `FairSpec` |
| `PipelineStateMachine` | run state machine with several callers | |
| `AutonomyLoop` | stage machine with its ticket and audit calls | |
| `WorkerFleet` | registry, assignment orchestrator, graceful shutdown and their routes | |
| `RetryOrchestrator` | attempts, budget, dead letter queue | |
| `HumanGatePlaneProofs`, `PipelineExecutionProofs`, `PipelineStateMachineProofs`, `AutonomyLoopProofs`, `WorkerFleetProofs`, `RetryOrchestratorProofs` | theorems about the module they are named after | TLAPS |
| `MC*` | the same for TLC: symmetry sets | |

Each module has one action per operation or per step of one that others can
observe. Definitions that begin with the comment *Mutant* are not part of the
specification: each is a plausible bug of one definition, and shows that the
property listed with it in `PROJECT.json` notices that bug.

### TicketStore

`row` and `log` are what the store's connection sees, `diskRow` and `diskLog`
what is committed; they differ only inside a transaction. `op` is the operation
that holds the store's lock and its next statement: chain append, row, event,
commit. The chain commits on its own connection, so it is only ever seen
committed.

The interesting state is `tx`. Neither class calls `rollback()`. Python opens a
deferred transaction before the first write and leaves it open when that write
is refused ("open"); the next SELECT pins a snapshot; a commit by anyone else,
such as the chain append of the very operation that took the snapshot, makes the
snapshot unusable for writing ("stale"). A failure after the first write leaves
uncommitted rows behind ("dirty"), which the next commit publishes and which
keep the file's write lock, so that the chain's `BEGIN IMMEDIATE` is refused
meanwhile. `spineOpen` is the same for the chain's connection.

SQLite itself is modelled from how these files use it: a refused statement is a
fault (`MaxFaults` of them), and a failed INSERT or COMMIT either keeps the
transaction or loses it as a whole.

`SubmitAgain` is the submit that finds a row: it answers the ticket's id and
changes nothing. The row may be a leftover that is not committed; `resubmitted`
remembers who was answered so.

### HumanGatePlane

`gate`, `ticket` and `idea` are the three records, `call[th]` the route a thread
is in with the store call it makes next. Every store call is one action because
the stores lock themselves; two calls of a route are two actions because nothing
locks the route. A call that is refused by a guard is no action.

`disturbed` is a history variable. A request is disturbed when two routes
overlapped on it or on its idea, when a call of its route was lost or cut off by
a restart, when its ticket was decided before it was reviewed or escalated
again, or when an older request's verdict reached its idea. `Agreement` and
`NoOpenGateBypassed` speak of undisturbed requests; `NoBypass`, `LockHeld`,
`TicketsFollowLifecycle` hold for all.

`NoVerdictStranded` and `VerdictArrives` speak of overlapping routes too. What
they leave out is `missed`: a request whose decision began while the request was
still being created (`TooEarly`; `_touch` then erases the verdict), or whose
route was cut off before it wrote the idea, by a restart or because its last
call failed. `Busy`, `Siblings`, `Overlap` and `TooEarly` only serve this
bookkeeping.

Idea statuses that no rule of these routes tells apart are one value, "draft".

### PipelineExecution

`thread[th]` is a daemon thread: where it is in `execute_run`, its copy of the
steps, and how many of them an earlier execution had recorded (a run that is
executed again appends). `Persist` is `_persist_run`, a write of the whole row.
`Cancel` changes the status only. The execute route is two steps, since the
daemon threads run beside it: `CheckStatus` reads the row, `Execute` or
`AlreadyActive` looks at `_active_executions`. `checked` is the one request of
the serial routes that is between the two. An `execute_run` that raises in that
gap leaves a row in progress and no entry in the set, and the route starts an
execution on it. The planner, the code agent and the decision gate are choices
of outcome. A failing `thread.start()` is not modelled.

`RunLedger` has neither threads nor copies: a row, and the stage its one
execution is at. It lets an execution begin on a row in progress, for the reason
just given, as long as no other execution is under way. `Stage` maps a run to the phase of the thread that has it.
Taking the copy and recording a step in it are stutters; the last write appends
a whole plan's outcomes to what readers were shown before, with the verdict
those outcomes imply.

### PipelineStateMachine

`transition` takes the time for its log row first (state_machine.py:234) and is
then atomic under the lock, so every call is up to three steps: `Transition` or
`Read...` (pause, resume, cancel, handle_decision_change) decides, `TakeTime`
reads the clock, and `Act` or `ActRefused` is the rest on the state it finds. A
row of `log` carries that time, and `log` is in the order of the commits;
`get_history` sorts by the time. `raced` holds the runs two callers were inside
`transition` for at once. Two equal readings of `time.time()` are not modelled.
With one thread the model
is what the serial routes do; with two it is what the class offers
(tests/test_pipeline_state_machine.py uses it from threads). Nothing outside
the tests calls `create_run`, so `InitialStates` holds the two states they use.

### AutonomyLoop

`op.move` is the transition being made; `SubmitTicket` and `AppendAudit` succeed
or fail with a warning; `PersistTransition` and `UpdatePhase` are the two
commits. SQLite may refuse the statement of either, or that of `record_event`
(`PersistRefused`, `UpdateRefused`, `RecordRefused`); nobody rolls back, and `tx`
is what that leaves: a transaction open, which the next commit ends, or one whose
snapshot somebody else's commit has outdated (`Outdate`, or the move's own ticket
and audit calls), on which every write is refused until a restart. A refused
COMMIT is not modelled. `recorded` counts all events of a project, to state that
cycles use up events, and `cut` the transitions whose phase was lost between the
two commits, to a restart or to a refusal.

### WorkerFleet

`worker` is a worker's status, `row` the table of assignments in the order of
creation (a deleted row keeps its place with status "deleted", so that an id is
never used again, as the code's UUIDs), and `listed[w]` the rows that
`assigned_modules` of worker w was last made from. `call[th]` is the route a
thread is in: the step it makes next, the assignment it is about, the target of
a move, what is still to do (`todo`, `mods`), and the loads it saw (`seen`).

`create_assignment` inserts and syncs under one lock: `Insert` and `Sync` are one
action, `CrashInCreate` is a restart between its two commits.
`update_assignment` and `delete_assignment` write in one section and sync in
another: two actions (`UpdateAssignment` or `BlockRow`, then `SyncUpdated`;
`DeleteMoved`, then `SyncDeleted`). A shutdown looks at the fleet anew for each
assignment (`PickTarget`); a rebalance decides on the loads it saw at the start
(`PickUnderloaded`), auto_assign reads again the worker it has just used
(`AssignNext`). `StatementRefused` is a write of a call that SQLite refuses: the
call ends there with a 500. `SyncRefused` is the second write of
`create_assignment` refused after its INSERT is committed (registry.py:305-306);
auto_assign counts that as an error and goes on.

Abstractions: priorities, tags, domains and budgets only order or filter the
choice among workers and rows, so any choice they can lead to is taken; the
statuses of assignments that no rule tells apart from "failed" (pending,
rejected, rollback) are that one; capacity is a constant although an operator
can PATCH it, which changes the workers that have room and nothing else. It may
be 0, which a shutdown reads as 1 (worker/lifecycle.py:276; `Slots`) and the
others as no room; negative capacities are left out.

`contended`, `lost` and `unsynced` are history variables: modules handled while
two orchestrations overlapped, or set back to work by hand; modules whose move
was cut off, by a restart or a refused statement; workers whose sync was. `Held`, `Unsynced`, `Overlap`,
`Orchestrating` and `ThreadFree` serve them.

### RetryOrchestrator

`attempts[op]` counts the rows of an operation by what they tell its caller:
retry, last (the budget is used up), skipped (not retryable) and success.
`register_attempt` is three actions, one per critical section: `CountAttempts`
decides, `InsertAttempt` writes, `MoveToDlq` queues. A call may find any budget
of `Budgets`, as policies are created, updated and disabled at any time.
A statement of any of the three may be refused (`StatementRefused`), which ends
the call. `peak`, `dropped` and `overtaken` are history variables: how many calls
were between count and insert at once, moves that a restart or a refused
statement dropped, entries retried before a move that was due.

## 3. Runs

| run | instance | checks | states |
|---|---|---|---|
| `ticket_store` | 2 tickets (one with a caller's reference), 4 chain entries, 2 faults, 1 restart | types; `AuditBeforeState`, `AckDurable`, `LogTellsState`, `DeniedIsFinal`; `WedgedUntilRestart`; refinement `ImplementsLifecycle` | 2.5 M |
| `ticket_unchained` | no faults | finds `EverySubmitChained` violated | |
| `gate_plane` | 1 request, 2 threads, 1 restart, 1 lost call, fair threads | types; `NoBypass`, `Agreement`, `VerdictCarried`, `NoVerdictStranded`; `TicketsFollowLifecycle`, `LockHeld`, `NoOpenGateBypassed`; liveness `VerdictArrives` | 0.6 M |
| `gate_escalate` | 1 thread, nothing fails | finds `OnlyReviewableEscalates` violated | |
| `pipeline_execution` | 2 runs, 2 threads, 3 executions, 1 restart, fair threads | types; `OneExecutorPerRun`; `StepsOnlyGrow`, `CompleteIsEarned`; refinement `ImplementsLedger`; liveness `ExecutionEnds` | 0.3 M |
| `pipeline_cancel` | 1 run, 1 execution | finds `CancelHolds` violated | |
| `pipeline_restart` | 1 run, 1 restart | finds `InterruptedRunRecovers` violated | |
| `pipeline_states` | 1 run, 2 callers, 5 calls of `transition` | types; `LogIsHistory`, `PauseRemembered`; `EndsForGood` | 2.2 M |
| `autonomy` | 1 project, threshold 2, 4 events, 3 transitions, 1 fault, 1 refused statement, 1 restart | types; `LogWithinOne`, `EscalationIsDecided`, `CyclesAreEarned`, `MissingIsFailed` | 4.1 M |
| `worker_fleet` | 2 workers of capacity 1, 1 module, 2 assignments, 2 threads, any restarts and refusals | types; `LoadIsTrue`, `ModuleKept`, `OneBuilder` | 2.1 M |
| `worker_rebalance` | 2 workers of capacity 1, 5 assignments, 1 thread | finds `MovesIntoRoom` violated | |
| `retry` | 1 operation, 3 threads, budgets 1 to 3, 6 attempts, any restarts and refused statements | types; `ExhaustedIsQueued`, `QueueIsEarned`, `OverrunIsBounded` | 69 k |

**Bounds.** Every bound is a constant named `Max...` in the guard of the action
it limits. Four chain entries let one ticket be submitted, escalated and
resolved while another operation fails, with the two faults needed to meet a
leftover and a wedge in one behaviour. Two threads are what an overlap needs;
routes on one request never need a third, as each property relates two orders
of writes. Three executions cover an execution that is repeated while another
run executes. Five calls of `transition` (`MaxClock`) by two callers reach
a revision, a pause with its resume, a release candidate and both ends from the
two initial states, and a pair of calls that commit in the other order than they read
the clock. One refused statement of the autonomy machine
is enough for each of its writes to be the one, and for the wedge that follows,
since what an outdated snapshot refuses afterwards costs nothing; with it, three
transitions leave observe twice on the same events. Two assignments of one module are what a move, a double
placement or a lost module needs; with one place per worker, "no room" and
"moved" both occur, and the third assignment that a rebalance needs is in the
run that is about it. Operators of that instance set workers offline and never
active again (`SetStates`): an activation in the middle of a shutdown makes the
worker a target again, which it is anyway for whoever read the fleet before. The
theorems hold for any statuses operators set. Operations of the retry orchestrator share nothing but
threads, so one is enough; three threads overrun a budget by two.
`CHECK_DEADLOCK FALSE` in
all runs but `retry`: the bounds run out, and a system whose operators do
nothing rests.

**Symmetry** is used only in runs without liveness properties.

**Fairness.** `gate_plane` assumes that a pool thread which entered a route
finishes it (weak fairness of `Continue(th)` for each thread): the handlers do
not wait for each other, and their only waits are SQLite's, bounded by the busy
timeout. `pipeline_execution` assumes that a daemon thread runs on (weak fairness
of `ThreadStep(th)`): the planner, agent and gate return or raise, each call
being inside a `try`. No fairness is assumed of operators, failures or restarts.
Liveness is stated so that a restart satisfies it.

## 4. What the runs show

Holds, within the bounds:

- The audit chain is never behind: an event that reached the disk was in the
  chain before (`AuditBeforeState`), in spite of the two connections.
- What a caller was told after a commit survived every fault and restart. A
  submit that finds a row answers without one, and that answer is as good as the
  row: good while no statement has failed (`AckDurable`).
- The committed tickets move only along their lifecycle, one step at a time,
  even when a commit publishes the leftovers of a failed operation.
- No interleaving of reviews, resolves, edits and promotions accepts an idea
  whose gate asks for a decision; `needs_info` keeps the lock.
- The verdict on a request that was handled one decision at a time is never
  stranded: the idea that waits for it has it, or a route is carrying it there
  (`VerdictCarried`). However routes overlap on it, the idea has a verdict or a
  route still brings one, except for the two ways out that `missed` names
  (`NoVerdictStranded`); with fair threads it arrives (`VerdictArrives`).
- The rows of a run's log, as they were committed, are its history; sorted by
  their times they are, unless two callers were in `transition` at once.
- The autonomy loop enters escalate only by a decision, and review by one or out
  of the very stay in escalate that a decision began. It leaves observe once per
  threshold of events, and once more for each transition whose phase was lost.
- Whatever shutdowns, moves and updates interleave, the loads that placements go
  by are those of the table unless the sync was cut off, a module leaves the fleet only if a restart or a
  refused statement cuts its move in two, and without overlapping
  orchestrations no module is built by two workers.
- A retry budget is overrun only by calls that overlapped; an exhausted operation
  is queued unless a restart or a refused statement hits the gap before the move.
- A run has at most one thread, its recorded steps are never lost although each
  write replaces the row, and "complete" means a full plan of complete new steps.
  Readers see a `RunLedger`.

Does not hold, and a line of the repository says it does (`findings`): submits
that skip the chain, decided requests that can be escalated, cancels that the
thread overwrites, interrupted runs that cannot be executed again, and a
rebalance that piles what it moves on one worker.

Observed while modelling, without a run of their own:

- `needs_info` never reaches the ticket: `_sync_idea_human_gate_review`
  (api/gates_routes.py:124) means to converge the two for any decision, but
  `TicketStore` has no `update_status` and the fallback excludes it.
- A decided request can be reviewed again (governance/human_gate.py:265); its
  ticket keeps the first decision.
- A withdrawn or expired ticket leaves the request pending and the idea waiting;
  only a review of the request releases it.
- After a failed commit, `resolve` answers False about a decision that a restart
  takes back (`DeniedIsFinal` holds only while nothing fails); and one refused
  UPDATE stops the store until a restart (`WedgedUntilRestart`).
- A failed operation leaves a ticket row that the store's connection sees and the
  disk does not have. A submit of that ticket finds it and answers success
  (governance/ticket.py:343); a restart loses it (hence `faults = 0` in
  `AckDurable`).
- A decision given while `request_approval` has created the request and not yet
  touched the idea is erased by `_touch`, and the idea waits for a decided request
  (hence `missed`).
- `POST /runs/{id}/execute` reads the status (api/pipeline_routes.py:133) before it
  looks at `_active_executions` (141). If the thread writes "planning" and raises
  in between, a second execution starts on a row in progress. Without that race an
  execution that raised leaves a row that only a cancel releases.
- With several callers `get_history` can return the log out of order, so that it
  is no path: the time is taken before the lock (pipeline/state_machine.py:234, 336).
- A refused phase write of the autonomy machine leaves the transition in the log
  and the phase where it was: the loop then leaves observe again on the same events
  (autonomy/stage_machine.py:411-446). Once another connection has committed over
  its open transaction, every further write is refused until a restart.
- `create_assignment` whose sync is refused after its INSERT answers 500 although
  the assignment is there, and the worker's load misses it until the next sync
  (worker/registry.py:305-306); auto_assign counts it as an error.
- A worker of capacity 0 takes one assignment from a shutdown and none from
  anything else (worker/lifecycle.py:276, worker/assignment.py:130).
- A decision change that arrives while a run is paused is dropped, and the run
  resumes with the old plan (pipeline/state_machine.py:417). `cancel` is refused
  in idle and production_ready although its documentation says "any active".
  With threads, a resume can return to the phase of an earlier pause.
- A run executed again can be complete while steps of an earlier execution
  failed: `any_failed` looks at the new ones (`CompleteIsEarned` says just that).
- A shutdown or a rebalance acts on assignments it listed earlier: one that its
  worker completed meanwhile is set back to blocked, or deleted and given to
  another worker (worker/lifecycle.py:222, 230; worker/assignment.py:175).
  `delete_assignment` answers whether there was a row; neither looks.
- A worker that is unregistered leaves its assignments: `auto_assign` takes their
  modules for taken, no rebalance or shutdown finds them
  (worker/registry.py:221; the table's FOREIGN KEY is not enforced).
- `PATCH /workers/{id}` with tags or metadata hands a list or a dict to SQLite
  (api/worker_routes.py:211), which refuses it.
- A success is one more row of `retry_attempts` and counts against the budget of
  the next failures (execution/retry_orchestrator.py:350).
- `advance` documents tickets for classes above D0
  (autonomy/stage_machine.py:242); they start at D2, as its tests expect.

## 5. Proofs

Every theorem holds for any sets of tickets, requests, runs, ideas and threads
and for any bounds; the only assumptions are the named `ASSUME` of the module
(bounds and capacities are natural numbers, "no ticket" is no ticket, initial
states are working states, the threads that report failures are finitely many). TLC checked each inductive invariant's conclusion first, in the
run that lists the property.

**`TicketStoreProofs`**

| theorem | says |
|---|---|
| `TypeCorrect` | `Spec => []TypeOK` |
| `StoreImplementsLifecycle` | `Spec => ImplementsLifecycle` (the refinement) |
| `AuditNeverLags` | `Spec => []AuditBeforeState` |
| `LogAlwaysTells` | with `CallerRef = {}`, `Spec => []LogTellsState` |
| `AcksAreDurable` | `Spec => []AckDurable` |
| `DenialsAreFinal` | `Spec => []DeniedIsFinal` |
| `DecisionsAreKept` | `Spec => Lifecycle!FinalForever` (through the refinement) |
| `WedgeLasts` | `Spec => WedgedUntilRestart` |

The lifecycle is not inductive on its own: a commit publishes whatever the
connection holds, so one has to know that this is never more than one legal move
away from the disk. `StateInv` says so (`OneMoveAhead`), and rests on three
facts: outside a dirty transaction the view is the disk (`CleanView`), an
operation that appended to the chain never writes over leftovers, because the
append would have been refused (`ChainedIsClean`), and one that skipped the
chain can only be a submit of an absent ticket (`GuardHeld`, `LaterFacts`).
`AuditInv` adds that the entry of the running operation is newer than every
reference in the ticket's log (`EntryReady`). `TellsInv` adds that with every
submit chained, leftovers are never published (`Halfway`).
`LogAlwaysTells` needs its assumption: TLC finds a submit with a caller's
reference that commits the row of a failed operation without its event.
`AckInv` relates the answers given after a commit to the committed log. `ToldInv`
is about the answers that come without one, `ResolveDenied` and `SubmitAgain`:
without a fault nobody leaves a transaction behind, so what they read is on disk.
`WedgeLasts` rests on `Outdated`: an operation that appended to the chain has
made its own snapshot stale, so it never reaches its write in a usable
transaction, and the only operation that can is a submit that skips the chain.

**`HumanGatePlaneProofs`**

| theorem | says |
|---|---|
| `TypeCorrect` | `Spec => []TypeOK` |
| `NeverBypassed` | `Spec => []NoBypass` |
| `LockIsHeld` | `Spec => LockHeld` |
| `TicketsKeepLifecycle` | `Spec => TicketsFollowLifecycle` (the refinement) |
| `AllAgree` | `Spec => []Agreement` |
| `OpenGatesHold` | `Spec => NoOpenGateBypassed` |
| `VerdictsAreCarried` | `Spec => []VerdictCarried` |
| `OverlapsStrandNothing` | `Spec => []NoVerdictStranded` |
| `RoutesWindDown` | `Spec => RoutesEnd`: every call a route makes or loses leaves it fewer |

`IdeaMoves` lists the only ways an idea changes; the first two theorems follow
from it once `RouteKnown` says that a route about to write the idea carries a
verdict of a person. The lifecycle needs more: every write to a ticket asks
whether it is open, except the submit of the mirror. `MirroredOnce` says that
this submit finds no ticket and is the only one for its request, which holds
because nobody works on a request before it exists (`Unborn`).

Agreement is about rest, and has to be carried through every route. `Stage(r, c)`
says what the three records of request r look like while call c is between two
of its writes, `AtRest(r)` what they look like when no call is about r, and
`AgreeInv` that an undisturbed request is in one or the other (`InTurn`: at most
one call is about it). `OpenGatesHold` follows: an idea is accepted by a verdict
about its own request, or by an edit that found no open gate. Both hold for any
number of requests about one idea; TLC has checked `AgreeInv` itself with two
requests about one idea and two threads, without faults (7.2 M states).

`VerdictsAreCarried` adds `Decided`: an undisturbed request that has a verdict
has a ticket that can hold it, and no route is about to decide it again. At rest
the verdict is then where it belongs, and between two writes `Stage` says which
route carries it. With `RoutesWindDown` this is what `VerdictArrives` comes down
to: there is a carrier, and it has ever fewer calls to make.

`OverlapsStrandNothing` cannot use `Stage`, since any number of routes may be
between their writes. `BroughtInv` says of each request that is not `missed`
what survives any overlap: nobody has decided it before the idea waits for it
(`NotTooEarly`), the resolve that goes by the ticket alone finds no ticket
(`BlindFindsNothing`), and once it is decided the idea has a verdict or a route
will still write one (`NotStranded`).

**`PipelineExecutionProofs`**

| theorem | says |
|---|---|
| `TypeCorrect` | `Spec => []TypeOK` |
| `OneExecutor` | `Spec => []OneExecutorPerRun` |
| `StepsAreKept` | `Spec => StepsOnlyGrow` |
| `CompletionIsEarned` | `Spec => CompleteIsEarned` |
| `ControllerImplementsLedger` | `Spec => ImplementsLedger` (the refinement) |
| `ExecutionsWindDown` | `Spec => []NeverStuck /\ WindsDown` |

A thread overwrites the row with a copy it took earlier. `CopyExtends` says that
the copy extends the row from the thread's first write to its last, and it is
inductive only together with `OneExecutorPerRun`: no other thread writes that row
meanwhile. `OneExecutorPerRun` in turn needs that a thread has one run
(`OneRun`), or its `discard` would leave others registered.

The refinement needs to know the copy exactly, not only that it extends the row:
`CopyInStep` says that it is the row until the plan is there, and afterwards that
row with at most one plan of new steps. So the intermediate writes change no
step, and the last one adds a plan. `NeverStuck` says that a started thread is
always in a phase with an action, `WindsDown` that each of its steps (`LeftOf`)
leaves it less to do. Together they are what `ExecutionEnds` needs besides
fairness; TLC has checked them on the run's instance as well.

**`PipelineStateMachineProofs`**

| theorem | says |
|---|---|
| `TypeCorrect` | `Spec => []TypeOK` |
| `PausesAreRemembered` | `Spec => []PauseRemembered` |
| `EndsAreFinal` | `Spec => EndsForGood` |
| `LogsAreHistories` | `Spec => []LogIsHistory` |

Nothing can be said about what a caller decided on the state it read, so each
theorem rests on what `transition` checks again (`StepCases` reduces a step to a
creation, a move or none). `LogsAreHistories` needs `Unmoved`: a run without a
log is still in a state it was created in. For the order of the times it needs
`Timed`: no row and no call is ahead of the clock, and while a run is not raced
the one caller inside `transition` for it has a later time than every row
(`Alone`).

**`AutonomyLoopProofs`**

| theorem | says |
|---|---|
| `TypeCorrect` | `Spec => []TypeOK` |
| `DriftsByOne` | `Spec => []LogWithinOne` |
| `EscalationsAreDecided` | `Spec => []EscalationIsDecided` |
| `MissingAreFailed` | `Spec => []MissingIsFailed` |
| `CyclesUseEvents` | `Spec => []CyclesAreEarned` |

Each theorem adds to its property what holds between the writes of one move: the
move in flight starts in the current phase, is decided if it escalates, has as
many missing records as faults were spent on it, and has its events still
unspent. A transition that is committed and whose phase is not yet is paid for by
`cut` when it is cut off, whatever cut it. The counting ones need the
cardinalities of sets of log positions,
taken from the library's theorems on finite sets.

**`WorkerFleetProofs`**

| theorem | says |
|---|---|
| `TypeCorrect` | `Spec => []TypeOK` |
| `LoadsAreTrue` | `Spec => []LoadIsTrue` |
| `ModulesAreKept` | `Spec => []ModuleKept` |
| `OneBuilderEach` | `Spec => []OneBuilder` |

`LoadsAreTrue` and `ModulesAreKept` look at steps by their `Shape`: quiet, a status set, a sync, an
insert, a refusal or a restart (`Shapes` proves there are no others). `LoadInv`
adds that a worker that was never registered has no rows, which holds because
calls only know workers that were registered (`KnownCalls`): otherwise a worker
registered after its rows would start with a wrong load.

`OneBuilderEach` is about what a call has read and acts on later, so `BuildInv`
says for every call in flight what it may still rely on (`Sound`): the row it is
about to move, the module it has just removed from the table, the rows it
listed, the modules it found free. Each of these stays true as long as nobody
else orchestrates (`OneAtATime`), except for modules in `contended`. The theorem
says nothing after an overlap: one orchestration that starts during another
contends for every module, as nothing keeps it from any of them. TLC checked
`BuildInv` on the run's instance and on one with one worker, two modules and
three assignments (3.8 M states) before it was proved.

**`RetryOrchestratorProofs`**

| theorem | says |
|---|---|
| `TypeCorrect` | `Spec => []TypeOK` |
| `ExhaustedAreQueued` | `Spec => []ExhaustedIsQueued` |
| `EntriesAreEarned` | `Spec => []QueueIsEarned` |
| `OverrunsAreBounded` | `Spec => []OverrunIsBounded` |

A count misses only what other calls have counted and not inserted yet.
`OverrunInv` therefore counts the granted retries that are not inserted yet
(`Granting`) together with those that are, and knows that `peak` is at least the
number of calls between count and insert. It
speaks of the cardinality of a set of threads, hence the assumption that there
are finitely many.

**Only model-checked**: the liveness properties `VerdictArrives` and
`ExecutionEnds`, because fairness and `ENABLED` are out of the prover's reach
(what remains of them without fairness is proved, see above), and the
counterexamples of the runs that expect a violation. The library's induction
theorems take an operator as a parameter, which the installed provers cannot
instantiate, so nothing here is proved by induction over data; no module
declares a RECURSIVE operator.

## 6. Not modelled

Hashes and `verify_chain`; the event bus (no modelled decision depends on the
delivery of an event); `audit_sink` records after the commit; the reason policy
from D3 on (a refused call changes nothing); the wedge of the connections
of the worker registry and the retry orchestrator after a refused statement (those
of the ticket store, the chain and the autonomy machine are modelled), and refused
COMMITs outside the ticket store; a `thread.start()` that fails; equal readings of
the clock; heartbeats of workers (nothing reads them), build
topologies; `run_lifecycle_drill`, which POST /workers/fleet/lifecycle-drill offers
(api/worker_routes.py:168-176) and which is a script over the modelled calls;
`unregister_orphaned` (called by tests only); retry policies as rows, delays and jitter; other processes writing the file, beyond the faults
they cause; front ends, drivers, generated code, calls to models, and the
components section 1 lists as planned.

## 7. Plan

What is next, in this order:

1. An abstract approval, one atomic record that `HumanGatePlane` implements while
   a request is undisturbed; an abstract placement for `WorkerFleet` (a module has
   no place, one, or is on its way). Both can rest on the invariants of section 5.
2. `GateSessions` (the decision tree of governance/human_gate.py): choices, undo
   and rollback; `GovernanceSpine`: verification over a chain that grows.
3. `JobRunner` (execution/job_runner.py): `complete` and `fail` ask for no status,
   and nothing recovers a job that was running at a restart.
4. `EventBackbone` (core/event_backbone.py): the Redis backbone does not subscribe
   its topics again after a reconnect; `CouncilHybrid`; `CircuitBreaker` (two
   implementations of one abstract breaker); `CutoverController`.

Other abstract specifications worth stating: a breaker; an operation with a
budget and a queue for `RetryOrchestrator`.
