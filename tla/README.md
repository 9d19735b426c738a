# A formal model of Reminis

Reminis runs a workflow of LLM tasks as a dependency graph: a planner turns a
goal into tasks, a scheduler hands them to workers as their dependencies
complete, workers may yield further tasks, humans approve some of them, and
what happens is kept in SQLite so that a run can be resumed. This directory
holds TLA+ specifications of the parts whose correctness depends on order and
interleaving, the TLC runs that check them on small instances, and theorems
about them, with proofs for TLAPS. Paths below are relative to `src/`.

## Inventory

| Component | State it keeps | Operations | What is hard |
|---|---|---|---|
| `internal/dag` Scheduler | task map with statuses and dependencies, `taskOrder`, slots (`sem`), `runningCount`, `notifyCh` | `NewScheduler`, `Run`, `Expand`, per task `runTask` | one goroutine per task; slots given back outside the mutex; the graph is rewired while it runs; approval callbacks; cancellation |
| `internal/dag` ResourceLock | a mutex per cleaned path | `LockPaths` and the unlock function it returns, `UnlockPaths` | several locks taken one by one by several goroutines |
| `internal/dag` ValidateAcyclic | none | Kahn's algorithm | duplicates, unknown IDs, multi-edges |
| `internal/orchestrator` | the run: its scheduler, blackboard and rows in the store | `Run`, `executeDAG`, `Resume` | a crash between two writes, concurrent handlers each writing a snapshot, what a resume makes of what it finds |
| `orchestrator.EventEmitter` | subscribers with bounded channels | `Subscribe`, the function it returns, `Publish` | slow subscribers, unsubscribing while publishing, a printer that is told to stop |
| `internal/store` | SQLite tables, one writer goroutine | `execWrite` and the operations on runs, tasks, sessions, facts; `Close` | requests given up by their context, closing while others write |
| `internal/blackboard` | entries by key, with namespaces; files for large payloads | `Set`, `Get`, `Snapshot`, `Restore` | files written outside the lock, failing writes, restarts |
| `internal/worker` | one conversation per task | `Execute`, the tool loop, reflection | budget against recovery, timeouts |
| worker LLM client | token counters | `CreateChatCompletion` | retries with backoff under a context; several executions of a run that write their counts to one row |
| worker executor | child process, silence timer; files of the workspace | tools, `runIsolatedCommand`, `ReadFile`, `WriteFile` | timer against output, exit and cancellation; processes that outlive their parent; system calls that fail halfway |
| `internal/planner` | none | `Plan`, `parseAndValidateDAG` | retries of an invalid plan |
| `internal/session` | sessions, approval grants | `StartSession`, `EndSession`, `Grant`, `IsApproved`, `ResetSession` | grants that outlive their session |
| `internal/memory` | facts, by a hash of topic and content | `SaveFact`, `ExtractAndPersist` | a loop of saves that stops at an error, two sessions with the same fact |
| `internal/mcp` | none | `Serve`, `CallTool` | one response for each request, also when the host closes its end |
| `internal/rules`, `internal/prompt` | the prefix frozen in a session's row | discovery, compilation, text assembly | files that change between a session, its run and its resumes |
| `pkg/client` | a store behind a read-write lock | `Run`, `Resume`, `Approve`, `Close`, the operations on facts | lock held while a run lasts, callbacks that call back, handlers that outlive a cancelled call |
| `cmd/reminis` | none | commands; the printer of events and the approval prompt | prompts of concurrent tasks on one terminal, the end of the printer |

How they interact: `cmd/reminis` and `internal/mcp` call `pkg/client`, which
calls the orchestrator. The orchestrator asks the planner for tasks, writes rows,
builds a scheduler with two callbacks and calls `Run`. The scheduler calls
the handler callback in the goroutine of each task: the orchestrator's wrapper
around `worker.Execute`, which writes rows, sets blackboard keys and saves a
snapshot; and the approval callback, which writes the task's row and the run's and
asks the configured `ApprovalHandler` (orchestrator.go:317): the prompt of
`cmd/reminis`, the program's own function, or one that answers by an option. All of
them share the store, whose writes go through one goroutine. The grants of
`internal/session` are beside this: only its tests call `Grant` and `IsApproved`.

What makes each component correct: for the scheduler, that a task starts only
when everything it depends on is complete, that nothing is lost or left behind
when it stops, and that it does stop; for the locks, exclusion without
deadlock; for the orchestrator, that what a crash leaves in the store is
something a resume can continue from without repeating or losing a task; for the
store, that an acknowledged write is there; for the blackboard, that a task's
outputs are not another's; for the worker, that it ends; for sessions, that a
grant covers what was granted.

`PROJECT.json` lists each hazard of this code at the line where it bites, with the
properties about it; where the code loses and no property can hold, a note says so.

## Modules

| Module | Models | Theorems in |
|---|---|---|
| `TaskGraph` | task lists, valid graphs, `expandLocked`'s checks, cascading skips | `TaskGraphProofs` |
| `ResourceLock` | `dag/locks.go` | `ResourceLockProofs` |
| `KahnSort` | `dag/cycle.go` | `SurfaceProofs` |
| `Scheduler` | `dag/scheduler.go`; uses `TaskGraph`, maps to `ResourceLock` and `DagContract` | `SchedulerProofs` |
| `DagContract` | what the scheduler promises of the tasks' statuses | |
| `Checkpoint` | orchestrator: `Run`, `Resume`, the handler, the rows of runs and tasks; uses `TaskGraph`, maps to `RunContract` | `CheckpointProofs` |
| `RunContract` | what the store promises of the tasks of a run over crashes and resumes | |
| `Store` | `store.go`'s `execWrite`, `writeLoop`, `Close` | `StoreProofs` |
| `Blackboard` | `blackboard.go`, spill files, `persistOutputs`, the handler's part in it | `RuntimeProofs` |
| `LLMClient` | `worker/client.go`: attempts, waits, the token counter; the writes of `runs.total_tokens` | `RuntimeProofs` |
| `Worker` | `worker/worker.go`, `reflection.go`: one task's conversation | `RuntimeProofs` |
| `Watchdog` | `worker/executor.go`: commands under the silence watchdog | `RuntimeProofs` |
| `FileTools` | `worker/executor.go`: `ReadFile`, `WriteFile` | `RuntimeProofs` |
| `Sessions` | `session/session.go`, `approval.go` | `SurfaceProofs` |
| `Telemetry` | `orchestrator/events.go` and the printer of `cmd/reminis` | `SurfaceProofs` |
| `Client` | `pkg/client/client.go` under its lock | `ClientProofs` |
| `Memory` | `memory/*.go` over the table of facts | `SurfaceProofs` |
| `Prompts` | the approval prompt of `cmd/reminis` | `SurfaceProofs` |
| `McpServer` | `mcp/server.go` | `SurfaceProofs` |
| `Planner` | `planner/planner.go` | `SurfaceProofs` |
| `Rules` | `rules/*.go` and who uses which prefix | `SurfaceProofs` |
| `MCScheduler`, `MCCheckpoint` | plans and yields for the instances of two modules | |
| `MCRuntime`, `MCSurface`, `MCLiveness` | small instances of the other modules, several in one run | |

A module of proofs extends the instance whose properties it proves: `CheckpointProofs`
`MCCheckpoint`, `RuntimeProofs` `MCRuntime`, `SurfaceProofs` `MCSurface`. The constants
of those take their values from the cfg, so that a theorem about `Board!Spec`, the
specification of `Blackboard` under the names it has there, holds for all values of
its constants; the plans and values that the instances define are used by TLC alone.

Two modules compose others by refinement (`Scheduler` implements `ResourceLock` and
`DagContract`, `Checkpoint` implements `RunContract`). `Checkpoint` is the
scheduler and the store seen from the orchestrator: it keeps the sections of the
scheduler that touch the graph and lets a ready task be dispatched at any time,
which allows all that `Scheduler` allows; and each write of the store is one
step, since one goroutine executes them and `execWrite` waits for the answer (the
property `AnswerIsTrue` of `Store`).

## How the modules correspond to the code

### TaskGraph

A graph is a pair of functions over the universe of IDs: `status`, where
"ABSENT" stands for an ID that is not a key of `s.tasks`, and `dependsOn`, a
set for each ID. `IsAcyclic` is the textbook definition (no set of tasks each of
which depends on a member of it), and `KahnSort` checks that the algorithm agrees
with it. `Impacted` defines the tasks a failure takes down as the least closed
set, where the code searches breadth first; the two loops at the head of each
pass of `Run` amount to one `CascadeSkips`. `Rewire` and `CanExpand` follow
`expandLocked`. IDs are assumed not to be empty in a plan; yielded tasks may
have the empty ID, which `expandLocked` refuses.

### ResourceLock

`wanted[o]` is what `normalizePaths` made of the argument, `holder[p]` who has the
mutex of `p` locked. Each turn of the loop in `LockPaths`, and each turn of the
loop in the function it returns, is a step. A path is the rank of its
cleaned spelling, so that sorting is the order of numbers, and the constant
`Clean` maps spellings to ranks, two spellings to one rank in the checked
instances. The `sync.Once` makes a second call of the unlock function do
nothing, and is the phase "free" here.

### KahnSort

Works on lists of tasks with lists of dependencies, as the code does. The queue
is sorted after each insertion, so it is a set from which the least element is
taken; an edge counts once for each time the list mentions it.

### Scheduler

The variables are those of the struct and of `Run`'s frame. `pc[t]` says where
the goroutine of `t` is and `runPc` where `Run` is:

| `pc` | The goroutine |
|---|---|
| idle | was not started |
| start | entered `runTask` |
| asking | is in the approval callback |
| locking | is in `LockPaths` |
| handling | is in the handler |
| unlocking | runs the deferred unlock |
| releasing | is about to receive from `s.sem` |
| reporting | is about to decrement `runningCount` |
| notifying | is about to notify |
| gone | has ended |

A section under `s.mu` is one step. The pass of `Run` alone is several, because
slots come back without the mutex while it dispatches: `StartDispatch` is
everything up to the dispatch loop, then each turn of that loop is `Dispatch` or
`PassOver`, and `EndPass` gives the mutex back; meanwhile `MuIsFree` is false
and no other section runs. (The `break` at `scheduler.go:528` leaves the
`select`, not the loop, so the pass goes on trying the others.) In `AskApproval`
the notification that follows the unlock is part of the step: nothing between
the two can be told apart by another goroutine but a later wakeup.

Answers of the approval callback, failures, yields, calls of `Expand` and the
end of the caller's context are chosen from constants. `FailureStatuses` follows
the test at `scheduler.go:430`: an error becomes TIMED_OUT when the deadline of
the task's context has passed, or when the context is done and the task has a
timeout of its own.

Left out: the branch of `runTask` without an approval callback (`Run` never
dispatches a task that would reach it), results, error texts and blackboard
keys, and the write of the run's status to the store, which is `EndScheduler` of
`Checkpoint`.

### DagContract

The abstract specification: the moves of one task from status to status, each
with what must hold of its dependencies, and when its dependencies may grow.
It has two variables and knows no goroutine. `Scheduler` implements it, cancelled
or not.

### Checkpoint and RunContract

An executor is one call of `Run` or `Resume` in some process. `phase[e]` says how
far it is (creating, loading, loaded, running, settling, idle), `pc[e][t]` where the
goroutine of a task is in the orchestrator's two callbacks, and `status[e]`,
`dependsOn[e]`, `gated[e]`, `board[e]` are what it has in memory. The tables are
`row`, `rowDeps`, `rowGated` and the run's `runStatus` and `saved`. A task has one
output key, so a snapshot of the blackboard is the set of tasks whose output it holds.

| Actions | Code |
|---|---|
| `CreateRun`, `CreateTasks` | `orchestrator.Run` up to the scheduler |
| `LoadRun`, `LoadTasks`, `Reopen` | `Resume` up to the scheduler: it reads the run, then the tasks, then writes the run as RUNNING, and then builds the scheduler, which may refuse the graph |
| `Dispatch` | the scheduler's, at any moment when a task is ready |
| `Ask`, `Pause`, `Answer` | the approval callback: the task's row, the run's row with a snapshot, the answer |
| `StartWork` … `FlushSnapshot` | the wrapped handler: each row it writes is a step, the snapshot is taken in one and written in another |
| `Return`, `ReturnError` | `runTask` takes the result and expands the graph, or refuses the expansion |
| `EndScheduler`, `Settle`, `FlushRun` | the scheduler's last write, with an empty snapshot; the rows of skipped and waiting tasks; the orchestrator's last write |
| `Stop`, `Expire` | the process is killed, or its context is cancelled; a task's deadline passes, after which its own writes fail |
| `ApproveTask` | the store's operation of that name, whose second update may fail |

`RunContract` is the abstract specification: the records a task may go through. A
finished or skipped task keeps its record, work is recorded only behind finished
work, and COMPLETED is written only of work that has succeeded. It has nothing of executors
or snapshots.

A task of the plan may bring a status (its JSON has the field, types.go:46). The rows
of a plan are PENDING all the same, and `NewScheduler` keeps what the plan says
(orchestrator.go:167, 190): `CreateTasks` does both, as `Return` does for a yield.

`Settles` says what rest is. A task's last row is written under the task's own
context (orchestrator.go:240, 262). When the deadline has passed by then, the write
is dropped, and the row reads RUNNING in a run that has ended, COMPLETED or
FAILED_WITH_CHECKPOINT; `late` has these tasks. A run that pauses may also leave rows
RUNNING that its next execution turns to PENDING. `MCFairSpec` ends the resumes:
after the last of `MaxRestarts` nobody opens a run that is at rest.

`MCCheckpoint` adds a history variable, `graceful`, which `Stop` alone turns off: what
`PausesLoseNothing` promises is about processes that do not die, whatever fails,
pauses or runs out of time in them.

### Store

`pc[c]` is where a call of `execWrite` is in its two selects; each branch of a
select that is ready is an action (`GiveUp`, `Refuse`, `Send`, `SendOnClosed`;
`StopWaiting`, `Receive`), because Go picks any. `writeLoop` is `Take`, `Execute`,
`EndLoop`. `Close` is one step for each statement: the test of the flag, the two
channels it closes, and the wait followed by the close of the database. What a
statement does to the tables is in the modules of the rows.

### Blackboard

A key is the sequence of its dotted parts, so that the test for the namespace is a
strict prefix. `at[t]` takes the handler of a task through `BuildDynamicTail`
(`Get`, then `ReadPayload`, which reads a file after the lock is gone),
`persistOutputs` and the handler's own loop over the output keys. `Set` of a large
payload is three steps: the file is truncated, is filled, and only then its path
goes into the map under the lock. Each may fail, and the callers drop the error.
`Restore` is a crash with a resume: the files stay, the map is the last checkpoint.

### LLMClient

One call is `Check` (the top of the loop), `Do` (the request with its outcome),
`SleepWithJitter`, `Wake`, and the ways to return. Durations are integers of
`Width` bits, so that the shift may wrap. `ExecOf` says which execution makes a call,
`RunOf` of which run an execution is, and `ClientOf` through which client it goes: a
process has one, and a `Run` with overrides makes another.

An execution is `phase[x]`: `GetRun` (Resume reads the row, or Run begins without one),
`Reopen` (the first write: what was read, or 0), `WriteZero` (the snapshots behind a
task and at a gate, and the scheduler's last write, all with 0 tokens), `FlushRun` (the
orchestrator's last write, with the counter of the execution's client), or `Abandon`.
So several executions write `recorded` of one run, one after the other or at one time,
and each over what the others have written. `flusher` remembers whose end wrote last.

### Worker

`Execute` is the loop over tool turns; `at` names the request or the answer it is
at. The conversation is the list of messages by role and number of tool calls. A
text of the model is one of a few kinds, by what `ParseWorkerResponse` makes of it:
not JSON, a result, subtasks, JSON whose subtasks are misshapen, or any other JSON.
A request that
offers no tools gets no tool calls: what a server does that answers with
calls all the same is not modelled.

### Watchdog

Processes, the output pipe and the copying goroutine of `os/exec` are external. The
supervisor's select is four actions (`OnDone`, `OnContext`, `OnActivity`,
`OnTimer`) of which any that is ready may be taken; the caller is `Wait`, `Close`,
`Decide`. `Tick` is time; output reaches the supervisor within a tick.
`MayEscape` lets children leave the process group.

### FileTools

A system call is a step, may fail, and the process may die between any two. Files
are named by the call that created them; a name leads to a file, and a reader keeps
the file it has opened when the name leads elsewhere.

### Sessions

`EndSession` reads the row, updates it through the store and resets the grants;
`GiveUp` is an update whose context ends while it is queued, and `LateUpdate` the
writer that carries it out all the same. `IsApproved` is `Look` under the read
lock and `Consume` under the write lock. The manager has one set of grants.

### Telemetry

`Publish` holds the read lock and sends to the subscribers one by one, in any
order (`left[p]` are those still to come); a full channel drops the event.
`cli` follows the command that runs a workflow: it subscribes, runs, cancels its
printer and exits. Publishers are the run and its tasks.

### Client

`pc[f]` follows a call through Go's read-write lock: `RLock`, or `Lock` (queued for
the writers' mutex), `Announce` (from here on new readers wait) and `Acquire` (the
readers that were there have left). `Run`, `Resume`, `Approve`, `Close`, `Facts`
are what a call does under the lock.

`Run` finds the rules and asks the planner ("planning") whether or not the store is
open: with a session ID nothing before `CreateRun` uses the store (orchestrator.go:119).
`PlanFails` is an error on the way, `Begin` the rows and the run's ID, which is
published (orchestrator.go:179) and is the call itself here: from then on `Resume` may
take the run too, beside `Run`. `Refuse` is an error of `Resume` or `Approve` before
they execute.

An execution ends in one of two ways. `Finish` waits for the handlers, and so for the
calls that callbacks have made. `Abandon` comes behind `Cancel`: `Scheduler.Run` returns on
the end of its context (scheduler.go:535), the lock is free, and the handlers go on
(`active`) until `Drain`. `StoreIsOpen` and `ApproveIsAlone` say what the lock gives
all the same; that handlers left behind may meet a closed store, or tasks that
`Approve` has resumed, is among the disagreements below.

### Memory

Each session has one `ExtractAndPersist`, which may fail and be called again:
`Extract` takes the outputs in any order of their keys (a Go map), `Save` and
`SaveFails` go through the facts. `SaveManually` is the SDK's `SaveFact`. An item
stands for what the extractor makes of a sentence or of an array entry; cleaning of
topics, folding of case and the ID are functions given as constants. The
extractor's loops with their `seen` maps amount to the places in the outputs that hold
the first of the facts alike (`Deduplicate`), read in order.

### Prompts

The approval handler of the CLI: tasks that are ready ask, the human answers the last
prompt on the screen, and any goroutine that reads may get the line.
`ReadTogether` is the data race on the `bufio.Reader`: both get the line, or neither.

### McpServer

A line is handled to its end before the next is read. `HostSends` and `HostCloses`
are the host, which waits for nothing. A tool call enters the client and returns a
result or an error; both are results of the protocol.

### Planner

`Validate` is one turn of the loop in `Plan`: it accepts the answer, asks again
with what is wrong, or gives up. `Accepts` is `parseAndValidateDAG`, with
`ValidateAcyclic` taken from `TaskGraph`.

### Rules

A search looks at one candidate after the other (`Look` is `Stat`, `ReadFile`
comes later, and an edit may come between). The session's search comes first and is frozen,
the run searches for itself, and each resume takes the session's prefix. Whether the
run has a path of its own, whether the variable is set and whether the session's row
may be unreadable is chosen in the first state (`flags`).

## Runs

Start a run with `tlc -config <cfg> <module>` in this directory.

| Run | Bounds | What it shows |
|---|---|---|
| `expand` | 5 IDs, 2 slots, 2 plans, yields that fan out, chain, nest, and all that must be refused; 2 calls of `Expand` from outside | order of tasks, valid graph, COMPLETED means complete |
| `graphs` | every graph over 3 tasks listed in order, in all checkpointed states, skipped tasks among them; paths that overlap pairwise; a gate, a timeout, failures, handlers that hang, the context cancelled or past its deadline at any step | the contract; the limit; exclusion; the steps of ResourceLock; Run returns, with everything settled unless it was cancelled |
| `live` | 4 tasks, 2 gates, 2 slots, channel of capacity 1, every question answered | Run returns, workers end, ready tasks run |
| `checkpoint_crash` | 3 tasks and a possible subtask; one gated, one with a timeout, one that may fail; a yield that the scheduler refuses; 2 resumes, killed at any step, answers and approvals | the gate holds; the contract of the store; as long as no process is killed a resume has all results |
| `checkpoint_recover` | 3 tasks and a possible subtask, one that the plan calls COMPLETED; a gate, a timeout, a failure, answers and approvals; killed at any step, 1 resume | a run that somebody resumes comes to rest, and what may be left as RUNNING |
| `runtime` | below | the parts under a handler |
| `surface` | below | the parts that users, programs and hosts meet |
| `liveness` | below | what must happen in these parts |
| `unattended`, `foreign_status`, `interrupted`, `checkpoint_inputs` | as above | see Findings |

`runtime`, `surface` and `liveness` each check several modules that share no
state. The variable `part` is chosen in the initial state and never changes; only
the module it names takes steps, and the variables of the others keep the
values they had at first. So the states of the parts add up where a product
would multiply them, and the behaviours of a part are those of its own
specification with the constants given here. A property is the module's own where
one was enough, or a conjunction of its properties under one name:

| Property | Conjunction of | Instance |
|---|---|---|
| `AnswerIsTrue`, `CloseFlushes` | of `Store` | 3 callers, 2 calls of `Close`, queue of 2 |
| `BoardIsSound` | the types of `Blackboard`; `InputsAreWhole` and `EntriesAreReadable` as long as there was no crash, or at most two and no failed write | two tasks and one that reads from both; 2 crashes, 2 failing file writes |
| `ResendsAreJustified` | that of `LLMClient`, `ErrorsAreEarned`, `NeverUndercounted` | a run and its resume through one client, with a call each, 2 retries |
| `TalkIsSound` | `CallsAreAnswered`, `CostIsBounded` of `Worker` | the budgets of the code, 2 tool calls per message |
| `SilenceIsReal` | that of `Watchdog`, `ReportIsTrue` | a command and 2 children that may leave the group, 3 ticks |
| `FilesAreWhole` | `ReadsAreWhole`, `ResultIsTrue`, `NoLitter` of `FileTools` | 2 writers, 2 readers, 2 failures, 1 crash |
| `StoreIsOpen`, `ApproveIsAlone` | of `Client` | 2 goroutines, 2 runs and those they begin, callbacks that call anything but `Run`, any execution cancelled |
| `CallsReturn` | of `Client` | 3 goroutines, a run and those they begin, callbacks that do not call the client, one execution cancelled (`MaxCancelled`) |
| `GrantsAreKept` | `SpentOnce`, `SessionGrantHolds`, and `EndedHasNoGrants` unless an update was given up | 1 session, 2 calls that end it, 2 checkers |
| `EventsAreInOrder` | `NoSendOnClosed`, `InOrder` of `Telemetry` | the part "events": 1 task, the printer and a watcher; the part "crowd": 2 tasks and the printer; buffers of 2; with cancellation |
| `ReturnedIsStored` | that of `Memory`, `CreatedAtIsKept` | 2 sessions with facts alike, 2 manual saves, 2 failures |
| `ApprovedByItsAnswer` | `SomebodySaidYes`, and that of `Prompts` for plans that are chains | 3 gated tasks, in each order or all at once |
| `OneResponseEach` | of `McpServer` | 3 lines of 4 methods |
| `PlansAreSound` | that of `Planner` (`FeedbackIsCurrent`, `NoSharedKey`) and `SortIsSound` of `KahnSort` (`AcceptsValidGraphs`, `OrderIsCanonical`) | 7 plans and garbage, 2 reflections; every list of at most 3 tasks with at most 2 mentions each, of 4 with at most 1 |
| `RulesAreStable` | `StrictPriority`, `ResumesAgree` of `Rules` | 4 candidates, a path and a session that may be unreadable, or the variable; up to 2 edits and 2 resumes |
| `PausesLoseNothing` | `InputsRestored`, `FrozenIsWhole` of `Checkpoint`, as long as no process was killed | `checkpoint_crash` |
| `LoopsEnd` | `Worker.Returns`, `LLMClient.CallsReturn` (every call that is made), `BackoffInBounds`, `McpServer.AllIsServed` | the budgets of the code, 4 retries, 2 lines |
| `ReturnsWhenSilent` | that of `Watchdog`, `ReturnsWhenCancelled` | a command and a child in the group |

Why the bounds are enough: two slots are the least number at which workers
interleave and the pass can still find no slot; with three tasks there is one to pass
over. Capacity 1 for the notification channel (512 in the code) makes it full
as often as possible. The yields of `expand` include each reason for which
`expandLocked` refuses, nesting (a yielded task yields again), and a chain, whose
leaf alone is rewired. Three lock owners are the least with a circle longer than two.
In `Checkpoint` a second resume is what it takes to meet what the first one has
written; the plan has a task in front of another, so that a lost output has
somebody who misses it, and one on its own, so that two handlers save snapshots at
once. A queue of 2 with 3 callers of `execWrite` is full with one left over; two
calls of `Close` are what closes a channel twice. Two crashes and two failures in
`Blackboard`, one and two in `FileTools`, meet each step of a write and of the
next attempt; the theorems are for any number of them. Widths, budgets and retries are those of the code
where they are small, and 7 bits for the 64 of a duration, where the configured
longest wait still fits.

Branches that no passing run reaches because the code cannot: the check on top of
the worker's budget never has to stop it (`CostIsBounded` says so). Two writers of
one spill file, which may leave a mixture, need two tasks with one key, which
`Allowed` refuses for IDs without dots; a plan whose rows cannot be created needs
an ID of another run (`Foreign`).

Fairness.

- Scheduler. `RunIsFair` and `WorkIsFair`: the Go scheduler runs every runnable
  goroutine, and handlers return, since a worker's rounds are bounded in number
  and each in time (`LoopsEnd` is that claim for the worker and its client).
  `AnswersAreFair`: somebody answers every question; only `live` assumes it, and
  `unattended` shows that it is needed. `graphs` assumes fairness of `Run` alone
  (`StuckHandlersSpec`), for `CancelReturns`: a cancelled run returns though its
  handlers hang.
- Path locks. `ResourceLock` needs strong fairness of a lock attempt, where callers
  come back without end: Go's mutex in starvation mode hands itself to the longest
  waiter. Inside the scheduler each task locks once, and weak fairness is enough.
- Store, Client, Worker, LLMClient, McpServer, Telemetry. Weak fairness of each
  goroutine: it runs on when it can. Statements of the database end, requests end
  (the HTTP client has a timeout), tools and executions return. Nothing is assumed
  of who calls, subscribes, reads or sends.
- Watchdog. Time passes, the supervisor takes a branch of its select that stays
  ready, the caller runs. Nothing is assumed of the command.
- Checkpoint. An executor runs on, and somebody resumes a run that is recorded as
  RUNNING while nobody executes it. Kills are bounded by the resumes that are left.

## Findings

Four runs expect a violation; each property states what the repository says.

- `unattended`: SPEC.md:92 says that while a task waits for approval
  "non-dependent tasks continue execution". The callback runs in a goroutine that keeps its slot, so
  as many unanswered tasks as slots (4 by default) stop all others.
- `foreign_status`: the comment on `Run` says it goes on until "all reachable
  tasks reach a terminal state" or pause. `expandLocked` keeps the status a yielded task
  brings along in its JSON; inserted as RUNNING it is never dispatched, and `Run`
  returns COMPLETED with it unsettled.
- `interrupted`: `docs/cli.md:57` offers to resume an interrupted run. When the
  context ends and nothing has failed, the result says COMPLETED and
  `CanResume = false`, whatever is left.
- `checkpoint_inputs`: SPEC.md:77 says that "state snapshots are flushed to SQLite
  after every task transition to enable resume-on-failure". A task's row says
  COMPLETED before its snapshot is written, and handlers write theirs without a
  common lock: after a crash in between, or behind an older snapshot written last,
  the next task of a resumed run does not find its input.

### Disagreements seen beside the runs

For these a cfg is kept with which TLC finds the counterexample; they are not
among the runs. With a cfg of several properties, `tlc -continue` shows one for each.

| Module and cfg | Property | What the code does, what the repository says |
|---|---|---|
| `MCCheckpoint`, `MCCheckpoint_subtasks.cfg` | `SubtasksFirst` | Rewired dependencies are never written, and the task that yielded is COMPLETED before its subtasks have rows (orchestrator.go:262): after a crash the task behind it runs without them. SPEC.md:107: subtasks "unblock the designated aggregator/reducer task upon completion". |
| `MCCheckpoint`, `MCCheckpoint_unloadable.cfg` | `FrozenCanResume` | The yielded tasks get rows before the scheduler has looked at them (orchestrator.go:285); when it refuses them, every resume fails on the graph the rows make. SPEC.md:87: one may "resolve the blocker and run `reminis resume <run_id>`". |
| `MCCheckpoint`, `MCCheckpoint_twice.cfg` | `ImplementsContract` | Nothing keeps two processes from one run (resume.go:85): the second turns RUNNING tasks back to PENDING and executes what the first one completes. docs/cli.md:68: "Completed and skipped tasks are never re-executed". |
| `Store`, `Store_closed.cfg` | `ClosedIsAnError` | A call of `execWrite` that is at its select while `Close` closes the channel may panic (store.go:173). store.go:18: "ErrStoreClosed is returned when an operation is attempted on a closed store". |
| `Worker`, `Worker_claims.cfg` | `ReflectionIsUsedUp` | After the last tool turn there is one request for recovery, and then the error of exhaustion whatever the count (worker.go:195). reflection.go:17: it is returned "when Level 2 reflection fails after MaxReflectionAttempts". |
| `Worker`, `Worker_claims.cfg` | `MisshapenIsRejected` | Subtasks that do not decode make the whole answer a result (reflection.go:66). worker.go:209: "Reflection on malformed syntax / schema error". |
| `Watchdog`, `Watchdog_escape.cfg` | `ReturnsWhenSilent` | A child that has left the process group keeps the pipe open, and `cmd.Wait` has no delay after which it stops reading (executor.go:335). SPEC.md:112: execution is aborted when "zero output is emitted for `SilenceTimeout`". |
| `Telemetry`, `Telemetry_tail.cfg` | `AllIsPrinted` | The printer's select may take the end with events still in its channel (main.go:232). docs/cli.md:51 shows `[RUN_FINISHED]`. |
| `Client`, `Client_callback.cfg` | `CallsReturn` | A callback that calls the client while a writer waits for the lock waits behind it, and the execution behind the callback (client.go:131). client.go:19: "a clean, thread-safe public Go SDK". |
| `Client`, `Client_claims.cfg` | `RunsAreHeard` | A request that differs from the client's options runs under an emitter of its own (client.go:183). docs/sdk.md:41 subscribes on `c.Events()`. |
| `Client`, `Client_claims.cfg` | `HandlersHaveStore` | The context of a call ends and the call returns with handlers running, which use the store (scheduler.go:535): the lock is free, and `Close` closes it under them. client.go:19, as above. |
| `Client`, `Client_claims.cfg` | `ApproveHasTheRun` | Handlers left behind by a cancelled execution go on with the tasks of a run while `Approve` executes it anew (scheduler.go:535). client.go:19, as above. |
| `MCRuntime`, `MCRuntime_tokens.cfg` | `RunTokensRecorded` | An execution ends by writing the count of its own client over the one before (orchestrator.go:362): a run resumed in another process, or begun by a `Run` with overrides, has in its row only the tokens since. README.md:242: "Every run records token metrics". |
| `Rules`, `Rules_claims.cfg` | `FrozenForTheRun` | `Run` compiles its own prefix (orchestrator.go:119); only a resume takes the session's. SPEC.md:125: the prefix is "frozen for the run's lifecycle". |
| `Rules`, `Rules_claims.cfg` | `BaselineIsLast` | A blank file ends the search, and the baseline takes its place (compiler.go:159). SPEC.md:122: "Injected only if no upstream rules exist". |

No cfg is kept for these; each property stands in its module, with the constants said:

- `Checkpoint.FrozenIsWhole` fails when the process is killed between the scheduler's
  last write, with an empty checkpoint (scheduler.go:503), and the orchestrator's
  (orchestrator.go:362). SPEC.md:86 has all state preserved.
- `Checkpoint.OtherRunsUntouched` fails when a yielded ID belongs to another run
  (`Foreign = {"s"}`): `UpdateTaskStatus` finds its row by the task ID alone
  (store.go:305). A planned ID of another run is refused when the rows are created.
- `Blackboard.InputsAreWhole` fails with a crash and a failed write together: the
  error of `Set` is dropped (worker.go:231), the entry of the earlier execution is
  there and its file is torn. It fails too for keys that differ only in odd
  characters, whose spill files have one name (blackboard.go:57).
- `Blackboard.EntriesAreReadable` fails at the third crash without any failed write:
  another task's snapshot holds the path of a file, the process dies, the task
  writes its file again and dies in the middle, then has a small result, is
  COMPLETED and dies before its snapshot is saved, so that the old snapshot comes
  back and leads to the torn file. With one failed write it fails without a crash
  for a task that lists an output key twice.
- `Blackboard.OneWriter` and `Planner.NoSharedKey` fail for the IDs a and a.b, since a
  namespace is a string prefix (blackboard.go:47, planner.go:134). SPEC.md:75:
  "Multiple parallel tasks cannot write to the same key".
- `LLMClient.BackoffInBounds` fails when the attempts reach the width of a duration
  (client.go:302): the shift overflows and the retries come without a pause.
- A counter of tokens is the client's, for all its runs (orchestrator.go:356): two
  runs of one client are each recorded with the tokens of both. `NeverUndercounted`
  bounds the count from below only.
- `MCCheckpoint.PausesLoseNothing` and `Checkpoint.ImplementsContract` fail for a plan
  that calls a task COMPLETED on which another depends (types.go:46): nobody worked on
  it, the task behind it starts without its output, and its row says PENDING, so that
  a resume executes it after all.
- `Sessions.EndedHasNoGrants` fails when an update is given up and carried out late
  (session.go:140); `SessionGrantHolds` with two sessions, whose grants are one set
  (approval.go:136; SPEC.md:95); `EndIsIdempotent` with two concurrent calls
  (session.go:136; session_test.go:74).
- `Memory.SessionListsItsFacts` fails when another session saves the same fact, whose
  row moves to it (store.go:660; docs/cli.md:122). `OneRowPerFact` fails for two
  spellings of a fact from two calls (extractor.go:39). With an `IdOf` that joins topic
  and content by a colon, as `generateFactID` does (facts.go:75), ("db", "x:y") and
  ("db:x", "y") have one row, and `ReturnedIsStored` fails. It fails too for a topic saved
  by hand (store.go:660): the ID of an array's fact is made of the topic as it stands,
  "decisions", and the row has the cleaned one, "decision", until `SaveFact` with the
  topic "decisions", which has the same ID, writes over it.
- `Prompts.ApprovedByItsAnswer` fails when two prompts are open (main.go:170): the
  line goes to whichever goroutine reads first.

## Proofs

The theorems hold for every value of the constants that meets the assumptions the
modules name. Those on the scheduler: any tasks, plans, yields and calls of `Expand`,
any limits greater than zero (`CapacityAssumption`), any attributes of the tasks
(`TaskAttributesAssumption`), lists of well-typed tasks (`TaskListsAssumption`;
nothing is assumed of the yielded IDs, for `expandLocked` checks those), paths
ordered like natural numbers (`LockAssumption`, `PathsAssumption`), and "" not an ID
of a task (`NoTaskAssumption`). Those on the orchestrator: any valid plan and any
yields, gates, failures, deadlines and number of resumes (`PlanAssumption`,
`SetsAssumption`). Those on the other parts: any callers, closers, subscribers,
files, processes, calls, sessions, plans, lines and lists, queues, buffers and
budgets of any size, and any number of crashes, failures, edits and resumes. No
theorem needs the set of tasks to be finite; those on `ResourceLock` need finitely
many paths, and `ResendsHold` finitely many calls.

The modules that an instance composes state their assumptions as definitions, which
`RuntimeAssumption` and `SurfaceAssumption` have TLC evaluate; each theorem about such
a module has those it needs as its hypothesis (`BoardOf`, `LlmOf`, and so on). Where
a theorem needs more, the hypothesis is in its statement:

| Hypothesis | Says | Why it is needed |
|---|---|---|
| `ListsWithout` (`ReturnSettles`, `CompletedHolds`) | no task of a plan, a yield or a call of `Expand` comes as RUNNING, for the second theorem nor as SKIPPED | `expandLocked` takes the status a task brings along; the run `foreign_status` |
| `YieldsNoneCompleted` (`SubtasksComplete`) | no worker yields a task as COMPLETED | the same: the leaf of a chain that claims it lets the task behind start before the chain |
| `FreshLists` (`PausesKeep`, `RunContractHolds`, `OtherRunsHold`) | no task of the plan or of a yield comes as COMPLETED or WAITING_APPROVAL | the same: such a task has no output, or waits without having what it depends on |
| `OneExecutor` | one process at a time executes the run | nothing in the code sees to it; `MCCheckpoint_twice.cfg` |
| `ForeignApart` | no yielded ID is of another run | the row of the other run is overwritten (see the findings) |
| `DistinctYields` | two tasks yield no ID in common | the table keeps the first, the graph may get the second |
| `KeysAssumption` of `Blackboard` | a key is in one task's namespace, and has a file of its own; no task lists a key twice | IDs with dots, odd characters, and a second write of one key (see the findings) |
| `FlatIds`, in `PlansAreSound` | `NoSharedKey` is claimed of plans in which no ID lies inside the namespace of another | IDs with dots |
| `IdsApart` (`FactsHold`) | two facts that differ have not one ID | the ID is part of a hash of the topic, in lower case, a colon and the content (see the findings) |
| `OneSession`, in `GrantsAreKept` | `SessionGrantHolds` is claimed of one session | the manager has one set of grants for all |

| Theorem | States | Rests on |
|---|---|---|
| `DependenciesFirst` | `DispatchedAfterDeps` | `OrderInv` |
| `ContractHolds` | `ImplementsContract` | `OrderInv` |
| `LimitHolds` | `WorkersBounded` | `SlotInv` |
| `HandlersExclude` | `PathsExclusive` | `PathInv` |
| `LocksImplemented` | `ImplementsLocks` | `PathInv` |
| `GraphStays` | `GraphStaysValid` | `OrderInv`, `ListInv` |
| `ReturnSettles` | `ReturnsSettled` | `OrderInv`, `SlotInv`, `RunningInv` |
| `CompletedHolds` | `CompletedMeansAll` | the same and `CauseInv` |
| `SubtasksComplete` | `SubtasksFirst` | `OrderInv`, `ListInv`, `YieldInv` |
| `TypesHold` | `TypeOK` of `Scheduler` | all but `RunningInv`, `CauseInv`, `YieldInv` |
| `LockTypes`, `ReturnsWithAll`, `OverlapIsSerialized`, `SortingPreventsDeadlock` | `TypeOK`, `HoldsAll`, `Serialized`, `NoCircularWait` of `ResourceLock` | `LockInv` |
| `TypesHold`, `GatesHold` | `TypeOK`, `GateHolds` of `Checkpoint` | `TypeInv`, `LiveInv`, `SettleInv`, `GateRows`, `GateGraphs`, `GateDone` |
| `PausesKeep` | `PausesLoseNothing` | `GraphInv`, `FreshInv`, `OutputInv`, `BoardInv`, `KeptInv` |
| `RunContractHolds` | `ImplementsContract` of `Checkpoint` | `ContractInv` |
| `OtherRunsHold` | `OtherRunsUntouched` | `GraphInv`, `SettleInv`, `ForeignInv` |
| `AnswersAreTrue`, `ClosingFlushes` | `AnswerIsTrue`, `CloseFlushes` of `Store` | `IInv` of `StoreProofs` |
| `OpenUnderExecutions`, `ApproveExecutesAlone` | `StoreIsOpen`, `ApproveIsAlone` of `Client` | `IInv` of `ClientProofs` |
| `BoardHolds` | `BoardIsSound` | `LoopInv`, `OwnInv`, `KeptInv`, `SeenInv` |
| `ResendsHold` | `ResendsAreJustified` | `CallInv`, `TotalInv`, `RowInv` |
| `TalkHolds` | `TalkIsSound` | `CostInv`, `TalkInv` |
| `KillsHold` | `SilenceIsReal` | `TimerInv`, `KillInv` |
| `FilesHold` | `FilesAreWhole` | `WriteInv`, `ReadInv` |
| `GrantsHold` | `GrantsAreKept` | `Counted`, `EndingInv` |
| `EventsHold` | `EventsAreInOrder` | `EventsInv` |
| `AnswersHold` | `ApprovedByItsAnswer` | `YesInv`, `LineInv` |
| `ResponsesHold` | `OneResponseEach` | `McpInv` |
| `PlansHold`, `SortHolds`, `PlansAndOrdersHold` | the two parts of `PlansAreSound`, and the whole | `PlansInv`, `KahnInv` |
| `FactsHold` | `ReturnedIsStored` | `MemoryInv` |
| `RulesHold` | `RulesAreStable` | `FrozenInv`, `SearchInv` |

The invariants, and why the properties alone are not inductive:

- `OrderInv`. A started task gets no new dependency because a rewiring touches
  pending tasks only; so statuses are tied to where the goroutines are
  (`StatusAtPc`). A task is dispatched several steps after the pass found it
  ready; so what it found must still hold (`PassIsCurrent`), which it does as the
  pass keeps `s.mu`. A failure skips no started task because those depend on
  completed ones, which is `DispatchedAfterDeps` itself. Each step is proved to be
  a step of `DagContract` first, and the invariant is derived from that where it
  can be.
- `SlotInv`. The limit counts five places of the code; the slots are held in six,
  and `runningCount` counts seven. The invariant says which, and that a task
  dispatched is in none of them yet comes from `OrderInv`.
- `PathInv`, `LockInv`. What a goroutine holds at each place. For the absence of
  circles, all that an owner holds comes before all it still wants; in a set of
  waiting callers the one with the furthest next path then waits for nobody in
  the set.
- `ListInv`. `taskOrder` has no repetition and lists the known tasks; its length
  is their number by a bijection.
- `RunningInv`, `CauseInv`. A running task has a goroutine, and a skipped one a
  failed or skipped dependency. When `Run` finds no worker and nothing to
  dispatch, a pending task depends on an unfinished one; if nothing waits or
  failed, the pending tasks, and likewise the skipped ones, would form a cycle.
  Both invariants need lists whose statuses are not RUNNING or SKIPPED
  (`ListsWithout`). The run `graphs` covers plans with skipped tasks.
- `YieldInv`. `expandLocked` makes those behind a task wait for the leaves of what it
  yielded, not for all of it. So the invariant says that each yielded task is a
  dependency of the task behind or of another yielded one (`Guarded`), which later
  yields keep. Suppose the task behind has started and some of the yielded tasks are
  not complete. These are finitely many and without a cycle, so one of them is a
  dependency of no other (`SomeTaskIsLast`); then it is one of the task behind, or of
  a completed one, and by `DispatchedAfterDeps` it is complete.
- `StoreProofs!IInv`. A request is in exactly one place: not handed over, queued, with
  the writer, or answered; and the answer says where its statement went. A caller
  that has returned tells nothing of the request it gave up, so the invariant is
  about requests. No request is queued twice (`OnceQueued`), and what the two
  channels say of each other and of the writer (`Shut`) makes the queue empty and
  every answer given when the database is closed.
- `ClientProofs!IInv`. Who has the lock to write has announced itself (`WriterIs`) and
  has it alone (`Alone`); the operation of a call tells where it can be (`Places`);
  handlers belong to a call that executes, or to a cancelled one that has returned
  (`Handlers`). `StoreIsOpen` is about two calls, the one that closes and the one that
  executes, and only what the lock says of both keeps it (`Opened`).
- `GateRows`, `GateGraphs`, `GateDone`. A gated task is approved, or its gate is still
  closed in its row, in the graph of every executor and in what one has just read; a
  crash between the read and the write loses neither. So nobody writes COMPLETED in
  its row: the handler that would was never started, and what the end of an execution
  settles is skipped or waiting (`SettleInv`).
- `GraphInv` of `Checkpoint`. Where a goroutine is and the status of its task agree, and
  a task that is worked on, or waits, has all it depends on COMPLETED: between the
  handler's last write and the scheduler's next pass others end, fail and yield.
- `OutputInv`, `BoardInv`, `KeptInv`. `InputsRestored` is about a load; what makes it
  true is that a finished task's output is on the blackboard of whoever executes the
  run, and in the row of the run when nobody does. It is not kept step by step by
  the snapshots, which may be old, but by the orchestrator's last write, which comes
  after all handlers; and that is why it needs that the process does not die.
- `ContractInv`. Each write of a row is a step of `RunContract`. For that, what is
  finished was done (`DoneInv`), the row of a task that is still to be worked on does
  not call it finished or skipped (`RowInv`), and the graph makes a task wait for at
  least what its row says (`DepsInv`), although yielded rows come before the graph
  has them, and the graph's rewirings never come into rows.
- `LoopInv`, `OwnInv`, `KeptInv` of the blackboard. What is kept gets weaker with each
  fault, so the invariant is a chain: before a crash, an entry in the map is never
  written again (`KeptOnce`); up to the second, only the file being written can be
  torn, and every other entry, saved or in flight, leads to a whole one
  (`KeptTwice`); up to the third, what a handler has gone past is in the map and whole
  (`Stored`).
- `CallInv`, `TotalInv`, `RowInv`. The loop variable counts the requests and goes up
  behind a transient failure only. The counter of a client is the number of its calls
  that used tokens, a cardinality (`TotalInv`). The calls of an execution that has come
  to its end have returned, so what they used cannot grow behind the row, and the next
  end that goes through the same client writes no less (`RowInv`).
- `CostInv`, `TalkInv`. Every request is paid by a tool turn, a reflection or the
  one of the beginning, and the messages behind the last one with calls are their
  answers, one for each call handled so far.
- `TimerInv`, `KillInv`. The timer is behind the silence, unless output is on its way to
  set it back; so a kill for silence comes after all of it. A process is killed only
  for a reason that the supervisor has noted and that lasts, which is what the
  caller reports when it has stopped waiting.
- `WriteInv`, `ReadInv`. A temporary file belongs to one call and is whole when it is
  renamed; the path always leads to a whole file, so a reader has opened one.
- `Counted`, `EndingInv`. Every check that was answered spent a grant of its own
  capability; of the calls that end a session, one wins its update, and each that
  has returned finds the grants reset, unless an update was given up.
- `EventsInv`. What a `Publish` has left to send to is subscribed, and no subscribed
  channel is closed (`Targets`): both are kept because the write lock is had only while
  nobody publishes. For the order, where a publisher is bounds what a subscriber may
  have got from it, in its channel or before (`PublishInv`, `Fits`).
- `YesInv`, `LineInv`. In a chain only one task can be at its prompt, so the last prompt
  shown is its own, and the line that was typed was meant for it.
- `McpInv`. What was sent to the host is what the lines handled so far are owed, in
  order, as a sequence.
- `PlansInv`. The feedback is all replies but the one at hand. That no two tasks share a
  key is a fact about prefixes: two namespaces neither of which lies in the other have no key in common
  (`NamespacesApart`).
- `KahnInv`, `LoopInv`. In the loop an in-degree is the number of mentions that are not
  taken (the code subtracts one for each), the queue is the set of the tasks not taken
  with none, and no task of a set that waits for itself is ever taken. When the loop ends with all taken there is
  no such set; otherwise those left are one. So the algorithm is shown correct for
  lists of every length without induction over them: the induction is over its steps.
- `MemoryInv`. Of what a call will return each fact is in the table or still to be saved,
  and no save of another fact, with another ID, takes it out again. What it will
  return are the first facts of those alike, a finite set in the order of the outputs.
- `FrozenInv`, `SearchInv`. A search goes past nothing but missing files, and never past
  the path or the variable, as long as no file has changed since it began. The
  session's prefix is frozen before the first execution, and only an execution whose
  session cannot be read searches again.

Proved and not among the runs' properties: the two theorems `TypesHold`, whose
`TypeOK` says more than types; `TypeOK`, `HoldsAll` and `Serialized` of
`ResourceLock`; `OtherRunsHold`.

Every safety property of the passing runs, and every refinement, is stated by a
theorem. Checked by TLC only are the liveness properties, which need fairness and
ENABLED, out of the prover's reach.

What is left to prove are properties of the findings under the conditions where they
hold: that no two tasks write one key when their namespaces are apart (`OneWriter`),
that a second end of a session changes nothing when the calls come one after the
other (`EndIsIdempotent`), and that the waits keep their bounds for fewer attempts
than a duration has bits (`BackoffInBounds`), which is arithmetic with powers of two.

## Not modelled

- Text: the prompts, the padding and hash of the compiled rules, which sentence counts
  as a fact, arguments of tools and their parsing, the requests' bodies and headers.
- SQL text, the schema and the full-text search of `store`; the reads that change
  nothing (`ListKeys`, `SearchFacts`, listings of runs, tasks and sessions).
- `cmd/reminis` beyond its printer and its prompt: flags, output, and the `mem` and
  `prefix` commands, which call `pkg/client` and print.
- `worker/proc_windows.go`, and the reuse of process numbers by the system, under
  which a signal might reach another group.
- The listing of `~/.config/gentle-ai`, taken as fixed in `Rules`.
- `scheduler.Run`'s branch without an approval callback, which nothing reaches.
