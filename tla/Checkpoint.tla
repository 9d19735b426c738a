----------------------------- MODULE Checkpoint -----------------------------
(***************************************************************************)
(* The orchestrator: what a run writes to the store and in which order,    *)
(* what a crash leaves there, and what Resume and ApproveTask make of it.  *)
(*                                                                         *)
(* An executor is a process that executes the run: one call of Run or      *)
(* Resume.  Each write of the store is a step (its writer goroutine takes  *)
(* them one by one), and so is each section of the scheduler under its     *)
(* mutex.  Slots, passes and notifications are left to module Scheduler: a *)
(* ready task may be dispatched at any time.  A task has one output key,   *)
(* and a snapshot is the set of the tasks whose outputs it holds.          *)
(***************************************************************************)
EXTENDS TaskGraph

CONSTANTS
  Execs,       \* the executors that may exist
  Plan,        \* what the planner returned
  Gated,       \* the tasks that require approval when they are made
  Yields,      \* Yields[t]: the task lists the handler of t may yield
  MayFail,     \* the tasks whose handler may return an error
  HasTimeout,  \* the tasks with a timeout
  Answers,     \* the approval handler's; {"denied"} when there is none
  Foreign,     \* IDs under which another run has finished a task
  MaxRestarts  \* bound: calls of Resume

ASSUME PlanAssumption ==
  /\ Plan \in Seq(Task) /\ Ids(Plan) \subseteq TaskIds /\ ValidateAcyclic(Plan)
  /\ \A t \in TaskIds : \A yielded \in Yields[t] :
       yielded \in Seq(Task) /\ Ids(yielded) \subseteq TaskIds
ASSUME SetsAssumption == /\ Gated \subseteq TaskIds
                         /\ MayFail \subseteq TaskIds
                         /\ HasTimeout \subseteq TaskIds
                         /\ Foreign \subseteq TaskIds
                         /\ Answers \subseteq {"approved", "denied", "error"}
                         /\ MaxRestarts \in Nat

VARIABLES
  row, rowDeps, rowGated, \* tasks: status, depends_on, requires_approval
  runStatus, saved,       \* runs: status, checkpoint_state
  phase,     \* where each executor is
  status, dependsOn,      \* its scheduler's graph
  gated,     \* the tasks it was told to ask about
  board,     \* its blackboard: the tasks whose outputs are set
  pc,        \* where the goroutine of each task is
  yielded,   \* what its handler returned
  snap,      \* the snapshot it took and has not written
  late,      \* tasks past their deadline: writes under their context fail
  toSettle,  \* the rows Run's result still has to be written to
  done,      \* history: the tasks whose handler has succeeded
  approved,  \* history: the tasks somebody has approved
  restarts   \* calls of Resume

table == <<row, rowDeps, rowGated>>
runRow == <<runStatus, saved>>
graph == <<status, dependsOn, gated>>
local == <<yielded, snap, late>>
vars == <<table, runRow, phase, graph, board, pc, local, toSettle, done, approved, restarts>>

\* GetTasks: the rows of this run.
Recorded == {t \in TaskIds : row[t] # "ABSENT"} \ Foreign

IsLive(e, t) == pc[e][t] \notin {"idle", "gone"}
Move(e, t, to) == pc' = [pc EXCEPT ![e][t] = to]

\* buildRunResultLocked.
Outcome(st) == IF \E t \in TaskIds : st[t] = "WAITING_APPROVAL"
               THEN "WAITING_APPROVAL"
               ELSE IF \E t \in TaskIds : st[t] \in {"FAILED", "TIMED_OUT"}
               THEN "FAILED_WITH_CHECKPOINT" ELSE "COMPLETED"

Nobody == [t \in TaskIds |-> "idle"]

Init ==
  /\ row = [t \in TaskIds |-> IF t \in Foreign THEN "COMPLETED" ELSE "ABSENT"]
  /\ rowDeps = [t \in TaskIds |-> {}]
  /\ rowGated = {}
  /\ runStatus = "ABSENT" /\ saved = {}
  /\ phase = [e \in Execs |-> "idle"]
  /\ status = [e \in Execs |-> [t \in TaskIds |-> "ABSENT"]]
  /\ dependsOn = [e \in Execs |-> [t \in TaskIds |-> {}]]
  /\ gated = [e \in Execs |-> {}]
  /\ board = [e \in Execs |-> {}]
  /\ pc = [e \in Execs |-> Nobody]
  /\ yielded = [e \in Execs |-> [t \in TaskIds |-> <<>>]]
  /\ snap = [e \in Execs |-> [t \in TaskIds |-> {}]]
  /\ late = [e \in Execs |-> {}]
  /\ toSettle = [e \in Execs |-> {}]
  /\ done = Foreign
  /\ approved = {}
  /\ restarts = 0

-----------------------------------------------------------------------------
(* CreateTasks: all the rows or none.  The ID is the primary key of the    *)
(* table, over all runs.                                                   *)

Creatable(tasks) == /\ ~HasDuplicateId(tasks)
                    /\ \A t \in Ids(tasks) : row[t] = "ABSENT"

CreateRows(tasks) ==
  /\ row' = [t \in TaskIds |-> IF t \in Ids(tasks) THEN "PENDING" ELSE row[t]]
  /\ rowDeps' = [t \in TaskIds |-> IF t \in Ids(tasks)
                                   THEN TaskNamed(tasks, t).dependsOn
                                   ELSE rowDeps[t]]
  /\ rowGated' = rowGated \cup (Ids(tasks) \cap Gated)

\* UpdateTaskStatus, which names the task and not the run.
Record(t, st) == row' = [row EXCEPT ![t] = IF @ = "ABSENT" THEN @ ELSE st]

\* The same under the context of a task, which may have expired.
RecordUnlessLate(e, t, st) == IF t \in late[e] THEN UNCHANGED row ELSE Record(t, st)

-----------------------------------------------------------------------------
(* Run and Resume, up to the scheduler                                     *)

CreateRun(e) ==
  /\ phase[e] = "idle" /\ runStatus = "ABSENT"
  /\ runStatus' = "RUNNING" /\ saved' = {}
  /\ phase' = [phase EXCEPT ![e] = "creating"]
  /\ UNCHANGED <<table, graph, board, pc, local, toSettle, done, approved, restarts>>

\* The rows are PENDING, and NewScheduler keeps a status that the plan names.
CreateTasks(e) ==
  /\ phase[e] = "creating"
  /\ IF Creatable(Plan)
     THEN /\ CreateRows(Plan)
          /\ status' = [status EXCEPT ![e] =
                          Insert(Plan, [t \in TaskIds |-> "ABSENT"])]
          /\ dependsOn' = [dependsOn EXCEPT ![e] = rowDeps']
          /\ gated' = [gated EXCEPT ![e] = Ids(Plan) \cap Gated]
          /\ phase' = [phase EXCEPT ![e] = "running"]
     ELSE /\ phase' = [phase EXCEPT ![e] = "idle"]
          /\ UNCHANGED <<table, graph>>
  /\ UNCHANGED <<runRow, board, pc, local, toSettle, done, approved, restarts>>

\* Resume: GetRun, and the blackboard is restored from what it read.
LoadRun(e) ==
  /\ phase[e] = "idle" /\ runStatus # "ABSENT" /\ restarts < MaxRestarts
  /\ restarts' = restarts + 1
  /\ board' = [board EXCEPT ![e] = saved]
  /\ phase' = [phase EXCEPT ![e] = "loading"]
  /\ UNCHANGED <<table, runRow, graph, pc, local, toSettle, done, approved>>

\* Mutants: skipped tasks get another chance; running ones get none.
Loaded_Skipped(st) == IF st = "COMPLETED" THEN st ELSE "PENDING"
Loaded_Running(st) ==
  IF st \in {"COMPLETED", "SKIPPED", "RUNNING"} THEN st ELSE "PENDING"

\* What becomes of a row's status: RUNNING, FAILED and WAITING_APPROVAL are
\* given another chance.
Loaded(st) == IF st \in {"COMPLETED", "SKIPPED"} THEN st ELSE "PENDING"

\* Mutant: the flag requires_approval is not carried over.
LoadTasks_NoGates(e) ==
  /\ phase[e] = "loading"
  /\ status' = [status EXCEPT ![e] = [t \in TaskIds |->
                  IF t \in Recorded THEN Loaded(row[t]) ELSE "ABSENT"]]
  /\ dependsOn' = [dependsOn EXCEPT ![e] = rowDeps]
  /\ gated' = [gated EXCEPT ![e] = {}]
  /\ phase' = [phase EXCEPT ![e] = IF Recorded = {} THEN "idle" ELSE "loaded"]
  /\ pc' = [pc EXCEPT ![e] = Nobody]
  /\ snap' = [snap EXCEPT ![e] = [t \in TaskIds |-> {}]]
  /\ late' = [late EXCEPT ![e] = {}]
  /\ UNCHANGED <<table, runRow, board, yielded, toSettle, done, approved, restarts>>

\* GetTasks; a run without tasks cannot be resumed.
LoadTasks(e) ==
  /\ phase[e] = "loading"
  /\ status' = [status EXCEPT ![e] = [t \in TaskIds |->
                  IF t \in Recorded THEN Loaded(row[t]) ELSE "ABSENT"]]
  /\ dependsOn' = [dependsOn EXCEPT ![e] = rowDeps]
  /\ gated' = [gated EXCEPT ![e] = rowGated]
  /\ phase' = [phase EXCEPT ![e] = IF Recorded = {} THEN "idle" ELSE "loaded"]
  /\ pc' = [pc EXCEPT ![e] = Nobody]
  /\ snap' = [snap EXCEPT ![e] = [t \in TaskIds |-> {}]]
  /\ late' = [late EXCEPT ![e] = {}]
  /\ UNCHANGED <<table, runRow, board, yielded, toSettle, done, approved, restarts>>

\* The run is RUNNING again, and NewScheduler accepts the graph or not.
Reopen(e) ==
  /\ phase[e] = "loaded"
  /\ runStatus' = "RUNNING" /\ saved' = board[e]
  /\ phase' = [phase EXCEPT ![e] =
                 IF IsValidGraph({t \in TaskIds : status[e][t] # "ABSENT"},
                                 dependsOn[e])
                 THEN "running" ELSE "idle"]
  /\ UNCHANGED <<table, graph, board, pc, local, toSettle, done, approved, restarts>>

-----------------------------------------------------------------------------
(* A task: the approval hook and the wrapped handler                       *)

Dispatch(e, t) ==
  /\ phase[e] = "running" /\ pc[e][t] = "idle"
  /\ IsReady(t, status[e], dependsOn[e])
  /\ status' = [status EXCEPT ![e][t] = IF t \in gated[e] THEN "WAITING_APPROVAL"
                                                          ELSE "RUNNING"]
  /\ Move(e, t, IF t \in gated[e] THEN "asking" ELSE "starting")
  /\ UNCHANGED <<table, runRow, phase, dependsOn, gated, board, local, toSettle,
                 done, approved, restarts>>

\* The hook writes the row and takes a snapshot ...
Ask(e, t) ==
  /\ pc[e][t] = "asking"
  /\ Record(t, "WAITING_APPROVAL")
  /\ snap' = [snap EXCEPT ![e][t] = board[e]]
  /\ Move(e, t, "pausing")
  /\ UNCHANGED <<rowDeps, rowGated, runRow, phase, graph, board, yielded, late,
                 toSettle, done, approved, restarts>>

\* ... writes the run's row ...
Pause(e, t) ==
  /\ pc[e][t] = "pausing"
  /\ runStatus' = "WAITING_APPROVAL" /\ saved' = snap[e][t]
  /\ Move(e, t, "asked")
  /\ UNCHANGED <<table, phase, graph, board, local, toSettle, done, approved, restarts>>

\* ... and answers.
Answer(e, t) ==
  /\ pc[e][t] = "asked"
  /\ \E answer \in Answers :
       \/ /\ answer = "approved"
          /\ status' = [status EXCEPT ![e][t] = "RUNNING"]
          /\ approved' = approved \cup {t}
          /\ Move(e, t, "starting")
       \/ /\ answer = "denied"
          /\ UNCHANGED <<status, approved>>
          /\ Move(e, t, "gone")
       \/ /\ answer = "error"
          /\ status' = [status EXCEPT ![e] =
               CascadeSkips({t}, [@ EXCEPT ![t] = "FAILED"], dependsOn[e])]
          /\ UNCHANGED approved
          /\ Move(e, t, "gone")
  /\ UNCHANGED <<table, runRow, phase, dependsOn, gated, board, local, toSettle,
                 done, restarts>>

StartWork(e, t) ==
  /\ pc[e][t] = "starting"
  /\ RecordUnlessLate(e, t, "RUNNING")
  /\ Move(e, t, "working")
  /\ UNCHANGED <<rowDeps, rowGated, runRow, phase, graph, board, local, toSettle,
                 done, approved, restarts>>

\* The deadline of the task's context passes.
Expire(e, t) ==
  /\ t \in HasTimeout \ late[e]
  /\ pc[e][t] \in {"starting", "working", "failing", "finishing", "yielding",
                   "saving", "flushing"}
  /\ late' = [late EXCEPT ![e] = @ \cup {t}]
  /\ UNCHANGED <<table, runRow, phase, graph, board, pc, yielded, snap, toSettle,
                 done, approved, restarts>>

\* The worker is done, and the task's outputs are on the blackboard.
Succeed(e, t) ==
  /\ pc[e][t] = "working"
  /\ \E tasks \in Yields[t] : yielded' = [yielded EXCEPT ![e][t] = tasks]
  /\ board' = [board EXCEPT ![e] = @ \cup {t}]
  /\ done' = done \cup {t}
  /\ Move(e, t, "finishing")
  /\ UNCHANGED <<table, runRow, phase, graph, snap, late, toSettle, approved, restarts>>

Fail(e, t) ==
  /\ pc[e][t] = "working"
  /\ t \in MayFail \cup late[e]
  /\ Move(e, t, "failing")
  /\ UNCHANGED <<table, runRow, phase, graph, board, local, toSettle, done,
                 approved, restarts>>

RecordFailure(e, t) ==
  /\ pc[e][t] = "failing"
  /\ RecordUnlessLate(e, t, "FAILED")
  /\ Move(e, t, "failed")
  /\ UNCHANGED <<rowDeps, rowGated, runRow, phase, graph, board, local, toSettle,
                 done, approved, restarts>>

ReturnError(e, t) ==
  /\ pc[e][t] = "failed"
  /\ LET st == IF t \in late[e] THEN "TIMED_OUT" ELSE "FAILED"
     IN  status' = [status EXCEPT ![e] =
                      CascadeSkips({t}, [@ EXCEPT ![t] = st], dependsOn[e])]
  /\ Move(e, t, "gone")
  /\ UNCHANGED <<table, runRow, phase, dependsOn, gated, board, local, toSettle,
                 done, approved, restarts>>

RecordSuccess(e, t) ==
  /\ pc[e][t] = "finishing"
  /\ RecordUnlessLate(e, t, "COMPLETED")
  /\ Move(e, t, IF yielded[e][t] = <<>> THEN "saving" ELSE "yielding")
  /\ UNCHANGED <<rowDeps, rowGated, runRow, phase, graph, board, local, toSettle,
                 done, approved, restarts>>

\* The yielded tasks get rows, with the dependencies the worker gave them.
RecordYield(e, t) ==
  /\ pc[e][t] = "yielding"
  /\ IF t \notin late[e] /\ Creatable(yielded[e][t])
     THEN CreateRows(yielded[e][t]) ELSE UNCHANGED table
  /\ Move(e, t, "saving")
  /\ UNCHANGED <<runRow, phase, graph, board, local, toSettle, done, approved, restarts>>

TakeSnapshot(e, t) ==
  /\ pc[e][t] = "saving"
  /\ snap' = [snap EXCEPT ![e][t] = board[e]]
  /\ Move(e, t, "flushing")
  /\ UNCHANGED <<table, runRow, phase, graph, board, yielded, late, toSettle, done,
                 approved, restarts>>

FlushSnapshot(e, t) ==
  /\ pc[e][t] = "flushing"
  /\ IF t \in late[e] THEN UNCHANGED runRow
                      ELSE runStatus' = "RUNNING" /\ saved' = snap[e][t]
  /\ Move(e, t, "returning")
  /\ UNCHANGED <<table, phase, graph, board, local, toSettle, done, approved, restarts>>

\* runTask: the scheduler takes the result and expands its graph, or refuses.
Return(e, t) ==
  /\ pc[e][t] = "returning"
  /\ LET tasks == yielded[e][t]
         finished == [status[e] EXCEPT ![t] = "COMPLETED"]
     IN IF CanExpand(t, tasks, finished, dependsOn[e])
        THEN /\ status' = [status EXCEPT ![e] = Insert(tasks, finished)]
             /\ dependsOn' = [dependsOn EXCEPT ![e] = Rewire(t, tasks, finished, @)]
             /\ gated' = [gated EXCEPT ![e] = @ \cup (Ids(tasks) \cap Gated)]
        ELSE /\ status' = [status EXCEPT ![e] =
                  CascadeSkips({t}, [@ EXCEPT ![t] = "FAILED"], dependsOn[e])]
             /\ UNCHANGED <<dependsOn, gated>>
  /\ Move(e, t, "gone")
  /\ UNCHANGED <<table, runRow, phase, board, local, toSettle, done, approved, restarts>>

Handle(e, t) ==
  \/ Ask(e, t) \/ Pause(e, t) \/ Answer(e, t) \/ StartWork(e, t)
  \/ Succeed(e, t) \/ Fail(e, t) \/ RecordFailure(e, t) \/ ReturnError(e, t)
  \/ RecordSuccess(e, t) \/ RecordYield(e, t)
  \/ TakeSnapshot(e, t) \/ FlushSnapshot(e, t) \/ Return(e, t)

-----------------------------------------------------------------------------
(* The end of a run                                                        *)

\* The first loop of each pass of Scheduler.Run.
AfterSkips(e) ==
  LET doomed == {t \in TaskIds :
                   /\ status[e][t] = "PENDING"
                   /\ \E d \in dependsOn[e][t] :
                        status[e][d] \in {"FAILED", "TIMED_OUT", "SKIPPED"}}
  IN  CascadeSkips(doomed, [t \in TaskIds |-> IF t \in doomed THEN "SKIPPED"
                                                           ELSE status[e][t]],
                   dependsOn[e])

\* Nothing runs and nothing is ready: Scheduler.Run writes the run's status,
\* with no snapshot, and returns.
EndScheduler(e) ==
  /\ phase[e] = "running"
  /\ \A t \in TaskIds : ~IsLive(e, t) /\ ~IsReady(t, status[e], dependsOn[e])
  /\ status' = [status EXCEPT ![e] = AfterSkips(e)]
  /\ runStatus' = Outcome(AfterSkips(e)) /\ saved' = {}
  /\ toSettle' = [toSettle EXCEPT ![e] =
       {t \in TaskIds : AfterSkips(e)[t] \in {"SKIPPED", "WAITING_APPROVAL"}}]
  /\ phase' = [phase EXCEPT ![e] = "settling"]
  /\ UNCHANGED <<table, dependsOn, gated, board, pc, local, done, approved, restarts>>

\* The rows of skipped tasks first, then those of waiting tasks.
Settle(e) ==
  /\ phase[e] = "settling"
  /\ \E t \in toSettle[e] :
       /\ \/ status[e][t] = "SKIPPED"
          \/ \A u \in toSettle[e] : status[e][u] # "SKIPPED"
       /\ Record(t, status[e][t])
       /\ toSettle' = [toSettle EXCEPT ![e] = @ \ {t}]
  /\ UNCHANGED <<rowDeps, rowGated, runRow, phase, graph, board, pc, local, done,
                 approved, restarts>>

\* Mutant: the last snapshot is left out, as in the scheduler's write.
FlushRun_NoSnapshot(e) ==
  /\ phase[e] = "settling" /\ toSettle[e] = {}
  /\ runStatus' = Outcome(status[e]) /\ saved' = {}
  /\ phase' = [phase EXCEPT ![e] = "idle"]
  /\ UNCHANGED <<table, graph, board, pc, local, toSettle, done, approved, restarts>>

FlushRun(e) ==
  /\ phase[e] = "settling" /\ toSettle[e] = {}
  /\ runStatus' = Outcome(status[e]) /\ saved' = board[e]
  /\ phase' = [phase EXCEPT ![e] = "idle"]
  /\ UNCHANGED <<table, graph, board, pc, local, toSettle, done, approved, restarts>>

Execute(e) == \/ CreateRun(e) \/ CreateTasks(e)
              \/ LoadTasks(e) \/ Reopen(e)
              \/ \E t \in TaskIds : Dispatch(e, t) \/ Handle(e, t)
              \/ EndScheduler(e) \/ Settle(e) \/ FlushRun(e)

-----------------------------------------------------------------------------
(* What happens from outside                                               *)

\* The process dies, or its context is cancelled, after which none of its
\* writes is carried out any more.
Stop(e) ==
  /\ phase[e] # "idle" /\ restarts < MaxRestarts
  /\ phase' = [phase EXCEPT ![e] = "idle"]
  /\ pc' = [pc EXCEPT ![e] = Nobody]
  /\ toSettle' = [toSettle EXCEPT ![e] = {}]
  /\ UNCHANGED <<table, runRow, graph, board, local, done, approved, restarts>>

\* ApproveTask, in the scope of the action or of the session, by any process.
\* Its two updates are no transaction: the second may fail.
ApproveTask(t, scope) ==
  /\ t \in Recorded
  /\ LET named == IF scope = "session" THEN Recorded ELSE {t}
     IN  /\ rowGated' = rowGated \ named
         /\ row' = [u \in TaskIds |->
                      IF u \in named /\ row[u] = "WAITING_APPROVAL"
                      THEN "PENDING" ELSE row[u]]
         /\ approved' = approved \cup (named \cap rowGated)
  /\ \/ runStatus' = IF runStatus = "WAITING_APPROVAL" THEN "RUNNING" ELSE runStatus
     \/ UNCHANGED runStatus
  /\ UNCHANGED <<rowDeps, saved, phase, graph, board, pc, local, toSettle, done,
                 restarts>>

\* What may happen as long as no process dies.
Graceful == \/ \E e \in Execs : \/ Execute(e) \/ LoadRun(e)
                                \/ \E t \in TaskIds : Expire(e, t)
            \/ \E t \in TaskIds, scope \in {"action", "session"} : ApproveTask(t, scope)

Next == Graceful \/ \E e \in Execs : Stop(e)

Spec == Init /\ [][Next]_vars

-----------------------------------------------------------------------------
(* Properties                                                              *)

Phases == {"idle", "creating", "loading", "loaded", "running", "settling"}
Places == {"idle", "asking", "pausing", "asked", "starting", "working",
           "failing", "failed", "finishing", "yielding", "saving", "flushing",
           "returning", "gone"}

TypeOK ==
  /\ row \in [TaskIds -> TaskStatus \cup {"ABSENT"}]
  /\ rowDeps \in [TaskIds -> SUBSET TaskIds]
  /\ rowGated \subseteq TaskIds
  /\ runStatus \in {"ABSENT", "RUNNING", "WAITING_APPROVAL", "COMPLETED",
                    "FAILED_WITH_CHECKPOINT"}
  /\ saved \subseteq TaskIds
  /\ phase \in [Execs -> Phases]
  /\ status \in [Execs -> [TaskIds -> TaskStatus \cup {"ABSENT"}]]
  /\ dependsOn \in [Execs -> [TaskIds -> SUBSET TaskIds]]
  /\ gated \in [Execs -> SUBSET TaskIds]
  /\ board \in [Execs -> SUBSET TaskIds]
  /\ pc \in [Execs -> [TaskIds -> Places]]
  /\ yielded \in [Execs -> [TaskIds -> Seq(Task)]]
  /\ snap \in [Execs -> [TaskIds -> SUBSET TaskIds]]
  /\ late \in [Execs -> SUBSET TaskIds]
  /\ toSettle \in [Execs -> SUBSET TaskIds]
  /\ done \subseteq TaskIds
  /\ approved \subseteq TaskIds
  /\ restarts \in 0..MaxRestarts

\* docs/cli.md: "Completed and skipped tasks are never re-executed", and work
\* begins only behind finished work, whatever crashes, expires and resumes.
Contract == INSTANCE RunContract
ImplementsContract == Contract!Spec

\* Whatever is on record as finished is on the blackboard of the executor that
\* goes on with the run, so that those who depend on it find its output.
InputsRestored ==
  \A e \in Execs, t \in TaskIds :
    pc[e][t] = "working" => dependsOn[e][t] \subseteq board[e]

\* SPEC.md: a run that failed is frozen with all of its state preserved.
FrozenIsWhole ==
  /\ runStatus = "FAILED_WITH_CHECKPOINT"
  /\ \A e \in Execs : phase[e] = "idle"
  => {t \in Recorded : row[t] = "COMPLETED"} \subseteq saved

\* SPEC.md: one may resolve the blocker of such a run and resume it.
FrozenCanResume ==
  /\ runStatus = "FAILED_WITH_CHECKPOINT"
  /\ \A e \in Execs : phase[e] = "idle"
  => Recorded # {} /\ IsValidGraph(Recorded, rowDeps)

\* SPEC.md: subtasks unblock the task behind the one that yielded them upon
\* their completion, in this execution or a later one.
SubtasksFirst ==
  \A e \in Execs, t \in TaskIds :
    pc[e][t] = "working" =>
      \A p \in rowDeps[t] : \A x \in Execs : Ids(yielded[x][p]) \subseteq done

\* No task that asks for approval is worked on, or on record as finished, before
\* somebody approved it, also when the process died while it waited and another
\* one resumes.
GateHolds ==
  \A t \in Gated :
    \/ \E e \in Execs : pc[e][t] = "working"
    \/ t \in Recorded /\ row[t] = "COMPLETED"
    => t \in approved

\* What one run does leaves the rows of the others alone.
OtherRunsUntouched == [][\A t \in Foreign : row'[t] = row[t]]_vars

\* Somebody resumes a run that is recorded as RUNNING.
Fairness == \A e \in Execs : /\ WF_vars(Execute(e))
                            /\ WF_vars(LoadRun(e) /\ runStatus = "RUNNING")
FairSpec == Spec /\ Fairness

\* A run whose tasks are on record comes to rest, ended or paused, though the
\* process that executes it dies on the way.  In one that ended, a task which the
\* last execution has put to work is still recorded as RUNNING only if its deadline
\* passed before the result could be written, under the task's own context.
Settles ==
  Recorded # {} ~>
    /\ runStatus # "RUNNING"
    /\ \A e \in Execs : phase[e] = "idle"
    /\ runStatus # "WAITING_APPROVAL" =>
         \A e \in Execs, t \in Recorded :
           row[t] = "RUNNING" /\ status[e][t] \notin {"PENDING", "SKIPPED"}
             => t \in late[e]
=============================================================================
