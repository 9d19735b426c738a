----------------------------- MODULE Scheduler -----------------------------
(***************************************************************************)
(* dag.Scheduler: the goroutine of Run, which looks for ready tasks and    *)
(* dispatches them, one goroutine per dispatched task (runTask), and the   *)
(* callers of Expand.                                                      *)
(*                                                                         *)
(* Every section of the code under s.mu is one step, except the pass of    *)
(* Run: workers give their slots back without the mutex, so they may do it *)
(* between two dispatches of one pass.  Run then holds s.mu from Pass to   *)
(* EndPass, and every other section waits for MuIsFree.                    *)
(*                                                                         *)
(* The branch of runTask for a nil approval callback is not here: Run      *)
(* never dispatches such a task.                                           *)
(***************************************************************************)
EXTENDS TaskGraph

CONSTANTS
  Plans,            \* the task lists NewScheduler may be given
  MaxConcurrency,   \* cap(s.sem)
  NotifyCap,        \* cap(s.notifyCh): 512 in the code
  RequiresApproval, \* the tasks with RequiresApproval
  HasTimeout,       \* the tasks with TimeoutSeconds > 0
  Interactive,      \* s.onWaitingApproval # nil
  Answers,          \* what the approval callback may answer
  MayFail,          \* the tasks whose handler may return an error
  Yields,           \* Yields[t]: the task lists t's handler may yield
  Expansions,       \* the calls of Expand another goroutine may make
  CtxEnds,          \* how the caller's context may end
  Spellings, Paths, Clean, \* see ResourceLock
  TargetPaths       \* TargetPaths[t]: the paths of task t, as it spells them

ASSUME CapacityAssumption == /\ MaxConcurrency \in Nat \ {0}
                             /\ NotifyCap \in Nat \ {0}
ASSUME TaskAttributesAssumption ==
  /\ RequiresApproval \subseteq TaskIds
  /\ HasTimeout \subseteq TaskIds
  /\ MayFail \subseteq TaskIds
  /\ TargetPaths \in [TaskIds -> SUBSET Spellings]
  /\ Interactive \in BOOLEAN
ASSUME TaskListsAssumption ==
  /\ \A plan \in Plans : plan \in Seq(Task) /\ Ids(plan) \subseteq TaskIds
  /\ \A t \in TaskIds : \A yielded \in Yields[t] : yielded \in Seq(Task)
  /\ \A e \in Expansions : /\ e.parent \in TaskIds \cup {NoTask}
                           /\ e.tasks \in Seq(Task)
ASSUME AnswersAssumption ==
  /\ Answers \subseteq {"approved", "denied", "error"}
  /\ CtxEnds \subseteq {"cancelled", "deadline"}
ASSUME LockAssumption == Paths \subseteq Nat /\ Clean \in [Spellings -> Paths]

VARIABLES
  status,       \* s.tasks[t].Status, "ABSENT" when t is not in s.tasks
  dependsOn,    \* s.tasks[t].DependsOn
  taskOrder,    \* s.taskOrder
  runPc,        \* where Run is: "lock", "dispatch", "wait" or "done"
  toDispatch,   \* during a pass: the runnable tasks the loop has not tried
  runningCount, \* Run's count of workers that have not reported back
  result,       \* what Run returned
  sem,          \* the tasks whose goroutine holds a slot of s.sem
  wakeups,      \* len(s.notifyCh)
  pc,           \* where the goroutine of each task is
  holder,       \* the task that holds the mutex of each path
  ctx,          \* "live", or how the caller's context ended
  yieldedBy     \* history: the task whose handler yielded t, or NoTask

vars == <<status, dependsOn, taskOrder, runPc, toDispatch, runningCount,
          result, sem, wakeups, pc, holder, ctx, yieldedBy>>

graph == <<status, dependsOn, taskOrder, yieldedBy>>
run   == <<runPc, toDispatch, result>>

Known == {t \in TaskIds : status[t] # "ABSENT"}

\* A goroutine was started for t; it has yet to end.
IsLive(t) == pc[t] \notin {"idle", "gone"}

MuIsFree == runPc # "dispatch"

\* notify drops the token when the channel is full.
Notify == wakeups' = IF wakeups < NotifyCap THEN wakeups + 1 ELSE wakeups

NoResult == [status |-> "RUNNING", completed |-> {}, skipped |-> {},
             waiting |-> {}, failedTask |-> NoTask]

Init ==
  \E plan \in Plans :
    /\ ValidateAcyclic(plan)
    /\ status = [t \in TaskIds |-> IF t \in Ids(plan)
                                   THEN StatusOf(TaskNamed(plan, t))
                                   ELSE "ABSENT"]
    /\ dependsOn = [t \in TaskIds |-> IF t \in Ids(plan)
                                      THEN TaskNamed(plan, t).dependsOn
                                      ELSE {}]
    /\ taskOrder = [i \in DOMAIN plan |-> plan[i].id]
    /\ runPc = "lock"
    /\ toDispatch = {}
    /\ runningCount = 0
    /\ result = NoResult
    /\ sem = {}
    /\ wakeups = 0
    /\ pc = [t \in TaskIds |-> "idle"]
    /\ holder = [p \in Paths |-> NoTask]
    /\ ctx = "live"
    /\ yieldedBy = [t \in TaskIds |-> NoTask]

-----------------------------------------------------------------------------
(* The goroutine of Run                                                    *)

\* The pending tasks that depend on a failed or skipped one are skipped, and
\* so is what depends on them.
AfterSkips ==
  LET doomed == {t \in Known :
                   /\ status[t] = "PENDING"
                   /\ \E d \in dependsOn[t] :
                        status[d] \in {"FAILED", "TIMED_OUT", "SKIPPED"}}
  IN  CascadeSkips(doomed,
                   [t \in TaskIds |-> IF t \in doomed THEN "SKIPPED"
                                                      ELSE status[t]],
                   dependsOn)

Ready == {t \in TaskIds : IsReady(t, AfterSkips, dependsOn)}

\* With nobody to ask, a ready task that needs approval waits for a resume.
Paused == IF Interactive THEN {} ELSE Ready \cap RequiresApproval

Runnable == Ready \ Paused

AfterPass == [t \in TaskIds |-> IF t \in Paused THEN "WAITING_APPROVAL"
                                               ELSE AfterSkips[t]]

\* The task of S that comes first in taskOrder is t.
IsFirst(t, S) ==
  /\ t \in S
  /\ \E i \in DOMAIN taskOrder :
       taskOrder[i] = t /\ \A j \in 1..(i - 1) : taskOrder[j] \notin S

\* Mutant: the switch forgets TIMED_OUT.
RunResult_NoTimeout(st) ==
  LET known   == {t \in TaskIds : st[t] # "ABSENT"}
      with(S) == {t \in known : st[t] \in S}
      failed  == with({"FAILED"})
      waiting == with({"WAITING_APPROVAL"})
  IN  [status     |-> IF waiting # {} THEN "WAITING_APPROVAL"
                      ELSE IF failed # {} THEN "FAILED_WITH_CHECKPOINT"
                      ELSE "COMPLETED",
       completed  |-> with({"COMPLETED"}),
       skipped    |-> with({"SKIPPED"}),
       waiting    |-> waiting,
       failedTask |-> NoTask]

\* buildRunResultLocked.
RunResult(st) ==
  LET known   == {t \in TaskIds : st[t] # "ABSENT"}
      with(S) == {t \in known : st[t] \in S}
      failed  == with({"FAILED", "TIMED_OUT"})
      waiting == with({"WAITING_APPROVAL"})
  IN  [status     |-> IF waiting # {} THEN "WAITING_APPROVAL"
                      ELSE IF failed # {} THEN "FAILED_WITH_CHECKPOINT"
                      ELSE "COMPLETED",
       completed  |-> with({"COMPLETED"}),
       skipped    |-> with({"SKIPPED"}),
       waiting    |-> waiting,
       failedTask |-> IF waiting = {} /\ failed # {}
                      THEN CHOOSE t \in failed : IsFirst(t, failed)
                      ELSE NoTask]

\* Mutant: nothing to dispatch is enough.
FinishRun_IgnoresWorkers ==
  /\ runPc = "lock"
  /\ Runnable = {}
  /\ status' = AfterPass
  /\ result' = RunResult(AfterPass)
  /\ runPc' = "done"
  /\ UNCHANGED <<dependsOn, taskOrder, toDispatch, runningCount, sem, wakeups,
                 pc, holder, ctx, yieldedBy>>

\* No worker is left and nothing can be dispatched: Run returns.  (It then
\* writes the run's status to the store; see the checkpointing modules.)
FinishRun ==
  /\ runPc = "lock"
  /\ runningCount = 0
  /\ Runnable = {}
  /\ status' = AfterPass
  /\ result' = RunResult(AfterPass)
  /\ runPc' = "done"
  /\ UNCHANGED <<dependsOn, taskOrder, toDispatch, runningCount, sem, wakeups,
                 pc, holder, ctx, yieldedBy>>

StartDispatch ==
  /\ runPc = "lock"
  /\ ~(runningCount = 0 /\ Runnable = {})
  /\ status' = AfterPass
  /\ toDispatch' = Runnable
  /\ runPc' = "dispatch"
  /\ UNCHANGED <<dependsOn, taskOrder, runningCount, result, sem, wakeups, pc,
                 holder, ctx, yieldedBy>>

\* Mutant: no slot is needed.
Dispatch_NoLimit ==
  /\ runPc = "dispatch"
  /\ \E t \in toDispatch :
       /\ IsFirst(t, toDispatch)
       /\ toDispatch' = toDispatch \ {t}
       /\ sem' = sem \cup {t}
       /\ status' = [status EXCEPT ![t] = "RUNNING"]
       /\ pc' = [pc EXCEPT ![t] = "start"]
  /\ runningCount' = runningCount + 1
  /\ UNCHANGED <<dependsOn, taskOrder, runPc, result, wakeups, holder, ctx,
                 yieldedBy>>

\* A slot is free: the next runnable task is handed to a new goroutine.
Dispatch ==
  /\ runPc = "dispatch"
  /\ Cardinality(sem) < MaxConcurrency
  /\ \E t \in toDispatch :
       /\ IsFirst(t, toDispatch)
       /\ toDispatch' = toDispatch \ {t}
       /\ sem' = sem \cup {t}
       /\ status' = [status EXCEPT ![t] = "RUNNING"]
       /\ pc' = [pc EXCEPT ![t] = "start"]
  /\ runningCount' = runningCount + 1
  /\ UNCHANGED <<dependsOn, taskOrder, runPc, result, wakeups, holder, ctx,
                 yieldedBy>>

\* The default branch: its break leaves the select, not the loop.
PassOver ==
  /\ runPc = "dispatch"
  /\ Cardinality(sem) >= MaxConcurrency
  /\ \E t \in toDispatch :
       IsFirst(t, toDispatch) /\ toDispatch' = toDispatch \ {t}
  /\ UNCHANGED <<graph, runPc, runningCount, result, sem, wakeups, pc, holder,
                 ctx>>

EndPass ==
  /\ runPc = "dispatch"
  /\ toDispatch = {}
  /\ runPc' = "wait"
  /\ UNCHANGED <<graph, toDispatch, runningCount, result, sem, wakeups, pc,
                 holder, ctx>>

Wake ==
  /\ runPc = "wait"
  /\ wakeups > 0
  /\ wakeups' = wakeups - 1
  /\ runPc' = "lock"
  /\ UNCHANGED <<graph, toDispatch, runningCount, result, sem, pc, holder, ctx>>

\* Mutants: Run waits for its workers; Run settles what it leaves behind.
ReturnCancelled_AfterWorkers ==
  /\ runPc = "wait"
  /\ ctx # "live"
  /\ runningCount = 0
  /\ runPc' = "done"
  /\ result' = RunResult(status)
  /\ UNCHANGED <<graph, toDispatch, runningCount, sem, wakeups, pc, holder, ctx>>

ReturnCancelled_Skips ==
  /\ runPc = "wait"
  /\ ctx # "live"
  /\ runPc' = "done"
  /\ status' = [t \in TaskIds |-> IF status[t] \in {"PENDING", "RUNNING"}
                                 THEN "SKIPPED" ELSE status[t]]
  /\ result' = RunResult(status')
  /\ UNCHANGED <<dependsOn, taskOrder, yieldedBy, toDispatch, runningCount, sem,
                 wakeups, pc, holder, ctx>>

\* Run returns ctx.Err() with the result as it stands, its workers alive.
ReturnCancelled ==
  /\ runPc = "wait"
  /\ ctx # "live"
  /\ runPc' = "done"
  /\ result' = RunResult(status)
  /\ UNCHANGED <<graph, toDispatch, runningCount, sem, wakeups, pc, holder, ctx>>

RunLoop == \/ FinishRun \/ StartDispatch \/ Dispatch \/ PassOver \/ EndPass
           \/ Wake \/ ReturnCancelled

-----------------------------------------------------------------------------
(* The goroutine of a task: runTask and the function that calls it         *)

WantedPaths(t) == {Clean[s] : s \in TargetPaths[t]}
HeldPaths(t)   == {p \in Paths : holder[p] = t}

\* Past the gate, a task locks its paths if it has any.
AfterGate(t) == IF WantedPaths(t) = {} THEN "handling" ELSE "locking"

\* Mutant: the unlock function is not deferred.
AfterWork_NoUnlock(t) == "releasing"

\* After its work the deferred functions run: the unlock, then <-s.sem.
AfterWork(t) == IF HeldPaths(t) = {} THEN "releasing" ELSE "unlocking"

AskApproval(t) ==
  /\ pc[t] = "start"
  /\ t \in RequiresApproval
  /\ MuIsFree
  /\ status' = [status EXCEPT ![t] = "WAITING_APPROVAL"]
  /\ pc' = [pc EXCEPT ![t] = "asking"]
  /\ Notify
  /\ UNCHANGED <<dependsOn, taskOrder, yieldedBy, run, runningCount, sem, holder,
                 ctx>>

SkipGate(t) ==
  /\ pc[t] = "start"
  /\ t \notin RequiresApproval
  /\ pc' = [pc EXCEPT ![t] = AfterGate(t)]
  /\ UNCHANGED <<graph, run, runningCount, sem, wakeups, holder, ctx>>

Approve(t) ==
  /\ pc[t] = "asking"
  /\ "approved" \in Answers
  /\ MuIsFree
  /\ status' = [status EXCEPT ![t] = "RUNNING"]
  /\ pc' = [pc EXCEPT ![t] = AfterGate(t)]
  /\ UNCHANGED <<dependsOn, taskOrder, yieldedBy, run, runningCount, sem,
                 wakeups, holder, ctx>>

Deny(t) ==
  /\ pc[t] = "asking"
  /\ "denied" \in Answers
  /\ MuIsFree
  /\ status' = [status EXCEPT ![t] = "WAITING_APPROVAL"]
  /\ pc' = [pc EXCEPT ![t] = "releasing"]
  /\ UNCHANGED <<dependsOn, taskOrder, yieldedBy, run, runningCount, sem,
                 wakeups, holder, ctx>>

\* t gets the final status f, and what depends on it is skipped.
Fail(t, f) ==
  status' = CascadeSkips({t}, [status EXCEPT ![t] = f], dependsOn)

ApprovalError(t) ==
  /\ pc[t] = "asking"
  /\ "error" \in Answers
  /\ MuIsFree
  /\ Fail(t, "FAILED")
  /\ pc' = [pc EXCEPT ![t] = "releasing"]
  /\ UNCHANGED <<dependsOn, taskOrder, yieldedBy, run, runningCount, sem,
                 wakeups, holder, ctx>>

\* Mutant: every call makes a mutex of its own (Store, not LoadOrStore).
LockNext_Store(t) ==
  /\ pc[t] = "locking"
  /\ \E p \in WantedPaths(t) \ HeldPaths(t) :
       /\ \A q \in WantedPaths(t) \ HeldPaths(t) : p <= q
       /\ holder' = [holder EXCEPT ![p] = t]
       /\ pc' = [pc EXCEPT ![t] = IF WantedPaths(t) \ HeldPaths(t) = {p}
                                  THEN "handling" ELSE "locking"]
  /\ UNCHANGED <<graph, run, runningCount, sem, wakeups, ctx>>

\* One turn of LockPaths (ResourceLock!LockNext), outside s.mu.
LockNext(t) ==
  /\ pc[t] = "locking"
  /\ \E p \in WantedPaths(t) \ HeldPaths(t) :
       /\ \A q \in WantedPaths(t) \ HeldPaths(t) : p <= q
       /\ holder[p] = NoTask
       /\ holder' = [holder EXCEPT ![p] = t]
       /\ pc' = [pc EXCEPT ![t] = IF WantedPaths(t) \ HeldPaths(t) = {p}
                                  THEN "handling" ELSE "locking"]
  /\ UNCHANGED <<graph, run, runningCount, sem, wakeups, ctx>>

\* The handler returned a result and the tasks it yields, and they fit.
Complete(t, yielded) ==
  LET completed == [status EXCEPT ![t] = "COMPLETED"]
  IN  /\ pc[t] = "handling"
      /\ MuIsFree
      /\ CanExpand(t, yielded, completed, dependsOn)
      /\ status' = Insert(yielded, completed)
      /\ dependsOn' = Rewire(t, yielded, completed, dependsOn)
      /\ taskOrder' = taskOrder \o [i \in DOMAIN yielded |-> yielded[i].id]
      /\ yieldedBy' = [u \in TaskIds |-> IF u \in Ids(yielded) THEN t
                                                              ELSE yieldedBy[u]]
      /\ pc' = [pc EXCEPT ![t] = AfterWork(t)]
      /\ UNCHANGED <<run, runningCount, sem, wakeups, holder, ctx>>

\* They do not fit: the task fails after all.
RejectYield(t, yielded) ==
  /\ pc[t] = "handling"
  /\ MuIsFree
  /\ ~CanExpand(t, yielded, [status EXCEPT ![t] = "COMPLETED"], dependsOn)
  /\ Fail(t, "FAILED")
  /\ pc' = [pc EXCEPT ![t] = AfterWork(t)]
  /\ UNCHANGED <<dependsOn, taskOrder, yieldedBy, run, runningCount, sem,
                 wakeups, holder, ctx>>

\* The statuses an error of the handler may give t.  taskCtx is derived from
\* the caller's context, and its own deadline may pass at any time.
FailureStatuses(t) ==
  IF ctx = "deadline" \/ (ctx = "cancelled" /\ t \in HasTimeout)
  THEN {"TIMED_OUT"}
  ELSE (IF t \in MayFail \/ ctx = "cancelled" THEN {"FAILED"} ELSE {})
       \cup (IF t \in HasTimeout THEN {"TIMED_OUT"} ELSE {})

HandlerError(t) ==
  /\ pc[t] = "handling"
  /\ MuIsFree
  /\ \E f \in FailureStatuses(t) : Fail(t, f)
  /\ pc' = [pc EXCEPT ![t] = AfterWork(t)]
  /\ UNCHANGED <<dependsOn, taskOrder, yieldedBy, run, runningCount, sem,
                 wakeups, holder, ctx>>

\* Mutant: the loop ends at i > 0 and leaves the first mutex.
UnlockNext_LeavesFirst(t) ==
  /\ pc[t] = "unlocking"
  /\ \E p \in HeldPaths(t) :
       /\ \A q \in HeldPaths(t) : q <= p
       /\ IF HeldPaths(t) = {p}
          THEN pc' = [pc EXCEPT ![t] = "releasing"] /\ UNCHANGED holder
          ELSE holder' = [holder EXCEPT ![p] = NoTask] /\ UNCHANGED pc
  /\ UNCHANGED <<graph, run, runningCount, sem, wakeups, ctx>>

\* One turn of the unlock function (ResourceLock!UnlockNext).
UnlockNext(t) ==
  /\ pc[t] = "unlocking"
  /\ \E p \in HeldPaths(t) :
       /\ \A q \in HeldPaths(t) : q <= p
       /\ holder' = [holder EXCEPT ![p] = NoTask]
       /\ pc' = [pc EXCEPT ![t] = IF HeldPaths(t) = {p} THEN "releasing"
                                                       ELSE "unlocking"]
  /\ UNCHANGED <<graph, run, runningCount, sem, wakeups, ctx>>

\* Mutant: a slot leaks.
ReleaseSlot_Leaks(t) ==
  /\ pc[t] = "releasing"
  /\ pc' = [pc EXCEPT ![t] = "reporting"]
  /\ UNCHANGED <<graph, run, runningCount, sem, wakeups, holder, ctx>>

ReleaseSlot(t) ==
  /\ pc[t] = "releasing"
  /\ sem' = sem \ {t}
  /\ pc' = [pc EXCEPT ![t] = "reporting"]
  /\ UNCHANGED <<graph, run, runningCount, wakeups, holder, ctx>>

Report(t) ==
  /\ pc[t] = "reporting"
  /\ MuIsFree
  /\ runningCount' = runningCount - 1
  /\ pc' = [pc EXCEPT ![t] = "notifying"]
  /\ UNCHANGED <<graph, run, sem, wakeups, holder, ctx>>

\* Mutant: the worker ends without a notification.
NotifyEnd_Silent(t) ==
  /\ pc[t] = "notifying"
  /\ pc' = [pc EXCEPT ![t] = "gone"]
  /\ UNCHANGED <<graph, run, runningCount, sem, wakeups, holder, ctx>>

NotifyEnd(t) ==
  /\ pc[t] = "notifying"
  /\ Notify
  /\ pc' = [pc EXCEPT ![t] = "gone"]
  /\ UNCHANGED <<graph, run, runningCount, sem, holder, ctx>>

Answer(t) == Approve(t) \/ Deny(t) \/ ApprovalError(t)

\* What the goroutine of t does but for waiting for an answer.
Work(t) == \/ AskApproval(t) \/ SkipGate(t) \/ LockNext(t)
           \/ \E yielded \in Yields[t] : \/ Complete(t, yielded)
                                         \/ RejectYield(t, yielded)
           \/ HandlerError(t)
           \/ UnlockNext(t) \/ ReleaseSlot(t) \/ Report(t) \/ NotifyEnd(t)

-----------------------------------------------------------------------------
(* The environment                                                         *)

\* Another goroutine calls Expand; a call that is refused changes nothing.
Expand(parent, yielded) ==
  /\ MuIsFree
  /\ CanExpand(parent, yielded, status, dependsOn)
  /\ status' = Insert(yielded, status)
  /\ dependsOn' = Rewire(parent, yielded, status, dependsOn)
  /\ taskOrder' = taskOrder \o [i \in DOMAIN yielded |-> yielded[i].id]
  /\ Notify
  /\ UNCHANGED <<run, runningCount, sem, pc, holder, ctx, yieldedBy>>

EndCtx ==
  /\ ctx = "live"
  /\ ctx' \in CtxEnds
  /\ UNCHANGED <<graph, run, runningCount, sem, wakeups, pc, holder>>

\* Run has returned and no goroutine is left.
Terminated ==
  /\ runPc = "done"
  /\ \A t \in TaskIds : ~IsLive(t)
  /\ UNCHANGED vars

Next == \/ RunLoop
        \/ \E t \in TaskIds : Answer(t) \/ Work(t)
        \/ \E e \in Expansions : Expand(e.parent, e.tasks)
        \/ EndCtx
        \/ Terminated

Spec == Init /\ [][Next]_vars

\* The Go scheduler runs every runnable goroutine, and a handler returns: a
\* worker's calls are bounded in number and each one in time, by its timeout,
\* the HTTP client's or the silence watchdog.
RunIsFair == WF_vars(RunLoop)
WorkIsFair == \A t \in TaskIds : WF_vars(Work(t))

\* Somebody answers every question.
AnswersAreFair == \A t \in TaskIds : WF_vars(Answer(t))

FairSpec == Spec /\ RunIsFair /\ WorkIsFair /\ AnswersAreFair

\* A person may take any time to answer, or never do.
UnattendedSpec == Spec /\ RunIsFair /\ WorkIsFair

\* A handler may never return.
StuckHandlersSpec == Spec /\ RunIsFair

-----------------------------------------------------------------------------
(* Properties                                                              *)

TypeOK ==
  /\ status \in [TaskIds -> TaskStatus \cup {"ABSENT"}]
  /\ dependsOn \in [TaskIds -> SUBSET TaskIds]
  /\ taskOrder \in Seq(TaskIds)
  /\ runPc \in {"lock", "dispatch", "wait", "done"}
  /\ toDispatch \in SUBSET TaskIds
  /\ runningCount \in Nat
  /\ result \in [status     : {"RUNNING", "COMPLETED", "WAITING_APPROVAL",
                              "FAILED_WITH_CHECKPOINT"},
                 completed  : SUBSET TaskIds,
                 skipped    : SUBSET TaskIds,
                 waiting    : SUBSET TaskIds,
                 failedTask : TaskIds \cup {NoTask}]
  /\ sem \in SUBSET TaskIds
  /\ wakeups \in 0..NotifyCap
  /\ pc \in [TaskIds -> {"idle", "start", "asking", "locking", "handling",
                        "unlocking", "releasing", "reporting", "notifying",
                        "gone"}]
  /\ holder \in [Paths -> TaskIds \cup {NoTask}]
  /\ ctx \in {"live", "cancelled", "deadline"}
  /\ yieldedBy \in [TaskIds -> TaskIds \cup {NoTask}]

\* From its dispatch on, every dependency of a task is and stays completed, even
\* while other workers rewire the graph: no task starts early, and none gets a
\* new dependency once it has started (isTaskReadyLocked, expandLocked).
DispatchedAfterDeps ==
  \A t \in TaskIds :
     pc[t] # "idle" => \A d \in dependsOn[t] : status[d] = "COMPLETED"

\* A task that was already in the graph when one of its dependencies yielded
\* subtasks does not start before all of those have completed, not only the
\* leaves it was rewired to (TestDynamicExpand: "downstream ran before yielded
\* subtasks completed").
SubtasksFirst ==
  \A i, j \in DOMAIN taskOrder :
     LET t == taskOrder[i]
         y == taskOrder[j]
     IN  /\ i < j
         /\ yieldedBy[y] \in dependsOn[t]
         /\ yieldedBy[t] # yieldedBy[y]
         /\ pc[t] # "idle"
         => status[y] = "COMPLETED"

\* However often the graph is expanded, it stays free of cycles and of unknown
\* dependencies, and taskOrder lists each task once (what ValidateAcyclic was
\* asked for the graph as it was before the step).
GraphStaysValid ==
  /\ IsValidGraph(Known, dependsOn)
  /\ {taskOrder[i] : i \in DOMAIN taskOrder} = Known
  /\ Len(taskOrder) = Cardinality(Known)

\* Between its dispatch and the end of its deferred unlock, a task counts
\* against the limit: no more than maxConcurrency of them at any time, though
\* the slots are given back outside s.mu.
WorkersBounded ==
  Cardinality({t \in TaskIds : pc[t] \in {"start", "asking", "locking",
                                         "handling", "unlocking"}})
    <= MaxConcurrency

\* Two tasks with a common target path never run their handlers at the same
\* time, however they spell it.
PathsExclusive ==
  \A t, u \in TaskIds :
     t # u /\ pc[t] = "handling" /\ pc[u] = "handling"
     => WantedPaths(t) \cap WantedPaths(u) = {}

\* Every change of a task's status and dependencies is one DagContract allows.
Contract == INSTANCE DagContract
ImplementsContract == Contract!Spec

\* The registry of path mutexes goes through the steps of ResourceLock.
lockPhase == [t \in TaskIds |-> CASE pc[t] = "locking"   -> "locking"
                                 [] pc[t] = "handling"  -> "locked"
                                 [] pc[t] = "unlocking" -> "unlocking"
                                 [] OTHER               -> "free"]
lockWanted == [t \in TaskIds |->
                 IF pc[t] \in {"locking", "handling", "unlocking"}
                 THEN WantedPaths(t) ELSE {}]
Locks == INSTANCE ResourceLock WITH Owners <- TaskIds, NoOwner <- NoTask,
                                    phase <- lockPhase, wanted <- lockWanted
ImplementsLocks == Locks!Spec

\* When Run returns without an error, no handler is running, and a task is
\* still pending only behind one that waits for approval (the comment on Run:
\* all reachable tasks are in a terminal state or paused).
ReturnsSettled ==
  [][runPc = "lock" /\ runPc' = "done"
     => \A t \in TaskIds :
          /\ pc[t] \in {"idle", "notifying", "gone"}
          /\ status'[t] # "RUNNING"
          /\ status'[t] = "PENDING" =>
               \E d \in dependsOn[t] :
                  status'[d] \in {"PENDING", "WAITING_APPROVAL"}]_vars

\* A run reported COMPLETED has completed every task of the graph, those that
\* were yielded on the way included.
CompletedMeansAll ==
  [][runPc = "lock" /\ runPc' = "done" /\ result'.status = "COMPLETED"
     => result'.completed = Known]_vars

\* A run that left work behind says so: the caller of an interrupted run is not
\* told COMPLETED, which also means "cannot be resumed" (docs/cli.md: "Resumes
\* an interrupted or paused run"; types.go: RunStatus is "the aggregate state
\* of a workflow run").
InterruptedIsNotCompleted ==
  [][runPc = "wait" /\ runPc' = "done" /\ result'.status = "COMPLETED"
     => result'.completed = Known]_vars

\* Run returns: no wakeup is lost between the last worker's report and the
\* loop's wait, whatever the capacity of the channel.
Termination == <>(runPc = "done")

\* The goroutine of every dispatched task ends: no two of them block each other
\* over paths, slots and s.mu.
WorkersEnd == \A t \in TaskIds : IsLive(t) ~> pc[t] = "gone"

\* A task that is ready gets its turn, unless the run is over.
ReadyTasksRun ==
  \A t \in TaskIds :
     IsReady(t, status, dependsOn) ~> (status[t] # "PENDING" \/ runPc = "done")

\* Once the caller's context is done Run returns, even if no handler does.
CancelReturns == (ctx # "live") ~> (runPc = "done")
=============================================================================
