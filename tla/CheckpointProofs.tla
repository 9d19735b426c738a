-------------------------- MODULE CheckpointProofs --------------------------
(***************************************************************************)
(* Theorems on Checkpoint, for every plan, every set of tasks that workers *)
(* may yield, and any number of crashes and resumes.                       *)
(***************************************************************************)
EXTENDS MCCheckpoint, TaskGraphProofs

(***************************************************************************)
(* Types                                                                   *)
(***************************************************************************)

\* What a handler yielded is one of the lists it may yield.
FromYields == \A e \in Execs, t \in TaskIds : yielded[e][t] \in Yields[t] \cup {<<>>}

TypeInv == TypeOK /\ FromYields

\* A failure: the task gets a final status and others are skipped.
FailWith(e, t, s) ==
  CascadeSkips({t}, [status[e] EXCEPT ![t] = s], dependsOn[e])

LEMMA FailWithType ==
  ASSUME TypeOK, NEW e \in Execs, NEW t \in TaskIds, NEW s \in TaskStatus
  PROVE  FailWith(e, t, s) \in [TaskIds -> TaskStatus \cup {"ABSENT"}]
<1> DEFINE st == [status[e] EXCEPT ![t] = s]
<1>1. st \in [TaskIds -> TaskStatus \cup {"ABSENT"}]
  BY DEF TypeOK
<1> QED
  BY <1>1 DEF FailWith, CascadeSkips, TaskStatus

LEMMA AfterSkipsType ==
  ASSUME TypeOK, NEW e \in Execs
  PROVE  AfterSkips(e) \in [TaskIds -> TaskStatus \cup {"ABSENT"}]
BY DEF AfterSkips, CascadeSkips, TypeOK, TaskStatus

\* Rows are created and recorded within their types.
LEMMA CreateRowsType ==
  ASSUME TypeOK, NEW tasks \in Seq(Task), Ids(tasks) \subseteq TaskIds,
         CreateRows(tasks)
  PROVE  /\ row' \in [TaskIds -> TaskStatus \cup {"ABSENT"}]
         /\ rowDeps' \in [TaskIds -> SUBSET TaskIds]
         /\ rowGated' \subseteq TaskIds
<1>1. \A t \in Ids(tasks) : TaskNamed(tasks, t).dependsOn \in SUBSET TaskIds
  BY TaskNamedType DEF Task
<1> QED
  BY <1>1 DEF CreateRows, TypeOK, TaskStatus

LEMMA RecordType ==
  ASSUME TypeOK, NEW e \in Execs, NEW t \in TaskIds,
         NEW s \in TaskStatus \cup {"ABSENT"},
         Record(t, s) \/ RecordUnlessLate(e, t, s)
  PROVE  row' \in [TaskIds -> TaskStatus \cup {"ABSENT"}]
BY DEF Record, RecordUnlessLate, TypeOK

LEMMA TypeInit == Init => TypeOK
BY SetsAssumption, PlanAssumption, EmptySeq
   DEF Init, TypeOK, TaskStatus, Phases, Places, Nobody

\* Up to the scheduler.
LEMMA StartTypes ==
  ASSUME TypeOK, NEW e \in Execs,
         CreateRun(e) \/ CreateTasks(e) \/ LoadRun(e) \/ LoadTasks(e) \/ Reopen(e)
  PROVE  TypeOK'
<1> USE DEF Phases
<1>1. CASE CreateRun(e)
  BY <1>1 DEF TypeOK, CreateRun, table, graph, local
<1>2. CASE CreateTasks(e)
  <2>1. CASE Creatable(Plan)
    <3>1. Plan \in Seq(Task) /\ Ids(Plan) \subseteq TaskIds
      BY PlanAssumption
    <3>2. CreateRows(Plan)
      BY <1>2, <2>1 DEF CreateTasks
    <3>3. /\ row' \in [TaskIds -> TaskStatus \cup {"ABSENT"}]
          /\ rowDeps' \in [TaskIds -> SUBSET TaskIds]
          /\ rowGated' \subseteq TaskIds
      BY <3>1, <3>2, CreateRowsType
    <3>4. /\ status' \in [Execs -> [TaskIds -> TaskStatus \cup {"ABSENT"}]]
          /\ dependsOn' \in [Execs -> [TaskIds -> SUBSET TaskIds]]
          /\ gated' \in [Execs -> SUBSET TaskIds]
      <4>1. Insert(Plan, [t \in TaskIds |-> "ABSENT"])
              \in [TaskIds -> TaskStatus \cup {"ABSENT"}]
        <5>1. \A t \in Ids(Plan) : StatusOf(TaskNamed(Plan, t)) \in TaskStatus
          BY <3>1, TaskNamedType DEF StatusOf, Task, TaskStatus
        <5> QED
          BY <5>1 DEF Insert
      <4>2. Ids(Plan) \cap Gated \in SUBSET TaskIds
        BY SetsAssumption
      <4>3. /\ status' = [status EXCEPT ![e] =
                              Insert(Plan, [t \in TaskIds |-> "ABSENT"])]
            /\ dependsOn' = [dependsOn EXCEPT ![e] = rowDeps']
            /\ gated' = [gated EXCEPT ![e] = Ids(Plan) \cap Gated]
        BY <1>2, <2>1 DEF CreateTasks
      <4> QED
        BY <3>3, <4>1, <4>2, <4>3 DEF TypeOK
    <3> QED
      BY <1>2, <2>1, <3>3, <3>4 DEF TypeOK, CreateTasks, runRow, local
  <2>2. CASE ~Creatable(Plan)
    BY <1>2, <2>2 DEF TypeOK, CreateTasks, table, graph, runRow, local
  <2> QED
    BY <2>1, <2>2
<1>3. CASE LoadRun(e)
  BY <1>3, SetsAssumption DEF TypeOK, LoadRun, table, runRow, graph, local
<1>4. CASE LoadTasks(e)
  BY <1>4 DEF TypeOK, LoadTasks, table, runRow, Loaded, TaskStatus, Nobody, Places
<1>5. CASE Reopen(e)
  BY <1>5 DEF TypeOK, Reopen, table, graph, local
<1> QED
  BY <1>1, <1>2, <1>3, <1>4, <1>5

\* A task, from its dispatch to its end.
LEMMA TaskTypes ==
  ASSUME TypeOK, FromYields, NEW e \in Execs, NEW t \in TaskIds,
         Dispatch(e, t) \/ Handle(e, t) \/ Expire(e, t)
  PROVE  TypeOK'
<1> USE DEF Places, Move
<1>1. CASE Dispatch(e, t)
  BY <1>1 DEF TypeOK, Dispatch, table, runRow, local, TaskStatus
<1>2. CASE Ask(e, t)
  BY <1>2, RecordType DEF TypeOK, Ask, runRow, graph, TaskStatus
<1>3. CASE Pause(e, t)
  BY <1>3 DEF TypeOK, Pause, table, graph, local
<1>4. CASE Answer(e, t)
  <2>1. /\ status' \in [Execs -> [TaskIds -> TaskStatus \cup {"ABSENT"}]]
        /\ approved' \subseteq TaskIds
        /\ pc' \in [Execs -> [TaskIds -> Places]]
    <3>1. FailWith(e, t, "FAILED") \in [TaskIds -> TaskStatus \cup {"ABSENT"}]
      BY FailWithType DEF TaskStatus
    <3>2. [status[e] EXCEPT ![t] = "RUNNING"] \in [TaskIds -> TaskStatus \cup {"ABSENT"}]
      BY DEF TypeOK, TaskStatus
    <3>3. \/ status' = [status EXCEPT ![e] = [status[e] EXCEPT ![t] = "RUNNING"]]
          \/ status' = status
          \/ status' = [status EXCEPT ![e] = FailWith(e, t, "FAILED")]
      BY <1>4 DEF Answer, FailWith, TypeOK
    <3>4. status' \in [Execs -> [TaskIds -> TaskStatus \cup {"ABSENT"}]]
      BY <3>1, <3>2, <3>3 DEF TypeOK
    <3>5. /\ \E to \in Places : Move(e, t, to)
          /\ \/ approved' = approved
             \/ approved' = approved \cup {t}
      BY <1>4 DEF Answer
    <3> QED
      BY <3>4, <3>5 DEF TypeOK
  <2> QED
    BY <1>4, <2>1 DEF TypeOK, Answer, table, runRow, local
<1>5. CASE StartWork(e, t)
  BY <1>5, RecordType DEF TypeOK, StartWork, runRow, graph, local, TaskStatus
<1>6. CASE Succeed(e, t)
  <2>1. \A tasks \in Yields[t] : tasks \in Seq(Task)
    BY PlanAssumption
  <2> QED
    BY <1>6, <2>1 DEF TypeOK, Succeed, table, runRow, graph
<1>7. CASE Fail(e, t)
  BY <1>7 DEF TypeOK, Fail, table, runRow, graph, local
<1>8. CASE RecordFailure(e, t)
  BY <1>8, RecordType DEF TypeOK, RecordFailure, runRow, graph, local, TaskStatus
<1>9. CASE ReturnError(e, t)
  <2>1. \A s \in {"FAILED", "TIMED_OUT"} :
           FailWith(e, t, s) \in [TaskIds -> TaskStatus \cup {"ABSENT"}]
    BY FailWithType DEF TaskStatus
  <2> QED
    BY <1>9, <2>1 DEF TypeOK, ReturnError, FailWith, table, runRow, local
<1>10. CASE RecordSuccess(e, t)
  BY <1>10, RecordType DEF TypeOK, RecordSuccess, runRow, graph, local, TaskStatus
<1>11. CASE RecordYield(e, t)
  <2>1. CASE t \notin late[e] /\ Creatable(yielded[e][t])
    <3>1. yielded[e][t] \in Seq(Task) /\ CreateRows(yielded[e][t])
      BY <1>11, <2>1 DEF TypeOK, RecordYield
    <3>2. Ids(yielded[e][t]) \subseteq TaskIds
      BY PlanAssumption DEF FromYields, Ids
    <3>3. /\ row' \in [TaskIds -> TaskStatus \cup {"ABSENT"}]
          /\ rowDeps' \in [TaskIds -> SUBSET TaskIds]
          /\ rowGated' \subseteq TaskIds
      BY <3>1, <3>2, CreateRowsType
    <3> QED
      BY <1>11, <3>3 DEF TypeOK, RecordYield, runRow, graph, local
  <2>2. CASE ~(t \notin late[e] /\ Creatable(yielded[e][t]))
    BY <1>11, <2>2 DEF TypeOK, RecordYield, table, runRow, graph, local
  <2> QED
    BY <2>1, <2>2
<1>12. CASE TakeSnapshot(e, t)
  BY <1>12 DEF TypeOK, TakeSnapshot, table, runRow, graph
<1>13. CASE FlushSnapshot(e, t)
  BY <1>13 DEF TypeOK, FlushSnapshot, table, runRow, graph, local
<1>14. CASE Return(e, t)
  <2> DEFINE finished == [status[e] EXCEPT ![t] = "COMPLETED"]
             tasks == yielded[e][t]
  <2>1. finished \in [TaskIds -> TaskStatus \cup {"ABSENT"}] /\ tasks \in Seq(Task)
    BY DEF TypeOK, TaskStatus
  <2>2. CASE CanExpand(t, tasks, finished, dependsOn[e])
    <3>1. /\ Insert(tasks, finished) \in [TaskIds -> TaskStatus \cup {"ABSENT"}]
          /\ Rewire(t, tasks, finished, dependsOn[e]) \in [TaskIds -> SUBSET TaskIds]
      BY <2>1, <2>2, ExpansionType DEF TypeOK
    <3>2. /\ status' = [status EXCEPT ![e] = Insert(tasks, finished)]
          /\ dependsOn' = [dependsOn EXCEPT ![e] = Rewire(t, tasks, finished, @)]
          /\ gated' = [gated EXCEPT ![e] = @ \cup (Ids(tasks) \cap Gated)]
      BY <1>14, <2>2 DEF Return
    <3>3. /\ status' \in [Execs -> [TaskIds -> TaskStatus \cup {"ABSENT"}]]
          /\ dependsOn' \in [Execs -> [TaskIds -> SUBSET TaskIds]]
          /\ gated' \in [Execs -> SUBSET TaskIds]
      BY <3>1, <3>2, SetsAssumption DEF TypeOK
    <3> QED
      BY <1>14, <3>3 DEF TypeOK, Return, table, runRow, local
  <2>3. CASE ~CanExpand(t, tasks, finished, dependsOn[e])
    <3>1. FailWith(e, t, "FAILED") \in [TaskIds -> TaskStatus \cup {"ABSENT"}]
      BY FailWithType DEF TaskStatus
    <3> QED
      BY <1>14, <2>3, <3>1 DEF TypeOK, Return, FailWith, table, runRow, local
  <2> QED
    BY <2>2, <2>3
<1>15. CASE Expire(e, t)
  BY <1>15 DEF TypeOK, Expire, table, runRow, graph
<1> QED
  BY <1>1, <1>2, <1>3, <1>4, <1>5, <1>6, <1>7, <1>8, <1>9, <1>10, <1>11, <1>12,
     <1>13, <1>14, <1>15 DEF Handle

\* The end of an execution, and what happens from outside.
LEMMA EndTypes ==
  ASSUME TypeOK, NEW e \in Execs,
         EndScheduler(e) \/ Settle(e) \/ FlushRun(e) \/ Stop(e)
  PROVE  TypeOK'
<1> USE DEF Phases
<1>1. CASE EndScheduler(e)
  BY <1>1, AfterSkipsType DEF TypeOK, EndScheduler, Outcome, table, local
<1>2. CASE Settle(e)
  <2>1. PICK t \in toSettle[e] : /\ Record(t, status[e][t])
                                 /\ toSettle' = [toSettle EXCEPT ![e] = @ \ {t}]
    BY <1>2 DEF Settle
  <2>2. t \in TaskIds /\ status[e][t] \in TaskStatus \cup {"ABSENT"}
    BY <2>1 DEF TypeOK
  <2>3. row' \in [TaskIds -> TaskStatus \cup {"ABSENT"}]
    BY <2>1, <2>2, RecordType
  <2> QED
    BY <1>2, <2>1, <2>3 DEF TypeOK, Settle, runRow, graph, local
<1>3. CASE FlushRun(e)
  BY <1>3 DEF TypeOK, FlushRun, Outcome, table, graph, local
<1>4. CASE Stop(e)
  BY <1>4 DEF TypeOK, Stop, table, runRow, graph, local, Nobody, Places
<1> QED
  BY <1>1, <1>2, <1>3, <1>4

LEMMA ApproveTypes ==
  ASSUME TypeOK, NEW t \in TaskIds, NEW scope \in {"action", "session"},
         ApproveTask(t, scope)
  PROVE  TypeOK'
BY DEF TypeOK, ApproveTask, graph, local, TaskStatus, Recorded

LEMMA TypeStep == TypeInv /\ [Next]_vars => TypeOK'
<1> SUFFICES ASSUME TypeOK, FromYields, [Next]_vars PROVE TypeOK'
  BY DEF TypeInv
<1>1. CASE \E e \in Execs : Execute(e) \/ LoadRun(e) \/ Stop(e)
  BY <1>1, StartTypes, TaskTypes, EndTypes DEF Execute
<1>2. CASE \E e \in Execs, t \in TaskIds : Expire(e, t)
  BY <1>2, TaskTypes
<1>3. CASE \E t \in TaskIds, scope \in {"action", "session"} : ApproveTask(t, scope)
  BY <1>3, ApproveTypes
<1>4. CASE UNCHANGED vars
  BY <1>4 DEF TypeOK, vars, table, runRow, graph, local
<1> QED
  BY <1>1, <1>2, <1>3, <1>4 DEF Next, Graceful

LEMMA TypeInvInit == Init => TypeInv
BY TypeInit DEF Init, TypeInv, FromYields

\* Handlers alone yield, and what they yield they yield by succeeding.
LEMMA YieldedStep ==
  ASSUME [Next]_vars
  PROVE  \/ UNCHANGED yielded
         \/ \E e \in Execs, t \in TaskIds : Succeed(e, t)
<1>1. ASSUME NEW e \in Execs, NEW t \in TaskIds, Handle(e, t)
      PROVE  UNCHANGED yielded \/ Succeed(e, t)
  BY <1>1 DEF Handle, Ask, Pause, Answer, StartWork, Fail, RecordFailure, ReturnError,
     RecordSuccess, RecordYield, TakeSnapshot, FlushSnapshot, Return, local
<1>2. ASSUME NEW e \in Execs,
             \/ CreateRun(e) \/ CreateTasks(e) \/ LoadRun(e) \/ LoadTasks(e)
             \/ Reopen(e) \/ EndScheduler(e) \/ Settle(e) \/ FlushRun(e) \/ Stop(e)
      PROVE  UNCHANGED yielded
  BY <1>2 DEF CreateRun, CreateTasks, LoadRun, LoadTasks, Reopen, EndScheduler, Settle,
     FlushRun, Stop, local
<1>3. ASSUME NEW e \in Execs, NEW t \in TaskIds, Dispatch(e, t) \/ Expire(e, t)
      PROVE  UNCHANGED yielded
  BY <1>3 DEF Dispatch, Expire, local
<1>4. ASSUME NEW t \in TaskIds, NEW scope \in {"action", "session"}, ApproveTask(t, scope)
      PROVE  UNCHANGED yielded
  BY <1>4 DEF ApproveTask, local
<1> QED
  BY <1>1, <1>2, <1>3, <1>4 DEF Next, Graceful, Execute, vars, local

LEMMA TypeInvStep == TypeInv /\ [Next]_vars => TypeInv'
<1> SUFFICES ASSUME TypeInv, [Next]_vars PROVE FromYields'
  BY TypeStep DEF TypeInv
<1>1. CASE \E e \in Execs, t \in TaskIds : Succeed(e, t)
  BY <1>1 DEF TypeInv, TypeOK, FromYields, Succeed
<1> QED
  BY <1>1, YieldedStep DEF TypeInv, FromYields

\* Every row, graph, snapshot and set of a run has its type, whatever crashes.
THEOREM TypesHold == Spec => []TypeOK
<1>1. Spec => []TypeInv
  BY TypeInvInit, TypeInvStep, PTL DEF Spec
<1> QED
  BY <1>1, PTL DEF TypeInv

(***************************************************************************)
(* One executor at a time                                                  *)
(***************************************************************************)

\* Nothing happens to the executor e ...
Still(e) == /\ phase'[e] = phase[e]
            /\ status'[e] = status[e] /\ dependsOn'[e] = dependsOn[e] /\ gated'[e] = gated[e]
            /\ board'[e] = board[e]
            /\ pc'[e] = pc[e]
            /\ yielded'[e] = yielded[e]
            /\ toSettle'[e] = toSettle[e]

\* ... unless it is its turn.
Acts(e) == Execute(e) \/ LoadRun(e) \/ Stop(e)

LEMMA OthersStill ==
  ASSUME TypeOK, NEW e \in Execs, Acts(e), NEW f \in Execs, f # e
  PROVE  Still(f)
<1> USE DEF TypeOK, Still
<1>1. CASE CreateRun(e) \/ CreateTasks(e) \/ LoadRun(e) \/ LoadTasks(e) \/ Reopen(e)
  <2>1. CASE CreateTasks(e)
    BY <2>1 DEF CreateTasks, graph, local
  <2> QED
    BY <1>1, <2>1 DEF CreateRun, LoadRun, LoadTasks, Reopen, graph, local
<1>2. CASE \E t \in TaskIds : Dispatch(e, t) \/ Handle(e, t)
  <2> SUFFICES ASSUME NEW t \in TaskIds, Dispatch(e, t) \/ Handle(e, t)
               PROVE  Still(f)
    BY <1>2
  <2>1. CASE Dispatch(e, t) \/ Answer(e, t) \/ ReturnError(e, t)
    BY <2>1 DEF Dispatch, Answer, ReturnError, Move, local
  <2>2. CASE Return(e, t)
    BY <2>2 DEF Return, Move, local
  <2>3. CASE \/ Ask(e, t) \/ Pause(e, t) \/ StartWork(e, t) \/ Succeed(e, t)
             \/ Fail(e, t) \/ RecordFailure(e, t) \/ RecordSuccess(e, t)
             \/ TakeSnapshot(e, t) \/ FlushSnapshot(e, t) \/ RecordYield(e, t)
    BY <2>3 DEF Ask, Pause, StartWork, Succeed, Fail, RecordFailure, RecordSuccess,
       TakeSnapshot, FlushSnapshot, RecordYield, Move, graph, local
  <2> QED
    BY <2>1, <2>2, <2>3 DEF Handle
<1>3. CASE EndScheduler(e) \/ Settle(e) \/ FlushRun(e) \/ Stop(e)
  BY <1>3 DEF EndScheduler, Settle, FlushRun, Stop, graph, local
<1> QED
  BY <1>1, <1>2, <1>3 DEF Acts, Execute

LEMMA StillOrActs ==
  ASSUME TypeOK, [Next]_vars, NEW f \in Execs
  PROVE  Still(f) \/ Acts(f)
<1>1. CASE \E e \in Execs : Acts(e)
  BY <1>1, OthersStill
<1>2. CASE \E e \in Execs, t \in TaskIds : Expire(e, t)
  BY <1>2 DEF Expire, Still, graph
<1>3. CASE \E t \in TaskIds, scope \in {"action", "session"} : ApproveTask(t, scope)
  BY <1>3 DEF ApproveTask, Still, graph, local
<1>4. CASE UNCHANGED vars
  BY <1>4 DEF vars, Still, graph, local
<1> QED
  BY <1>1, <1>2, <1>3, <1>4 DEF Next, Graceful, Acts

(***************************************************************************)
(* Failures and skips                                                      *)
(***************************************************************************)

\* What becomes of a task when t fails: nothing, or it had not started and
\* waited for t or for another unfinished task, and is skipped.
LEMMA FailWithEffect ==
  ASSUME TypeOK, NEW e \in Execs, NEW t \in TaskIds,
         NEW s \in {"FAILED", "TIMED_OUT"}, NEW u \in TaskIds
  PROVE  LET after == FailWith(e, t, s)
         IN  \/ u = t /\ after[u] = s
             \/ u # t /\ after[u] = status[e][u]
             \/ /\ u # t /\ after[u] = "SKIPPED"
                /\ status[e][u] \in {"PENDING", "WAITING_APPROVAL"}
                /\ \E d \in dependsOn[e][u] : d = t \/ status[e][d] # "COMPLETED"
<1> DEFINE st == [status[e] EXCEPT ![t] = s]
           roots == {t}
           deps == dependsOn[e]
           after == CascadeSkips(roots, st, deps)
<1>1. /\ st[t] = s
      /\ \A v \in TaskIds \ {t} : st[v] = status[e][v]
  BY DEF TypeOK
<1>2. ASSUME NEW v \in TaskIds
      PROVE  \/ after[v] = st[v]
             \/ /\ st[v] \in {"PENDING", "WAITING_APPROVAL"}
                /\ after[v] = "SKIPPED"
                /\ \E d \in deps[v] : d \in roots \/ (d \in TaskIds /\ after[d] = "SKIPPED")
  <2> HIDE DEF st, roots, deps
  <2> QED
    BY CascadeSkipsEffect
<1>3. ASSUME NEW d \in TaskIds, d # t, after[d] = "SKIPPED"
      PROVE  status[e][d] # "COMPLETED"
  BY <1>1, <1>2, <1>3
<1> QED
  BY <1>1, <1>2, <1>3 DEF FailWith

\* The same when the scheduler ends.
LEMMA AfterSkipsEffect ==
  ASSUME TypeOK, NEW e \in Execs, NEW u \in TaskIds
  PROVE  \/ AfterSkips(e)[u] = status[e][u]
         \/ /\ AfterSkips(e)[u] = "SKIPPED"
            /\ status[e][u] \in {"PENDING", "WAITING_APPROVAL"}
            /\ \E d \in dependsOn[e][u] : status[e][d] # "COMPLETED"
<1> DEFINE doomed == {t \in TaskIds :
                        /\ status[e][t] = "PENDING"
                        /\ \E d \in dependsOn[e][t] :
                             status[e][d] \in {"FAILED", "TIMED_OUT", "SKIPPED"}}
           st == [t \in TaskIds |-> IF t \in doomed THEN "SKIPPED" ELSE status[e][t]]
           deps == dependsOn[e]
           after == CascadeSkips(doomed, st, deps)
<1>1. AfterSkips(e) = after
  BY DEF AfterSkips
<1>2. ASSUME NEW v \in TaskIds
      PROVE  \/ after[v] = st[v]
             \/ /\ st[v] \in {"PENDING", "WAITING_APPROVAL"}
                /\ after[v] = "SKIPPED"
                /\ \E d \in deps[v] : d \in doomed \/ (d \in TaskIds /\ after[d] = "SKIPPED")
  <2> HIDE DEF st, doomed, deps
  <2> QED
    BY CascadeSkipsEffect
<1>3. ASSUME NEW v \in TaskIds
      PROVE  \/ v \in doomed /\ st[v] = "SKIPPED" /\ status[e][v] = "PENDING"
             \/ v \notin doomed /\ st[v] = status[e][v]
  OBVIOUS
<1>4. ASSUME NEW d \in TaskIds, after[d] = "SKIPPED"
      PROVE  status[e][d] # "COMPLETED"
  <2> HIDE DEF st, after, doomed
  <2> QED
    BY <1>2, <1>3, <1>4
<1>5. ASSUME NEW d \in doomed PROVE d \in TaskIds /\ status[e][d] # "COMPLETED"
  OBVIOUS
<1>6. CASE u \in doomed
  <2>1. PICK d \in dependsOn[e][u] : status[e][d] \in {"FAILED", "TIMED_OUT", "SKIPPED"}
    BY <1>6
  <2>2. after[u] = "SKIPPED" /\ status[e][u] = "PENDING"
    BY <1>2, <1>3, <1>6
  <2> QED
    BY <1>1, <2>1, <2>2
<1>7. CASE u \notin doomed
  <2> HIDE DEF st, after, doomed
  <2> QED
    BY <1>1, <1>2, <1>3, <1>4, <1>5, <1>7
<1> QED
  BY <1>6, <1>7

(***************************************************************************)
(* Live tasks                                                              *)
(***************************************************************************)

Asking == {"asking", "pausing", "asked"}
Working == {"starting", "working", "failing", "failed", "finishing", "yielding",
            "saving", "flushing", "returning"}
Succeeded == {"finishing", "yielding", "saving", "flushing", "returning"}

\* The goroutine of t moves on, and the scheduler does not notice.
Proceeds(e, t) ==
  /\ phase' = phase /\ UNCHANGED graph
  /\ \E to \in Places :
       /\ Move(e, t, to)
       /\ \/ pc[e][t] \in Asking /\ to \in Asking
          \/ pc[e][t] \in Working /\ to \in Working
       /\ to \in {"starting", "working"} => pc[e][t] = "starting"
       /\ to \in Succeeded => pc[e][t] \in Succeeded \/ Succeed(e, t)

\* Somebody answers: yes, or not yet.
Approves(e, t) == /\ pc[e][t] = "asked" /\ Move(e, t, "starting")
                  /\ status' = [status EXCEPT ![e][t] = "RUNNING"]
                  /\ approved' = approved \cup {t}
                  /\ UNCHANGED <<phase, dependsOn, gated, table>>
Denies(e, t) == /\ pc[e][t] = "asked" /\ Move(e, t, "gone")
                /\ UNCHANGED <<phase, graph, table>>

\* It fails, or the scheduler refuses what it yields.
Fails(e, t) == /\ pc[e][t] \in {"asked", "failed", "returning"} /\ Move(e, t, "gone")
               /\ \E s \in {"FAILED", "TIMED_OUT"} :
                    status' = [status EXCEPT ![e] = FailWith(e, t, s)]
               /\ UNCHANGED <<phase, dependsOn, gated, table>>

\* It succeeds, and its executor's graph grows.
Expands(e, t) ==
  /\ pc[e][t] = "returning" /\ Move(e, t, "gone")
  /\ LET tasks == yielded[e][t]
         finished == [status[e] EXCEPT ![t] = "COMPLETED"]
     IN  /\ CanExpand(t, tasks, finished, dependsOn[e])
         /\ status' = [status EXCEPT ![e] = Insert(tasks, finished)]
         /\ dependsOn' = [dependsOn EXCEPT ![e] = Rewire(t, tasks, finished, @)]
         /\ gated' = [gated EXCEPT ![e] = @ \cup (Ids(tasks) \cap Gated)]
  /\ UNCHANGED <<phase, table>>

LEMMA HandleEffect ==
  ASSUME NEW e \in Execs, NEW t \in TaskIds, Handle(e, t)
  PROVE  \/ Proceeds(e, t)
         \/ Approves(e, t) \/ Denies(e, t)
         \/ Fails(e, t)
         \/ Expands(e, t)
<1> USE DEF Proceeds, Places, Asking, Working, Succeeded, graph
<1>1. CASE Ask(e, t) \/ Pause(e, t) \/ StartWork(e, t)
  BY <1>1 DEF Ask, Pause, StartWork
<1>2. CASE Succeed(e, t) \/ Fail(e, t) \/ RecordFailure(e, t)
  BY <1>2 DEF Succeed, Fail, RecordFailure
<1>3. CASE RecordSuccess(e, t) \/ RecordYield(e, t)
  BY <1>3 DEF RecordSuccess, RecordYield
<1>4. CASE TakeSnapshot(e, t) \/ FlushSnapshot(e, t)
  BY <1>4 DEF TakeSnapshot, FlushSnapshot
<1>5. CASE Answer(e, t)
  BY <1>5 DEF Answer, Approves, Denies, Fails, FailWith
<1>6. CASE ReturnError(e, t)
  BY <1>6 DEF ReturnError, Fails, FailWith
<1>7. CASE Return(e, t)
  BY <1>7 DEF Return, Expands, Fails, FailWith
<1> QED
  BY <1>1, <1>2, <1>3, <1>4, <1>5, <1>6, <1>7 DEF Handle

LEMMA HandleMoves ==
  ASSUME NEW e \in Execs, NEW t \in TaskIds, Handle(e, t)
  PROVE  \E to \in Places : Move(e, t, to)
BY HandleEffect DEF Proceeds, Approves, Denies, Fails, Expands, Places

LEMMA FailsEffect ==
  ASSUME TypeOK, NEW e \in Execs, NEW t \in TaskIds, Fails(e, t), NEW u \in TaskIds
  PROVE  \/ u = t /\ status'[e][u] \in {"FAILED", "TIMED_OUT"}
         \/ u # t /\ status'[e][u] = status[e][u]
         \/ /\ u # t /\ status'[e][u] = "SKIPPED"
            /\ status[e][u] \in {"PENDING", "WAITING_APPROVAL"}
            /\ \E d \in dependsOn[e][u] : d = t \/ status[e][d] # "COMPLETED"
<1>1. PICK s \in {"FAILED", "TIMED_OUT"} :
        status' = [status EXCEPT ![e] = FailWith(e, t, s)]
  BY DEF Fails
<1>2. status'[e] = FailWith(e, t, s)
  BY <1>1 DEF TypeOK
<1> QED
  BY <1>2, FailWithEffect

LEMMA ExpandsEffect ==
  ASSUME TypeOK, NEW e \in Execs, NEW t \in TaskIds, Expands(e, t), NEW u \in TaskIds
  PROVE  /\ gated[e] \subseteq gated'[e]
         /\ \/ /\ u = t /\ status'[e][u] = "COMPLETED"
               /\ dependsOn'[e][u] = dependsOn[e][u]
            \/ /\ u # t /\ status[e][u] # "ABSENT" /\ status'[e][u] = status[e][u]
               /\ dependsOn[e][u] \subseteq dependsOn'[e][u]
               /\ status[e][u] # "PENDING" => dependsOn'[e][u] = dependsOn[e][u]
            \/ /\ u # t /\ status[e][u] = "ABSENT" /\ status'[e][u] = "ABSENT"
            \/ /\ u # t /\ status[e][u] = "ABSENT" /\ u \in Ids(yielded[e][t])
               /\ status'[e][u] = StatusOf(TaskNamed(yielded[e][t], u))
               /\ u \in Gated => u \in gated'[e]
               /\ TaskNamed(yielded[e][t], u).dependsOn \subseteq dependsOn'[e][u]
<1> DEFINE finished == [status[e] EXCEPT ![t] = "COMPLETED"]
           tasks == yielded[e][t]
           deps == dependsOn[e]
<1>1. /\ status'[e] = Insert(tasks, finished)
      /\ dependsOn'[e] = Rewire(t, tasks, finished, deps)
      /\ gated'[e] = gated[e] \cup (Ids(tasks) \cap Gated)
      /\ CanExpand(t, tasks, finished, deps)
  BY DEF Expands, TypeOK
<1>2. /\ finished[t] = "COMPLETED"
      /\ u # t => finished[u] = status[e][u]
  BY DEF TypeOK
<1>3. \A v \in Ids(tasks) : finished[v] = "ABSENT"
  <2> HIDE DEF finished, tasks, deps
  <2> QED
    BY <1>1, ExpansionIsFresh
<1>4. CASE finished[u] # "ABSENT"
  <2>1. /\ Insert(tasks, finished)[u] = finished[u]
        /\ deps[u] \subseteq Rewire(t, tasks, finished, deps)[u]
        /\ finished[u] # "PENDING" => Rewire(t, tasks, finished, deps)[u] = deps[u]
    <3> HIDE DEF finished, tasks, deps
    <3> QED
      BY <1>1, <1>4, ExpansionEffect
  <2> HIDE DEF finished, tasks
  <2> QED
    BY <1>1, <1>2, <1>4, <2>1
<1>5. CASE finished[u] = "ABSENT"
  <2>1. u # t
    BY <1>2, <1>5
  <2>2. CASE u \in Ids(tasks)
    <3>1. /\ Insert(tasks, finished)[u] = StatusOf(TaskNamed(tasks, u))
          /\ TaskNamed(tasks, u).dependsOn \subseteq Rewire(t, tasks, finished, deps)[u]
      BY <2>2 DEF Insert, Rewire
    <3> HIDE DEF finished, deps
    <3> QED
      BY <1>1, <1>2, <1>5, <2>1, <2>2, <3>1
  <2>3. CASE u \notin Ids(tasks)
    <3>1. Insert(tasks, finished)[u] = finished[u]
      BY <2>3 DEF Insert
    <3> HIDE DEF finished, deps
    <3> QED
      BY <1>1, <1>2, <1>5, <2>1, <2>3, <3>1
  <2> QED
    BY <2>2, <2>3
<1> QED
  BY <1>4, <1>5

\* A task has a goroutine only while its executor runs, and in its graph.
LiveInv == \A e \in Execs, t \in TaskIds :
             IsLive(e, t) => phase[e] = "running" /\ status[e][t] # "ABSENT"

\* The steps of an executor that are not those of a task.
Steers(e) == \/ CreateRun(e) \/ CreateTasks(e) \/ LoadRun(e) \/ LoadTasks(e) \/ Reopen(e)
             \/ EndScheduler(e) \/ Settle(e) \/ FlushRun(e) \/ Stop(e)

LEMMA ExecutorSteps ==
  ASSUME TypeOK, [Next]_vars, NEW e \in Execs
  PROVE  \/ Still(e)
         \/ Steers(e)
         \/ \E t \in TaskIds : Dispatch(e, t) \/ Handle(e, t)
BY StillOrActs DEF Acts, Execute, Steers

\* What the scheduler takes from the plan.
LEMMA PlanEffect ==
  ASSUME TypeOK, NEW e \in Execs, CreateTasks(e), Creatable(Plan), NEW u \in TaskIds
  PROVE  status'[e][u] = IF u \in Ids(Plan) THEN StatusOf(TaskNamed(Plan, u)) ELSE "ABSENT"
BY DEF TypeOK, CreateTasks, Insert

LEMMA LiveStep == TypeInv /\ LiveInv /\ [Next]_vars => LiveInv'
<1> SUFFICES ASSUME TypeInv, TypeOK, LiveInv, [Next]_vars,
                    NEW e \in Execs, NEW u \in TaskIds, IsLive(e, u)'
             PROVE  phase'[e] = "running" /\ status'[e][u] # "ABSENT"
  BY DEF LiveInv, TypeInv
<1>0. IsLive(e, u) => phase[e] = "running" /\ status[e][u] # "ABSENT"
  BY DEF LiveInv
<1>1. CASE Still(e)
  BY <1>0, <1>1 DEF Still, IsLive
<1>2. CASE Steers(e)
  <2>1. CASE LoadTasks(e) \/ Stop(e)
    BY <2>1 DEF LoadTasks, Stop, Nobody, IsLive, TypeOK
  <2> QED
    BY <1>0, <1>2, <2>1 DEF Steers, IsLive, CreateRun, CreateTasks, LoadRun, Reopen,
       EndScheduler, Settle, FlushRun
<1>3. ASSUME NEW t \in TaskIds, Dispatch(e, t)
      PROVE  phase'[e] = "running" /\ status'[e][u] # "ABSENT"
  BY <1>0, <1>3 DEF Dispatch, Move, IsLive, TypeOK
<1>4. ASSUME NEW t \in TaskIds, Handle(e, t)
      PROVE  phase'[e] = "running" /\ status'[e][u] # "ABSENT"
  <2>1. CASE Proceeds(e, t)
    BY <1>0, <2>1 DEF Proceeds, Move, IsLive, TypeOK, graph, Asking, Working
  <2>2. CASE Approves(e, t) \/ Denies(e, t)
    BY <1>0, <2>2 DEF Approves, Denies, Move, IsLive, TypeOK, graph
  <2>3. CASE Fails(e, t)
    <3>1. status[e][u] # "ABSENT" => status'[e][u] # "ABSENT"
      BY <2>3, FailsEffect
    <3> QED
      BY <1>0, <2>3, <3>1 DEF Fails, Move, IsLive, TypeOK
  <2>4. CASE Expands(e, t)
    <3>1. status[e][u] # "ABSENT" => status'[e][u] # "ABSENT"
      BY <2>4, ExpandsEffect
    <3> QED
      BY <1>0, <2>4, <3>1 DEF Expands, Move, IsLive, TypeOK
  <2> QED
    BY <1>4, <2>1, <2>2, <2>3, <2>4, HandleEffect
<1> QED
  BY <1>1, <1>2, <1>3, <1>4, ExecutorSteps

(***************************************************************************)
(* The table of tasks                                                      *)
(***************************************************************************)

\* The handlers' writes of a task's row.
Writes(e, t) == Ask(e, t) \/ StartWork(e, t) \/ RecordFailure(e, t) \/ RecordSuccess(e, t)

\* The lists that get rows.
Creates(tasks) == Creatable(tasks) /\ CreateRows(tasks)

LEMMA TableSteps ==
  ASSUME [Next]_vars
  PROVE  \/ UNCHANGED table
         \/ \E e \in Execs, t \in TaskIds : Writes(e, t)
         \/ \E e \in Execs : Settle(e)
         \/ \E e \in Execs : CreateTasks(e) /\ Creates(Plan)
         \/ \E e \in Execs, t \in TaskIds : RecordYield(e, t) /\ Creates(yielded[e][t])
         \/ \E t \in TaskIds, scope \in {"action", "session"} : ApproveTask(t, scope)
<1>1. ASSUME NEW e \in Execs, NEW t \in TaskIds, Handle(e, t)
      PROVE  \/ UNCHANGED table
             \/ Writes(e, t)
             \/ RecordYield(e, t) /\ Creates(yielded[e][t])
  BY <1>1 DEF Handle, Writes, Creates, Pause, Answer, Succeed, Fail, ReturnError,
     RecordYield, TakeSnapshot, FlushSnapshot, Return
<1>2. ASSUME NEW e \in Execs, Steers(e)
      PROVE  UNCHANGED table \/ Settle(e) \/ (CreateTasks(e) /\ Creates(Plan))
  BY <1>2 DEF Steers, Creates, CreateRun, CreateTasks, LoadRun, LoadTasks, Reopen,
     EndScheduler, FlushRun, Stop
<1>3. ASSUME NEW e \in Execs, NEW t \in TaskIds, Dispatch(e, t) \/ Expire(e, t)
      PROVE  UNCHANGED table
  BY <1>3 DEF Dispatch, Expire
<1> QED
  BY <1>1, <1>2, <1>3 DEF Next, Graceful, Execute, Steers, vars

LEMMA ApprovedGrows == [Next]_vars => approved \subseteq approved'
<1> SUFFICES ASSUME [Next]_vars PROVE approved \subseteq approved'
  OBVIOUS
<1>1. ASSUME NEW e \in Execs, NEW t \in TaskIds, Handle(e, t)
      PROVE  approved \subseteq approved'
  BY <1>1 DEF Handle, Ask, Pause, Answer, StartWork, Succeed, Fail, RecordFailure,
     ReturnError, RecordSuccess, RecordYield, TakeSnapshot, FlushSnapshot, Return
<1>2. ASSUME NEW e \in Execs, Steers(e)
      PROVE  UNCHANGED approved
  BY <1>2 DEF Steers, CreateRun, CreateTasks, LoadRun, LoadTasks, Reopen,
     EndScheduler, Settle, FlushRun, Stop
<1>3. ASSUME NEW e \in Execs, NEW t \in TaskIds, Dispatch(e, t) \/ Expire(e, t)
      PROVE  UNCHANGED approved
  BY <1>3 DEF Dispatch, Expire
<1>4. ASSUME NEW t \in TaskIds, NEW scope \in {"action", "session"}, ApproveTask(t, scope)
      PROVE  approved \subseteq approved'
  BY <1>4 DEF ApproveTask
<1> QED
  BY <1>1, <1>2, <1>3, <1>4 DEF Next, Graceful, Execute, Steers, vars

\* The rows that Run still writes are of skipped and of waiting tasks.
SettleInv == \A e \in Execs :
               /\ phase[e] # "settling" => toSettle[e] = {}
               /\ \A t \in toSettle[e] : status[e][t] \in {"SKIPPED", "WAITING_APPROVAL"}

LEMMA SettleStep == TypeInv /\ LiveInv /\ SettleInv /\ [Next]_vars => SettleInv'
<1> SUFFICES ASSUME TypeInv, TypeOK, LiveInv, SettleInv, [Next]_vars, NEW e \in Execs
             PROVE  /\ phase'[e] # "settling" => toSettle'[e] = {}
                    /\ \A t \in toSettle'[e] : status'[e][t] \in {"SKIPPED", "WAITING_APPROVAL"}
  BY DEF SettleInv, TypeInv
<1>0. /\ phase[e] # "settling" => toSettle[e] = {}
      /\ \A t \in toSettle[e] : status[e][t] \in {"SKIPPED", "WAITING_APPROVAL"}
  BY DEF SettleInv
<1>1. CASE Still(e)
  BY <1>0, <1>1 DEF Still
<1>2. CASE Steers(e)
  <2>1. CASE EndScheduler(e)
    <3>1. /\ status'[e] = AfterSkips(e)
          /\ toSettle'[e] = {t \in TaskIds : AfterSkips(e)[t] \in {"SKIPPED", "WAITING_APPROVAL"}}
          /\ phase'[e] = "settling"
      BY <2>1 DEF EndScheduler, TypeOK
    <3> QED
      BY <3>1
  <2>2. CASE Settle(e)
    BY <1>0, <2>2 DEF Settle, graph, TypeOK
  <2>3. CASE CreateTasks(e) \/ LoadTasks(e)
    BY <1>0, <2>3 DEF CreateTasks, LoadTasks, TypeOK
  <2>4. CASE Stop(e)
    BY <2>4 DEF Stop, TypeOK
  <2>5. CASE FlushRun(e)
    BY <1>0, <2>5 DEF FlushRun, TypeOK
  <2> QED
    BY <1>0, <1>2, <2>1, <2>2, <2>3, <2>4, <2>5
       DEF Steers, CreateRun, LoadRun, Reopen, TypeOK
<1>3. ASSUME NEW t \in TaskIds, Dispatch(e, t) \/ Handle(e, t)
      PROVE  toSettle'[e] = {}
  <2>1. CASE Dispatch(e, t)
    BY <1>0, <2>1 DEF Dispatch
  <2>2. CASE Handle(e, t)
    <3>1. phase[e] = "running"
      BY <2>2, HandleEffect DEF LiveInv, IsLive, Proceeds, Approves, Denies, Fails,
         Expands, Asking, Working
    <3>2. UNCHANGED toSettle
      BY <2>2 DEF Handle, Ask, Pause, Answer, StartWork, Succeed, Fail, RecordFailure,
         ReturnError, RecordSuccess, RecordYield, TakeSnapshot, FlushSnapshot, Return
    <3> QED
      BY <1>0, <3>1, <3>2
  <2> QED
    BY <1>3, <2>1, <2>2
<1> QED
  BY <1>0, <1>1, <1>2, <1>3, ExecutorSteps

(***************************************************************************)
(* Gates                                                                   *)
(***************************************************************************)

\* A gated task that is not approved yet has the flag wherever it is known: in
\* the table, whence Resume takes it, and in each scheduler.  So none has
\* passed the hook, and none is on record as finished: only a goroutine writes
\* that, one that has passed it.
GateRows == \A t \in Recorded \cap Gated : t \in rowGated \cup approved
GateGraphs ==
  \A e \in Execs, t \in TaskIds \cap Gated :
    /\ status[e][t] # "ABSENT" => t \in gated[e] \cup approved
    /\ pc[e][t] \in Working => t \in approved
GateDone == \A t \in Recorded \cap Gated : row[t] = "COMPLETED" => t \in approved

LEMMA GateDoneStep ==
  TypeInv /\ SettleInv /\ GateGraphs /\ GateDone /\ [Next]_vars => GateDone'
<1> SUFFICES ASSUME TypeInv, TypeOK, SettleInv, GateGraphs, GateDone, [Next]_vars,
                    NEW t \in TaskIds \cap Gated, t \notin Foreign, row'[t] = "COMPLETED"
             PROVE  t \in approved'
  BY DEF GateDone, TypeInv, Recorded
<1>0. /\ row[t] = "COMPLETED" => t \in approved
      /\ approved \subseteq approved'
  BY ApprovedGrows DEF GateDone, Recorded
<1>1. CASE UNCHANGED table
  BY <1>0, <1>1 DEF table
<1>2. ASSUME NEW e \in Execs, NEW u \in TaskIds, Writes(e, u)
      PROVE  t \in approved'
  <2>1. row[t] = "COMPLETED" \/ RecordSuccess(e, t)
    BY <1>2 DEF Writes, Ask, StartWork, RecordFailure, RecordSuccess, RecordUnlessLate,
       Record, TypeOK
  <2> QED
    BY <1>0, <2>1 DEF RecordSuccess, GateGraphs, Working
<1>3. ASSUME NEW e \in Execs, Settle(e)
      PROVE  t \in approved'
  <2>1. row[t] = "COMPLETED"
    BY <1>3 DEF Settle, SettleInv, Record, TypeOK
  <2> QED
    BY <1>0, <2>1
<1>4. ASSUME NEW tasks, Creates(tasks)
      PROVE  t \in approved'
  BY <1>0, <1>4 DEF Creates, CreateRows
<1>5. ASSUME NEW u \in TaskIds, NEW scope \in {"action", "session"}, ApproveTask(u, scope)
      PROVE  t \in approved'
  BY <1>0, <1>5 DEF ApproveTask
<1> QED
  BY <1>1, <1>2, <1>3, <1>4, <1>5, TableSteps

LEMMA GateRowsStep == TypeInv /\ GateRows /\ [Next]_vars => GateRows'
<1> SUFFICES ASSUME TypeInv, TypeOK, GateRows, [Next]_vars,
                    NEW t \in TaskIds \cap Gated, row'[t] # "ABSENT", t \notin Foreign
             PROVE  t \in rowGated' \cup approved'
  BY DEF GateRows, TypeInv, Recorded
<1>0. /\ row[t] # "ABSENT" => t \in rowGated \cup approved
      /\ approved \subseteq approved'
  BY ApprovedGrows DEF GateRows, Recorded
<1>1. CASE UNCHANGED table
  BY <1>0, <1>1 DEF table
<1>2. CASE \E e \in Execs, u \in TaskIds : Writes(e, u)
  BY <1>0, <1>2 DEF Writes, Ask, StartWork, RecordFailure, RecordSuccess,
     RecordUnlessLate, Record, TypeOK
<1>3. CASE \E e \in Execs : Settle(e)
  BY <1>0, <1>3 DEF Settle, Record, TypeOK
<1>4. ASSUME NEW tasks, Creates(tasks)
      PROVE  t \in rowGated' \cup approved'
  BY <1>0, <1>4 DEF Creates, CreateRows
<1>5. ASSUME NEW u \in TaskIds, NEW scope \in {"action", "session"}, ApproveTask(u, scope)
      PROVE  t \in rowGated' \cup approved'
  BY <1>0, <1>5 DEF ApproveTask, Recorded
<1> QED
  BY <1>1, <1>2, <1>3, <1>4, <1>5, TableSteps

LEMMA GateGraphsStep ==
  TypeInv /\ LiveInv /\ GateRows /\ GateGraphs /\ [Next]_vars => GateGraphs'
<1> SUFFICES ASSUME TypeInv, TypeOK, LiveInv, GateRows, GateGraphs, [Next]_vars,
                    NEW e \in Execs, NEW u \in TaskIds \cap Gated
             PROVE  /\ status'[e][u] # "ABSENT" => u \in gated'[e] \cup approved'
                    /\ pc'[e][u] \in Working => u \in approved'
  BY DEF GateGraphs, TypeInv
<1>0. /\ status[e][u] # "ABSENT" => u \in gated[e] \cup approved
      /\ pc[e][u] \in Working => u \in approved
      /\ approved \subseteq approved'
  BY ApprovedGrows DEF GateGraphs
<1>1. CASE Still(e)
  BY <1>0, <1>1 DEF Still
<1>2. CASE Steers(e)
  <2>1. CASE CreateTasks(e)
    <3>1. CASE Creatable(Plan)
      <4>1. gated'[e] = Ids(Plan) \cap Gated /\ UNCHANGED pc
        BY <2>1, <3>1 DEF CreateTasks, TypeOK
      <4> QED
        BY <1>0, <2>1, <3>1, <4>1, PlanEffect
    <3>2. CASE ~Creatable(Plan)
      BY <1>0, <2>1, <3>2 DEF CreateTasks, graph, TypeOK
    <3> QED
      BY <3>1, <3>2
  <2>2. CASE LoadTasks(e)
    <3>1. u \in Recorded => u \in rowGated \cup approved
      BY DEF GateRows
    <3> QED
      BY <1>0, <2>2, <3>1 DEF LoadTasks, Nobody, Working, TypeOK
  <2>3. CASE EndScheduler(e)
    <3>1. status'[e] = AfterSkips(e)
      BY <2>3 DEF EndScheduler, TypeOK
    <3>2. status[e][u] = "ABSENT" => status'[e][u] = "ABSENT"
      BY <3>1, AfterSkipsEffect
    <3> QED
      BY <1>0, <2>3, <3>2 DEF EndScheduler
  <2>4. CASE Stop(e)
    BY <1>0, <2>4 DEF Stop, Nobody, Working, graph, TypeOK
  <2> QED
    BY <1>0, <1>2, <2>1, <2>2, <2>3, <2>4
       DEF Steers, CreateRun, LoadRun, Reopen, Settle, FlushRun, graph
<1>3. ASSUME NEW t \in TaskIds, Dispatch(e, t)
      PROVE  /\ status'[e][u] # "ABSENT" => u \in gated'[e] \cup approved'
             /\ pc'[e][u] \in Working => u \in approved'
  BY <1>0, <1>3 DEF Dispatch, Move, IsReady, Working, TypeOK
<1>4. ASSUME NEW t \in TaskIds, Handle(e, t)
      PROVE  /\ status'[e][u] # "ABSENT" => u \in gated'[e] \cup approved'
             /\ pc'[e][u] \in Working => u \in approved'
  <2>1. CASE Proceeds(e, t)
    BY <1>0, <2>1 DEF Proceeds, Move, Asking, Working, TypeOK, graph
  <2>2. CASE Approves(e, t) \/ Denies(e, t)
    <3>1. IsLive(e, t) => status[e][t] # "ABSENT"
      BY DEF LiveInv
    <3> QED
      BY <1>0, <2>2, <3>1 DEF Approves, Denies, Move, IsLive, Working, TypeOK, graph
  <2>3. CASE Fails(e, t)
    <3>1. status[e][t] # "ABSENT"
      BY <2>3 DEF LiveInv, IsLive, Fails
    <3>2. status[e][u] = "ABSENT" => status'[e][u] = "ABSENT"
      BY <2>3, <3>1, FailsEffect
    <3> QED
      BY <1>0, <2>3, <3>2 DEF Fails, Move, Working, TypeOK
  <2>4. CASE Expands(e, t)
    <3>1. status[e][t] # "ABSENT"
      BY <2>4 DEF LiveInv, IsLive, Expands
    <3>2. status'[e][u] # "ABSENT" => u \in gated'[e] \cup approved'
      BY <1>0, <2>4, <3>1, ExpandsEffect
    <3> QED
      BY <1>0, <2>4, <3>2 DEF Expands, Move, Working, TypeOK
  <2> QED
    BY <1>4, <2>1, <2>2, <2>3, <2>4, HandleEffect
<1> QED
  BY <1>1, <1>2, <1>3, <1>4, ExecutorSteps

LEMMA LifeInit == Init => LiveInv /\ GateRows /\ GateGraphs /\ GateDone /\ SettleInv
BY DEF Init, LiveInv, GateRows, GateGraphs, GateDone, SettleInv, IsLive, Nobody, Working,
       Recorded

\* No task that asks for approval is worked on, and none is on record as finished,
\* before somebody approved it, whatever crashes and however many processes resume
\* the run.
THEOREM GatesHold == Spec => []GateHolds
<1> DEFINE Inv == /\ TypeInv /\ LiveInv /\ SettleInv
                  /\ GateRows /\ GateGraphs /\ GateDone
<1>1. Init => Inv
  BY TypeInvInit, LifeInit
<1>2. Inv /\ [Next]_vars => Inv'
  BY TypeInvStep, LiveStep, SettleStep, GateRowsStep, GateGraphsStep, GateDoneStep
<1>3. Inv => GateHolds
  BY SetsAssumption DEF GateGraphs, GateDone, GateHolds, Working
<1> QED
  BY <1>1, <1>2, <1>3, PTL DEF Spec

(***************************************************************************)
(* The graph of a scheduler                                                *)
(*                                                                         *)
(* The planner's list, and one that a worker yields, may give its tasks a  *)
(* status, and the scheduler takes it at its word.  What follows is about  *)
(* lists that do not say that a task is already finished, or before a      *)
(* human.                                                                  *)
(***************************************************************************)

IsFresh(tasks) == \A i \in DOMAIN tasks :
                    tasks[i].status \notin {"COMPLETED", "WAITING_APPROVAL"}
FreshLists == IsFresh(Plan) /\ \A t \in TaskIds : \A tasks \in Yields[t] : IsFresh(tasks)

LEMMA FreshStatus ==
  ASSUME NEW tasks \in Seq(Task), IsFresh(tasks), NEW u \in Ids(tasks)
  PROVE  /\ StatusOf(TaskNamed(tasks, u)) \in TaskStatus
         /\ StatusOf(TaskNamed(tasks, u)) \notin {"COMPLETED", "WAITING_APPROVAL", "ABSENT"}
<1>1. PICK i \in DOMAIN tasks : tasks[i].id = u
  BY DEF Ids
<1>2. PICK j \in DOMAIN tasks : TaskNamed(tasks, u) = tasks[j]
  BY <1>1 DEF TaskNamed
<1>3. TaskNamed(tasks, u).status \notin {"COMPLETED", "WAITING_APPROVAL"}
  BY <1>2 DEF IsFresh
<1>4. StatusOf(TaskNamed(tasks, u)) \in TaskStatus
  BY TaskNamedType DEF StatusOf, Task, TaskStatus
<1> QED
  BY <1>3, <1>4 DEF StatusOf, TaskStatus

LEMMA YieldedStatus ==
  ASSUME FreshLists, TypeInv, NEW e \in Execs, NEW t \in TaskIds,
         NEW u \in Ids(yielded[e][t])
  PROVE  StatusOf(TaskNamed(yielded[e][t], u)) \notin {"COMPLETED", "WAITING_APPROVAL", "ABSENT"}
<1>1. yielded[e][t] \in Yields[t] /\ yielded[e][t] \in Seq(Task)
  BY DEF TypeInv, TypeOK, FromYields, Ids
<1> QED
  BY <1>1, FreshStatus DEF FreshLists

\* A goroutine and the status of its task agree, and a task that is worked on,
\* or waits for a human, has all it depends on.
StatusInv == \A e \in Execs, t \in TaskIds :
               /\ pc[e][t] \in Asking => status[e][t] = "WAITING_APPROVAL"
               /\ pc[e][t] \in Working => status[e][t] = "RUNNING"
BehindInv == \A e \in Execs, t \in TaskIds :
               status[e][t] = "WAITING_APPROVAL" \/ pc[e][t] \in Working =>
                 \A d \in dependsOn[e][t] : status[e][d] = "COMPLETED"

GraphInv == TypeInv /\ LiveInv /\ StatusInv /\ BehindInv

LEMMA StatusStep == GraphInv /\ [Next]_vars => StatusInv'
<1> SUFFICES ASSUME GraphInv, TypeOK, [Next]_vars, NEW e \in Execs, NEW u \in TaskIds
             PROVE  /\ pc'[e][u] \in Asking => status'[e][u] = "WAITING_APPROVAL"
                    /\ pc'[e][u] \in Working => status'[e][u] = "RUNNING"
  BY DEF StatusInv, GraphInv, TypeInv
<1> DEFINE Goal == /\ pc'[e][u] \in Asking => status'[e][u] = "WAITING_APPROVAL"
                   /\ pc'[e][u] \in Working => status'[e][u] = "RUNNING"
<1>0. /\ pc[e][u] \in Asking => status[e][u] = "WAITING_APPROVAL"
      /\ pc[e][u] \in Working => status[e][u] = "RUNNING"
      /\ IsLive(e, u) => phase[e] = "running"
      /\ status[e][u] = "WAITING_APPROVAL" =>
           \A d \in dependsOn[e][u] : status[e][d] = "COMPLETED"
  BY DEF StatusInv, BehindInv, LiveInv, GraphInv
<1> USE DEF Asking, Working
<1>1. CASE Still(e)
  BY <1>0, <1>1 DEF Still
<1>2. CASE Steers(e)
  <2>1. CASE LoadTasks(e) \/ Stop(e)
    BY <2>1 DEF LoadTasks, Stop, Nobody, TypeOK
  <2>2. ~(LoadTasks(e) \/ Stop(e)) =>
          (~IsLive(e, u) /\ UNCHANGED pc) \/ Settle(e) \/ FlushRun(e)
    BY <1>0, <1>2 DEF Steers, CreateRun, CreateTasks, LoadRun, Reopen, EndScheduler
  <2>3. CASE Settle(e) \/ FlushRun(e)
    BY <1>0, <2>3 DEF Settle, FlushRun, graph
  <2> QED
    BY <2>1, <2>2, <2>3 DEF IsLive
<1>3. ASSUME NEW t \in TaskIds, Dispatch(e, t)
      PROVE  Goal
  BY <1>0, <1>3 DEF Dispatch, Move, TypeOK
<1>4. ASSUME NEW t \in TaskIds, Handle(e, t)
      PROVE  Goal
  <2>1. CASE Proceeds(e, t)
    BY <1>0, <2>1 DEF Proceeds, Move, TypeOK, graph
  <2>2. CASE Approves(e, t) \/ Denies(e, t)
    BY <1>0, <2>2 DEF Approves, Denies, Move, TypeOK, graph
  <2>3. CASE Fails(e, t)
    <3>1. u # t /\ status[e][u] \in {"WAITING_APPROVAL", "RUNNING"} =>
            status'[e][u] = status[e][u]
      <4>1. status[e][t] # "COMPLETED"
        BY <2>3 DEF Fails, StatusInv, GraphInv
      <4> QED
        BY <1>0, <2>3, <4>1, FailsEffect
    <3> QED
      BY <1>0, <2>3, <3>1 DEF Fails, Move, TypeOK
  <2>4. CASE Expands(e, t)
    <3>1. u # t /\ status[e][u] # "ABSENT" => status'[e][u] = status[e][u]
      BY <2>4, ExpandsEffect
    <3> QED
      BY <1>0, <2>4, <3>1 DEF Expands, Move, TypeOK
  <2> QED
    BY <1>4, <2>1, <2>2, <2>3, <2>4, HandleEffect
<1> QED
  BY <1>1, <1>2, <1>3, <1>4, ExecutorSteps

LEMMA BehindStep == FreshLists /\ GraphInv /\ [Next]_vars => BehindInv'
<1> SUFFICES ASSUME FreshLists, GraphInv, TypeInv, TypeOK, StatusInv', [Next]_vars,
                    NEW e \in Execs, NEW u \in TaskIds,
                    status'[e][u] = "WAITING_APPROVAL" \/ pc'[e][u] \in Working,
                    NEW d \in dependsOn'[e][u]
             PROVE  status'[e][d] = "COMPLETED"
  BY StatusStep DEF BehindInv, GraphInv, TypeInv
<1>0. /\ status[e][u] = "WAITING_APPROVAL" \/ pc[e][u] \in Working =>
           \A x \in dependsOn[e][u] : status[e][x] = "COMPLETED"
      /\ pc[e][u] \in Working => status[e][u] = "RUNNING"
      /\ pc[e][u] \in Asking => status[e][u] = "WAITING_APPROVAL"
      /\ IsLive(e, u) => phase[e] = "running"
      /\ \A v \in TaskIds : dependsOn[e][v] \subseteq TaskIds
  BY DEF StatusInv, BehindInv, LiveInv, GraphInv, TypeOK
<1> USE DEF Asking, Working
<1>1. CASE Still(e)
  BY <1>0, <1>1 DEF Still
<1>2. CASE Steers(e)
  <2>1. CASE LoadTasks(e)
    BY <2>1 DEF LoadTasks, Loaded, Nobody, TypeOK
  <2>2. CASE CreateTasks(e)
    <3>1. UNCHANGED pc /\ ~IsLive(e, u)
      BY <1>0, <2>2 DEF CreateTasks
    <3>2. status'[e][u] = "WAITING_APPROVAL"
      BY <3>1 DEF IsLive
    <3>3. CASE Creatable(Plan)
      <4>1. u \in Ids(Plan) => StatusOf(TaskNamed(Plan, u)) # "WAITING_APPROVAL"
        BY PlanAssumption, FreshStatus DEF FreshLists
      <4> QED
        BY <2>2, <3>2, <3>3, <4>1, PlanEffect
    <3>4. CASE ~Creatable(Plan)
      BY <1>0, <2>2, <3>2, <3>4 DEF CreateTasks, graph
    <3> QED
      BY <3>3, <3>4
  <2>3. CASE EndScheduler(e)
    <3>1. /\ status'[e] = AfterSkips(e)
          /\ UNCHANGED <<dependsOn, pc>>
          /\ ~IsLive(e, u)
      BY <2>3 DEF EndScheduler, TypeOK
    <3>2. AfterSkips(e)[u] = "WAITING_APPROVAL" => status[e][u] = "WAITING_APPROVAL"
      BY AfterSkipsEffect
    <3>3. status[e][d] = "COMPLETED"
      BY <1>0, <3>1, <3>2 DEF IsLive
    <3>4. d \in TaskIds
      BY <1>0, <3>1
    <3> QED
      BY <3>1, <3>3, <3>4, AfterSkipsEffect
  <2>4. CASE Stop(e)
    BY <1>0, <2>4 DEF Stop, Nobody, graph, TypeOK
  <2> QED
    BY <1>0, <1>2, <2>1, <2>2, <2>3, <2>4
       DEF Steers, CreateRun, LoadRun, Reopen, Settle, FlushRun, graph
<1>3. ASSUME NEW t \in TaskIds, Dispatch(e, t)
      PROVE  status'[e][d] = "COMPLETED"
  BY <1>0, <1>3 DEF Dispatch, Move, IsReady, TypeOK
<1>4. ASSUME NEW t \in TaskIds, Handle(e, t)
      PROVE  status'[e][d] = "COMPLETED"
  <2>1. CASE Proceeds(e, t)
    BY <1>0, <2>1 DEF Proceeds, Move, TypeOK, graph
  <2>2. CASE Approves(e, t) \/ Denies(e, t)
    <3>1. status[e][t] = "WAITING_APPROVAL"
      BY <2>2 DEF Approves, Denies, StatusInv, GraphInv
    <3> QED
      BY <1>0, <2>2, <3>1 DEF Approves, Denies, Move, TypeOK, graph
  <2>3. CASE Fails(e, t)
    <3>1. status[e][t] # "COMPLETED"
      BY <2>3 DEF Fails, StatusInv, GraphInv
    <3>2. u # t /\ (status[e][u] = "WAITING_APPROVAL" \/ pc[e][u] \in Working)
      <4>1. pc'[e] = [pc[e] EXCEPT ![t] = "gone"]
        BY <2>3 DEF Fails, Move, TypeOK
      <4>2. CASE status'[e][u] = "WAITING_APPROVAL"
        BY <2>3, <4>2, FailsEffect
      <4>3. CASE pc'[e][u] \in Working
        BY <4>1, <4>3 DEF TypeOK
      <4> QED
        BY <4>2, <4>3
    <3>3. d \in dependsOn[e][u] /\ status[e][d] = "COMPLETED" /\ d \in TaskIds
      BY <1>0, <2>3, <3>2 DEF Fails
    <3> QED
      BY <2>3, <3>1, <3>3, FailsEffect
  <2>4. CASE Expands(e, t)
    <3>1. pc'[e] = [pc[e] EXCEPT ![t] = "gone"] /\ status[e][t] = "RUNNING"
      BY <2>4 DEF Expands, Move, TypeOK, StatusInv, GraphInv
    <3>2. u # t
      BY <2>4, <3>1, ExpandsEffect DEF TypeOK
    <3>3. \A v \in Ids(yielded[e][t]) :
            StatusOf(TaskNamed(yielded[e][t], v)) \notin {"COMPLETED", "WAITING_APPROVAL", "ABSENT"}
      BY YieldedStatus
    <3>4. pc'[e][u] \in Working => status[e][u] = "RUNNING"
      BY <1>0, <3>1, <3>2 DEF TypeOK
    <3>5. /\ status[e][u] = "WAITING_APPROVAL" \/ pc[e][u] \in Working
          /\ dependsOn'[e][u] = dependsOn[e][u]
      <4>1. CASE status'[e][u] = "WAITING_APPROVAL"
        BY <2>4, <3>2, <3>3, <4>1, ExpandsEffect
      <4>2. CASE pc'[e][u] \in Working
        <5>1. pc[e][u] \in Working
          BY <3>1, <4>2 DEF TypeOK
        <5> QED
          BY <2>4, <3>2, <3>4, <4>2, <5>1, ExpandsEffect
      <4> QED
        BY <4>1, <4>2
    <3>6. d \in TaskIds /\ status[e][d] = "COMPLETED"
      BY <1>0, <3>5
    <3> QED
      BY <2>4, <3>6, ExpandsEffect
  <2> QED
    BY <1>4, <2>1, <2>2, <2>3, <2>4, HandleEffect
<1> QED
  BY <1>1, <1>2, <1>3, <1>4, ExecutorSteps

LEMMA GraphInit == Init => GraphInv
BY TypeInvInit, LifeInit
   DEF Init, GraphInv, StatusInv, BehindInv, Nobody, Asking, Working

LEMMA GraphStep == FreshLists /\ GraphInv /\ [Next]_vars => GraphInv'
<1> SUFFICES ASSUME FreshLists, GraphInv, [Next]_vars PROVE GraphInv'
  OBVIOUS
<1>1. TypeInv' /\ LiveInv'
  BY TypeInvStep, LiveStep DEF GraphInv
<1>2. StatusInv' /\ BehindInv'
  BY StatusStep, BehindStep
<1> QED
  BY <1>1, <1>2 DEF GraphInv

\* The executor has the graph of the run.
InHand == {"loaded", "running", "settling"}

\* What one step may do to the status of a task.
Loads(e, u) == /\ LoadTasks(e)
               /\ status'[e][u] = (IF u \in Recorded THEN Loaded(row[u]) ELSE "ABSENT")
               /\ dependsOn'[e] = rowDeps
               /\ UNCHANGED table
Plans(e, u) == /\ CreateTasks(e) /\ Creates(Plan)
               /\ \/ u \in Ids(Plan) /\ status'[e][u] \notin {"COMPLETED", "WAITING_APPROVAL", "ABSENT"}
                  \/ u \notin Ids(Plan) /\ status'[e][u] = "ABSENT"
               /\ dependsOn'[e] = rowDeps'
Starts(e, u) == /\ Dispatch(e, u) \/ Approves(e, u)
                /\ status[e][u] \in {"PENDING", "WAITING_APPROVAL"}
                /\ status'[e][u] \in {"WAITING_APPROVAL", "RUNNING"}
Ends(e, u) == /\ status[e][u] \in {"PENDING", "WAITING_APPROVAL", "RUNNING"}
              /\ \/ status'[e][u] \in {"FAILED", "TIMED_OUT"}
                 \/ status'[e][u] = "SKIPPED" /\ status[e][u] # "RUNNING"
                 \/ status'[e][u] = "COMPLETED" /\ pc[e][u] = "returning"
Joins(e, u, p) == /\ Expands(e, p)
                  /\ status[e][u] = "ABSENT" /\ u \in Ids(yielded[e][p])
                  /\ status'[e][u] \notin {"COMPLETED", "WAITING_APPROVAL", "ABSENT"}
                  /\ TaskNamed(yielded[e][p], u).dependsOn \subseteq dependsOn'[e][u]

LEMMA StatusSteps ==
  ASSUME FreshLists, GraphInv, [Next]_vars, NEW e \in Execs, NEW u \in TaskIds,
         phase'[e] \in InHand
  PROVE  \/ Loads(e, u) \/ Plans(e, u)
         \/ /\ phase[e] \in InHand
            /\ \/ /\ status'[e][u] = status[e][u]
                  /\ status[e][u] # "ABSENT" => dependsOn[e][u] \subseteq dependsOn'[e][u]
               \/ /\ Starts(e, u) \/ Ends(e, u)
                  /\ dependsOn'[e][u] = dependsOn[e][u]
                  /\ UNCHANGED table
               \/ \E p \in TaskIds : Joins(e, u, p)
<1> DEFINE Same == /\ phase[e] \in InHand
                   /\ status'[e][u] = status[e][u]
                   /\ status[e][u] # "ABSENT" => dependsOn[e][u] \subseteq dependsOn'[e][u]
           Works == /\ phase[e] \in InHand
                    /\ Starts(e, u) \/ Ends(e, u)
                    /\ dependsOn'[e][u] = dependsOn[e][u]
                    /\ UNCHANGED table
           Grows == phase[e] \in InHand /\ \E p \in TaskIds : Joins(e, u, p)
           Goal == Loads(e, u) \/ Plans(e, u) \/ Same \/ Works \/ Grows
<1> SUFFICES Goal
  OBVIOUS
<1>0. TypeInv /\ TypeOK
  BY DEF GraphInv, TypeInv
<1>1. CASE Still(e)
  BY <1>1 DEF Still
<1>2. CASE Steers(e)
  <2>1. CASE CreateTasks(e)
    <3>1. Creatable(Plan)
      BY <1>0, <2>1 DEF CreateTasks, InHand, TypeOK
    <3>2. /\ dependsOn'[e] = rowDeps'
          /\ Creates(Plan)
      BY <1>0, <2>1, <3>1 DEF CreateTasks, Creates, TypeOK
    <3>3. u \in Ids(Plan) =>
            StatusOf(TaskNamed(Plan, u)) \notin {"COMPLETED", "WAITING_APPROVAL", "ABSENT"}
      BY PlanAssumption, FreshStatus DEF FreshLists
    <3> QED
      BY <1>0, <2>1, <3>1, <3>2, <3>3, PlanEffect DEF Plans
  <2>2. CASE LoadTasks(e)
    <3>1. /\ status'[e] = [t \in TaskIds |-> IF t \in Recorded THEN Loaded(row[t]) ELSE "ABSENT"]
          /\ dependsOn'[e] = rowDeps
          /\ UNCHANGED table
      BY <1>0, <2>2 DEF LoadTasks, TypeOK
    <3> QED
      BY <2>2, <3>1 DEF Loads
  <2>3. CASE EndScheduler(e)
    <3>1. /\ status'[e] = AfterSkips(e)
          /\ UNCHANGED <<dependsOn, table>>
          /\ phase[e] = "running"
      BY <1>0, <2>3 DEF EndScheduler, TypeOK
    <3> QED
      BY <1>0, <3>1, AfterSkipsEffect DEF Ends, InHand
  <2>4. CASE CreateRun(e) \/ LoadRun(e) \/ FlushRun(e) \/ Stop(e)
    BY <1>0, <2>4 DEF CreateRun, LoadRun, FlushRun, Stop, TypeOK, InHand
  <2>5. CASE Reopen(e) \/ Settle(e)
    BY <2>5 DEF Reopen, Settle, graph, InHand
  <2> QED
    BY <1>2, <2>1, <2>2, <2>3, <2>4, <2>5 DEF Steers
<1>3. ASSUME NEW t \in TaskIds, Dispatch(e, t)
      PROVE  Goal
  <2>1. CASE u = t
    BY <1>0, <1>3, <2>1 DEF Dispatch, IsReady, Starts, TypeOK, InHand
  <2>2. CASE u # t
    BY <1>0, <1>3, <2>2 DEF Dispatch, TypeOK, InHand
  <2> QED
    BY <2>1, <2>2
<1>4. ASSUME NEW t \in TaskIds, Handle(e, t)
      PROVE  Goal
  <2>0. /\ UNCHANGED phase /\ phase[e] \in InHand
        /\ pc[e][t] \in Asking => status[e][t] = "WAITING_APPROVAL"
        /\ pc[e][t] \in Working => status[e][t] = "RUNNING"
    <3>1. UNCHANGED phase
      BY <1>4, HandleEffect DEF Proceeds, Approves, Denies, Fails, Expands
    <3> QED
      BY <3>1 DEF GraphInv, StatusInv
  <2>1. CASE Proceeds(e, t) \/ Denies(e, t)
    BY <2>0, <2>1 DEF Proceeds, Denies, graph
  <2>2. CASE Approves(e, t)
    <3>1. CASE u = t
      BY <1>0, <2>0, <2>2, <3>1 DEF Approves, Starts, TypeOK, Asking
    <3>2. CASE u # t
      BY <1>0, <2>0, <2>2, <3>2 DEF Approves, TypeOK
    <3> QED
      BY <3>1, <3>2
  <2>3. CASE Fails(e, t)
    <3>1. UNCHANGED <<dependsOn, table>> /\ status[e][t] \in {"WAITING_APPROVAL", "RUNNING"}
      BY <2>0, <2>3 DEF Fails, Asking, Working
    <3> QED
      BY <1>0, <2>0, <2>3, <3>1, FailsEffect DEF Ends
  <2>4. CASE Expands(e, t)
    <3>1. UNCHANGED table /\ status[e][t] = "RUNNING" /\ pc[e][t] = "returning"
      BY <2>0, <2>4 DEF Expands, Working
    <3>2. u \in Ids(yielded[e][t]) =>
            StatusOf(TaskNamed(yielded[e][t], u)) \notin {"COMPLETED", "WAITING_APPROVAL", "ABSENT"}
      BY <1>0, YieldedStatus
    <3> QED
      BY <1>0, <2>0, <2>4, <3>1, <3>2, ExpandsEffect DEF Ends, Joins
  <2> QED
    BY <1>4, <2>1, <2>2, <2>3, <2>4, HandleEffect
<1> QED
  BY <1>0, <1>1, <1>2, <1>3, <1>4, ExecutorSteps

(***************************************************************************)
(* Pauses: one executor at a time, none of which dies                      *)
(*                                                                         *)
(* Nothing keeps two processes from executing one run, and then nothing is *)
(* kept (the run checkpoint_twice); what follows is about one.             *)
(***************************************************************************)

OneExecutor == \E e \in Execs : Execs = {e}

\* The tasks recorded as finished.
Finished == {t \in Recorded : row[t] = "COMPLETED"}

\* A run that has just begun has no rows.
FreshInv == \A e \in Execs :
              /\ runStatus = "ABSENT" \/ phase[e] = "creating" => Recorded = {}
              /\ runStatus = "ABSENT" => phase[e] = "idle"

LEMMA NewRows ==
  ASSUME TypeInv, LiveInv, [Next]_vars, Recorded' # {}, Recorded = {}
  PROVE  \/ \E e \in Execs : CreateTasks(e) /\ Creates(Plan)
         \/ \E e \in Execs : phase[e] = "running" /\ phase' = phase /\ runStatus' = runStatus
<1>1. PICK t \in TaskIds \ Foreign : row'[t] # "ABSENT"
  BY DEF Recorded
<1>2. row[t] = "ABSENT"
  BY DEF Recorded
<1> USE DEF TypeInv, TypeOK
<1>3. CASE \E e \in Execs, u \in TaskIds : Writes(e, u)
  BY <1>1, <1>2, <1>3 DEF Writes, Ask, StartWork, RecordFailure, RecordSuccess,
     RecordUnlessLate, Record
<1>4. CASE \E e \in Execs : Settle(e)
  BY <1>1, <1>2, <1>4 DEF Settle, Record
<1>5. CASE \E u \in TaskIds, scope \in {"action", "session"} : ApproveTask(u, scope)
  BY <1>1, <1>2, <1>5 DEF ApproveTask
<1>6. CASE \E e \in Execs, u \in TaskIds : RecordYield(e, u)
  BY <1>6 DEF LiveInv, IsLive, RecordYield, runRow
<1>7. CASE UNCHANGED table
  BY <1>1, <1>2, <1>7 DEF table
<1> QED
  BY <1>3, <1>4, <1>5, <1>6, <1>7, TableSteps

LEMMA RunStatusSteps ==
  ASSUME TypeOK, [Next]_vars
  PROVE  \/ UNCHANGED runStatus
         \/ runStatus' # "ABSENT" /\ (runStatus = "ABSENT" => Recorded' = Recorded)
<1>1. ASSUME NEW e \in Execs, NEW t \in TaskIds, Handle(e, t)
      PROVE  \/ UNCHANGED runStatus
             \/ runStatus' # "ABSENT" /\ UNCHANGED row
  BY <1>1 DEF Handle, Ask, Pause, Answer, StartWork, Succeed, Fail, RecordFailure,
     ReturnError, RecordSuccess, RecordYield, TakeSnapshot, FlushSnapshot, Return,
     runRow, table
<1>2. ASSUME NEW e \in Execs, Steers(e)
      PROVE  \/ UNCHANGED runStatus
             \/ runStatus' # "ABSENT" /\ UNCHANGED row
  BY <1>2 DEF Steers, CreateRun, CreateTasks, LoadRun, LoadTasks, Reopen,
     EndScheduler, Settle, FlushRun, Stop, Outcome, runRow, table
<1>3. ASSUME NEW e \in Execs, NEW t \in TaskIds, Dispatch(e, t) \/ Expire(e, t)
      PROVE  UNCHANGED runStatus
  BY <1>3 DEF Dispatch, Expire, runRow
<1>4. ASSUME NEW t \in TaskIds, NEW scope \in {"action", "session"}, ApproveTask(t, scope)
      PROVE  UNCHANGED runStatus \/ (runStatus' # "ABSENT" /\ runStatus # "ABSENT")
  BY <1>4 DEF ApproveTask, runRow
<1>5. UNCHANGED row => Recorded' = Recorded
  BY DEF Recorded
<1> QED
  BY <1>1, <1>2, <1>3, <1>4, <1>5 DEF Next, Graceful, Execute, Steers, vars, runRow

LEMMA FreshStep ==
  OneExecutor /\ TypeInv /\ LiveInv /\ FreshInv /\ [Next]_vars => FreshInv'
<1> SUFFICES ASSUME OneExecutor, TypeInv, TypeOK, LiveInv, FreshInv, [Next]_vars,
                    NEW e \in Execs
             PROVE  /\ runStatus' = "ABSENT" \/ phase'[e] = "creating" => Recorded' = {}
                    /\ runStatus' = "ABSENT" => phase'[e] = "idle"
  BY DEF FreshInv, TypeInv
<1>1. /\ runStatus = "ABSENT" \/ phase[e] = "creating" => Recorded = {}
      /\ runStatus = "ABSENT" => phase[e] = "idle"
  BY DEF FreshInv
<1>2. \A f \in Execs : f = e
  BY DEF OneExecutor
<1>3. phase'[e] = "creating" => phase[e] = "creating" \/ CreateRun(e)
  <2>1. ASSUME NEW t \in TaskIds, Handle(e, t)
        PROVE  UNCHANGED phase
    BY <2>1, HandleEffect DEF Proceeds, Approves, Denies, Fails, Expands
  <2> QED
    BY <2>1, ExecutorSteps DEF Still, Steers, CreateTasks, LoadRun, LoadTasks, Reopen,
       Dispatch, EndScheduler, Settle, FlushRun, Stop, TypeOK
<1>4. runStatus' = "ABSENT" => phase'[e] = "idle" /\ runStatus = "ABSENT"
  <2> SUFFICES ASSUME runStatus' = "ABSENT" PROVE phase'[e] = "idle" /\ runStatus = "ABSENT"
    OBVIOUS
  <2>1. runStatus = "ABSENT" /\ phase[e] = "idle" /\ UNCHANGED runStatus
    BY <1>1, RunStatusSteps
  <2>2. \A t \in TaskIds : ~IsLive(e, t)
    BY <2>1 DEF LiveInv
  <2> QED
    BY <2>1, <2>2, ExecutorSteps DEF Still, Steers, CreateRun, CreateTasks, LoadRun,
       LoadTasks, Reopen, EndScheduler, Settle, FlushRun, Stop, Dispatch, IsLive,
       Handle, Ask, Pause, Answer, StartWork, Succeed, Fail, RecordFailure, ReturnError,
       RecordSuccess, RecordYield, TakeSnapshot, FlushSnapshot, Return
<1>5. CASE runStatus' = "ABSENT" \/ (phase'[e] = "creating" /\ phase[e] = "creating")
  <2>1. Recorded = {}
    BY <1>1, <1>4, <1>5
  <2>2. ~\E f \in Execs : CreateTasks(f) /\ Creates(Plan)
    BY <1>1, <1>2, <1>4, <1>5 DEF CreateTasks, Creates, TypeOK
  <2>3. phase[e] \in {"idle", "creating"}
    BY <1>1, <1>4, <1>5
  <2>4. ~\E f \in Execs : phase[f] = "running"
    BY <1>2, <2>3
  <2> QED
    BY <1>4, <2>1, <2>2, <2>4, NewRows
<1>6. CASE CreateRun(e)
  BY <1>1, <1>6 DEF CreateRun, table, Recorded
<1> QED
  BY <1>3, <1>4, <1>5, <1>6
\* A task that has succeeded has its outputs on the blackboard ...
OutputInv == \A e \in Execs, t \in TaskIds : pc[e][t] \in Succeeded => t \in board[e]

LEMMA BoardSteps ==
  ASSUME TypeOK, [Next]_vars, NEW e \in Execs
  PROVE  \/ board'[e] = board[e]
         \/ LoadRun(e)
         \/ \E t \in TaskIds : Succeed(e, t) /\ board'[e] = board[e] \cup {t}
<1>1. CASE Steers(e)
  BY <1>1 DEF Steers, CreateRun, CreateTasks, LoadTasks, Reopen, EndScheduler, Settle,
     FlushRun, Stop
<1>2. ASSUME NEW t \in TaskIds, Dispatch(e, t) \/ Handle(e, t)
      PROVE  board'[e] = board[e] \/ (Succeed(e, t) /\ board'[e] = board[e] \cup {t})
  BY <1>2 DEF Dispatch, Handle, Ask, Pause, Answer, StartWork, Succeed, Fail,
     RecordFailure, ReturnError, RecordSuccess, RecordYield, TakeSnapshot,
     FlushSnapshot, Return, TypeOK
<1> QED
  BY <1>1, <1>2, ExecutorSteps DEF Still

\* Whose outputs these are: that of a task that succeeds stays in the same hands.
LEMMA SucceededSteps ==
  ASSUME TypeInv, LiveInv, [Next]_vars, NEW e \in Execs, NEW u \in TaskIds,
         pc'[e][u] \in Succeeded
  PROVE  pc[e][u] \in Succeeded \/ Succeed(e, u)
<1> USE DEF Succeeded, TypeInv, TypeOK
<1>1. CASE Still(e)
  BY <1>1 DEF Still
<1>2. CASE Steers(e)
  <2>1. CASE LoadTasks(e) \/ Stop(e)
    BY <2>1 DEF LoadTasks, Stop, Nobody
  <2> QED
    BY <1>2, <2>1 DEF Steers, CreateRun, CreateTasks, LoadRun, Reopen, EndScheduler,
       Settle, FlushRun
<1>3. ASSUME NEW t \in TaskIds, Dispatch(e, t)
      PROVE  pc[e][u] \in Succeeded
  BY <1>3 DEF Dispatch, Move
<1>4. ASSUME NEW t \in TaskIds, Handle(e, t)
      PROVE  pc[e][u] \in Succeeded \/ Succeed(e, u)
  <2>1. CASE Proceeds(e, t)
    BY <2>1 DEF Proceeds, Move
  <2>2. CASE Approves(e, t) \/ Denies(e, t) \/ Fails(e, t) \/ Expands(e, t)
    BY <2>2 DEF Approves, Denies, Fails, Expands, Move
  <2> QED
    BY <1>4, <2>1, <2>2, HandleEffect
<1> QED
  BY <1>1, <1>2, <1>3, <1>4, ExecutorSteps

LEMMA OutputStep == TypeInv /\ LiveInv /\ OutputInv /\ [Next]_vars => OutputInv'
<1> SUFFICES ASSUME TypeInv, TypeOK, LiveInv, OutputInv, [Next]_vars,
                    NEW e \in Execs, NEW u \in TaskIds, pc'[e][u] \in Succeeded
             PROVE  u \in board'[e]
  BY DEF OutputInv, TypeInv
<1>1. CASE Succeed(e, u)
  BY <1>1 DEF Succeed, TypeOK
<1>2. CASE pc[e][u] \in Succeeded
  <2>1. u \in board[e] /\ phase[e] = "running"
    BY <1>2 DEF OutputInv, LiveInv, IsLive, Succeeded
  <2> QED
    BY <2>1, BoardSteps DEF LoadRun
<1> QED
  BY <1>1, <1>2, SucceededSteps

\* ... and so has each task that a scheduler, or the table, knows as finished.
BoardInv == \A e \in Execs, t \in TaskIds :
              phase[e] \in InHand /\ status[e][t] = "COMPLETED" => t \in board[e]
KeptInv == \A e \in Execs :
             Finished \subseteq (IF phase[e] = "idle" THEN saved ELSE board[e])

LEMMA BoardStep ==
  FreshLists /\ GraphInv /\ OutputInv /\ BoardInv /\ KeptInv /\ [Next]_vars => BoardInv'
<1> SUFFICES ASSUME FreshLists, GraphInv, TypeInv, TypeOK, OutputInv, BoardInv, KeptInv,
                    [Next]_vars, NEW e \in Execs, NEW u \in TaskIds,
                    phase'[e] \in InHand, status'[e][u] = "COMPLETED"
             PROVE  u \in board'[e]
  BY DEF BoardInv, GraphInv, TypeInv
<1>1. board[e] \subseteq board'[e]
  BY BoardSteps DEF LoadRun, TypeOK, InHand
<1>2. CASE Loads(e, u)
  BY <1>1, <1>2 DEF Loads, LoadTasks, Loaded, KeptInv, Finished
<1>3. CASE phase[e] \in InHand /\ status[e][u] = "COMPLETED"
  BY <1>1, <1>3 DEF BoardInv
<1>4. CASE Ends(e, u)
  BY <1>1, <1>4 DEF Ends, OutputInv, Succeeded
<1> QED
  BY <1>2, <1>3, <1>4, StatusSteps DEF Plans, Starts, Joins

\* What is recorded as finished has its output on the blackboard before.
LEMMA NewlyFinished ==
  ASSUME OneExecutor, GraphInv, OutputInv, BoardInv, [Next]_vars,
         NEW e \in Execs, NEW t \in Finished' \ Finished
  PROVE  t \in board[e] /\ phase[e] # "idle" /\ UNCHANGED <<phase, saved, board>>
<1>0. /\ t \in TaskIds \ Foreign /\ row'[t] = "COMPLETED" /\ row[t] # "COMPLETED"
      /\ \A f \in Execs : f = e
      /\ TypeOK
  BY DEF Finished, Recorded, OneExecutor, GraphInv, TypeInv, TypeOK
<1>1. CASE UNCHANGED table
  BY <1>0, <1>1 DEF table
<1>2. ASSUME NEW u \in TaskIds, Writes(e, u)
      PROVE  t \in board[e] /\ phase[e] # "idle" /\ UNCHANGED <<phase, saved, board>>
  <2>1. RecordSuccess(e, u) /\ u = t
    BY <1>0, <1>2 DEF Writes, Ask, StartWork, RecordFailure, RecordSuccess,
       RecordUnlessLate, Record, TypeOK
  <2> QED
    BY <2>1 DEF RecordSuccess, runRow, OutputInv, Succeeded, LiveInv, IsLive, GraphInv
<1>3. CASE Settle(e)
  <2>1. status[e][t] = "COMPLETED"
    BY <1>0, <1>3 DEF Settle, Record, TypeOK
  <2> QED
    BY <1>0, <1>3, <2>1 DEF Settle, runRow, BoardInv, InHand
<1>4. ASSUME NEW tasks, Creates(tasks)
      PROVE  FALSE
  BY <1>0, <1>4 DEF Creates, CreateRows
<1>5. ASSUME NEW u \in TaskIds, NEW scope \in {"action", "session"}, ApproveTask(u, scope)
      PROVE  FALSE
  BY <1>0, <1>5 DEF ApproveTask
<1> QED
  BY <1>0, <1>1, <1>2, <1>3, <1>4, <1>5, TableSteps

LEMMA KeptStep ==
  OneExecutor /\ GraphInv /\ FreshInv /\ OutputInv /\ BoardInv /\ KeptInv /\ [Graceful]_vars
    => KeptInv'
<1> SUFFICES ASSUME OneExecutor, GraphInv, TypeInv, TypeOK, FreshInv, OutputInv, BoardInv,
                    KeptInv, [Graceful]_vars, NEW e \in Execs, NEW t \in Finished'
             PROVE  t \in (IF phase'[e] = "idle" THEN saved' ELSE board'[e])
  BY DEF KeptInv, GraphInv, TypeInv
<1>0. /\ [Next]_vars
      /\ \A f \in Execs : f = e
      /\ \A u \in TaskIds : IsLive(e, u) => phase[e] = "running"
  BY DEF Next, OneExecutor, GraphInv, LiveInv
<1>1. CASE t \notin Finished
  BY <1>0, <1>1, NewlyFinished
<1>2. CASE t \in Finished
  <2>0. /\ t \in (IF phase[e] = "idle" THEN saved ELSE board[e])
        /\ Recorded # {}
    BY <1>2 DEF KeptInv, Finished
  <2>1. CASE phase[e] = "creating" \/ CreateRun(e)
    BY <2>0, <2>1 DEF FreshInv, CreateRun
  <2>2. CASE LoadRun(e)
    BY <2>0, <2>2 DEF LoadRun, TypeOK
  <2>3. CASE LoadTasks(e)
    BY <2>0, <2>3 DEF LoadTasks, TypeOK
  <2>4. CASE Reopen(e) \/ FlushRun(e)
    BY <2>0, <2>4 DEF Reopen, FlushRun, TypeOK
  <2>5. CASE EndScheduler(e) \/ Settle(e)
    BY <2>0, <2>5 DEF EndScheduler, Settle, TypeOK, runRow
  <2>6. ASSUME NEW u \in TaskIds, Dispatch(e, u) \/ Handle(e, u)
        PROVE  t \in (IF phase'[e] = "idle" THEN saved' ELSE board'[e])
    <3>1. phase[e] = "running" /\ UNCHANGED phase
      <4>1. CASE Dispatch(e, u)
        BY <4>1 DEF Dispatch
      <4>2. CASE Handle(e, u)
        BY <1>0, <4>2, HandleEffect DEF Proceeds, Approves, Denies, Fails, Expands,
           IsLive, Asking, Working
      <4> QED
        BY <2>6, <4>1, <4>2
    <3> QED
      BY <1>0, <2>0, <3>1, BoardSteps DEF LoadRun
  <2>7. CASE \E u \in TaskIds : Expire(e, u)
    BY <2>0, <2>7 DEF Expire, runRow
  <2>8. CASE \E u \in TaskIds, scope \in {"action", "session"} : ApproveTask(u, scope)
    BY <2>0, <2>8 DEF ApproveTask, runRow
  <2>9. CASE UNCHANGED vars
    BY <2>0, <2>9 DEF vars, runRow
  <2> QED
    BY <1>0, <2>1, <2>2, <2>3, <2>4, <2>5, <2>6, <2>7, <2>8, <2>9
       DEF Graceful, Execute, CreateTasks
<1> QED
  BY <1>1, <1>2
LEMMA KeptInit == OneExecutor /\ Init => FreshInv /\ OutputInv /\ BoardInv /\ KeptInv
BY DEF Init, FreshInv, OutputInv, BoardInv, KeptInv, Nobody, Finished, Recorded, InHand,
       Succeeded

\* What the table has as finished is on the blackboard, or in the snapshot of a
\* run that nobody executes.
LEMMA KeptIsWhole ==
  ASSUME OneExecutor, GraphInv, BoardInv, KeptInv
  PROVE  InputsRestored /\ FrozenIsWhole
<1>1. InputsRestored
  <2> SUFFICES ASSUME NEW e \in Execs, NEW t \in TaskIds, pc[e][t] = "working",
                      NEW d \in dependsOn[e][t]
               PROVE  d \in board[e]
    BY DEF InputsRestored
  <2>1. phase[e] = "running"
    BY DEF GraphInv, LiveInv, IsLive
  <2>2. d \in TaskIds /\ status[e][d] = "COMPLETED"
    BY DEF GraphInv, BehindInv, Working, TypeInv, TypeOK
  <2> QED
    BY <2>1, <2>2 DEF BoardInv, InHand
<1>2. FrozenIsWhole
  BY DEF OneExecutor, KeptInv, FrozenIsWhole, Finished
<1> QED
  BY <1>1, <1>2

\* As long as the process that executes a run does not die, whatever fails, expires,
\* pauses and is resumed, a task finds its inputs, and a run that is frozen is whole.
THEOREM PausesKeep ==
  ASSUME OneExecutor, FreshLists
  PROVE  MCSpec => []PausesLoseNothing
<1> DEFINE Inv == /\ GraphInv /\ FreshInv /\ OutputInv
                  /\ graceful => BoardInv /\ KeptInv
<1>1. MCInit => Inv
  BY GraphInit, KeptInit DEF MCInit
<1>2. Inv /\ [MCNext]_<<vars, graceful>> => Inv'
  <2> SUFFICES ASSUME Inv, [MCNext]_<<vars, graceful>> PROVE Inv'
    OBVIOUS
  <2>1. [Next]_vars /\ (graceful' => graceful /\ [Graceful]_vars)
    BY DEF MCNext, Next
  <2>2. GraphInv' /\ FreshInv' /\ OutputInv'
    BY <2>1, GraphStep, FreshStep, OutputStep DEF GraphInv
  <2>3. ASSUME graceful' PROVE BoardInv' /\ KeptInv'
    BY <2>1, <2>3, BoardStep, KeptStep
  <2> QED
    BY <2>2, <2>3
<1>3. Inv => PausesLoseNothing
  BY KeptIsWhole DEF PausesLoseNothing, GraphInv, TypeInv
<1> QED
  BY <1>1, <1>2, <1>3, PTL DEF MCSpec

(***************************************************************************)
(* The contract of the store                                               *)
(*                                                                         *)
(* A yielded ID under which another run has finished a task is refused by  *)
(* the table and taken into the graph, and then the row of the other run   *)
(* is written.  An ID that two tasks yield gets the row of one and the     *)
(* task of the other.  What follows is about runs where neither happens.   *)
(***************************************************************************)

ForeignApart == \A t \in TaskIds : \A tasks \in Yields[t] : Ids(tasks) \cap Foreign = {}

DistinctYields ==
  \A p, q \in TaskIds : p # q =>
    \A a \in Yields[p], b \in Yields[q] : Ids(a) \cap Ids(b) = {}

Lone == OneExecutor /\ ForeignApart /\ FreshLists /\ DistinctYields

\* What one step may do to a row.
OnRecord(u) == /\ row[u] # "ABSENT" /\ rowDeps'[u] = rowDeps[u]
Written(e, u) == /\ OnRecord(u)
                 /\ \/ Ask(e, u) /\ row'[u] = "WAITING_APPROVAL"
                    \/ StartWork(e, u) /\ row'[u] = "RUNNING"
                    \/ RecordFailure(e, u) /\ row'[u] = "FAILED"
                    \/ RecordSuccess(e, u) /\ row'[u] = "COMPLETED"
Settled(e, u) == OnRecord(u) /\ Settle(e) /\ u \in toSettle[e] /\ row'[u] = status[e][u]
Released(u) == OnRecord(u) /\ row[u] = "WAITING_APPROVAL" /\ row'[u] = "PENDING"
Planned(e, u) == /\ row[u] = "ABSENT" /\ row'[u] = "PENDING"
                 /\ CreateTasks(e) /\ Creates(Plan)
Yielded(e, u, p) == /\ row[u] = "ABSENT" /\ row'[u] = "PENDING"
                    /\ RecordYield(e, p) /\ u \in Ids(yielded[e][p])
                    /\ rowDeps'[u] = TaskNamed(yielded[e][p], u).dependsOn

LEMMA RowSteps ==
  ASSUME OneExecutor, TypeOK, [Next]_vars, NEW e \in Execs, NEW u \in TaskIds
  PROVE  \/ row'[u] = row[u] /\ rowDeps'[u] = rowDeps[u]
         \/ Written(e, u) \/ Settled(e, u) \/ Released(u)
         \/ Planned(e, u)
         \/ \E p \in TaskIds : Yielded(e, u, p)
<1> USE DEF TypeOK, OnRecord
<1>0. \A f \in Execs : f = e
  BY DEF OneExecutor
<1>1. CASE UNCHANGED table
  BY <1>1 DEF table
<1>2. ASSUME NEW t \in TaskIds, Writes(e, t)
      PROVE  (row'[u] = row[u] /\ rowDeps'[u] = rowDeps[u]) \/ Written(e, u)
  <2>1. UNCHANGED rowDeps
    BY <1>2 DEF Writes, Ask, StartWork, RecordFailure, RecordSuccess
  <2> QED
    BY <1>2, <2>1 DEF Writes, Written, Ask, StartWork, RecordFailure, RecordSuccess,
       RecordUnlessLate, Record
<1>3. CASE Settle(e)
  BY <1>3 DEF Settle, Settled, Record
<1>4. CASE CreateTasks(e) /\ Creates(Plan)
  BY <1>4 DEF Creates, CreateRows, Creatable, Planned
<1>5. ASSUME NEW p \in TaskIds, RecordYield(e, p), Creates(yielded[e][p])
      PROVE  (row'[u] = row[u] /\ rowDeps'[u] = rowDeps[u]) \/ Yielded(e, u, p)
  <2> DEFINE tasks == yielded[e][p]
  <2>1. /\ row'[u] = (IF u \in Ids(tasks) THEN "PENDING" ELSE row[u])
        /\ rowDeps'[u] = (IF u \in Ids(tasks) THEN TaskNamed(tasks, u).dependsOn ELSE rowDeps[u])
        /\ u \in Ids(tasks) => row[u] = "ABSENT"
    BY <1>5 DEF Creates, CreateRows, Creatable
  <2> QED
    BY <1>5, <2>1 DEF Yielded
<1>6. ASSUME NEW t \in TaskIds, NEW scope \in {"action", "session"}, ApproveTask(t, scope)
      PROVE  (row'[u] = row[u] /\ rowDeps'[u] = rowDeps[u]) \/ Released(u)
  BY <1>6 DEF ApproveTask, Released
<1> QED
  BY <1>0, <1>1, <1>2, <1>3, <1>4, <1>5, <1>6, TableSteps

\* The tasks of other runs are in no graph, and their rows stay as they are.
ForeignInv ==
  \A t \in Foreign :
    /\ row[t] = "COMPLETED"
    /\ \A e \in Execs : phase[e] \in InHand => status[e][t] = "ABSENT"

LEMMA ForeignStep ==
  FreshLists /\ ForeignApart /\ GraphInv /\ SettleInv /\ ForeignInv /\ [Next]_vars
    => ForeignInv'
<1> SUFFICES ASSUME FreshLists, ForeignApart, GraphInv, TypeInv, TypeOK, SettleInv, ForeignInv,
                    [Next]_vars, NEW t \in Foreign
             PROVE  /\ row'[t] = "COMPLETED"
                    /\ \A e \in Execs : phase'[e] \in InHand => status'[e][t] = "ABSENT"
  BY DEF ForeignInv, GraphInv, TypeInv
<1>0. /\ t \in TaskIds /\ row[t] = "COMPLETED"
      /\ \A e \in Execs : phase[e] \in InHand => status[e][t] = "ABSENT"
  BY SetsAssumption DEF ForeignInv
<1>1. row'[t] = "COMPLETED"
  <2>1. ASSUME NEW e \in Execs, NEW u \in TaskIds, Writes(e, u)
        PROVE  row'[t] = row[t]
    <3>1. u # t
      <4>1. IsLive(e, u)
        BY <2>1 DEF Writes, IsLive, Ask, StartWork, RecordFailure, RecordSuccess
      <4> QED
        BY <1>0, <4>1 DEF GraphInv, LiveInv, InHand
    <3> QED
      BY <1>0, <2>1, <3>1 DEF Writes, Ask, StartWork, RecordFailure, RecordSuccess,
         RecordUnlessLate, Record, TypeOK
  <2>2. ASSUME NEW e \in Execs, Settle(e)
        PROVE  row'[t] = row[t]
    <3>1. PICK u \in toSettle[e] : Record(u, status[e][u])
      BY <2>2 DEF Settle
    <3>2. u # t /\ u \in TaskIds
      BY <1>0, <2>2 DEF Settle, SettleInv, InHand, TypeOK
    <3> QED
      BY <1>0, <3>1, <3>2 DEF Record, TypeOK
  <2>3. ASSUME NEW tasks, Creates(tasks)
        PROVE  row'[t] = row[t]
    BY <1>0, <2>3 DEF Creates, CreateRows, Creatable
  <2>4. ASSUME NEW u \in TaskIds, NEW scope \in {"action", "session"}, ApproveTask(u, scope)
        PROVE  row'[t] = row[t]
    BY <1>0, <2>4 DEF ApproveTask
  <2> QED
    BY <1>0, <2>1, <2>2, <2>3, <2>4, TableSteps DEF table
<1>2. ASSUME NEW e \in Execs, phase'[e] \in InHand
      PROVE  status'[e][t] = "ABSENT"
  <2>1. ASSUME NEW p \in TaskIds PROVE ~Joins(e, t, p)
    <3>1. t \in Ids(yielded[e][p]) => yielded[e][p] \in Yields[p]
      BY DEF TypeInv, FromYields, Ids
    <3> QED
      BY <3>1 DEF Joins, ForeignApart
  <2>2. Plans(e, t) => status'[e][t] = "ABSENT"
    BY <1>0 DEF Plans, Creates, Creatable
  <2> QED
    BY <1>0, <1>2, <2>1, <2>2, StatusSteps DEF Loads, Recorded, Starts, Ends
<1> QED
  BY <1>1, <1>2

\* What is finished, for the table or for a scheduler, was done.
DoneInv ==
  /\ \A t \in TaskIds : row[t] = "COMPLETED" => t \in done
  /\ \A e \in Execs, t \in TaskIds :
       \/ phase[e] \in InHand /\ status[e][t] = "COMPLETED"
       \/ pc[e][t] \in Succeeded
       => t \in done

LEMMA DoneGrows == [Next]_vars => done \subseteq done'
<1> SUFFICES ASSUME [Next]_vars PROVE done \subseteq done'
  OBVIOUS
<1>1. ASSUME NEW e \in Execs, NEW t \in TaskIds, Handle(e, t)
      PROVE  done \subseteq done'
  BY <1>1 DEF Handle, Ask, Pause, Answer, StartWork, Succeed, Fail, RecordFailure,
     ReturnError, RecordSuccess, RecordYield, TakeSnapshot, FlushSnapshot, Return
<1>2. ASSUME NEW e \in Execs, Steers(e)
      PROVE  UNCHANGED done
  BY <1>2 DEF Steers, CreateRun, CreateTasks, LoadRun, LoadTasks, Reopen,
     EndScheduler, Settle, FlushRun, Stop
<1>3. ASSUME NEW e \in Execs, NEW t \in TaskIds, Dispatch(e, t) \/ Expire(e, t)
      PROVE  UNCHANGED done
  BY <1>3 DEF Dispatch, Expire
<1>4. ASSUME NEW t \in TaskIds, NEW scope \in {"action", "session"}, ApproveTask(t, scope)
      PROVE  UNCHANGED done
  BY <1>4 DEF ApproveTask
<1> QED
  BY <1>1, <1>2, <1>3, <1>4 DEF Next, Graceful, Execute, Steers, vars

LEMMA DoneStep ==
  OneExecutor /\ FreshLists /\ GraphInv /\ SettleInv /\ DoneInv /\ [Next]_vars => DoneInv'
<1> SUFFICES ASSUME OneExecutor, FreshLists, GraphInv, TypeInv, TypeOK, SettleInv, DoneInv,
                    [Next]_vars, NEW e \in Execs, NEW t \in TaskIds
             PROVE  /\ row'[t] = "COMPLETED" => t \in done'
                    /\ \/ phase'[e] \in InHand /\ status'[e][t] = "COMPLETED"
                       \/ pc'[e][t] \in Succeeded
                       => t \in done'
  BY DEF OneExecutor, DoneInv, GraphInv, TypeInv
<1>0. done \subseteq done'
  BY DoneGrows
<1>1. ASSUME row'[t] = "COMPLETED" PROVE t \in done'
  <2>1. CASE Written(e, t)
    BY <1>0, <1>1, <2>1 DEF Written, RecordSuccess, DoneInv, Succeeded
  <2>2. CASE Settled(e, t)
    BY <1>1, <2>2 DEF Settled, SettleInv
  <2> QED
    BY <1>0, <1>1, <2>1, <2>2, RowSteps DEF Released, Planned, Yielded, DoneInv
<1>2. ASSUME phase'[e] \in InHand, status'[e][t] = "COMPLETED" PROVE t \in done'
  <2>1. CASE Loads(e, t)
    BY <1>0, <1>2, <2>1 DEF Loads, Loaded, DoneInv
  <2>2. CASE Ends(e, t)
    BY <1>0, <1>2, <2>2 DEF Ends, DoneInv, Succeeded
  <2> QED
    BY <1>0, <1>2, <2>1, <2>2, StatusSteps DEF Plans, Starts, Joins, DoneInv
<1>3. ASSUME pc'[e][t] \in Succeeded PROVE t \in done'
  BY <1>0, <1>3, SucceededSteps DEF Succeed, DoneInv, GraphInv
<1> QED
  BY <1>1, <1>2, <1>3

\* Where a goroutine has not recorded its task as finished yet.
Early == {"starting", "working", "failing", "finishing"}

LEMMA EarlySteps ==
  ASSUME TypeOK, [Next]_vars, NEW e \in Execs, NEW u \in TaskIds, pc'[e][u] \in Early
  PROVE  \/ pc[e][u] \in Early /\ ~RecordSuccess(e, u)
         \/ Dispatch(e, u) \/ Approves(e, u)
<1> USE DEF Early, TypeOK
<1>0. ~RecordSuccess(e, u)
  BY DEF RecordSuccess, Move
<1>1. CASE Still(e)
  BY <1>0, <1>1 DEF Still
<1>2. CASE Steers(e)
  <2>1. CASE LoadTasks(e) \/ Stop(e)
    BY <2>1 DEF LoadTasks, Stop, Nobody
  <2> QED
    BY <1>0, <1>2, <2>1 DEF Steers, CreateRun, CreateTasks, LoadRun, Reopen,
       EndScheduler, Settle, FlushRun
<1>3. ASSUME NEW t \in TaskIds, Dispatch(e, t), ~Dispatch(e, u)
      PROVE  pc[e][u] \in Early
  BY <1>3 DEF Dispatch, Move
<1>4. ASSUME NEW t \in TaskIds, Handle(e, t), ~Approves(e, u)
      PROVE  pc[e][u] \in Early
  <2>1. CASE u # t
    <3>1. \E to \in Places : Move(e, t, to)
      BY <1>4, HandleMoves
    <3> QED
      BY <2>1, <3>1 DEF Move
  <2>2. CASE u = t
    BY <1>4, <2>2 DEF Handle, Ask, Pause, Answer, StartWork, Succeed, Fail,
       RecordFailure, ReturnError, RecordSuccess, RecordYield, TakeSnapshot,
       FlushSnapshot, Return, Move, Approves
  <2> QED
    BY <2>1, <2>2
<1> QED
  BY <1>0, <1>1, <1>2, <1>3, <1>4, ExecutorSteps

\* The row of a task that is not finished does not say so.
RowInv ==
  /\ \A t \in TaskIds : row[t] # "TIMED_OUT"
  /\ \A e \in Execs, t \in TaskIds : phase[e] \in InHand =>
       /\ status[e][t] \in {"PENDING", "WAITING_APPROVAL", "SKIPPED"} => row[t] # "COMPLETED"
       /\ status[e][t] \in {"PENDING", "WAITING_APPROVAL"} => row[t] # "SKIPPED"
       /\ pc[e][t] \in Early => row[t] \notin {"COMPLETED", "SKIPPED"}

\* A task that is in the table and in the graph waits in the graph for all it
\* waits for in the table.  One that is only in the graph was refused by the
\* table, and one that is only in the table was not taken into the graph yet, or
\* was refused by it.
Behind == {"saving", "flushing", "returning", "gone"}
DepsInv ==
  \A e \in Execs, t \in TaskIds \ Foreign : phase[e] \in InHand =>
    /\ status[e][t] # "ABSENT" /\ row[t] # "ABSENT" => rowDeps[t] \subseteq dependsOn[e][t]
    /\ status[e][t] # "ABSENT" /\ row[t] = "ABSENT" =>
         \E p \in TaskIds : pc[e][p] = "gone" /\ t \in Ids(yielded[e][p])
    /\ status[e][t] = "ABSENT" /\ row[t] # "ABSENT" =>
         /\ row[t] = "PENDING"
         /\ \E p \in TaskIds : /\ pc[e][p] \in Behind
                               /\ t \in Ids(yielded[e][p])
                               /\ rowDeps[t] = TaskNamed(yielded[e][p], t).dependsOn

ContractInv == /\ GraphInv /\ FreshInv /\ SettleInv /\ ForeignInv
               /\ DoneInv /\ RowInv /\ DepsInv

LEMMA RowStep == Lone /\ ContractInv /\ [Next]_vars => RowInv'
<1> SUFFICES ASSUME Lone, ContractInv, [Next]_vars, NEW e \in Execs, NEW t \in TaskIds
             PROVE  /\ row'[t] # "TIMED_OUT"
                    /\ phase'[e] \in InHand =>
                         /\ status'[e][t] \in {"PENDING", "WAITING_APPROVAL", "SKIPPED"} =>
                              row'[t] # "COMPLETED"
                         /\ status'[e][t] \in {"PENDING", "WAITING_APPROVAL"} => row'[t] # "SKIPPED"
                         /\ pc'[e][t] \in Early => row'[t] \notin {"COMPLETED", "SKIPPED"}
  BY DEF RowInv, Lone, OneExecutor
<1>0. /\ TypeOK /\ OneExecutor /\ FreshLists /\ GraphInv
      /\ row[t] # "TIMED_OUT"
      /\ phase[e] \in InHand =>
           /\ status[e][t] \in {"PENDING", "WAITING_APPROVAL", "SKIPPED"} => row[t] # "COMPLETED"
           /\ status[e][t] \in {"PENDING", "WAITING_APPROVAL"} => row[t] # "SKIPPED"
           /\ pc[e][t] \in Early => row[t] \notin {"COMPLETED", "SKIPPED"}
      /\ pc[e][t] \in Early => phase[e] = "running"
      /\ t \in toSettle[e] => status[e][t] \in {"SKIPPED", "WAITING_APPROVAL"}
  BY DEF RowInv, Lone, ContractInv, GraphInv, TypeInv, LiveInv, IsLive, Early, SettleInv
<1>f. ForeignInv'
  BY ForeignStep DEF Lone, ContractInv
<1>1. row'[t] # "TIMED_OUT"
  BY <1>0, RowSteps DEF Written, Settled, Released, Planned, Yielded
<1>2. ASSUME phase'[e] \in InHand
      PROVE  /\ status'[e][t] \in {"PENDING", "WAITING_APPROVAL", "SKIPPED"} => row'[t] # "COMPLETED"
             /\ status'[e][t] \in {"PENDING", "WAITING_APPROVAL"} => row'[t] # "SKIPPED"
  <2>0. CASE t \in Foreign
    BY <1>2, <1>f, <2>0 DEF ForeignInv
  <2>1. CASE Loads(e, t)
    BY <2>1 DEF Loads, Loaded, Recorded, table
  <2>2. CASE Plans(e, t)
    BY <2>2 DEF Plans, Creates, CreateRows
  <2>3. CASE (Starts(e, t) \/ Ends(e, t)) /\ UNCHANGED table /\ phase[e] \in InHand
    BY <1>0, <2>3 DEF Starts, Ends, table
  <2>4. CASE t \notin Foreign /\ phase[e] \in InHand /\ \E p \in TaskIds : Joins(e, t, p)
    <3>1. row[t] \in {"ABSENT", "PENDING"}
      BY <2>4 DEF Joins, ContractInv, DepsInv
    <3> QED
      BY <2>4, <3>1 DEF Joins, Expands, table
  <2>5. CASE phase[e] \in InHand /\ status'[e][t] = status[e][t]
    <3>1. RecordSuccess(e, t) => status[e][t] = "RUNNING"
      BY <1>0 DEF RecordSuccess, GraphInv, StatusInv, Working
    <3> QED
      BY <1>0, <2>5, <3>1, RowSteps DEF Written, Settled, Released, Planned, Yielded
  <2> QED
    BY <1>0, <1>2, <2>0, <2>1, <2>2, <2>3, <2>4, <2>5, StatusSteps
<1>3. ASSUME phase'[e] \in InHand, pc'[e][t] \in Early
      PROVE  row'[t] \notin {"COMPLETED", "SKIPPED"}
  <2>1. CASE pc[e][t] \in Early /\ ~RecordSuccess(e, t)
    <3>1. row[t] \notin {"COMPLETED", "SKIPPED"} /\ ~Settle(e)
      BY <1>0, <2>1 DEF InHand, Settle
    <3> QED
      BY <1>0, <2>1, <3>1, RowSteps DEF Written, Settled, Released, Planned, Yielded
  <2>2. CASE Dispatch(e, t)
    BY <1>0, <2>2 DEF Dispatch, IsReady, InHand, table
  <2>3. CASE Approves(e, t)
    <3>1. status[e][t] = "WAITING_APPROVAL" /\ phase[e] = "running"
      BY <1>0, <2>3 DEF Approves, GraphInv, StatusInv, LiveInv, IsLive, Asking
    <3> QED
      BY <1>0, <2>3, <3>1 DEF Approves, InHand, table
  <2> QED
    BY <1>0, <1>3, <2>1, <2>2, <2>3, EarlySteps
<1> QED
  BY <1>1, <1>2, <1>3
LEMMA BehindStays ==
  ASSUME TypeInv, LiveInv, [Next]_vars, NEW e \in Execs, NEW p \in TaskIds,
         phase[e] \in InHand, phase'[e] \in InHand, pc[e][p] \in Behind
  PROVE  /\ pc'[e][p] \in Behind
         /\ pc[e][p] = "gone" => pc'[e][p] = "gone"
         /\ yielded'[e][p] = yielded[e][p]
<1> USE DEF TypeInv, TypeOK, Behind, InHand
<1>1. yielded'[e][p] = yielded[e][p]
  <2>1. ASSUME NEW f \in Execs, NEW q \in TaskIds, Succeed(f, q)
        PROVE  yielded'[e][p] = yielded[e][p]
    BY <2>1 DEF Succeed
  <2> QED
    BY <2>1, YieldedStep
<1>2. CASE Still(e)
  BY <1>1, <1>2 DEF Still
<1>3. CASE Steers(e)
  BY <1>1, <1>3 DEF Steers, CreateRun, CreateTasks, LoadRun, LoadTasks, Reopen,
     EndScheduler, Settle, FlushRun, Stop
<1>4. ASSUME NEW t \in TaskIds, Dispatch(e, t)
      PROVE  pc'[e][p] = pc[e][p]
  BY <1>4 DEF Dispatch, Move
<1>5. ASSUME NEW t \in TaskIds, Handle(e, t)
      PROVE  /\ pc'[e][p] \in Behind
             /\ pc[e][p] = "gone" => pc'[e][p] = "gone"
  <2>1. CASE p # t
    <3>1. \E to \in Places : Move(e, t, to)
      BY <1>5, HandleMoves
    <3> QED
      BY <2>1, <3>1 DEF Move
  <2>2. CASE p = t
    BY <1>5, <2>2 DEF Handle, Ask, Pause, Answer, StartWork, Succeed, Fail,
       RecordFailure, ReturnError, RecordSuccess, RecordYield, TakeSnapshot,
       FlushSnapshot, Return, Move
  <2> QED
    BY <2>1, <2>2
<1> QED
  BY <1>1, <1>2, <1>3, <1>4, <1>5, ExecutorSteps

\* Nobody else yields an ID.
LEMMA OneYields ==
  ASSUME DistinctYields, TypeInv, NEW e \in Execs, NEW p \in TaskIds, NEW q \in TaskIds,
         NEW t \in Ids(yielded[e][p]), t \in Ids(yielded[e][q])
  PROVE  p = q
<1>1. yielded[e][p] \in Yields[p] /\ yielded[e][q] \in Yields[q]
  BY DEF TypeInv, FromYields, Ids
<1> QED
  BY <1>1 DEF DistinctYields

LEMMA DepsStep == Lone /\ ContractInv /\ [Next]_vars => DepsInv'
<1> SUFFICES ASSUME Lone, ContractInv, [Next]_vars,
                    NEW e \in Execs, NEW t \in TaskIds \ Foreign, phase'[e] \in InHand
             PROVE  /\ status'[e][t] # "ABSENT" /\ row'[t] # "ABSENT" =>
                         rowDeps'[t] \subseteq dependsOn'[e][t]
                    /\ status'[e][t] # "ABSENT" /\ row'[t] = "ABSENT" =>
                         \E p \in TaskIds : pc'[e][p] = "gone" /\ t \in Ids(yielded'[e][p])
                    /\ status'[e][t] = "ABSENT" /\ row'[t] # "ABSENT" =>
                         /\ row'[t] = "PENDING"
                         /\ \E p \in TaskIds :
                              /\ pc'[e][p] \in Behind
                              /\ t \in Ids(yielded'[e][p])
                              /\ rowDeps'[t] = TaskNamed(yielded'[e][p], t).dependsOn
  BY DEF DepsInv, Ids, TaskNamed
<1>0. /\ TypeOK /\ TypeInv /\ OneExecutor /\ FreshLists /\ GraphInv /\ LiveInv /\ DistinctYields
  BY DEF Lone, ContractInv, GraphInv, TypeInv
<1>a. phase[e] \in InHand /\ status[e][t] # "ABSENT" /\ row[t] # "ABSENT" =>
        rowDeps[t] \subseteq dependsOn[e][t]
  BY DEF ContractInv, DepsInv
<1>b. phase[e] \in InHand /\ status[e][t] # "ABSENT" /\ row[t] = "ABSENT" =>
        \E p \in TaskIds : pc[e][p] = "gone" /\ t \in Ids(yielded[e][p])
  BY DEF ContractInv, DepsInv
<1>c. phase[e] \in InHand /\ status[e][t] = "ABSENT" /\ row[t] # "ABSENT" =>
        /\ row[t] = "PENDING"
        /\ \E p \in TaskIds : /\ pc[e][p] \in Behind
                              /\ t \in Ids(yielded[e][p])
                              /\ rowDeps[t] = TaskNamed(yielded[e][p], t).dependsOn
  BY DEF ContractInv, DepsInv
<1>1. row'[t] = "ABSENT" => row[t] = "ABSENT"
  <2>1. Settled(e, t) => row'[t] # "ABSENT"
    BY DEF Settled, ContractInv, SettleInv
  <2> QED
    BY <1>0, <2>1, RowSteps DEF Written, Released, Planned, Yielded
<1>2. ASSUME status'[e][t] # "ABSENT", row'[t] # "ABSENT"
      PROVE  rowDeps'[t] \subseteq dependsOn'[e][t]
  <2>1. CASE Loads(e, t)
    BY <2>1 DEF Loads, table
  <2>2. CASE Plans(e, t)
    BY <2>2 DEF Plans
  <2>3. CASE phase[e] \in InHand /\ \E p \in TaskIds : Joins(e, t, p)
    <3>1. PICK p \in TaskIds : Joins(e, t, p)
      BY <2>3
    <3>2. UNCHANGED table /\ t \in Ids(yielded[e][p])
      BY <3>1 DEF Joins, Expands
    <3>3. PICK q \in TaskIds : /\ t \in Ids(yielded[e][q])
                               /\ rowDeps[t] = TaskNamed(yielded[e][q], t).dependsOn
      BY <1>c, <1>2, <2>3, <3>1, <3>2 DEF Joins, table
    <3>4. q = p
      BY <1>0, <3>2, <3>3, OneYields
    <3> QED
      BY <3>1, <3>2, <3>3, <3>4 DEF Joins, table
  <2>4. CASE /\ phase[e] \in InHand
             /\ dependsOn[e][t] \subseteq dependsOn'[e][t]
             /\ status[e][t] # "ABSENT"
    <3>1. CASE row[t] # "ABSENT"
      <4>1. rowDeps'[t] = rowDeps[t]
        BY <1>0, <3>1, RowSteps DEF Written, Settled, Released, Planned, Yielded, OnRecord
      <4> QED
        BY <1>a, <2>4, <3>1, <4>1
    <3>2. CASE row[t] = "ABSENT"
      <4>1. PICK p \in TaskIds : pc[e][p] = "gone" /\ t \in Ids(yielded[e][p])
        BY <1>b, <2>4, <3>2
      <4>2. ~Planned(e, t)
        BY <2>4 DEF Planned, CreateTasks, InHand
      <4>3. ASSUME NEW q \in TaskIds, Yielded(e, t, q) PROVE FALSE
        <5>1. t \in Ids(yielded[e][q]) /\ pc[e][q] = "yielding"
          BY <4>3 DEF Yielded, RecordYield
        <5> QED
          BY <1>0, <4>1, <5>1, OneYields
      <4> QED
        BY <1>0, <1>2, <3>2, <4>2, <4>3, RowSteps
           DEF Written, Settled, Released, OnRecord
    <3> QED
      BY <3>1, <3>2
  <2> QED
    BY <1>0, <1>2, <2>1, <2>2, <2>3, <2>4, StatusSteps DEF Starts, Ends
<1>3. ASSUME status'[e][t] # "ABSENT", row'[t] = "ABSENT"
      PROVE  \E p \in TaskIds : pc'[e][p] = "gone" /\ t \in Ids(yielded'[e][p])
  <2>1. CASE Loads(e, t)
    BY <1>1, <1>3, <2>1 DEF Loads, Recorded
  <2>2. CASE Plans(e, t)
    BY <1>3, <2>2 DEF Plans, Creates, CreateRows
  <2>3. ASSUME phase[e] \in InHand, NEW p \in TaskIds, Joins(e, t, p)
        PROVE  \E q \in TaskIds : pc'[e][q] = "gone" /\ t \in Ids(yielded'[e][q])
    <3>1. t \in Ids(yielded[e][p]) /\ pc[e][p] = "returning" /\ pc'[e][p] = "gone"
      BY <1>0, <2>3 DEF Joins, Expands, Move, TypeOK
    <3>2. yielded'[e][p] = yielded[e][p]
      BY <1>0, <2>3, <3>1, BehindStays DEF Behind
    <3> QED
      BY <3>1, <3>2
  <2>4. CASE phase[e] \in InHand /\ status[e][t] # "ABSENT"
    <3>1. PICK p \in TaskIds : pc[e][p] = "gone" /\ t \in Ids(yielded[e][p])
      BY <1>1, <1>3, <1>b, <2>4
    <3>2. pc'[e][p] = "gone" /\ yielded'[e][p] = yielded[e][p]
      BY <1>0, <2>4, <3>1, BehindStays DEF Behind
    <3> QED
      BY <3>1, <3>2
  <2> QED
    BY <1>0, <1>3, <2>1, <2>2, <2>3, <2>4, StatusSteps DEF Starts, Ends
<1>4. ASSUME status'[e][t] = "ABSENT", row'[t] # "ABSENT"
      PROVE  /\ row'[t] = "PENDING"
             /\ \E p \in TaskIds : /\ pc'[e][p] \in Behind
                                   /\ t \in Ids(yielded'[e][p])
                                   /\ rowDeps'[t] = TaskNamed(yielded'[e][p], t).dependsOn
  <2>1. ~Loads(e, t)
    BY <1>0, <1>4 DEF Loads, Loaded, Recorded, table
  <2>2. ~Plans(e, t)
    <3>1. SUFFICES ASSUME Plans(e, t) PROVE FALSE
      OBVIOUS
    <3>2. row[t] = "ABSENT"
      BY <1>0, <3>1 DEF Plans, CreateTasks, ContractInv, FreshInv, Recorded
    <3> QED
      BY <1>4, <3>1, <3>2 DEF Plans, Creates, CreateRows
  <2>3. phase[e] \in InHand /\ status[e][t] = "ABSENT"
    BY <1>0, <1>4, <2>1, <2>2, StatusSteps DEF Starts, Ends, Joins
  <2>4. /\ ~Written(e, t) /\ ~Settled(e, t) /\ ~Released(t) /\ ~Planned(e, t)
    <3>1. ~IsLive(e, t)
      BY <1>0, <2>3 DEF LiveInv
    <3>2. ~Written(e, t)
      BY <3>1 DEF Written, IsLive, Ask, StartWork, RecordFailure, RecordSuccess
    <3>3. ~Settled(e, t)
      BY <2>3 DEF Settled, ContractInv, SettleInv
    <3>4. ~Released(t)
      BY <1>c, <2>3 DEF Released
    <3>5. ~Planned(e, t)
      BY <2>3 DEF Planned, CreateTasks, InHand
    <3> QED
      BY <3>2, <3>3, <3>4, <3>5
  <2>5. ASSUME NEW p \in TaskIds, Yielded(e, t, p)
        PROVE  /\ row'[t] = "PENDING"
               /\ pc'[e][p] \in Behind
               /\ t \in Ids(yielded'[e][p])
               /\ rowDeps'[t] = TaskNamed(yielded'[e][p], t).dependsOn
    BY <1>0, <2>5 DEF Yielded, RecordYield, Move, TypeOK, Behind, local
  <2>6. CASE row'[t] = row[t] /\ rowDeps'[t] = rowDeps[t]
    <3>1. PICK p \in TaskIds : /\ pc[e][p] \in Behind
                               /\ t \in Ids(yielded[e][p])
                               /\ rowDeps[t] = TaskNamed(yielded[e][p], t).dependsOn
      BY <1>c, <1>4, <2>3, <2>6
    <3>2. pc'[e][p] \in Behind /\ yielded'[e][p] = yielded[e][p]
      BY <1>0, <2>3, <3>1, BehindStays
    <3> QED
      BY <1>c, <1>4, <2>3, <2>6, <3>1, <3>2
  <2> QED
    BY <1>0, <2>4, <2>5, <2>6, RowSteps
<1> QED
  BY <1>2, <1>3, <1>4

LEMMA ContractStep ==
  ASSUME Lone, ContractInv, [Next]_vars
  PROVE  Contract!Next
<1>0. \E e \in Execs : TRUE
  BY DEF Lone, OneExecutor
<1>1. done \subseteq done'
  BY DoneGrows
<1>2. ASSUME NEW t \in TaskIds
      PROVE  Contract!MayRecord(t) /\ (rowDeps'[t] = rowDeps[t] \/ row[t] = "ABSENT")
  <2> PICK e \in Execs : TRUE
    BY <1>0
  <2>0. /\ TypeOK /\ OneExecutor
        /\ row[t] # "TIMED_OUT"
        /\ row[t] \in TaskStatus \cup {"ABSENT"}
        /\ IsLive(e, t) => phase[e] = "running" /\ status[e][t] # "ABSENT"
        /\ pc[e][t] \in Asking => status[e][t] = "WAITING_APPROVAL"
        /\ pc[e][t] \in Working => status[e][t] = "RUNNING"
    BY DEF Lone, ContractInv, GraphInv, TypeInv, TypeOK, RowInv, LiveInv, StatusInv
  <2>1. ASSUME phase[e] \in InHand, row[t] # "ABSENT",
               status[e][t] = "WAITING_APPROVAL" \/ pc[e][t] \in Working
        PROVE  rowDeps[t] \subseteq done
    <3>1. status[e][t] # "ABSENT" /\ t \notin Foreign
      BY <2>0, <2>1 DEF ContractInv, ForeignInv
    <3>2. rowDeps[t] \subseteq dependsOn[e][t]
      BY <2>1, <3>1 DEF ContractInv, DepsInv
    <3>3. \A d \in dependsOn[e][t] : d \in TaskIds /\ status[e][d] = "COMPLETED"
      BY <2>0, <2>1 DEF ContractInv, GraphInv, BehindInv, TypeOK
    <3> QED
      BY <2>1, <3>2, <3>3 DEF ContractInv, DoneInv
  <2>2. CASE Written(e, t)
    <3>1. phase[e] \in InHand /\ row[t] # "ABSENT"
      BY <2>0, <2>2 DEF Written, OnRecord, IsLive, InHand, Ask, StartWork, RecordFailure,
         RecordSuccess
    <3>2. row[t] \notin {"COMPLETED", "SKIPPED"}
      BY <2>0, <2>2, <3>1 DEF Written, Ask, StartWork, RecordFailure, RecordSuccess,
         ContractInv, RowInv, Early, Asking
    <3>3. pc[e][t] \in Asking \cup Working
      BY <2>2 DEF Written, Ask, StartWork, RecordFailure, RecordSuccess, Asking, Working
    <3>4. rowDeps[t] \subseteq done
      BY <2>0, <2>1, <3>1, <3>3
    <3>5. RecordSuccess(e, t) => t \in done
      BY DEF RecordSuccess, ContractInv, DoneInv, Succeeded
    <3> QED
      BY <2>0, <2>2, <3>1, <3>2, <3>4, <3>5
         DEF Contract!MayRecord, Written, OnRecord, TaskStatus
  <2>3. CASE Settled(e, t)
    <3>1. phase[e] \in InHand /\ status[e][t] \in {"SKIPPED", "WAITING_APPROVAL"}
      BY <2>3 DEF Settled, Settle, InHand, ContractInv, SettleInv
    <3>2. /\ row[t] # "COMPLETED"
          /\ status[e][t] = "WAITING_APPROVAL" => row[t] # "SKIPPED" /\ rowDeps[t] \subseteq done
      BY <2>1, <2>3, <3>1 DEF Settled, OnRecord, ContractInv, RowInv
    <3> QED
      BY <2>0, <2>3, <3>1, <3>2 DEF Contract!MayRecord, Settled, OnRecord, TaskStatus
  <2> QED
    BY <2>0, <2>2, <2>3, RowSteps
       DEF Contract!MayRecord, Released, Planned, Yielded, OnRecord
<1> QED
  BY <1>1, <1>2 DEF Contract!Next

LEMMA ContractInvInit == Lone /\ Init => ContractInv /\ Contract!Init
<1> SUFFICES ASSUME Lone, Init PROVE ContractInv /\ Contract!Init
  OBVIOUS
<1>1. GraphInv /\ FreshInv
  BY GraphInit, KeptInit DEF Lone
<1>2. SettleInv /\ ForeignInv /\ DoneInv /\ RowInv /\ DepsInv
  BY SetsAssumption DEF Init, SettleInv, ForeignInv, DoneInv, RowInv, DepsInv, InHand,
     Succeeded, Nobody
<1>3. Contract!Init
  BY SetsAssumption DEF Init, Contract!Init
<1> QED
  BY <1>1, <1>2, <1>3 DEF ContractInv

LEMMA ContractInvStep == Lone /\ ContractInv /\ [Next]_vars => ContractInv'
<1> SUFFICES ASSUME Lone, ContractInv, [Next]_vars PROVE ContractInv'
  OBVIOUS
<1>1. GraphInv' /\ FreshInv'
  BY GraphStep, FreshStep DEF Lone, ContractInv, GraphInv
<1>2. SettleInv' /\ ForeignInv' /\ DoneInv'
  BY SettleStep, ForeignStep, DoneStep DEF Lone, ContractInv, GraphInv
<1>3. RowInv' /\ DepsInv'
  BY RowStep, DepsStep
<1> QED
  BY <1>1, <1>2, <1>3 DEF ContractInv

\* The run as the store sees it, across every crash, deadline and resume, is one
\* that RunContract allows: finished and skipped tasks keep their record, and work
\* begins only behind finished work.
THEOREM RunContractHolds ==
  ASSUME Lone
  PROVE  Spec => ImplementsContract
<1>1. Init => ContractInv /\ Contract!Init
  BY ContractInvInit
<1>2. ContractInv /\ [Next]_vars => ContractInv'
  BY ContractInvStep
<1>3. ContractInv /\ [Next]_vars => Contract!Next
  BY ContractStep
<1>4. ContractInv /\ [Next]_vars => [Contract!Next]_(Contract!vars)
  BY <1>3
<1> QED
  BY <1>1, <1>2, <1>4, PTL DEF Spec, ImplementsContract, Contract!Spec

\* A run whose tasks yield no ID of another run leaves the rows of the others
\* alone, whoever executes and resumes it: the store refuses a planned ID that it
\* has, and nothing else writes a row that is not in the graph.
THEOREM OtherRunsHold ==
  ASSUME FreshLists, ForeignApart
  PROVE  Spec => OtherRunsUntouched
<1> DEFINE Inv == GraphInv /\ SettleInv /\ ForeignInv
<1>1. Init => Inv
  BY GraphInit, SetsAssumption DEF Init, SettleInv, ForeignInv, InHand
<1>2. Inv /\ [Next]_vars => Inv'
  <2> SUFFICES ASSUME Inv, [Next]_vars PROVE Inv'
    OBVIOUS
  <2>1. GraphInv'
    BY GraphStep
  <2>2. SettleInv' /\ ForeignInv'
    BY SettleStep, ForeignStep DEF GraphInv
  <2> QED
    BY <2>1, <2>2
<1>3. Inv /\ Inv' => \A t \in Foreign : row'[t] = row[t]
  BY DEF ForeignInv
<1> QED
  BY <1>1, <1>2, <1>3, PTL DEF Spec, OtherRunsUntouched
=============================================================================
