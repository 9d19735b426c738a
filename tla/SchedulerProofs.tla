-------------------------- MODULE SchedulerProofs --------------------------
(***************************************************************************)
(* Theorems on Scheduler, for every set of plans, yields and attributes of *)
(* tasks, and for every concurrency limit.                                 *)
(***************************************************************************)
EXTENDS Scheduler, TaskGraphProofs, FiniteSetTheorems, WellFoundedInduction

(***************************************************************************)
(* The order of tasks.  DispatchedAfterDeps is not inductive by itself.    *)
(* That a started task gets no new dependency rests on its status, so the  *)
(* statuses are tied to where each goroutine is (StatusAtPc); that a task  *)
(* is dispatched after its dependencies, while slots are tried one after   *)
(* the other, rests on what the pass found (PassIsCurrent); that a failure *)
(* skips none of the started tasks rests on DispatchedAfterDeps itself.    *)
(***************************************************************************)
PCs == {"idle", "start", "asking", "locking", "handling", "unlocking",
        "releasing", "reporting", "notifying", "gone"}

OrderTypes ==
  /\ status \in [TaskIds -> TaskStatus \cup {"ABSENT"}]
  /\ dependsOn \in [TaskIds -> SUBSET TaskIds]
  /\ runPc \in {"lock", "dispatch", "wait", "done"}
  /\ toDispatch \in SUBSET TaskIds
  /\ pc \in [TaskIds -> PCs]

\* The status s of a task whose goroutine is at w.
FitsPc(w, s) ==
  /\ w \in {"start", "locking", "handling"} => s = "RUNNING"
  /\ w = "asking" => s = "WAITING_APPROVAL"
  /\ w \in {"unlocking", "releasing", "reporting", "notifying", "gone"} =>
       s \in {"WAITING_APPROVAL", "COMPLETED", "FAILED", "TIMED_OUT"}

StatusAtPc == \A t \in TaskIds : FitsPc(pc[t], status[t])

PassIsCurrent ==
  /\ runPc # "dispatch" => toDispatch = {}
  /\ \A t \in toDispatch : IsReady(t, status, dependsOn) /\ pc[t] = "idle"

OrderInv == /\ OrderTypes
            /\ StatusAtPc
            /\ PassIsCurrent
            /\ DispatchedAfterDeps
            /\ IsValidGraph(Known, dependsOn)

-----------------------------------------------------------------------------
(* What the steps do to the statuses                                       *)

Bad == {"FAILED", "TIMED_OUT", "SKIPPED"}

\* From st to after, t is left alone or skipped for a cause.
LeftOrSkipped(t, st, after) ==
  \/ after[t] = st[t]
  \/ /\ st[t] \in {"PENDING", "WAITING_APPROVAL"}
     /\ after[t] = "SKIPPED"
     /\ \E d \in dependsOn[t] : after[d] \in Bad

\* The first loop of a pass skips tasks, each for a cause, and no other status
\* changes.
LEMMA AfterSkipsEffect ==
  ASSUME OrderTypes
  PROVE  /\ AfterSkips \in [TaskIds -> TaskStatus \cup {"ABSENT"}]
         /\ \A t \in TaskIds : LeftOrSkipped(t, status, AfterSkips)
<1> DEFINE doomed == {t \in Known :
                        /\ status[t] = "PENDING"
                        /\ \E d \in dependsOn[t] : status[d] \in Bad}
           st == [t \in TaskIds |-> IF t \in doomed THEN "SKIPPED" ELSE status[t]]
<1>1. AfterSkips = CascadeSkips(doomed, st, dependsOn)
  BY DEF AfterSkips, Bad
<1>2. AfterSkips \in [TaskIds -> TaskStatus \cup {"ABSENT"}]
  BY <1>1 DEF CascadeSkips, OrderTypes, TaskStatus
<1>3. \A t \in TaskIds :
         \/ AfterSkips[t] = st[t]
         \/ /\ st[t] \in {"PENDING", "WAITING_APPROVAL"}
            /\ AfterSkips[t] = "SKIPPED"
            /\ \E d \in dependsOn[t] : d \in doomed \/ (d \in TaskIds /\ AfterSkips[d] = "SKIPPED")
  <2> SUFFICES ASSUME NEW t \in TaskIds
               PROVE  \/ AfterSkips[t] = st[t]
                      \/ /\ st[t] \in {"PENDING", "WAITING_APPROVAL"}
                         /\ AfterSkips[t] = "SKIPPED"
                         /\ \E d \in dependsOn[t] : d \in doomed \/ (d \in TaskIds /\ AfterSkips[d] = "SKIPPED")
    OBVIOUS
  <2> HIDE DEF doomed, st
  <2> QED
    BY <1>1, CascadeSkipsEffect
<1>4. \A t \in doomed : t \in TaskIds /\ AfterSkips[t] = "SKIPPED"
  BY <1>3 DEF Known
<1>5. \A d \in TaskIds : status[d] \in Bad => AfterSkips[d] = status[d]
  BY <1>3 DEF Bad
<1>6. ASSUME NEW t \in TaskIds
      PROVE  LeftOrSkipped(t, status, AfterSkips)
  <2>1. CASE t \in doomed
    <3>1. status[t] = "PENDING"
      BY <2>1
    <3>2. PICK d \in dependsOn[t] : status[d] \in Bad
      BY <2>1
    <3>3. AfterSkips[d] \in Bad
      BY <1>5, <3>2 DEF OrderTypes
    <3> QED
      BY <2>1, <1>4, <3>1, <3>3 DEF LeftOrSkipped
  <2>2. CASE t \notin doomed
    <3>1. CASE AfterSkips[t] = st[t]
      BY <2>2, <3>1 DEF LeftOrSkipped
    <3>2. CASE AfterSkips[t] # st[t]
      <4>1. status[t] \in {"PENDING", "WAITING_APPROVAL"} /\ AfterSkips[t] = "SKIPPED"
        BY <1>3, <2>2, <3>2
      <4>2. PICK d \in dependsOn[t] : d \in doomed \/ AfterSkips[d] = "SKIPPED"
        BY <1>3, <3>2
      <4>3. AfterSkips[d] \in Bad
        BY <1>4, <4>2 DEF Bad
      <4> QED
        BY <4>1, <4>3 DEF LeftOrSkipped
    <3> QED
      BY <3>1, <3>2
  <2> QED
    BY <2>1, <2>2
<1> QED
  BY <1>2, <1>6

\* A whole pass: besides, with nobody to ask, ready tasks that need approval
\* are paused.
LEMMA AfterPassEffect ==
  ASSUME OrderTypes
  PROVE  /\ AfterPass \in [TaskIds -> TaskStatus \cup {"ABSENT"}]
         /\ \A t \in TaskIds :
              \/ LeftOrSkipped(t, status, AfterPass)
              \/ /\ status[t] = "PENDING"
                 /\ AfterPass[t] = "WAITING_APPROVAL"
                 /\ \A d \in dependsOn[t] : status[d] = "COMPLETED"
         /\ \A t \in Runnable : IsReady(t, AfterPass, dependsOn) /\ status[t] = "PENDING"
<1>1. \A t \in TaskIds : LeftOrSkipped(t, status, AfterSkips)
  BY AfterSkipsEffect
<1>2. \A t \in Ready : /\ t \in TaskIds
                       /\ status[t] = "PENDING"
                       /\ AfterSkips[t] = "PENDING"
                       /\ \A d \in dependsOn[t] : AfterSkips[d] = "COMPLETED"
  BY <1>1 DEF Ready, IsReady, LeftOrSkipped
<1>3. \A d \in TaskIds : AfterSkips[d] # "PENDING" => AfterPass[d] = AfterSkips[d]
  BY <1>2 DEF AfterPass, Paused
<1>4. \A d \in TaskIds : AfterSkips[d] = "COMPLETED" => status[d] = "COMPLETED"
  BY <1>1 DEF LeftOrSkipped
<1>5. AfterPass \in [TaskIds -> TaskStatus \cup {"ABSENT"}]
  BY AfterSkipsEffect DEF AfterPass, TaskStatus
<1>6. ASSUME NEW t \in TaskIds
      PROVE  \/ LeftOrSkipped(t, status, AfterPass)
             \/ /\ status[t] = "PENDING"
                /\ AfterPass[t] = "WAITING_APPROVAL"
                /\ \A d \in dependsOn[t] : status[d] = "COMPLETED"
  <2>1. CASE t \in Paused
    <3>1. AfterPass[t] = "WAITING_APPROVAL"
      BY <2>1 DEF AfterPass
    <3>2. t \in Ready
      BY <2>1 DEF Paused
    <3>3. \A d \in dependsOn[t] : status[d] = "COMPLETED"
      BY <1>2, <1>4, <3>2 DEF OrderTypes
    <3> QED
      BY <1>2, <3>1, <3>2, <3>3
  <2>2. CASE t \notin Paused
    <3>1. AfterPass[t] = AfterSkips[t]
      BY <2>2 DEF AfterPass
    <3>2. \A d \in dependsOn[t] : AfterSkips[d] \in Bad => AfterPass[d] \in Bad
      BY <1>3 DEF Bad, OrderTypes
    <3> QED
      BY <1>1, <3>1, <3>2 DEF LeftOrSkipped
  <2> QED
    BY <2>1, <2>2
<1>7. ASSUME NEW t \in Runnable
      PROVE  IsReady(t, AfterPass, dependsOn) /\ status[t] = "PENDING"
  <2>1. t \in Ready /\ t \notin Paused
    BY DEF Runnable
  <2>2. AfterPass[t] = "PENDING"
    BY <1>2, <2>1 DEF AfterPass
  <2>3. \A d \in dependsOn[t] : AfterPass[d] = "COMPLETED"
    BY <1>2, <1>3, <2>1 DEF OrderTypes
  <2> QED
    BY <1>2, <2>1, <2>2, <2>3 DEF IsReady
<1> QED
  BY <1>5, <1>6, <1>7

\* A task fails: its own status is f, and the others are left or skipped.
LEMMA FailEffect ==
  ASSUME OrderTypes, NEW t \in TaskIds,
         NEW f \in {"FAILED", "TIMED_OUT"}, Fail(t, f)
  PROVE  /\ status' \in [TaskIds -> TaskStatus \cup {"ABSENT"}]
         /\ status'[t] = f
         /\ \A u \in TaskIds : u # t => LeftOrSkipped(u, status, status')
<1> DEFINE st == [status EXCEPT ![t] = f]
           roots == {t}
<1>1. status' = CascadeSkips(roots, st, dependsOn)
  BY DEF Fail
<1>2. st \in [TaskIds -> TaskStatus \cup {"ABSENT"}]
  BY DEF OrderTypes, TaskStatus
<1>3. status' \in [TaskIds -> TaskStatus \cup {"ABSENT"}]
  BY <1>1, <1>2 DEF CascadeSkips, TaskStatus
<1>4. \A u \in TaskIds :
         \/ status'[u] = st[u]
         \/ /\ st[u] \in {"PENDING", "WAITING_APPROVAL"}
            /\ status'[u] = "SKIPPED"
            /\ \E d \in dependsOn[u] : d \in roots \/ (d \in TaskIds /\ status'[d] = "SKIPPED")
  <2> SUFFICES ASSUME NEW u \in TaskIds
               PROVE  \/ status'[u] = st[u]
                      \/ /\ st[u] \in {"PENDING", "WAITING_APPROVAL"}
                         /\ status'[u] = "SKIPPED"
                         /\ \E d \in dependsOn[u] : d \in roots \/ (d \in TaskIds /\ status'[d] = "SKIPPED")
    OBVIOUS
  <2> HIDE DEF st, roots
  <2> QED
    BY <1>1, CascadeSkipsEffect
<1>5. status'[t] = f
  BY <1>4 DEF OrderTypes
<1>6. ASSUME NEW u \in TaskIds, u # t
      PROVE  LeftOrSkipped(u, status, status')
  BY <1>4, <1>5, <1>6 DEF LeftOrSkipped, Bad, OrderTypes
<1> QED
  BY <1>3, <1>5, <1>6

\* A goroutine past its dispatch finds its own task started.
LEMMA StartedStatus ==
  ASSUME OrderInv, NEW t \in TaskIds, pc[t] # "idle"
  PROVE  /\ status[t] \in {"RUNNING", "WAITING_APPROVAL", "COMPLETED", "FAILED", "TIMED_OUT"}
         /\ \A d \in dependsOn[t] : d \in TaskIds /\ status[d] = "COMPLETED"
BY DEF OrderInv, OrderTypes, PCs, StatusAtPc, FitsPc, DispatchedAfterDeps

-----------------------------------------------------------------------------
(* Every step is a step of the contract                                    *)

\* DagContract speaks of task graphs as Scheduler does.
LEMMA SameVocabulary ==
  /\ Contract!TaskStatus = TaskStatus
  /\ \A ids, deps : Contract!IsValidGraph(ids, deps) <=> IsValidGraph(ids, deps)
BY DEF Contract!TaskStatus, TaskStatus, Contract!IsValidGraph, IsValidGraph,
       Contract!IsAcyclic, IsAcyclic

\* A step that leaves dependsOn alone and drops no task keeps the graph valid.
LEMMA SameGraph ==
  ASSUME OrderInv, dependsOn' = dependsOn,
         \A t \in TaskIds : status'[t] = "ABSENT" <=> status[t] = "ABSENT"
  PROVE  IsValidGraph(Known', dependsOn')
<1>1. Known' = Known
  BY DEF Known
<1> QED
  BY <1>1 DEF OrderInv

LEMMA PassIsContract ==
  ASSUME OrderInv, status' = AfterPass, dependsOn' = dependsOn
  PROVE  Contract!Next /\ IsValidGraph(Known', dependsOn')
<1>1. OrderTypes
  BY DEF OrderInv
<1>2. ASSUME NEW t \in TaskIds
      PROVE  Contract!MayMove(t) /\ Contract!MayRewire(t)
  BY <1>1, AfterPassEffect
     DEF LeftOrSkipped, Bad, Contract!MayMove, Contract!MayRewire,
         Contract!DepsCompleted, Contract!HasCause
<1>3. \A t \in TaskIds : status'[t] = "ABSENT" <=> status[t] = "ABSENT"
  BY <1>1, AfterPassEffect DEF LeftOrSkipped
<1>4. IsValidGraph(Known', dependsOn')
  BY <1>3, SameGraph
<1> QED
  BY <1>1, <1>2, <1>4, AfterPassEffect, SameVocabulary DEF Contract!Next, Known

LEMMA FailIsContract ==
  ASSUME OrderInv, NEW t \in TaskIds, NEW f \in {"FAILED", "TIMED_OUT"},
         \/ status[t] = "RUNNING"
         \/ status[t] = "WAITING_APPROVAL" /\ f = "FAILED",
         pc[t] # "idle",
         Fail(t, f), dependsOn' = dependsOn
  PROVE  Contract!Next /\ IsValidGraph(Known', dependsOn')
<1>1. OrderTypes
  BY DEF OrderInv
<1>2. Contract!MayMove(t) /\ Contract!MayRewire(t)
  BY <1>1, FailEffect, StartedStatus
     DEF Contract!MayMove, Contract!MayRewire, Contract!DepsCompleted
<1>3. ASSUME NEW u \in TaskIds, u # t
      PROVE  Contract!MayMove(u) /\ Contract!MayRewire(u)
  BY <1>1, <1>3, FailEffect
     DEF LeftOrSkipped, Bad, Contract!MayMove, Contract!MayRewire, Contract!HasCause
<1>4. \A u \in TaskIds : status'[u] = "ABSENT" <=> status[u] = "ABSENT"
  BY <1>1, FailEffect DEF LeftOrSkipped
<1>5. IsValidGraph(Known', dependsOn')
  BY <1>4, SameGraph
<1> QED
  BY <1>1, <1>2, <1>3, <1>5, FailEffect, SameVocabulary DEF Contract!Next, Known

\* One task changes its status, along an edge of the contract.
LEMMA MoveIsContract ==
  ASSUME OrderInv, NEW t \in TaskIds, NEW s \in TaskStatus,
         status' = [status EXCEPT ![t] = s], dependsOn' = dependsOn,
         status[t] # "ABSENT",
         Contract!MayMove(t)
  PROVE  Contract!Next /\ IsValidGraph(Known', dependsOn')
<1>1. OrderTypes
  BY DEF OrderInv
<1>2. \A u \in TaskIds : u # t => status'[u] = status[u]
  BY <1>1 DEF OrderTypes
<1>3. \A u \in TaskIds : Contract!MayMove(u) /\ Contract!MayRewire(u)
  BY <1>2 DEF Contract!MayMove, Contract!MayRewire
<1>4. status' \in [TaskIds -> TaskStatus \cup {"ABSENT"}]
  BY <1>1 DEF OrderTypes
<1>5. status'[t] # "ABSENT"
  BY <1>1 DEF OrderTypes, TaskStatus
<1>6. IsValidGraph(Known', dependsOn')
  BY <1>2, <1>5, SameGraph
<1> QED
  BY <1>3, <1>4, <1>6, SameVocabulary DEF Contract!Next, Known

\* The graph is expanded, after one running task at most has completed.
LEMMA ExpansionIsContract ==
  ASSUME OrderInv, NEW parent \in TaskIds \cup {NoTask}, NEW yielded \in Seq(Task),
         NEW st \in [TaskIds -> TaskStatus \cup {"ABSENT"}],
         \A t \in TaskIds : \/ st[t] = status[t]
                            \/ status[t] = "RUNNING" /\ st[t] = "COMPLETED",
         CanExpand(parent, yielded, st, dependsOn),
         status' = Insert(yielded, st),
         dependsOn' = Rewire(parent, yielded, st, dependsOn)
  PROVE  Contract!Next /\ IsValidGraph(Known', dependsOn')
<1>1. OrderTypes
  BY DEF OrderInv
<1> DEFINE known == {t \in TaskIds : st[t] # "ABSENT"}
<1>2. known = Known
  BY DEF Known
<1>3. IsValidGraph(known, dependsOn)
  BY <1>2 DEF OrderInv
<1>4. IsValidGraph({t \in TaskIds : Insert(yielded, st)[t] # "ABSENT"},
                   Rewire(parent, yielded, st, dependsOn))
  BY <1>1, <1>3, ExpansionIsValid DEF OrderTypes
<1>5. IsValidGraph(Known', dependsOn')
  BY <1>4 DEF Known
<1>6. status' \in [TaskIds -> TaskStatus \cup {"ABSENT"}]
  BY <1>1, ExpansionType DEF OrderTypes
<1>7. ASSUME NEW t \in TaskIds
      PROVE  Contract!MayMove(t) /\ Contract!MayRewire(t)
  <2>1. CASE status[t] = "ABSENT"
    BY <2>1 DEF Contract!MayMove, Contract!MayRewire
  <2>2. CASE status[t] # "ABSENT"
    <3>1. st[t] # "ABSENT" /\ (st[t] = "PENDING" => status[t] = "PENDING")
      BY <2>2
    <3>2. /\ status'[t] = st[t]
          /\ dependsOn[t] \subseteq dependsOn'[t]
          /\ st[t] # "PENDING" => dependsOn'[t] = dependsOn[t]
      BY <3>1, ExpansionEffect
    <3> QED
      BY <3>1, <3>2 DEF Contract!MayMove, Contract!MayRewire
  <2> QED
    BY <2>1, <2>2
<1> QED
  BY <1>5, <1>6, <1>7, SameVocabulary DEF Contract!Next, Known

-----------------------------------------------------------------------------
(* The invariant is inductive                                              *)

\* A contract step that starts only pending tasks keeps DispatchedAfterDeps:
\* a completed task stays completed, a started one keeps its dependencies.
LEMMA ContractKeepsOrder ==
  ASSUME OrderInv, Contract!Next,
         \A t \in TaskIds : pc'[t] # "idle" =>
            \/ pc[t] # "idle"
            \/ status[t] = "PENDING" /\ status'[t] = "RUNNING" /\ dependsOn'[t] = dependsOn[t]
  PROVE  DispatchedAfterDeps'
<1> SUFFICES ASSUME NEW t \in TaskIds, pc'[t] # "idle"
             PROVE  \A d \in dependsOn'[t] : status'[d] = "COMPLETED"
  BY DEF DispatchedAfterDeps
<1>1. \A d \in TaskIds : status[d] = "COMPLETED" => status'[d] = "COMPLETED"
  BY DEF Contract!Next, Contract!MayMove
<1>2. CASE pc[t] # "idle"
  <2>1. dependsOn'[t] = dependsOn[t]
    BY <1>2, StartedStatus DEF Contract!Next, Contract!MayRewire
  <2> QED
    BY <1>1, <1>2, <2>1, StartedStatus
<1>3. CASE pc[t] = "idle"
  <2>1. /\ status[t] = "PENDING"
        /\ status'[t] = "RUNNING"
        /\ dependsOn'[t] = dependsOn[t]
    BY <1>3
  <2>2. \A d \in dependsOn[t] : d \in TaskIds /\ status[d] = "COMPLETED"
    BY <2>1 DEF Contract!Next, Contract!MayMove, Contract!DepsCompleted, OrderInv, OrderTypes
  <2> QED
    BY <1>1, <2>1, <2>2
<1> QED
  BY <1>2, <1>3

\* A worker moves on without touching the graph.
LEMMA WorkerMoves ==
  ASSUME OrderInv, NEW t \in TaskIds, pc[t] # "idle",
         NEW w \in PCs \ {"idle"}, pc' = [pc EXCEPT ![t] = w],
         FitsPc(w, status[t]),
         UNCHANGED <<status, dependsOn, runPc, toDispatch>>
  PROVE  OrderInv'
<1>1. OrderTypes'
  BY DEF OrderInv, OrderTypes
<1>2. StatusAtPc'
  BY DEF OrderInv, OrderTypes, StatusAtPc
<1>3. PassIsCurrent'
  BY DEF OrderInv, OrderTypes, PassIsCurrent
<1>4. DispatchedAfterDeps'
  BY DEF OrderInv, OrderTypes, DispatchedAfterDeps
<1>5. IsValidGraph(Known, dependsOn)'
  BY DEF OrderInv, Known
<1> QED
  BY <1>1, <1>2, <1>3, <1>4, <1>5 DEF OrderInv

\* A worker changes the graph, under s.mu.
LEMMA WorkerUpdates ==
  ASSUME OrderInv, MuIsFree, NEW t \in TaskIds, pc[t] # "idle",
         NEW w \in PCs \ {"idle"}, pc' = [pc EXCEPT ![t] = w],
         UNCHANGED <<runPc, toDispatch>>,
         Contract!Next, IsValidGraph(Known', dependsOn'),
         dependsOn' \in [TaskIds -> SUBSET TaskIds],
         FitsPc(w, status'[t]),
         \A u \in TaskIds : u # t /\ pc[u] # "idle" => status'[u] = status[u]
  PROVE  OrderInv'
<1>1. OrderTypes'
  BY SameVocabulary DEF OrderInv, OrderTypes, Contract!Next
<1>2. StatusAtPc'
  <2> SUFFICES ASSUME NEW u \in TaskIds
               PROVE  FitsPc(pc'[u], status'[u])
    BY DEF StatusAtPc
  <2>1. CASE u = t
    BY <2>1 DEF OrderInv, OrderTypes
  <2>2. CASE u # t /\ pc[u] # "idle"
    BY <2>2 DEF OrderInv, OrderTypes, StatusAtPc
  <2>3. CASE u # t /\ pc[u] = "idle"
    BY <2>3 DEF OrderInv, OrderTypes, FitsPc
  <2> QED
    BY <2>1, <2>2, <2>3
<1>3. PassIsCurrent'
  BY DEF OrderInv, PassIsCurrent, MuIsFree
<1>4. DispatchedAfterDeps'
  BY ContractKeepsOrder DEF OrderInv, OrderTypes
<1> QED
  BY <1>1, <1>2, <1>3, <1>4 DEF OrderInv

\* A pass leaves the started tasks as they are.
LEMMA PassLeavesStarted ==
  ASSUME OrderInv, NEW t \in TaskIds, pc[t] # "idle"
  PROVE  AfterPass[t] = status[t]
<1>1. \A d \in dependsOn[t] : d \in TaskIds /\ status[d] = "COMPLETED"
  BY StartedStatus
<1>2. OrderTypes
  BY DEF OrderInv
<1>3. \A d \in dependsOn[t] : AfterPass[d] = "COMPLETED"
  BY <1>1, <1>2, AfterPassEffect DEF LeftOrSkipped
<1> QED
  BY <1>2, <1>3, AfterPassEffect, StartedStatus DEF LeftOrSkipped, Bad

\* The failure of one task leaves the other started ones as they are.
LEMMA FailLeavesStarted ==
  ASSUME OrderInv, NEW t \in TaskIds, NEW f \in {"FAILED", "TIMED_OUT"}, Fail(t, f),
         status[t] # "COMPLETED",
         NEW u \in TaskIds, u # t, pc[u] # "idle"
  PROVE  status'[u] = status[u]
<1>1. \A d \in dependsOn[u] : d \in TaskIds /\ status[d] = "COMPLETED"
  BY StartedStatus
<1>2. OrderTypes
  BY DEF OrderInv
<1>3. \A d \in dependsOn[u] : d # t /\ status'[d] = "COMPLETED"
  BY <1>1, <1>2, FailEffect DEF LeftOrSkipped
<1> QED
  BY <1>2, <1>3, FailEffect DEF LeftOrSkipped, Bad

\* The steps of Run.
LEMMA RunLoopKeepsOrder ==
  ASSUME OrderInv, RunLoop
  PROVE  OrderInv' /\ (Contract!Next \/ UNCHANGED <<status, dependsOn>>)
<1>1. CASE FinishRun
  <2> USE <1>1 DEF FinishRun
  <2>1. Contract!Next /\ IsValidGraph(Known', dependsOn')
    BY PassIsContract
  <2>2. OrderTypes'
    BY AfterPassEffect DEF OrderInv, OrderTypes
  <2>3. StatusAtPc'
    BY PassLeavesStarted DEF OrderInv, OrderTypes, StatusAtPc, FitsPc
  <2>4. PassIsCurrent'
    BY DEF OrderInv, PassIsCurrent
  <2>5. DispatchedAfterDeps'
    BY <2>1, ContractKeepsOrder
  <2> QED
    BY <2>1, <2>2, <2>3, <2>4, <2>5 DEF OrderInv
<1>2. CASE StartDispatch
  <2> USE <1>2 DEF StartDispatch
  <2>1. Contract!Next /\ IsValidGraph(Known', dependsOn')
    BY PassIsContract
  <2>2. OrderTypes'
    BY AfterPassEffect DEF OrderInv, OrderTypes, Runnable, Ready
  <2>3. StatusAtPc'
    BY PassLeavesStarted DEF OrderInv, OrderTypes, StatusAtPc, FitsPc
  <2>4. PassIsCurrent'
    <3>1. \A t \in Runnable : IsReady(t, AfterPass, dependsOn) /\ status[t] = "PENDING"
      BY AfterPassEffect DEF OrderInv
    <3>2. \A t \in Runnable : t \in TaskIds
      BY DEF Runnable, Ready
    <3>3. \A t \in Runnable : pc[t] = "idle"
      BY <3>1, <3>2, StartedStatus
    <3> QED
      BY <3>1, <3>3 DEF PassIsCurrent
  <2>5. DispatchedAfterDeps'
    BY <2>1, ContractKeepsOrder
  <2> QED
    BY <2>1, <2>2, <2>3, <2>4, <2>5 DEF OrderInv
<1>3. CASE Dispatch
  <2> USE DEF Dispatch
  <2>1. PICK t \in toDispatch :
               /\ toDispatch' = toDispatch \ {t}
               /\ status' = [status EXCEPT ![t] = "RUNNING"]
               /\ pc' = [pc EXCEPT ![t] = "start"]
    BY <1>3
  <2>2. /\ t \in TaskIds
        /\ status[t] = "PENDING"
        /\ \A d \in dependsOn[t] : status[d] = "COMPLETED"
        /\ pc[t] = "idle"
    BY DEF OrderInv, OrderTypes, PassIsCurrent, IsReady
  <2>3. Contract!MayMove(t)
    BY <2>1, <2>2 DEF OrderInv, OrderTypes, Contract!MayMove, Contract!DepsCompleted
  <2>4. Contract!Next /\ IsValidGraph(Known', dependsOn')
    BY <1>3, <2>1, <2>2, <2>3, MoveIsContract DEF TaskStatus
  <2>5. OrderTypes'
    BY <1>3, <2>1, <2>2 DEF OrderInv, OrderTypes, TaskStatus, PCs
  <2>6. StatusAtPc'
    BY <2>1, <2>2 DEF OrderInv, OrderTypes, StatusAtPc, FitsPc
  <2>7. PassIsCurrent'
    BY <1>3, <2>1, <2>2 DEF OrderInv, OrderTypes, PassIsCurrent, IsReady
  <2>8. DispatchedAfterDeps'
    BY <1>3, <2>1, <2>2, <2>4, ContractKeepsOrder DEF OrderInv, OrderTypes
  <2> QED
    BY <2>4, <2>5, <2>6, <2>7, <2>8 DEF OrderInv
<1>4. ASSUME UNCHANGED <<status, dependsOn, pc>>,
             OrderTypes', PassIsCurrent'
      PROVE  OrderInv' /\ UNCHANGED <<status, dependsOn>>
  BY <1>4 DEF OrderInv, StatusAtPc, DispatchedAfterDeps, Known
<1>5. CASE PassOver
  <2>1. OrderTypes' /\ PassIsCurrent'
    BY <1>5 DEF OrderInv, OrderTypes, PassIsCurrent, PassOver, graph
  <2> QED
    BY <1>4, <1>5, <2>1 DEF PassOver, graph
<1>6. CASE EndPass
  <2>1. OrderTypes' /\ PassIsCurrent'
    BY <1>6 DEF OrderInv, OrderTypes, PassIsCurrent, EndPass, graph
  <2> QED
    BY <1>4, <1>6, <2>1 DEF EndPass, graph
<1>7. CASE Wake
  <2>1. OrderTypes' /\ PassIsCurrent'
    BY <1>7 DEF OrderInv, OrderTypes, PassIsCurrent, Wake, graph
  <2> QED
    BY <1>4, <1>7, <2>1 DEF Wake, graph
<1>8. CASE ReturnCancelled
  <2>1. OrderTypes' /\ PassIsCurrent'
    BY <1>8 DEF OrderInv, OrderTypes, PassIsCurrent, ReturnCancelled, graph
  <2> QED
    BY <1>4, <1>8, <2>1 DEF ReturnCancelled, graph
<1> QED
  BY <1>1, <1>2, <1>3, <1>5, <1>6, <1>7, <1>8 DEF RunLoop

\* The steps of a worker.
LEMMA WorkKeepsOrder ==
  ASSUME OrderInv, NEW t \in TaskIds, Answer(t) \/ Work(t)
  PROVE  OrderInv' /\ (Contract!Next \/ UNCHANGED <<status, dependsOn>>)
<1>t. OrderTypes /\ FitsPc(pc[t], status[t])
  BY DEF OrderInv, StatusAtPc
\* The common part of the steps that leave the graph alone ...
<1>m. ASSUME pc[t] # "idle",
             NEW w \in PCs \ {"idle"}, pc' = [pc EXCEPT ![t] = w],
             FitsPc(w, status[t]), UNCHANGED <<graph, run>>
      PROVE  OrderInv' /\ UNCHANGED <<status, dependsOn>>
  BY <1>m, WorkerMoves DEF graph, run
\* ... of those that set the status of t and nothing else ...
<1>s. ASSUME pc[t] # "idle", MuIsFree,
             NEW w \in PCs \ {"idle"}, pc' = [pc EXCEPT ![t] = w],
             NEW s \in TaskStatus, status' = [status EXCEPT ![t] = s],
             FitsPc(w, s), Contract!MayMove(t),
             UNCHANGED <<dependsOn, run>>
      PROVE  OrderInv' /\ Contract!Next
  <2>1. status[t] # "ABSENT"
    BY <1>s, StartedStatus
  <2>2. Contract!Next /\ IsValidGraph(Known', dependsOn')
    BY <1>s, <2>1, MoveIsContract
  <2>3. /\ status'[t] = s
        /\ \A u \in TaskIds : u # t => status'[u] = status[u]
        /\ dependsOn' \in [TaskIds -> SUBSET TaskIds]
    BY <1>s, <1>t DEF OrderTypes
  <2> QED
    BY <1>s, <2>2, <2>3, WorkerUpdates DEF run
\* ... and of those that fail t.
<1>f. ASSUME pc[t] # "idle", MuIsFree,
             NEW w \in {"unlocking", "releasing"}, pc' = [pc EXCEPT ![t] = w],
             NEW f \in {"FAILED", "TIMED_OUT"}, Fail(t, f),
             \/ status[t] = "RUNNING"
             \/ status[t] = "WAITING_APPROVAL" /\ f = "FAILED",
             UNCHANGED <<dependsOn, run>>
      PROVE  OrderInv' /\ Contract!Next
  <2>1. Contract!Next /\ IsValidGraph(Known', dependsOn')
    BY <1>f, FailIsContract
  <2>2. status'[t] = f
    BY <1>f, <1>t, FailEffect
  <2>3. \A u \in TaskIds : u # t /\ pc[u] # "idle" => status'[u] = status[u]
    BY <1>f, FailLeavesStarted
  <2>4. FitsPc(w, status'[t]) /\ w \in PCs \ {"idle"}
    BY <1>f, <2>2 DEF FitsPc, PCs
  <2>5. dependsOn' \in [TaskIds -> SUBSET TaskIds]
    BY <1>f, <1>t DEF OrderTypes
  <2> QED
    BY <1>f, <2>1, <2>3, <2>4, <2>5, WorkerUpdates DEF run
<1>a. AfterGate(t) \in {"handling", "locking"} /\ AfterWork(t) \in {"unlocking", "releasing"}
  BY DEF AfterGate, AfterWork
<1>1. CASE AskApproval(t)
  <2>1. Contract!MayMove(t)
    BY <1>1, <1>t DEF AskApproval, FitsPc, Contract!MayMove, OrderTypes
  <2>2. /\ pc[t] # "idle" /\ MuIsFree /\ UNCHANGED <<dependsOn, run>>
        /\ pc' = [pc EXCEPT ![t] = "asking"]
        /\ status' = [status EXCEPT ![t] = "WAITING_APPROVAL"]
    BY <1>1 DEF AskApproval
  <2>3. /\ "asking" \in PCs \ {"idle"}
        /\ "WAITING_APPROVAL" \in TaskStatus
        /\ FitsPc("asking", "WAITING_APPROVAL")
    BY DEF FitsPc, PCs, TaskStatus
  <2> QED
    BY <2>1, <2>2, <2>3, <1>s
<1>2. CASE SkipGate(t)
  BY <1>2, <1>a, <1>t, <1>m DEF SkipGate, FitsPc, PCs
<1>3. CASE Approve(t)
  <2>1. Contract!MayMove(t)
    BY <1>3, <1>t, StartedStatus DEF Approve, FitsPc, Contract!MayMove, Contract!DepsCompleted, OrderTypes
  <2> QED
    BY <1>3, <1>a, <2>1, <1>s DEF Approve, FitsPc, PCs, TaskStatus
<1>4. CASE Deny(t)
  <2>1. Contract!MayMove(t)
    BY <1>4, <1>t DEF Deny, FitsPc, Contract!MayMove, OrderTypes
  <2>2. /\ pc[t] # "idle" /\ MuIsFree /\ UNCHANGED <<dependsOn, run>>
        /\ pc' = [pc EXCEPT ![t] = "releasing"]
        /\ status' = [status EXCEPT ![t] = "WAITING_APPROVAL"]
    BY <1>4 DEF Deny
  <2>3. /\ "releasing" \in PCs \ {"idle"}
        /\ "WAITING_APPROVAL" \in TaskStatus
        /\ FitsPc("releasing", "WAITING_APPROVAL")
    BY DEF FitsPc, PCs, TaskStatus
  <2> QED
    BY <2>1, <2>2, <2>3, <1>s
<1>5. CASE ApprovalError(t)
  BY <1>5, <1>t, <1>f DEF ApprovalError, FitsPc
<1>6. CASE LockNext(t)
  <2>1. PICK w \in {"handling", "locking"} : pc' = [pc EXCEPT ![t] = w]
    BY <1>6 DEF LockNext
  <2> QED
    BY <1>6, <1>t, <1>m, <2>1 DEF LockNext, FitsPc, PCs
<1>7. ASSUME NEW yielded \in Yields[t], Complete(t, yielded)
      PROVE  OrderInv' /\ Contract!Next
  <2> DEFINE st == [status EXCEPT ![t] = "COMPLETED"]
  <2>1. /\ pc[t] = "handling" /\ status[t] = "RUNNING" /\ MuIsFree
        /\ yielded \in Seq(Task)
        /\ CanExpand(t, yielded, st, dependsOn)
        /\ status' = Insert(yielded, st)
        /\ dependsOn' = Rewire(t, yielded, st, dependsOn)
        /\ pc' = [pc EXCEPT ![t] = AfterWork(t)]
        /\ UNCHANGED run
    BY <1>7, <1>t, TaskListsAssumption DEF Complete, FitsPc
  <2>2. /\ st \in [TaskIds -> TaskStatus \cup {"ABSENT"}]
        /\ st[t] = "COMPLETED"
        /\ \A u \in TaskIds : u # t => st[u] = status[u]
    BY <1>t DEF OrderTypes, TaskStatus
  <2> HIDE DEF st
  <2>3. Contract!Next /\ IsValidGraph(Known', dependsOn')
    <3>1. \A u \in TaskIds :
             st[u] = status[u] \/ (status[u] = "RUNNING" /\ st[u] = "COMPLETED")
      BY <2>1, <2>2
    <3>2. t \in TaskIds \cup {NoTask}
      OBVIOUS
    <3> QED
      BY <2>1, <2>2, <3>1, <3>2, ExpansionIsContract
  <2>4. status'[t] = "COMPLETED"
    BY <2>1, <2>2, ExpansionEffect
  <2>5. \A u \in TaskIds : u # t /\ pc[u] # "idle" => status'[u] = status[u]
    BY <2>1, <2>2, ExpansionEffect, StartedStatus
  <2>6. dependsOn' \in [TaskIds -> SUBSET TaskIds]
    BY <2>1, <2>2, <1>t, ExpansionType DEF OrderTypes
  <2>7. FitsPc(AfterWork(t), status'[t]) /\ AfterWork(t) \in PCs \ {"idle"}
    BY <1>a, <2>4 DEF FitsPc, PCs
  <2> QED
    BY <2>1, <2>3, <2>5, <2>6, <2>7, WorkerUpdates DEF run
<1>8. ASSUME NEW yielded \in Yields[t], RejectYield(t, yielded)
      PROVE  OrderInv' /\ Contract!Next
  BY <1>8, <1>a, <1>t, <1>f DEF RejectYield, FitsPc
<1>9. CASE HandlerError(t)
  <2>1. PICK f \in {"FAILED", "TIMED_OUT"} : Fail(t, f)
    BY <1>9 DEF HandlerError, FailureStatuses
  <2> QED
    BY <1>9, <1>a, <1>t, <1>f, <2>1 DEF HandlerError, FitsPc
<1>10. CASE UnlockNext(t)
  <2>1. PICK w \in {"unlocking", "releasing"} : pc' = [pc EXCEPT ![t] = w]
    BY <1>10 DEF UnlockNext
  <2> QED
    BY <1>10, <1>t, <1>m, <2>1 DEF UnlockNext, FitsPc, PCs
<1>11. CASE ReleaseSlot(t)
  BY <1>11, <1>t, <1>m DEF ReleaseSlot, FitsPc, PCs
<1>12. CASE Report(t)
  BY <1>12, <1>t, <1>m DEF Report, FitsPc, PCs
<1>13. CASE NotifyEnd(t)
  BY <1>13, <1>t, <1>m DEF NotifyEnd, FitsPc, PCs
<1> QED
  BY <1>1, <1>2, <1>3, <1>4, <1>5, <1>6, <1>7, <1>8, <1>9, <1>10, <1>11, <1>12, <1>13
     DEF Answer, Work

\* A call of Expand by another goroutine.
LEMMA ExpandKeepsOrder ==
  ASSUME OrderInv, NEW e \in Expansions, Expand(e.parent, e.tasks)
  PROVE  OrderInv' /\ Contract!Next
<1>1. /\ MuIsFree
      /\ CanExpand(e.parent, e.tasks, status, dependsOn)
      /\ status' = Insert(e.tasks, status)
      /\ dependsOn' = Rewire(e.parent, e.tasks, status, dependsOn)
      /\ UNCHANGED <<pc, runPc, toDispatch>>
  BY DEF Expand, run
<1>2. e.parent \in TaskIds \cup {NoTask} /\ e.tasks \in Seq(Task)
  BY TaskListsAssumption
<1>3. OrderTypes
  BY DEF OrderInv
<1>4. Contract!Next /\ IsValidGraph(Known', dependsOn')
  <2>1. status \in [TaskIds -> TaskStatus \cup {"ABSENT"}]
    BY <1>3 DEF OrderTypes
  <2>2. \A t \in TaskIds : status[t] = status[t] \/ (status[t] = "RUNNING" /\ status[t] = "COMPLETED")
    OBVIOUS
  <2> QED
    BY <1>1, <1>2, <2>1, <2>2, ExpansionIsContract
<1>5. OrderTypes'
  BY <1>1, <1>2, <1>3, ExpansionType DEF OrderTypes
<1>6. \A t \in TaskIds : pc[t] # "idle" => status'[t] = status[t]
  BY <1>1, StartedStatus, ExpansionEffect
<1>7. StatusAtPc'
  BY <1>1, <1>3, <1>6 DEF OrderInv, OrderTypes, StatusAtPc, FitsPc
<1>8. PassIsCurrent'
  BY <1>1 DEF OrderInv, PassIsCurrent, MuIsFree
<1>9. DispatchedAfterDeps'
  BY <1>1, <1>4, ContractKeepsOrder
<1> QED
  BY <1>4, <1>5, <1>7, <1>8, <1>9 DEF OrderInv

\* Every plan ValidateAcyclic accepts is a valid graph, and no task of it has
\* started.
LEMMA OrderInit ==
  ASSUME Init
  PROVE  OrderInv /\ Contract!Init
<1>1. PICK plan \in Plans :
        /\ ValidateAcyclic(plan)
        /\ status = [t \in TaskIds |-> IF t \in Ids(plan)
                                       THEN StatusOf(TaskNamed(plan, t))
                                       ELSE "ABSENT"]
        /\ dependsOn = [t \in TaskIds |-> IF t \in Ids(plan)
                                          THEN TaskNamed(plan, t).dependsOn
                                          ELSE {}]
        /\ runPc = "lock"
        /\ toDispatch = {}
        /\ pc = [t \in TaskIds |-> "idle"]
  BY DEF Init
<1>2. plan \in Seq(Task) /\ Ids(plan) \subseteq TaskIds
  BY TaskListsAssumption
<1>3. \A t \in Ids(plan) : /\ StatusOf(TaskNamed(plan, t)) \in TaskStatus
                           /\ TaskNamed(plan, t).dependsOn \in SUBSET TaskIds
  BY <1>2, TaskNamedType DEF StatusOf, Task, TaskStatus
<1>4. OrderTypes
  BY <1>1, <1>3 DEF OrderTypes, PCs
<1>5. Known = Ids(plan)
  BY <1>1, <1>2, <1>3 DEF Known, TaskStatus
<1>6. IsValidGraph(Known, dependsOn)
  <2> DEFINE deps == [t \in Ids(plan) |-> TaskNamed(plan, t).dependsOn]
  <2>1. \A t \in Ids(plan) : dependsOn[t] = deps[t]
    BY <1>1, <1>2
  <2>2. IsValidGraph(Ids(plan), deps)
    BY <1>1 DEF ValidateAcyclic
  <2> HIDE DEF deps
  <2> QED
    BY <1>5, <2>1, <2>2 DEF IsValidGraph, IsAcyclic
<1>7. StatusAtPc /\ PassIsCurrent /\ DispatchedAfterDeps
  BY <1>1 DEF StatusAtPc, FitsPc, PassIsCurrent, DispatchedAfterDeps
<1>8. Contract!Init
  BY <1>4, <1>6, SameVocabulary DEF OrderTypes, Contract!Init, Known
<1> QED
  BY <1>4, <1>6, <1>7, <1>8 DEF OrderInv

LEMMA OrderStep ==
  ASSUME OrderInv, [Next]_vars
  PROVE  OrderInv' /\ (Contract!Next \/ UNCHANGED <<status, dependsOn>>)
<1>1. ASSUME UNCHANGED <<status, dependsOn, pc, runPc, toDispatch>>
      PROVE  OrderInv'
  BY <1>1 DEF OrderInv, OrderTypes, StatusAtPc, PassIsCurrent,
              DispatchedAfterDeps, Known
<1>2. CASE RunLoop
  BY <1>2, RunLoopKeepsOrder
<1>3. ASSUME NEW t \in TaskIds, Answer(t) \/ Work(t)
      PROVE  OrderInv' /\ (Contract!Next \/ UNCHANGED <<status, dependsOn>>)
  BY <1>3, WorkKeepsOrder
<1>4. ASSUME NEW e \in Expansions, Expand(e.parent, e.tasks)
      PROVE  OrderInv' /\ Contract!Next
  BY <1>4, ExpandKeepsOrder
<1>5. CASE EndCtx
  BY <1>5, <1>1 DEF EndCtx, graph, run
<1>6. CASE Terminated \/ UNCHANGED vars
  BY <1>6, <1>1 DEF Terminated, vars
<1> QED
  BY <1>2, <1>3, <1>4, <1>5, <1>6 DEF Next

\* The order of tasks, the validity of the graph and what they rest on hold in
\* every reachable state: OrderInv is inductive.
THEOREM OrderInvariant == Spec => []OrderInv
<1>1. Init => OrderInv
  BY OrderInit
<1>2. OrderInv /\ [Next]_vars => OrderInv'
  BY OrderStep
<1> QED
  BY <1>1, <1>2, PTL DEF Spec

\* No task starts before its dependencies have completed, and none gets another
\* dependency once it has started: for all plans, yields, calls of Expand,
\* failures, answers and limits (Run, isTaskReadyLocked, expandLocked).
THEOREM DependenciesFirst == Spec => []DispatchedAfterDeps
<1>1. OrderInv => DispatchedAfterDeps
  BY DEF OrderInv
<1> QED
  BY <1>1, OrderInvariant, PTL

\* Every step of the scheduler, whatever its goroutines do, is one the contract
\* of its tasks allows: DagContract is implemented.
THEOREM ContractHolds == Spec => ImplementsContract
<1>1. Init => Contract!Init
  BY OrderInit
<1>2. OrderInv /\ [Next]_vars => [Contract!Next]_(Contract!vars)
  BY OrderStep DEF Contract!vars
<1> QED
  BY <1>1, <1>2, OrderInvariant, PTL DEF Spec, ImplementsContract, Contract!Spec

(***************************************************************************)
(* Slots and workers.  The slots taken are those of the goroutines between *)
(* their dispatch and their release, and runningCount counts these and the *)
(* ones that have yet to report.  That a task dispatched has no goroutine  *)
(* yet, so that both numbers go up by one, is part of OrderInv.            *)
(***************************************************************************)
Slotted == {"start", "asking", "locking", "handling", "unlocking", "releasing"}

Counted == {t \in TaskIds : pc[t] \in Slotted \cup {"reporting"}}

SlotInv == /\ sem = {t \in TaskIds : pc[t] \in Slotted}
           /\ IsFiniteSet(sem)
           /\ Cardinality(sem) <= MaxConcurrency
           /\ IsFiniteSet(Counted)
           /\ runningCount = Cardinality(Counted)

\* Most steps of a worker neither take nor return a slot.
LEMMA WorkerKeepsSlot ==
  ASSUME OrderTypes, NEW t \in TaskIds, Answer(t) \/ Work(t)
  PROVE  \/ /\ pc[t] \in Slotted
            /\ \E w \in Slotted : pc' = [pc EXCEPT ![t] = w]
            /\ UNCHANGED <<sem, runningCount>>
         \/ ReleaseSlot(t)
         \/ Report(t)
         \/ NotifyEnd(t)
<1>1. AfterGate(t) \in Slotted /\ AfterWork(t) \in Slotted
  BY DEF AfterGate, AfterWork, Slotted
<1>2. CASE AskApproval(t)
  BY <1>2 DEF AskApproval, Slotted
<1>3. CASE SkipGate(t)
  BY <1>1, <1>3 DEF SkipGate, Slotted
<1>4. CASE Approve(t)
  BY <1>1, <1>4 DEF Approve, Slotted
<1>5. CASE Deny(t)
  BY <1>5 DEF Deny, Slotted
<1>6. CASE ApprovalError(t)
  BY <1>6 DEF ApprovalError, Slotted
<1>7. CASE LockNext(t)
  BY <1>7 DEF LockNext, Slotted
<1>8. ASSUME NEW yielded \in Yields[t], Complete(t, yielded) \/ RejectYield(t, yielded)
      PROVE  /\ pc[t] \in Slotted
             /\ \E w \in Slotted : pc' = [pc EXCEPT ![t] = w]
             /\ UNCHANGED <<sem, runningCount>>
  BY <1>1, <1>8 DEF Complete, RejectYield, Slotted
<1>9. CASE HandlerError(t)
  BY <1>1, <1>9 DEF HandlerError, Slotted
<1>10. CASE UnlockNext(t)
  BY <1>10 DEF UnlockNext, Slotted
<1> QED
  BY <1>2, <1>3, <1>4, <1>5, <1>6, <1>7, <1>8, <1>9, <1>10 DEF Answer, Work

LEMMA SlotInit ==
  ASSUME Init
  PROVE  SlotInv
<1>1. sem = {} /\ runningCount = 0 /\ pc = [t \in TaskIds |-> "idle"]
  BY DEF Init
<1>2. Counted = {} /\ {t \in TaskIds : pc[t] \in Slotted} = {}
  BY <1>1 DEF Counted, Slotted
<1> QED
  BY <1>1, <1>2, FS_EmptySet, CapacityAssumption DEF SlotInv

LEMMA SlotsUnchanged ==
  ASSUME SlotInv, UNCHANGED <<pc, sem, runningCount>>
  PROVE  SlotInv'
BY DEF SlotInv, Counted

LEMMA SlotStep ==
  ASSUME OrderInv, SlotInv, [Next]_vars
  PROVE  SlotInv'
<1>t. pc \in [TaskIds -> PCs] /\ OrderTypes
  BY DEF OrderInv, OrderTypes
<1>n. Cardinality(sem) \in Nat /\ Cardinality(Counted) \in Nat /\ MaxConcurrency \in Nat
  BY FS_CardinalityType, CapacityAssumption DEF SlotInv
<1>1. CASE Dispatch
  <2>1. PICK t \in toDispatch : /\ sem' = sem \cup {t}
                                /\ pc' = [pc EXCEPT ![t] = "start"]
    BY <1>1 DEF Dispatch
  <2>2. t \in TaskIds /\ pc[t] = "idle"
    BY DEF OrderInv, OrderTypes, PassIsCurrent
  <2>3. t \notin sem /\ t \notin Counted
    BY <2>2 DEF SlotInv, Slotted, Counted
  <2>4. Counted' = Counted \cup {t}
    BY <1>t, <2>1, <2>2 DEF Counted, Slotted
  <2>5. sem' = {u \in TaskIds : pc'[u] \in Slotted}
    BY <1>t, <2>1, <2>2 DEF SlotInv, Slotted
  <2>6. IsFiniteSet(sem') /\ Cardinality(sem') = Cardinality(sem) + 1
    BY <2>1, <2>3, FS_AddElement DEF SlotInv
  <2>7. IsFiniteSet(Counted') /\ Cardinality(Counted') = Cardinality(Counted) + 1
    BY <2>3, <2>4, FS_AddElement DEF SlotInv
  <2>8. Cardinality(sem) < MaxConcurrency /\ runningCount' = runningCount + 1
    BY <1>1 DEF Dispatch
  <2> QED
    BY <1>n, <2>5, <2>6, <2>7, <2>8 DEF SlotInv
<1>2. CASE FinishRun \/ StartDispatch \/ PassOver \/ EndPass \/ Wake \/ ReturnCancelled
  BY <1>2, SlotsUnchanged DEF FinishRun, StartDispatch, PassOver, EndPass, Wake, ReturnCancelled
<1>3. ASSUME NEW t \in TaskIds, Answer(t) \/ Work(t)
      PROVE  SlotInv'
  <2>1. ASSUME NEW w \in Slotted, pc' = [pc EXCEPT ![t] = w],
               pc[t] \in Slotted, UNCHANGED <<sem, runningCount>>
        PROVE  SlotInv'
    <3>1. {u \in TaskIds : pc'[u] \in Slotted} = {u \in TaskIds : pc[u] \in Slotted}
      BY <1>t, <2>1
    <3>2. Counted' = Counted
      BY <1>t, <2>1 DEF Counted
    <3> QED
      BY <2>1, <3>1, <3>2 DEF SlotInv
  <2>2. CASE ReleaseSlot(t)
    <3>1. sem' = sem \ {t} /\ pc[t] = "releasing" /\ pc' = [pc EXCEPT ![t] = "reporting"]
      BY <2>2 DEF ReleaseSlot
    <3>2. sem' = {u \in TaskIds : pc'[u] \in Slotted}
      BY <1>t, <3>1 DEF SlotInv, Slotted
    <3>3. Counted' = Counted
      BY <1>t, <3>1 DEF Counted, Slotted
    <3>4. t \in sem
      BY <3>1 DEF SlotInv, Slotted
    <3>5. IsFiniteSet(sem') /\ Cardinality(sem') = Cardinality(sem) - 1
      BY <3>1, <3>4, FS_RemoveElement DEF SlotInv
    <3>6. runningCount' = runningCount
      BY <2>2 DEF ReleaseSlot
    <3> QED
      BY <1>n, <3>2, <3>3, <3>5, <3>6 DEF SlotInv
  <2>3. CASE Report(t)
    <3>1. /\ runningCount' = runningCount - 1
          /\ sem' = sem
          /\ pc[t] = "reporting"
          /\ pc' = [pc EXCEPT ![t] = "notifying"]
      BY <2>3 DEF Report
    <3>2. Counted' = Counted \ {t} /\ t \in Counted
      BY <1>t, <3>1 DEF Counted, Slotted
    <3>3. {u \in TaskIds : pc'[u] \in Slotted} = {u \in TaskIds : pc[u] \in Slotted}
      BY <1>t, <3>1 DEF Slotted
    <3>4. IsFiniteSet(Counted') /\ Cardinality(Counted') = Cardinality(Counted) - 1
      BY <3>2, FS_RemoveElement DEF SlotInv
    <3> QED
      BY <3>1, <3>3, <3>4 DEF SlotInv
  <2>4. CASE NotifyEnd(t)
    <3>1. /\ UNCHANGED <<sem, runningCount>>
          /\ pc[t] = "notifying"
          /\ pc' = [pc EXCEPT ![t] = "gone"]
      BY <2>4 DEF NotifyEnd
    <3>2. Counted' = Counted
      BY <1>t, <3>1 DEF Counted, Slotted
    <3>3. {u \in TaskIds : pc'[u] \in Slotted} = {u \in TaskIds : pc[u] \in Slotted}
      BY <1>t, <3>1 DEF Slotted
    <3> QED
      BY <3>1, <3>2, <3>3 DEF SlotInv
  <2> QED
    BY <1>t, <1>3, <2>1, <2>2, <2>3, <2>4, WorkerKeepsSlot
<1>4. ASSUME NEW e \in Expansions, Expand(e.parent, e.tasks)
      PROVE  SlotInv'
  BY <1>4, SlotsUnchanged DEF Expand
<1>5. CASE EndCtx \/ Terminated \/ UNCHANGED vars
  BY <1>5, SlotsUnchanged DEF EndCtx, Terminated, vars
<1> QED
  BY <1>1, <1>2, <1>3, <1>4, <1>5 DEF Next, RunLoop

\* The slots taken and runningCount are what the goroutines account for, in
\* every reachable state.
THEOREM SlotInvariant == Spec => []SlotInv
<1>1. Init => SlotInv
  BY SlotInit
<1>2. OrderInv /\ SlotInv /\ [Next]_vars => SlotInv'
  BY SlotStep
<1> QED
  BY <1>1, <1>2, OrderInvariant, PTL DEF Spec

\* The limit of WithMaxConcurrency holds at every moment, for every limit and
\* whatever the workers do, though slots come back outside s.mu.
THEOREM LimitHolds == Spec => []WorkersBounded
<1>1. SlotInv => WorkersBounded
  <2> SUFFICES ASSUME SlotInv
               PROVE  WorkersBounded
    OBVIOUS
  <2> DEFINE W == {t \in TaskIds : pc[t] \in {"start", "asking", "locking", "handling", "unlocking"}}
  <2>1. W \in SUBSET sem
    BY DEF SlotInv, Slotted
  <2>2. IsFiniteSet(W) /\ Cardinality(W) <= Cardinality(sem)
    BY <2>1, FS_Subset DEF SlotInv
  <2>3. Cardinality(W) \in Nat /\ Cardinality(sem) \in Nat /\ MaxConcurrency \in Nat
    BY <2>2, FS_CardinalityType, CapacityAssumption DEF SlotInv
  <2> QED
    BY <2>2, <2>3 DEF SlotInv, WorkersBounded
<1> QED
  BY <1>1, SlotInvariant, PTL

-----------------------------------------------------------------------------
(***************************************************************************)
(* Path mutexes.  Which paths the goroutine of a task holds follows from   *)
(* where it is (FitsPaths), and a mutex has one holder.                    *)
(***************************************************************************)
FitsPaths(t, w, held) ==
  /\ w = "locking" => held \subseteq WantedPaths(t) /\ held # WantedPaths(t)
  /\ w = "handling" => held = WantedPaths(t)
  /\ w = "unlocking" => held \subseteq WantedPaths(t) /\ held # {}
  /\ w \notin {"locking", "handling", "unlocking"} => held = {}

PathInv == /\ holder \in [Paths -> TaskIds \cup {NoTask}]
           /\ \A t \in TaskIds : FitsPaths(t, pc[t], HeldPaths(t))

LEMMA WantedPathsType ==
  ASSUME NEW t \in TaskIds
  PROVE  /\ WantedPaths(t) \subseteq Paths
         /\ WantedPaths(t) = {} <=> TargetPaths[t] = {}
         /\ WantedPaths(t) = Locks!Normalize(TargetPaths[t])
BY LockAssumption, TaskAttributesAssumption DEF WantedPaths, Locks!Normalize

\* The phase and the wanted paths of a task whose goroutine is at w.
PhaseAt(w) == CASE w = "locking"   -> "locking"
                [] w = "handling"  -> "locked"
                [] w = "unlocking" -> "unlocking"
                [] OTHER           -> "free"
WantedAt(t, w) == IF w \in {"locking", "handling", "unlocking"}
                  THEN WantedPaths(t) ELSE {}

LEMMA PhaseFollows ==
  ASSUME pc \in [TaskIds -> PCs], NEW t \in TaskIds, NEW w, pc' = [pc EXCEPT ![t] = w]
  PROVE  /\ lockPhase' = [lockPhase EXCEPT ![t] = PhaseAt(w)]
         /\ lockWanted' = [lockWanted EXCEPT ![t] = WantedAt(t, w)]
<1>1. \A u \in TaskIds : pc'[u] = IF u = t THEN w ELSE pc[u]
  OBVIOUS
<1>2. \A u \in TaskIds : WantedPaths(u)' = WantedPaths(u)
  BY DEF WantedPaths
<1> QED
  BY <1>1, <1>2 DEF lockPhase, lockWanted, PhaseAt, WantedAt

\* A goroutine moves and leaves the mutexes.
LEMMA PathsKept ==
  ASSUME PathInv, pc \in [TaskIds -> PCs], NEW t \in TaskIds, NEW w,
         pc' = [pc EXCEPT ![t] = w], holder' = holder,
         FitsPaths(t, w, HeldPaths(t))
  PROVE  PathInv'
<1>1. \A u \in TaskIds : HeldPaths(u)' = HeldPaths(u)
  BY DEF HeldPaths
<1>2. \A u \in TaskIds : pc'[u] = IF u = t THEN w ELSE pc[u]
  OBVIOUS
<1>3. \A u \in TaskIds : FitsPaths(u, pc'[u], HeldPaths(u))
  BY <1>2 DEF PathInv
<1>4. holder' \in [Paths -> TaskIds \cup {NoTask}]
  BY DEF PathInv
<1> QED
  BY <1>1, <1>3, <1>4 DEF PathInv, FitsPaths, WantedPaths

\* A goroutine moves between two places without locks: ResourceLock stutters.
LEMMA FreeMove ==
  ASSUME PathInv, pc \in [TaskIds -> PCs], NEW t \in TaskIds, NEW w,
         pc[t] \notin {"locking", "handling", "unlocking"},
         w \notin {"locking", "handling", "unlocking"},
         pc' = [pc EXCEPT ![t] = w], holder' = holder
  PROVE  PathInv' /\ UNCHANGED Locks!vars
<1>1. HeldPaths(t) = {}
  BY DEF PathInv, FitsPaths
<1>2. PathInv'
  BY <1>1, PathsKept DEF FitsPaths
<1>3. lockPhase' = lockPhase /\ lockWanted' = lockWanted
  <2>1. \A u \in TaskIds : pc'[u] = IF u = t THEN w ELSE pc[u]
    OBVIOUS
  <2>2. \A u \in TaskIds : WantedPaths(u)' = WantedPaths(u)
    BY DEF WantedPaths
  <2> QED
    BY <2>1, <2>2 DEF lockPhase, lockWanted
<1> QED
  BY <1>2, <1>3 DEF Locks!vars

\* Past the gate a goroutine calls LockPaths, which returns at once when the task
\* has no paths.
LEMMA GateMove ==
  ASSUME PathInv, pc \in [TaskIds -> PCs], NEW t \in TaskIds,
         pc[t] \in {"start", "asking"},
         pc' = [pc EXCEPT ![t] = AfterGate(t)], holder' = holder
  PROVE  PathInv' /\ Locks!Next
<1>1. HeldPaths(t) = {}
  BY DEF PathInv, FitsPaths
<1>2. PathInv'
  BY <1>1, PathsKept DEF FitsPaths, AfterGate
<1>3. Locks!LockPaths(t, TargetPaths[t])
  <2>1. lockPhase[t] = "free"
    BY DEF lockPhase
  <2>2. lockWanted' = [lockWanted EXCEPT ![t] = Locks!Normalize(TargetPaths[t])]
    BY PhaseFollows, WantedPathsType DEF AfterGate, PhaseAt, WantedAt
  <2>3. lockPhase' = [lockPhase EXCEPT ![t] = IF TargetPaths[t] = {} THEN "locked" ELSE "locking"]
    BY PhaseFollows, WantedPathsType DEF AfterGate, PhaseAt, WantedAt
  <2> QED
    BY <2>1, <2>2, <2>3 DEF Locks!LockPaths
<1>4. TargetPaths[t] \in SUBSET Spellings
  BY TaskAttributesAssumption
<1> QED
  BY <1>2, <1>3, <1>4 DEF Locks!Next

\* After the handler the deferred unlock is called.
LEMMA WorkMove ==
  ASSUME PathInv, pc \in [TaskIds -> PCs], NEW t \in TaskIds,
         pc[t] = "handling",
         pc' = [pc EXCEPT ![t] = AfterWork(t)], holder' = holder
  PROVE  PathInv' /\ Locks!Next
<1>1. HeldPaths(t) = WantedPaths(t)
  BY DEF PathInv, FitsPaths
<1>2. PathInv'
  BY <1>1, PathsKept DEF FitsPaths, AfterWork
<1>3. Locks!Unlock(t)
  <2>1. lockPhase[t] = "locked" /\ lockWanted[t] = WantedPaths(t)
    BY DEF lockPhase, lockWanted
  <2>2. Locks!Held(t) = HeldPaths(t)
    BY DEF Locks!Held, HeldPaths
  <2>3. CASE HeldPaths(t) = {}
    <3>1. AfterWork(t) = "releasing"
      BY <2>3 DEF AfterWork
    <3>2. Locks!Forget(t)
      BY <3>1, PhaseFollows DEF Locks!Forget, PhaseAt, WantedAt
    <3> QED
      BY <2>1, <2>2, <2>3, <3>2 DEF Locks!Unlock
  <2>4. CASE HeldPaths(t) # {}
    <3>1. AfterWork(t) = "unlocking"
      BY <2>4 DEF AfterWork
    <3>2. lockPhase' = [lockPhase EXCEPT ![t] = "unlocking"]
      BY <3>1, PhaseFollows DEF PhaseAt, WantedAt
    <3>3. lockWanted' = [lockWanted EXCEPT ![t] = WantedPaths(t)]
      BY <3>1, PhaseFollows DEF PhaseAt, WantedAt
    <3>4. lockWanted' = lockWanted
      BY <2>1, <3>3 DEF lockWanted
    <3> QED
      BY <2>1, <2>2, <2>4, <3>2, <3>4 DEF Locks!Unlock
  <2> QED
    BY <2>3, <2>4
<1> QED
  BY <1>2, <1>3 DEF Locks!Next

\* One mutex changes hands between t and nobody: the other tasks hold what they
\* held.
LEMMA OneMutex ==
  ASSUME PathInv, pc \in [TaskIds -> PCs], NEW t \in TaskIds, NEW w,
         pc' = [pc EXCEPT ![t] = w],
         NEW p \in Paths, NEW o \in {t, NoTask},
         holder[p] \in {t, NoTask},
         holder' = [holder EXCEPT ![p] = o],
         FitsPaths(t, w, HeldPaths(t)')
  PROVE  PathInv'
<1>1. \A u \in TaskIds : u # t => HeldPaths(u)' = HeldPaths(u)
  BY NoTaskAssumption DEF HeldPaths, PathInv
<1>2. \A u \in TaskIds : pc'[u] = IF u = t THEN w ELSE pc[u]
  OBVIOUS
<1>3. \A u \in TaskIds : FitsPaths(u, pc'[u], HeldPaths(u)')
  BY <1>1, <1>2 DEF PathInv
<1>4. holder' \in [Paths -> TaskIds \cup {NoTask}]
  BY DEF PathInv
<1> QED
  BY <1>3, <1>4 DEF PathInv, FitsPaths, WantedPaths

\* A set of ranks has one least and one greatest element.
LEMMA LeastIs ==
  ASSUME NEW S, S \subseteq Nat, NEW p \in S
  PROVE  /\ (\A q \in S : p <= q) => Locks!Least(S) = p
         /\ (\A q \in S : q <= p) => Locks!Greatest(S) = p
<1>1. ASSUME \A q \in S : p <= q
      PROVE  Locks!Least(S) = p
  <2>1. \A x \in S : (\A q \in S : x <= q) => x = p
    BY <1>1
  <2> QED
    BY <1>1, <2>1 DEF Locks!Least
<1>2. ASSUME \A q \in S : q <= p
      PROVE  Locks!Greatest(S) = p
  <2>1. \A x \in S : (\A q \in S : q <= x) => x = p
    BY <1>2
  <2> QED
    BY <1>2, <2>1 DEF Locks!Greatest
<1> QED
  BY <1>1, <1>2

LEMMA LockMove ==
  ASSUME PathInv, pc \in [TaskIds -> PCs], NEW t \in TaskIds, LockNext(t)
  PROVE  PathInv' /\ Locks!Next
<1> DEFINE missing == WantedPaths(t) \ HeldPaths(t)
<1>1. PICK p \in missing :
        /\ \A q \in missing : p <= q
        /\ holder[p] = NoTask
        /\ holder' = [holder EXCEPT ![p] = t]
        /\ pc' = [pc EXCEPT ![t] = IF missing = {p} THEN "handling" ELSE "locking"]
  BY DEF LockNext
<1>2. pc[t] = "locking" /\ HeldPaths(t) \subseteq WantedPaths(t)
  BY DEF LockNext, PathInv, FitsPaths
<1>3. p \in Paths /\ p \in WantedPaths(t)
  BY WantedPathsType
<1>4. HeldPaths(t)' = HeldPaths(t) \cup {p}
  BY <1>1, <1>3 DEF HeldPaths, PathInv
<1> DEFINE w == IF missing = {p} THEN "handling" ELSE "locking"
<1>5. FitsPaths(t, w, HeldPaths(t)')
  BY <1>2, <1>3, <1>4 DEF FitsPaths
<1>6. PathInv'
  BY <1>1, <1>3, <1>5, OneMutex
<1>7. Locks!LockNext(t)
  <2>1. lockPhase[t] = "locking" /\ lockWanted[t] = WantedPaths(t)
    BY <1>2 DEF lockPhase, lockWanted
  <2>2. Locks!Missing(t) = missing
    BY <2>1 DEF Locks!Missing, Locks!Held, HeldPaths
  <2>3. Locks!Least(missing) = p
    BY <1>1, LeastIs, WantedPathsType, LockAssumption
  <2>4. lockPhase' = [lockPhase EXCEPT ![t] = IF missing = {p} THEN "locked" ELSE "locking"]
    BY <1>1, PhaseFollows DEF PhaseAt, WantedAt
  <2>5. lockWanted' = [lockWanted EXCEPT ![t] = WantedPaths(t)]
    BY <1>1, PhaseFollows DEF PhaseAt, WantedAt
  <2>6. lockWanted' = lockWanted
    BY <2>1, <2>5 DEF lockWanted
  <2> HIDE DEF missing
  <2> QED
    BY <1>1, <2>1, <2>2, <2>3, <2>4, <2>6 DEF Locks!LockNext
<1> QED
  BY <1>6, <1>7 DEF Locks!Next

LEMMA UnlockMove ==
  ASSUME PathInv, pc \in [TaskIds -> PCs], NEW t \in TaskIds, UnlockNext(t)
  PROVE  PathInv' /\ Locks!Next
<1> DEFINE held == HeldPaths(t)
<1>1. PICK p \in held :
        /\ \A q \in held : q <= p
        /\ holder' = [holder EXCEPT ![p] = NoTask]
        /\ pc' = [pc EXCEPT ![t] = IF held = {p} THEN "releasing" ELSE "unlocking"]
  BY DEF UnlockNext
<1>2. pc[t] = "unlocking" /\ held \subseteq WantedPaths(t)
  BY DEF UnlockNext, PathInv, FitsPaths
<1>3. p \in Paths /\ holder[p] = t
  BY DEF HeldPaths
<1>4. HeldPaths(t)' = held \ {p}
  BY <1>1, <1>3, NoTaskAssumption DEF HeldPaths, PathInv
<1> DEFINE w == IF held = {p} THEN "releasing" ELSE "unlocking"
<1>5. FitsPaths(t, w, HeldPaths(t)')
  BY <1>2, <1>4 DEF FitsPaths
<1>6. PathInv'
  BY <1>1, <1>3, <1>5, OneMutex
<1>7. Locks!UnlockNext(t)
  <2>1. lockPhase[t] = "unlocking" /\ lockWanted[t] = WantedPaths(t)
    BY <1>2 DEF lockPhase, lockWanted
  <2>2. Locks!Held(t) = held
    BY DEF Locks!Held, HeldPaths
  <2>3. Locks!Greatest(held) = p
    BY <1>1, LeastIs, LockAssumption DEF HeldPaths
  <2>4. CASE held = {p}
    <3>1. Locks!Forget(t)
      <4>1. pc' = [pc EXCEPT ![t] = "releasing"]
        BY <1>1, <2>4
      <4>2. /\ lockPhase' = [lockPhase EXCEPT ![t] = PhaseAt("releasing")]
            /\ lockWanted' = [lockWanted EXCEPT ![t] = WantedAt(t, "releasing")]
        BY <4>1, PhaseFollows
      <4>3. PhaseAt("releasing") = "free" /\ WantedAt(t, "releasing") = {}
        BY DEF PhaseAt, WantedAt
      <4> QED
        BY <4>2, <4>3 DEF Locks!Forget
    <3> HIDE DEF held
    <3> QED
      BY <1>1, <2>1, <2>2, <2>3, <2>4, <3>1 DEF Locks!UnlockNext
  <2>5. CASE held # {p}
    <3>1. pc' = [pc EXCEPT ![t] = "unlocking"]
      BY <1>1, <2>5
    <3>2. lockPhase' = [lockPhase EXCEPT ![t] = "unlocking"]
      BY <3>1, PhaseFollows DEF PhaseAt, WantedAt
    <3>3. lockWanted' = [lockWanted EXCEPT ![t] = WantedPaths(t)]
      BY <3>1, PhaseFollows DEF PhaseAt, WantedAt
    <3>4. lockPhase' = lockPhase /\ lockWanted' = lockWanted
      BY <2>1, <3>2, <3>3 DEF lockPhase, lockWanted
    <3> HIDE DEF held
    <3> QED
      BY <1>1, <2>1, <2>2, <2>3, <2>5, <3>4 DEF Locks!UnlockNext
  <2> QED
    BY <2>4, <2>5
<1> QED
  BY <1>6, <1>7 DEF Locks!Next

LEMMA PathInit ==
  ASSUME Init
  PROVE  PathInv /\ Locks!Init
<1>1. pc = [t \in TaskIds |-> "idle"] /\ holder = [p \in Paths |-> NoTask]
  BY DEF Init
<1>2. \A t \in TaskIds : HeldPaths(t) = {}
  BY <1>1, NoTaskAssumption DEF HeldPaths
<1>3. PathInv
  BY <1>1, <1>2 DEF PathInv, FitsPaths
<1>4. Locks!Init
  BY <1>1 DEF Locks!Init, lockPhase, lockWanted
<1> QED
  BY <1>3, <1>4

LEMMA PathsUnchanged ==
  ASSUME PathInv, UNCHANGED <<pc, holder>>
  PROVE  PathInv' /\ UNCHANGED Locks!vars
BY DEF PathInv, FitsPaths, HeldPaths, WantedPaths, Locks!vars, lockPhase, lockWanted

LEMMA PathStep ==
  ASSUME OrderInv, PathInv, [Next]_vars
  PROVE  PathInv' /\ (Locks!Next \/ UNCHANGED Locks!vars)
<1>t. pc \in [TaskIds -> PCs]
  BY DEF OrderInv, OrderTypes
<1>1. CASE Dispatch
  <2>1. PICK t \in toDispatch : pc' = [pc EXCEPT ![t] = "start"]
    BY <1>1 DEF Dispatch
  <2>2. t \in TaskIds /\ pc[t] = "idle" /\ holder' = holder
    BY <1>1 DEF OrderInv, OrderTypes, PassIsCurrent, Dispatch
  <2> QED
    BY <1>t, <2>1, <2>2, FreeMove
<1>2. CASE FinishRun \/ StartDispatch \/ PassOver \/ EndPass \/ Wake \/ ReturnCancelled
  BY <1>2, PathsUnchanged DEF FinishRun, StartDispatch, PassOver, EndPass, Wake, ReturnCancelled
<1>3. ASSUME NEW t \in TaskIds, Answer(t) \/ Work(t)
      PROVE  PathInv' /\ (Locks!Next \/ UNCHANGED Locks!vars)
  <2>1. CASE AskApproval(t)
    BY <1>t, <2>1, FreeMove DEF AskApproval
  <2>2. CASE SkipGate(t) \/ Approve(t)
    BY <1>t, <2>2, GateMove DEF SkipGate, Approve
  <2>3. CASE Deny(t) \/ ApprovalError(t)
    BY <1>t, <2>3, FreeMove DEF Deny, ApprovalError
  <2>4. CASE LockNext(t)
    BY <1>t, <2>4, LockMove
  <2>5. ASSUME NEW yielded \in Yields[t], Complete(t, yielded) \/ RejectYield(t, yielded)
        PROVE  PathInv' /\ Locks!Next
    BY <1>t, <2>5, WorkMove DEF Complete, RejectYield
  <2>6. CASE HandlerError(t)
    BY <1>t, <2>6, WorkMove DEF HandlerError
  <2>7. CASE UnlockNext(t)
    BY <1>t, <2>7, UnlockMove
  <2>8. CASE ReleaseSlot(t) \/ Report(t) \/ NotifyEnd(t)
    BY <1>t, <2>8, FreeMove DEF ReleaseSlot, Report, NotifyEnd
  <2> QED
    BY <1>3, <2>1, <2>2, <2>3, <2>4, <2>5, <2>6, <2>7, <2>8 DEF Answer, Work
<1>4. ASSUME NEW e \in Expansions, Expand(e.parent, e.tasks)
      PROVE  PathInv' /\ UNCHANGED Locks!vars
  BY <1>4, PathsUnchanged DEF Expand
<1>5. CASE EndCtx \/ Terminated \/ UNCHANGED vars
  BY <1>5, PathsUnchanged DEF EndCtx, Terminated, vars
<1> QED
  BY <1>1, <1>2, <1>3, <1>4, <1>5 DEF Next, RunLoop

\* Each goroutine holds the mutexes its place in the code says it holds, in
\* every reachable state.
THEOREM PathInvariant == Spec => []PathInv
<1>1. Init => PathInv
  BY PathInit
<1>2. OrderInv /\ PathInv /\ [Next]_vars => PathInv'
  BY PathStep
<1> QED
  BY <1>1, <1>2, OrderInvariant, PTL DEF Spec

\* Two tasks with a common target path, however spelled, never run their
\* handlers at the same time: for any number of tasks, paths and slots.
THEOREM HandlersExclude == Spec => []PathsExclusive
<1>1. PathInv => PathsExclusive
  BY DEF PathInv, FitsPaths, HeldPaths, PathsExclusive
<1> QED
  BY <1>1, PathInvariant, PTL

\* The scheduler uses its path mutexes by the protocol of ResourceLock: what a
\* task may do there is what ResourceLock's callers may do.
THEOREM LocksImplemented == Spec => ImplementsLocks
<1>1. Init => Locks!Init
  BY PathInit
<1>2. OrderInv /\ PathInv /\ [Next]_vars => [Locks!Next]_(Locks!vars)
  BY PathStep
<1> QED
  BY <1>1, <1>2, OrderInvariant, PathInvariant, PTL
     DEF Spec, ImplementsLocks, Locks!Spec

-----------------------------------------------------------------------------
(* How the set of tasks grows                                              *)

\* The lists handed over to expandLocked.
Handed == (UNION {Yields[t] : t \in TaskIds}) \cup {e.tasks : e \in Expansions}

NamesOf(tasks) == [i \in DOMAIN tasks |-> tasks[i].id]

\* No task comes or goes ...
SameTasks == /\ taskOrder' = taskOrder
             /\ \A t \in TaskIds : status'[t] = "ABSENT" <=> status[t] = "ABSENT"

\* ... or a list of new ones is appended, after one task at most has completed.
Grows(parent, yielded, st) ==
  /\ st \in [TaskIds -> TaskStatus \cup {"ABSENT"}]
  /\ \A t \in TaskIds : \/ st[t] = status[t]
                        \/ status[t] = "RUNNING" /\ st[t] = "COMPLETED"
  /\ CanExpand(parent, yielded, st, dependsOn)
  /\ status' = Insert(yielded, st)
  /\ dependsOn' = Rewire(parent, yielded, st, dependsOn)
  /\ taskOrder' = taskOrder \o NamesOf(yielded)

\* A failure adds no task.
LEMMA FailSameTasks ==
  ASSUME OrderTypes, NEW t \in TaskIds, NEW f \in {"FAILED", "TIMED_OUT"},
         status[t] # "ABSENT", Fail(t, f), taskOrder' = taskOrder
  PROVE  SameTasks
BY FailEffect DEF LeftOrSkipped, SameTasks

\* Nor does a change of one task's status.
LEMMA MoveSameTasks ==
  ASSUME OrderTypes, NEW t \in TaskIds, NEW s \in TaskStatus,
         status[t] # "ABSENT", status' = [status EXCEPT ![t] = s],
         taskOrder' = taskOrder
  PROVE  SameTasks
BY DEF OrderTypes, SameTasks, TaskStatus

LEMMA Growth ==
  ASSUME OrderInv, [Next]_vars
  PROVE  \/ SameTasks
         \/ \E parent \in TaskIds \cup {NoTask}, yielded \in Handed :
              \E st : Grows(parent, yielded, st)
<1>t. OrderTypes
  BY DEF OrderInv
<1>1. CASE FinishRun \/ StartDispatch
  <2>1. status' = AfterPass /\ taskOrder' = taskOrder
    BY <1>1 DEF FinishRun, StartDispatch
  <2> QED
    BY <1>t, <2>1, AfterPassEffect DEF LeftOrSkipped, SameTasks
<1>2. CASE Dispatch
  <2>1. PICK t \in toDispatch : status' = [status EXCEPT ![t] = "RUNNING"]
    BY <1>2 DEF Dispatch
  <2>2. t \in TaskIds /\ status[t] # "ABSENT"
    BY DEF OrderInv, OrderTypes, PassIsCurrent, IsReady
  <2>3. taskOrder' = taskOrder /\ "RUNNING" \in TaskStatus
    BY <1>2 DEF Dispatch, TaskStatus
  <2> QED
    BY <1>t, <2>1, <2>2, <2>3, MoveSameTasks
<1>3. ASSUME UNCHANGED <<status, taskOrder>>
      PROVE  SameTasks
  BY <1>3 DEF SameTasks
<1>4. CASE PassOver \/ EndPass \/ Wake \/ ReturnCancelled
  BY <1>3, <1>4 DEF PassOver, EndPass, Wake, ReturnCancelled, graph
<1>5. ASSUME NEW t \in TaskIds, Answer(t) \/ Work(t)
      PROVE  \/ SameTasks
             \/ \E yielded \in Yields[t] :
                  \E st : Grows(t, yielded, st)
  <2>1. pc[t] # "idle" => status[t] # "ABSENT"
    BY StartedStatus
  <2>2. "RUNNING" \in TaskStatus /\ "WAITING_APPROVAL" \in TaskStatus
    BY DEF TaskStatus
  <2>3. CASE AskApproval(t) \/ Approve(t) \/ Deny(t)
    BY <1>t, <2>1, <2>2, <2>3, MoveSameTasks DEF AskApproval, Approve, Deny
  <2>4. CASE ApprovalError(t)
    BY <1>t, <2>1, <2>4, FailSameTasks DEF ApprovalError
  <2>5. ASSUME NEW yielded \in Yields[t], RejectYield(t, yielded)
        PROVE  SameTasks
    BY <1>t, <2>1, <2>5, FailSameTasks DEF RejectYield
  <2>6. CASE HandlerError(t)
    <3>1. PICK f \in {"FAILED", "TIMED_OUT"} : Fail(t, f)
      BY <2>6 DEF HandlerError, FailureStatuses
    <3> QED
      BY <1>t, <2>1, <2>6, <3>1, FailSameTasks DEF HandlerError
  <2>7. CASE SkipGate(t) \/ LockNext(t) \/ UnlockNext(t)
    BY <1>3, <2>7 DEF SkipGate, LockNext, UnlockNext, graph
  <2>8. CASE ReleaseSlot(t) \/ Report(t) \/ NotifyEnd(t)
    BY <1>3, <2>8 DEF ReleaseSlot, Report, NotifyEnd, graph
  <2>9. ASSUME NEW yielded \in Yields[t], Complete(t, yielded)
        PROVE  \E st : Grows(t, yielded, st)
    <3> DEFINE st == [status EXCEPT ![t] = "COMPLETED"]
    <3>1. status[t] = "RUNNING"
      BY <2>9 DEF Complete, OrderInv, StatusAtPc, FitsPc
    <3>2. /\ st \in [TaskIds -> TaskStatus \cup {"ABSENT"}]
          /\ \A u \in TaskIds : \/ st[u] = status[u]
                                \/ status[u] = "RUNNING" /\ st[u] = "COMPLETED"
      BY <1>t, <3>1 DEF OrderTypes, TaskStatus
    <3>3. Grows(t, yielded, st)
      BY <2>9, <3>2 DEF Complete, Grows, NamesOf
    <3> QED
      BY <3>3
  <2> QED
    BY <1>5, <2>3, <2>4, <2>5, <2>6, <2>7, <2>8, <2>9 DEF Answer, Work
<1>6. ASSUME NEW e \in Expansions, Expand(e.parent, e.tasks)
      PROVE  Grows(e.parent, e.tasks, status)
  BY <1>t, <1>6 DEF Expand, Grows, NamesOf, OrderTypes
<1>7. CASE EndCtx \/ Terminated \/ UNCHANGED vars
  BY <1>3, <1>7 DEF EndCtx, Terminated, vars, graph
<1>8. CASE RunLoop
  BY <1>1, <1>2, <1>4, <1>8 DEF RunLoop
<1>9. CASE \E t \in TaskIds : Answer(t) \/ Work(t)
  <2>1. PICK t \in TaskIds : Answer(t) \/ Work(t)
    BY <1>9
  <2>2. Yields[t] \subseteq Handed
    BY DEF Handed
  <2> QED
    BY <1>5, <2>1, <2>2
<1>10. CASE \E e \in Expansions : Expand(e.parent, e.tasks)
  <2>1. PICK e \in Expansions : Expand(e.parent, e.tasks)
    BY <1>10
  <2>2. e.parent \in TaskIds \cup {NoTask} /\ e.tasks \in Handed
    BY TaskListsAssumption DEF Handed
  <2> QED
    BY <1>6, <2>1, <2>2
<1> QED
  BY <1>7, <1>8, <1>9, <1>10 DEF Next

\* What an expansion does to the set of tasks.
LEMMA GrowsEffect ==
  ASSUME OrderInv, NEW parent \in TaskIds \cup {NoTask}, NEW yielded \in Seq(Task),
         NEW st, Grows(parent, yielded, st)
  PROVE  /\ Known' = Known \cup Ids(yielded)
         /\ Known \cap Ids(yielded) = {}
         /\ ~HasDuplicateId(yielded)
         /\ Ids(yielded) \subseteq TaskIds
         /\ \A t \in Ids(yielded) : status'[t] = StatusOf(TaskNamed(yielded, t))
         /\ \A t \in TaskIds \ Ids(yielded) : status'[t] = st[t]
<1> DEFINE known == {t \in TaskIds : st[t] # "ABSENT"}
<1>1. known = Known
  BY DEF Grows, Known
<1>2. OrderTypes /\ IsValidGraph(known, dependsOn)
  BY <1>1 DEF OrderInv
<1>3. Known' = {t \in TaskIds : Insert(yielded, st)[t] # "ABSENT"}
  BY DEF Grows, Known
<1>4. Known' = known \cup Ids(yielded)
  BY <1>2, <1>3, ExpansionIsValid DEF Grows, OrderTypes
<1>5. Ids(yielded) \subseteq TaskIds /\ \A t \in Ids(yielded) : st[t] = "ABSENT"
  BY ExpansionIsFresh DEF Grows
<1>6. ~HasDuplicateId(yielded)
  <2>1. CASE yielded = <<>>
    BY <2>1 DEF HasDuplicateId
  <2>2. CASE yielded # <<>>
    BY <2>2 DEF Grows, CanExpand
  <2> QED
    BY <2>1, <2>2
<1> QED
  BY <1>1, <1>4, <1>5, <1>6 DEF Grows, Insert

-----------------------------------------------------------------------------
(***************************************************************************)
(* taskOrder.  That it is as long as there are tasks follows from its      *)
(* listing each one once, and it keeps doing so because expandLocked       *)
(* refuses a list that names a task twice or one that exists.              *)
(***************************************************************************)
NoRepeats(s) == \A i, j \in 1..Len(s) : s[i] = s[j] => i = j

Listed(s) == {s[i] : i \in 1..Len(s)}

ListInv == /\ taskOrder \in Seq(TaskIds)
           /\ NoRepeats(taskOrder)
           /\ Listed(taskOrder) = Known

LEMMA NamesAreListed ==
  ASSUME NEW tasks \in Seq(Task), Ids(tasks) \subseteq TaskIds, ~HasDuplicateId(tasks)
  PROVE  /\ NamesOf(tasks) \in Seq(TaskIds)
         /\ NoRepeats(NamesOf(tasks))
         /\ Listed(NamesOf(tasks)) = Ids(tasks)
<1>1. Len(tasks) \in Nat /\ DOMAIN tasks = 1..Len(tasks)
  BY LenProperties
<1>2. \A i \in 1..Len(tasks) : tasks[i].id \in TaskIds
  BY <1>1 DEF Ids
<1>3. NamesOf(tasks) \in [1..Len(tasks) -> TaskIds]
  BY <1>1, <1>2 DEF NamesOf
<1>4. NamesOf(tasks) \in Seq(TaskIds)
  BY <1>1, <1>3, SeqDef
<1>5. Len(NamesOf(tasks)) = Len(tasks)
  BY <1>1, <1>3, <1>4, LenProperties
<1>6. \A i \in 1..Len(tasks) : NamesOf(tasks)[i] = tasks[i].id
  BY <1>1 DEF NamesOf
<1>7. NoRepeats(NamesOf(tasks))
  BY <1>1, <1>5, <1>6 DEF NoRepeats, HasDuplicateId
<1>8. Listed(NamesOf(tasks)) = Ids(tasks)
  BY <1>1, <1>5, <1>6 DEF Listed, Ids
<1> QED
  BY <1>4, <1>7, <1>8

LEMMA ListsJoin ==
  ASSUME NEW s \in Seq(TaskIds), NEW u \in Seq(TaskIds),
         NoRepeats(s), NoRepeats(u), Listed(s) \cap Listed(u) = {}
  PROVE  /\ s \o u \in Seq(TaskIds)
         /\ NoRepeats(s \o u)
         /\ Listed(s \o u) = Listed(s) \cup Listed(u)
<1> DEFINE m == Len(s)
           n == Len(u)
           su == s \o u
<1>1. m \in Nat /\ n \in Nat
  BY LenProperties
<1>2. /\ su \in Seq(TaskIds)
      /\ Len(su) = m + n
      /\ \A i \in 1..(m + n) : su[i] = IF i <= m THEN s[i] ELSE u[i - m]
  BY ConcatProperties
<1>3. \A i \in 1..m : s[i] \in Listed(s)
  BY DEF Listed
<1>4. \A i \in 1..n : u[i] \in Listed(u)
  BY DEF Listed
<1>5. \A i \in 1..m : i \in 1..(m + n) /\ su[i] = s[i]
  BY <1>1, <1>2
<1>6. \A i \in 1..n : i + m \in 1..(m + n) /\ su[i + m] = u[i]
  <2> TAKE i \in 1..n
  <2>1. i + m \in 1..(m + n) /\ ~(i + m <= m) /\ (i + m) - m = i
    BY <1>1
  <2> QED
    BY <1>2, <2>1
<1>7. \A i \in 1..(m + n) : i \notin 1..m => \E k \in 1..n : i = k + m
  <2> TAKE i \in 1..(m + n)
  <2> HAVE i \notin 1..m
  <2>1. i - m \in 1..n /\ i = (i - m) + m
    BY <1>1
  <2> QED
    BY <2>1
<1> HIDE DEF m, n, su
<1>8. Listed(su) = Listed(s) \cup Listed(u)
  <2>1. \A i \in 1..(m + n) : su[i] \in Listed(s) \cup Listed(u)
    BY <1>3, <1>4, <1>5, <1>6, <1>7
  <2>2. \A i \in 1..m : s[i] \in {su[j] : j \in 1..(m + n)}
    BY <1>5
  <2>3. \A i \in 1..n : u[i] \in {su[j] : j \in 1..(m + n)}
    <3> TAKE i \in 1..n
    <3>1. i + m \in 1..(m + n) /\ su[i + m] = u[i]
      BY <1>6
    <3> QED
      BY <3>1
  <2>4. Listed(su) = {su[j] : j \in 1..(m + n)}
    BY <1>2 DEF Listed
  <2>5. /\ Listed(s) = {s[i] : i \in 1..m}
        /\ Listed(u) = {u[i] : i \in 1..n}
    BY DEF Listed, m, n
  <2> QED
    BY <2>1, <2>2, <2>3, <2>4, <2>5
<1>9. NoRepeats(su)
  <2> SUFFICES ASSUME NEW i \in 1..(m + n), NEW j \in 1..(m + n), su[i] = su[j]
               PROVE  i = j
    BY <1>2 DEF NoRepeats
  <2>1. CASE i \in 1..m /\ j \in 1..m
    BY <1>5, <2>1 DEF NoRepeats, m
  <2>2. CASE i \notin 1..m /\ j \notin 1..m
    <3>1. PICK k \in 1..n : i = k + m
      BY <1>7, <2>2
    <3>2. PICK l \in 1..n : j = l + m
      BY <1>7, <2>2
    <3>3. u[k] = u[l]
      BY <1>6, <3>1, <3>2
    <3>4. k = l
      BY <3>3 DEF NoRepeats, n
    <3> QED
      BY <3>1, <3>2, <3>4
  <2>3. CASE i \in 1..m /\ j \notin 1..m
    BY <1>3, <1>4, <1>5, <1>6, <1>7, <2>3
  <2>4. CASE i \notin 1..m /\ j \in 1..m
    BY <1>3, <1>4, <1>5, <1>6, <1>7, <2>4
  <2> QED
    BY <2>1, <2>2, <2>3, <2>4
<1> QED
  BY <1>2, <1>8, <1>9 DEF su

LEMMA ListInit ==
  ASSUME Init
  PROVE  ListInv
<1>1. PICK plan \in Plans :
         /\ ValidateAcyclic(plan)
         /\ status = [t \in TaskIds |-> IF t \in Ids(plan)
                                        THEN StatusOf(TaskNamed(plan, t))
                                        ELSE "ABSENT"]
         /\ taskOrder = NamesOf(plan)
  BY DEF Init, NamesOf
<1>2. plan \in Seq(Task) /\ Ids(plan) \subseteq TaskIds
  BY TaskListsAssumption
<1>3. \A t \in Ids(plan) : StatusOf(TaskNamed(plan, t)) # "ABSENT"
  BY <1>2, TaskNamedType DEF StatusOf, Task, TaskStatus
<1>4. Known = Ids(plan)
  BY <1>1, <1>2, <1>3 DEF Known
<1> QED
  BY <1>1, <1>2, <1>4, NamesAreListed DEF ValidateAcyclic, ListInv

LEMMA ListStep ==
  ASSUME OrderInv, ListInv, [Next]_vars
  PROVE  ListInv'
<1>1. CASE SameTasks
  BY <1>1 DEF SameTasks, ListInv, Known
<1>2. ASSUME NEW parent \in TaskIds \cup {NoTask}, NEW yielded \in Handed,
             NEW st, Grows(parent, yielded, st)
      PROVE  ListInv'
  <2>1. yielded \in Seq(Task)
    BY TaskListsAssumption DEF Handed
  <2>2. /\ Known' = Known \cup Ids(yielded)
        /\ Known \cap Ids(yielded) = {}
        /\ ~HasDuplicateId(yielded)
        /\ Ids(yielded) \subseteq TaskIds
    BY <1>2, <2>1, GrowsEffect
  <2>3. taskOrder' = taskOrder \o NamesOf(yielded)
    BY <1>2 DEF Grows
  <2>4. /\ NamesOf(yielded) \in Seq(TaskIds)
        /\ NoRepeats(NamesOf(yielded))
        /\ Listed(NamesOf(yielded)) = Ids(yielded)
    BY <2>1, <2>2, NamesAreListed
  <2>5. /\ taskOrder' \in Seq(TaskIds)
        /\ NoRepeats(taskOrder')
        /\ Listed(taskOrder') = Known'
    BY <2>2, <2>3, <2>4, ListsJoin DEF ListInv
  <2> QED
    BY <2>5 DEF ListInv
<1> QED
  BY <1>1, <1>2, Growth

\* taskOrder lists each task of the graph exactly once.
THEOREM ListInvariant == Spec => []ListInv
<1>1. Init => ListInv
  BY ListInit
<1>2. OrderInv /\ ListInv /\ [Next]_vars => ListInv'
  BY ListStep
<1> QED
  BY <1>1, <1>2, OrderInvariant, PTL DEF Spec

\* However often it is expanded, the graph stays free of cycles and of unknown
\* dependencies, and taskOrder lists each task once.
THEOREM GraphStays == Spec => []GraphStaysValid
<1>1. OrderInv /\ ListInv => GraphStaysValid
  <2> SUFFICES ASSUME OrderInv, ListInv
               PROVE  GraphStaysValid
    OBVIOUS
  <2> DEFINE n == Len(taskOrder)
  <2>1. n \in Nat /\ DOMAIN taskOrder = 1..n /\ taskOrder \in [1..n -> TaskIds]
    BY LenProperties DEF ListInv
  <2>2. {taskOrder[i] : i \in DOMAIN taskOrder} = Known
    BY <2>1 DEF ListInv, Listed
  <2>3. taskOrder \in [1..n -> Known]
    BY <2>1 DEF ListInv, Listed
  <2>4. \A i, j \in 1..n : taskOrder[i] = taskOrder[j] => i = j
    BY DEF ListInv, NoRepeats
  <2>5. \A t \in Known : \E i \in 1..n : taskOrder[i] = t
    BY DEF ListInv, Listed
  <2>6. taskOrder \in Bijection(1..n, Known)
    BY <2>3, <2>4, <2>5 DEF Bijection, Injection, Surjection, IsInjective
  <2>7. ExistsBijection(1..n, Known)
    BY <2>6 DEF ExistsBijection
  <2> HIDE DEF n
  <2>8. Cardinality(Known) = n
    BY <2>1, <2>7, FS_CountingElements
  <2> QED
    BY <2>2, <2>8 DEF GraphStaysValid, OrderInv, n
<1> QED
  BY <1>1, OrderInvariant, ListInvariant, PTL

-----------------------------------------------------------------------------
(***************************************************************************)
(* What Run returns.  A list may carry statuses, and one that claims that  *)
(* a task is running, or was skipped, has no goroutine and no failure to   *)
(* back it (the run foreign_status shows what comes of that); so these     *)
(* theorems are about lists without such statuses.                         *)
(***************************************************************************)
ListsWithout(S) == \A tasks \in Plans \cup Handed :
                      \A i \in DOMAIN tasks : tasks[i].status \notin S

\* A running task has a goroutine ...
RunningInv == \A t \in TaskIds : pc[t] = "idle" => status[t] # "RUNNING"

\* ... and a skipped one has a cause.
CauseInv == \A t \in TaskIds : status[t] = "SKIPPED" =>
                                  \E d \in dependsOn[t] : status[d] \in Bad

LEMMA ListedStatus ==
  ASSUME NEW s, s # "PENDING", ListsWithout({s}),
         NEW tasks \in Plans \cup Handed, NEW t \in Ids(tasks)
  PROVE  StatusOf(TaskNamed(tasks, t)) # s
<1>1. PICK i \in DOMAIN tasks : tasks[i].id = t
  BY DEF Ids
<1>2. \E j \in DOMAIN tasks : TaskNamed(tasks, t) = tasks[j]
  BY <1>1 DEF TaskNamed
<1> QED
  BY <1>2 DEF ListsWithout, StatusOf

LEMMA StatusOfNewcomers ==
  ASSUME NEW s, s # "PENDING", s # "ABSENT", ListsWithout({s}),
         OrderInv, [Next]_vars, NEW t \in TaskIds, status[t] = "ABSENT"
  PROVE  status'[t] # s
<1>1. CASE SameTasks
  BY <1>1 DEF SameTasks
<1>2. ASSUME NEW parent \in TaskIds \cup {NoTask}, NEW yielded \in Handed,
             NEW st, Grows(parent, yielded, st)
      PROVE  status'[t] # s
  <2>1. yielded \in Seq(Task)
    BY TaskListsAssumption DEF Handed
  <2>2. /\ \A u \in Ids(yielded) : status'[u] = StatusOf(TaskNamed(yielded, u))
        /\ \A u \in TaskIds \ Ids(yielded) : status'[u] = st[u]
    BY <1>2, <2>1, GrowsEffect
  <2>3. st[t] = "ABSENT"
    BY <1>2 DEF Grows
  <2>4. CASE t \in Ids(yielded)
    BY <2>2, <2>4, ListedStatus
  <2>5. CASE t \notin Ids(yielded)
    BY <2>2, <2>3, <2>5
  <2> QED
    BY <2>4, <2>5
<1> QED
  BY <1>1, <1>2, Growth

\* A task starts to run together with its goroutine, and completes with it.
LEMMA IdleStays ==
  ASSUME OrderInv, [Next]_vars, NEW u \in TaskIds, pc'[u] = "idle"
  PROVE  /\ pc[u] = "idle"
         /\ status'[u] = "RUNNING" => status[u] \in {"RUNNING", "ABSENT"}
         /\ status'[u] = "COMPLETED" => status[u] \in {"COMPLETED", "ABSENT"}
<1> DEFINE Claim == /\ pc[u] = "idle"
                    /\ status'[u] = "RUNNING" => status[u] \in {"RUNNING", "ABSENT"}
                    /\ status'[u] = "COMPLETED" => status[u] \in {"COMPLETED", "ABSENT"}
<1>t. OrderTypes /\ pc \in [TaskIds -> PCs] /\ status \in [TaskIds -> TaskStatus \cup {"ABSENT"}]
  BY DEF OrderInv, OrderTypes
<1>1. CASE FinishRun \/ StartDispatch
  <2>1. status' = AfterPass /\ pc' = pc
    BY <1>1 DEF FinishRun, StartDispatch
  <2> QED
    BY <1>t, <2>1, AfterPassEffect DEF LeftOrSkipped
<1>2. CASE Dispatch
  <2>1. PICK t \in toDispatch : /\ status' = [status EXCEPT ![t] = "RUNNING"]
                                /\ pc' = [pc EXCEPT ![t] = "start"]
    BY <1>2 DEF Dispatch
  <2>2. t \in TaskIds
    BY <1>t DEF OrderTypes
  <2> QED
    BY <1>t, <2>1, <2>2
<1>3. ASSUME UNCHANGED <<status, pc>>
      PROVE  Claim
  BY <1>3
<1>4. CASE PassOver \/ EndPass \/ Wake \/ ReturnCancelled
  BY <1>3, <1>4 DEF PassOver, EndPass, Wake, ReturnCancelled, graph
<1>5. ASSUME NEW t \in TaskIds, Answer(t) \/ Work(t)
      PROVE  Claim
  <2>1. u # t /\ pc'[u] = pc[u]
    <3>1. \E w \in PCs \ {"idle"} : pc' = [pc EXCEPT ![t] = w]
      BY <1>t, <1>5, WorkerKeepsSlot DEF ReleaseSlot, Report, NotifyEnd, PCs, Slotted
    <3> QED
      BY <1>t, <3>1
  <2>2. CASE AskApproval(t) \/ Approve(t) \/ Deny(t)
    BY <1>t, <2>1, <2>2 DEF AskApproval, Approve, Deny
  <2>3. ASSUME NEW f \in {"FAILED", "TIMED_OUT"}, Fail(t, f)
        PROVE  Claim
    BY <1>t, <2>1, <2>3, FailEffect DEF LeftOrSkipped
  <2>4. CASE ApprovalError(t)
    BY <2>3, <2>4 DEF ApprovalError
  <2>5. ASSUME NEW yielded \in Yields[t], RejectYield(t, yielded)
        PROVE  Claim
    BY <2>3, <2>5 DEF RejectYield
  <2>6. CASE HandlerError(t)
    <3>1. PICK f \in {"FAILED", "TIMED_OUT"} : Fail(t, f)
      BY <2>6 DEF HandlerError, FailureStatuses
    <3> QED
      BY <2>3, <3>1
  <2>7. CASE SkipGate(t) \/ LockNext(t) \/ UnlockNext(t)
    BY <2>1, <2>7 DEF SkipGate, LockNext, UnlockNext, graph
  <2>8. CASE ReleaseSlot(t) \/ Report(t) \/ NotifyEnd(t)
    BY <2>1, <2>8 DEF ReleaseSlot, Report, NotifyEnd, graph
  <2>9. ASSUME NEW yielded \in Yields[t], Complete(t, yielded)
        PROVE  Claim
    <3> DEFINE st == [status EXCEPT ![t] = "COMPLETED"]
    <3>1. /\ CanExpand(t, yielded, st, dependsOn)
          /\ status' = Insert(yielded, st)
      BY <2>9 DEF Complete
    <3>2. st[u] = status[u]
      BY <1>t, <2>1
    <3> HIDE DEF st
    <3>3. u \in Ids(yielded) => st[u] = "ABSENT"
      BY <3>1, ExpansionIsFresh
    <3>4. u \notin Ids(yielded) => status'[u] = st[u]
      BY <3>1 DEF Insert
    <3> QED
      BY <2>1, <3>2, <3>3, <3>4
  <2> QED
    BY <1>5, <2>2, <2>4, <2>5, <2>6, <2>7, <2>8, <2>9 DEF Answer, Work
<1>6. ASSUME NEW e \in Expansions, Expand(e.parent, e.tasks)
      PROVE  Claim
  <2>1. /\ CanExpand(e.parent, e.tasks, status, dependsOn)
        /\ status' = Insert(e.tasks, status)
        /\ pc' = pc
    BY <1>6 DEF Expand
  <2>2. u \in Ids(e.tasks) => status[u] = "ABSENT"
    BY <2>1, ExpansionIsFresh
  <2>3. u \notin Ids(e.tasks) => status'[u] = status[u]
    BY <2>1 DEF Insert
  <2> QED
    BY <2>1, <2>2, <2>3
<1>7. CASE EndCtx \/ Terminated \/ UNCHANGED vars
  BY <1>3, <1>7 DEF EndCtx, Terminated, vars, graph
<1> QED
  BY <1>1, <1>2, <1>4, <1>5, <1>6, <1>7 DEF Next, RunLoop

LEMMA StatusAtInit ==
  ASSUME NEW s, s # "PENDING", s # "ABSENT", ListsWithout({s}), Init,
         NEW t \in TaskIds
  PROVE  status[t] # s
<1>1. PICK plan \in Plans :
        status = [u \in TaskIds |-> IF u \in Ids(plan)
                                    THEN StatusOf(TaskNamed(plan, u))
                                    ELSE "ABSENT"]
  BY DEF Init
<1> QED
  BY <1>1, ListedStatus

LEMMA RunningStep ==
  ASSUME ListsWithout({"RUNNING"}), OrderInv, RunningInv, [Next]_vars
  PROVE  RunningInv'
BY IdleStays, StatusOfNewcomers DEF RunningInv

LEMMA CauseStep ==
  ASSUME ListsWithout({"SKIPPED"}), OrderInv, CauseInv, [Next]_vars
  PROVE  CauseInv'
<1> SUFFICES ASSUME NEW t \in TaskIds, status'[t] = "SKIPPED"
             PROVE  \E d \in dependsOn'[t] : status'[d] \in Bad
  BY DEF CauseInv
<1>1. dependsOn[t] \subseteq TaskIds
  BY DEF OrderInv, OrderTypes
<1>2. CASE UNCHANGED <<status, dependsOn>>
  BY <1>2 DEF CauseInv
<1>3. CASE Contract!Next
  <2>1. \A d \in TaskIds : status[d] \in Bad => status'[d] = status[d]
    BY <1>3 DEF Contract!Next, Contract!MayMove, Bad
  <2>2. status[t] # "ABSENT"
    BY StatusOfNewcomers
  <2>3. dependsOn[t] \subseteq dependsOn'[t]
    BY <1>3, <2>2 DEF Contract!Next, Contract!MayRewire
  <2>4. CASE status[t] = "SKIPPED"
    <3>1. PICK d \in dependsOn[t] : status[d] \in Bad
      BY <2>4 DEF CauseInv
    <3> QED
      BY <1>1, <2>1, <2>3, <3>1
  <2>5. CASE status[t] # "SKIPPED"
    BY <1>3, <2>2, <2>3, <2>5
       DEF Contract!Next, Contract!MayMove, Contract!HasCause, Bad
  <2> QED
    BY <2>4, <2>5
<1> QED
  BY <1>2, <1>3, OrderStep

LEMMA RunningInvariant ==
  ASSUME ListsWithout({"RUNNING"})
  PROVE  Spec => []RunningInv
<1>1. Init => RunningInv
  BY StatusAtInit DEF RunningInv
<1>2. OrderInv /\ RunningInv /\ [Next]_vars => RunningInv'
  BY RunningStep
<1> QED
  BY <1>1, <1>2, OrderInvariant, PTL DEF Spec

LEMMA CauseInvariant ==
  ASSUME ListsWithout({"SKIPPED"})
  PROVE  Spec => []CauseInv
<1>1. Init => CauseInv
  BY StatusAtInit DEF CauseInv
<1>2. OrderInv /\ CauseInv /\ [Next]_vars => CauseInv'
  BY CauseStep
<1> QED
  BY <1>1, <1>2, OrderInvariant, PTL DEF Spec

\* One pass leaves no pending task behind a dependency that will never
\* complete: the search of the first loop goes all the way.
LEMMA SkipsAreComplete ==
  ASSUME OrderInv, NEW t \in TaskIds, AfterSkips[t] = "PENDING", NEW d \in dependsOn[t]
  PROVE  d \in TaskIds /\ AfterSkips[d] \notin Bad
<1> DEFINE doomed == {u \in Known :
                        /\ status[u] = "PENDING"
                        /\ \E e \in dependsOn[u] : status[e] \in Bad}
           st == [u \in TaskIds |-> IF u \in doomed THEN "SKIPPED" ELSE status[u]]
           I == Impacted(doomed, st, dependsOn)
<1>t. OrderTypes
  BY DEF OrderInv
<1>1. d \in TaskIds
  BY <1>t DEF OrderTypes
<1>2. AfterSkips = [u \in TaskIds |-> IF u \in I THEN "SKIPPED" ELSE st[u]]
  BY DEF AfterSkips, CascadeSkips, Bad
<1>3. t \notin I /\ t \notin doomed /\ status[t] = "PENDING"
  BY <1>2
<1>4. status[d] \notin Bad
  BY <1>3 DEF Known
<1>5. t \in Skippable(st)
  BY <1>3 DEF Skippable
<1> HIDE DEF doomed, st, I
<1>6. ClosedUnderImpact(Impacted(doomed, st, dependsOn), doomed, st, dependsOn)
  BY ImpactedIsClosed
<1>7. d \notin doomed /\ d \notin I
  BY <1>3, <1>5, <1>6 DEF ClosedUnderImpact, I
<1> QED
  BY <1>1, <1>2, <1>4, <1>7 DEF st

\* Run finds nothing to dispatch and no worker left.
LEMMA NothingIsLeft ==
  ASSUME OrderInv, SlotInv, RunningInv, FinishRun, NEW t \in TaskIds
  PROVE  /\ pc[t] \in {"idle", "notifying", "gone"}
         /\ status'[t] # "RUNNING"
         /\ status'[t] = "PENDING" =>
              \E d \in dependsOn[t] :
                 d \in TaskIds /\ status'[d] \in {"PENDING", "WAITING_APPROVAL"}
<1>t. OrderTypes
  BY DEF OrderInv
<1>1. runningCount = 0 /\ Runnable = {} /\ status' = AfterPass
  BY DEF FinishRun
<1>2. Counted = {}
  BY <1>1, FS_EmptySet DEF SlotInv
<1>3. \A u \in TaskIds : pc[u] \in {"idle", "notifying", "gone"}
  BY <1>t, <1>2 DEF Counted, Slotted, OrderTypes, PCs
<1>4. \A u \in TaskIds : status[u] # "RUNNING"
  BY <1>3 DEF RunningInv, OrderInv, StatusAtPc, FitsPc
<1>5. \A u \in TaskIds : status'[u] # "RUNNING"
  BY <1>t, <1>1, <1>4, AfterPassEffect DEF LeftOrSkipped
<1>6. ASSUME status'[t] = "PENDING"
      PROVE  \E d \in dependsOn[t] :
                d \in TaskIds /\ status'[d] \in {"PENDING", "WAITING_APPROVAL"}
  <2>1. AfterSkips[t] = "PENDING" /\ t \notin Paused
    BY <1>1, <1>6 DEF AfterPass
  <2>2. t \notin Ready
    BY <1>1, <2>1 DEF Runnable
  <2>3. PICK d \in dependsOn[t] : AfterSkips[d] # "COMPLETED"
    BY <2>1, <2>2 DEF Ready, IsReady
  <2>4. d \in TaskIds /\ AfterSkips[d] \notin Bad
    BY <2>1, SkipsAreComplete
  <2>5. t \in Known
    BY <1>t, <2>1, AfterSkipsEffect DEF LeftOrSkipped, Known
  <2>6. status[d] # "ABSENT"
    BY <2>5 DEF OrderInv, IsValidGraph, Known
  <2>7. /\ AfterSkips[d] \in TaskStatus \cup {"ABSENT"}
        /\ AfterSkips[d] \notin {"ABSENT", "RUNNING"}
    BY <1>t, <1>4, <2>4, <2>6, AfterSkipsEffect DEF LeftOrSkipped
  <2>8. AfterSkips[d] \in {"PENDING", "WAITING_APPROVAL"}
    BY <2>3, <2>4, <2>7 DEF TaskStatus, Bad
  <2>9. status'[d] \in {"PENDING", "WAITING_APPROVAL"}
    BY <1>1, <2>4, <2>8 DEF AfterPass
  <2> QED
    BY <2>4, <2>9
<1> QED
  BY <1>3, <1>5, <1>6

\* The only step that takes Run from its lock to its end.
LEMMA ReturnStep ==
  ASSUME OrderInv, [Next]_vars, runPc = "lock", runPc' = "done"
  PROVE  FinishRun
<1>1. CASE RunLoop
  BY <1>1 DEF RunLoop, StartDispatch, Dispatch, PassOver, EndPass, Wake, ReturnCancelled
<1>2. CASE \E t \in TaskIds : Answer(t) \/ Work(t)
  BY <1>2 DEF Answer, Work, Approve, Deny, ApprovalError, AskApproval, SkipGate,
              LockNext, Complete, RejectYield, HandlerError, UnlockNext,
              ReleaseSlot, Report, NotifyEnd, run
<1>3. CASE \E e \in Expansions : Expand(e.parent, e.tasks)
  BY <1>3 DEF Expand, run
<1>4. CASE EndCtx \/ Terminated \/ UNCHANGED vars
  BY <1>4 DEF EndCtx, Terminated, vars, run
<1> QED
  BY <1>1, <1>2, <1>3, <1>4 DEF Next

\* When Run returns of itself no handler is running, and a task is pending only
\* behind one that waits: for all lists that do not claim a task to be running,
\* and all ways the workers and the passes of Run may interleave.
THEOREM ReturnSettles ==
  ASSUME ListsWithout({"RUNNING"})
  PROVE  Spec => ReturnsSettled
<1> DEFINE Settled == runPc = "lock" /\ runPc' = "done"
                      => \A t \in TaskIds :
                           /\ pc[t] \in {"idle", "notifying", "gone"}
                           /\ status'[t] # "RUNNING"
                           /\ status'[t] = "PENDING" =>
                                \E d \in dependsOn[t] :
                                   status'[d] \in {"PENDING", "WAITING_APPROVAL"}
<1>1. OrderInv /\ SlotInv /\ RunningInv /\ [Next]_vars => [Settled]_vars
  <2> SUFFICES ASSUME OrderInv, SlotInv, RunningInv, [Next]_vars,
                      runPc = "lock", runPc' = "done", NEW t \in TaskIds
               PROVE  /\ pc[t] \in {"idle", "notifying", "gone"}
                      /\ status'[t] # "RUNNING"
                      /\ status'[t] = "PENDING" =>
                           \E d \in dependsOn[t] :
                              status'[d] \in {"PENDING", "WAITING_APPROVAL"}
    OBVIOUS
  <2>1. FinishRun
    BY ReturnStep
  <2> QED
    BY <2>1, NothingIsLeft
<1> QED
  BY <1>1, OrderInvariant, SlotInvariant, RunningInvariant, PTL
     DEF Spec, ReturnsSettled

\* Where Run reports COMPLETED nothing waits and nothing failed; then nothing is
\* pending either, nor skipped, for such tasks would form a cycle.
LEMMA CompletedIsAll ==
  ASSUME OrderInv, SlotInv, RunningInv, CauseInv', FinishRun,
         result'.status = "COMPLETED"
  PROVE  result'.completed = Known
<1> DEFINE known == {t \in TaskIds : AfterPass[t] # "ABSENT"}
           with(S) == {t \in known : AfterPass[t] \in S}
<1>t. OrderTypes
  BY DEF OrderInv
<1>1. status' = AfterPass /\ result' = RunResult(AfterPass) /\ dependsOn' = dependsOn
  BY DEF FinishRun
<1>2. /\ with({"WAITING_APPROVAL"}) = {}
      /\ with({"FAILED", "TIMED_OUT"}) = {}
      /\ result'.completed = with({"COMPLETED"})
  BY <1>1 DEF RunResult
<1>3. known = Known
  BY <1>t, AfterPassEffect DEF LeftOrSkipped, Known
<1>4. IsAcyclic(Known, dependsOn) /\ \A t \in Known : dependsOn[t] \subseteq Known
  BY DEF OrderInv, IsValidGraph
<1>5. with({"PENDING"}) = {}
  <2>1. \A t \in with({"PENDING"}) : dependsOn[t] \cap with({"PENDING"}) # {}
    <3> SUFFICES ASSUME NEW t \in with({"PENDING"})
                 PROVE  dependsOn[t] \cap with({"PENDING"}) # {}
      OBVIOUS
    <3>1. t \in TaskIds /\ t \in Known /\ status'[t] = "PENDING"
      BY <1>1, <1>3
    <3>2. PICK d \in dependsOn[t] : status'[d] \in {"PENDING", "WAITING_APPROVAL"}
      BY <3>1, NothingIsLeft
    <3>3. d \in known
      BY <1>3, <1>4, <3>1
    <3> QED
      BY <1>1, <1>2, <3>2, <3>3
  <2>2. with({"PENDING"}) \in SUBSET Known
    BY <1>3
  <2> QED
    BY <1>4, <2>1, <2>2 DEF IsAcyclic
<1>6. with({"SKIPPED"}) = {}
  <2>1. \A t \in with({"SKIPPED"}) : dependsOn[t] \cap with({"SKIPPED"}) # {}
    <3> SUFFICES ASSUME NEW t \in with({"SKIPPED"})
                 PROVE  dependsOn[t] \cap with({"SKIPPED"}) # {}
      OBVIOUS
    <3>1. t \in TaskIds /\ t \in Known /\ status'[t] = "SKIPPED"
      BY <1>1, <1>3
    <3>2. PICK d \in dependsOn[t] : status'[d] \in Bad
      BY <1>1, <3>1 DEF CauseInv
    <3>3. d \in known
      BY <1>3, <1>4, <3>1
    <3> QED
      BY <1>1, <1>2, <3>2, <3>3 DEF Bad
  <2>2. with({"SKIPPED"}) \in SUBSET Known
    BY <1>3
  <2> QED
    BY <1>4, <2>1, <2>2 DEF IsAcyclic
<1>7. \A t \in known : AfterPass[t] \in TaskStatus /\ AfterPass[t] # "RUNNING"
  <2>1. AfterPass \in [TaskIds -> TaskStatus \cup {"ABSENT"}]
    BY <1>t, AfterPassEffect
  <2> QED
    BY <1>1, <2>1, NothingIsLeft
<1>8. \A t \in known : AfterPass[t] = "COMPLETED"
  BY <1>2, <1>5, <1>6, <1>7 DEF TaskStatus
<1> QED
  BY <1>2, <1>3, <1>8

\* A run reported COMPLETED has completed every task of the graph, those that
\* were yielded on the way included: for all lists without RUNNING and SKIPPED.
THEOREM CompletedHolds ==
  ASSUME ListsWithout({"RUNNING"}), ListsWithout({"SKIPPED"})
  PROVE  Spec => CompletedMeansAll
<1> DEFINE All == runPc = "lock" /\ runPc' = "done" /\ result'.status = "COMPLETED"
                  => result'.completed = Known
<1>1. OrderInv /\ SlotInv /\ RunningInv /\ CauseInv /\ [Next]_vars => [All]_vars
  <2> SUFFICES ASSUME OrderInv, SlotInv, RunningInv, CauseInv, [Next]_vars,
                      runPc = "lock", runPc' = "done", result'.status = "COMPLETED"
               PROVE  result'.completed = Known
    OBVIOUS
  <2>1. FinishRun
    BY ReturnStep
  <2>2. CauseInv'
    BY CauseStep
  <2> QED
    BY <2>1, <2>2, CompletedIsAll
<1> QED
  BY <1>1, OrderInvariant, SlotInvariant, RunningInvariant, CauseInvariant, PTL
     DEF Spec, CompletedMeansAll

-----------------------------------------------------------------------------
(***************************************************************************)
(* Subtasks.  A task that was there when a dependency of its own yielded   *)
(* has to wait for the leaves of the yielded graph alone; that no other    *)
(* yielded task is left when it starts follows because each of them is a   *)
(* dependency of it or of another (Guarded), so that an unfinished one     *)
(* would have an unfinished one depending on it, and so on for ever.       *)
(* A yielded task that claims to be COMPLETED would end the chain early:   *)
(* expandLocked takes its status as it is.                                 *)
(***************************************************************************)
YieldsNoneCompleted == \A t \in TaskIds : \A tasks \in Yields[t] :
                         \A i \in DOMAIN tasks : tasks[i].status # "COMPLETED"

YieldedBy(p) == {y \in TaskIds : yieldedBy[y] = p}

\* t stands in taskOrder before a task that p yielded.
Before(t, p) == \E i, j \in DOMAIN taskOrder :
                  i < j /\ taskOrder[i] = t /\ yieldedBy[taskOrder[j]] = p

\* t has started, or may.
MayStart(t) == pc[t] # "idle" \/ status[t] = "PENDING"

\* All that p yielded is a dependency of t or of a task that p yielded.
Guarded(t, p) == \A y \in YieldedBy(p) : \/ y \in dependsOn[t]
                                         \/ \E z \in YieldedBy(p) : y \in dependsOn[z]

AfterWorkPcs == {"unlocking", "releasing", "reporting", "notifying", "gone"}

YieldInv ==
  /\ yieldedBy \in [TaskIds -> TaskIds \cup {NoTask}]
  /\ \A y \in TaskIds : yieldedBy[y] # NoTask =>
       /\ y \in Known /\ pc[yieldedBy[y]] \in AfterWorkPcs
       /\ status[y] = "COMPLETED" => pc[y] # "idle"
  /\ \A t, p \in TaskIds :
       Before(t, p) /\ p \in dependsOn[t] /\ yieldedBy[t] # p /\ MayStart(t)
       => Guarded(t, p)

\* Of finitely many tasks of a graph without cycles, one is no dependency of another.
LEMMA SomeTaskIsLast ==
  ASSUME NEW ids, NEW deps, IsAcyclic(ids, deps),
         NEW S \in SUBSET ids, IsFiniteSet(S), S # {}
  PROVE  \E y \in S : \A z \in S : y \notin deps[z]
<1> DEFINE Closed(D) == \A y \in D : \A z \in S : y \in deps[z] => z \in D
           Some == {D \in SUBSET S : D # {} /\ Closed(D)}
           Sizes == {Cardinality(D) : D \in Some}
<1> SUFFICES ASSUME \A y \in S : \E z \in S : y \in deps[z]
             PROVE  FALSE
  OBVIOUS
<1>1. \A D \in SUBSET S : IsFiniteSet(D) /\ Cardinality(D) \in Nat
  BY FS_Subset, FS_CardinalityType
<1>2. Sizes \in SUBSET Nat /\ Sizes # {}
  <2>1. S \in Some
    OBVIOUS
  <2> QED BY <1>1, <2>1
<1>3. PICK n \in Sizes : \A m \in Sizes : ~(m < n)
  <2> HIDE DEF Sizes
  <2>1. PICK n \in Sizes : \A m \in Sizes : ~(<<m, n>> \in OpToRel(<, Nat))
    BY <1>2, WFMin, NatLessThanWellFounded
  <2>2. \A m \in Sizes : ~(m < n)
    BY <1>2, <2>1 DEF OpToRel
  <2> QED BY <2>2
<1>4. PICK D \in Some : n = Cardinality(D)
  OBVIOUS
<1>5. PICK m \in D : deps[m] \cap D = {}
  BY <1>4 DEF IsAcyclic
<1>6. D \ {m} \in Some
  <2>1. PICK z \in S : m \in deps[z]
    BY <1>4
  <2>2. z \in D /\ z # m
    BY <1>4, <1>5, <2>1
  <2>3. \A y \in D \ {m} : \A x \in S : y \in deps[x] => x \in D \ {m}
    BY <1>4, <1>5
  <2> QED BY <2>2, <2>3
<1>7. Cardinality(D \ {m}) = Cardinality(D) - 1 /\ Cardinality(D) \in Nat
  BY <1>1, <1>4, <1>5, FS_RemoveElement
<1>8. Cardinality(D \ {m}) \in Sizes
  BY <1>6
<1> HIDE DEF Some, Sizes
<1>9. ~(Cardinality(D \ {m}) < n)
  BY <1>3, <1>8
<1> QED BY <1>4, <1>7, <1>9

\* What a step does to the graph's growth: nothing, or a yield, or an expansion.
LEMMA GraphMoves ==
  ASSUME OrderInv, [Next]_vars
  PROVE  \/ UNCHANGED <<dependsOn, taskOrder, yieldedBy>>
         \/ \E t \in TaskIds : \E yielded \in Yields[t] : Complete(t, yielded)
         \/ \E e \in Expansions : Expand(e.parent, e.tasks)
<1>1. CASE RunLoop
  BY <1>1 DEF RunLoop, FinishRun, StartDispatch, Dispatch, PassOver, EndPass, Wake,
              ReturnCancelled, graph
<1>2. ASSUME NEW t \in TaskIds, Answer(t) \/ Work(t)
      PROVE  \/ UNCHANGED <<dependsOn, taskOrder, yieldedBy>>
             \/ \E yielded \in Yields[t] : Complete(t, yielded)
  <2>1. CASE Answer(t)
    BY <2>1 DEF Answer, Approve, Deny, ApprovalError
  <2>2. CASE AskApproval(t) \/ SkipGate(t) \/ LockNext(t)
    BY <2>2 DEF AskApproval, SkipGate, LockNext, graph
  <2>3. CASE \E yielded \in Yields[t] : RejectYield(t, yielded)
    BY <2>3 DEF RejectYield
  <2>4. CASE HandlerError(t)
    BY <2>4 DEF HandlerError
  <2>5. CASE UnlockNext(t) \/ ReleaseSlot(t) \/ Report(t) \/ NotifyEnd(t)
    BY <2>5 DEF UnlockNext, ReleaseSlot, Report, NotifyEnd, graph
  <2> QED BY <1>2, <2>1, <2>2, <2>3, <2>4, <2>5 DEF Work
<1>3. CASE EndCtx \/ Terminated \/ UNCHANGED vars
  BY <1>3 DEF EndCtx, Terminated, vars, graph
<1> QED BY <1>1, <1>2, <1>3 DEF Next

\* A task starts from PENDING, and one that is past its work stays so.
LEMMA GoroutineMoves ==
  ASSUME OrderInv, [Next]_vars, NEW u \in TaskIds
  PROVE  /\ pc[u] = "idle" /\ pc'[u] # "idle" => status[u] = "PENDING"
         /\ pc[u] \in AfterWorkPcs => pc'[u] \in AfterWorkPcs
<1> DEFINE Claim == /\ pc[u] = "idle" /\ pc'[u] # "idle" => status[u] = "PENDING"
                    /\ pc[u] \in AfterWorkPcs => pc'[u] \in AfterWorkPcs
<1>t. OrderTypes
  BY DEF OrderInv
<1>1. ASSUME pc' = pc PROVE Claim
  BY <1>1
<1>2. CASE Dispatch
  <2>1. PICK t \in toDispatch : pc' = [pc EXCEPT ![t] = "start"]
    BY <1>2 DEF Dispatch
  <2>2. t \in TaskIds /\ status[t] = "PENDING" /\ pc[t] = "idle"
    BY <1>t DEF OrderInv, OrderTypes, PassIsCurrent, IsReady
  <2> QED BY <1>t, <2>1, <2>2 DEF OrderTypes, AfterWorkPcs
<1>3. CASE FinishRun \/ StartDispatch \/ PassOver \/ EndPass \/ Wake \/ ReturnCancelled
  BY <1>1, <1>3 DEF FinishRun, StartDispatch, PassOver, EndPass, Wake, ReturnCancelled
<1>4. ASSUME NEW t \in TaskIds, Answer(t) \/ Work(t) PROVE Claim
  <2>1. pc[t] # "idle" /\ \E w \in PCs \ {"idle"} : pc' = [pc EXCEPT ![t] = w]
    BY <1>t, <1>4, WorkerKeepsSlot DEF ReleaseSlot, Report, NotifyEnd, PCs, Slotted
  <2>2. pc[t] \in AfterWorkPcs => pc'[t] \in AfterWorkPcs
    <3>1. CASE UnlockNext(t)
      BY <1>t, <3>1 DEF UnlockNext, OrderTypes, AfterWorkPcs
    <3>2. CASE ReleaseSlot(t) \/ Report(t) \/ NotifyEnd(t)
      BY <1>t, <3>2 DEF ReleaseSlot, Report, NotifyEnd, OrderTypes, AfterWorkPcs
    <3>3. CASE Answer(t) \/ AskApproval(t) \/ SkipGate(t) \/ LockNext(t)
      BY <3>3 DEF Answer, Approve, Deny, ApprovalError, AskApproval, SkipGate,
                  LockNext, AfterWorkPcs
    <3>4. CASE HandlerError(t) \/ \E yielded \in Yields[t] :
                                     Complete(t, yielded) \/ RejectYield(t, yielded)
      BY <3>4 DEF HandlerError, Complete, RejectYield, AfterWorkPcs
    <3> QED BY <1>4, <3>1, <3>2, <3>3, <3>4 DEF Work
  <2> QED BY <1>t, <2>1, <2>2 DEF OrderTypes
<1>5. CASE \E e \in Expansions : Expand(e.parent, e.tasks)
  BY <1>1, <1>5 DEF Expand
<1>6. CASE EndCtx \/ Terminated \/ UNCHANGED vars
  BY <1>1, <1>6 DEF EndCtx, Terminated, vars
<1> QED BY <1>2, <1>3, <1>4, <1>5, <1>6 DEF Next, RunLoop

\* Who has a dependent or a dependency in the graph is in it.
LEMMA BeforeIsKnown ==
  ASSUME ListInv, NEW t, NEW p, Before(t, p)
  PROVE  t \in Known
<1>1. DOMAIN taskOrder = 1..Len(taskOrder)
  BY LenProperties DEF ListInv
<1> QED BY <1>1 DEF Before, ListInv, Listed

\* A step that leaves the list and the history alone.
LEMMA StillKeeps ==
  ASSUME OrderInv, ListInv, YieldInv, [Next]_vars,
         UNCHANGED <<dependsOn, taskOrder, yieldedBy>>
  PROVE  YieldInv'
<1>t. OrderTypes /\ OrderTypes'
  BY OrderStep DEF OrderInv
<1>1. Contract!Next \/ UNCHANGED <<status, dependsOn>>
  BY OrderStep
<1>2. \A y \in Known : /\ y \in Known'
                       /\ status'[y] = "PENDING" => status[y] = "PENDING"
  BY <1>1, <1>t DEF Known, Contract!Next, Contract!MayMove
<1>3. \A y \in Known : status'[y] = "COMPLETED" /\ pc'[y] = "idle" =>
                         status[y] = "COMPLETED" /\ pc[y] = "idle"
  BY IdleStays DEF Known
<1>4. ASSUME NEW y \in TaskIds, yieldedBy'[y] # NoTask
      PROVE  /\ y \in Known' /\ pc'[yieldedBy'[y]] \in AfterWorkPcs
             /\ status'[y] = "COMPLETED" => pc'[y] # "idle"
  <2>1. yieldedBy[y] # NoTask /\ yieldedBy'[y] = yieldedBy[y] /\ yieldedBy[y] \in TaskIds
    BY <1>4 DEF YieldInv
  <2>2. y \in Known /\ pc[yieldedBy[y]] \in AfterWorkPcs
        /\ (status[y] = "COMPLETED" => pc[y] # "idle")
    BY <2>1 DEF YieldInv
  <2>3. pc'[yieldedBy[y]] \in AfterWorkPcs
    BY <2>1, <2>2, GoroutineMoves
  <2> QED BY <1>2, <1>3, <2>1, <2>2, <2>3
<1>5. ASSUME NEW t \in TaskIds, NEW p \in TaskIds,
             Before(t, p)', p \in dependsOn'[t], yieldedBy'[t] # p, MayStart(t)'
      PROVE  Guarded(t, p)'
  <2>1. Before(t, p) /\ p \in dependsOn[t] /\ yieldedBy[t] # p
    BY <1>5 DEF Before
  <2>2. MayStart(t)
    BY <1>2, <1>5, <2>1, BeforeIsKnown, GoroutineMoves DEF MayStart
  <2>3. Guarded(t, p)
    BY <2>1, <2>2 DEF YieldInv
  <2> QED BY <2>3 DEF Guarded, YieldedBy
<1> QED BY <1>4, <1>5 DEF YieldInv

\* The list grows by tasks that are new, and p yields none of them.
LEMMA OldBefore ==
  ASSUME OrderInv, ListInv, YieldInv, NEW parent \in TaskIds \cup {NoTask},
         NEW yielded \in Handed, NEW st, Grows(parent, yielded, st),
         NEW p \in TaskIds, NEW t \in TaskIds,
         \A y \in Known : yieldedBy'[y] = yieldedBy[y],
         \A y \in Ids(yielded) : yieldedBy'[y] # p,
         Before(t, p)'
  PROVE  Before(t, p) /\ t \in Known
<1>0. yielded \in Seq(Task)
  BY TaskListsAssumption DEF Handed
<1>1. /\ Known \cap Ids(yielded) = {} /\ ~HasDuplicateId(yielded)
      /\ Ids(yielded) \subseteq TaskIds
  BY <1>0, GrowsEffect
<1>2. NamesOf(yielded) \in Seq(TaskIds) /\ Listed(NamesOf(yielded)) = Ids(yielded)
  BY <1>0, <1>1, NamesAreListed
<1>3. taskOrder' = taskOrder \o NamesOf(yielded) /\ taskOrder \in Seq(TaskIds)
  BY DEF Grows, ListInv
<1> DEFINE m == Len(taskOrder)
           n == Len(NamesOf(yielded))
<1>4. m \in Nat /\ n \in Nat /\ DOMAIN taskOrder = 1..m
  BY <1>2, <1>3, LenProperties
<1>5. /\ DOMAIN taskOrder' = 1..(m + n)
      /\ \A i \in 1..(m + n) : taskOrder'[i] = IF i <= m THEN taskOrder[i]
                                               ELSE NamesOf(yielded)[i - m]
  BY <1>2, <1>3, <1>4, ConcatProperties, LenProperties
<1>6. PICK i \in DOMAIN taskOrder', j \in DOMAIN taskOrder' :
        i < j /\ taskOrder'[i] = t /\ yieldedBy'[taskOrder'[j]] = p
  BY DEF Before
<1>7. j <= m
  <2> SUFFICES ASSUME ~(j <= m) PROVE FALSE
    OBVIOUS
  <2>1. taskOrder'[j] = NamesOf(yielded)[j - m] /\ j - m \in 1..n
    BY <1>4, <1>5, <1>6
  <2>2. taskOrder'[j] \in Ids(yielded)
    BY <1>2, <2>1 DEF Listed
  <2> QED BY <1>6, <2>2
<1>8. i \in 1..m /\ j \in 1..m /\ taskOrder'[i] = taskOrder[i] /\ taskOrder'[j] = taskOrder[j]
  BY <1>4, <1>5, <1>6, <1>7
<1>9. taskOrder[i] \in Known /\ taskOrder[j] \in Known
  BY <1>8 DEF ListInv, Listed
<1>10. i < j /\ taskOrder[i] = t /\ yieldedBy[taskOrder[j]] = p
  BY <1>6, <1>8, <1>9
<1> QED BY <1>4, <1>8, <1>9, <1>10 DEF Before

\* The list grows, by tasks that p did not yield: what holds of p stays.
LEMMA OldGuards ==
  ASSUME OrderInv, ListInv, YieldInv, [Next]_vars, NEW parent \in TaskIds \cup {NoTask},
         NEW yielded \in Handed, NEW st, Grows(parent, yielded, st),
         NEW p \in TaskIds, NEW t \in TaskIds, p \in Known,
         \A y \in Known : yieldedBy'[y] = yieldedBy[y],
         \A y \in Ids(yielded) : yieldedBy'[y] # p,
         \A y \in TaskIds \ Known : yieldedBy[y] = NoTask,
         \A y \in TaskIds \ Ids(yielded) : yieldedBy'[y] = yieldedBy[y],
         Before(t, p)', p \in dependsOn'[t], yieldedBy'[t] # p, MayStart(t)'
  PROVE  Guarded(t, p)'
<1>0. yielded \in Seq(Task)
  BY TaskListsAssumption DEF Handed
<1>1. Known \cap Ids(yielded) = {} /\ Ids(yielded) \subseteq TaskIds
  BY <1>0, GrowsEffect
<1>2. Before(t, p) /\ t \in Known
  BY OldBefore
<1>3. t \notin Ids(yielded) /\ p \notin Ids(yielded)
  BY <1>1, <1>2
<1>4. p \in dependsOn[t]
  BY <1>3 DEF Grows, Rewire, Leaves
<1>5. MayStart(t)
  <2>1. status'[t] = st[t]
    BY <1>0, <1>3, GrowsEffect
  <2>2. st[t] = "PENDING" => status[t] = "PENDING"
    BY DEF Grows
  <2> QED BY <2>1, <2>2, GoroutineMoves DEF MayStart
<1>6. Guarded(t, p)
  BY <1>2, <1>4, <1>5 DEF YieldInv
<1>7. YieldedBy(p)' = YieldedBy(p)
  <2>1. NoTask \notin TaskIds
    BY NoTaskAssumption
  <2> QED BY <1>1, <2>1 DEF YieldedBy
<1>8. \A x \in Known : dependsOn[x] \subseteq dependsOn'[x]
  <2>1. \A x \in Known : x \in TaskIds /\ x \notin Ids(yielded)
    BY <1>1 DEF Known
  <2> QED BY <2>1 DEF Grows, Rewire
<1>9. \A z \in YieldedBy(p) : z \in Known
  BY NoTaskAssumption DEF YieldedBy, YieldInv
<1> QED BY <1>2, <1>6, <1>7, <1>8, <1>9 DEF Guarded

LEMMA ExpandKeepsYields ==
  ASSUME OrderInv, ListInv, YieldInv, [Next]_vars,
         NEW e \in Expansions, Expand(e.parent, e.tasks)
  PROVE  YieldInv'
<1>t. OrderTypes
  BY DEF OrderInv
<1>1. Grows(e.parent, e.tasks, status) /\ pc' = pc /\ yieldedBy' = yieldedBy
  BY <1>t DEF Expand, Grows, NamesOf, OrderTypes
<1>2. /\ e.parent \in TaskIds \cup {NoTask} /\ e.tasks \in Handed /\ e.tasks \in Seq(Task)
  BY TaskListsAssumption DEF Handed
<1>3. /\ Known' = Known \cup Ids(e.tasks) /\ Known \cap Ids(e.tasks) = {}
      /\ \A t \in TaskIds \ Ids(e.tasks) : status'[t] = status[t]
  <2> DEFINE parent == e.parent
             yielded == e.tasks
  <2>1. /\ parent \in TaskIds \cup {NoTask} /\ yielded \in Seq(Task)
        /\ Grows(parent, yielded, status)
    BY <1>1, <1>2
  <2> HIDE DEF parent, yielded
  <2>2. /\ Known' = Known \cup Ids(yielded) /\ Known \cap Ids(yielded) = {}
        /\ \A t \in TaskIds \ Ids(yielded) : status'[t] = status[t]
    BY <2>1, GrowsEffect
  <2> QED BY <2>2 DEF yielded
<1>4. ASSUME NEW y \in TaskIds, yieldedBy'[y] # NoTask
      PROVE  /\ y \in Known' /\ pc'[yieldedBy'[y]] \in AfterWorkPcs
             /\ status'[y] = "COMPLETED" => pc'[y] # "idle"
  <2>1. y \in Known /\ pc[yieldedBy[y]] \in AfterWorkPcs
        /\ (status[y] = "COMPLETED" => pc[y] # "idle")
    BY <1>1, <1>4 DEF YieldInv
  <2> QED BY <1>1, <1>3, <2>1
<1>5. ASSUME NEW t \in TaskIds, NEW p \in TaskIds,
             Before(t, p)', p \in dependsOn'[t], yieldedBy'[t] # p, MayStart(t)'
      PROVE  Guarded(t, p)'
  <2>1. \A y \in TaskIds \ Known : yieldedBy[y] = NoTask
    BY DEF YieldInv
  <2>2. \A y \in Ids(e.tasks) : yieldedBy'[y] # p
    <3>1. \A y \in Ids(e.tasks) : y \in TaskIds \ Known
      BY <1>1, <1>2, <1>3, GrowsEffect
    <3> QED BY <1>1, <2>1, <3>1, NoTaskAssumption
  <2>3. p \in Known
    <3>1. PICK j \in DOMAIN taskOrder' : yieldedBy'[taskOrder'[j]] = p
      BY <1>5 DEF Before
    <3>2. taskOrder'[j] \in TaskIds
      BY <3>1, ListStep, ElementOfSeq DEF ListInv
    <3>3. pc[p] # "idle"
      BY <1>1, <3>1, <3>2, NoTaskAssumption DEF YieldInv, AfterWorkPcs
    <3> QED BY <3>3, StartedStatus DEF Known
  <2> QED BY <1>1, <1>2, <1>5, <2>1, <2>2, <2>3, OldGuards
<1> QED BY <1>1, <1>4, <1>5 DEF YieldInv

\* The tasks that stood behind q when it yielded are rewired to the leaves of what
\* it yielded, and all that is no leaf has a dependent there.
LEMMA NewGuards ==
  ASSUME OrderInv, YieldInv, [Next]_vars, NEW p \in TaskIds, NEW yielded \in Yields[p],
         Complete(p, yielded), NEW t \in TaskIds,
         p \in dependsOn'[t], yieldedBy'[t] # p, MayStart(t)'
  PROVE  Guarded(t, p)'
<1> DEFINE st == [status EXCEPT ![p] = "COMPLETED"]
<1>t. OrderTypes
  BY DEF OrderInv
<1>1. /\ pc[p] = "handling" /\ pc' = [pc EXCEPT ![p] = AfterWork(p)]
      /\ CanExpand(p, yielded, st, dependsOn)
      /\ status' = Insert(yielded, st)
      /\ dependsOn' = Rewire(p, yielded, st, dependsOn)
      /\ yieldedBy' = [u \in TaskIds |-> IF u \in Ids(yielded) THEN p ELSE yieldedBy[u]]
  BY DEF Complete
<1>2. status[p] = "RUNNING"
  BY <1>1 DEF OrderInv, StatusAtPc, FitsPc
<1>3. /\ \A u \in TaskIds \ {p} : st[u] = status[u] /\ pc'[u] = pc[u]
      /\ st[p] = "COMPLETED"
  BY <1>t, <1>1 DEF OrderTypes
<1> HIDE DEF st
<1>4. Ids(yielded) \subseteq TaskIds /\ p \notin Ids(yielded)
  BY <1>1, <1>3, ExpansionIsFresh
<1>5. t \notin Ids(yielded)
  BY <1>1
<1>6. p \in dependsOn[t]
  BY <1>1, <1>4, <1>5 DEF Rewire, Leaves
<1>7. pc[t] = "idle" /\ t # p
  BY <1>1, <1>2, <1>6, StartedStatus
<1>8. st[t] = "PENDING"
  BY <1>1, <1>3, <1>5, <1>7 DEF MayStart, Insert
<1>9. Leaves(yielded) \subseteq dependsOn'[t]
  BY <1>1, <1>5, <1>6, <1>7, <1>8 DEF Rewire
<1>10. YieldedBy(p)' = Ids(yielded)
  <2>1. \A y \in TaskIds : yieldedBy[y] # p
    BY <1>1, NoTaskAssumption DEF YieldInv, AfterWorkPcs
  <2> QED BY <1>1, <1>4, <2>1 DEF YieldedBy
<1>11. ASSUME NEW y \in Ids(yielded), y \notin Leaves(yielded)
       PROVE  \E z \in Ids(yielded) : y \in dependsOn'[z]
  <2>1. PICK i \in DOMAIN yielded : y \in yielded[i].dependsOn
    BY <1>11 DEF Leaves
  <2> DEFINE z == yielded[i].id
  <2>2. z \in Ids(yielded) /\ z \in TaskIds
    BY <1>4, <2>1 DEF Ids
  <2>3. TaskNamed(yielded, z) = yielded[i]
    <3>1. ~HasDuplicateId(yielded)
      BY <1>1, <2>1 DEF CanExpand, HasDuplicateId
    <3> QED BY <2>1, <3>1 DEF TaskNamed, HasDuplicateId
  <2>4. dependsOn'[z] = yielded[i].dependsOn
    BY <1>1, <2>1, <2>2, <2>3 DEF Rewire
  <2> QED BY <2>1, <2>2, <2>4
<1> QED BY <1>9, <1>10, <1>11 DEF Guarded

LEMMA CompleteKeepsYields ==
  ASSUME YieldsNoneCompleted, OrderInv, ListInv, YieldInv, [Next]_vars,
         NEW q \in TaskIds, NEW yielded \in Yields[q], Complete(q, yielded)
  PROVE  YieldInv'
<1> DEFINE st == [status EXCEPT ![q] = "COMPLETED"]
<1>t. OrderTypes
  BY DEF OrderInv
<1>1. /\ pc[q] = "handling" /\ pc' = [pc EXCEPT ![q] = AfterWork(q)]
      /\ yieldedBy' = [u \in TaskIds |-> IF u \in Ids(yielded) THEN q ELSE yieldedBy[u]]
  BY DEF Complete
<1>2. status[q] = "RUNNING"
  BY <1>1 DEF OrderInv, StatusAtPc, FitsPc
<1>3. Grows(q, yielded, st)
  <2>1. /\ st \in [TaskIds -> TaskStatus \cup {"ABSENT"}]
        /\ \A u \in TaskIds : \/ st[u] = status[u]
                              \/ status[u] = "RUNNING" /\ st[u] = "COMPLETED"
    BY <1>t, <1>2 DEF OrderTypes, TaskStatus
  <2> QED BY <2>1 DEF Complete, Grows, NamesOf
<1>4. q \in TaskIds \cup {NoTask} /\ yielded \in Handed /\ yielded \in Seq(Task)
  BY TaskListsAssumption DEF Handed
<1>5. \A u \in TaskIds \ {q} : st[u] = status[u]
  OBVIOUS
<1> HIDE DEF st
<1>6. /\ Known' = Known \cup Ids(yielded) /\ Known \cap Ids(yielded) = {}
      /\ Ids(yielded) \subseteq TaskIds
      /\ \A t \in Ids(yielded) : status'[t] = StatusOf(TaskNamed(yielded, t))
      /\ \A t \in TaskIds \ Ids(yielded) : status'[t] = st[t]
  BY <1>3, <1>4, GrowsEffect
<1>7. pc'[q] \in AfterWorkPcs /\ \A u \in TaskIds \ {q} : pc'[u] = pc[u]
  BY <1>t, <1>1 DEF AfterWork, AfterWorkPcs, OrderTypes
<1>8. \A y \in TaskIds \ Known : yieldedBy[y] = NoTask
  BY DEF YieldInv
<1>9. yieldedBy' \in [TaskIds -> TaskIds \cup {NoTask}]
  BY <1>1 DEF YieldInv
<1>10. ASSUME NEW y \in TaskIds, yieldedBy'[y] # NoTask
       PROVE  /\ y \in Known' /\ pc'[yieldedBy'[y]] \in AfterWorkPcs
              /\ status'[y] = "COMPLETED" => pc'[y] # "idle"
  <2>1. CASE y \in Ids(yielded)
    <3>1. PICK i \in DOMAIN yielded : yielded[i].id = y
      BY <2>1 DEF Ids
    <3>2. TaskNamed(yielded, y) = yielded[CHOOSE k \in DOMAIN yielded : yielded[k].id = y]
      BY DEF TaskNamed
    <3>3. TaskNamed(yielded, y).status # "COMPLETED"
      BY <3>1, <3>2 DEF YieldsNoneCompleted
    <3>4. status'[y] # "COMPLETED"
      BY <1>6, <2>1, <3>3 DEF StatusOf
    <3> QED BY <1>1, <1>6, <1>7, <2>1, <3>4
  <2>2. CASE y \notin Ids(yielded)
    <3>1. yieldedBy'[y] = yieldedBy[y]
      BY <1>1, <2>2
    <3>2. /\ y \in Known /\ pc[yieldedBy[y]] \in AfterWorkPcs
          /\ status[y] = "COMPLETED" => pc[y] # "idle"
          /\ yieldedBy[y] \in TaskIds
      BY <1>10, <3>1 DEF YieldInv
    <3>3. pc'[yieldedBy[y]] \in AfterWorkPcs
      BY <1>7, <3>2
    <3>4. CASE y = q
      BY <1>6, <1>7, <3>1, <3>2, <3>3, <3>4 DEF AfterWorkPcs
    <3>5. CASE y # q
      BY <1>5, <1>6, <1>7, <2>2, <3>1, <3>2, <3>3, <3>5
    <3> QED BY <3>4, <3>5
  <2> QED BY <2>1, <2>2
<1>11. ASSUME NEW t \in TaskIds, NEW p \in TaskIds,
              Before(t, p)', p \in dependsOn'[t], yieldedBy'[t] # p, MayStart(t)'
       PROVE  Guarded(t, p)'
  <2>1. CASE p = q
    BY <1>11, <2>1, NewGuards
  <2>2. CASE p # q
    <3>1. /\ \A y \in Known : yieldedBy'[y] = yieldedBy[y]
          /\ \A y \in Ids(yielded) : yieldedBy'[y] # p
          /\ \A y \in TaskIds \ Ids(yielded) : yieldedBy'[y] = yieldedBy[y]
      BY <1>1, <1>6, <2>2 DEF Known
    <3>2. p \in Known
      <4>1. PICK j \in DOMAIN taskOrder' : yieldedBy'[taskOrder'[j]] = p
        BY <1>11 DEF Before
      <4>2. taskOrder'[j] \in TaskIds
        BY <4>1, ListStep, ElementOfSeq DEF ListInv
      <4>3. yieldedBy[taskOrder'[j]] = p
        BY <3>1, <4>1, <4>2
      <4>4. pc[p] # "idle"
        BY <4>2, <4>3, NoTaskAssumption DEF YieldInv, AfterWorkPcs
      <4> QED BY <4>4, StartedStatus DEF Known
    <3> QED BY <1>3, <1>4, <1>8, <1>11, <3>1, <3>2, OldGuards
  <2> QED BY <2>1, <2>2
<1> QED BY <1>9, <1>10, <1>11 DEF YieldInv

LEMMA YieldInit == ASSUME Init PROVE YieldInv
<1>1. yieldedBy = [t \in TaskIds |-> NoTask]
  BY DEF Init
<1>2. taskOrder \in Seq(TaskIds)
  BY ListInit DEF ListInv
<1>3. \A t, p \in TaskIds : ~Before(t, p)
  BY <1>1, <1>2, ElementOfSeq, NoTaskAssumption DEF Before
<1> QED BY <1>1, <1>3 DEF YieldInv

LEMMA YieldStep ==
  ASSUME YieldsNoneCompleted, OrderInv, ListInv, YieldInv, [Next]_vars
  PROVE  YieldInv'
BY GraphMoves, StillKeeps, CompleteKeepsYields, ExpandKeepsYields

LEMMA NoneIsLeft ==
  ASSUME OrderInv, ListInv, YieldInv, NEW t \in TaskIds, NEW p \in TaskIds,
         Before(t, p), p \in dependsOn[t], yieldedBy[t] # p, pc[t] # "idle"
  PROVE  \A y \in YieldedBy(p) : status[y] = "COMPLETED"
<1> DEFINE Open == {y \in YieldedBy(p) : status[y] # "COMPLETED"}
<1> SUFFICES ASSUME Open # {} PROVE FALSE
  OBVIOUS
<1>1. Open \in SUBSET Known
  BY NoTaskAssumption DEF YieldedBy, YieldInv
<1>2. IsFiniteSet(Open)
  <2> DEFINE n == Len(taskOrder)
  <2>1. n \in Nat /\ taskOrder \in [1..n -> TaskIds] /\ Known = {taskOrder[i] : i \in 1..n}
    BY LenProperties DEF ListInv, Listed
  <2>2. taskOrder \in Surjection(1..n, Known)
    BY <2>1 DEF Surjection
  <2>3. IsFiniteSet(Known)
    BY <2>1, <2>2, FS_Interval, FS_Surjection
  <2> QED BY <1>1, <2>3, FS_Subset
<1>3. Guarded(t, p)
  BY DEF YieldInv, MayStart
<1>4. \A y \in Open : \E z \in Open : y \in dependsOn[z]
  <2> SUFFICES ASSUME NEW y \in Open PROVE \E z \in Open : y \in dependsOn[z]
    OBVIOUS
  <2>1. y \notin dependsOn[t]
    BY DEF OrderInv, DispatchedAfterDeps
  <2>2. PICK z \in YieldedBy(p) : y \in dependsOn[z]
    BY <1>3, <2>1 DEF Guarded
  <2>3. status[z] # "COMPLETED"
    <3> SUFFICES ASSUME status[z] = "COMPLETED" PROVE FALSE
      OBVIOUS
    <3>1. z \in TaskIds /\ pc[z] # "idle"
      BY <2>2, NoTaskAssumption DEF YieldedBy, YieldInv
    <3> QED BY <2>2, <3>1 DEF OrderInv, DispatchedAfterDeps
  <2> QED BY <2>2, <2>3
<1> HIDE DEF Open
<1> QED BY <1>1, <1>2, <1>4, SomeTaskIsLast DEF OrderInv, IsValidGraph

\* Whoever stood behind a task when it yielded starts only when all that it yielded
\* has completed, not only the leaves (expandLocked): for all plans, yields within
\* yields and calls of Expand, as long as no worker hands a subtask over as
\* COMPLETED.
THEOREM SubtasksComplete ==
  ASSUME YieldsNoneCompleted
  PROVE  Spec => []SubtasksFirst
<1>1. Init => YieldInv
  BY YieldInit
<1>2. OrderInv /\ ListInv /\ YieldInv /\ [Next]_vars => YieldInv'
  BY YieldStep
<1>3. OrderInv /\ ListInv /\ YieldInv => SubtasksFirst
  <2> SUFFICES ASSUME OrderInv, ListInv, YieldInv,
                      NEW i \in DOMAIN taskOrder, NEW j \in DOMAIN taskOrder, i < j,
                      yieldedBy[taskOrder[j]] \in dependsOn[taskOrder[i]],
                      yieldedBy[taskOrder[i]] # yieldedBy[taskOrder[j]],
                      pc[taskOrder[i]] # "idle"
               PROVE  status[taskOrder[j]] = "COMPLETED"
    BY DEF SubtasksFirst
  <2> DEFINE t == taskOrder[i]
             y == taskOrder[j]
             p == yieldedBy[y]
  <2>1. t \in TaskIds /\ y \in TaskIds
    BY ElementOfSeq DEF ListInv
  <2>2. p \in TaskIds
    BY <2>1 DEF OrderInv, OrderTypes
  <2>3. Before(t, p)
    BY DEF Before
  <2>4. y \in YieldedBy(p)
    BY <2>1 DEF YieldedBy
  <2> HIDE DEF t, y, p
  <2>5. \A u \in YieldedBy(p) : status[u] = "COMPLETED"
    BY <2>1, <2>2, <2>3, NoneIsLeft DEF t, y, p
  <2> QED BY <2>4, <2>5 DEF y
<1> QED BY <1>1, <1>2, <1>3, OrderInvariant, ListInvariant, PTL DEF Spec

-----------------------------------------------------------------------------
(* Types                                                                   *)

ResultType == [status     : {"RUNNING", "COMPLETED", "WAITING_APPROVAL",
                             "FAILED_WITH_CHECKPOINT"},
               completed  : SUBSET TaskIds,
               skipped    : SUBSET TaskIds,
               waiting    : SUBSET TaskIds,
               failedTask : TaskIds \cup {NoTask}]

RestTypes == /\ result \in ResultType
             /\ wakeups \in 0..NotifyCap
             /\ ctx \in {"live", "cancelled", "deadline"}
             /\ yieldedBy \in [TaskIds -> TaskIds \cup {NoTask}]

\* Of some tasks of the graph one comes first in taskOrder.
LEMMA SomeTaskIsFirst ==
  ASSUME ListInv, NEW S \in SUBSET Known, S # {}
  PROVE  \E t \in S : IsFirst(t, S)
<1> DEFINE n == Len(taskOrder)
           I == {i \in 1..n : taskOrder[i] \in S}
<1>1. n \in Nat /\ DOMAIN taskOrder = 1..n
  BY LenProperties DEF ListInv
<1>2. I # {} /\ I \subseteq Nat
  <2>1. PICK t \in S : TRUE
    OBVIOUS
  <2>2. \E i \in 1..n : taskOrder[i] = t
    BY <2>1 DEF ListInv, Listed
  <2> QED
    BY <1>1, <2>1, <2>2
<1> HIDE DEF I
<1>3. PICK i \in I : \A j \in I : ~(<<j, i>> \in OpToRel(<, Nat))
  BY <1>2, WFMin, NatLessThanWellFounded
<1>4. i \in Nat /\ \A j \in I : ~(j < i)
  BY <1>2, <1>3 DEF OpToRel
<1>5. i \in 1..n /\ taskOrder[i] \in S
  BY DEF I
<1>6. ASSUME NEW j \in 1..(i - 1)
      PROVE  taskOrder[j] \notin S
  <2>1. j \in 1..n /\ j < i
    BY <1>1, <1>4, <1>5
  <2> QED
    BY <1>4, <2>1 DEF I
<1> QED
  BY <1>1, <1>5, <1>6 DEF IsFirst

LEMMA RunResultType ==
  ASSUME ListInv, NEW st,
         \A t \in TaskIds : st[t] = "ABSENT" <=> status[t] = "ABSENT"
  PROVE  RunResult(st) \in ResultType
<1> DEFINE known == {t \in TaskIds : st[t] # "ABSENT"}
           with(S) == {t \in known : st[t] \in S}
           failed == with({"FAILED", "TIMED_OUT"})
           first == CHOOSE t \in failed : IsFirst(t, failed)
<1>1. failed \in SUBSET Known
  BY DEF Known
<1>2. failed # {} => first \in TaskIds
  <2> HIDE DEF failed
  <2> SUFFICES ASSUME failed # {}
               PROVE  first \in TaskIds
    OBVIOUS
  <2>1. \E t \in failed : IsFirst(t, failed)
    BY <1>1, SomeTaskIsFirst
  <2>2. first \in failed
    BY <2>1
  <2> QED
    BY <1>1, <2>2 DEF Known
<1>3. \A S : with(S) \in SUBSET TaskIds
  OBVIOUS
<1>4. RunResult(st) =
        [status     |-> IF with({"WAITING_APPROVAL"}) # {} THEN "WAITING_APPROVAL"
                        ELSE IF failed # {} THEN "FAILED_WITH_CHECKPOINT"
                        ELSE "COMPLETED",
         completed  |-> with({"COMPLETED"}),
         skipped    |-> with({"SKIPPED"}),
         waiting    |-> with({"WAITING_APPROVAL"}),
         failedTask |-> IF with({"WAITING_APPROVAL"}) = {} /\ failed # {}
                        THEN first ELSE NoTask]
  BY DEF RunResult
<1> HIDE DEF with, failed, first
<1> QED
  BY <1>2, <1>3, <1>4 DEF ResultType

LEMMA NotifyType ==
  ASSUME wakeups \in 0..NotifyCap, Notify
  PROVE  wakeups' \in 0..NotifyCap
BY CapacityAssumption DEF Notify

LEMMA RestStep ==
  ASSUME OrderInv, ListInv, RestTypes, [Next]_vars
  PROVE  RestTypes'
<1>t. OrderTypes
  BY DEF OrderInv
<1>1. CASE FinishRun
  <2>1. \A t \in TaskIds : AfterPass[t] = "ABSENT" <=> status[t] = "ABSENT"
    BY <1>t, AfterPassEffect DEF LeftOrSkipped
  <2>2. result' \in ResultType
    BY <1>1, <2>1, RunResultType DEF FinishRun
  <2> QED
    BY <1>1, <2>2 DEF FinishRun, RestTypes
<1>2. CASE ReturnCancelled
  <2>1. result' \in ResultType
    BY <1>2, RunResultType DEF ReturnCancelled
  <2> QED
    BY <1>2, <2>1 DEF ReturnCancelled, RestTypes, graph
<1>3. CASE StartDispatch \/ Dispatch \/ PassOver \/ EndPass
  BY <1>3 DEF StartDispatch, Dispatch, PassOver, EndPass, RestTypes, graph
<1>4. CASE Wake
  <2>1. wakeups' \in 0..NotifyCap
    BY <1>4, CapacityAssumption DEF Wake, RestTypes
  <2> QED
    BY <1>4, <2>1 DEF Wake, RestTypes, graph
<1>5. ASSUME NEW t \in TaskIds, Answer(t) \/ Work(t)
      PROVE  RestTypes'
  <2>1. CASE Answer(t)
    BY <2>1 DEF Answer, Approve, Deny, ApprovalError, RestTypes, run
  <2>2. CASE AskApproval(t)
    BY <2>2, NotifyType DEF AskApproval, RestTypes, run
  <2>3. CASE SkipGate(t) \/ LockNext(t) \/ UnlockNext(t) \/ ReleaseSlot(t) \/ Report(t)
    BY <2>3 DEF SkipGate, LockNext, UnlockNext, ReleaseSlot, Report, RestTypes, run, graph
  <2>4. ASSUME NEW yielded \in Yields[t], Complete(t, yielded)
        PROVE  RestTypes'
    BY <2>4 DEF Complete, RestTypes, run
  <2>5. ASSUME NEW yielded \in Yields[t], RejectYield(t, yielded)
        PROVE  RestTypes'
    BY <2>5 DEF RejectYield, RestTypes, run
  <2>6. CASE HandlerError(t)
    BY <2>6 DEF HandlerError, RestTypes, run
  <2>7. CASE NotifyEnd(t)
    BY <2>7, NotifyType DEF NotifyEnd, RestTypes, run, graph
  <2> QED
    BY <1>5, <2>1, <2>2, <2>3, <2>4, <2>5, <2>6, <2>7 DEF Work
<1>6. ASSUME NEW e \in Expansions, Expand(e.parent, e.tasks)
      PROVE  RestTypes'
  BY <1>6, NotifyType DEF Expand, RestTypes, run
<1>7. CASE EndCtx
  BY <1>7, AnswersAssumption DEF EndCtx, RestTypes, run, graph
<1>8. CASE Terminated \/ UNCHANGED vars
  BY <1>8 DEF Terminated, vars, RestTypes
<1> QED
  BY <1>1, <1>2, <1>3, <1>4, <1>5, <1>6, <1>7, <1>8 DEF Next, RunLoop

\* Every variable of Scheduler stays in its type; for runningCount and the
\* capacity of s.notifyCh that is SlotInv and the guard of Notify.
THEOREM TypesHold == Spec => []TypeOK
<1>1. Init => RestTypes
  BY CapacityAssumption DEF Init, RestTypes, ResultType, NoResult
<1>2. OrderInv /\ ListInv /\ RestTypes /\ [Next]_vars => RestTypes'
  BY RestStep
<1>3. OrderInv /\ SlotInv /\ PathInv /\ ListInv /\ RestTypes => TypeOK
  <2> SUFFICES ASSUME OrderInv, SlotInv, PathInv, ListInv, RestTypes
               PROVE  TypeOK
    OBVIOUS
  <2>1. runningCount \in Nat
    BY FS_CardinalityType DEF SlotInv
  <2>2. sem \in SUBSET TaskIds
    BY DEF SlotInv
  <2> QED
    BY <2>1, <2>2
       DEF OrderInv, OrderTypes, PCs, PathInv, ListInv, RestTypes, ResultType, TypeOK
<1> QED
  BY <1>1, <1>2, <1>3, OrderInvariant, SlotInvariant, PathInvariant, ListInvariant, PTL
     DEF Spec
=============================================================================
