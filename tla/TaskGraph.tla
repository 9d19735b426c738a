----------------------------- MODULE TaskGraph -----------------------------
(***************************************************************************)
(* The pure vocabulary of internal/dag: task statuses, task lists as the   *)
(* planner and the workers hand them over, what a valid dependency graph   *)
(* is, which tasks are ready, which ones a failure takes down, and what    *)
(* yielding subtasks does to the dependencies of the tasks downstream.     *)
(*                                                                         *)
(* The graph of a scheduler is a pair of functions over TaskIds, the       *)
(* universe of IDs: status[t] is "ABSENT" as long as t is not a key of the *)
(* map s.tasks, and dependsOn[t] is the set of IDs in its DependsOn list.  *)
(* That a list may name a dependency twice matters to ValidateAcyclic      *)
(* alone, and module KahnSort keeps the lists as they are.                 *)
(***************************************************************************)
EXTENDS Naturals, Sequences, FiniteSets

CONSTANTS TaskIds,  \* the IDs a task may have
          NoTask    \* the empty ID ""

ASSUME NoTaskAssumption == NoTask \notin TaskIds

TaskStatus == {"PENDING", "RUNNING", "WAITING_APPROVAL", "COMPLETED",
               "FAILED", "TIMED_OUT", "SKIPPED"}

\* What a planner or a worker hands over; a JSON object may leave out "status".
Task == [id        : TaskIds \cup {NoTask},
         dependsOn : SUBSET TaskIds,
         status    : TaskStatus \cup {""}]

StatusOf(task) == IF task.status = "" THEN "PENDING" ELSE task.status

-----------------------------------------------------------------------------
(* Task lists                                                              *)

Ids(tasks) == {tasks[i].id : i \in DOMAIN tasks}

TaskNamed(tasks, id) == tasks[CHOOSE i \in DOMAIN tasks : tasks[i].id = id]

HasDuplicateId(tasks) ==
  \E i, j \in DOMAIN tasks : i # j /\ tasks[i].id = tasks[j].id

-----------------------------------------------------------------------------
(* Valid graphs                                                            *)

\* There is no set of tasks each of which depends on a member of it.
IsAcyclic(ids, dependsOn) ==
  ~\E S \in SUBSET ids : S # {} /\ \A t \in S : dependsOn[t] \cap S # {}

IsValidGraph(ids, dependsOn) ==
  /\ \A t \in ids : dependsOn[t] \subseteq ids
  /\ IsAcyclic(ids, dependsOn)

\* The task lists ValidateAcyclic accepts.
ValidateAcyclic(tasks) ==
  /\ ~HasDuplicateId(tasks)
  /\ IsValidGraph(Ids(tasks),
                  [t \in Ids(tasks) |-> TaskNamed(tasks, t).dependsOn])

-----------------------------------------------------------------------------
(* Readiness and failure                                                   *)

\* Mutant: a dependency that has started is good enough.
IsReady_DepStarted(t, status, dependsOn) ==
  /\ status[t] = "PENDING"
  /\ \A d \in dependsOn[t] : status[d] \in {"RUNNING", "COMPLETED"}

\* isTaskReadyLocked, for a task still pending.
IsReady(t, status, dependsOn) ==
  /\ status[t] = "PENDING"
  /\ \A d \in dependsOn[t] : status[d] = "COMPLETED"

\* The tasks cascadeSkipsLocked may touch.
Skippable(status) ==
  {t \in TaskIds : status[t] \in {"PENDING", "WAITING_APPROVAL"}}

\* C holds every skippable task that depends on a root or on a member of C.
ClosedUnderImpact(C, roots, status, dependsOn) ==
  \A t \in Skippable(status) : dependsOn[t] \cap (roots \cup C) # {} => t \in C

\* The tasks skipped because the roots failed: the least such set, reached in
\* the code by breadth-first search.
Impacted(roots, status, dependsOn) ==
  {t \in Skippable(status) :
     \A C \in SUBSET Skippable(status) :
        ClosedUnderImpact(C, roots, status, dependsOn) => t \in C}

\* cascadeSkipsLocked, once the roots themselves have their final status.
CascadeSkips(roots, status, dependsOn) ==
  LET skipped == Impacted(roots, status, dependsOn)
  IN  [t \in TaskIds |-> IF t \in skipped THEN "SKIPPED" ELSE status[t]]

-----------------------------------------------------------------------------
(* Dynamic expansion (expandLocked)                                        *)

\* Mutant: the roots of the yielded graph in place of its leaves.
Leaves_Roots(yielded) ==
  {id \in Ids(yielded) :
     TaskNamed(yielded, id).dependsOn \cap Ids(yielded) = {}}

\* The yielded tasks no other yielded task depends on.
Leaves(yielded) ==
  Ids(yielded) \ UNION {yielded[i].dependsOn : i \in DOMAIN yielded}

\* A yielded task that names no dependency depends on the task that yielded
\* it; a pending task that depends on that task now waits for the leaves too.
Rewire(parent, yielded, status, dependsOn) ==
  [t \in TaskIds |->
     IF t \in Ids(yielded) THEN
       LET own == TaskNamed(yielded, t).dependsOn
       IN  IF own = {} /\ parent # NoTask THEN {parent} ELSE own
     ELSE IF status[t] = "PENDING" /\ t # parent /\ parent \in dependsOn[t]
       THEN dependsOn[t] \cup Leaves(yielded)
       ELSE dependsOn[t]]

\* Mutant: the hypothetical graph is not validated.
CanExpand_Unvalidated(parent, yielded, status, dependsOn) ==
  LET known == {t \in TaskIds : status[t] # "ABSENT"}
  IN  \/ yielded = <<>>
      \/ Ids(yielded) \subseteq TaskIds \ known /\ ~HasDuplicateId(yielded)

\* expandLocked returns nil.
CanExpand(parent, yielded, status, dependsOn) ==
  LET known == {t \in TaskIds : status[t] # "ABSENT"}
  IN  \/ yielded = <<>>
      \/ /\ Ids(yielded) \subseteq TaskIds \ known
         /\ ~HasDuplicateId(yielded)
         /\ IsValidGraph(known \cup Ids(yielded),
                         Rewire(parent, yielded, status, dependsOn))

Insert(yielded, status) ==
  [t \in TaskIds |-> IF t \in Ids(yielded) THEN StatusOf(TaskNamed(yielded, t))
                                           ELSE status[t]]
=============================================================================
