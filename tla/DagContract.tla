---------------------------- MODULE DagContract ----------------------------
(***************************************************************************)
(* What dag.Scheduler promises about each task, with nothing said of its   *)
(* goroutines, slots, locks and channels: how a task may move from status  *)
(* to status, what must hold of its dependencies when it does, and when    *)
(* its dependencies may still change.  Scheduler implements Spec.          *)
(***************************************************************************)
EXTENDS TaskGraph

VARIABLES status, dependsOn

vars == <<status, dependsOn>>

\* A run starts from any valid graph: with fresh tasks, or with the statuses a
\* checkpoint kept.
Init == /\ status \in [TaskIds -> TaskStatus \cup {"ABSENT"}]
        /\ dependsOn \in [TaskIds -> SUBSET TaskIds]
        /\ IsValidGraph({t \in TaskIds : status[t] # "ABSENT"}, dependsOn)

\* A task starts, or is put before a human, only when all of its dependencies
\* have completed.
DepsCompleted(t) == \A d \in dependsOn[t] : status[d] = "COMPLETED"

\* A task is skipped only because something it depends on failed, timed out
\* or was itself skipped.
HasCause(t) == \E d \in dependsOn[t] :
                  status'[d] \in {"FAILED", "TIMED_OUT", "SKIPPED"}

MayMove(t) ==
  \/ status'[t] = status[t]
  \/ status[t] = "ABSENT"
  \/ /\ status[t] = "PENDING"
     /\ status'[t] \in {"RUNNING", "WAITING_APPROVAL"}
     /\ DepsCompleted(t)
  \/ /\ status[t] = "RUNNING"
     /\ status'[t] \in {"WAITING_APPROVAL", "COMPLETED", "FAILED", "TIMED_OUT"}
  \/ /\ status[t] = "WAITING_APPROVAL"
     /\ status'[t] \in {"RUNNING", "FAILED"}
     /\ DepsCompleted(t)
  \/ /\ status[t] \in {"PENDING", "WAITING_APPROVAL"}
     /\ status'[t] = "SKIPPED"
     /\ HasCause(t)

\* Dependencies are only added, and only to a task that has not begun.
MayRewire(t) ==
  \/ dependsOn'[t] = dependsOn[t]
  \/ status[t] = "ABSENT"
  \/ status[t] = "PENDING" /\ dependsOn[t] \subseteq dependsOn'[t]

Next == /\ status' \in [TaskIds -> TaskStatus \cup {"ABSENT"}]
        /\ \A t \in TaskIds : MayMove(t) /\ MayRewire(t)
        /\ IsValidGraph({t \in TaskIds : status'[t] # "ABSENT"}, dependsOn')

Spec == Init /\ [][Next]_vars
=============================================================================
