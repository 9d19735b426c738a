---------------------------- MODULE RunContract ----------------------------
(***************************************************************************)
(* What the store promises about the tasks of a run, whatever processes    *)
(* start, crash and resume: which records a task may go through, and that  *)
(* work begins only behind finished work.  Nothing is said of executors,   *)
(* snapshots or schedulers.  Checkpoint implements Spec.                   *)
(***************************************************************************)
CONSTANT TaskIds

VARIABLES row,      \* the recorded status of each task, or "ABSENT"
          rowDeps,  \* the recorded dependencies
          done      \* the tasks whose work once succeeded

vars == <<row, rowDeps, done>>

Init == /\ row \in [TaskIds -> {"ABSENT", "COMPLETED"}]
        /\ rowDeps = [t \in TaskIds |-> {}]
        /\ done = {t \in TaskIds : row[t] = "COMPLETED"}

\* Finished and skipped tasks keep their record ("completed and skipped tasks
\* are never re-executed"); a task is put to work, or before a human, only when
\* all it is recorded to depend on was done; only work that succeeded is
\* recorded as such; a new record is that of a pending task.
MayRecord(t) ==
  \/ row'[t] = row[t]
  \/ /\ row[t] = "ABSENT"
     /\ row'[t] = "PENDING"
  \/ /\ row[t] \in {"PENDING", "RUNNING", "WAITING_APPROVAL", "FAILED"}
     /\ \/ row'[t] = "RUNNING" /\ rowDeps[t] \subseteq done
        \/ row'[t] = "WAITING_APPROVAL" /\ rowDeps[t] \subseteq done
        \/ row'[t] = "COMPLETED" /\ t \in done
        \/ row'[t] \in {"FAILED", "SKIPPED"}
        \/ row[t] = "WAITING_APPROVAL" /\ row'[t] = "PENDING"

Next == /\ \A t \in TaskIds :
             /\ MayRecord(t)
             /\ rowDeps'[t] = rowDeps[t] \/ row[t] = "ABSENT"
        /\ done \subseteq done'

Spec == Init /\ [][Next]_vars
=============================================================================
