---------------------------- MODULE MCCheckpoint ----------------------------
(***************************************************************************)
(* Small instances of Checkpoint.  Each .cfg picks a plan, what handlers   *)
(* may yield and what may go wrong.                                        *)
(***************************************************************************)
EXTENDS Checkpoint

EmptyId == ""

T(id, deps) == [id |-> id, dependsOn |-> deps, status |-> ""]

\* p, which may yield, r behind it, and q on its own.
YieldPlan == <<T("p", {}), T("r", {"p"}), T("q", {})>>

\* The planner names q as finished, and nobody has worked on it.
PlannedPlan == <<T("p", {}), T("r", {"p"}), [T("q", {}) EXCEPT !.status = "COMPLETED"]>>

PairPlan == <<T("p", {}), T("r", {"p"})>>

NoYields == [t \in TaskIds |-> {<<>>}]
SubtaskYields == [NoYields EXCEPT !["p"] = {<<>>, <<T("s", {})>>}]
CycleYields == [NoYields EXCEPT !["p"] = {<<T("s", {})>>, <<T("s", {"s"})>>}]

-----------------------------------------------------------------------------
(* Whether no process that executed the run has died until now.            *)

VARIABLE graceful

MCInit == Init /\ graceful = TRUE
MCNext == \/ Graceful /\ UNCHANGED graceful
          \/ (\E e \in Execs : Stop(e)) /\ graceful' = FALSE
MCSpec == MCInit /\ [][MCNext]_<<vars, graceful>>

\* Bound: once no call of Resume is left, nobody reopens a run at rest.
RestsAtLast ==
  restarts = MaxRestarts /\ (\A e \in Execs : phase[e] = "idle") => UNCHANGED runStatus
MCFairSpec == MCInit /\ [][MCNext /\ RestsAtLast]_<<vars, graceful>> /\ Fairness

\* A run that only ends, fails or pauses by itself, however often it is resumed
\* and whichever deadlines pass, finds its inputs again, and is whole when it is
\* frozen: the write without a snapshot is always followed by one with it.
\* After a crash neither holds.
PausesLoseNothing == TypeOK /\ (graceful => InputsRestored /\ FrozenIsWhole)
=============================================================================
