---------------------------- MODULE MCScheduler ----------------------------
(***************************************************************************)
(* Small instances of Scheduler.  Each .cfg picks a set of plans, what the *)
(* handlers may yield and the attributes of the tasks.                     *)
(***************************************************************************)
EXTENDS Scheduler, TLC

EmptyId == ""

T(id, deps) == [id |-> id, dependsOn |-> deps, status |-> ""]
TS(id, deps, st) == [id |-> id, dependsOn |-> deps, status |-> st]

NoYields == [t \in TaskIds |-> {<<>>}]
NoPaths == [t \in TaskIds |-> {}]
AllAnswers == {"approved", "denied", "error"}

MCSpellings == {"a.go", "./a.go", "b.go", "c.go"}
MCPaths == 1..3
MCClean == ("a.go" :> 1) @@ ("./a.go" :> 1) @@ ("b.go" :> 2) @@ ("c.go" :> 3)

-----------------------------------------------------------------------------
(* Map and reduce: p yields subtasks before r may run, and s1 yields again.*)

ExpandPlans == {<<T("p", {}), T("r", {"p"})>>, <<T("r", {"p"}), T("p", {})>>}

ExpandYields ==
  [t \in TaskIds |->
     CASE t = "p" -> {<<>>,
                      <<T("s1", {}), T("s2", {})>>,           \* fan out
                      <<T("s2", {"s1"}), T("s1", {})>>,       \* a chain
                      <<T("s1", {"r"})>>,                     \* a cycle
                      <<T("s1", {"s2"}), T("s2", {"s1"})>>,   \* a cycle
                      <<T("s1", {}), T("s1", {"p"})>>,        \* a duplicate
                      <<T("s1", {"s2"})>>,                    \* unknown
                      <<T("r", {})>>, <<T("", {})>>}          \* taken, empty
       [] t = "s1" -> {<<>>, <<T("x", {})>>}
       [] OTHER -> {<<>>}]

ExpandCalls == {[parent |-> "p", tasks |-> <<T("x", {})>>],
                [parent |-> "",  tasks |-> <<T("x", {"r"})>>]}

-----------------------------------------------------------------------------
(* Every graph over three tasks that is listed in order, in every          *)
(* checkpointed state.                                                     *)

GraphPlans ==
  {<<TS("a", {}, sa), TS("b", db, sb), TS("c", dc, sc)>> :
     db \in SUBSET {"a"}, dc \in SUBSET {"a", "b"},
     sa, sb, sc \in {"", "COMPLETED", "SKIPPED"}}

-----------------------------------------------------------------------------
(* Two gated tasks g and h, a that does not depend on them and b that does.*)

GatePlans == {<<T("g", {}), T("h", {}), T("a", {}), T("b", {"h"})>>}

GatePaths == [t \in TaskIds |-> CASE t = "a" -> {"a.go", "b.go"}
                                  [] t = "g" -> {"b.go", "./a.go"}
                                  [] OTHER -> {}]

-----------------------------------------------------------------------------
(* A worker's JSON sets the "status" of the subtask it yields.             *)

StatusPlans == {<<T("p", {}), T("r", {"p"})>>}

StatusYields ==
  [t \in TaskIds |-> IF t = "p" THEN {<<>>, <<TS("s1", {}, "RUNNING")>>}
                                ELSE {<<>>}]

-----------------------------------------------------------------------------
(* Three tasks whose paths overlap pairwise.                               *)

LockPlans == {<<T("a", {}), T("b", {}), T("c", {})>>,
              <<T("a", {}), T("b", {}), T("c", {"a"})>>}

OverlappingPaths ==
  [t \in TaskIds |-> CASE t = "a" -> {"c.go", "a.go"}
                       [] t = "b" -> {"b.go", "./a.go", "a.go"}
                       [] t = "c" -> {"c.go", "b.go"}
                       [] OTHER -> {}]

=============================================================================
