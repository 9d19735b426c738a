------------------------------ MODULE KahnSort ------------------------------
(***************************************************************************)
(* dag.ValidateAcyclic: Kahn's algorithm over a task list as it is given,  *)
(* with its duplicate IDs, unknown dependencies and dependencies named     *)
(* twice.  An ID is its rank in lexicographic order, and the queue, which  *)
(* the code sorts after every insertion, is the set of its elements taken  *)
(* from the least.                                                         *)
(***************************************************************************)
EXTENDS Naturals, Integers, Sequences, FiniteSets

CONSTANTS Ranks,     \* ranks of the IDs in use
          Inputs   \* task lists: sequences of [id, dependsOn]

RanksAssumption == Ranks \subseteq Nat
InputsAssumption ==
  Inputs \subseteq Seq([id : Ranks, dependsOn : Seq(Ranks)])

VARIABLES tasks,     \* the argument
          pc,        \* "check", "loop" or "done"
          inDegree,  \* edges into each task that are not yet taken
          queue,     \* tasks without such an edge, to be taken
          order,     \* tasks taken
          result     \* "none", "ok", "duplicate", "unknown" or "cycle"

vars == <<tasks, pc, inDegree, queue, order, result>>

Listed == {tasks[i].id : i \in DOMAIN tasks}

\* taskMap[id].DependsOn
DependsOn(id) == tasks[CHOOSE i \in DOMAIN tasks : tasks[i].id = id].dependsOn

Mentions(u, v) == {i \in DOMAIN DependsOn(v) : DependsOn(v)[i] = u}

\* How many edges adj has from u to v: one for each mention.
Edges(u, v) == Cardinality(Mentions(u, v))

Least(S) == CHOOSE x \in S : \A y \in S : x <= y

Init == /\ tasks \in Inputs
        /\ pc = "check"
        /\ inDegree = <<>>
        /\ queue = {}
        /\ order = <<>>
        /\ result = "none"

Return(r) == pc' = "done" /\ result' = r

HasDuplicate == \E i, j \in DOMAIN tasks : i # j /\ tasks[i].id = tasks[j].id
HasUnknown == \E i \in DOMAIN tasks : \E k \in DOMAIN tasks[i].dependsOn :
                 tasks[i].dependsOn[k] \notin Listed

Reject == /\ pc = "check"
          /\ HasDuplicate \/ HasUnknown
          /\ Return(IF HasDuplicate THEN "duplicate" ELSE "unknown")
          /\ UNCHANGED <<tasks, inDegree, queue, order>>

CountEdges == /\ pc = "check"
              /\ ~HasDuplicate /\ ~HasUnknown
              /\ inDegree' = [id \in Listed |-> Len(DependsOn(id))]
              /\ queue' = {id \in Listed : DependsOn(id) = <<>>}
              /\ pc' = "loop"
              /\ UNCHANGED <<tasks, order, result>>

\* One turn of the loop over the queue, with the loop over the neighbors.
Take ==
  /\ pc = "loop"
  /\ queue # {}
  /\ LET u == Least(queue)
         left == [v \in Listed |-> inDegree[v] - Edges(u, v)]
     IN  /\ order' = Append(order, u)
         /\ inDegree' = left
         /\ queue' = (queue \ {u})
                     \cup {v \in Listed : Edges(u, v) > 0 /\ left[v] = 0}
  /\ UNCHANGED <<tasks, pc, result>>

Finish == /\ pc = "loop"
          /\ queue = {}
          /\ Return(IF Len(order) < Len(tasks) THEN "cycle" ELSE "ok")
          /\ UNCHANGED <<tasks, inDegree, queue, order>>

Terminated == pc = "done" /\ UNCHANGED vars

Next == Reject \/ CountEdges \/ Take \/ Finish \/ Terminated

Spec == Init /\ [][Next]_vars

-----------------------------------------------------------------------------
(* Properties                                                              *)

Graph == INSTANCE TaskGraph WITH TaskIds <- Ranks, NoTask <- "none"

\* The argument as the scheduler's model sees it.
AsTaskList ==
  [i \in DOMAIN tasks |->
     [id |-> tasks[i].id,
      dependsOn |-> {tasks[i].dependsOn[k] : k \in DOMAIN tasks[i].dependsOn},
      status |-> ""]]

\* The algorithm accepts exactly the lists whose graph is valid by definition:
\* no duplicate, no unknown dependency, no set of tasks that wait for each
\* other; a dependency named twice makes no difference.
AcceptsValidGraphs ==
  pc = "done" => (result = "ok" <=> Graph!ValidateAcyclic(AsTaskList))

Taken(n) == {order[k] : k \in 1..n}

\* Each task in the result comes after its dependencies, and among those that
\* could come next it is the least ID: the result depends on the graph alone,
\* never on how the planner listed the tasks ("For deterministic order").
OrderIsCanonical ==
  \A n \in DOMAIN order :
     order[n] = Least({id \in Listed \ Taken(n - 1) :
                         \A k \in DOMAIN DependsOn(id) :
                            DependsOn(id)[k] \in Taken(n - 1)})

\* Valid graphs are accepted, no others, and each has one order.
SortIsSound == AcceptsValidGraphs /\ OrderIsCanonical
=============================================================================
