-------------------------- MODULE TaskGraphProofs --------------------------
(* Lemmas on the operators of TaskGraph.                                   *)
EXTENDS TaskGraph, SequenceTheorems, TLAPS

\* The set of tasks a failure takes down is closed: nothing that depends on a
\* member and may be skipped is left out (the search of cascadeSkipsLocked
\* goes all the way).
LEMMA ImpactedIsClosed ==
  ASSUME NEW roots, NEW st, NEW deps
  PROVE  ClosedUnderImpact(Impacted(roots, st, deps), roots, st, deps)
<1> DEFINE I == Impacted(roots, st, deps)
<1> SUFFICES ASSUME NEW t \in Skippable(st), deps[t] \cap (roots \cup I) # {}
             PROVE  t \in I
  BY DEF ClosedUnderImpact
<1> SUFFICES ASSUME NEW C \in SUBSET Skippable(st),
                    ClosedUnderImpact(C, roots, st, deps)
             PROVE  t \in C
  BY DEF Impacted
<1>1. I \subseteq C
  BY DEF Impacted
<1>2. deps[t] \cap (roots \cup C) # {}
  BY <1>1
<1> QED
  BY <1>2 DEF ClosedUnderImpact

\* No task is skipped without a cause: one of its dependencies is a root of the
\* failure or is itself skipped by it.
LEMMA ImpactedHasCause ==
  ASSUME NEW roots, NEW st, NEW deps, NEW t \in Impacted(roots, st, deps)
  PROVE  deps[t] \cap (roots \cup Impacted(roots, st, deps)) # {}
<1> DEFINE I == Impacted(roots, st, deps)
           C == I \ {t}
<1> SUFFICES ASSUME deps[t] \cap (roots \cup I) = {}
             PROVE  FALSE
  OBVIOUS
<1>1. C \in SUBSET Skippable(st)
  BY DEF Impacted
<1>2. ClosedUnderImpact(C, roots, st, deps)
  <2> SUFFICES ASSUME NEW u \in Skippable(st), deps[u] \cap (roots \cup C) # {}
               PROVE  u \in C
    BY DEF ClosedUnderImpact
  <2>1. deps[u] \cap (roots \cup I) # {}
    OBVIOUS
  <2>2. u \in I
    BY <2>1, ImpactedIsClosed DEF ClosedUnderImpact
  <2> QED
    BY <2>1, <2>2
<1> QED
  BY <1>1, <1>2 DEF Impacted

\* What cascadeSkipsLocked does to one task: nothing, or it skips a task that
\* had not started and that depends on a root or on a skipped task.
LEMMA CascadeSkipsEffect ==
  ASSUME NEW roots, NEW st, NEW deps, NEW t \in TaskIds
  PROVE  LET after == CascadeSkips(roots, st, deps)
         IN  \/ after[t] = st[t]
             \/ /\ st[t] \in {"PENDING", "WAITING_APPROVAL"}
                /\ after[t] = "SKIPPED"
                /\ \E d \in deps[t] : d \in roots \/ (d \in TaskIds /\ after[d] = "SKIPPED")
<1> DEFINE I == Impacted(roots, st, deps)
           after == CascadeSkips(roots, st, deps)
<1> SUFFICES ASSUME t \in I
             PROVE  /\ st[t] \in {"PENDING", "WAITING_APPROVAL"}
                    /\ after[t] = "SKIPPED"
                    /\ \E d \in deps[t] : d \in roots \/ (d \in TaskIds /\ after[d] = "SKIPPED")
  BY DEF CascadeSkips
<1>1. \A u \in I : /\ u \in TaskIds
                   /\ st[u] \in {"PENDING", "WAITING_APPROVAL"}
                   /\ after[u] = "SKIPPED"
  BY DEF CascadeSkips, Impacted, Skippable
<1>2. PICK d \in deps[t] : d \in roots \/ d \in I
  BY ImpactedHasCause
<1> QED
  BY <1>1, <1>2

-----------------------------------------------------------------------------
(* Expansion                                                               *)

LEMMA TaskNamedType ==
  ASSUME NEW tasks \in Seq(Task), NEW id \in Ids(tasks)
  PROVE  TaskNamed(tasks, id) \in Task
<1>1. PICK i \in DOMAIN tasks : tasks[i].id = id
  BY DEF Ids
<1>2. \A j \in DOMAIN tasks : tasks[j] \in Task
  BY ElementOfSeq
<1> QED
  BY <1>1, <1>2 DEF TaskNamed

\* An empty yield changes nothing.
LEMMA EmptyExpansion ==
  ASSUME NEW parent,
         NEW st, st = [t \in TaskIds |-> st[t]],
         NEW deps, deps = [t \in TaskIds |-> deps[t]]
  PROVE  /\ Ids(<<>>) = {}
         /\ Insert(<<>>, st) = st
         /\ Rewire(parent, <<>>, st, deps) = deps
<1>1. Ids(<<>>) = {}
  BY DEF Ids
<1>2. Leaves(<<>>) = {}
  BY <1>1 DEF Leaves
<1>3. Insert(<<>>, st) = [t \in TaskIds |-> st[t]]
  BY <1>1 DEF Insert
<1>4. \A t \in TaskIds : Rewire(parent, <<>>, st, deps)[t] = deps[t]
  BY <1>1, <1>2 DEF Rewire
<1>5. Rewire(parent, <<>>, st, deps) = [t \in TaskIds |-> Rewire(parent, <<>>, st, deps)[t]]
  BY DEF Rewire
<1>6. Rewire(parent, <<>>, st, deps) = [t \in TaskIds |-> deps[t]]
  BY <1>4, <1>5
<1> QED
  BY <1>1, <1>3, <1>6

LEMMA ExpansionIsFresh ==
  ASSUME NEW parent, NEW yielded, NEW st, NEW deps,
         CanExpand(parent, yielded, st, deps)
  PROVE  /\ Ids(yielded) \subseteq TaskIds
         /\ \A t \in Ids(yielded) : st[t] = "ABSENT"
<1>1. CASE yielded = <<>>
  BY <1>1 DEF Ids
<1>2. CASE yielded # <<>>
  BY <1>2 DEF CanExpand
<1> QED
  BY <1>1, <1>2

\* An accepted expansion adds tasks and leaves those that were there as they
\* are, but for the dependencies of pending ones, which only grow.
LEMMA ExpansionEffect ==
  ASSUME NEW parent, NEW yielded, NEW st, NEW deps,
         CanExpand(parent, yielded, st, deps),
         NEW t \in TaskIds, st[t] # "ABSENT"
  PROVE  /\ Insert(yielded, st)[t] = st[t]
         /\ deps[t] \subseteq Rewire(parent, yielded, st, deps)[t]
         /\ st[t] # "PENDING" => Rewire(parent, yielded, st, deps)[t] = deps[t]
<1>1. t \notin Ids(yielded)
  BY ExpansionIsFresh
<1> QED
  BY <1>1 DEF Insert, Rewire

LEMMA ExpansionType ==
  ASSUME NEW parent \in TaskIds \cup {NoTask}, NEW yielded \in Seq(Task),
         NEW st \in [TaskIds -> TaskStatus \cup {"ABSENT"}],
         NEW deps \in [TaskIds -> SUBSET TaskIds],
         CanExpand(parent, yielded, st, deps)
  PROVE  /\ Insert(yielded, st) \in [TaskIds -> TaskStatus \cup {"ABSENT"}]
         /\ Rewire(parent, yielded, st, deps) \in [TaskIds -> SUBSET TaskIds]
<1>1. \A id \in Ids(yielded) : StatusOf(TaskNamed(yielded, id)) \in TaskStatus
  BY TaskNamedType DEF StatusOf, Task, TaskStatus
<1>2. Leaves(yielded) \subseteq TaskIds
  BY ExpansionIsFresh DEF Leaves
<1>3. \A id \in Ids(yielded) : TaskNamed(yielded, id).dependsOn \subseteq TaskIds
  BY TaskNamedType DEF Task
<1>4. Insert(yielded, st) \in [TaskIds -> TaskStatus \cup {"ABSENT"}]
  BY <1>1 DEF Insert
<1>5. ASSUME NEW t \in TaskIds
      PROVE  Rewire(parent, yielded, st, deps)[t] \subseteq TaskIds
  BY <1>2, <1>3 DEF Rewire
<1>6. Rewire(parent, yielded, st, deps)
        = [t \in TaskIds |-> Rewire(parent, yielded, st, deps)[t]]
  BY DEF Rewire
<1> QED
  BY <1>4, <1>5, <1>6

\* The set of known tasks after an expansion, and the validity of the graph.
LEMMA ExpansionIsValid ==
  ASSUME NEW parent \in TaskIds \cup {NoTask}, NEW yielded \in Seq(Task),
         NEW st \in [TaskIds -> TaskStatus \cup {"ABSENT"}],
         NEW deps \in [TaskIds -> SUBSET TaskIds],
         IsValidGraph({t \in TaskIds : st[t] # "ABSENT"}, deps),
         CanExpand(parent, yielded, st, deps)
  PROVE  LET known == {t \in TaskIds : st[t] # "ABSENT"}
             after == {t \in TaskIds : Insert(yielded, st)[t] # "ABSENT"}
         IN  /\ after = known \cup Ids(yielded)
             /\ IsValidGraph(after, Rewire(parent, yielded, st, deps))
<1> DEFINE known == {t \in TaskIds : st[t] # "ABSENT"}
           after == {t \in TaskIds : Insert(yielded, st)[t] # "ABSENT"}
<1>1. \A id \in Ids(yielded) : StatusOf(TaskNamed(yielded, id)) # "ABSENT"
  BY TaskNamedType DEF StatusOf, Task, TaskStatus
<1>2. after = known \cup Ids(yielded)
  BY <1>1, ExpansionIsFresh DEF Insert
<1>3. CASE yielded = <<>>
  <2>1. Insert(yielded, st) = st /\ Rewire(parent, yielded, st, deps) = deps
    BY <1>3, EmptyExpansion
  <2> QED
    BY <1>2, <2>1
<1>4. CASE yielded # <<>>
  BY <1>2, <1>4 DEF CanExpand
<1> QED
  BY <1>2, <1>3, <1>4
=============================================================================
