------------------------------ MODULE MCSurface ------------------------------
(***************************************************************************)
(* What users, programs and hosts meet: the client, sessions and their     *)
(* grants, events, facts, prompts, the MCP server, the planner and the     *)
(* rules, each with bounds of its own, in one run.  part says whose turn   *)
(* it is, for good, so that the states of the parts add up and do not      *)
(* multiply.  The constants of all parts take their values from the .cfg.  *)
(***************************************************************************)
EXTENDS Client, Sequences, TLC

CONSTANTS
  Sessions, Caps, Wildcards, Enders, EnderOf, Checkers, MaxGrants, MaxChecks, MaxGiveUps,
  Tasks, Watchers, BufferSize, MayAbort,
  Gated, GatePlans,
  MaxLines, Methods,
  TaskIds, NoTask, FlatPlans, Garbage, MaxReflectionAttempts,
  Ranks, Inputs,
  Candidates, MaxEdits, MaxResumes,
  MemorySessions, Topics, FactContents, FactIds, CleanTopic, ToLower, FactId, TaskOutputs,
    Manual, MaxSaveFailures, MaxClock, Absent

VARIABLES part,
  status, summary, endedAt, allowlist, sessionGrants, actionGrants, ending,
    checking, wanted, given, spent, granted, grants, checks, giveUps,
  tStage, left, sending, subs, closed, buf, tSeen, aborted, cli,
  facts, call, todo, returned, stamp, saved, clock, failures,
  dependsOn, gate, shown, typed, meant, pEof,
  sent, read, mAt, calling, out, mEof,
  at, reply, reflectionAttempts, feedback, replies, ended, result,
  tasks, kPc, inDegree, queue, order, kResult,
  flags, file, rStage, next, opened, frozen, used, found, calm, first, edits, resumes

Grants == INSTANCE Sessions
Events == INSTANCE Telemetry WITH stage <- tStage, seen <- tSeen
Gates == INSTANCE Prompts WITH Tasks <- Gated, Plans <- GatePlans, eof <- pEof
Mcp == INSTANCE McpServer WITH at <- mAt, eof <- mEof
Plans == INSTANCE Planner WITH Plans <- FlatPlans
Kahn == INSTANCE KahnSort WITH pc <- kPc, result <- kResult
Cascade == INSTANCE Rules WITH stage <- rStage
Memo == INSTANCE Memory WITH
  Sessions <- MemorySessions, Contents <- FactContents, Ids <- FactIds,
  Clean <- CleanTopic, Fold <- ToLower, IdOf <- FactId, Outputs <- TaskOutputs, MaxFailures <- MaxSaveFailures

-----------------------------------------------------------------------------
(* Values                                                                  *)

\* Two calls end one session.
MCEnderOf == [e \in Enders |-> "s1"]

\* "decisions" is cleaned to "decision"; the content is there in two spellings.
\* Both sessions have outputs with facts alike; the first also between its tasks.
MCTopics == {"decision", "decisions", "db"}
MCContents == {"use wal", "Use WAL", "x:y", "y"}
MCIds == MCTopics \X MCContents
MCCleanTopic == [t \in MCTopics |-> IF t = "decisions" THEN "decision" ELSE t]
MCToLower == [c \in MCContents |-> IF c = "Use WAL" THEN "use wal" ELSE c]
MCFactId == [p \in MCIds |-> p]
Item(k, t, c) == [kind |-> k, topic |-> t, content |-> c]
Plain == <<Item("text", "decisions", "use wal"), Item("array", "db", "y")>>
Upper == <<Item("text", "decision", "Use WAL"), Item("text", "decision", "y")>>
MCTaskOutputs == "s1" :> ("a" :> Plain @@ "b" :> Upper) @@ "s2" :> ("a" :> Plain)
MCManual == {Item("text", "decision", "use wal"), Item("text", "db", "x:y")}

\* Gated tasks one after the other, in any order, or all at once.
Before(o, t) == {u \in Gated : o[u] < o[t]}
Chains == {[t \in Gated |-> Before(o, t)] :
             o \in {f \in [Gated -> 1..3] : \A t, u \in Gated : f[t] = f[u] => t = u}}
MCGatePlans == Chains \cup {[t \in Gated |-> {}]}

MCTask(id, deps, keys) == [id |-> id, dependsOn |-> deps, outputKeys |-> keys,
                           hasAction |-> TRUE]
Out(id) == {id \o <<"out">>}
IdA == <<"a">>
IdB == <<"b">>
MCTaskIds == {IdA, IdB}
MCNoTask == <<>>
MCPlans == {
  <<>>,
  <<MCTask(IdA, {}, Out(IdA)), MCTask(IdB, {IdA}, Out(IdB))>>,
  <<MCTask(IdA, {IdB}, {}), MCTask(IdB, {IdA}, {})>>,      \* a cycle
  <<MCTask(IdA, {}, {}), MCTask(IdA, {}, {})>>,            \* an ID twice
  <<MCTask(IdA, {IdB}, {})>>,                              \* an unknown dependency
  <<MCTask(IdA, {}, Out(IdA)), MCTask(IdB, {}, Out(IdA))>>, \* another's namespace
  <<[MCTask(IdA, {}, {}) EXCEPT !.hasAction = FALSE]>> }

\* All lists of up to three tasks with up to two dependencies each, and of four
\* tasks with up to one.
SeqUpTo(S, n) == UNION {[1..k -> S] : k \in 0..n}
SmallTask == [id : 1..3, dependsOn : SeqUpTo(1..3, 2)]
NarrowTask == [id : 1..4, dependsOn : SeqUpTo(1..4, 1)]
MCInputs == SeqUpTo(SmallTask, 3)
              \cup {l \in [1..4 -> NarrowTask] : \A i \in 1..4 : l[i].id = 5 - i}

ASSUME SurfaceAssumption ==
  /\ Grants!EndersAssumption /\ Grants!CapsAssumption /\ Grants!BoundsAssumption
  /\ Events!BufferAssumption /\ Events!MayAbortAssumption /\ Events!NamesAssumption
  /\ Memo!CleanAssumption /\ Memo!FoldAssumption /\ Memo!IdAssumption
  /\ Memo!OutputsAssumption /\ Memo!BoundsAssumption /\ Memo!RowsAssumption
  /\ Memo!IdsApart
  /\ Gates!PlansAssumption /\ Gates!NamesAssumption /\ Mcp!MethodsAssumption
  /\ Plans!AttemptsAssumption /\ Plans!SegmentsAssumption
  /\ Kahn!RanksAssumption /\ Kahn!InputsAssumption
  /\ Cascade!CandidatesAssumption /\ Cascade!BoundsAssumption

-----------------------------------------------------------------------------
grantVars == <<status, summary, endedAt, allowlist, sessionGrants, actionGrants,
               ending, checking, wanted, given, spent, granted, grants, checks,
               giveUps>>
eventVars == <<tStage, left, sending, subs, closed, buf, tSeen, aborted, cli>>
factVars == <<facts, call, todo, returned, stamp, saved, clock, failures>>
gateVars == <<dependsOn, gate, shown, typed, meant, pEof>>
mcpVars == <<sent, read, mAt, calling, out, mEof>>
planVars == <<at, reply, reflectionAttempts, feedback, replies, ended, result>>
sortVars == <<tasks, kPc, inDegree, queue, order, kResult>>
ruleVars == <<flags, file, rStage, next, opened, frozen, used, found, calm, first, edits,
              resumes>>
surfaceVars == <<part, vars, grantVars, eventVars, factVars, gateVars, mcpVars,
                 planVars, sortVars, ruleVars>>

\* What varies at first in a part is fixed while it is another's turn.
Fixed(p, P) == IF part = p THEN TRUE ELSE P

SurfaceInit ==
  /\ part \in {"client", "grants", "events", "crowd", "facts", "gates", "mcp",
               "plans", "sort", "cascade", "resumed"}
  /\ Fixed("client", op = [f \in Calls |-> "Facts"])         /\ Init
  /\ Fixed("grants", wanted = [k \in {"k1", "k2"} |-> "any"]) /\ Grants!Init
  /\ Events!Init
  /\ Memo!Init
  /\ Fixed("gates", dependsOn = [t \in Gated |-> {}])        /\ Gates!Init
  /\ Mcp!Init
  /\ Plans!Init
  /\ Fixed("sort", tasks = <<>>)                             /\ Kahn!Init
  /\ IF part \in {"cascade", "resumed"} THEN TRUE ELSE file = [c \in 1..4 |-> "absent"]
  /\ flags = [path |-> part # "resumed", env |-> part = "resumed", miss |-> part # "resumed"]
  /\ Cascade!Init

Only(p) ==
  /\ part = p /\ UNCHANGED part
  /\ IF p = "client" THEN TRUE ELSE UNCHANGED vars
  /\ IF p = "grants" THEN TRUE ELSE UNCHANGED grantVars
  /\ IF p \in {"events", "crowd"} THEN TRUE ELSE UNCHANGED eventVars
  /\ IF p = "facts"  THEN TRUE ELSE UNCHANGED factVars
  /\ IF p = "gates"  THEN TRUE ELSE UNCHANGED gateVars
  /\ IF p = "mcp"    THEN TRUE ELSE UNCHANGED mcpVars
  /\ IF p = "plans"  THEN TRUE ELSE UNCHANGED planVars
  /\ IF p = "sort"   THEN TRUE ELSE UNCHANGED sortVars
  /\ IF p \in {"cascade", "resumed"} THEN TRUE ELSE UNCHANGED ruleVars

SurfaceNext == \/ Only("client")  /\ Next
               \/ Only("grants")  /\ Grants!Next
               \/ Only("events")  /\ Events!Next /\ tStage'["t2"] = "idle"
               \/ Only("crowd")   /\ Events!Next /\ "w1" \notin subs'
               \/ Only("facts")   /\ Memo!Next
               \/ Only("gates")   /\ Gates!Next
               \/ Only("mcp")     /\ Mcp!Next
               \/ Only("plans")   /\ Plans!Next
               \/ Only("sort")    /\ Kahn!Next
               \/ Only("cascade") /\ Cascade!Next /\ edits' <= 1 /\ resumes' <= 1
               \/ Only("resumed") /\ Cascade!Next

SurfaceSpec == SurfaceInit /\ [][SurfaceNext]_surfaceVars

-----------------------------------------------------------------------------
(* Properties                                                              *)

\* A grant for one action answers one check; one for a session lasts as long as
\* the session, and no longer once the calls that end it have returned.  The last
\* only as long as no update is given up: one that is carried out late ends the
\* session while its grants stay.
GrantsAreKept == Grants!GrantsAreKept

\* No event is sent on a closed channel, and what comes is in order.
EventsAreInOrder == Events!EventsAreInOrder

\* What a session was told it stored is there, with the time it was first stored.
ReturnedIsStored == [](Memo!TypeOK /\ Memo!ReturnedIsStored) /\ Memo!CreatedAtIsKept

\* With one gate at a time each is approved by its own answer, and in any case by
\* some answer; with two at once the answer to one may approve the other.
ApprovedByItsAnswer == Gates!ApprovedByItsAnswer

\* The host gets one response for each line that is owed one, in order.
OneResponseEach == Mcp!OneResponseEach

\* The model is told of each invalid plan before the next, and no two tasks of
\* the plan that comes out share an output key.  A plan is accepted exactly when
\* its graph is valid, and its order is a function of the graph.
PlansAreSound == Plans!PlansAreSound /\ Kahn!SortIsSound

\* A search finds the rules of the highest rank, and the executions that resume a
\* run agree on theirs.
RulesAreStable == Cascade!RulesAreStable

Symmetry == Permutations(Callers) \cup Permutations(Runs)
=============================================================================
