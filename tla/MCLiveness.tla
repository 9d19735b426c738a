----------------------------- MODULE MCLiveness -----------------------------
(***************************************************************************)
(* What must eventually happen in the parts around the scheduler, on small *)
(* instances and in one run, with the fairness that the FairSpec of each   *)
(* part states.  part says whose turn it is, for good: the states of the   *)
(* parts add up, and a part that has no turn owes nothing.  ResourceLock   *)
(* is extended and takes its constants from the .cfg.                      *)
(***************************************************************************)
EXTENDS ResourceLock, Sequences, TLC

MCSpellings == {"a.go", "./a.go", "b.go", "c.go"}
MCPaths == 1..3
MCClean == ("a.go" :> 1) @@ ("./a.go" :> 1) @@ ("b.go" :> 2) @@ ("c.go" :> 3)

VARIABLES part,
  pc, ended, writeCh, answer, current, written, handed, closePc, closeCh, sealed,
    writerEnded, dbClosed, panic,
  stage, left, sending, subs, closed, buf, seen, aborted, cli,
  op, cPc, writer, run, begun, active, cancelled, store, unheard,
  wAt, toolTurnCount, reflectionAttempts, messages, wAnswer, pending, requests,
    offered, wEnded, persisted, wResult,
  sent, read, mAt, calling, out, eof,
  alive, group, status, pipe, activity, timer, supervisor, caller, done,
    silenceKilled, dEnded, dResult, quiet, longest,
  at, attempt, requested, last, lEnded, slept, result, usage, total, recorded, lPhase,
    loaded, flusher

Writers == {"c1", "c2"}
St == INSTANCE Store WITH Callers <- Writers, Closers <- {"k1"}, NoCaller <- "none",
                          QueueCap <- 1

\* A watcher with room for one event that may stop reading.
Ev == INSTANCE Telemetry WITH Tasks <- {"t1"}, Watchers <- {"w1"}, BufferSize <- 1,
                              MayAbort <- TRUE

\* Three goroutines whose callbacks leave the client alone.
Cl == INSTANCE Client WITH Callers <- {"c1", "c2", "c3"}, Runs <- {<<"r1">>},
                           Nested <- {}, OwnsStore <- TRUE, pc <- cPc

Wo == INSTANCE Worker WITH
  MaxToolTurns <- 3, MaxReflectionAttempts <- 2, MaxCalls <- 2,
  at <- wAt, answer <- wAnswer, ended <- wEnded, result <- wResult

Mc == INSTANCE McpServer WITH MaxLines <- 2, Methods <- {"ping", "tools/call"}, at <- mAt

\* A command with a child, which both stay in the process group.
Wd == INSTANCE Watchdog WITH
  Main <- "main", Children <- {"child"}, Silence <- 2, ActivityCap <- 2,
  MayEscape <- FALSE, ended <- dEnded, result <- dResult

\* Retries that reach the longest backoff.
Ll == INSTANCE LLMClient WITH
  Calls <- {1}, Runs <- {1}, Execs <- {1}, Clients <- {1}, Nobody <- 0,
  ExecOf <- [c \in {1} |-> 1], RunOf <- [x \in {1} |-> 1],
  ClientOf <- [x \in {1} |-> 1], MaxRetries <- 4, InitialBackoff <- 4,
  MaxBackoff <- 20, Width <- 7, sent <- requested, ended <- lEnded, phase <- lPhase

ASSUME LivenessAssumption ==
  /\ Ev!BufferAssumption /\ Ev!MayAbortAssumption
  /\ Wo!BudgetAssumption /\ Wo!CallsAssumption
  /\ Mc!MethodsAssumption /\ Wd!ProcessesAssumption /\ Wd!SilenceAssumption
  /\ Ll!RunsAssumption /\ Ll!RetriesAssumption /\ Ll!BackoffAssumption

-----------------------------------------------------------------------------
storeVars == <<pc, ended, writeCh, answer, current, written, handed, closePc, closeCh,
               sealed, writerEnded, dbClosed, panic>>
eventVars == <<stage, left, sending, subs, closed, buf, seen, aborted, cli>>
clientVars == <<op, cPc, writer, run, begun, active, cancelled, store, unheard>>
workVars == <<wAt, toolTurnCount, reflectionAttempts, messages, wAnswer, pending,
              requests, offered, wEnded, persisted, wResult>>
mcpVars == <<sent, read, mAt, calling, out, eof>>
dogVars == <<alive, group, status, pipe, activity, timer, supervisor, caller, done,
             silenceKilled, dEnded, dResult, quiet, longest>>
llmVars == <<at, attempt, requested, last, lEnded, slept, result, usage, total, recorded,
             lPhase, loaded, flusher>>
liveVars == <<part, vars, storeVars, eventVars, clientVars, workVars, mcpVars, dogVars,
              llmVars>>

LiveInit ==
  /\ part \in {"lock", "store", "events", "client", "worker", "mcp", "watchdog", "llm"}
  /\ IF part = "client" THEN TRUE ELSE op = [f \in Cl!Calls |-> "Facts"]
  /\ Init /\ St!Init /\ Ev!Init /\ Cl!Init /\ Wo!Init /\ Mc!Init /\ Wd!Init /\ Ll!Init

Only(p) ==
  /\ part = p /\ UNCHANGED part
  /\ IF p = "lock"     THEN TRUE ELSE UNCHANGED vars
  /\ IF p = "store"    THEN TRUE ELSE UNCHANGED storeVars
  /\ IF p = "events"   THEN TRUE ELSE UNCHANGED eventVars
  /\ IF p = "client"   THEN TRUE ELSE UNCHANGED clientVars
  /\ IF p = "worker"   THEN TRUE ELSE UNCHANGED workVars
  /\ IF p = "mcp"      THEN TRUE ELSE UNCHANGED mcpVars
  /\ IF p = "watchdog" THEN TRUE ELSE UNCHANGED dogVars
  /\ IF p = "llm"      THEN TRUE ELSE UNCHANGED llmVars

\* No request has overrides, which have no part in the lock, and the context of at
\* most one call of the client ends.
MaxCancelled == 1
ClientNext == Cl!Next /\ ~unheard' /\ Cardinality(cancelled') <= MaxCancelled

LiveNext == \/ Only("lock")     /\ Next
            \/ Only("store")    /\ St!Next
            \/ Only("events")   /\ Ev!Next
            \/ Only("client")   /\ ClientNext
            \/ Only("worker")   /\ Wo!Next
            \/ Only("mcp")      /\ Mc!Next
            \/ Only("watchdog") /\ Wd!Next
            \/ Only("llm")      /\ Ll!Next

\* The fairness of each part, for the part that has its turn.
LockIsFair ==
  \A o \in Owners : /\ SF_vars(part = "lock" /\ LockNext(o))
                    /\ WF_vars(part = "lock" /\ Unlock(o))
                    /\ WF_vars(part = "lock" /\ UnlockNext(o))

Closing == St!CloseCloseCh("k1") \/ St!CloseWriteCh("k1") \/ St!CloseDB("k1")
StoreIsFair ==
  /\ \A c \in Writers : WF_storeVars(part = "store" /\ ~panic /\ St!ExecWrite(c))
  /\ WF_storeVars(part = "store" /\ ~panic /\ St!WriteLoop)
  /\ WF_storeVars(part = "store" /\ ~panic /\ Closing)

Sends(p) == \E s \in Ev!Subscribers : Ev!Send(p, s)
EventsAreFair ==
  /\ \A p \in Ev!Publishers : WF_eventVars(part = "events" /\ Sends(p))
  /\ WF_eventVars(part = "events" /\ Ev!StartRun)
  /\ WF_eventVars(part = "events" /\ Ev!FinishRun)
  /\ WF_eventVars(part = "events" /\ Ev!CompleteTask("t1"))
  /\ WF_eventVars(part = "events" /\ Ev!Subscribe(Ev!Printer))
  /\ WF_eventVars(part = "events" /\ Ev!StopPrinting)
  /\ WF_eventVars(part = "events" /\ Ev!Cancel)
  /\ WF_eventVars(part = "events" /\ Ev!Exit)

ClientIsFair == \A f \in Cl!Calls : WF_clientVars(part = "client" /\ Cl!Step(f))

WatchdogIsFair ==
  /\ WF_dogVars(part = "watchdog" /\ Wd!Tick)
  /\ WF_dogVars(part = "watchdog" /\ Wd!Write)
  /\ WF_dogVars(part = "watchdog" /\ Wd!Caller)
  /\ WF_dogVars(part = "watchdog" /\ Wd!OnDone)
  /\ WF_dogVars(part = "watchdog" /\ Wd!OnContext)
  /\ WF_dogVars(part = "watchdog" /\ Wd!OnActivity)
  /\ WF_dogVars(part = "watchdog" /\ Wd!OnTimer)

FairLiveSpec ==
  /\ LiveInit /\ [][LiveNext]_liveVars
  /\ LockIsFair /\ StoreIsFair /\ EventsAreFair /\ ClientIsFair /\ WatchdogIsFair
  /\ WF_workVars(part = "worker" /\ Wo!Execute)
  /\ WF_mcpVars(part = "mcp" /\ Mc!Serve)
  /\ WF_llmVars(part = "llm" /\ Ll!Step(1))

-----------------------------------------------------------------------------
(* Properties                                                              *)

\* A write returns, also when the store is closed under it.
WritesReturn == St!WritesReturn

\* A command that runs comes to its end, whether or not its subscribers read.
CommandExits == Ev!CommandExits

\* Every call of the client returns: its readers, writers and Close do not block
\* each other for good.
CallsReturn == Cl!CallsReturn

\* A command that falls silent, or whose context ends, comes back.
ReturnsWhenSilent == /\ part = "watchdog" => Wd!ReturnsWhenSilent
                     /\ Wd!ReturnsWhenCancelled

\* What loops over answers of others ends: a task's conversation with the model,
\* each request with its retries, whose backoff is that of the configuration, and
\* the MCP server once the host has closed its end.
LoopsEnd == /\ part = "worker" => Wo!Returns
            /\ part = "llm" => Ll!CallsReturn
            /\ []Ll!BackoffInBounds
            /\ part = "mcp" => Mc!AllIsServed
=============================================================================
