------------------------------ MODULE MCRuntime ------------------------------
(***************************************************************************)
(* What a handler and the store do below the scheduler, each part with     *)
(* bounds of its own, in one run: part says whose turn it is, for good, so *)
(* that the states of the parts add up and do not multiply.  The constants *)
(* of all parts take their values from the .cfg.                           *)
(***************************************************************************)
EXTENDS Store, TLC

CONSTANTS
  Tasks, DependsOn, InputKeys, OutputKeys, SafePart, BoardCrashes, BoardFailures,
  Calls, Runs, Execs, Clients, ExecOf, RunOf, ClientOf, MaxRetries, InitialBackoff, MaxBackoff, Width,
  MaxToolTurns, MaxReflectionAttempts, MaxCalls,
  Main, Children, Silence, ActivityCap, MayEscape,
  Writes, Reads, Old, Pieces, MaxFailures, MaxCrashes

VARIABLES part,
  entries, file, bAt, left, size, seen, snap, bDone, checkpoint, wrote,
    bCrashes, bFailures,
  lAt, attempt, sent, last, lEnded, slept, lResult, usage, total, recorded, phase,
    loaded, flusher,
  wAt, toolTurnCount, reflectionAttempts, messages, wAnswer, pending, requests,
    offered, wEnded, persisted, wResult,
  alive, group, status, pipe, activity, timer, supervisor, caller, dDone,
    silenceKilled, dEnded, dResult, quiet, longest,
  target, temps, whole, fAt, opened, got, shown, killed, fFailures, fCrashes

Board == INSTANCE Blackboard WITH
  MaxCrashes <- BoardCrashes, MaxFailures <- BoardFailures,
  at <- bAt, done <- bDone, crashes <- bCrashes, failures <- bFailures

LLM == INSTANCE LLMClient WITH
  at <- lAt, ended <- lEnded, result <- lResult, Nobody <- 0

Work == INSTANCE Worker WITH
  at <- wAt, answer <- wAnswer, ended <- wEnded, result <- wResult

Dog == INSTANCE Watchdog WITH done <- dDone, ended <- dEnded, result <- dResult

Files == INSTANCE FileTools WITH
  at <- fAt, failures <- fFailures, crashes <- fCrashes

-----------------------------------------------------------------------------
(* Values                                                                  *)

\* Two producers in parallel and a task that reads from both; b also names a
\* key of a's namespace.
A == <<"a">>
B == <<"b">>
C == <<"c">>
Key(t) == <<"tasks">> \o t \o <<"x">>
MCTasks == {A, B, C}
Diamond == [t \in MCTasks |-> IF t = C THEN {A, B} ELSE {}]
Ins == [t \in MCTasks |-> IF t = C THEN <<Key(A), Key(B)>> ELSE <<>>]
Outs == [t \in MCTasks |-> CASE t = A -> <<Key(A)>>
                             [] t = B -> <<Key(A), Key(B)>>
                             [] t = C -> <<>>]
Parts == [p \in {"tasks", "a", "b", "c", "x"} |-> p]

\* A run and its resume, with one call each, through one client or through the
\* clients of two processes.
Each == 1 :> 1 @@ 2 :> 2
OneRun == 1 :> 1 @@ 2 :> 1
OneClient == 1 :> 1 @@ 2 :> 1

ASSUME RuntimeAssumption ==
  /\ Board!GraphAssumption /\ Board!BoundsAssumption /\ Board!KeysAssumption
  /\ LLM!RunsAssumption /\ LLM!RetriesAssumption /\ LLM!BackoffAssumption
  /\ Work!BudgetAssumption /\ Work!CallsAssumption
  /\ Dog!ProcessesAssumption /\ Dog!SilenceAssumption
  /\ Files!FilesAssumption /\ Files!PiecesAssumption /\ Files!BoundsAssumption

-----------------------------------------------------------------------------
boardVars == <<entries, file, bAt, left, size, seen, snap, bDone, checkpoint, wrote,
               bCrashes, bFailures>>
llmVars == <<lAt, attempt, sent, last, lEnded, slept, lResult, usage, total, recorded,
             phase, loaded, flusher>>
workVars == <<wAt, toolTurnCount, reflectionAttempts, messages, wAnswer, pending,
              requests, offered, wEnded, persisted, wResult>>
dogVars == <<alive, group, status, pipe, activity, timer, supervisor, caller, dDone,
             silenceKilled, dEnded, dResult, quiet, longest>>
fileVars == <<target, temps, whole, fAt, opened, got, shown, killed, fFailures,
              fCrashes>>
runtimeVars == <<part, vars, boardVars, llmVars, workVars, dogVars, fileVars>>

RuntimeInit ==
  /\ part \in {"store", "blackboard", "llm", "worker", "watchdog", "files"}
  /\ Init /\ Board!Init /\ LLM!Init /\ Work!Init /\ Dog!Init /\ Files!Init
  /\ part # "files" => target = Old

Only(p) ==
  /\ part = p /\ UNCHANGED part
  /\ IF p = "store"       THEN TRUE ELSE UNCHANGED vars
  /\ IF p = "blackboard"  THEN TRUE ELSE UNCHANGED boardVars
  /\ IF p = "llm"         THEN TRUE ELSE UNCHANGED llmVars
  /\ IF p = "worker"      THEN TRUE ELSE UNCHANGED workVars
  /\ IF p = "watchdog"    THEN TRUE ELSE UNCHANGED dogVars
  /\ IF p = "files"       THEN TRUE ELSE UNCHANGED fileVars

RuntimeNext == \/ Only("store")      /\ Next
               \/ Only("blackboard") /\ Board!Next
               \/ Only("llm")        /\ LLM!Next
               \/ Only("worker")     /\ Work!Next
               \/ Only("watchdog")   /\ Dog!Next
               \/ Only("files")      /\ Files!Next

RuntimeSpec == RuntimeInit /\ [][RuntimeNext]_runtimeVars

-----------------------------------------------------------------------------
(* Properties                                                              *)

\* Handlers find whole payloads, and every key of the map can be read, as long as
\* the process does not die, or dies at most twice and no write fails.
BoardIsSound == Board!BoardIsSound

\* A request to the model is sent again only when it may be, an error is only
\* reported when it is so, and executions through one client leave no tokens of
\* each other out of the run's row.
ResendsAreJustified == /\ LLM!ResendsAreJustified
                       /\ [](LLM!TypeOK /\ LLM!ErrorsAreEarned /\ LLM!NeverUndercounted)

\* A run's row has the tokens of all its executions.
RunTokensRecorded == LLM!RunTokensRecorded

\* A task's conversation stays well-formed for the model's API, and its requests
\* within what its turns and reflections account for.
TalkIsSound == Work!TalkIsSound

\* Commands are killed for their silence alone, and reported as what happened.
SilenceIsReal == Dog!SilenceIsReal

\* Files are read whole, written as reported, and leave nothing behind.
FilesAreWhole == Files!FilesAreWhole

Symmetry == Permutations(Callers) \cup Permutations(Closers)
=============================================================================
