------------------------------ MODULE LLMClient -------------------------------
(***************************************************************************)
(* worker.Client: one completion request, its retries with backoff, and    *)
(* the token counter that every call of a client adds to.  A run is        *)
(* executed once by Run and again by each resume, through a client of the  *)
(* same process or of another; each execution writes runs.total_tokens.    *)
(* Building the request and its headers is left out, and so are the other  *)
(* columns of the row.                                                     *)
(***************************************************************************)
EXTENDS Integers, FiniteSets

CONSTANTS Calls, Runs, Execs,
          Clients,        \* one for each process and each Run with overrides
          ExecOf,         \* Calls -> Execs: the planner's and the handlers'
          RunOf,          \* Execs -> Runs
          ClientOf,       \* Execs -> Clients
          Nobody,         \* no execution
          MaxRetries, InitialBackoff, MaxBackoff,
          Width           \* bits of a time.Duration: 64 in the code

RunsAssumption == /\ IsFiniteSet(Calls) /\ ExecOf \in [Calls -> Execs]
                  /\ RunOf \in [Execs -> Runs] /\ ClientOf \in [Execs -> Clients]
                  /\ Nobody \notin Execs
RetriesAssumption == MaxRetries \in Nat
BackoffAssumption == /\ Width \in Nat \ {0}
                     /\ InitialBackoff \in 1..(2^(Width-1) - 1)
                     /\ MaxBackoff \in 1..(2^(Width-1) - 1)

VARIABLES
  at,        \* where each call is
  attempt,   \* its loop variable
  sent,      \* history: the requests it has sent
  last,      \* what came back for the last one
  ended,     \* the calls whose context has ended
  slept,     \* the duration asked of its last timer
  result,    \* what it returned
  usage,     \* the tokens of the answer it returned
  total,     \* Client.totalTokens of each client
  recorded,  \* runs.total_tokens of each run; -1 while it has no row
  phase,     \* where each execution is
  loaded,    \* run.TotalTokens that an execution has read
  flusher    \* history: the execution whose end wrote the row last, if none wrote after

callVars == <<at, attempt, sent, last, ended, slept, result, usage, total>>
runVars == <<recorded, phase, loaded, flusher>>
vars == <<at, attempt, sent, last, ended, slept, result, usage, total,
          recorded, phase, loaded, flusher>>
tokens == <<usage, total, runVars>>

\* What a request can come back with: an error of the network that is worth a
\* retry or not, a body cut short, a 429 or 5xx, another status, a 2xx whose body
\* is JSON or not.
Transient == {"network", "cut", "busy"}
Answers == Transient \cup {"unreachable", "refused", "good", "garbled"}
Errors == {"cancelled", "failed", "exhausted", "refused"}

Init == /\ at = [c \in Calls |-> "idle"]
        /\ attempt = [c \in Calls |-> 0]
        /\ sent = [c \in Calls |-> 0]
        /\ last = [c \in Calls |-> "none"]
        /\ ended = {}
        /\ slept = [c \in Calls |-> InitialBackoff]
        /\ result = [c \in Calls |-> "none"]
        /\ usage = [c \in Calls |-> 0]
        /\ total = [k \in Clients |-> 0]
        /\ recorded = [r \in Runs |-> -1]
        /\ phase = [x \in Execs |-> "idle"]
        /\ loaded = [x \in Execs |-> 0]
        /\ flusher = [r \in Runs |-> Nobody]

Goto(c, where) == at' = [at EXCEPT ![c] = where]
Return(c, what) == Goto(c, "returned") /\ result' = [result EXCEPT ![c] = what]

EndCtx(c) == /\ c \notin ended /\ at[c] # "returned"
             /\ ended' = ended \cup {c}
             /\ UNCHANGED <<at, attempt, sent, last, slept, result, tokens>>

\* The execution makes calls: Run's also for the plan, before there is a row.
Calling(x) == phase[x] = "running" \/ (phase[x] = "loaded" /\ recorded[RunOf[x]] = -1)

Call(c) == /\ at[c] = "idle" /\ Calling(ExecOf[c])
           /\ Goto(c, "loop")
           /\ UNCHANGED <<attempt, sent, last, ended, slept, result, tokens>>

\* The top of the loop.
Check(c) == /\ at[c] = "loop"
            /\ IF c \in ended THEN Return(c, "cancelled")
                              ELSE Goto(c, "send") /\ UNCHANGED result
            /\ UNCHANGED <<attempt, sent, last, ended, slept, tokens>>

\* http.Client.Do and ReadAll; nothing is sent under a context that has ended.
Do(c) == /\ at[c] = "send"
         /\ \/ /\ c \in ended
               /\ Return(c, "cancelled")
               /\ UNCHANGED <<sent, last>>
            \/ /\ c \notin ended
               /\ sent' = [sent EXCEPT ![c] = @ + 1]
               /\ \E a \in Answers : last' = [last EXCEPT ![c] = a]
               /\ Goto(c, "answered")
               /\ UNCHANGED result
         /\ UNCHANGED <<attempt, ended, slept, tokens>>

\* Mutant: an error of any status is retried.
MayRetry_AnyStatus(c) == /\ last[c] \in Transient \cup {"refused"}
                         /\ attempt[c] < MaxRetries

\* isRetryableStatus, isRetryableNetworkError.
MayRetry(c) == last[c] \in Transient /\ attempt[c] < MaxRetries

\* Arithmetic of a signed integer of Width bits.
Wrap(x) == LET m == x % 2^Width IN IF m >= 2^(Width-1) THEN m - 2^Width ELSE m

Backoff(n) == LET b == Wrap(InitialBackoff * Wrap(2^n))
              IN IF b > MaxBackoff THEN MaxBackoff ELSE b

\* sleepWithJitter: up to a quarter more.
SleepWithJitter(c) ==
  /\ at[c] = "answered" /\ MayRetry(c)
  /\ LET b == Backoff(attempt[c])
     IN \E jitter \in {0, b \div 4} : slept' = [slept EXCEPT ![c] = b + jitter]
  /\ Goto(c, "asleep")
  /\ UNCHANGED <<attempt, sent, last, ended, result, tokens>>

\* The timer fires, or the context ends.
Wake(c) == /\ at[c] = "asleep"
           /\ attempt' = [attempt EXCEPT ![c] = @ + 1]
           /\ Goto(c, "loop")
           /\ UNCHANGED <<sent, last, ended, slept, result, tokens>>

GiveUp(c) ==
  /\ at[c] = "answered" /\ ~MayRetry(c) /\ last[c] # "good"
  /\ Return(c, CASE last[c] = "busy" -> "exhausted"
                 [] last[c] = "refused" -> "refused"
                 [] OTHER -> "failed")
  /\ UNCHANGED <<attempt, sent, last, ended, slept, tokens>>

\* An error of the network after the context has ended is not retried, when the
\* context had ended by the time it was looked at.
Cancelled(c) == /\ at[c] = "answered" /\ c \in ended
                /\ last[c] \in {"network", "unreachable"}
                /\ Return(c, "cancelled")
                /\ UNCHANGED <<attempt, sent, last, ended, slept, tokens>>

\* The usage may be missing from the answer.
Succeed(c) == /\ at[c] = "answered" /\ last[c] = "good"
              /\ \E u \in {0, 1} :
                   /\ usage' = [usage EXCEPT ![c] = u]
                   /\ total' = [total EXCEPT ![ClientOf[ExecOf[c]]] = @ + u]
              /\ Return(c, "ok")
              /\ UNCHANGED <<attempt, sent, last, ended, slept, runVars>>

-----------------------------------------------------------------------------
(* The executions of a run and the tokens in its row                       *)

\* Resume reads the row, or Run begins: there is no row yet, and no other execution.
GetRun(x) ==
  /\ phase[x] = "idle"
  /\ \/ /\ recorded[RunOf[x]] # -1
        /\ loaded' = [loaded EXCEPT ![x] = recorded[RunOf[x]]]
     \/ /\ \A y \in Execs : RunOf[y] = RunOf[x] => phase[y] = "idle"
        /\ UNCHANGED loaded
  /\ phase' = [phase EXCEPT ![x] = "loaded"]
  /\ UNCHANGED <<callVars, recorded, flusher>>

\* A write of the row that is not the last of an execution.
Write(x, n) == /\ recorded' = [recorded EXCEPT ![RunOf[x]] = n]
               /\ flusher' = [flusher EXCEPT ![RunOf[x]] = Nobody]
               /\ UNCHANGED <<callVars, loaded>>

\* Resume sets the run RUNNING with the count it has read; CreateRun, with 0.
Reopen(x) == /\ phase[x] = "loaded"
             /\ Write(x, loaded[x])
             /\ phase' = [phase EXCEPT ![x] = "running"]

\* The snapshots behind a task and at a gate, and the end of Scheduler.Run.
WriteZero(x) == phase[x] = "running" /\ Write(x, 0) /\ UNCHANGED phase

\* The end of executeDAG: Scheduler.Run has returned, and every handler before it.
FlushRun(x) ==
  /\ phase[x] = "running"
  /\ \A c \in Calls : ExecOf[c] = x => at[c] \in {"idle", "returned"}
  /\ recorded' = [recorded EXCEPT ![RunOf[x]] = total[ClientOf[x]]]
  /\ flusher' = [flusher EXCEPT ![RunOf[x]] = x]
  /\ phase' = [phase EXCEPT ![x] = "flushed"]
  /\ UNCHANGED <<callVars, loaded>>

\* The caller's context ends, or the process dies: nothing more is written.
Abandon(x) == /\ phase[x] \in {"loaded", "running"}
              /\ phase' = [phase EXCEPT ![x] = "dropped"]
              /\ ended' = ended \cup {c \in Calls : ExecOf[c] = x /\ at[c] # "returned"}
              /\ UNCHANGED <<at, attempt, sent, last, slept, result, usage, total,
                             recorded, loaded, flusher>>

Step(c) == \/ Check(c) \/ Do(c) \/ SleepWithJitter(c) \/ Wake(c)
           \/ GiveUp(c) \/ Cancelled(c) \/ Succeed(c)

Execution(x) == GetRun(x) \/ Reopen(x) \/ WriteZero(x) \/ FlushRun(x) \/ Abandon(x)

Next == \/ \E c \in Calls : Call(c) \/ Step(c) \/ EndCtx(c)
        \/ \E x \in Execs : Execution(x)

Spec == Init /\ [][Next]_vars

\* The goroutine of a call runs on: Do returns (HTTPClient has a timeout) and
\* timers fire.
FairSpec == Spec /\ \A c \in Calls : WF_vars(Step(c))

-----------------------------------------------------------------------------
(* Properties                                                              *)

TypeOK == /\ at \in [Calls -> {"idle", "loop", "send", "answered", "asleep", "returned"}]
          /\ attempt \in [Calls -> 0..MaxRetries]
          /\ last \in [Calls -> Answers \cup {"none"}]
          /\ ended \in SUBSET Calls
          /\ result \in [Calls -> Errors \cup {"ok", "none"}]
          /\ recorded \in [Runs -> -1..Cardinality(Calls)]
          /\ phase \in [Execs -> {"idle", "loaded", "running", "flushed", "dropped"}]
          /\ loaded \in [Execs -> 0..Cardinality(Calls)]
          /\ flusher \in [Runs -> Execs \cup {Nobody}]

\* "Retries exceeded" is only said of a request sent MaxRetries + 1 times, and a
\* call never sends more.
ErrorsAreEarned ==
  \A c \in Calls : /\ sent[c] <= MaxRetries + 1
                   /\ result[c] = "exhausted" => sent[c] = MaxRetries + 1
                   /\ result[c] = "refused" => last[c] = "refused"

\* A request is sent again only after a transient failure, and never once the
\* context of the call has ended, wherever in the loop it ended.
ResendsAreJustified ==
  [][\A c \in Calls :
       sent'[c] > sent[c] => /\ c \notin ended
                             /\ sent[c] > 0 => last[c] \in Transient]_vars

\* A retry waits at least the initial backoff (or the maximum, when smaller), and
\* at most the maximum and a quarter.
BackoffInBounds ==
  \A c \in Calls : at[c] = "asleep" =>
    /\ slept[c] >= IF InitialBackoff < MaxBackoff THEN InitialBackoff ELSE MaxBackoff
    /\ slept[c] <= MaxBackoff + MaxBackoff \div 4

\* The calls of a run that cost tokens: of its executions through the client of x
\* that came to their end, and of all its executions.
EndedCalls(x) == {c \in Calls : LET y == ExecOf[c] IN
                    /\ RunOf[y] = RunOf[x] /\ ClientOf[y] = ClientOf[x]
                    /\ phase[y] = "flushed" /\ usage[c] = 1}
CallsOf(r) == {c \in Calls : RunOf[ExecOf[c]] = r /\ usage[c] = 1}

\* When an execution wrote the row last, at its end, the row has no fewer tokens
\* than were used by the run's executions through the same client that have ended,
\* itself included: later executions through one client add up.
NeverUndercounted ==
  \A x \in Execs : flusher[RunOf[x]] = x =>
    recorded[RunOf[x]] >= Cardinality(EndedCalls(x))

\* When every execution of a run has come to its end, its row has no fewer tokens
\* than they used.  "Every run records token metrics [...] and persists them in
\* SQLite" (README.md:242).
RunTokensRecorded ==
  \A r \in Runs :
    (\A x \in Execs : RunOf[x] = r => phase[x] = "flushed") =>
      recorded[r] >= Cardinality(CallsOf(r))

\* Every call that is made returns.
CallsReturn == \A c \in Calls : (at[c] # "idle") ~> (at[c] = "returned")
===============================================================================
