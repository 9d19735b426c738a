------------------------------- MODULE Watchdog -------------------------------
(***************************************************************************)
(* worker.Executor.runIsolatedCommand: a command runs in a process group   *)
(* of its own, a supervisor goroutine kills the group when the command is  *)
(* silent too long or its context ends, and the caller waits for the       *)
(* command and then decides what to report.  Processes, the pipe and the   *)
(* goroutine of os/exec that copies it are external.                       *)
(***************************************************************************)
EXTENDS Naturals, FiniteSets

CONSTANTS Main,        \* the process started
          Children,    \* the processes it starts
          Silence,     \* SilenceDuration, in ticks
          ActivityCap, \* cap(stream.activity): 64 in the code
          MayEscape    \* children may leave the process group

ProcessesAssumption == Main \notin Children
SilenceAssumption == Silence \in Nat \ {0} /\ ActivityCap \in Nat \ {0}

VARIABLES
  alive,          \* the processes that run
  group,          \* those in the process group
  status,         \* how Main ended: "none", "zero", "error", "killed"
  pipe,           \* output written and not copied yet
  activity,       \* tokens in stream.activity
  timer,          \* ticks since it was set; at Silence, timer.C is ready
  supervisor,     \* "select" or "ended"
  caller,         \* "wait", "close" or "returned"
  done,           \* doneCh is closed
  silenceKilled,
  ended,          \* the caller's context has ended
  result,
  quiet,          \* history: ticks since output was last written
  longest         \* history: the longest it has been quiet

vars == <<alive, group, status, pipe, activity, timer, supervisor, caller, done,
          silenceKilled, ended, result, quiet, longest>>
processes == <<alive, group, status>>
waiting == <<caller, done, result>>
clocks == <<quiet, longest>>

Init == /\ alive = {Main} \cup Children /\ group = {Main} \cup Children
        /\ status = "none"
        /\ pipe = FALSE /\ activity = 0 /\ timer = 0
        /\ supervisor = "select" /\ caller = "wait"
        /\ done = FALSE /\ silenceKilled = FALSE /\ ended = FALSE
        /\ result = "none"
        /\ quiet = 0 /\ longest = 0

-----------------------------------------------------------------------------
(* The processes and the clock                                             *)

Emit == /\ alive # {}
        /\ pipe' = TRUE /\ quiet' = 0
        /\ UNCHANGED <<processes, activity, timer, supervisor, waiting, silenceKilled,
                       ended, longest>>

Exit(p) == /\ p \in alive
           /\ alive' = alive \ {p}
           /\ IF p = Main THEN \E s \in {"zero", "error"} : status' = s
                          ELSE UNCHANGED status
           /\ UNCHANGED <<group, pipe, activity, timer, supervisor, waiting,
                          silenceKilled, ended, clocks>>

\* A child starts a session of its own; it keeps the pipe.
Leave(p) == /\ MayEscape /\ p \in alive \cap group \cap Children
            /\ group' = group \ {p}
            /\ UNCHANGED <<alive, status, pipe, activity, timer, supervisor, waiting,
                           silenceKilled, ended, clocks>>

EndCtx == /\ ~ended /\ caller # "returned"
          /\ ended' = TRUE
          /\ UNCHANGED <<processes, pipe, activity, timer, supervisor, waiting,
                         silenceKilled, clocks>>

\* Time passes; a tick is long enough for output to reach the supervisor within it.
Tick == /\ timer < Silence /\ caller = "wait"
        /\ ~pipe /\ activity = 0
        /\ timer' = timer + 1
        /\ quiet' = IF quiet < Silence THEN quiet + 1 ELSE quiet
        /\ longest' = IF quiet' > longest THEN quiet' ELSE longest
        /\ UNCHANGED <<processes, pipe, activity, supervisor, waiting, silenceKilled,
                       ended>>

\* watchdogStream.Write: the token is dropped when the channel is full.
Write == /\ pipe /\ pipe' = FALSE
         /\ activity' = IF activity < ActivityCap THEN activity + 1 ELSE activity
         /\ UNCHANGED <<processes, timer, supervisor, waiting, silenceKilled, ended,
                        clocks>>

-----------------------------------------------------------------------------
(* The supervisor: whichever branch of its select is ready                 *)

\* Mutant: only the process started is killed.
KillProcessGroup_Main == /\ alive' = alive \ {Main}
                         /\ status' = IF Main \in alive THEN "killed" ELSE status
                         /\ UNCHANGED group

KillProcessGroup == /\ alive' = alive \ group
                    /\ status' = IF Main \in alive THEN "killed" ELSE status
                    /\ UNCHANGED group

OnDone == /\ supervisor = "select" /\ done
          /\ supervisor' = "ended"
          /\ UNCHANGED <<processes, pipe, activity, timer, waiting, silenceKilled,
                         ended, clocks>>

OnContext == /\ supervisor = "select" /\ ended
             /\ KillProcessGroup
             /\ supervisor' = "ended"
             /\ UNCHANGED <<pipe, activity, timer, waiting, silenceKilled, ended, clocks>>

\* Mutant: the timer is stopped and drained, and not set again.
OnActivity_NoReset == /\ supervisor = "select" /\ activity > 0
                      /\ activity' = activity - 1
                      /\ UNCHANGED <<processes, pipe, timer, supervisor, waiting,
                                     silenceKilled, ended, clocks>>

\* The timer is stopped, drained when it has fired, and set again.
OnActivity == /\ supervisor = "select" /\ activity > 0
              /\ activity' = activity - 1
              /\ timer' = 0
              /\ UNCHANGED <<processes, pipe, supervisor, waiting, silenceKilled, ended,
                             clocks>>

OnTimer == /\ supervisor = "select" /\ timer = Silence
           /\ silenceKilled' = TRUE
           /\ KillProcessGroup
           /\ supervisor' = "ended"
           /\ UNCHANGED <<pipe, activity, timer, waiting, ended, clocks>>

-----------------------------------------------------------------------------
(* The caller                                                              *)

\* cmd.Wait: Main has ended and the pipe has been closed by all that held it.
Wait == /\ caller = "wait" /\ alive = {} /\ ~pipe
        /\ caller' = "close"
        /\ UNCHANGED <<processes, pipe, activity, timer, supervisor, done, result,
                       silenceKilled, ended, clocks>>

\* The watchdog's verdict, then the context's error, then the exit status.
Verdict == IF silenceKilled THEN "silence"
           ELSE IF ended THEN "cancelled"
           ELSE IF status # "zero" THEN "error" ELSE "ok"

Close == /\ caller = "close"
         /\ done' = TRUE /\ caller' = "decide"
         /\ UNCHANGED <<processes, pipe, activity, timer, supervisor, result,
                        silenceKilled, ended, clocks>>

Decide == /\ caller = "decide"
          /\ result' = Verdict /\ caller' = "returned"
          /\ UNCHANGED <<processes, pipe, activity, timer, supervisor, done,
                         silenceKilled, ended, clocks>>

Supervisor == OnDone \/ OnContext \/ OnActivity \/ OnTimer
Caller == Wait \/ Close \/ Decide
World == \/ Emit \/ EndCtx
         \/ \E p \in alive : Exit(p) \/ Leave(p)

Next == World \/ Tick \/ Write \/ Supervisor \/ Caller

Spec == Init /\ [][Next]_vars

\* Goroutines run, time passes, and a branch of the select that stays ready is
\* taken.  Nothing is assumed of the processes.
FairSpec == /\ Spec
            /\ WF_vars(Tick) /\ WF_vars(Write) /\ WF_vars(Caller)
            /\ WF_vars(OnDone) /\ WF_vars(OnContext) /\ WF_vars(OnActivity)
            /\ WF_vars(OnTimer)

-----------------------------------------------------------------------------
(* Properties                                                              *)

TypeOK == /\ alive \in SUBSET ({Main} \cup Children) /\ group \in SUBSET ({Main} \cup Children)
          /\ status \in {"none", "zero", "error", "killed"}
          /\ activity \in 0..ActivityCap /\ timer \in 0..Silence
          /\ supervisor \in {"select", "ended"}
          /\ caller \in {"wait", "close", "decide", "returned"}
          /\ result \in {"none", "silence", "cancelled", "error", "ok"}
          /\ quiet \in 0..Silence /\ longest \in 0..Silence

\* A command is killed for its silence only if nothing at all was written for the
\* whole of SilenceDuration.
KilledForSilence == silenceKilled => longest = Silence

\* The report tells what happened: a command the supervisor killed is reported as
\* silent or cancelled, never as one that failed by itself, and "ok" is said only
\* of a command that ended well under a context that lasts.
ReportIsTrue == /\ result \in {"ok", "error"} => status # "killed"
                /\ result = "ok" => status = "zero"
                /\ result = "silence" => silenceKilled

\* Commands are killed for their silence alone, and reported as what happened.
SilenceIsReal == TypeOK /\ KilledForSilence /\ ReportIsTrue

\* A call whose context ends returns.
ReturnsWhenCancelled == ended ~> caller = "returned"

\* A call whose command falls silent for good returns.
ReturnsWhenSilent == <>[][~Emit]_vars => <>(caller = "returned")
===============================================================================
