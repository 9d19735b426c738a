-------------------------------- MODULE Client --------------------------------
(***************************************************************************)
(* pkg/client.Client: the operations of the SDK under its read-write lock. *)
(* Run, Resume and the operations on facts share it; Approve and Close     *)
(* have it alone, and Approve keeps it for the whole execution it resumes. *)
(* The callbacks of an execution (task handler, approval handler, planner) *)
(* may call the client again.  An execution whose context ends lets go of  *)
(* the lock and leaves its handlers to themselves.  The lock is Go's: a    *)
(* writer that waits holds up the readers that come after it.              *)
(***************************************************************************)
EXTENDS Naturals, FiniteSets

CONSTANTS Callers,    \* goroutines; each makes one call, and its callbacks one
          Runs,       \* runs paused in the store
          Nested,     \* the operations that callbacks call: {} when they call none
          OwnsStore   \* FALSE for a client on a store that it was given

Shared == {"Run", "Resume", "Facts"}
Exclusive == {"Approve", "Close"}
Ops == Shared \cup Exclusive

ASSUME NestedAssumption == Nested \subseteq Ops
ASSUME OwnsAssumption == OwnsStore \in BOOLEAN

Calls == Callers \X {"outer", "nested"}
None == <<"none", "none">>
NoRun == <<"no run">>

\* A run is known by the call that began it, or was there before.
ASSUME RunsAssumption == Runs \cap (Calls \cup {NoRun}) = {}

VARIABLES
  op,      \* the operation of each call
  pc,      \* "idle", "blocked", "queued", "announced", "held", "planning",
           \* "executing", "returned"
  writer,  \* the call that has announced itself as writer, or has the lock
  run,     \* the run that a call, or a handler it has left behind, executes
  begun,   \* the runs that Run has created and told the events of
  active,  \* the calls with an execution, or with handlers of theirs that go on
  cancelled, \* the calls whose context has ended while they executed
  store,   \* "open" or "closed"
  unheard  \* history: an execution published to another emitter than Events()

runVars == <<run, begun, active, cancelled>>
vars == <<op, pc, writer, run, begun, active, cancelled, store, unheard>>

Init == /\ op \in [Calls -> Ops]
        /\ \A c \in Callers :
             op[<<c, "nested">>] \in IF Nested = {} THEN {"Facts"} ELSE Nested
        /\ pc = [f \in Calls |-> "idle"]
        /\ writer = None
        /\ run = [f \in Calls |-> NoRun]
        /\ begun = {} /\ active = {} /\ cancelled = {}
        /\ store = "open"
        /\ unheard = FALSE

-----------------------------------------------------------------------------
(* sync.RWMutex                                                            *)

Holds(f) == pc[f] \in {"held", "planning", "executing"}

\* The call can be made: a nested one by the planner or a handler of another.
Callable(f) ==
  /\ pc[f] = "idle"
  /\ f[2] = "nested" => LET g == <<f[1], "outer">>
                        IN Nested # {} /\ (pc[g] = "planning" \/ g \in active)

\* No callback of the call waits for a call of its own.
NoCallback(f) == f[2] = "outer" => pc[<<f[1], "nested">>] \in {"idle", "returned"}

RLock(f) == /\ Callable(f) /\ op[f] \in Shared
            /\ pc' = [pc EXCEPT ![f] = IF writer = None THEN "held" ELSE "blocked"]
            /\ UNCHANGED <<op, writer, runVars, store, unheard>>

Lock(f) == /\ Callable(f) /\ op[f] \in Exclusive
           /\ pc' = [pc EXCEPT ![f] = "queued"]
           /\ UNCHANGED <<op, writer, runVars, store, unheard>>

\* One writer at a time; from here on new readers wait.
Announce(f) == /\ pc[f] = "queued" /\ writer = None
               /\ pc' = [pc EXCEPT ![f] = "announced"]
               /\ writer' = f
               /\ UNCHANGED <<op, runVars, store, unheard>>

\* The readers that were there have left.
Acquire(f) == /\ pc[f] = "announced"
              /\ \A g \in Calls : ~ Holds(g)
              /\ pc' = [pc EXCEPT ![f] = "held"]
              /\ UNCHANGED <<op, writer, runVars, store, unheard>>

\* The deferred unlock; that of a writer lets in the readers it held up.
Return(f) == /\ writer' = IF writer = f THEN None ELSE writer
             /\ pc' = [g \in Calls |-> CASE g = f -> "returned"
                                         [] pc[g] = "blocked" /\ writer = f -> "held"
                                         [] OTHER -> pc[g]]

-----------------------------------------------------------------------------
(* The operations, holding the lock                                        *)

Execute(f, r) == /\ pc' = [pc EXCEPT ![f] = "executing"]
                 /\ run' = [run EXCEPT ![f] = r]
                 /\ active' = active \cup {f}
                 /\ UNCHANGED <<op, writer, cancelled, store>>

\* On a closed store an operation ends with an error: Run too, when it has to start
\* a session first.
Fail(f) == /\ pc[f] = "held" /\ op[f] # "Close" /\ store = "closed"
           /\ Return(f) /\ UNCHANGED <<op, runVars, store, unheard>>

\* A new session if none is named; then the rules are compiled and the planner is
\* asked, whether or not the store is open.
Run(f) == /\ pc[f] = "held" /\ op[f] = "Run"
          /\ pc' = [pc EXCEPT ![f] = "planning"]
          /\ UNCHANGED <<op, writer, runVars, store, unheard>>

\* No plan, or no row for the run.
PlanFails(f) == /\ pc[f] = "planning" /\ NoCallback(f)
                /\ Return(f) /\ UNCHANGED <<op, runVars, store, unheard>>

\* The rows are created and the run's ID is published, by an orchestrator with an
\* emitter of its own when the request differs from the client's options.
Begin(f) == /\ pc[f] = "planning" /\ NoCallback(f) /\ store = "open"
            /\ begun' = begun \cup {f}
            /\ \E override \in BOOLEAN : unheard' = (unheard \/ override)
            /\ Execute(f, f)

\* Any run there is: one that is being executed, too.
Resume(f, r) == /\ pc[f] = "held" /\ op[f] = "Resume" /\ store = "open"
                /\ Execute(f, r) /\ UNCHANGED <<begun, unheard>>

\* Mutant: the lock is let go before the execution that Approve resumes.
Approve_Unlock(f, r) ==
  /\ pc[f] = "held" /\ op[f] = "Approve" /\ store = "open"
  /\ writer' = None
  /\ pc' = [g \in Calls |-> CASE g = f -> "executing"
                              [] pc[g] = "blocked" -> "held"
                              [] OTHER -> pc[g]]
  /\ run' = [run EXCEPT ![f] = r]
  /\ active' = active \cup {f}
  /\ UNCHANGED <<op, begun, cancelled, store, unheard>>

\* Store.ApproveTask, then the orchestrator's Resume under the same lock.
Approve(f, r) == /\ pc[f] = "held" /\ op[f] = "Approve" /\ store = "open"
                 /\ Execute(f, r) /\ UNCHANGED <<begun, unheard>>

\* Mutant: an error is returned with the lock held.
Refuse_Locked(f) == /\ pc[f] = "held" /\ op[f] \in {"Resume", "Approve"} /\ store = "open"
                    /\ pc' = [pc EXCEPT ![f] = "returned"]
                    /\ UNCHANGED <<op, writer, runVars, store, unheard>>

\* There is no such run or task, or the task is another run's.
Refuse(f) == /\ pc[f] = "held" /\ op[f] \in {"Resume", "Approve"} /\ store = "open"
             /\ Return(f) /\ UNCHANGED <<op, runVars, store, unheard>>

\* The context of the caller ends.
Cancel(f) == /\ pc[f] = "executing" /\ f \notin cancelled
             /\ cancelled' = cancelled \cup {f}
             /\ UNCHANGED <<op, pc, writer, run, begun, active, store, unheard>>

\* An execution that is not cancelled waits for its handlers, and they for the calls
\* they made.
Finish(f) == /\ pc[f] = "executing" /\ NoCallback(f)
             /\ active' = active \ {f}
             /\ run' = [run EXCEPT ![f] = NoRun]
             /\ Return(f) /\ UNCHANGED <<op, begun, cancelled, store, unheard>>

\* Scheduler.Run returns on the end of its context, whatever its handlers do.
Abandon(f) == /\ pc[f] = "executing" /\ f \in cancelled
              /\ Return(f) /\ UNCHANGED <<op, runVars, store, unheard>>

\* The handlers left behind have returned.
Drain(f) == /\ f \in active /\ pc[f] = "returned" /\ NoCallback(f)
            /\ active' = active \ {f}
            /\ run' = [run EXCEPT ![f] = NoRun]
            /\ UNCHANGED <<op, pc, writer, begun, cancelled, store, unheard>>

\* SearchFacts, SaveFact, ListFacts, GetCompiledPrefix.
Facts(f) == /\ pc[f] = "held" /\ op[f] = "Facts" /\ store = "open"
            /\ Return(f) /\ UNCHANGED <<op, runVars, store, unheard>>

\* Mutant: Close shares the lock.
Close_Shared(f) == /\ pc[f] \in {"queued", "held"} /\ op[f] = "Close"
                   /\ store' = IF OwnsStore THEN "closed" ELSE store
                   /\ Return(f) /\ UNCHANGED <<op, runVars, unheard>>

Close(f) == /\ pc[f] = "held" /\ op[f] = "Close"
            /\ store' = IF OwnsStore THEN "closed" ELSE store
            /\ Return(f) /\ UNCHANGED <<op, runVars, unheard>>

Step(f) == \/ Announce(f) \/ Acquire(f) \/ Fail(f) \/ Run(f) \/ PlanFails(f) \/ Begin(f)
           \/ \E r \in Runs \cup begun : Resume(f, r) \/ Approve(f, r)
           \/ Refuse(f) \/ Finish(f) \/ Abandon(f) \/ Facts(f) \/ Close(f)

Next == \E f \in Calls : RLock(f) \/ Lock(f) \/ Step(f) \/ Cancel(f) \/ Drain(f)

Spec == Init /\ [][Next]_vars

\* Executions come to their end; nobody has to make a call.
FairSpec == Spec /\ \A f \in Calls : WF_vars(Step(f))

-----------------------------------------------------------------------------
(* Properties                                                              *)

\* The variables are of their types, and at most one call has announced itself as
\* the writer that the lock names.
TypeOK ==
  /\ op \in [Calls -> Ops]
  /\ pc \in [Calls -> {"idle", "blocked", "queued", "announced", "held", "planning",
                       "executing", "returned"}]
  /\ writer \in Calls \cup {None}
  /\ run \in [Calls -> Runs \cup Calls \cup {NoRun}]
  /\ begun \subseteq Calls /\ active \subseteq Calls /\ cancelled \subseteq Calls
  /\ store \in {"open", "closed"} /\ unheard \in BOOLEAN
  /\ \A f \in Calls : pc[f] = "announced" => writer = f

\* The store is not closed under a handler as long as the context of its execution
\* has not ended, nor under an execution that has not returned: Close waits for Run,
\* Resume and Approve, and those that come later find it closed before they start.
StoreIsOpen ==
  \A f \in active : f \notin cancelled \/ pc[f] = "executing" => store = "open"

\* Approve lets no other execution of its run in until the one it has resumed has
\* returned: of two that have not, on one run, neither is Approve's.  A run may be
\* executed by Run and Resume, or by two Resumes, at one time.
ApproveIsAlone ==
  \A f, g \in active :
    f # g /\ run[f] = run[g] /\ pc[f] = "executing" /\ pc[g] = "executing" =>
      op[f] # "Approve" /\ op[g] # "Approve"

\* The store is open under every handler, left behind or not: "a clean, thread-safe
\* public Go SDK" (client.go:19).
HandlersHaveStore == active # {} => store = "open"

\* No handler of another execution is at work on the run that Approve has resumed:
\* "thread-safe" (client.go:19).
ApproveHasTheRun ==
  \A f, g \in active : f # g /\ run[f] = run[g] => op[f] # "Approve" \/ pc[f] # "executing"

\* Every call returns.  With callbacks that call the client it need not: "a
\* clean, thread-safe public Go SDK" (client.go:19).
CallsReturn == \A f \in Calls : (pc[f] # "idle") ~> (pc[f] = "returned")

\* A subscriber of Events() hears of every execution of this client.
RunsAreHeard == ~ unheard
===============================================================================
