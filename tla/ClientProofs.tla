----------------------------- MODULE ClientProofs -----------------------------
(***************************************************************************)
(* For every number of callers, and whatever the callbacks call: the store *)
(* is open under every execution that has not returned, and Approve        *)
(* executes its run beside no other of them.                               *)
(***************************************************************************)
EXTENDS Client, TLAPS

PCs == {"idle", "blocked", "queued", "announced", "held", "planning", "executing",
        "returned"}

Types == /\ op \in [Calls -> Ops]
         /\ pc \in [Calls -> PCs]
         /\ writer \in Calls \cup {None}
         /\ run \in [Calls -> Runs \cup Calls \cup {NoRun}]
         /\ begun \subseteq Calls /\ active \subseteq Calls /\ cancelled \subseteq Calls
         /\ store \in {"open", "closed"}
         /\ unheard \in BOOLEAN

\* The operation of a call tells where it can be.
Places == \A f \in Calls :
            /\ pc[f] = "blocked" => op[f] \in Shared
            /\ pc[f] \in {"queued", "announced"} => op[f] \in Exclusive
            /\ pc[f] = "planning" => op[f] = "Run"
            /\ pc[f] = "executing" => op[f] \in {"Run", "Resume", "Approve"}

\* The handlers at work are those of executions, or were left behind by cancelled ones.
Handlers == \A f \in Calls :
              /\ pc[f] = "executing" => f \in active
              /\ f \in active => pc[f] = "executing" \/ (pc[f] = "returned" /\ f \in cancelled)

\* The writer is the call that has announced itself, or that is inside.
WriterIs == \A f \in Calls :
              /\ pc[f] = "announced" => writer = f
              /\ Holds(f) /\ op[f] \in Exclusive => writer = f
              /\ writer = f => op[f] \in Exclusive

\* A call that needs the lock for itself has it for itself.
Alone == \A f, g \in Calls :
           f # g /\ Holds(f) /\ op[f] \in Exclusive => ~Holds(g)

\* The store is open under whoever executes.
Opened == \A f \in Calls : pc[f] = "executing" => store = "open"

IInv == Types /\ Places /\ Handlers /\ WriterIs /\ Alone /\ Opened

LEMMA NoneIsNoCall == None \notin Calls
BY DEF None, Calls

LEMMA InitIInv == Init => IInv
<1> SUFFICES ASSUME Init PROVE IInv
  OBVIOUS
<1>1. Types
  BY DEF Init, Types, PCs
<1>2. Places /\ Handlers
  BY DEF Init, Places, Handlers
<1>3. WriterIs
  BY NoneIsNoCall DEF Init, WriterIs, Holds
<1>4. Alone /\ Opened
  BY DEF Init, Alone, Opened, Holds
<1>5. QED
  BY <1>1, <1>2, <1>3, <1>4 DEF IInv

\* The unlock: whoever leaves as the writer was alone, so the readers let in find
\* no writer; whoever leaves as a reader lets nobody in.
LEMMA ReturnKeeps ==
  ASSUME IInv, NEW f \in Calls, Holds(f), Return(f), op' = op, begun' = begun,
         cancelled' = cancelled, unheard' \in BOOLEAN,
         run' \in [Calls -> Runs \cup Calls \cup {NoRun}],
         active' = active \ {f} \/ (active' = active /\ (pc[f] = "executing" => f \in cancelled)),
         store' = store \/ (store' \in {"open", "closed"} /\ op[f] = "Close")
  PROVE  IInv'
<1> USE DEF IInv, Holds
<1>1. pc' \in [Calls -> PCs] /\ pc'[f] = "returned"
  BY DEF Return, Types, PCs
<1>2. ASSUME NEW g \in Calls, g # f
      PROVE  pc'[g] = IF pc[g] = "blocked" /\ writer = f THEN "held" ELSE pc[g]
  BY <1>2 DEF Return, Types
<1>3. writer' = IF writer = f THEN None ELSE writer
  BY DEF Return
<1>4. writer = f => \A g \in Calls : g # f => ~Holds(g)
  BY DEF WriterIs, Alone
<1>5. Types'
  BY <1>1, <1>3 DEF Types
<1>6. Places'
  <2> SUFFICES ASSUME NEW g \in Calls
               PROVE  /\ pc'[g] = "blocked" => op[g] \in Shared
                      /\ pc'[g] \in {"queued", "announced"} => op[g] \in Exclusive
                      /\ pc'[g] = "planning" => op[g] = "Run"
                      /\ pc'[g] = "executing" => op[g] \in {"Run", "Resume", "Approve"}
    BY DEF Places
  <2>1. CASE g = f
    BY <2>1, <1>1
  <2>2. CASE g # f
    BY <2>2, <1>2 DEF Places
  <2>3. QED
    BY <2>1, <2>2
<1>7. Handlers'
  <2> SUFFICES ASSUME NEW g \in Calls
               PROVE  /\ pc'[g] = "executing" => g \in active'
                      /\ g \in active' => \/ pc'[g] = "executing"
                                          \/ pc'[g] = "returned" /\ g \in cancelled
    BY DEF Handlers
  <2>1. CASE g = f
    BY <2>1, <1>1 DEF Handlers
  <2>2. CASE g # f
    BY <2>2, <1>2 DEF Handlers
  <2>3. QED
    BY <2>1, <2>2
<1>8. WriterIs'
  <2> SUFFICES ASSUME NEW g \in Calls
               PROVE  /\ pc'[g] = "announced" => writer' = g
                      /\ pc'[g] \in {"held", "planning", "executing"} /\ op[g] \in Exclusive
                           => writer' = g
                      /\ writer' = g => op[g] \in Exclusive
    BY DEF WriterIs
  <2>1. CASE g = f
    BY <2>1, <1>1, <1>3, NoneIsNoCall DEF WriterIs
  <2>2. CASE g # f
    <3>1. pc'[g] = "announced" => pc[g] = "announced"
      BY <2>2, <1>2
    <3>2. pc'[g] \in {"held", "planning", "executing"} /\ op[g] \in Exclusive
            => pc[g] \in {"held", "planning", "executing"}
      BY <2>2, <1>2 DEF Places, Shared, Exclusive
    <3>3. writer = g => writer' = g
      BY <2>2, <1>3
    <3>4. writer' = g => writer = g
      BY <1>3, NoneIsNoCall
    <3>5. QED
      BY <3>1, <3>2, <3>3, <3>4 DEF WriterIs
  <2>3. QED
    BY <2>1, <2>2
<1>9. Alone'
  <2> SUFFICES ASSUME NEW g \in Calls, NEW h \in Calls, g # h,
                      pc'[g] \in {"held", "planning", "executing"}, op[g] \in Exclusive,
                      pc'[h] \in {"held", "planning", "executing"}
               PROVE  FALSE
    BY DEF Alone
  <2>1. g # f /\ h # f
    BY <1>1
  <2>2. pc[g] \in {"held", "planning", "executing"}
    BY <2>1, <1>2 DEF Places, Shared, Exclusive
  <2>3. pc[h] = "blocked" /\ writer = f
    BY <2>1, <2>2, <1>2 DEF Alone
  <2>4. QED
    BY <2>1, <2>2, <2>3, <1>4
<1>10. Opened'
  <2> SUFFICES ASSUME NEW g \in Calls, pc'[g] = "executing" PROVE store' = "open"
    BY DEF Opened
  <2>1. g # f
    BY <1>1
  <2>2. pc[g] = "executing"
    BY <2>1, <1>2
  <2>3. op[f] # "Close"
    BY <2>1, <2>2 DEF Alone, Exclusive
  <2>4. QED
    BY <2>2, <2>3 DEF Opened
<1>11. QED
  BY <1>5, <1>6, <1>7, <1>8, <1>9, <1>10

\* An execution starts with the lock held and the store open.
LEMMA ExecuteKeeps ==
  ASSUME IInv, NEW f \in Calls, NEW r \in Runs \cup Calls,
         pc[f] \in {"held", "planning"}, store = "open", Execute(f, r),
         begun' \subseteq Calls, unheard' \in BOOLEAN,
         op[f] \in {"Run", "Resume", "Approve"}
  PROVE  IInv'
<1> USE DEF IInv, Execute, Holds
<1>1. Types'
  BY DEF Types, PCs
<1>2. Places' /\ Handlers'
  BY DEF Types, Places, Handlers
<1>3. WriterIs'
  BY DEF Types, WriterIs
<1>4. Alone'
  BY DEF Types, Alone
<1>5. Opened'
  BY DEF Types, Opened
<1>6. QED
  BY <1>1, <1>2, <1>3, <1>4, <1>5

\* The steps before the lock is held, and the first of Run behind it, change only
\* where the call is, and the writer.
LEMMA LockKeeps ==
  ASSUME IInv, NEW f \in Calls, RLock(f) \/ Lock(f) \/ Announce(f) \/ Acquire(f) \/ Run(f)
  PROVE  IInv'
<1> USE DEF IInv, Holds, runVars
<1>1. CASE RLock(f)
  <2>1. Types' /\ Places' /\ Handlers' /\ Opened'
    BY <1>1 DEF RLock, Callable, Types, Places, Handlers, Opened, PCs
  <2>2. WriterIs'
    BY <1>1 DEF RLock, Callable, Types, WriterIs, Shared, Exclusive
  <2>3. writer = None => \A g \in Calls : op[g] \in Exclusive => ~Holds(g)
    BY NoneIsNoCall DEF WriterIs
  <2>4. Alone'
    BY <1>1, <2>3 DEF RLock, Callable, Types, Alone, Shared, Exclusive
  <2>5. QED
    BY <2>1, <2>2, <2>4
<1>2. CASE Lock(f)
  <2>1. Types' /\ Places' /\ Handlers' /\ Opened'
    BY <1>2 DEF Lock, Callable, Types, Places, Handlers, Opened, PCs
  <2>2. WriterIs' /\ Alone'
    BY <1>2 DEF Lock, Callable, Types, WriterIs, Alone
  <2>3. QED
    BY <2>1, <2>2
<1>3. CASE Announce(f)
  <2>1. Types' /\ Places' /\ Handlers' /\ Alone' /\ Opened'
    BY <1>3 DEF Announce, Types, Places, Handlers, Alone, Opened, PCs
  <2>2. WriterIs'
    BY <1>3, NoneIsNoCall DEF Announce, Types, Places, WriterIs
  <2>3. QED
    BY <2>1, <2>2
<1>4. CASE Acquire(f)
  <2>1. Types' /\ Places' /\ Handlers' /\ Opened'
    BY <1>4 DEF Acquire, Types, Places, Handlers, Opened, PCs
  <2>2. WriterIs'
    BY <1>4 DEF Acquire, Types, WriterIs
  <2>3. Alone'
    BY <1>4 DEF Acquire, Types, Alone
  <2>4. QED
    BY <2>1, <2>2, <2>3
<1>5. CASE Run(f)
  <2>1. Types' /\ Places' /\ Handlers' /\ Opened'
    BY <1>5 DEF Run, Types, Places, Handlers, Opened, PCs
  <2>2. WriterIs' /\ Alone'
    BY <1>5 DEF Run, Types, WriterIs, Alone
  <2>3. QED
    BY <2>1, <2>2
<1>6. QED
  BY <1>1, <1>2, <1>3, <1>4, <1>5

LEMMA StepKeeps == IInv /\ [Next]_vars => IInv'
<1> SUFFICES ASSUME IInv, [Next]_vars PROVE IInv'
  OBVIOUS
<1>1. CASE UNCHANGED vars
  BY <1>1 DEF vars, IInv, Types, Places, Handlers, WriterIs, Alone, Opened, Holds
<1>2. ASSUME NEW f \in Calls, RLock(f) \/ Lock(f) PROVE IInv'
  BY <1>2, LockKeeps
<1>3. ASSUME NEW f \in Calls, Step(f) PROVE IInv'
  <2> USE DEF runVars
  <2>1. CASE Announce(f) \/ Acquire(f) \/ Run(f)
    BY <2>1, LockKeeps
  <2>2. CASE Fail(f)
    BY <2>2, ReturnKeeps DEF Fail, Holds, IInv, Types
  <2>3. CASE PlanFails(f)
    BY <2>3, ReturnKeeps DEF PlanFails, Holds, IInv, Types
  <2>4. CASE Begin(f)
    <3>1. op[f] = "Run"
      BY <2>4 DEF Begin, IInv, Places
    <3>2. begun' \subseteq Calls /\ unheard' \in BOOLEAN
      BY <2>4 DEF Begin, IInv, Types
    <3>3. QED
      BY <2>4, <3>1, <3>2, ExecuteKeeps DEF Begin
  <2>5. ASSUME NEW r \in Runs \cup begun, Resume(f, r) \/ Approve(f, r) PROVE IInv'
    <3>1. r \in Runs \cup Calls /\ begun' \subseteq Calls /\ unheard' \in BOOLEAN
      BY <2>5 DEF Resume, Approve, IInv, Types
    <3>2. QED
      BY <2>5, <3>1, ExecuteKeeps DEF Resume, Approve
  <2>6. CASE Refuse(f)
    BY <2>6, ReturnKeeps DEF Refuse, Holds, IInv, Types
  <2>7. CASE Finish(f)
    <3>1. run' \in [Calls -> Runs \cup Calls \cup {NoRun}]
      BY <2>7 DEF Finish, IInv, Types
    <3>2. QED
      BY <2>7, <3>1, ReturnKeeps DEF Finish, Holds, IInv, Types
  <2>8. CASE Abandon(f)
    BY <2>8, ReturnKeeps DEF Abandon, Holds, IInv, Types
  <2>9. CASE Facts(f)
    BY <2>9, ReturnKeeps DEF Facts, Holds, IInv, Types
  <2>10. CASE Close(f)
    BY <2>10, ReturnKeeps DEF Close, Holds, IInv, Types
  <2>11. QED
    BY <1>3, <2>1, <2>2, <2>3, <2>4, <2>5, <2>6, <2>7, <2>8, <2>9, <2>10 DEF Step
<1>4. ASSUME NEW f \in Calls, Cancel(f) PROVE IInv'
  BY <1>4 DEF Cancel, IInv, Types, Places, Handlers, WriterIs, Alone, Opened, Holds
<1>5. ASSUME NEW f \in Calls, Drain(f) PROVE IInv'
  BY <1>5 DEF Drain, IInv, Types, Places, Handlers, WriterIs, Alone, Opened, Holds
<1>6. QED
  BY <1>1, <1>2, <1>3, <1>4, <1>5 DEF Next

\* The inductive invariant of the lock and of what is done under it.
THEOREM LockInvariant == Spec => []IInv
BY InitIInv, StepKeeps, PTL DEF Spec

\* Close never takes the store from under an execution that has not returned, nor from
\* under a handler whose context has not ended: only a cancelled call leaves handlers
\* behind (client.go:131, 208, 220, 333; scheduler.go:534).
THEOREM OpenUnderExecutions == Spec => []StoreIsOpen
<1>1. IInv => StoreIsOpen
  BY DEF IInv, Types, Handlers, Opened, StoreIsOpen
<1>2. QED
  BY <1>1, LockInvariant, PTL

\* Two calls of one client that have not returned and execute the same run, one that
\* Run has just begun included, are not Approve (client.go:220).
THEOREM ApproveExecutesAlone == Spec => []ApproveIsAlone
<1>1. IInv => ApproveIsAlone
  BY DEF IInv, Types, Alone, Holds, Exclusive, ApproveIsAlone
<1>2. QED
  BY <1>1, LockInvariant, PTL
===============================================================================
