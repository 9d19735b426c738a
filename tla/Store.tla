-------------------------------- MODULE Store --------------------------------
(***************************************************************************)
(* store.Store: every write of every table goes through one goroutine.     *)
(* execWrite hands it a request over a bounded channel and waits for the   *)
(* answer, both times watching the caller's context; Close closes one      *)
(* channel to turn callers away, another to stop the goroutine, and waits  *)
(* for it.  A caller here makes one write; what the statement does to the  *)
(* tables is left to Checkpoint, Sessions and Memory.                      *)
(***************************************************************************)
EXTENDS Naturals, Sequences, FiniteSets

CONSTANTS Callers,  \* calls of execWrite
          Closers,  \* calls of Close
          NoCaller,
          QueueCap  \* cap(s.writeCh): 512 in the code

ASSUME QueueAssumption == QueueCap \in Nat \ {0}
ASSUME CallersAssumption == NoCaller \notin Callers

VARIABLES
  pc,        \* where each call of execWrite is, and what it returned
  ended,     \* the callers whose context has ended
  writeCh,   \* requests handed over
  answer,    \* errChan of each request; "none" when empty
  current,   \* the request the writer goroutine executes
  written,   \* history: the requests carried out, in order
  handed,    \* history: the requests, in the order they were handed over
  closePc,   \* where each call of Close is
  closeCh,   \* s.closeCh is closed
  sealed,    \* s.writeCh is closed
  writerEnded, dbClosed,
  panic      \* a goroutine has panicked, and with it the process has ended

vars == <<pc, ended, writeCh, answer, current, written, handed, closePc, closeCh,
          sealed, writerEnded, dbClosed, panic>>
queue == <<writeCh, current, written, handed>>
shut  == <<closePc, closeCh, sealed, writerEnded, dbClosed>>

In(c, s) == \E i \in DOMAIN s : s[i] = c
Returned == {"ok", "failed", "refused", "gaveUp"}

Init == /\ pc = [c \in Callers |-> "idle"]
        /\ ended = {}
        /\ writeCh = <<>> /\ written = <<>> /\ handed = <<>>
        /\ answer = [c \in Callers |-> "none"]
        /\ current = NoCaller
        /\ closePc = [k \in Closers |-> "idle"]
        /\ closeCh = FALSE /\ sealed = FALSE
        /\ writerEnded = FALSE /\ dbClosed = FALSE
        /\ panic = FALSE

-----------------------------------------------------------------------------
(* execWrite                                                               *)

Goto(c, to) == pc' = [pc EXCEPT ![c] = to]

Call(c) == /\ pc[c] = "idle"
           /\ Goto(c, "sending")
           /\ UNCHANGED <<ended, queue, answer, shut, panic>>

\* The branches of the first select that are ready; Go picks any.  A send on a
\* closed channel is ready, and panics.
GiveUp(c) == /\ pc[c] = "sending" /\ c \in ended
             /\ Goto(c, "gaveUp")
             /\ UNCHANGED <<ended, queue, answer, shut, panic>>

Refuse(c) == /\ pc[c] = "sending" /\ closeCh
             /\ Goto(c, "refused")
             /\ UNCHANGED <<ended, queue, answer, shut, panic>>

Send(c) == /\ pc[c] = "sending" /\ ~sealed
           /\ Len(writeCh) < QueueCap
           /\ writeCh' = Append(writeCh, c)
           /\ handed' = Append(handed, c)
           /\ Goto(c, "waiting")
           /\ UNCHANGED <<ended, current, written, answer, shut, panic>>

SendOnClosed(c) == /\ pc[c] = "sending" /\ sealed
                   /\ panic' = TRUE
                   /\ UNCHANGED <<pc, ended, queue, answer, shut>>

\* The second select.
StopWaiting(c) == /\ pc[c] = "waiting" /\ c \in ended
                  /\ Goto(c, "gaveUp")
                  /\ UNCHANGED <<ended, queue, answer, shut, panic>>

Receive(c) == /\ pc[c] = "waiting" /\ answer[c] # "none"
              /\ Goto(c, answer[c])
              /\ UNCHANGED <<ended, queue, answer, shut, panic>>

ExecWrite(c) == \/ GiveUp(c) \/ Refuse(c) \/ Send(c) \/ SendOnClosed(c)
                \/ StopWaiting(c) \/ Receive(c)

EndCtx(c) == /\ c \notin ended /\ pc[c] \in {"sending", "waiting"}
             /\ ended' = ended \cup {c}
             /\ UNCHANGED <<pc, queue, answer, shut, panic>>

-----------------------------------------------------------------------------
(* writeLoop                                                               *)

\* The next request; one whose context has ended is answered and left.
Take == /\ current = NoCaller /\ writeCh # <<>>
        /\ LET c == Head(writeCh)
           IN IF c \in ended
              THEN /\ answer' = [answer EXCEPT ![c] = "failed"]
                   /\ UNCHANGED current
              ELSE /\ current' = c
                   /\ UNCHANGED answer
        /\ writeCh' = Tail(writeCh)
        /\ UNCHANGED <<pc, ended, written, handed, shut, panic>>

\* Mutants: the answer is sent before the statement has run; the answer is
\* sent to a caller still there, and the loop goes on without it.
Execute_AnswerFirst ==
  /\ current # NoCaller
  /\ \/ /\ answer[current] = "none"
        /\ answer' = [answer EXCEPT ![current] = "ok"]
        /\ UNCHANGED <<current, written>>
     \/ /\ answer[current] # "none"
        /\ \/ written' = Append(written, current)
           \/ UNCHANGED written
        /\ current' = NoCaller
        /\ UNCHANGED answer
  /\ UNCHANGED <<pc, ended, writeCh, handed, shut, panic>>

Execute_NoAnswer ==
  /\ current # NoCaller
  /\ \/ /\ written' = Append(written, current)
        /\ answer' = [answer EXCEPT ![current] = "ok"]
     \/ UNCHANGED <<written, answer>>
  /\ current' = NoCaller
  /\ UNCHANGED <<pc, ended, writeCh, handed, shut, panic>>

\* The statement is carried out, or fails: a constraint, or its context.
Execute == /\ current # NoCaller
           /\ \/ /\ written' = Append(written, current)
                 /\ answer' = [answer EXCEPT ![current] = "ok"]
              \/ /\ answer' = [answer EXCEPT ![current] = "failed"]
                 /\ UNCHANGED written
           /\ current' = NoCaller
           /\ UNCHANGED <<pc, ended, writeCh, handed, shut, panic>>

\* range over a closed and empty channel.
EndLoop == /\ current = NoCaller /\ writeCh = <<>> /\ sealed /\ ~writerEnded
           /\ writerEnded' = TRUE
           /\ UNCHANGED <<pc, ended, queue, answer, closePc, closeCh, sealed,
                          dbClosed, panic>>

WriteLoop == ~writerEnded /\ (Take \/ Execute \/ EndLoop)

-----------------------------------------------------------------------------
(* Close: the test and the close of closeCh are two steps                  *)

Step(k, from, to) == closePc[k] = from /\ closePc' = [closePc EXCEPT ![k] = to]

TestClosed(k) == /\ Step(k, "idle", IF closeCh THEN "returned" ELSE "closing")
                 /\ UNCHANGED <<pc, ended, queue, answer, closeCh, sealed, writerEnded,
                                dbClosed, panic>>

\* Closing a closed channel panics.
CloseCloseCh(k) == /\ Step(k, "closing", "sealing")
                   /\ panic' = closeCh
                   /\ closeCh' = TRUE
                   /\ UNCHANGED <<pc, ended, queue, answer, sealed, writerEnded, dbClosed>>

CloseWriteCh(k) == /\ Step(k, "sealing", "draining")
                   /\ sealed' = TRUE
                   /\ UNCHANGED <<pc, ended, queue, answer, closeCh, writerEnded, dbClosed,
                                  panic>>

\* Mutant: Close does not wait for the writer.
CloseDB_NoWait(k) == /\ Step(k, "draining", "returned")
                     /\ dbClosed' = TRUE
                     /\ UNCHANGED <<pc, ended, queue, answer, closeCh, sealed,
                                    writerEnded, panic>>

\* s.wg.Wait, then s.db.Close.
CloseDB(k) == /\ Step(k, "draining", "returned")
              /\ writerEnded
              /\ dbClosed' = TRUE
              /\ UNCHANGED <<pc, ended, queue, answer, closeCh, sealed, writerEnded,
                             panic>>

Close(k) == TestClosed(k) \/ CloseCloseCh(k) \/ CloseWriteCh(k) \/ CloseDB(k)

Next == /\ ~panic
        /\ \/ \E c \in Callers : Call(c) \/ ExecWrite(c) \/ EndCtx(c)
           \/ WriteLoop
           \/ \E k \in Closers : Close(k)

Spec == Init /\ [][Next]_vars

\* Go runs every goroutine that can run, and a statement ends.
Fairness == /\ \A c \in Callers : WF_vars(~panic /\ ExecWrite(c))
            /\ WF_vars(~panic /\ WriteLoop)
            /\ \A k \in Closers : WF_vars(~panic /\ (CloseCloseCh(k) \/ CloseWriteCh(k)
                                                     \/ CloseDB(k)))
FairSpec == Spec /\ Fairness

-----------------------------------------------------------------------------
(* Properties                                                              *)

TypeOK == /\ pc \in [Callers -> {"idle", "sending", "waiting"} \cup Returned]
          /\ ended \subseteq Callers
          /\ writeCh \in Seq(Callers) /\ Len(writeCh) <= QueueCap
          /\ written \in Seq(Callers) /\ handed \in Seq(Callers)
          /\ answer \in [Callers -> {"none", "ok", "failed"}]
          /\ current \in Callers \cup {NoCaller}
          /\ closePc \in [Closers -> {"idle", "closing", "sealing", "draining",
                                      "returned"}]
          /\ {closeCh, sealed, writerEnded, dbClosed, panic} \subseteq BOOLEAN

\* A caller told that its write succeeded finds it in the database, and one told
\* that it failed or was refused does not; only who gave up cannot know.
AnswerIsTrue ==
  \A c \in Callers : /\ pc[c] = "ok" => In(c, written)
                     /\ pc[c] \in {"failed", "refused"} => ~In(c, written)

\* Writes are carried out in the order they were handed over, each once.
OneByOne ==
  \A i, j \in DOMAIN written : i < j =>
    \E m, n \in DOMAIN handed : m < n /\ handed[m] = written[i]
                                      /\ handed[n] = written[j]

\* "Close gracefully flushes pending write operations and closes the database":
\* no request is carried out after it, nor left without an answer.
CloseFlushes ==
  dbClosed => /\ writeCh = <<>> /\ current = NoCaller
              /\ \A c \in Callers : pc[c] = "waiting" => answer[c] # "none"

\* A write returns, also when the store is closed under it.
WritesReturn == \A c \in Callers : pc[c] = "sending" ~> pc[c] \in Returned \/ panic

\* "ErrStoreClosed is returned when an operation is attempted on a closed store."
ClosedIsAnError == ~panic
=============================================================================
