------------------------------ MODULE StoreProofs ------------------------------
(***************************************************************************)
(* For every number of callers and closers and every capacity of the       *)
(* queue: an answer tells what the writer did, and Close leaves no request *)
(* behind.                                                                 *)
(***************************************************************************)
EXTENDS Store, TLAPS

Types == /\ pc \in [Callers -> {"idle", "sending", "waiting"} \cup Returned]
         /\ writeCh \in Seq(Callers) /\ written \in Seq(Callers)
         /\ answer \in [Callers -> {"none", "ok", "failed"}]
         /\ current \in Callers \cup {NoCaller}

\* A request is in one place: not handed over, queued, with the writer, or
\* answered; and what it is answered says where its statement went.
Handed(c) == In(c, writeCh) \/ current = c

Unanswered == \A c \in Callers :
                Handed(c) => answer[c] = "none" /\ ~In(c, written)
Unqueued == \A c \in Callers :
              pc[c] \in {"idle", "sending", "refused"} =>
                ~Handed(c) /\ answer[c] = "none" /\ ~In(c, written)
Answered == \A c \in Callers :
              /\ answer[c] = "ok" => In(c, written)
              /\ answer[c] = "failed" => ~In(c, written)
              /\ pc[c] \in {"ok", "failed"} => answer[c] = pc[c]
Waits == \A c \in Callers : pc[c] = "waiting" => Handed(c) \/ answer[c] # "none"
OnceQueued == /\ \A i, j \in DOMAIN writeCh : i # j => writeCh[i] # writeCh[j]
              /\ current # NoCaller => ~In(current, writeCh)
Shut == /\ writerEnded => sealed /\ writeCh = <<>> /\ current = NoCaller
        /\ dbClosed => writerEnded

IInv == Types /\ Unanswered /\ Unqueued /\ Answered /\ Waits /\ OnceQueued /\ Shut

LEMMA InAppend ==
  ASSUME NEW s \in Seq(Callers), NEW c \in Callers, NEW d \in Callers
  PROVE  In(d, Append(s, c)) <=> In(d, s) \/ d = c
BY DEF In

\* The head and the tail of a queue without duplicates share nothing.
LEMMA InTail ==
  ASSUME NEW s \in Seq(Callers), s # <<>>,
         \A i, j \in DOMAIN s : i # j => s[i] # s[j]
  PROVE  /\ Head(s) \in Callers /\ Tail(s) \in Seq(Callers)
         /\ \A d \in Callers : In(d, Tail(s)) <=> In(d, s) /\ d # Head(s)
         /\ \A i, j \in DOMAIN Tail(s) : i # j => Tail(s)[i] # Tail(s)[j]
<1>1. /\ Head(s) = s[1] /\ Head(s) \in Callers /\ Tail(s) \in Seq(Callers)
      /\ Len(s) \in Nat /\ Len(s) >= 1
  OBVIOUS
<1>2. /\ DOMAIN Tail(s) = 1..(Len(s) - 1) /\ DOMAIN s = 1..Len(s)
      /\ \A i \in DOMAIN Tail(s) : Tail(s)[i] = s[i + 1]
  OBVIOUS
<1>3. ASSUME NEW d \in Callers PROVE In(d, Tail(s)) <=> In(d, s) /\ d # Head(s)
  <2>1. ASSUME NEW i \in DOMAIN Tail(s), Tail(s)[i] = d PROVE In(d, s) /\ d # Head(s)
    <3>1. i + 1 \in DOMAIN s /\ s[i + 1] = d /\ i + 1 # 1 /\ 1 \in DOMAIN s
      BY <1>1, <1>2, <2>1
    <3>2. QED
      BY <3>1, <1>1 DEF In
  <2>2. ASSUME NEW i \in DOMAIN s, s[i] = d, d # Head(s) PROVE In(d, Tail(s))
    <3>1. i - 1 \in DOMAIN Tail(s) /\ Tail(s)[i - 1] = d
      BY <1>1, <1>2, <2>2
    <3>2. QED
      BY <3>1 DEF In
  <2>3. QED
    BY <2>1, <2>2 DEF In
<1>4. ASSUME NEW i \in DOMAIN Tail(s), NEW j \in DOMAIN Tail(s), i # j
      PROVE  Tail(s)[i] # Tail(s)[j]
  BY <1>1, <1>2, <1>4
<1>5. QED
  BY <1>1, <1>3, <1>4

LEMMA InitIInv == Init => IInv
<1> SUFFICES ASSUME Init PROVE IInv
  OBVIOUS
<1>1. Types
  BY DEF Init, Types
<1>2. \A c \in Callers : ~In(c, writeCh) /\ ~In(c, written) /\ current # c
  BY CallersAssumption DEF Init, In
<1>3. Unanswered /\ Unqueued /\ Answered /\ Waits
  BY <1>2 DEF Init, Unanswered, Unqueued, Answered, Waits, Handed
<1>4. OnceQueued /\ Shut
  BY DEF Init, OnceQueued, Shut
<1>5. QED
  BY <1>1, <1>3, <1>4 DEF IInv

\* What a caller does alone: its pc changes, and nothing of the queue.
LEMMA CallerKeeps ==
  ASSUME IInv, NEW c \in Callers,
         \/ Call(c) \/ GiveUp(c) \/ Refuse(c) \/ SendOnClosed(c) \/ StopWaiting(c)
         \/ Receive(c) \/ EndCtx(c)
  PROVE  IInv'
<1> USE DEF IInv, Call, GiveUp, Refuse, SendOnClosed, StopWaiting, Receive, EndCtx,
            Goto, queue, shut, In
<1>1. Types'
  BY DEF Types, Returned
<1>2. Unanswered' /\ OnceQueued' /\ Shut'
  BY DEF Unanswered, OnceQueued, Shut, Handed
<1>3. Unqueued'
  BY DEF Types, Unqueued, Handed
<1>4. Answered' /\ Waits'
  BY DEF Types, Answered, Waits, Handed
<1>5. QED
  BY <1>1, <1>2, <1>3, <1>4

LEMMA SendKeeps == ASSUME IInv, NEW c \in Callers, Send(c) PROVE IInv'
<1> USE DEF IInv, Send, Goto, shut
<1>1. /\ ~Handed(c) /\ answer[c] = "none" /\ ~In(c, written)
      /\ writeCh \in Seq(Callers) /\ writeCh' = Append(writeCh, c)
      /\ UNCHANGED <<answer, current, written>>
  BY DEF Unqueued, Types
<1>2. \A d \in Callers : In(d, writeCh)' <=> In(d, writeCh) \/ d = c
  BY <1>1, InAppend DEF In
<1>3. Types'
  BY <1>1 DEF Types, Returned
<1>4. Unanswered'
  BY <1>1, <1>2 DEF Unanswered, Handed, In
<1>5. Unqueued'
  BY <1>1, <1>2 DEF Types, Unqueued, Handed, In
<1>6. Answered' /\ Waits'
  <2>1. \A d \in Callers : Handed(d)' <=> Handed(d) \/ d = c
    BY <1>1, <1>2 DEF Handed
  <2>2. \A d \in Callers : d # c => pc'[d] = pc[d]
    BY DEF Types
  <2>3. pc'[c] = "waiting"
    BY DEF Types
  <2>4. Answered'
    BY <1>1, <2>2, <2>3 DEF Answered, In
  <2>5. Waits'
    BY <1>1, <2>1, <2>2 DEF Waits
  <2>6. QED
    BY <2>4, <2>5
<1>7. OnceQueued'
  <2>1. \A i \in DOMAIN writeCh : writeCh[i] # c
    BY <1>1 DEF Handed, In
  <2>2. \A i, j \in DOMAIN writeCh' : i # j => writeCh'[i] # writeCh'[j]
    BY <1>1, <2>1 DEF OnceQueued
  <2>3. current # NoCaller => ~In(current, writeCh)'
    BY <1>1, <1>2 DEF Types, OnceQueued, Handed, In
  <2>4. QED
    BY <1>1, <2>2, <2>3 DEF OnceQueued, In
<1>8. Shut'
  BY DEF Shut
<1>9. QED
  BY <1>3, <1>4, <1>5, <1>6, <1>7, <1>8

LEMMA TakeKeeps == ASSUME IInv, Take, ~writerEnded PROVE IInv'
<1> DEFINE h == Head(writeCh)
<1> USE DEF IInv
<1>1. /\ h \in Callers /\ writeCh' \in Seq(Callers)
      /\ \A d \in Callers : In(d, writeCh)' <=> In(d, writeCh) /\ d # h
      /\ \A i, j \in DOMAIN writeCh' : i # j => writeCh'[i] # writeCh'[j]
  BY InTail DEF Take, Types, OnceQueued, In
<1>2. In(h, writeCh) /\ Handed(h) /\ answer[h] = "none" /\ ~In(h, written)
  <2>1. In(h, writeCh)
    BY <1>1 DEF Take, Types, In
  <2>2. QED
    BY <2>1, <1>1 DEF Unanswered, Handed
<1>3. /\ current = NoCaller /\ UNCHANGED <<pc, written, writerEnded, dbClosed>>
      /\ \/ answer' = [answer EXCEPT ![h] = "failed"] /\ current' = current
         \/ answer' = answer /\ current' = h
  BY DEF Take, shut
<1> HIDE DEF h
<1>4. Types'
  BY <1>1, <1>3 DEF Types
<1>5. Unanswered' /\ Waits'
  BY <1>1, <1>2, <1>3, CallersAssumption DEF Types, Unanswered, Waits, Handed, In
<1>6. Unqueued'
  BY <1>1, <1>2, <1>3, CallersAssumption DEF Types, Unqueued, Handed, In
<1>7. Answered'
  BY <1>1, <1>2, <1>3 DEF Types, Answered, In
<1>8. OnceQueued'
  BY <1>1, <1>3 DEF OnceQueued, In
<1>9. Shut'
  BY <1>3 DEF Shut
<1>10. QED
  BY <1>4, <1>5, <1>6, <1>7, <1>8, <1>9

LEMMA ExecuteKeeps == ASSUME IInv, Execute, ~writerEnded PROVE IInv'
<1> USE DEF IInv
<1>1. /\ current \in Callers /\ current' = NoCaller
      /\ answer[current] = "none" /\ ~In(current, written) /\ ~In(current, writeCh)
      /\ UNCHANGED <<pc, writeCh, writerEnded, dbClosed>>
  BY DEF Execute, Types, Unanswered, OnceQueued, Handed, shut
<1>2. \/ /\ written' = Append(written, current)
         /\ answer' = [answer EXCEPT ![current] = "ok"]
      \/ /\ written' = written
         /\ answer' = [answer EXCEPT ![current] = "failed"]
  BY DEF Execute
<1>3. /\ written \in Seq(Callers)
      /\ answer \in [Callers -> {"none", "ok", "failed"}]
      /\ pc \in [Callers -> {"idle", "sending", "waiting"} \cup Returned]
      /\ writeCh \in Seq(Callers)
  BY DEF Types
<1>4. /\ \A d \in Callers : d # current => (In(d, written)' <=> In(d, written))
      /\ answer'[current] = "ok" => In(current, written')
      /\ answer'[current] = "failed" => ~In(current, written')
      /\ \A d \in Callers : d # current => answer'[d] = answer[d]
  <2>1. CASE /\ written' = Append(written, current)
             /\ answer' = [answer EXCEPT ![current] = "ok"]
    <3>1. \A d \in Callers : In(d, Append(written, current)) <=> In(d, written) \/ d = current
      BY <1>1, <1>3, InAppend
    <3>2. answer'[current] = "ok" /\ \A d \in Callers : d # current => answer'[d] = answer[d]
      BY <1>1, <1>3, <2>1
    <3>3. \A d \in Callers : In(d, written') <=> In(d, written) \/ d = current
      BY <2>1, <3>1
    <3>4. QED
      BY <1>1, <3>2, <3>3 DEF In
  <2>2. CASE /\ written' = written
             /\ answer' = [answer EXCEPT ![current] = "failed"]
    <3>1. answer'[current] = "failed" /\ \A d \in Callers : d # current => answer'[d] = answer[d]
      BY <1>1, <1>3, <2>2
    <3>2. QED
      BY <1>1, <2>2, <3>1 DEF In
  <2>3. QED
    BY <1>2, <2>1, <2>2
<1>5. written' \in Seq(Callers) /\ answer' \in [Callers -> {"none", "ok", "failed"}]
  <2>1. Append(written, current) \in Seq(Callers)
    BY <1>1, <1>3
  <2>2. QED
    BY <1>1, <1>2, <1>3, <2>1
<1>6. Types'
  BY <1>1, <1>3, <1>5 DEF Types
<1>7. Unanswered'
  BY <1>1, <1>3, <1>4, CallersAssumption DEF Types, Unanswered, Handed, In
<1>8. Unqueued'
  BY <1>1, <1>3, <1>4, CallersAssumption DEF Types, Unqueued, Handed, In
<1>9. Answered'
  <2> SUFFICES ASSUME NEW c \in Callers
               PROVE  /\ answer'[c] = "ok" => In(c, written')
                      /\ answer'[c] = "failed" => ~In(c, written')
                      /\ pc[c] \in {"ok", "failed"} => answer'[c] = pc[c]
    BY <1>1 DEF Answered, In
  <2>1. CASE c = current
    <3>1. pc[current] \notin {"ok", "failed"}
      BY <1>1 DEF Answered
    <3>2. QED
      BY <2>1, <3>1, <1>4
  <2>2. CASE c # current
    BY <2>2, <1>1, <1>4 DEF Answered, In
  <2>3. QED
    BY <2>1, <2>2
<1>10. Waits'
  BY <1>1, <1>2, <1>3, <1>4, CallersAssumption DEF Waits, Handed, In
<1>11. OnceQueued' /\ Shut'
  BY <1>1 DEF OnceQueued, Shut, In
<1>12. QED
  BY <1>6, <1>7, <1>8, <1>9, <1>10, <1>11

\* Closing seals the queue and, once the writer has drained it, the database.
LEMMA CloseKeeps ==
  ASSUME IInv, EndLoop \/ \E k \in Closers : Close(k) PROVE IInv'
<1> USE DEF IInv
<1>1. /\ UNCHANGED <<pc, writeCh, written, answer, current>>
      /\ writerEnded' => writerEnded \/ (sealed /\ writeCh = <<>> /\ current = NoCaller)
      /\ dbClosed' => dbClosed \/ writerEnded
      /\ sealed => sealed'
      /\ writerEnded => writerEnded'
  BY DEF EndLoop, Close, TestClosed, CloseCloseCh, CloseWriteCh, CloseDB, Step, queue
<1>2. Types' /\ Unanswered' /\ Unqueued' /\ Answered' /\ Waits' /\ OnceQueued'
  BY <1>1 DEF Types, Unanswered, Unqueued, Answered, Waits, OnceQueued, Handed, In
<1>3. (sealed' /\ writeCh' = <<>> /\ current' = NoCaller) \/ ~writerEnded'
  <2>1. CASE EndLoop
    BY <2>1 DEF EndLoop, queue
  <2>2. CASE \E k \in Closers : Close(k)
    BY <2>2, <1>1 DEF Shut, Close, TestClosed, CloseCloseCh, CloseWriteCh, CloseDB
  <2>3. QED
    BY <2>1, <2>2
<1>4. QED
  BY <1>1, <1>2, <1>3 DEF Shut

LEMMA StepKeeps == IInv /\ [Next]_vars => IInv'
<1> SUFFICES ASSUME IInv, [Next]_vars PROVE IInv'
  OBVIOUS
<1>1. CASE UNCHANGED vars
  BY <1>1 DEF vars, IInv, Types, Unanswered, Unqueued, Answered, Waits, OnceQueued,
              Shut, Handed, In
<1>2. ASSUME NEW c \in Callers, Call(c) \/ ExecWrite(c) \/ EndCtx(c) PROVE IInv'
  BY <1>2, CallerKeeps, SendKeeps DEF ExecWrite
<1>3. CASE WriteLoop
  BY <1>3, TakeKeeps, ExecuteKeeps, CloseKeeps DEF WriteLoop
<1>4. ASSUME NEW k \in Closers, Close(k) PROVE IInv'
  BY <1>4, CloseKeeps
<1>5. QED
  BY <1>1, <1>2, <1>3, <1>4 DEF Next

\* The inductive invariant of the queue.
THEOREM QueueInvariant == Spec => []IInv
BY InitIInv, StepKeeps, PTL DEF Spec

\* What execWrite returns is what the writer did (store.go:128-162): "ok" for a
\* statement carried out, an error for one that was not.
THEOREM AnswersAreTrue == Spec => []AnswerIsTrue
<1>1. IInv => AnswerIsTrue
  BY DEF IInv, Unqueued, Answered, AnswerIsTrue
<1>2. QED
  BY <1>1, QueueInvariant, PTL

\* Close returns with the queue empty and every request answered (store.go:165-176).
THEOREM ClosingFlushes == Spec => []CloseFlushes
<1>1. IInv => CloseFlushes
  <2> SUFFICES ASSUME IInv, dbClosed PROVE CloseFlushes
    BY DEF CloseFlushes
  <2>1. writeCh = <<>> /\ current = NoCaller
    BY DEF IInv, Shut
  <2>2. \A c \in Callers : ~Handed(c)
    BY <2>1, CallersAssumption DEF Handed, In
  <2>3. QED
    BY <2>1, <2>2 DEF IInv, Waits, CloseFlushes
<1>2. QED
  BY <1>1, QueueInvariant, PTL
================================================================================
