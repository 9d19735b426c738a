------------------------------ MODULE Telemetry ------------------------------
(***************************************************************************)
(* orchestrator.EventEmitter and its two kinds of subscribers: the printer *)
(* that a command of the CLI starts, and watchers that use the SDK.  The   *)
(* goroutine of the run and the goroutines of its tasks publish under the  *)
(* read lock, one send per subscriber, and a send into a full buffer is    *)
(* dropped; subscribing and unsubscribing take the write lock.             *)
(***************************************************************************)
EXTENDS Naturals, Sequences, FiniteSets, SequencesExt

CONSTANTS Tasks,
          Watchers,    \* SDK subscribers; they read, or they do not
          BufferSize,  \* capacity of a subscriber's channel
          MayAbort     \* TRUE: a program on the SDK may cancel the run's context;
                       \* the command of the CLI never does before the run's end

BufferAssumption == BufferSize \in Nat \ {0}
MayAbortAssumption == MayAbort \in BOOLEAN

Run == "run"
Printer == "printer"
Publishers == Tasks \cup {Run}
Subscribers == Watchers \cup {Printer}
Events == [type : {"started", "completed"}, by : Publishers]

NamesAssumption == Run \notin Tasks /\ Printer \notin Watchers

VARIABLES
  stage,    \* of each publisher: "idle", "started", "completed"
  left,     \* the subscribers a Publish in progress has still to send to
  sending,  \* its event; Publish holds the read lock while left is not empty
  subs,     \* EventEmitter.subs
  closed,   \* the closed channels
  buf,      \* the channels
  seen,     \* history: what each subscriber has received
  aborted,  \* the run's context was cancelled while it ran
  cli       \* the command: "new", "running", "cancelled", "printed", "exited"

vars == <<stage, left, sending, subs, closed, buf, seen, aborted, cli>>
emitter == <<stage, left, sending, aborted>>

Idle == [type |-> "none", by |-> Run]

Init == /\ stage = [p \in Publishers |-> "idle"]
        /\ left = [p \in Publishers |-> {}]
        /\ sending = [p \in Publishers |-> Idle]
        /\ subs = {} /\ closed = {}
        /\ buf = [s \in Subscribers |-> <<>>]
        /\ seen = [s \in Subscribers |-> <<>>]
        /\ aborted = FALSE /\ cli = "new"

\* Nobody is inside Publish: the write lock can be had.
NoReader == \A p \in Publishers : left[p] = {}

-----------------------------------------------------------------------------
(* The emitter                                                             *)

Subscribe(s) == /\ NoReader
                /\ s \notin subs \cup closed
                /\ subs' = subs \cup {s}
                /\ cli' = IF s = Printer THEN "running" ELSE cli
                /\ (s = Printer) => cli = "new"
                /\ UNCHANGED <<emitter, closed, buf, seen>>

\* Mutant: the channel is closed without the lock.
CloseChannel_NoLock(s) == /\ s \in subs
                          /\ subs' = subs \ {s} /\ closed' = closed \cup {s}

\* delete and close, under the write lock; sync.Once lets only the first call in.
CloseChannel(s) == /\ NoReader
                   /\ s \in subs
                   /\ subs' = subs \ {s} /\ closed' = closed \cup {s}

Unsubscribe(s) == /\ s \in Watchers
                  /\ CloseChannel(s)
                  /\ UNCHANGED <<emitter, buf, seen, cli>>

\* Publish takes the read lock and goes through the subscribers there are.
Publish(p, type) == /\ left[p] = {}
                    /\ left' = [left EXCEPT ![p] = subs]
                    /\ sending' = [sending EXCEPT ![p] = [type |-> type, by |-> p]]
                    /\ stage' = [stage EXCEPT ![p] = type]
                    /\ UNCHANGED <<subs, closed, buf, seen, aborted, cli>>

\* Mutant: the send waits for room.
Deliver_Blocking(s, e) == /\ Len(buf[s]) < BufferSize
                          /\ buf' = [buf EXCEPT ![s] = Append(@, e)]

\* A full buffer drops the event.
Deliver(s, e) == buf' = IF Len(buf[s]) < BufferSize
                        THEN [buf EXCEPT ![s] = Append(@, e)] ELSE buf

\* The range over a map visits the subscribers in any order.
Send(p, s) == /\ s \in left[p]
              /\ Deliver(s, sending[p])
              /\ left' = [left EXCEPT ![p] = @ \ {s}]
              /\ UNCHANGED <<stage, sending, subs, closed, seen, aborted, cli>>

-----------------------------------------------------------------------------
(* The publishers                                                          *)

Published(p, type) == stage[p] = type /\ left[p] = {}

\* RUN_STARTED, before the scheduler starts.
StartRun == cli = "running" /\ stage[Run] = "idle" /\ Publish(Run, "started")

StartTask(t) == /\ Published(Run, "started") /\ stage[t] = "idle"
                /\ Publish(t, "started")

CompleteTask(t) == Published(t, "started") /\ Publish(t, "completed")

\* RUN_FINISHED, when the scheduler has returned: it waits for the tasks in
\* flight unless the context has been cancelled.
FinishRun == /\ Published(Run, "started")
             /\ \/ aborted
                \/ \A t \in Tasks : stage[t] = "idle" \/ Published(t, "completed")
             /\ Publish(Run, "completed")

Abort == /\ MayAbort /\ cli = "running" /\ aborted' = TRUE
         /\ UNCHANGED <<stage, left, sending, subs, closed, buf, seen, cli>>

-----------------------------------------------------------------------------
(* The subscribers                                                         *)

Receive(s) == /\ buf[s] # <<>>
              /\ seen' = [seen EXCEPT ![s] = Append(@, Head(buf[s]))]
              /\ buf' = [buf EXCEPT ![s] = Tail(@)]

\* A watcher ranges over its channel; a closed channel is drained first.
Watch(w) == Receive(w) /\ UNCHANGED <<emitter, subs, closed, cli>>

\* The printer's select has both cases ready when the run has returned: it
\* takes either.
ShowEvent == /\ cli \in {"running", "cancelled"}
             /\ Receive(Printer)
             /\ UNCHANGED <<emitter, subs, closed, cli>>

StopPrinting == /\ cli = "cancelled" /\ cli' = "printed"
                /\ UNCHANGED <<emitter, subs, closed, buf, seen>>

\* c.Run returns; the command cancels the context and waits for the printer.
Cancel == /\ cli = "running" /\ Published(Run, "completed")
          /\ cli' = "cancelled"
          /\ UNCHANGED <<emitter, subs, closed, buf, seen>>

\* The summary is printed; the deferred calls unsubscribe.
Exit == /\ cli = "printed" /\ cli' = "exited"
        /\ CloseChannel(Printer)
        /\ UNCHANGED <<emitter, buf, seen>>

Next == \/ \E s \in Subscribers : Subscribe(s) \/ Unsubscribe(s)
        \/ \E p \in Publishers, s \in Subscribers : Send(p, s)
        \/ StartRun \/ FinishRun
        \/ \E t \in Tasks : StartTask(t) \/ CompleteTask(t)
        \/ \E w \in Watchers : Watch(w)
        \/ ShowEvent \/ StopPrinting \/ Cancel \/ Exit \/ Abort

Spec == Init /\ [][Next]_vars

\* The publishers and the command run; nothing is assumed of the watchers, and
\* subscribing is up to them.
FairSpec == /\ Spec
            /\ \A p \in Publishers : WF_vars(\E s \in Subscribers : Send(p, s))
            /\ WF_vars(StartRun) /\ WF_vars(FinishRun)
            /\ \A t \in Tasks : WF_vars(CompleteTask(t))
            /\ WF_vars(Subscribe(Printer))
            /\ WF_vars(StopPrinting) /\ WF_vars(Cancel) /\ WF_vars(Exit)

-----------------------------------------------------------------------------
(* Properties                                                              *)

\* The variables are of their types: a channel never holds more than its buffer.
TypeOK == /\ stage \in [Publishers -> {"idle", "started", "completed"}]
          /\ left \in [Publishers -> SUBSET Subscribers]
          /\ sending \in [Publishers -> Events \cup {Idle}]
          /\ subs \subseteq Subscribers /\ closed \subseteq Subscribers
          /\ \A s \in Subscribers :
               /\ buf[s] \in Seq(Events) /\ Len(buf[s]) <= BufferSize
               /\ seen[s] \in Seq(Events)
          /\ aborted \in BOOLEAN
          /\ cli \in {"new", "running", "cancelled", "printed", "exited"}

\* A Publish in progress never has a closed channel before it: sending to one
\* panics, and takes the run down (events.go, the lock around close and range).
NoSendOnClosed == \A p \in Publishers : left[p] \cap closed = {}

\* Whatever a subscriber gets is in an order the run could have taken, with gaps
\* where its buffer was full: the run's start is first, its end is last unless it
\* was aborted, a task starts before it completes, and nothing comes twice.
InOrder ==
  \A s \in Subscribers :
    LET got == seen[s] \o buf[s]
    IN \A i, j \in DOMAIN got : i < j =>
         /\ got[j] # [type |-> "started", by |-> Run]
         /\ aborted \/ got[i] # [type |-> "completed", by |-> Run]
         /\ got[i].by = got[j].by => got[i].type = "started" /\ got[j].type = "completed"

\* No event is sent on a closed channel, and what comes is in order.
EventsAreInOrder == TypeOK /\ NoSendOnClosed /\ InOrder

\* A watcher that stops reading never holds the run up, nor does the printer:
\* the command that has started a run comes to its end (Publish: "Buffer full:
\* drop event to avoid deadlocking worker goroutines").
CommandExits == (cli = "running") ~> (cli = "exited")

\* A run reaches the printer in full: docs/cli.md shows the events of a run down
\* to RUN_FINISHED, "streamed in real time".
AllIsPrinted == cli = "exited" /\ BufferSize >= 2 * (1 + Cardinality(Tasks))
                  => [type |-> "completed", by |-> Run] \in ToSet(seen[Printer])
==============================================================================
