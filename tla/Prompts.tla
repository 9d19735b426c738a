-------------------------------- MODULE Prompts --------------------------------
(***************************************************************************)
(* The approval prompts of `reminis run` on a terminal.  The handler is    *)
(* called by the goroutine of each gated task: it writes its prompt and    *)
(* reads a line from one bufio.Reader that all of them share, without a    *)
(* lock.  The human answers the prompt that is last on the screen.         *)
(***************************************************************************)
EXTENDS Naturals, Sequences

CONSTANTS Tasks,   \* gated tasks
          Plans    \* what the plan may be: for each task, those it depends on

PlansAssumption == Plans \subseteq [Tasks -> SUBSET Tasks]

None == "none"
NamesAssumption == None \notin Tasks
Answers == {"yes", "no"}

VARIABLES
  dependsOn,  \* the plan
  gate,       \* of each task: "pending", "reading", "approved", "waiting"
  shown,      \* the task of the last prompt on the screen
  typed,      \* the lines in standard input, not read yet
  meant,      \* history: the human's answer for each task
  eof         \* standard input is closed

vars == <<dependsOn, gate, shown, typed, meant, eof>>

Init == /\ dependsOn \in Plans
        /\ gate = [t \in Tasks |-> "pending"]
        /\ shown = None /\ typed = <<>>
        /\ meant = [t \in Tasks |-> None]
        /\ eof = FALSE

\* The task is ready: what it depends on has been approved and has run.
Ask(t) == /\ gate[t] = "pending"
          /\ \A d \in dependsOn[t] : gate[d] = "approved"
          /\ gate' = [gate EXCEPT ![t] = "reading"]
          /\ shown' = t
          /\ UNCHANGED <<dependsOn, typed, meant, eof>>

Answer(a) == /\ shown # None /\ ~eof /\ meant[shown] = None
             /\ typed' = Append(typed, a)
             /\ meant' = [meant EXCEPT ![shown] = a]
             /\ UNCHANGED <<dependsOn, gate, shown, eof>>

CloseStdin == /\ ~eof /\ eof' = TRUE
              /\ UNCHANGED <<dependsOn, gate, shown, typed, meant>>

\* Mutant: anything but a "no" approves, the end of the input too.
Verdict_Default(a) == IF a = "no" THEN "waiting" ELSE "approved"

\* "y" and "yes" approve; an error of the read is a "no".
Verdict(a) == IF a = "yes" THEN "approved" ELSE "waiting"

Decide(ts, a) ==
  gate' = [t \in Tasks |-> IF t \in ts THEN Verdict(a) ELSE gate[t]]

\* Any of the readers gets the next line.
ReadLine(t) == /\ gate[t] = "reading" /\ typed # <<>>
               /\ Decide({t}, Head(typed)) /\ typed' = Tail(typed)
               /\ UNCHANGED <<dependsOn, shown, meant, eof>>

\* Two goroutines inside one bufio.Reader: both may find the line in the buffer,
\* or it is overwritten before either does.
ReadTogether(t, u) == /\ t # u /\ gate[t] = "reading" /\ gate[u] = "reading"
                      /\ typed # <<>> /\ typed' = Tail(typed)
                      /\ Decide({t, u}, Head(typed)) \/ UNCHANGED gate
                      /\ UNCHANGED <<dependsOn, shown, meant, eof>>

ReadEnds(t) == /\ gate[t] = "reading" /\ typed = <<>> /\ eof
               /\ Decide({t}, None)
               /\ UNCHANGED <<dependsOn, shown, typed, meant, eof>>

Next == \/ \E t \in Tasks : Ask(t) \/ ReadLine(t) \/ ReadEnds(t)
        \/ \E t, u \in Tasks : ReadTogether(t, u)
        \/ \E a \in Answers : Answer(a)
        \/ CloseStdin

Spec == Init /\ [][Next]_vars

-----------------------------------------------------------------------------
(* Properties                                                              *)

\* The variables are of their types, and a gate that waits on the human or has
\* been answered follows only approved ones.
TypeOK == /\ dependsOn \in Plans
          /\ gate \in [Tasks -> {"pending", "reading", "approved", "waiting"}]
          /\ shown \in Tasks \cup {None}
          /\ typed \in Seq(Answers)
          /\ meant \in [Tasks -> Answers \cup {None}]
          /\ eof \in BOOLEAN
          /\ \A t \in Tasks, d \in Tasks :
               gate[t] # "pending" /\ d \in dependsOn[t] => gate[d] = "approved"

\* Nothing is approved unless the human has said "yes" to something: the end of
\* the input, an error and an empty line never approve.
SomebodySaidYes == (\E t \in Tasks : gate[t] = "approved")
                     => \E t \in Tasks : meant[t] = "yes"

\* A task is approved only by a "yes" to its own prompt ("Approve execution?",
\* main.go:169; docs/cli.md: "Approve task task_write? (y/N): y").
OwnYes == \A t \in Tasks : gate[t] = "approved" => meant[t] = "yes"

\* Of any two gated tasks one waits for the other.
OneAtATime == \A t, u \in Tasks : t # u => t \in dependsOn[u] \/ u \in dependsOn[t]

\* With one gate at a time each is approved by its own answer, and in any case by
\* some answer; with two at once the answer to one may approve the other.
ApprovedByItsAnswer == TypeOK /\ SomebodySaidYes /\ (OneAtATime => OwnYes)
===============================================================================
