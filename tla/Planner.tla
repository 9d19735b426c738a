-------------------------------- MODULE Planner --------------------------------
(***************************************************************************)
(* planner.Plan: ask the model for a task graph, validate it, and feed     *)
(* what is wrong with it back to the model, twice at most.  IDs and keys   *)
(* are sequences of their dotted segments, without the leading "tasks".    *)
(***************************************************************************)
EXTENDS TaskGraph, SequencesExt

CONSTANTS Plans,                \* task lists the model may answer with
          Garbage,              \* an answer that is not a task list
          MaxReflectionAttempts

AttemptsAssumption == MaxReflectionAttempts \in Nat

\* A key that a plan declares is a sequence of segments, as its IDs are.
SegmentsAssumption ==
  \A p \in Plans : p \in Seq([id         : Seq(STRING),
                              dependsOn  : SUBSET Seq(STRING),
                              outputKeys : SUBSET Seq(STRING),
                              hasAction  : BOOLEAN])

VARIABLES
  at,        \* "ask", "asked", "validate", "returned"
  reply,     \* the model's answer: a task list, or Garbage
  reflectionAttempts,
  feedback,  \* history: the replies that the model was told are invalid
  replies,   \* history: all its replies
  ended,     \* the context has ended
  result     \* "none", "ok", "exhausted", "failed", "cancelled"

vars == <<at, reply, reflectionAttempts, feedback, replies, ended, result>>

Init == /\ at = "ask" /\ reply = Garbage /\ reflectionAttempts = 0
        /\ feedback = <<>> /\ replies = <<>>
        /\ ended = FALSE /\ result = "none"

-----------------------------------------------------------------------------
(* parseAndValidateDAG                                                     *)

\* strings.HasPrefix(key, "tasks." + id + ".")
InNamespace(key, id) == IsStrictPrefix(id, key)

\* The empty ID is NoTask.
Accepts(plan) == /\ plan # Garbage /\ plan # <<>>
                 /\ \A i \in DOMAIN plan :
                      /\ plan[i].id # NoTask /\ plan[i].hasAction
                      /\ \A key \in plan[i].outputKeys : InNamespace(key, plan[i].id)
                 /\ ValidateAcyclic(plan)

-----------------------------------------------------------------------------
(* Plan                                                                    *)

Return(what) == at' = "returned" /\ result' = what

EndCtx == /\ at # "returned" /\ ~ended /\ ended' = TRUE
          /\ UNCHANGED <<at, reply, reflectionAttempts, feedback, replies, result>>

\* Mutant: the answer to a reflection is not looked at.
Ask_KeepReply == /\ at = "ask" /\ ~ended
                 /\ \E p \in Plans \cup {Garbage} :
                      /\ reply' = IF replies = <<>> THEN p ELSE reply
                      /\ replies' = Append(replies, p)
                 /\ at' = "validate"
                 /\ UNCHANGED <<reflectionAttempts, feedback, ended, result>>

Ask == /\ at = "ask" /\ ~ended
       /\ \E p \in Plans \cup {Garbage} : reply' = p /\ replies' = Append(replies, p)
       /\ at' = "validate"
       /\ UNCHANGED <<reflectionAttempts, feedback, ended, result>>

\* An error of the client, or an answer without choices.
AskFails == /\ at = "ask" /\ Return("failed")
            /\ UNCHANGED <<reply, reflectionAttempts, feedback, replies, ended>>

MayReflect == reflectionAttempts < MaxReflectionAttempts

\* The top of the loop: the context, the plan, the attempts left.
Validate ==
  /\ at = "validate"
  /\ IF ended THEN Return("cancelled") /\ UNCHANGED <<reflectionAttempts, feedback>>
     ELSE IF Accepts(reply) THEN Return("ok") /\ UNCHANGED <<reflectionAttempts, feedback>>
     ELSE IF ~MayReflect THEN /\ Return("exhausted")
                              /\ UNCHANGED <<reflectionAttempts, feedback>>
     ELSE /\ reflectionAttempts' = reflectionAttempts + 1
          /\ feedback' = Append(feedback, reply)
          /\ at' = "ask" /\ UNCHANGED result
  /\ UNCHANGED <<reply, replies, ended>>

Next == EndCtx \/ Ask \/ AskFails \/ Validate

Spec == Init /\ [][Next]_vars

-----------------------------------------------------------------------------
(* Properties                                                              *)

\* The variables are of their types, and a plan costs at most one request and the
\* reflections: "max 2 attempts".
TypeOK == /\ at \in {"ask", "validate", "returned"}
          /\ reply \in Plans \cup {Garbage}
          /\ reflectionAttempts \in 0..MaxReflectionAttempts
          /\ Len(replies) <= 1 + MaxReflectionAttempts
          /\ ended \in BOOLEAN
          /\ result \in {"none", "ok", "exhausted", "failed", "cancelled"}

\* The model is told of each of its invalid plans, in their order and before it is
\* asked again; what Plan returns is the last one, and no error reports exhaustion
\* while the last plan was valid.
FeedbackIsCurrent ==
  /\ IsPrefix(feedback, replies)
  /\ at = "ask" => feedback = replies
  /\ at = "returned" /\ result \in {"ok", "exhausted"} =>
       /\ feedback = Front(replies)
       /\ Accepts(Last(replies)) <=> result = "ok"

\* Two tasks of a plan that is returned never declare the same output key: SPEC.md,
\* "Multiple parallel tasks cannot write to the same key".  With IDs of one segment
\* the namespaces are apart; an ID with a dot lies inside another task's.
NoSharedKey ==
  result = "ok" =>
    \A i, j \in DOMAIN reply : i # j => reply[i].outputKeys \cap reply[j].outputKeys = {}

\* No plan has a task whose ID lies inside the namespace of another of its tasks.
FlatIds == \A p \in Plans : \A i, j \in DOMAIN p : ~InNamespace(p[i].id, p[j].id)

\* The model is told of each invalid plan, and a flat plan keeps its keys apart.
PlansAreSound == TypeOK /\ FeedbackIsCurrent /\ (FlatIds => NoSharedKey)
===============================================================================
