-------------------------------- MODULE Memory --------------------------------
(***************************************************************************)
(* memory.MemoryService and memory.FactExtractor over the facts table.  A  *)
(* session's task outputs are scanned in the order of a Go map, duplicates *)
(* that differ only in case are left out, and what remains is saved fact   *)
(* by fact: an error stops the loop, and the call may be made again.       *)
(* A fact's ID is a hash of a topic and its content, and saving a fact     *)
(* whose ID there is already updates its row.                              *)
(***************************************************************************)
EXTENDS Naturals, Sequences, FiniteSets, SequencesExt

CONSTANTS Sessions, Topics, Contents, Ids,
          Absent,      \* no row
          Clean,       \* cleanTopic, a function on Topics
          Fold,        \* strings.ToLower, a function on Contents
          IdOf,        \* generateFactID, from Topics \X Contents to Ids
          Outputs,     \* Sessions -> task keys -> the items of that output
          Manual,      \* facts that SaveFact of the SDK saves, without a session
          MaxFailures, \* bound: saves that fail
          MaxClock     \* bound: readings of the clock

CleanAssumption == Clean \in [Topics -> Topics]
FoldAssumption == Fold \in [Contents -> Contents]
IdAssumption == IdOf \in [Topics \X Contents -> Ids]
BoundsAssumption == MaxFailures \in Nat /\ MaxClock \in Nat

\* What an output or a call of SaveFact holds.
Items == [kind : {"text", "array"}, topic : Topics, content : Contents]
OutputsAssumption ==
  /\ \A s \in Sessions : /\ IsFiniteSet(DOMAIN Outputs[s])
                         /\ \A k \in DOMAIN Outputs[s] : Outputs[s][k] \in Seq(Items)
  /\ Manual \subseteq Items

NoSession == "NULL"
Facts == [id : Ids, topic : Topics, content : Contents]
Rows == [session : Sessions \cup {NoSession}, topic : Topics, content : Contents,
         created : 0..MaxClock, updated : 0..MaxClock]
RowsAssumption == Absent \notin Rows

VARIABLES
  facts,     \* the facts table, by ID
  call,      \* of each session's ExtractAndPersist: "idle", "saving", "ok", "error"
  todo,      \* what it has still to save
  returned,  \* what it returned
  stamp,     \* the time its facts carry, read when they were extracted
  saved,     \* history: the rows each session has saved a fact in
  clock, failures

vars == <<facts, call, todo, returned, stamp, saved, clock, failures>>

Init == /\ facts = [i \in Ids |-> Absent]
        /\ call = [s \in Sessions |-> "idle"]
        /\ todo = [s \in Sessions |-> <<>>]
        /\ returned = [s \in Sessions |-> {}]
        /\ stamp = [s \in Sessions |-> 0]
        /\ saved = [s \in Sessions |-> {}]
        /\ clock = 0 /\ failures = 0

-----------------------------------------------------------------------------
(* Extraction                                                              *)

\* An entry of a "facts" array takes its ID from the topic as it stands; a line
\* of text, or a known key, from the cleaned one.
FactOf(item) ==
  LET topic == IF item.kind = "array" THEN item.topic ELSE Clean[item.topic]
  IN [id |-> IdOf[<<topic, item.content>>], topic |-> Clean[item.topic],
      content |-> item.content]

\* Two facts are one to the extractor.
Alike(f, g) == f.topic = g.topic /\ Fold[f.content] = Fold[g.content]

\* A place in a session's outputs: the position of a key in the order of the
\* range, and that of an item in its output.
Places(s, keys) ==
  UNION {{<<n, i>> : i \in DOMAIN Outputs[s][keys[n]]} : n \in DOMAIN keys}
FactAt(s, keys, p) == FactOf(Outputs[s][keys[p[1]]][p[2]])
Earlier(p, q) == p[1] < q[1] \/ (p[1] = q[1] /\ p[2] < q[2])

\* The first of those alike is kept.  The extractor does this for a text, for a
\* task and for all: the last pass gives what the three give.
Deduplicate(s, keys) ==
  {p \in Places(s, keys) : \A q \in Places(s, keys) :
     Earlier(q, p) => ~Alike(FactAt(s, keys, q), FactAt(s, keys, p))}

\* The facts of a session's outputs, taken in the order of the keys: one list.
Extracted(s, keys) ==
  {[i \in DOMAIN order |-> FactAt(s, keys, order[i])] :
     order \in {o \in SetToSeqs(Deduplicate(s, keys)) :
                 \A i, j \in DOMAIN o : i < j => Earlier(o[i], o[j])}}

\* A range over a map: each call may take the keys in another order.
Extract(s) == /\ call[s] \in {"idle", "error"} /\ clock < MaxClock
              /\ \E keys \in SetToSeqs(DOMAIN Outputs[s]) : \E fs \in Extracted(s, keys) :
                   todo' = [todo EXCEPT ![s] = fs]
              /\ returned' = [returned EXCEPT ![s] = ToSet(todo'[s])]
              /\ call' = [call EXCEPT ![s] = "saving"]
              /\ clock' = clock + 1
              /\ stamp' = [stamp EXCEPT ![s] = clock]
              /\ UNCHANGED <<facts, saved, failures>>

-----------------------------------------------------------------------------
(* Saving                                                                  *)

\* Mutant: the row is replaced.
Upsert_Replace(f, session, now) ==
  facts' = [facts EXCEPT ![f.id] = [session |-> session, topic |-> f.topic,
              content |-> f.content, created |-> now, updated |-> now]]

\* INSERT ... ON CONFLICT(id) DO UPDATE: all but created_at is overwritten.
Upsert(f, session, now) ==
  facts' = [facts EXCEPT ![f.id] =
              [session |-> session, topic |-> f.topic, content |-> f.content,
               created |-> IF @ = Absent THEN now ELSE @.created, updated |-> now]]

Save(s) == /\ call[s] = "saving" /\ todo[s] # <<>>
           /\ LET f == Head(todo[s])
              IN /\ Upsert(f, s, stamp[s])
                 /\ saved' = [saved EXCEPT ![s] = @ \cup {f.id}]
           /\ todo' = [todo EXCEPT ![s] = Tail(@)]
           /\ UNCHANGED <<call, returned, stamp, clock, failures>>

\* The error ends the call; what is saved stays.
SaveFails(s) == /\ call[s] = "saving" /\ todo[s] # <<>>
                /\ failures < MaxFailures /\ failures' = failures + 1
                /\ call' = [call EXCEPT ![s] = "error"]
                /\ todo' = [todo EXCEPT ![s] = <<>>]
                /\ returned' = [returned EXCEPT ![s] = {}]
                /\ UNCHANGED <<facts, stamp, saved, clock>>

Return(s) == /\ call[s] = "saving" /\ todo[s] = <<>>
             /\ call' = [call EXCEPT ![s] = "ok"]
             /\ UNCHANGED <<facts, todo, returned, stamp, saved, clock, failures>>

\* SaveFact of the SDK and of the MCP tool: the topic is not cleaned, and the
\* row has no session.
ManualFact(m) == [id |-> IdOf[<<m.topic, m.content>>], topic |-> m.topic,
                  content |-> m.content]
SaveManually(m) == /\ clock < MaxClock /\ clock' = clock + 1
                   /\ Upsert(ManualFact(m), NoSession, clock)
                   /\ UNCHANGED <<call, todo, returned, stamp, saved, failures>>

ListFactsBySession(s) == {i \in Ids : facts[i] # Absent /\ facts[i].session = s}

Next == \/ \E s \in Sessions : Extract(s) \/ Save(s) \/ SaveFails(s) \/ Return(s)
        \/ \E m \in Manual : SaveManually(m)

Spec == Init /\ [][Next]_vars

\* All the facts there are, and that no two of them that differ have one ID, which
\* is a hash of the topic in lower case, a colon and the content.
GivenBy(s) == UNION {{FactOf(item) : item \in ToSet(Outputs[s][k])} : k \in DOMAIN Outputs[s]}
Given == {ManualFact(m) : m \in Manual} \cup (UNION {GivenBy(s) : s \in Sessions})
IdsApart == \A f, g \in Given : f.id = g.id => f.topic = g.topic /\ f.content = g.content

-----------------------------------------------------------------------------
(* Properties                                                              *)

\* The variables are of their types; no two facts that a call has returned, or
\* has still to save, are alike.
TypeOK == /\ facts \in [Ids -> Rows \cup {Absent}]
          /\ call \in [Sessions -> {"idle", "saving", "ok", "error"}]
          /\ todo \in [Sessions -> Seq(Facts)]
          /\ \A s \in Sessions :
               /\ returned[s] \subseteq Facts /\ ToSet(todo[s]) \subseteq returned[s]
               /\ \A f, g \in returned[s] : Alike(f, g) => f = g
          /\ stamp \in [Sessions -> 0..MaxClock]
          /\ saved \in [Sessions -> SUBSET Ids]
          /\ clock \in 0..MaxClock /\ failures \in 0..MaxFailures

\* What ExtractAndPersist returned without an error is in the table: saves that
\* fail, calls made again and other sessions' saves of the same facts lose none
\* of it (memory.go:89-107).
ReturnedIsStored ==
  \A s \in Sessions : call[s] = "ok" =>
    \A f \in returned[s] :
      facts[f.id] # Absent /\ facts[f.id].topic = f.topic /\ facts[f.id].content = f.content

\* A row that is saved again, by whichever session, keeps the time it was made.
CreatedAtIsKept ==
  [][\A i \in Ids : facts[i] # Absent =>
       facts'[i] # Absent /\ facts'[i].created = facts[i].created]_vars

\* A session's list holds every fact it has saved: "List all facts recorded in a
\* session" (docs/cli.md).  A later save of the same fact moves it away.
SessionListsItsFacts == \A s \in Sessions : saved[s] \subseteq ListFactsBySession(s)

\* No two rows hold facts that are one to the extractor ("deduplicated durable
\* facts", extractor.go:27).
OneRowPerFact ==
  \A i, j \in Ids : facts[i] # Absent /\ facts[j] # Absent /\ Alike(facts[i], facts[j])
                      => i = j
===============================================================================
