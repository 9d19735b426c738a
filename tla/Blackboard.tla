------------------------------ MODULE Blackboard ------------------------------
(***************************************************************************)
(* blackboard.Blackboard and the code that writes and reads it: a worker   *)
(* reads its input keys into the prompt, writes its result under its       *)
(* output keys, and the orchestrator's handler writes what is still        *)
(* missing and saves a snapshot.  A large payload goes to a file, outside  *)
(* the lock and in several steps, and only its path goes into the map.     *)
(*                                                                         *)
(* A task ID and a key are the sequences of their parts between dots, so   *)
(* that HasPrefix(key, "tasks." + id + ".") is a strict prefix.  A payload *)
(* is told apart by the task that produced it.                             *)
(***************************************************************************)
EXTENDS Naturals, Sequences, SequencesExt, FiniteSets

CONSTANTS Tasks,       \* task IDs, sequences of parts
          DependsOn,   \* Tasks -> SUBSET Tasks
          InputKeys,   \* Tasks -> sequences of keys
          OutputKeys,  \* Tasks -> sequences of keys
          SafePart,    \* a part -> the part with the odd characters replaced
          MaxCrashes,  \* bound: process restarts
          MaxFailures  \* bound: file writes that fail

Keys == UNION {ToSet(InputKeys[t]) \cup ToSet(OutputKeys[t]) : t \in Tasks}
\* The name of the file a key spills to.
SpillPath(k) == [i \in DOMAIN k |-> SafePart[k[i]]]
Files == {SpillPath(k) : k \in Keys}

GraphAssumption == /\ DependsOn \in [Tasks -> SUBSET Tasks]
                   /\ InputKeys \in [Tasks -> Seq(Keys)]
                   /\ OutputKeys \in [Tasks -> Seq(Keys)]
                   /\ <<>> \notin Tasks
BoundsAssumption == MaxCrashes \in Nat /\ MaxFailures \in Nat

VARIABLES
  entries,     \* Blackboard.entries: key -> entry, NoEntry when absent
  file,        \* the spill files: Absent, Torn, or the producer of the payload
  at,          \* where the handler of each task is
  left,        \* the keys its loop has still to go through
  size,        \* of its result: "small" (at most MaxInlineSize) or "big"
  seen,        \* what it read for each of its input keys
  snap,        \* the snapshot it took and has not saved
  done,        \* the tasks whose row says COMPLETED
  checkpoint,  \* runs.checkpoint_state
  wrote,       \* history: the tasks whose entry was stored, for each key
  crashes, failures

vars == <<entries, file, at, left, size, seen, snap, done, checkpoint, wrote,
          crashes, failures>>
board == <<entries, file, wrote, failures>>
saved == <<done, checkpoint>>

\* What a read can find besides the payload of a task.
Unread == <<"?unread">>
Missing == <<"?missing">>
Absent == <<"?absent">>
Torn == <<"?torn">>

NoEntry == [by |-> <<>>, spilled |-> FALSE]
Entry == [by : Tasks, spilled : BOOLEAN]
Content == Tasks \cup {Absent, Torn}
NoSnap == [k \in Keys |-> NoEntry]

Init == /\ entries = NoSnap
        /\ file = [f \in Files |-> Absent]
        /\ at = [t \in Tasks |-> "idle"]
        /\ left = [t \in Tasks |-> <<>>]
        /\ size = [t \in Tasks |-> "small"]
        /\ seen = [t \in Tasks |-> [k \in Keys |-> Unread]]
        /\ snap = [t \in Tasks |-> NoSnap]
        /\ done = {} /\ checkpoint = NoSnap
        /\ wrote = [k \in Keys |-> {}]
        /\ crashes = 0 /\ failures = 0

Goto(t, where, keys) == /\ at' = [at EXCEPT ![t] = where]
                        /\ left' = [left EXCEPT ![t] = keys]
See(t, what) == seen' = [seen EXCEPT ![t][Head(left[t])] = what]

-----------------------------------------------------------------------------
(* The prompt                                                              *)

\* Mutant: tasks are started without their dependencies.
Start_Early(t) == /\ at[t] = "idle" /\ t \notin done
                  /\ Goto(t, "get", InputKeys[t])
                  /\ UNCHANGED <<board, saved, size, seen, snap, crashes>>

\* The scheduler dispatches the task.
Start(t) == /\ at[t] = "idle" /\ t \notin done
            /\ DependsOn[t] \subseteq done
            /\ Goto(t, "get", InputKeys[t])
            /\ UNCHANGED <<board, saved, size, seen, snap, crashes>>

\* Get copies the entry under the read lock; the file is read later.
Get(t) == /\ at[t] = "get" /\ left[t] # <<>>
          /\ LET e == entries[Head(left[t])]
             IN \/ /\ e = NoEntry /\ See(t, Missing)
                   /\ Goto(t, "get", Tail(left[t]))
                \/ /\ e # NoEntry /\ ~e.spilled /\ See(t, e.by)
                   /\ Goto(t, "get", Tail(left[t]))
                \/ /\ e.spilled /\ Goto(t, "read", left[t])
                   /\ UNCHANGED seen
          /\ UNCHANGED <<board, saved, size, snap, crashes>>

ReadPayload(t) == /\ at[t] = "read"
                  /\ See(t, file[SpillPath(Head(left[t]))])
                  /\ Goto(t, "get", Tail(left[t]))
                  /\ UNCHANGED <<board, saved, size, snap, crashes>>

\* The model answers.
Produce(t) == /\ at[t] = "get" /\ left[t] = <<>>
              /\ \E s \in {"small", "big"} : size' = [size EXCEPT ![t] = s]
              /\ Goto(t, "persist", OutputKeys[t])
              /\ UNCHANGED <<board, saved, seen, snap, crashes>>

-----------------------------------------------------------------------------
(* Set                                                                     *)

Allowed(t, k) == IsStrictPrefix(<<"tasks">> \o t, k)

\* The keys a task writes.
Own(t) == {k \in ToSet(OutputKeys[t]) : Allowed(t, k)}

\* No task lies in the namespace of another, the names of two keys that are written
\* stay apart as names of files, and no task names an output key twice.
KeysAssumption ==
  \A t, u \in Tasks :
    /\ \A k \in Keys : Allowed(t, k) /\ Allowed(u, k) => t = u
    /\ \A k \in Own(t), l \in Own(u) : SpillPath(k) = SpillPath(l) => k = l
    /\ \A i, j \in DOMAIN OutputKeys[t] : OutputKeys[t][i] = OutputKeys[t][j] => i = j

\* persistOutputs goes through the output keys, then the orchestrator's handler
\* does, leaving those it finds: the callers drop the error of Set.
Loops == {"persist", "ensure"}
Filing == [persist |-> "persist.file", ensure |-> "ensure.file"]
Storing == [persist |-> "persist.store", ensure |-> "ensure.store"]
Writing == {"persist.file", "ensure.file", "persist.store", "ensure.store"}
Loop(t) == IF at[t] \in {"persist", "persist.file", "persist.store"}
           THEN "persist" ELSE "ensure"

Skip(t) == /\ at[t] \in Loops /\ left[t] # <<>>
           /\ \/ ~Allowed(t, Head(left[t]))
              \/ at[t] = "ensure" /\ entries[Head(left[t])] # NoEntry
           /\ Goto(t, at[t], Tail(left[t]))
           /\ UNCHANGED <<board, saved, size, seen, snap, crashes>>

\* A small payload is copied.
SetSmall(t) == /\ at[t] \in Loops /\ left[t] # <<>>
               /\ Allowed(t, Head(left[t])) /\ size[t] = "small"
               /\ at[t] = "ensure" => entries[Head(left[t])] = NoEntry
               /\ Goto(t, Storing[Loop(t)], left[t])
               /\ UNCHANGED <<board, saved, size, seen, snap, crashes>>

\* WriteFile truncates the file, or fails before it does.
OpenFile(t) ==
  /\ at[t] \in Loops /\ left[t] # <<>>
  /\ Allowed(t, Head(left[t])) /\ size[t] = "big"
  /\ at[t] = "ensure" => entries[Head(left[t])] = NoEntry
  /\ \/ /\ Goto(t, Filing[Loop(t)], left[t])
        /\ file' = [file EXCEPT ![SpillPath(Head(left[t]))] = Torn]
        /\ UNCHANGED failures
     \/ /\ failures < MaxFailures /\ failures' = failures + 1
        /\ Goto(t, at[t], Tail(left[t]))
        /\ UNCHANGED file
  /\ UNCHANGED <<entries, wrote, saved, size, seen, snap, crashes>>

\* It writes the payload, or fails with the file cut short.  Two writers of one
\* file may leave a mixture.
FillFile(t) ==
  LET f == SpillPath(Head(left[t]))
      Shared == \E u \in Tasks \ {t} :
                   /\ at[u] \in {"persist.file", "ensure.file"}
                   /\ SpillPath(Head(left[u])) = f
  IN /\ at[t] \in {"persist.file", "ensure.file"}
     /\ \/ /\ \/ file' = [file EXCEPT ![f] = t]
              \/ Shared /\ UNCHANGED file
           /\ Goto(t, Storing[Loop(t)], left[t])
           /\ UNCHANGED failures
        \/ /\ failures < MaxFailures /\ failures' = failures + 1
           /\ Goto(t, Loop(t), Tail(left[t]))
           /\ UNCHANGED file
     /\ UNCHANGED <<entries, wrote, saved, size, seen, snap, crashes>>

\* b.entries[key] = entry, under the lock.
StoreEntry(t) ==
  LET k == Head(left[t])
  IN /\ at[t] \in {"persist.store", "ensure.store"}
     /\ entries' = [entries EXCEPT ![k] = [by |-> t, spilled |-> size[t] = "big"]]
     /\ wrote' = [wrote EXCEPT ![k] = @ \cup {t}]
     /\ Goto(t, Loop(t), Tail(left[t]))
     /\ UNCHANGED <<file, failures, saved, size, seen, snap, crashes>>

-----------------------------------------------------------------------------
(* The orchestrator's handler                                              *)

Ensure(t) == /\ at[t] = "persist" /\ left[t] = <<>>
             /\ Goto(t, "ensure", OutputKeys[t])
             /\ UNCHANGED <<board, saved, size, seen, snap, crashes>>

RecordSuccess(t) == /\ at[t] = "ensure" /\ left[t] = <<>>
                    /\ Goto(t, "snapshot", <<>>)
                    /\ done' = done \cup {t}
                    /\ UNCHANGED <<board, checkpoint, size, seen, snap, crashes>>

Snapshot(t) == /\ at[t] = "snapshot"
               /\ snap' = [snap EXCEPT ![t] = entries]
               /\ Goto(t, "flush", <<>>)
               /\ UNCHANGED <<board, saved, size, seen, crashes>>

FlushSnapshot(t) == /\ at[t] = "flush"
                    /\ checkpoint' = snap[t]
                    /\ Goto(t, "ended", <<>>)
                    /\ UNCHANGED <<board, done, size, seen, snap, crashes>>

\* The process dies; ResumeRun makes a blackboard and restores the snapshot.
\* Files stay as they are.
Restore == /\ crashes < MaxCrashes /\ crashes' = crashes + 1
           /\ entries' = checkpoint
           /\ at' = [t \in Tasks |-> "idle"]
           /\ left' = [t \in Tasks |-> <<>>]
           /\ seen' = [t \in Tasks |-> [k \in Keys |-> Unread]]
           /\ snap' = [t \in Tasks |-> NoSnap]
           /\ UNCHANGED <<file, size, done, checkpoint, wrote, failures>>

Handler(t) == \/ Start(t) \/ Get(t) \/ ReadPayload(t) \/ Produce(t) \/ Skip(t)
              \/ SetSmall(t) \/ OpenFile(t) \/ FillFile(t) \/ StoreEntry(t)
              \/ Ensure(t) \/ RecordSuccess(t) \/ Snapshot(t) \/ FlushSnapshot(t)

Next == Restore \/ \E t \in Tasks : Handler(t)

Spec == Init /\ [][Next]_vars

-----------------------------------------------------------------------------
(* Properties                                                              *)

TypeOK == /\ entries \in [Keys -> Entry \cup {NoEntry}]
          /\ file \in [Files -> Content]
          /\ at \in [Tasks -> {"idle", "get", "read", "snapshot", "flush", "ended"}
                              \cup Loops \cup Writing]
          /\ size \in [Tasks -> {"small", "big"}]
          /\ done \in SUBSET Tasks
          /\ checkpoint \in [Keys -> Entry \cup {NoEntry}]
          /\ crashes \in 0..MaxCrashes /\ failures \in 0..MaxFailures

\* A task that declares an input of a task it depends on finds that task's whole
\* payload or no entry: never part of a file, nor what another task wrote, however
\* the handlers' file writes and reads interleave.
InputsAreWhole ==
  \A t \in Tasks : \A d \in DependsOn[t] :
    \A k \in ToSet(InputKeys[t]) \cap ToSet(OutputKeys[d]) :
      Allowed(d, k) => seen[t][k] \in {Unread, Missing, d}

\* A key the map holds for a completed task can be read: its file is there and
\* whole, in every state.
EntriesAreReadable ==
  \A k \in Keys : LET e == entries[k]
                  IN e.spilled /\ e.by \in done => file[SpillPath(k)] = e.by

\* Handlers find whole payloads, and every key of the map can be read, as long as
\* the process does not die, or dies at most twice and no write fails.  Otherwise a
\* snapshot may come back that holds the path of a file torn since: by a handler
\* whose write failed, or died, and whose task then had a small result.
BoardIsSound == /\ TypeOK
                /\ crashes = 0 \/ (failures = 0 /\ crashes <= 2)
                   => InputsAreWhole /\ EntriesAreReadable

\* No two tasks ever write one key: the namespaces are exclusive.
OneWriter == \A k \in Keys : Cardinality(wrote[k]) <= 1
===============================================================================
