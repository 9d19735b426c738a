------------------------------ MODULE FileTools ------------------------------
(***************************************************************************)
(* The file tools of the worker's Executor on one path: WriteFile puts the *)
(* content into a temporary file beside the target and renames it;         *)
(* ReadFile opens the target and reads it piece by piece.  The workers of  *)
(* a run share the directory, every system call may fail, and the process  *)
(* may be killed between any two of them.                                  *)
(*                                                                         *)
(* A file is named by the call that created it; a name in the directory    *)
(* leads to a file, and a reader keeps the file it has opened.             *)
(***************************************************************************)
EXTENDS Naturals, Sequences, FiniteSets

CONSTANTS
  Writes,      \* calls of WriteFile
  Reads,       \* calls of ReadFile
  Old,         \* the file that is there at first
  Pieces,      \* how many reads it takes to get through a file
  MaxFailures, \* bound: system calls that fail
  MaxCrashes   \* bound

None == "none"
FilesAssumption == /\ Old \notin Writes /\ None \notin Writes \cup {Old}
                   /\ Writes \cap Reads = {}
PiecesAssumption == Pieces \in Nat \ {0}
BoundsAssumption == {MaxFailures, MaxCrashes} \subseteq Nat

VARIABLES
  target,  \* the file the path leads to, None when there is none
  temps,   \* the temporary names in the directory, by their call
  whole,   \* the files that hold all of their content
  at,      \* where each call is
  opened,  \* the file each reader has open
  got,     \* what its reads gave: a file and whether it was whole
  shown,   \* history: the files the path has led to
  killed,  \* history: the calls that died, or whose Remove failed
  failures, crashes

vars == <<target, temps, whole, at, opened, got, shown, killed, failures, crashes>>

Files == Writes \cup {Old}
InWrite == {"create", "write", "sync", "close", "rename", "remove"}

Init == /\ target \in {None, Old} /\ shown = {target} \ {None}
        /\ temps = {} /\ whole = {Old}
        /\ at = [c \in Writes \cup Reads |-> "idle"]
        /\ opened = [r \in Reads |-> None] /\ got = [r \in Reads |-> <<>>]
        /\ killed = {} /\ failures = 0 /\ crashes = 0

Goto(c, place) == at' = [at EXCEPT ![c] = place]
Failure == failures < MaxFailures /\ failures' = failures + 1
NoFailure == UNCHANGED failures
readers == <<opened, got>>

-----------------------------------------------------------------------------
(* WriteFile                                                               *)

Call(w) == /\ at[w] = "idle" /\ Goto(w, "create")
           /\ UNCHANGED <<target, temps, whole, shown, killed, failures>>

\* MkdirAll and CreateTemp; a failure leaves nothing to remove.
CreateTemp(w) ==
  /\ at[w] = "create"
  /\ \/ /\ NoFailure /\ Goto(w, "write")
        /\ temps' = temps \cup {w}
     \/ /\ Failure /\ Goto(w, "error")
        /\ UNCHANGED temps
  /\ UNCHANGED <<target, whole, shown, killed>>

\* Mutant: the error is dropped.
WriteString_Unchecked(w) ==
  /\ at[w] = "write" /\ Goto(w, "sync")
  /\ \/ NoFailure /\ whole' = whole \cup {w}
     \/ Failure /\ UNCHANGED whole
  /\ UNCHANGED <<target, temps, shown, killed>>

\* A failure may come after a part of the content.
WriteString(w) ==
  /\ at[w] = "write"
  /\ \/ NoFailure /\ Goto(w, "sync") /\ whole' = whole \cup {w}
     \/ Failure /\ Goto(w, "remove") /\ UNCHANGED whole
  /\ UNCHANGED <<target, temps, shown, killed>>

\* Sync, then Close.
Flush(w) ==
  /\ \/ at[w] = "sync" /\ NoFailure /\ Goto(w, "close")
     \/ at[w] = "close" /\ NoFailure /\ Goto(w, "rename")
     \/ at[w] \in {"sync", "close"} /\ Failure /\ Goto(w, "remove")
  /\ UNCHANGED <<target, temps, whole, shown, killed>>

Rename(w) ==
  /\ at[w] = "rename"
  /\ \/ /\ NoFailure /\ Goto(w, "ok")
        /\ target' = w /\ temps' = temps \ {w} /\ shown' = shown \cup {w}
     \/ /\ Failure /\ Goto(w, "remove")
        /\ UNCHANGED <<target, temps, shown>>
  /\ UNCHANGED <<whole, killed>>

\* The result of Remove is dropped.
Remove(w) ==
  /\ at[w] = "remove" /\ Goto(w, "error")
  /\ \/ NoFailure /\ temps' = temps \ {w} /\ UNCHANGED killed
     \/ Failure /\ UNCHANGED temps /\ killed' = killed \cup {w}
  /\ UNCHANGED <<target, whole, shown>>

WriteFile(w) == /\ \/ Call(w) \/ CreateTemp(w) \/ WriteString(w) \/ Flush(w)
                   \/ Rename(w) \/ Remove(w)
                /\ UNCHANGED <<readers, crashes>>

-----------------------------------------------------------------------------
(* ReadFile                                                                *)

Open(r) == /\ at[r] = "idle"
           /\ \/ /\ target # None /\ NoFailure /\ Goto(r, "read")
                 /\ opened' = [opened EXCEPT ![r] = target]
              \/ /\ IF target = None THEN NoFailure ELSE Failure
                 /\ Goto(r, "error") /\ UNCHANGED opened
           /\ UNCHANGED got

Read(r) ==
  /\ at[r] = "read"
  /\ \/ /\ NoFailure
        /\ got' = [got EXCEPT ![r] = Append(@, <<opened[r], opened[r] \in whole>>)]
        /\ Goto(r, IF Len(got'[r]) = Pieces THEN "ok" ELSE "read")
     \/ Failure /\ Goto(r, "error") /\ UNCHANGED got
  /\ UNCHANGED opened

ReadFile(r) == /\ Open(r) \/ Read(r)
               /\ UNCHANGED <<target, temps, whole, shown, killed, crashes>>

\* The process is killed; what has not begun is called by the next one.
Crash == /\ crashes < MaxCrashes /\ crashes' = crashes + 1
         /\ at' = [c \in DOMAIN at |->
                     IF at[c] \in InWrite \cup {"read"} THEN "dead" ELSE at[c]]
         /\ killed' = killed \cup {w \in Writes : at[w] \in InWrite}
         /\ UNCHANGED <<target, temps, whole, readers, shown, failures>>

Next == \/ \E w \in Writes : WriteFile(w)
        \/ \E r \in Reads : ReadFile(r)
        \/ Crash

Spec == Init /\ [][Next]_vars

-----------------------------------------------------------------------------
(* Properties                                                              *)

TypeOK == /\ target \in Files \cup {None} /\ shown \subseteq Files
          /\ temps \subseteq Writes /\ whole \subseteq Files
          /\ at \in [Writes \cup Reads -> InWrite \cup {"idle", "read", "ok", "error", "dead"}]
          /\ opened \in [Reads -> Files \cup {None}]
          /\ \A r \in Reads : Len(got[r]) <= Pieces
          /\ killed \subseteq Writes
          /\ failures \in 0..MaxFailures /\ crashes \in 0..MaxCrashes

\* A reader that returns without an error returns the whole content of one call,
\* also when others replace the file while it reads, fail or are killed.
ReadsAreWhole ==
  \A r \in Reads : at[r] = "ok" =>
    \E f \in shown : got[r] = [i \in 1..Pieces |-> <<f, TRUE>>]

\* The path has never led to the content of a call that returned an error, and
\* has led to that of each call that returned none: the worker tells its model
\* "File written successfully" or an error, and the model acts on it.
ResultIsTrue == \A w \in Writes : /\ at[w] = "error" => w \notin shown
                                  /\ at[w] = "ok" => w \in shown

\* A temporary file is left behind only by a process that was killed or whose
\* Remove failed.
NoLitter == temps \subseteq {w \in Writes : at[w] \in InWrite} \cup killed

\* Files are read whole, written as reported, and leave nothing behind.
FilesAreWhole == TypeOK /\ ReadsAreWhole /\ ResultIsTrue /\ NoLitter
=============================================================================
