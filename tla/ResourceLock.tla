---------------------------- MODULE ResourceLock ----------------------------
(***************************************************************************)
(* dag.ResourceLock, the registry of one mutex per cleaned path.  A task   *)
(* that declares target paths calls LockPaths, which cleans, deduplicates  *)
(* and sorts them and then locks one mutex after the other; the function   *)
(* it returns unlocks them in reverse.  UnlockPaths runs the same loop     *)
(* over the same paths, and nothing outside the package calls it.          *)
(*                                                                         *)
(* A path is the rank of its cleaned spelling in lexicographic order.      *)
(***************************************************************************)
EXTENDS Naturals, FiniteSets

CONSTANTS Owners,      \* the callers: goroutines of the scheduler
          NoOwner,
          Spellings,   \* paths as tasks write them
          Paths,       \* cleaned paths, by rank
          Clean        \* filepath.Clean

ASSUME PathsAssumption == Paths \subseteq Nat /\ IsFiniteSet(Paths)
ASSUME CleanAssumption == Clean \in [Spellings -> Paths]
ASSUME NoOwnerAssumption == NoOwner \notin Owners

VARIABLES phase,    \* where each owner is: LockPaths, the task, or unlock
          wanted,   \* the normalized paths of the owner's call
          holder    \* the owner that has each mutex locked, or NoOwner

vars == <<phase, wanted, holder>>

\* normalizePaths: a set of ranks is already without duplicates, and Least and
\* Greatest walk it in sorted order.
Normalize(spelled) == {Clean[s] : s \in spelled}

Least(S)    == CHOOSE p \in S : \A q \in S : p <= q
Greatest(S) == CHOOSE p \in S : \A q \in S : q <= p

Held(o) == {p \in Paths : holder[p] = o}
Missing(o) == wanted[o] \ Held(o)

TypeOK == /\ phase \in [Owners -> {"free", "locking", "locked", "unlocking"}]
          /\ wanted \in [Owners -> SUBSET Paths]
          /\ holder \in [Paths -> Owners \cup {NoOwner}]

Init == /\ phase = [o \in Owners |-> "free"]
        /\ wanted = [o \in Owners |-> {}]
        /\ holder = [p \in Paths |-> NoOwner]

-----------------------------------------------------------------------------
\* The call is over, and with it the slice of its mutexes.
Forget(o) == /\ phase' = [phase EXCEPT ![o] = "free"]
             /\ wanted' = [wanted EXCEPT ![o] = {}]

\* LockPaths is called; with no path to lock it returns at once.
LockPaths(o, spelled) ==
  /\ phase[o] = "free"
  /\ wanted' = [wanted EXCEPT ![o] = Normalize(spelled)]
  /\ phase' = [phase EXCEPT ![o] = IF spelled = {} THEN "locked" ELSE "locking"]
  /\ UNCHANGED holder

\* Mutant: the mutexes are locked in the caller's order.
LockNext_Unsorted(o) ==
  /\ phase[o] = "locking"
  /\ \E p \in Missing(o) :
       /\ holder[p] = NoOwner
       /\ holder' = [holder EXCEPT ![p] = o]
       /\ phase' = [phase EXCEPT ![o] =
                      IF Missing(o) = {p} THEN "locked" ELSE "locking"]
  /\ UNCHANGED wanted

\* One turn of the loop: getMutex(p).Lock() returns.  LockPaths returns after
\* the last one.
LockNext(o) ==
  /\ phase[o] = "locking"
  /\ LET p == Least(Missing(o))
     IN  /\ holder[p] = NoOwner
         /\ holder' = [holder EXCEPT ![p] = o]
         /\ phase' = [phase EXCEPT ![o] =
                        IF Missing(o) = {p} THEN "locked" ELSE "locking"]
  /\ UNCHANGED wanted

\* The returned function is called.
Unlock(o) ==
  /\ phase[o] = "locked"
  /\ IF Held(o) = {} THEN Forget(o) ELSE /\ phase' = [phase EXCEPT ![o] = "unlocking"]
                                        /\ UNCHANGED wanted
  /\ UNCHANGED holder

\* One turn of its loop, from the last mutex to the first.
UnlockNext(o) ==
  /\ phase[o] = "unlocking"
  /\ LET p == Greatest(Held(o))
     IN  /\ holder' = [holder EXCEPT ![p] = NoOwner]
         /\ IF Held(o) = {p} THEN Forget(o) ELSE UNCHANGED <<phase, wanted>>

Next == \E o \in Owners :
          \/ \E spelled \in SUBSET Spellings : LockPaths(o, spelled)
          \/ LockNext(o)
          \/ Unlock(o)
          \/ UnlockNext(o)

Spec == Init /\ [][Next]_vars

(***************************************************************************)
(* A task that holds its paths lets them go: its handler returns and the   *)
(* deferred unlock runs to its end.  A Go mutex in starvation mode hands   *)
(* itself to the goroutine that waits longest, so a Lock that is possible  *)
(* again and again does return: strong fairness.                           *)
(***************************************************************************)
Fairness == \A o \in Owners : /\ SF_vars(LockNext(o))
                              /\ WF_vars(Unlock(o))
                              /\ WF_vars(UnlockNext(o))

FairSpec == Spec /\ Fairness

-----------------------------------------------------------------------------
(* Properties                                                              *)

\* An owner waits for another when the mutex it is about to lock is taken.
WaitsFor(o, other) ==
  phase[o] = "locking" /\ holder[Least(Missing(o))] = other

\* What LockPaths promises its caller when it returns: every path it asked for
\* is locked, for as long as the task runs.
HoldsAll == \A o \in Owners : phase[o] = "locked" => Held(o) = wanted[o]

\* Two tasks whose target paths overlap, however the paths are spelled, never
\* run their handlers at the same time (SPEC: such execution is serialized).
Serialized ==
  \A o1, o2 \in Owners :
     /\ o1 # o2
     /\ phase[o1] = "locked"
     /\ phase[o2] = "locked"
     => wanted[o1] \cap wanted[o2] = {}

\* The comment on ResourceLock: sorted acquisition prevents deadlock.  In every
\* set of owners that wait, one waits for nobody in the set.
NoCircularWait ==
  \A S \in SUBSET Owners :
     S # {} => \E o \in S : \A other \in S : ~WaitsFor(o, other)

\* A caller blocked in LockPaths is never passed over for ever: whoever else
\* comes and goes, the call returns.
LockPathsReturns ==
  \A o \in Owners : phase[o] = "locking" ~> phase[o] = "locked"
=============================================================================
