------------------------- MODULE ResourceLockProofs -------------------------
(***************************************************************************)
(* Theorems on ResourceLock, for any number of callers and paths.          *)
(***************************************************************************)
EXTENDS ResourceLock, FiniteSetTheorems, TLAPS

-----------------------------------------------------------------------------
(* Least and greatest paths                                                *)

\* A set of ranks that is not empty has a least element ...
LEMMA LeastExists ==
  ASSUME NEW S, S \subseteq Nat, S # {}
  PROVE  Least(S) \in S /\ \A q \in S : Least(S) <= q
<1>1. \E x \in S : \A y \in S : ~(<<y, x>> \in OpToRel(<, Nat))
  BY NatLessThanWellFounded, WFMin
<1>2. PICK x \in S : \A y \in S : ~(y < x)
  BY <1>1 DEF OpToRel
<1>3. \A y \in S : x <= y
  BY <1>2
<1> QED
  BY <1>3 DEF Least

\* How many paths come after p.
After(p) == Cardinality({q \in Paths : p < q})

LEMMA AfterType ==
  ASSUME NEW p
  PROVE  After(p) \in Nat
BY PathsAssumption, FS_Subset, FS_CardinalityType DEF After

LEMMA AfterDecreases ==
  ASSUME NEW p \in Paths, NEW q \in Paths, p < q
  PROVE  After(q) < After(p)
<1> DEFINE P == {r \in Paths : p < r}
           Q == {r \in Paths : q < r}
<1>1. Q \in SUBSET P /\ q \in P /\ q \notin Q
  <2>1. p \in Nat /\ q \in Nat /\ \A r \in Paths : r \in Nat
    BY PathsAssumption
  <2>2. \A r \in Paths : q < r => p < r
    BY <2>1
  <2>3. ~(q < q)
    BY <2>1
  <2> QED
    BY <2>2, <2>3
<1>2. IsFiniteSet(P)
  BY PathsAssumption, FS_Subset
<1>3. Cardinality(Q) <= Cardinality(P) /\ Cardinality(Q) # Cardinality(P)
  BY <1>1, <1>2, FS_Subset
<1>4. Cardinality(P) \in Nat /\ Cardinality(Q) \in Nat
  BY <1>1, <1>2, FS_Subset, FS_CardinalityType
<1> QED
  BY <1>3, <1>4 DEF After

\* ... and, since paths are finitely many, in every set of owners with a path
\* each there is one whose path no other's exceeds.
LEMMA FurthestExists ==
  ASSUME NEW S, S # {}, NEW rank, \A o \in S : rank[o] \in Paths
  PROVE  \E o \in S : \A u \in S : rank[u] <= rank[o]
<1> DEFINE T == {After(rank[o]) : o \in S}
<1>1. T \subseteq Nat /\ T # {}
  BY AfterType
<1>2. PICK n \in T : \A m \in T : n <= m
  <2> HIDE DEF T
  <2> QED
    BY <1>1, LeastExists
<1>3. PICK o \in S : n = After(rank[o])
  OBVIOUS
<1>4. ASSUME NEW u \in S
      PROVE  rank[u] <= rank[o]
  <2>1. After(rank[o]) <= After(rank[u])
    BY <1>2, <1>3
  <2>2. ~(rank[o] < rank[u])
    BY <2>1, AfterDecreases, AfterType
  <2>3. rank[o] \in Nat /\ rank[u] \in Nat
    BY PathsAssumption
  <2> QED
    BY <2>2, <2>3
<1> QED
  BY <1>4

LEMMA GreatestExists ==
  ASSUME NEW S, S \subseteq Paths, S # {}
  PROVE  Greatest(S) \in S /\ \A q \in S : q <= Greatest(S)
<1> DEFINE id == [p \in S |-> p]
<1>1. \A p \in S : id[p] = p
  OBVIOUS
<1>2. \A p \in S : id[p] \in Paths
  BY <1>1
<1>3. PICK p \in S : \A q \in S : id[q] <= id[p]
  <2> HIDE DEF id
  <2> QED
    BY <1>2, FurthestExists
<1>4. \A q \in S : q <= p
  BY <1>1, <1>3
<1> QED
  BY <1>4 DEF Greatest

-----------------------------------------------------------------------------
(***************************************************************************)
(* The inductive invariant.  What an owner holds follows from where it is; *)
(* in LockPaths, all it holds comes before all it has yet to lock, and     *)
(* that is what leaves no room for a circle.                               *)
(***************************************************************************)
FitsPhase(ph, want, held) ==
  /\ ph = "free" => want = {} /\ held = {}
  /\ ph = "locking" => /\ held \subseteq want
                       /\ held # want
                       /\ \A p \in held : \A q \in want \ held : p < q
  /\ ph = "locked" => held = want
  /\ ph = "unlocking" => held \subseteq want /\ held # {}

LockInv == /\ TypeOK
           /\ \A o \in Owners : FitsPhase(phase[o], wanted[o], Held(o))

LEMMA LockInit ==
  ASSUME Init
  PROVE  LockInv
BY NoOwnerAssumption DEF Init, LockInv, TypeOK, FitsPhase, Held

\* A step that leaves the mutexes alone and puts one owner where they fit.
LEMMA PhaseMoves ==
  ASSUME LockInv, NEW o \in Owners,
         NEW ph \in {"free", "locking", "locked", "unlocking"},
         NEW want \in SUBSET Paths,
         phase' = [phase EXCEPT ![o] = ph], wanted' = [wanted EXCEPT ![o] = want],
         holder' = holder,
         FitsPhase(ph, want, Held(o))
  PROVE  LockInv'
<1>1. \A u \in Owners : Held(u)' = Held(u)
  BY DEF Held
<1>2. \A u \in Owners : u # o => phase'[u] = phase[u] /\ wanted'[u] = wanted[u]
  BY DEF LockInv, TypeOK
<1>3. phase'[o] = ph /\ wanted'[o] = want
  BY DEF LockInv, TypeOK
<1>4. \A u \in Owners : FitsPhase(phase'[u], wanted'[u], Held(u)')
  BY <1>1, <1>2, <1>3 DEF LockInv
<1>5. TypeOK'
  BY DEF LockInv, TypeOK
<1> QED
  BY <1>4, <1>5 DEF LockInv

\* A step in which one mutex changes hands between one owner and nobody.
LEMMA MutexMoves ==
  ASSUME LockInv, NEW o \in Owners,
         NEW ph \in {"free", "locking", "locked", "unlocking"},
         NEW want \in SUBSET Paths,
         phase' = [phase EXCEPT ![o] = ph], wanted' = [wanted EXCEPT ![o] = want],
         NEW p \in Paths, holder[p] \in {o, NoOwner},
         NEW h \in {o, NoOwner}, holder' = [holder EXCEPT ![p] = h],
         FitsPhase(ph, want, Held(o)')
  PROVE  LockInv'
<1>1. \A u \in Owners : u # o => Held(u)' = Held(u)
  BY NoOwnerAssumption DEF Held, LockInv, TypeOK
<1>2. \A u \in Owners : u # o => phase'[u] = phase[u] /\ wanted'[u] = wanted[u]
  BY DEF LockInv, TypeOK
<1>3. phase'[o] = ph /\ wanted'[o] = want
  BY DEF LockInv, TypeOK
<1>4. \A u \in Owners : FitsPhase(phase'[u], wanted'[u], Held(u)')
  BY <1>1, <1>2, <1>3 DEF LockInv
<1>5. TypeOK'
  BY DEF LockInv, TypeOK
<1> QED
  BY <1>4, <1>5 DEF LockInv

LEMMA LockStep ==
  ASSUME LockInv, [Next]_vars
  PROVE  LockInv'
<1>t. \A o \in Owners : /\ phase[o] \in {"free", "locking", "locked", "unlocking"}
                        /\ wanted[o] \in SUBSET Paths
                        /\ wanted = [wanted EXCEPT ![o] = wanted[o]]
                        /\ FitsPhase(phase[o], wanted[o], Held(o))
  BY DEF LockInv, TypeOK
<1>1. ASSUME NEW o \in Owners, NEW spelled \in SUBSET Spellings, LockPaths(o, spelled)
      PROVE  LockInv'
  <2> DEFINE ph == IF spelled = {} THEN "locked" ELSE "locking"
  <2>1. Normalize(spelled) \in SUBSET Paths
    BY CleanAssumption DEF Normalize
  <2>2. Held(o) = {}
    BY <1>1, <1>t DEF LockPaths, FitsPhase
  <2>3. Normalize(spelled) = {} <=> spelled = {}
    BY DEF Normalize
  <2>4. FitsPhase(ph, Normalize(spelled), Held(o))
    BY <2>2, <2>3 DEF FitsPhase
  <2> QED
    BY <1>1, <2>1, <2>4, PhaseMoves DEF LockPaths
<1>2. ASSUME NEW o \in Owners, LockNext(o)
      PROVE  LockInv'
  <2> DEFINE p == Least(Missing(o))
             ph == IF Missing(o) = {p} THEN "locked" ELSE "locking"
  <2>1. /\ Held(o) \subseteq wanted[o]
        /\ Held(o) # wanted[o]
        /\ \A r \in Held(o) : \A q \in wanted[o] \ Held(o) : r < q
    BY <1>2, <1>t DEF LockNext, FitsPhase
  <2>2. Missing(o) # {} /\ Missing(o) \subseteq Paths /\ Paths \subseteq Nat
    BY <2>1, <1>t, PathsAssumption DEF Missing
  <2>3. p \in Missing(o) /\ \A q \in Missing(o) : p <= q
    BY <2>2, LeastExists
  <2>4. /\ holder[p] = NoOwner
        /\ holder' = [holder EXCEPT ![p] = o]
        /\ phase' = [phase EXCEPT ![o] = ph]
        /\ wanted' = wanted
    BY <1>2 DEF LockNext
  <2> HIDE DEF p
  <2>5. p \in Paths /\ p \in wanted[o]
    BY <2>2, <2>3 DEF Missing
  <2>6. Held(o)' = Held(o) \cup {p}
    BY <2>4, <2>5 DEF Held, LockInv, TypeOK
  <2>7. FitsPhase(ph, wanted[o], Held(o)')
    <3>1. CASE Missing(o) = {p}
      BY <2>1, <2>5, <2>6, <3>1 DEF FitsPhase, Missing
    <3>2. CASE Missing(o) # {p}
      <4>1. \A r \in Held(o) \cup {p} : \A q \in wanted[o] \ (Held(o) \cup {p}) : r < q
        <5> SUFFICES ASSUME NEW r \in Held(o) \cup {p},
                            NEW q \in wanted[o] \ (Held(o) \cup {p})
                     PROVE  r < q
          OBVIOUS
        <5>1. q \in Missing(o) /\ q # p
          BY DEF Missing
        <5>2. p \in Nat /\ q \in Nat /\ p <= q
          BY <2>2, <2>3, <5>1
        <5>3. p < q
          BY <5>1, <5>2
        <5>4. CASE r = p
          BY <5>3, <5>4
        <5>5. CASE r \in Held(o)
          BY <2>1, <5>5
        <5> QED
          BY <5>4, <5>5
      <4>2. Held(o) \cup {p} # wanted[o]
        BY <2>3, <3>2 DEF Missing
      <4> QED
        BY <2>1, <2>5, <2>6, <3>2, <4>1, <4>2 DEF FitsPhase
    <3> QED
      BY <3>1, <3>2
  <2>8. ph \in {"free", "locking", "locked", "unlocking"}
    OBVIOUS
  <2> HIDE DEF ph
  <2> QED
    BY <1>t, <2>4, <2>5, <2>7, <2>8, MutexMoves
<1>3. ASSUME NEW o \in Owners, Unlock(o)
      PROVE  LockInv'
  <2>1. Held(o) = wanted[o]
    BY <1>3, <1>t DEF Unlock, FitsPhase
  <2>2. CASE Held(o) = {}
    <3>1. FitsPhase("free", {}, Held(o))
      BY <2>2 DEF FitsPhase
    <3>2. /\ phase' = [phase EXCEPT ![o] = "free"]
          /\ wanted' = [wanted EXCEPT ![o] = {}]
          /\ holder' = holder
      BY <1>3, <2>2 DEF Unlock, Forget
    <3>3. {} \in SUBSET Paths
      OBVIOUS
    <3> QED
      BY <3>1, <3>2, <3>3, PhaseMoves
  <2>3. CASE Held(o) # {}
    <3>1. FitsPhase("unlocking", wanted[o], Held(o))
      BY <2>1, <2>3 DEF FitsPhase
    <3>2. /\ phase' = [phase EXCEPT ![o] = "unlocking"]
          /\ wanted' = wanted
          /\ holder' = holder
      BY <1>3, <2>3 DEF Unlock
    <3> QED
      BY <1>t, <3>1, <3>2, PhaseMoves
  <2> QED
    BY <2>2, <2>3
<1>4. ASSUME NEW o \in Owners, UnlockNext(o)
      PROVE  LockInv'
  <2> DEFINE p == Greatest(Held(o))
  <2>1. Held(o) \subseteq wanted[o] /\ Held(o) # {}
    BY <1>4, <1>t DEF UnlockNext, FitsPhase
  <2>2. p \in Held(o)
    BY <2>1, <1>t, GreatestExists
  <2>3. /\ holder' = [holder EXCEPT ![p] = NoOwner]
        /\ IF Held(o) = {p} THEN Forget(o) ELSE UNCHANGED <<phase, wanted>>
        /\ phase[o] = "unlocking"
    BY <1>4 DEF UnlockNext
  <2> HIDE DEF p
  <2>4. p \in Paths /\ holder[p] = o
    BY <2>2 DEF Held
  <2>5. Held(o)' = Held(o) \ {p}
    BY <2>3, <2>4, NoOwnerAssumption DEF Held, LockInv, TypeOK
  <2>6. CASE Held(o) = {p}
    <3>1. FitsPhase("free", {}, Held(o)')
      BY <2>5, <2>6 DEF FitsPhase
    <3>2. /\ phase' = [phase EXCEPT ![o] = "free"]
          /\ wanted' = [wanted EXCEPT ![o] = {}]
      BY <2>3, <2>6 DEF Forget
    <3>3. {} \in SUBSET Paths
      OBVIOUS
    <3> QED
      BY <2>3, <2>4, <3>1, <3>2, <3>3, MutexMoves
  <2>7. CASE Held(o) # {p}
    <3>1. FitsPhase("unlocking", wanted[o], Held(o)')
      BY <2>1, <2>2, <2>5, <2>7 DEF FitsPhase
    <3>2. /\ phase' = [phase EXCEPT ![o] = "unlocking"]
          /\ wanted' = [wanted EXCEPT ![o] = wanted[o]]
      BY <1>t, <2>3, <2>7 DEF LockInv, TypeOK
    <3> QED
      BY <1>t, <2>3, <2>4, <3>1, <3>2, MutexMoves
  <2> QED
    BY <2>6, <2>7
<1>5. CASE UNCHANGED vars
  BY <1>5 DEF vars, LockInv, TypeOK, Held
<1> QED
  BY <1>1, <1>2, <1>3, <1>4, <1>5 DEF Next

\* Each caller holds the mutexes its phase says it holds, the earlier ones before
\* the later ones, in every reachable state.
THEOREM LockInvariant == Spec => []LockInv
BY LockInit, LockStep, PTL DEF Spec

\* The type invariant, for any number of callers.
THEOREM LockTypes == Spec => []TypeOK
<1>1. LockInv => TypeOK
  BY DEF LockInv
<1> QED
  BY <1>1, LockInvariant, PTL

\* LockPaths returns only with every path of its argument locked.
THEOREM ReturnsWithAll == Spec => []HoldsAll
<1>1. LockInv => HoldsAll
  BY DEF LockInv, FitsPhase, HoldsAll
<1> QED
  BY <1>1, LockInvariant, PTL

\* Tasks whose target paths overlap are serialized.
THEOREM OverlapIsSerialized == Spec => []Serialized
<1>1. LockInv => Serialized
  BY DEF LockInv, FitsPhase, Serialized, Held
<1> QED
  BY <1>1, LockInvariant, PTL

\* The claim of the comment on ResourceLock: sorted acquisition prevents
\* deadlock.  In any set of callers, the one whose next path is the last
\* of all waits for nobody in the set: whoever holds that path waits, if at all,
\* for a later one.
THEOREM SortingPreventsDeadlock == Spec => []NoCircularWait
<1>1. LockInv => NoCircularWait
  <2> SUFFICES ASSUME LockInv, NEW S \in SUBSET Owners, S # {}
               PROVE  \E o \in S : \A other \in S : ~WaitsFor(o, other)
    BY DEF NoCircularWait
  <2> SUFFICES ASSUME \A o \in S : \E other \in S : WaitsFor(o, other)
               PROVE  FALSE
    OBVIOUS
  <2> DEFINE next == [o \in S |-> Least(Missing(o))]
  <2>1. \A o \in S : /\ Missing(o) # {}
                     /\ Missing(o) \subseteq Paths
                     /\ \A p \in Held(o) : \A q \in Missing(o) : p < q
    <3> SUFFICES ASSUME NEW o \in S
                 PROVE  /\ Missing(o) # {}
                        /\ Missing(o) \subseteq Paths
                        /\ \A p \in Held(o) : \A q \in Missing(o) : p < q
      OBVIOUS
    <3>1. o \in Owners /\ phase[o] = "locking"
      BY DEF WaitsFor
    <3>2. wanted[o] \subseteq Paths /\ FitsPhase("locking", wanted[o], Held(o))
      BY <3>1 DEF LockInv, TypeOK
    <3> QED
      BY <3>2 DEF FitsPhase, Missing
  <2>2. \A o \in S : next[o] \in Missing(o)
    BY <2>1, LeastExists, PathsAssumption
  <2>3. \A o \in S : next[o] \in Paths
    BY <2>1, <2>2
  <2>4. PICK o \in S : \A u \in S : next[u] <= next[o]
    <3> HIDE DEF next
    <3> QED
      BY <2>3, FurthestExists
  <2>5. PICK other \in S : WaitsFor(o, other)
    OBVIOUS
  <2>6. next[o] \in Held(other)
    BY <2>3, <2>5 DEF WaitsFor, Held
  <2>7. next[o] < next[other]
    BY <2>1, <2>2, <2>6
  <2>8. next[o] \in Nat /\ next[other] \in Nat /\ next[other] <= next[o]
    BY <2>3, <2>4, PathsAssumption
  <2> HIDE DEF next
  <2> QED
    BY <2>7, <2>8
<1> QED
  BY <1>1, LockInvariant, PTL
=============================================================================
