---------------------------- MODULE SurfaceProofs ----------------------------
(***************************************************************************)
(* What holds of the parts that users, programs and hosts meet, each an    *)
(* instance of its module with constants and variables of its own.         *)
(***************************************************************************)
EXTENDS MCSurface, SequenceTheorems, FiniteSetTheorems, WellFoundedInduction, TLAPS

-----------------------------------------------------------------------------
(* Sessions and their grants                                               *)

GrantsOf == /\ Grants!EndersAssumption /\ Grants!CapsAssumption
            /\ Grants!BoundsAssumption

\* What is given and spent is counted, and the grants for one action that are left
\* are what was given less what was spent or cleared.
Counted == /\ wanted \in [Checkers -> Caps]
           /\ given \in [Caps -> Nat] /\ spent \in [Caps -> Nat] /\ grants \in 0..MaxGrants
           /\ giveUps \in Nat
           /\ granted \in [Sessions -> SUBSET Caps]
           /\ \A c \in Caps : given[c] <= grants /\ spent[c] + actionGrants[c] <= given[c]

\* A call that is to reset the grants, or has returned without error, finds its
\* session ended; of an ended session nothing is left that was granted for it,
\* unless a call is still to reset the grants or has failed.
EndingInv ==
  /\ \A e \in Enders : ending[e] \in {"reset", "ok"} => status[EnderOf[e]] = "ENDED"
  /\ \A e \in Enders : ending[e] \in {"error", "error, queued"} => giveUps > 0
  /\ \A s \in Sessions : status[s] = "none" => granted[s] = {}
  /\ \A s \in Sessions :
       \/ status[s] # "ENDED"
       \/ giveUps > 0
       \/ \E e \in Enders : EnderOf[e] = s /\ ending[e] = "reset"
       \/ granted[s] \cap sessionGrants = {}

OneSession == \A s, u \in Sessions : s = u

GrantsInv == /\ Grants!TypeOK /\ Counted
             /\ OneSession => EndingInv /\ Grants!SessionGrantHolds

LEMMA GrantsInit == ASSUME GrantsOf, Grants!Init PROVE GrantsInv
<1> USE DEF GrantsOf, Grants!Init
<1>1. Grants!TypeOK
  BY DEF Grants!TypeOK, Grants!Nobody, Grants!Answered, Grants!BoundsAssumption
<1>2. Counted
  BY DEF Counted, Grants!BoundsAssumption
<1>3. EndingInv /\ Grants!SessionGrantHolds
  BY DEF EndingInv, Grants!SessionGrantHolds, Grants!EndersAssumption
<1> QED BY <1>1, <1>2, <1>3 DEF GrantsInv

\* What an action grant or its use makes of the counts.
LEMMA CountStep ==
  ASSUME NEW m \in Nat, NEW n \in 0..m, NEW g \in Nat, NEW s \in Nat, NEW a \in 0..m,
         g <= n, s + a <= g
  PROVE  /\ n < m => n + 1 \in 0..m /\ g + 1 \in Nat /\ g + 1 <= n + 1
                     /\ a + 1 \in 0..m /\ s + (a + 1) <= g + 1
         /\ n < m => g <= n + 1
         /\ a > 0 => s + 1 \in Nat /\ a - 1 \in 0..m /\ (s + 1) + (a - 1) <= g
         /\ s <= g /\ s + 0 <= g /\ 0 \in 0..m
OBVIOUS

LEMMA CountedKeeps ==
  ASSUME GrantsOf, Grants!TypeOK, Counted, Grants!Next
  PROVE  Counted' /\ actionGrants' \in [Caps -> 0..MaxGrants]
<1>0. /\ \A c \in Caps : given[c] <= grants /\ spent[c] + actionGrants[c] <= given[c]
      /\ \A c \in Caps : given[c] \in Nat /\ spent[c] \in Nat /\ actionGrants[c] \in 0..MaxGrants
      /\ grants \in 0..MaxGrants /\ MaxGrants \in Nat /\ giveUps \in Nat
      /\ wanted \in [Checkers -> Caps] /\ granted \in [Sessions -> SUBSET Caps]
      /\ given \in [Caps -> Nat] /\ spent \in [Caps -> Nat]
      /\ actionGrants \in [Caps -> 0..MaxGrants]
  BY DEF Counted, Grants!TypeOK, GrantsOf, Grants!BoundsAssumption
<1>c. \A c \in Caps :
        /\ grants < MaxGrants =>
             /\ grants + 1 \in 0..MaxGrants /\ given[c] + 1 \in Nat
             /\ given[c] + 1 <= grants + 1 /\ given[c] <= grants + 1
             /\ actionGrants[c] + 1 \in 0..MaxGrants
             /\ spent[c] + (actionGrants[c] + 1) <= given[c] + 1
        /\ actionGrants[c] > 0 =>
             /\ spent[c] + 1 \in Nat /\ actionGrants[c] - 1 \in 0..MaxGrants
             /\ (spent[c] + 1) + (actionGrants[c] - 1) <= given[c]
        /\ spent[c] + 0 <= given[c] /\ 0 \in 0..MaxGrants
  BY <1>0, CountStep
<1>1. ASSUME NEW s \in Sessions, NEW c \in Caps, NEW scope \in Grants!Scopes,
             Grants!Grant(s, c, scope)
      PROVE  Counted' /\ actionGrants' \in [Caps -> 0..MaxGrants]
  <2>1. /\ grants < MaxGrants /\ grants' = grants + 1 /\ spent' = spent
        /\ wanted' = wanted /\ giveUps' = giveUps
    BY <1>1 DEF Grants!Grant, Grants!checkers
  <2>2. \/ granted' = granted
        \/ granted' = [granted EXCEPT ![s] = @ \cup {c}]
    BY <1>1 DEF Grants!Grant, Grants!Scopes
  <2>3. \/ actionGrants' = actionGrants /\ given' = given
        \/ /\ actionGrants' = [actionGrants EXCEPT ![c] = @ + 1]
           /\ given' = [given EXCEPT ![c] = @ + 1]
    BY <1>1 DEF Grants!Grant, Grants!Scopes
  <2>4. granted' \in [Sessions -> SUBSET Caps]
    BY <1>0, <2>2
  <2>5. \A d \in Caps : \/ actionGrants'[d] = actionGrants[d] /\ given'[d] = given[d]
                        \/ /\ actionGrants'[d] = actionGrants[d] + 1
                           /\ given'[d] = given[d] + 1
    BY <1>0, <2>3
  <2>6. grants' \in 0..MaxGrants
    BY <1>c, <2>1
  <2>7. given' \in [Caps -> Nat] /\ actionGrants' \in [Caps -> 0..MaxGrants]
    BY <1>0, <1>c, <2>1, <2>3
  <2>8. \A d \in Caps : given'[d] <= grants' /\ spent'[d] + actionGrants'[d] <= given'[d]
    BY <1>0, <1>c, <2>1, <2>5
  <2> QED BY <1>0, <2>1, <2>4, <2>6, <2>7, <2>8 DEF Counted
<1>2. ASSUME NEW k \in Checkers, Grants!Consume(k)
      PROVE  Counted' /\ actionGrants' \in [Caps -> 0..MaxGrants]
  <2>1. /\ grants' = grants /\ given' = given /\ granted' = granted
        /\ wanted' = wanted /\ giveUps' = giveUps
    BY <1>2 DEF Grants!Consume
  <2>2. \/ actionGrants' = actionGrants /\ spent' = spent
        \/ /\ actionGrants[wanted[k]] > 0
           /\ actionGrants' = [actionGrants EXCEPT ![wanted[k]] = @ - 1]
           /\ spent' = [spent EXCEPT ![wanted[k]] = @ + 1]
    BY <1>2 DEF Grants!Consume
  <2>3. \A d \in Caps : \/ actionGrants'[d] = actionGrants[d] /\ spent'[d] = spent[d]
                        \/ /\ actionGrants[d] > 0
                           /\ actionGrants'[d] = actionGrants[d] - 1
                           /\ spent'[d] = spent[d] + 1
    BY <1>0, <2>2
  <2>4. spent' \in [Caps -> Nat] /\ actionGrants' \in [Caps -> 0..MaxGrants]
    <3>1. wanted[k] \in Caps
      BY <1>0
    <3>2. CASE actionGrants[wanted[k]] > 0
      <4>1. /\ spent[wanted[k]] + 1 \in Nat
            /\ actionGrants[wanted[k]] - 1 \in 0..MaxGrants
        BY <1>c, <3>1, <3>2
      <4> QED BY <1>0, <2>2, <4>1
    <3> QED BY <1>0, <2>2, <3>2
  <2>5. \A d \in Caps : given'[d] <= grants' /\ spent'[d] + actionGrants'[d] <= given'[d]
    BY <1>0, <1>c, <2>1, <2>3
  <2> QED BY <1>0, <2>1, <2>4, <2>5 DEF Counted
<1>3. ASSUME NEW e \in Enders, Grants!ResetSession(e)
      PROVE  Counted' /\ actionGrants' \in [Caps -> 0..MaxGrants]
  <2>1. /\ grants' = grants /\ given' = given /\ granted' = granted /\ spent' = spent
        /\ wanted' = wanted /\ giveUps' = giveUps
        /\ actionGrants' = [c \in Caps |-> 0]
    BY <1>3 DEF Grants!ResetSession, Grants!checkers
  <2> QED BY <1>0, <1>c, <2>1 DEF Counted
<1>4. CASE UNCHANGED <<Grants!approvals, wanted>> /\ giveUps' \in Nat
  BY <1>0, <1>4 DEF Counted, Grants!approvals
<1>5. ASSUME NEW k \in Checkers, NEW c \in Caps, Grants!Look(k, c)
      PROVE  Counted' /\ actionGrants' \in [Caps -> 0..MaxGrants]
  <2>1. UNCHANGED Grants!approvals /\ wanted' \in [Checkers -> Caps] /\ giveUps' = giveUps
    BY <1>0, <1>5 DEF Grants!Look
  <2> QED BY <1>0, <2>1 DEF Counted, Grants!approvals
<1>6. ASSUME NEW e \in Enders,
             \/ Grants!ReadSession(e) \/ Grants!Update(e) \/ Grants!GiveUp(e)
             \/ Grants!LateUpdate(e)
      PROVE  Counted' /\ actionGrants' \in [Caps -> 0..MaxGrants]
  <2>1. UNCHANGED <<Grants!approvals, wanted>>
    BY <1>6 DEF Grants!ReadSession, Grants!Update, Grants!GiveUp, Grants!LateUpdate,
       Grants!checkers
  <2>2. giveUps' = giveUps \/ giveUps' = giveUps + 1
    BY <1>6 DEF Grants!ReadSession, Grants!Update, Grants!GiveUp, Grants!LateUpdate
  <2>3. giveUps' \in Nat
    BY <1>0, <2>2
  <2> QED BY <1>4, <2>1, <2>3
<1>7. ASSUME NEW s \in Sessions, Grants!StartSession(s)
      PROVE  Counted' /\ actionGrants' \in [Caps -> 0..MaxGrants]
  BY <1>0, <1>4, <1>7 DEF Grants!StartSession, Grants!checkers
<1> QED
  BY <1>1, <1>2, <1>3, <1>5, <1>6, <1>7 DEF Grants!Next, Grants!EndSession

LEMMA GrantTypes ==
  ASSUME GrantsOf, Grants!TypeOK, Counted, Grants!Next,
         actionGrants' \in [Caps -> 0..MaxGrants]
  PROVE  Grants!TypeOK'
<1> USE DEF GrantsOf, Grants!TypeOK, Grants!Answered
<1>1. /\ status' \in [Sessions -> {"none", "ACTIVE", "ENDED"}]
      /\ summary' \in [Sessions -> Enders \cup {Grants!Nobody}]
      /\ endedAt' \in [Sessions -> Enders \cup {Grants!Nobody}]
  <2>1. \/ UNCHANGED Grants!rows
        \/ \E s \in Sessions : status' = [status EXCEPT ![s] = "ACTIVE"]
                             /\ summary' = summary /\ endedAt' = endedAt
        \/ \E e \in Enders : Grants!SetEnded(e)
    BY DEF Grants!Next, Grants!EndSession, Grants!StartSession, Grants!ReadSession,
       Grants!Update, Grants!GiveUp, Grants!LateUpdate, Grants!ResetSession, Grants!Grant,
       Grants!Look, Grants!Consume
  <2>2. ASSUME NEW e \in Enders, Grants!SetEnded(e) PROVE <1>1!:
    BY <2>2 DEF Grants!SetEnded, Grants!EndersAssumption
  <2> QED BY <2>1, <2>2 DEF Grants!rows
<1>2. allowlist' \in SUBSET Caps /\ sessionGrants' \in SUBSET Caps
  BY DEF Grants!Next, Grants!EndSession, Grants!StartSession, Grants!ReadSession,
     Grants!Update, Grants!GiveUp, Grants!LateUpdate, Grants!ResetSession, Grants!Scopes,
     Grants!Grant, Grants!Look, Grants!Consume, Grants!approvals
<1>3. ending' \in [Enders -> {"idle", "update", "reset", "ok", "error", "error, queued"}]
  <2>1. \/ ending' = ending
        \/ \E e \in Enders, w \in {"update", "reset", "ok", "error", "error, queued"} :
             Grants!To(e, w)
    BY DEF Grants!Next, Grants!EndSession, Grants!StartSession, Grants!ReadSession,
       Grants!Update, Grants!GiveUp, Grants!LateUpdate, Grants!ResetSession, Grants!Grant,
       Grants!Look, Grants!Consume
  <2> QED BY <2>1 DEF Grants!To
<1>4. checking' \in [Checkers -> {"idle", "yes", "no", "consume"}]
  <2>1. \/ checking' = checking
        \/ \E k \in Checkers, w \in {"yes", "no", "consume"} : Grants!Answer(k, w)
    BY DEF Grants!Next, Grants!EndSession, Grants!StartSession, Grants!ReadSession,
       Grants!Update, Grants!GiveUp, Grants!LateUpdate, Grants!ResetSession, Grants!Grant,
       Grants!Look, Grants!Consume, Grants!checkers
  <2> QED BY <2>1 DEF Grants!Answer
<1> QED BY <1>1, <1>2, <1>3, <1>4

LEMMA EndingKeeps ==
  ASSUME GrantsOf, OneSession, Grants!TypeOK, Counted, EndingInv,
         Grants!SessionGrantHolds, Grants!Next
  PROVE  EndingInv' /\ Grants!SessionGrantHolds'
<1> USE DEF GrantsOf, Grants!EndersAssumption
<1>0. /\ \A e \in Enders : EnderOf[e] \in Sessions /\ \A s \in Sessions : EnderOf[e] = s
      /\ giveUps \in Nat
  BY DEF OneSession, Counted
<1>1. ASSUME NEW s \in Sessions, Grants!StartSession(s)
      PROVE  EndingInv' /\ Grants!SessionGrantHolds'
  BY <1>0, <1>1 DEF Grants!StartSession, EndingInv, Grants!SessionGrantHolds,
     Grants!TypeOK, Grants!approvals
<1>2. ASSUME NEW e \in Enders, Grants!ReadSession(e)
      PROVE  EndingInv' /\ Grants!SessionGrantHolds'
  BY <1>0, <1>2 DEF Grants!ReadSession, Grants!To, EndingInv, Grants!SessionGrantHolds,
     Grants!TypeOK, Grants!rows, Grants!approvals
<1>3. ASSUME NEW e \in Enders, Grants!Update(e)
      PROVE  EndingInv' /\ Grants!SessionGrantHolds'
  BY <1>0, <1>3 DEF Grants!Update, Grants!SetEnded, Grants!To, EndingInv,
     Grants!SessionGrantHolds, Grants!TypeOK, Grants!approvals
<1>4. ASSUME NEW e \in Enders, Grants!GiveUp(e)
      PROVE  EndingInv' /\ Grants!SessionGrantHolds'
  <2>1. giveUps' = giveUps + 1
    BY <1>4 DEF Grants!GiveUp
  <2>2. giveUps' > 0
    BY <1>0, <2>1
  <2>3. /\ UNCHANGED <<status, granted, sessionGrants>>
        /\ ending' \in {[ending EXCEPT ![e] = "error"], [ending EXCEPT ![e] = "error, queued"]}
    BY <1>4 DEF Grants!GiveUp, Grants!To, Grants!rows, Grants!approvals
  <2> QED BY <2>2, <2>3 DEF EndingInv, Grants!SessionGrantHolds, Grants!TypeOK
<1>5. ASSUME NEW e \in Enders, Grants!LateUpdate(e)
      PROVE  EndingInv' /\ Grants!SessionGrantHolds'
  BY <1>0, <1>5 DEF Grants!LateUpdate, Grants!SetEnded, Grants!To, EndingInv,
     Grants!SessionGrantHolds, Grants!TypeOK, Grants!approvals
<1>6. ASSUME NEW e \in Enders, Grants!ResetSession(e)
      PROVE  EndingInv' /\ Grants!SessionGrantHolds'
  BY <1>0, <1>6 DEF Grants!ResetSession, Grants!To, EndingInv, Grants!SessionGrantHolds,
     Grants!TypeOK, Grants!rows
<1>7. ASSUME NEW s \in Sessions, NEW c \in Caps, NEW scope \in Grants!Scopes,
             Grants!Grant(s, c, scope)
      PROVE  EndingInv' /\ Grants!SessionGrantHolds'
  <2>1. /\ status[s] = "ACTIVE" /\ status' = status /\ ending' = ending /\ giveUps' = giveUps
        /\ \A u \in Sessions : u = s
    BY <1>7 DEF Grants!Grant, Grants!rows, OneSession
  <2>2. \/ granted' = granted /\ sessionGrants' = sessionGrants
        \/ /\ granted' = [granted EXCEPT ![s] = @ \cup {c}]
           /\ sessionGrants' = sessionGrants \cup {c}
    BY <1>7 DEF Grants!Grant, Grants!Scopes
  <2>3. granted'[s] \subseteq sessionGrants'
    BY <2>1, <2>2 DEF Grants!SessionGrantHolds, Counted
  <2> QED BY <1>0, <2>1, <2>3 DEF EndingInv, Grants!SessionGrantHolds
<1>8. ASSUME NEW k \in Checkers, Grants!Consume(k) \/ \E c \in Caps : Grants!Look(k, c)
      PROVE  EndingInv' /\ Grants!SessionGrantHolds'
  <2>1. UNCHANGED <<status, ending, giveUps, granted, sessionGrants>>
    BY <1>8 DEF Grants!Consume, Grants!Look, Grants!rows, Grants!approvals
  <2> QED BY <2>1 DEF EndingInv, Grants!SessionGrantHolds
<1> QED
  BY <1>1, <1>2, <1>3, <1>4, <1>5, <1>6, <1>7, <1>8 DEF Grants!Next, Grants!EndSession

LEMMA GrantsStep == ASSUME GrantsOf, GrantsInv, [Grants!Next]_(Grants!vars) PROVE GrantsInv'
<1>1. CASE Grants!Next
  <2>1. Counted' /\ Grants!TypeOK'
    BY <1>1, CountedKeeps, GrantTypes DEF GrantsInv
  <2>2. OneSession' <=> OneSession
    BY DEF OneSession
  <2> QED BY <1>1, <2>1, <2>2, EndingKeeps DEF GrantsInv
<1>2. CASE UNCHANGED Grants!vars
  BY <1>2 DEF Grants!vars, GrantsInv, Grants!TypeOK, Counted, OneSession, EndingInv,
     Grants!SessionGrantHolds
<1> QED BY <1>1, <1>2

LEMMA GrantsImply == ASSUME GrantsOf, GrantsInv PROVE Grants!GrantsAreKept
<1>1. Grants!TypeOK /\ Grants!SpentOnce
  BY DEF GrantsInv, Counted, Grants!SpentOnce
<1>2. ASSUME OneSession, giveUps = 0 PROVE Grants!EndedHasNoGrants
  <2>1. ~(giveUps > 0)
    BY <1>2
  <2> QED BY <1>2, <2>1 DEF GrantsInv, EndingInv, Grants!EndedHasNoGrants
<1> QED BY <1>1, <1>2 DEF Grants!GrantsAreKept, GrantsInv, OneSession

\* However many goroutines ask at once, no more checks are answered by grants for
\* one action than were given; and with one session, what is granted for it stays
\* approved until it ends and no longer once the calls that end it have returned:
\* for any capabilities, checkers and calls (approval.go; session.go, EndSession).
THEOREM GrantsHold == ASSUME GrantsOf PROVE Grants!Spec => []GrantsAreKept
BY GrantsInit, GrantsStep, GrantsImply, PTL DEF Grants!Spec, GrantsAreKept

-----------------------------------------------------------------------------
(* Events                                                                  *)

EventsOf == /\ Events!BufferAssumption /\ Events!MayAbortAssumption
            /\ Events!NamesAssumption

Job == Events!Run

\* What a Publish has still to send to is subscribed, and what is subscribed is
\* open: a channel leaves subs and is closed in one step, with no Publish inside.
Targets == /\ left \in [Events!Publishers -> SUBSET Events!Subscribers]
           /\ \A p \in Events!Publishers : left[p] \subseteq subs
           /\ subs \cap closed = {}

\* Nothing comes before the run's start has been sent to all, nor after its end.
PublishInv ==
  /\ tStage \in [Events!Publishers -> {"idle", "started", "completed"}]
  /\ \A p \in Events!Publishers :
       left[p] # {} => tStage[p] # "idle" /\ sending[p] = [type |-> tStage[p], by |-> p]
  /\ tStage[Job] = "idle" \/ (tStage[Job] = "started" /\ left[Job] # {})
       => \A t \in Tasks : tStage[t] = "idle"
  /\ tStage[Job] = "completed" /\ ~aborted
       => \A t \in Tasks : left[t] = {} /\ tStage[t] # "started"

\* All that has been sent to a subscriber.
Got(s) == tSeen[s] \o buf[s]

\* The event is one that its publisher has sent, and no other is in progress but
\* a later one.
Fits(s, e) ==
  /\ tStage[e.by] # "idle" /\ (e.type = "completed" => tStage[e.by] = "completed")
  /\ s \in left[e.by] => e.type = "started" /\ tStage[e.by] = "completed"

AllFit == \A s \in Events!Subscribers : \A i \in DOMAIN Got(s) : Fits(s, Got(s)[i])

Channels == /\ buf \in [Events!Subscribers -> Seq(Events!Events)]
            /\ tSeen \in [Events!Subscribers -> Seq(Events!Events)]
            /\ \A s \in Events!Subscribers : Len(buf[s]) <= BufferSize
            /\ sending \in [Events!Publishers -> Events!Events \cup {Events!Idle}]
            /\ subs \subseteq Events!Subscribers /\ closed \subseteq Events!Subscribers
            /\ aborted \in BOOLEAN
            /\ cli \in {"new", "running", "cancelled", "printed", "exited"}

\* f may come after e.
Follows(f, e) ==
  /\ f # [type |-> "started", by |-> Job]
  /\ aborted \/ e # [type |-> "completed", by |-> Job]
  /\ e.by = f.by => e.type = "started" /\ f.type = "completed"

Ordered(s) == \A i, j \in DOMAIN Got(s) : i < j => Follows(Got(s)[j], Got(s)[i])

AllOrdered == \A s \in Events!Subscribers : Ordered(s)

EventsInv == Channels /\ Targets /\ PublishInv /\ AllFit /\ AllOrdered

LEMMA EventsInit == ASSUME EventsOf, Events!Init PROVE EventsInv
<1> USE DEF EventsOf, Events!Init
<1>0. \A s \in Events!Subscribers : buf[s] = <<>> /\ tSeen[s] = <<>> /\ Len(buf[s]) = 0
                                  /\ Got(s) = <<>> /\ DOMAIN Got(s) = {}
  BY DEF Got
<1>1. Channels
  <2>1. BufferSize \in Nat
    BY DEF Events!BufferAssumption
  <2>2. \A s \in Events!Subscribers : Len(buf[s]) <= BufferSize
    BY <1>0, <2>1
  <2>3. <<>> \in Seq(Events!Events)
    OBVIOUS
  <2>4. /\ buf \in [Events!Subscribers -> Seq(Events!Events)]
        /\ tSeen \in [Events!Subscribers -> Seq(Events!Events)]
        /\ sending \in [Events!Publishers -> Events!Events \cup {Events!Idle}]
    BY <2>3
  <2> QED BY <2>2, <2>4 DEF Channels
<1>2. Targets
  BY DEF Targets
<1>3. PublishInv
  BY DEF PublishInv, Job, Events!Publishers
<1>4. AllFit /\ AllOrdered
  BY <1>0 DEF AllFit, AllOrdered, Ordered
<1> QED BY <1>1, <1>2, <1>3, <1>4 DEF EventsInv

LEMMA Places ==
  ASSUME NEW m \in Nat, NEW n \in Nat, NEW i \in 1..(m + n)
  PROVE  /\ i \in Nat /\ (i <= m \/ i = m + 1 \/ i > m + 1)
         /\ ~(i <= m) => i - m \in 1..n
         /\ i \in 1..(m + n + 1)
         /\ i > m + 1 => i - (m + 1) \in 1..(n - 1) /\ (i - (m + 1)) + 1 = i - m
                         /\ ~(i <= m) /\ ~(i <= m + 1)
         /\ (m + 1) - m = 1 /\ (m + n + 1) - m = n + 1
OBVIOUS

\* An event that is received moves from the buffer to what was seen.
LEMMA Received ==
  ASSUME NEW S, NEW s \in Seq(S), NEW b \in Seq(S), b # <<>>
  PROVE  /\ Append(s, Head(b)) \in Seq(S) /\ Tail(b) \in Seq(S)
         /\ Len(Tail(b)) = Len(b) - 1 /\ Len(b) \in Nat
         /\ Append(s, Head(b)) \o Tail(b) = s \o b
<1>1. /\ Head(b) \in S /\ Tail(b) \in Seq(S) /\ Len(Tail(b)) = Len(b) - 1
      /\ \A i \in 1..Len(Tail(b)) : Tail(b)[i] = b[i + 1]
  BY HeadTailProperties
<1>2. Len(b) \in Nat /\ Len(s) \in Nat
  BY LenProperties
<1> DEFINE a == Append(s, Head(b))
<1>3. /\ a \in Seq(S) /\ Len(a) = Len(s) + 1 /\ a[Len(s) + 1] = Head(b)
      /\ \A i \in 1..Len(s) : a[i] = s[i]
  BY <1>1, AppendProperties
<1>4. Head(b) = b[1] /\ Len(b) >= 1
  BY <1>2, EmptySeq
<1> HIDE DEF a
<1>5. /\ a \o Tail(b) \in Seq(S) /\ Len(a \o Tail(b)) = Len(s) + Len(b)
      /\ \A i \in 1..(Len(s) + Len(b)) : (a \o Tail(b))[i] =
            IF i <= Len(s) + 1 THEN a[i] ELSE Tail(b)[i - (Len(s) + 1)]
  <2>1. /\ a \o Tail(b) \in Seq(S) /\ Len(a \o Tail(b)) = Len(a) + Len(Tail(b))
        /\ \A i \in 1..(Len(a) + Len(Tail(b))) : (a \o Tail(b))[i] =
              IF i <= Len(a) THEN a[i] ELSE Tail(b)[i - Len(a)]
    BY <1>1, <1>3, ConcatProperties
  <2>2. Len(a) + Len(Tail(b)) = Len(s) + Len(b)
    BY <1>1, <1>2, <1>3
  <2> QED BY <1>3, <2>1, <2>2
<1>6. /\ s \o b \in Seq(S) /\ Len(s \o b) = Len(s) + Len(b)
      /\ \A i \in 1..(Len(s) + Len(b)) : (s \o b)[i] =
            IF i <= Len(s) THEN s[i] ELSE b[i - Len(s)]
  BY ConcatProperties
<1>7. \A i \in 1..(Len(s) + Len(b)) : (a \o Tail(b))[i] = (s \o b)[i]
  <2> SUFFICES ASSUME NEW i \in 1..(Len(s) + Len(b)) PROVE (a \o Tail(b))[i] = (s \o b)[i]
    OBVIOUS
  <2>0. /\ i \in Nat /\ (i <= Len(s) \/ i = Len(s) + 1 \/ i > Len(s) + 1)
        /\ i > Len(s) + 1 =>
             /\ i - (Len(s) + 1) \in 1..(Len(b) - 1)
             /\ (i - (Len(s) + 1)) + 1 = i - Len(s)
             /\ ~(i <= Len(s)) /\ ~(i <= Len(s) + 1)
        /\ (Len(s) + 1) - Len(s) = 1
    BY <1>2, Places
  <2>1. CASE i <= Len(s)
    BY <1>2, <1>3, <1>5, <1>6, <2>1
  <2>2. CASE i = Len(s) + 1
    BY <1>2, <1>3, <1>4, <1>5, <1>6, <2>0, <2>2
  <2>3. CASE i > Len(s) + 1
    BY <1>1, <1>5, <1>6, <2>0, <2>3
  <2> QED BY <2>0, <2>1, <2>2, <2>3
<1>8. a \o Tail(b) = s \o b
  BY <1>5, <1>6, <1>7, SeqEqual
<1> QED BY <1>1, <1>2, <1>3, <1>8 DEF a

\* t is s with e after it.
EndsWith(t, s, e) ==
  \E z \in Nat \ {0} : /\ z \notin DOMAIN s /\ DOMAIN t = DOMAIN s \cup {z}
                       /\ t[z] = e
                       /\ \A i \in DOMAIN s : t[i] = s[i] /\ ~(z < i)
                       /\ ~(z < z)

LEMMA Appended ==
  ASSUME NEW S, NEW s \in Seq(S), NEW e \in S
  PROVE  Append(s, e) \in Seq(S) /\ EndsWith(Append(s, e), s, e)
<1> DEFINE t == Append(s, e)
<1>1. /\ t \in Seq(S) /\ Len(t) = Len(s) + 1 /\ t[Len(s) + 1] = e
      /\ \A i \in 1..Len(s) : t[i] = s[i]
  BY AppendProperties
<1> HIDE DEF t
<1>2. Len(s) \in Nat /\ DOMAIN s = 1..Len(s) /\ DOMAIN t = 1..Len(t)
  BY <1>1, LenProperties
<1>3. \A n \in Nat : /\ n + 1 \in Nat \ {0} /\ n + 1 \notin 1..n
                     /\ 1..(n + 1) = 1..n \cup {n + 1}
                     /\ \A i \in 1..n : ~(n + 1 < i)
                     /\ ~(n + 1 < n + 1)
  OBVIOUS
<1>4. DOMAIN t = 1..(Len(s) + 1)
  BY <1>1, <1>2
<1>5. /\ Len(s) + 1 \in Nat \ {0} /\ Len(s) + 1 \notin DOMAIN s
      /\ DOMAIN t = DOMAIN s \cup {Len(s) + 1}
      /\ \A i \in DOMAIN s : ~(Len(s) + 1 < i)
      /\ ~(Len(s) + 1 < Len(s) + 1)
  BY <1>2, <1>3, <1>4
<1>6. EndsWith(t, s, e)
  BY <1>1, <1>2, <1>5 DEF EndsWith
<1> QED BY <1>1, <1>6 DEF t

\* An event that is delivered comes last.
LEMMA Delivered ==
  ASSUME NEW S, NEW s \in Seq(S), NEW b \in Seq(S), NEW e \in S
  PROVE  LET n == Len(s \o b)
             after == s \o Append(b, e)
         IN /\ n \in Nat /\ DOMAIN (s \o b) = 1..n /\ DOMAIN after = 1..(n + 1)
            /\ \A i \in 1..n : after[i] = (s \o b)[i]
            /\ after[n + 1] = e
            /\ Append(b, e) \in Seq(S) /\ Len(Append(b, e)) = Len(b) + 1 /\ Len(b) \in Nat
<1>1. Len(b) \in Nat /\ Len(s) \in Nat
  BY LenProperties
<1> DEFINE c == Append(b, e)
<1>2. /\ c \in Seq(S) /\ Len(c) = Len(b) + 1 /\ c[Len(b) + 1] = e
      /\ \A i \in 1..Len(b) : c[i] = b[i]
  BY AppendProperties
<1> HIDE DEF c
<1>3. /\ s \o b \in Seq(S) /\ Len(s \o b) = Len(s) + Len(b)
      /\ \A i \in 1..(Len(s) + Len(b)) : (s \o b)[i] =
            IF i <= Len(s) THEN s[i] ELSE b[i - Len(s)]
  BY ConcatProperties
<1>4. /\ s \o c \in Seq(S) /\ Len(s \o c) = Len(s) + Len(b) + 1
      /\ \A i \in 1..(Len(s) + Len(b) + 1) : (s \o c)[i] =
            IF i <= Len(s) THEN s[i] ELSE c[i - Len(s)]
  <2>1. /\ s \o c \in Seq(S) /\ Len(s \o c) = Len(s) + Len(c)
        /\ \A i \in 1..(Len(s) + Len(c)) : (s \o c)[i] =
              IF i <= Len(s) THEN s[i] ELSE c[i - Len(s)]
    BY <1>2, ConcatProperties
  <2>2. Len(s) + Len(c) = Len(s) + Len(b) + 1
    BY <1>1, <1>2
  <2> QED BY <2>1, <2>2
<1>5. \A i \in 1..(Len(s) + Len(b)) : (s \o c)[i] = (s \o b)[i]
  <2> SUFFICES ASSUME NEW i \in 1..(Len(s) + Len(b)) PROVE (s \o c)[i] = (s \o b)[i]
    OBVIOUS
  <2>0. /\ i \in 1..(Len(s) + Len(b) + 1)
        /\ ~(i <= Len(s)) => i - Len(s) \in 1..Len(b)
    BY <1>1, Places
  <2>1. CASE i <= Len(s)
    BY <1>3, <1>4, <2>0, <2>1
  <2>2. CASE ~(i <= Len(s))
    BY <1>2, <1>3, <1>4, <2>0, <2>2
  <2> QED BY <2>1, <2>2
<1>6. (s \o c)[Len(s) + Len(b) + 1] = e
  <2>1. (Len(s) + Len(b) + 1) - Len(s) = Len(b) + 1
    BY <1>1
  <2> QED BY <1>1, <1>2, <1>4, <2>1
<1>7. DOMAIN (s \o b) = 1..(Len(s) + Len(b)) /\ DOMAIN (s \o c) = 1..(Len(s) + Len(b) + 1)
  BY <1>3, <1>4, LenProperties
<1> QED BY <1>1, <1>2, <1>3, <1>5, <1>6, <1>7 DEF c

\* All that was sent is typed, and what fits is told by what it fits to.
LEMMA GotTyped ==
  ASSUME Channels, NEW s \in Events!Subscribers
  PROVE  /\ Got(s) \in Seq(Events!Events) /\ DOMAIN Got(s) = 1..Len(Got(s))
         /\ Len(Got(s)) \in Nat
         /\ \A i \in DOMAIN Got(s) : /\ Got(s)[i].by \in Events!Publishers
                                   /\ Got(s)[i].type \in {"started", "completed"}
<1>1. tSeen[s] \in Seq(Events!Events) /\ buf[s] \in Seq(Events!Events)
  BY DEF Channels
<1>2. Got(s) \in Seq(Events!Events)
  BY <1>1, ConcatProperties DEF Got
<1>3. DOMAIN Got(s) = 1..Len(Got(s)) /\ Len(Got(s)) \in Nat
  BY <1>2, LenProperties
<1>4. \A i \in DOMAIN Got(s) : Got(s)[i] \in Events!Events
  BY <1>2, <1>3, ElementOfSeq
<1> QED BY <1>2, <1>3, <1>4 DEF Events!Events

\* A Publish that begins is the publisher's first, or its second after the first.
LEMMA PublishKeeps ==
  ASSUME EventsOf, EventsInv, NEW p \in Events!Publishers, NEW type,
         Events!Publish(p, type), UNCHANGED tSeen,
         \/ tStage[p] = "idle" /\ type = "started"
         \/ tStage[p] = "started" /\ type = "completed",
         p # Job => /\ tStage[Job] # "idle" /\ (tStage[Job] = "started" => left[Job] = {})
                    /\ tStage[Job] = "completed" => aborted,
         p = Job /\ type = "completed" =>
           aborted \/ \A t \in Tasks : tStage[t] # "started" /\ left[t] = {}
  PROVE  EventsInv'
<1>0. /\ left[p] = {} /\ left' = [left EXCEPT ![p] = subs]
      /\ sending' = [sending EXCEPT ![p] = [type |-> type, by |-> p]]
      /\ tStage' = [tStage EXCEPT ![p] = type]
      /\ UNCHANGED <<subs, closed, buf, tSeen, aborted, cli>>
  BY DEF Events!Publish
<1>1. Channels'
  <2>1. [type |-> type, by |-> p] \in Events!Events
    BY DEF Events!Events
  <2> QED BY <1>0, <2>1 DEF EventsInv, Channels
<1>2. Targets'
  BY <1>0 DEF EventsInv, Targets, Channels
<1>3. PublishInv'
  <2>1. Job \in Events!Publishers /\ Job \notin Tasks /\ Events!Publishers = Tasks \cup {Job}
    BY DEF Job, Events!Publishers, EventsOf, Events!NamesAssumption
  <2>2. tStage' \in [Events!Publishers -> {"idle", "started", "completed"}]
    BY <1>0 DEF EventsInv, PublishInv
  <2>3. \A q \in Events!Publishers :
          left'[q] # {} => tStage'[q] # "idle" /\ sending'[q] = [type |-> tStage'[q], by |-> q]
    BY <1>0 DEF EventsInv, PublishInv, Targets, Channels
  <2>4. ASSUME tStage'[Job] = "idle" \/ (tStage'[Job] = "started" /\ left'[Job] # {})
        PROVE  \A t \in Tasks : tStage'[t] = "idle"
    BY <1>0, <2>1, <2>4 DEF EventsInv, PublishInv, Targets
  <2>5. ASSUME tStage'[Job] = "completed", ~aborted'
        PROVE  \A t \in Tasks : left'[t] = {} /\ tStage'[t] # "started"
    <3>1. p = Job
      BY <1>0, <2>1, <2>5 DEF EventsInv, PublishInv
    <3>2. \A t \in Tasks : left[t] = {} /\ tStage[t] # "started"
      BY <1>0, <2>1, <2>5, <3>1 DEF EventsInv, PublishInv
    <3> QED BY <1>0, <2>1, <3>1, <3>2 DEF EventsInv, Targets
  <2> QED BY <2>2, <2>3, <2>4, <2>5 DEF PublishInv, Job
<1>4. AllFit'
  <2> SUFFICES ASSUME NEW s \in Events!Subscribers, NEW i \in DOMAIN Got(s)
               PROVE  Fits(s, Got(s)[i])'
    BY <1>0 DEF AllFit, Got
  <2>1. Fits(s, Got(s)[i]) /\ Got(s)' = Got(s)
    BY <1>0 DEF EventsInv, AllFit, Got
  <2>2. Got(s)[i].by \in Events!Publishers /\ Got(s)[i].type \in {"started", "completed"}
    BY GotTyped DEF EventsInv
  <2> QED BY <1>0, <2>1, <2>2 DEF Fits, EventsInv, PublishInv, Targets
<1>5. AllOrdered'
  <2>1. \A u \in Events!Subscribers : Got(u)' = Got(u)
    BY <1>0 DEF Got
  <2> QED BY <1>0, <2>1 DEF EventsInv, AllOrdered, Ordered, Follows
<1> QED BY <1>1, <1>2, <1>3, <1>4, <1>5 DEF EventsInv

LEMMA SendKeeps ==
  ASSUME EventsOf, EventsInv, NEW p \in Events!Publishers, NEW s \in Events!Subscribers,
         Events!Send(p, s)
  PROVE  EventsInv'
<1> DEFINE e == sending[p]
           n == Len(Got(s))
<1>0. /\ s \in left[p] /\ left' = [left EXCEPT ![p] = @ \ {s}]
      /\ UNCHANGED <<tStage, sending, subs, closed, tSeen, aborted, cli>>
      /\ buf' = IF Len(buf[s]) < BufferSize THEN [buf EXCEPT ![s] = Append(@, e)] ELSE buf
  BY DEF Events!Send, Events!Deliver
<1>1. /\ e = [type |-> tStage[p], by |-> p] /\ e \in Events!Events
      /\ tStage[p] \in {"started", "completed"}
  BY <1>0 DEF EventsInv, PublishInv, Events!Events
<1>t. tSeen[s] \in Seq(Events!Events) /\ buf[s] \in Seq(Events!Events)
  BY DEF EventsInv, Channels
<1> HIDE DEF e, n
<1>2. \A u \in Events!Subscribers :
        \/ Got(u)' = Got(u)
        \/ /\ u = s /\ n \in Nat /\ DOMAIN Got(s) = 1..n /\ DOMAIN (Got(s)') = 1..(n + 1)
           /\ \A i \in 1..n : Got(s)'[i] = Got(s)[i]
           /\ Got(s)'[n + 1] = e
  <2> SUFFICES ASSUME NEW u \in Events!Subscribers, buf'[u] # buf[u] PROVE <1>2!(u)
    BY <1>0 DEF Got
  <2>1. u = s /\ buf'[s] = Append(buf[s], e)
    BY <1>0 DEF EventsInv, Channels
  <2> DEFINE a == tSeen[s]
             b == buf[s]
             after == a \o Append(b, e)
  <2>2. /\ Len(a \o b) \in Nat /\ DOMAIN (a \o b) = 1..Len(a \o b)
        /\ DOMAIN after = 1..(Len(a \o b) + 1)
        /\ \A i \in 1..Len(a \o b) : after[i] = (a \o b)[i]
        /\ after[Len(a \o b) + 1] = e
    <3>1. a \in Seq(Events!Events) /\ b \in Seq(Events!Events) /\ e \in Events!Events
      BY <1>1, <1>t
    <3> HIDE DEF a, b
    <3> QED BY <3>1, Delivered
  <2>3. Got(s) = tSeen[s] \o buf[s] /\ Got(s)' = tSeen[s] \o Append(buf[s], e)
    BY <1>0, <2>1 DEF Got
  <2>4. n = Len(tSeen[s] \o buf[s])
    BY DEF n, Got
  <2> QED BY <2>1, <2>2, <2>3, <2>4
<1>3. Channels'
  <2>1. buf' \in [Events!Subscribers -> Seq(Events!Events)]
    BY <1>0, <1>1, <1>t, AppendProperties DEF EventsInv, Channels
  <2>2. \A u \in Events!Subscribers : Len(buf'[u]) <= BufferSize
    <3> SUFFICES ASSUME NEW u \in Events!Subscribers, buf'[u] # buf[u]
                 PROVE  Len(buf'[u]) <= BufferSize
      BY DEF EventsInv, Channels
    <3>1. u = s /\ buf'[s] = Append(buf[s], e) /\ Len(buf[s]) < BufferSize
      BY <1>0 DEF EventsInv, Channels
    <3>2. Len(Append(buf[s], e)) = Len(buf[s]) + 1 /\ Len(buf[s]) \in Nat
      BY <1>1, <1>t, Delivered
    <3> QED BY <3>1, <3>2 DEF EventsOf, Events!BufferAssumption
  <2> QED BY <1>0, <2>1, <2>2 DEF EventsInv, Channels
<1>4. Targets'
  BY <1>0 DEF EventsInv, Targets
<1>5. PublishInv'
  <2>1. \A q \in Events!Publishers : left'[q] \subseteq left[q]
    BY <1>0 DEF EventsInv, Targets
  <2>2. Tasks \subseteq Events!Publishers /\ Job \in Events!Publishers
    BY DEF Events!Publishers, Job
  <2>3. /\ tStage' = tStage /\ sending' = sending /\ aborted' = aborted
        /\ \A q \in Events!Publishers : left'[q] # {} => left[q] # {}
    BY <1>0, <2>1
  <2> QED BY <2>1, <2>2, <2>3 DEF EventsInv, PublishInv, Job
<1>6. AllFit'
  <2> SUFFICES ASSUME NEW u \in Events!Subscribers, NEW i \in DOMAIN (Got(u)')
               PROVE  Fits(u, Got(u)[i])'
    BY DEF AllFit
  <2>1. CASE i \in DOMAIN Got(u) /\ Got(u)'[i] = Got(u)[i]
    <3>1. Fits(u, Got(u)[i]) /\ Got(u)[i].by \in Events!Publishers
      BY <2>1, GotTyped DEF EventsInv, AllFit
    <3>2. left'[Got(u)[i].by] \subseteq left[Got(u)[i].by]
      BY <1>0, <3>1 DEF EventsInv, Targets
    <3> QED BY <1>0, <2>1, <3>1, <3>2 DEF Fits
  <2>2. CASE u = s /\ Got(u)'[i] = e
    <3>1. left'[p] = left[p] \ {s}
      BY <1>0 DEF EventsInv, Targets
    <3> QED BY <1>0, <1>1, <2>2, <3>1 DEF Fits
  <2> QED BY <1>2, <2>1, <2>2
<1>7. AllOrdered'
  <2> SUFFICES ASSUME NEW u \in Events!Subscribers,
                      NEW i \in DOMAIN (Got(u)'), NEW j \in DOMAIN (Got(u)'), i < j
               PROVE  Follows(Got(u)[j], Got(u)[i])'
    BY DEF AllOrdered, Ordered
  <2>0. ASSUME NEW v, NEW k, NEW l, Follows(Got(v)[l], Got(v)[k]),
               Got(v)'[l] = Got(v)[l], Got(v)'[k] = Got(v)[k]
        PROVE  Follows(Got(v)[l], Got(v)[k])'
    BY <1>0, <2>0 DEF Follows
  <2>1. CASE Got(u)' = Got(u)
    <3>1. Follows(Got(u)[j], Got(u)[i])
      BY <2>1 DEF EventsInv, AllOrdered, Ordered
    <3> QED BY <2>0, <2>1, <3>1
  <2>2. CASE Got(u)' # Got(u)
    <3>1. /\ u = s /\ n \in Nat /\ DOMAIN Got(s) = 1..n /\ DOMAIN (Got(s)') = 1..(n + 1)
          /\ \A k \in 1..n : Got(s)'[k] = Got(s)[k]
          /\ Got(s)'[n + 1] = e
      BY <1>2, <2>2
    <3>a. i \in 1..(n + 1) /\ j \in 1..(n + 1) /\ n \in Nat
      BY <3>1
    <3>b. i \in 1..n /\ (j \in 1..n \/ j = n + 1)
      BY <3>a
    <3>2. i \in 1..n /\ Got(s)'[i] = Got(s)[i]
      BY <3>1, <3>b
    <3>3. CASE j \in 1..n
      <4>1. Follows(Got(s)[j], Got(s)[i])
        BY <3>1, <3>2, <3>3 DEF EventsInv, AllOrdered, Ordered
      <4> QED BY <2>0, <3>1, <3>2, <3>3, <4>1
    <3>4. CASE j = n + 1
      <4> DEFINE g == Got(s)[i]
      <4>1. Fits(s, g) /\ g.by \in Events!Publishers /\ g.type \in {"started", "completed"}
        BY <3>1, <3>2, GotTyped DEF EventsInv, AllFit
      <4>2. Got(u)'[i] = g /\ Got(u)'[j] = e
        BY <3>1, <3>2, <3>4
      <4>r. Events!Publishers = Tasks \cup {Job}
        BY DEF Events!Publishers, Job
      <4> HIDE DEF g
      <4>3. e # [type |-> "started", by |-> Job]
        <5> SUFFICES ASSUME p = Job, tStage[Job] = "started" PROVE FALSE
          BY <1>1
        <5>1. \A t \in Tasks : tStage[t] = "idle"
          BY <1>0 DEF EventsInv, PublishInv
        <5> QED BY <1>0, <4>1, <4>r, <5>1 DEF Fits
      <4>4. aborted' \/ g # [type |-> "completed", by |-> Job]
        <5> SUFFICES ASSUME ~aborted, g = [type |-> "completed", by |-> Job] PROVE FALSE
          BY <1>0
        <5>1. tStage[Job] = "completed" /\ s \notin left[Job]
          BY <4>1 DEF Fits
        <5>2. \A t \in Tasks : left[t] = {}
          BY <5>1 DEF EventsInv, PublishInv
        <5> QED BY <1>0, <4>r, <5>1, <5>2
      <4>5. g.by = e.by => g.type = "started" /\ e.type = "completed"
        BY <1>0, <1>1, <4>1 DEF Fits
      <4> QED BY <1>0, <4>2, <4>3, <4>4, <4>5 DEF Follows
    <3> QED BY <3>b, <3>3, <3>4
  <2> QED BY <2>1, <2>2
<1> QED BY <1>3, <1>4, <1>5, <1>6, <1>7 DEF EventsInv

LEMMA ReceiveKeeps ==
  ASSUME EventsOf, EventsInv, NEW s \in Events!Subscribers, Events!Receive(s),
         UNCHANGED <<tStage, left, sending, subs, closed, aborted, cli>>
  PROVE  EventsInv'
<1>0. /\ buf[s] # <<>> /\ tSeen' = [tSeen EXCEPT ![s] = Append(@, Head(buf[s]))]
      /\ buf' = [buf EXCEPT ![s] = Tail(@)]
  BY DEF Events!Receive
<1>t. tSeen[s] \in Seq(Events!Events) /\ buf[s] \in Seq(Events!Events)
  BY DEF EventsInv, Channels
<1>1. /\ Append(tSeen[s], Head(buf[s])) \in Seq(Events!Events)
      /\ Tail(buf[s]) \in Seq(Events!Events)
      /\ Len(Tail(buf[s])) = Len(buf[s]) - 1 /\ Len(buf[s]) \in Nat
      /\ Append(tSeen[s], Head(buf[s])) \o Tail(buf[s]) = tSeen[s] \o buf[s]
  BY <1>0, <1>t, Received
<1>2. \A u \in Events!Subscribers : tSeen'[u] \o buf'[u] = tSeen[u] \o buf[u]
  BY <1>0, <1>1 DEF EventsInv, Channels
<1>3. Channels'
  <2>1. /\ buf' \in [Events!Subscribers -> Seq(Events!Events)]
        /\ tSeen' \in [Events!Subscribers -> Seq(Events!Events)]
    BY <1>0, <1>1 DEF EventsInv, Channels
  <2>2. Len(Tail(buf[s])) <= BufferSize
    BY <1>1 DEF EventsInv, Channels, EventsOf, Events!BufferAssumption
  <2>3. \A u \in Events!Subscribers : Len(buf'[u]) <= BufferSize
    BY <1>0, <2>2 DEF EventsInv, Channels
  <2> QED BY <2>1, <2>3 DEF EventsInv, Channels
<1>4. Targets' /\ PublishInv'
  BY DEF EventsInv, Targets, PublishInv
<1>5. AllFit'
  BY <1>2 DEF EventsInv, AllFit, Fits, Got
<1>6. AllOrdered'
  <2>1. \A u \in Events!Subscribers : Got(u)' = Got(u)
    BY <1>2 DEF Got
  <2> QED BY <2>1 DEF EventsInv, AllOrdered, Ordered, Follows
<1> QED BY <1>3, <1>4, <1>5, <1>6 DEF EventsInv

\* What leaves the channels as they are.
LEMMA QuietEvents ==
  ASSUME EventsOf, EventsInv, UNCHANGED <<tStage, left, sending, buf, tSeen>>,
         aborted' \in BOOLEAN, aborted => aborted',
         cli' \in {"new", "running", "cancelled", "printed", "exited"},
         Targets', subs' \subseteq Events!Subscribers, closed' \subseteq Events!Subscribers
  PROVE  EventsInv'
<1>1. Channels'
  BY DEF EventsInv, Channels
<1>2. PublishInv'
  BY DEF EventsInv, PublishInv
<1>3. AllFit'
  BY DEF EventsInv, AllFit, Fits, Got
<1>4. AllOrdered'
  <2>1. \A s \in Events!Subscribers : Got(s)' = Got(s)
    BY DEF Got
  <2> QED BY <2>1 DEF EventsInv, AllOrdered, Ordered, Follows
<1> QED BY <1>1, <1>2, <1>3, <1>4 DEF EventsInv

LEMMA EventsStep == ASSUME EventsOf, EventsInv, [Events!Next]_(Events!vars) PROVE EventsInv'
<1>p. Job \in Events!Publishers /\ Job \notin Tasks /\ Events!Publishers = Tasks \cup {Job}
  BY DEF Job, Events!Publishers, EventsOf, Events!NamesAssumption
<1>s. Events!Printer \in Events!Subscribers /\ Watchers \subseteq Events!Subscribers
  BY DEF Events!Subscribers
<1>1. CASE UNCHANGED Events!vars
  BY <1>1, QuietEvents DEF Events!vars, EventsInv, Targets, Channels
<1>2. ASSUME NEW s \in Events!Subscribers, Events!Subscribe(s) PROVE EventsInv'
  <2>1. Targets' /\ subs' \subseteq Events!Subscribers
    BY <1>2 DEF Events!Subscribe, Events!emitter, EventsInv, Targets, Channels
  <2>2. /\ UNCHANGED <<tStage, left, sending, buf, tSeen, aborted, closed>>
        /\ cli' \in {cli, "running"}
    BY <1>2 DEF Events!Subscribe, Events!emitter
  <2> QED BY <2>1, <2>2, QuietEvents DEF EventsInv, Channels
<1>3. ASSUME NEW s \in Events!Subscribers, Events!CloseChannel(s),
             UNCHANGED <<Events!emitter, buf, tSeen>>,
             cli' \in {cli, "exited"}
      PROVE  EventsInv'
  <2>1. Targets' /\ subs' \subseteq Events!Subscribers /\ closed' \subseteq Events!Subscribers
    BY <1>3 DEF Events!CloseChannel, Events!NoReader, Events!emitter, EventsInv, Targets,
       Channels
  <2>2. UNCHANGED <<tStage, left, sending, buf, tSeen, aborted>>
    BY <1>3 DEF Events!emitter
  <2> QED BY <1>3, <2>1, <2>2, QuietEvents DEF EventsInv, Channels
<1>4. ASSUME NEW p \in Events!Publishers, NEW s \in Events!Subscribers, Events!Send(p, s)
      PROVE  EventsInv'
  BY <1>4, SendKeeps
<1>5. CASE Events!StartRun
  BY <1>5, <1>p, PublishKeeps DEF Events!StartRun, Events!Publish, Job
<1>6. CASE Events!FinishRun
  <2>1. /\ Events!Publish(Job, "completed") /\ tStage[Job] = "started" /\ UNCHANGED tSeen
        /\ \/ aborted
           \/ \A t \in Tasks : \/ tStage[t] = "idle"
                              \/ (tStage[t] = "completed" /\ left[t] = {})
    BY <1>6, <1>p DEF Events!FinishRun, Events!Publish, Events!Published, Job
  <2>2. aborted \/ \A t \in Tasks : tStage[t] # "started" /\ left[t] = {}
    BY <1>p, <2>1 DEF EventsInv, PublishInv
  <2> QED BY <1>p, <2>1, <2>2, PublishKeeps
<1>7. ASSUME NEW t \in Tasks, Events!StartTask(t) \/ Events!CompleteTask(t) PROVE EventsInv'
  <2>1. CASE Events!StartTask(t)
    BY <2>1, <1>p, PublishKeeps DEF Events!StartTask, Events!Publish, Events!Published, Job
  <2>2. CASE Events!CompleteTask(t)
    <3>1. tStage[t] = "started" /\ left[t] = {} /\ Events!Publish(t, "completed")
      BY <2>2 DEF Events!CompleteTask, Events!Published
    <3>2. /\ tStage[Job] # "idle" /\ (tStage[Job] = "started" => left[Job] = {})
          /\ tStage[Job] = "completed" => aborted
      BY <1>p, <3>1 DEF EventsInv, PublishInv
    <3>3. t \in Events!Publishers /\ t # Job /\ UNCHANGED tSeen
      BY <1>p, <3>1 DEF Events!Publish
    <3> QED BY <3>1, <3>2, <3>3, PublishKeeps
  <2> QED BY <1>7, <2>1, <2>2
<1>8. ASSUME NEW w \in Watchers, Events!Watch(w) PROVE EventsInv'
  BY <1>8, <1>s, ReceiveKeeps DEF Events!Watch, Events!emitter
<1>9. CASE Events!ShowEvent
  BY <1>9, <1>s, ReceiveKeeps DEF Events!ShowEvent, Events!emitter
<1>10. CASE Events!StopPrinting \/ Events!Cancel \/ Events!Abort
  BY <1>10, QuietEvents DEF Events!StopPrinting, Events!Cancel, Events!Abort, Events!emitter,
     EventsInv, Targets, Channels
<1>11. CASE Events!Exit
  BY <1>11, <1>s, <1>3 DEF Events!Exit
<1>12. ASSUME NEW s \in Events!Subscribers, Events!Unsubscribe(s) PROVE EventsInv'
  BY <1>12, <1>3 DEF Events!Unsubscribe
<1> QED
  BY <1>1, <1>2, <1>4, <1>5, <1>6, <1>7, <1>8, <1>9, <1>10, <1>11, <1>12 DEF Events!Next

LEMMA EventsImply == ASSUME EventsOf, EventsInv PROVE Events!EventsAreInOrder
<1>1. Events!TypeOK
  BY DEF EventsInv, Channels, Targets, PublishInv, Events!TypeOK
<1>2. Events!NoSendOnClosed
  BY DEF EventsInv, Targets, Events!NoSendOnClosed
<1>3. Events!InOrder
  BY DEF EventsInv, AllOrdered, Ordered, Follows, Got, Job, Events!InOrder
<1> QED BY <1>1, <1>2, <1>3 DEF Events!EventsAreInOrder

\* No event is ever sent on a closed channel, which would panic in the goroutine of
\* a task, and what a subscriber receives is in an order the run could have taken:
\* for any number of tasks and watchers and every buffer (events.go:57-64, 79-85).
THEOREM EventsHold == ASSUME EventsOf PROVE Events!Spec => []EventsAreInOrder
BY EventsInit, EventsStep, EventsImply, PTL DEF Events!Spec, EventsAreInOrder

-----------------------------------------------------------------------------
(* The approval prompts                                                    *)

GatesOf == Gates!PlansAssumption /\ Gates!NamesAssumption

\* A "yes" was meant by the human, read or not.
YesInv ==
  \/ \E t \in Gated : meant[t] = "yes"
  \/ /\ \A t \in Gated : gate[t] # "approved"
     /\ \A i \in DOMAIN typed : typed[i] # "yes"

\* The one task that reads is the one that was shown last, and a line that is not
\* read yet is its answer.
LineInv ==
  /\ \A t \in Gated : gate[t] = "reading" => shown = t
  /\ typed # <<>> => /\ shown \in Gated /\ gate[shown] = "reading"
                     /\ typed = <<meant[shown]>>
  /\ shown \in Gated =>
       /\ gate[shown] # "pending"
       /\ gate[shown] = "reading" \/ meant[shown] # Gates!None \/ pEof
  /\ Gates!OwnYes

GatesInv == Gates!TypeOK /\ YesInv /\ (Gates!OneAtATime => LineInv)

LEMMA GatesInit == ASSUME GatesOf, Gates!Init PROVE GatesInv
<1> USE DEF GatesOf, Gates!Init
<1>1. Gates!TypeOK
  <2>0. typed \in Seq(Gates!Answers)
    <3>1. typed = <<>>
      OBVIOUS
    <3> QED BY <3>1, EmptySeq
  <2>1. typed \in Seq(Gates!Answers) /\ pEof \in BOOLEAN /\ dependsOn \in GatePlans
    BY <2>0
  <2>2. gate \in [Gated -> {"pending", "reading", "approved", "waiting"}]
    OBVIOUS
  <2>3. meant \in [Gated -> Gates!Answers \cup {Gates!None}]
    OBVIOUS
  <2>4. \A t \in Gated : gate[t] = "pending"
    OBVIOUS
  <2> QED BY <2>1, <2>2, <2>3, <2>4 DEF Gates!TypeOK
<1>2. YesInv
  BY DEF YesInv
<1>3. LineInv
  BY DEF LineInv, Gates!OwnYes, Gates!NamesAssumption
<1> QED BY <1>1, <1>2, <1>3 DEF GatesInv

LEMMA LineRead ==
  ASSUME Gates!TypeOK, typed # <<>>
  PROVE  /\ Head(typed) \in Gates!Answers /\ Tail(typed) \in Seq(Gates!Answers)
         /\ Head(typed) = typed[1] /\ 1 \in DOMAIN typed
         /\ \A i \in DOMAIN Tail(typed) : i + 1 \in DOMAIN typed /\ Tail(typed)[i] = typed[i + 1]
         /\ \A x : typed = <<x>> => Tail(typed) = <<>> /\ Head(typed) = x
<1>1. typed \in Seq(Gates!Answers)
  BY DEF Gates!TypeOK
<1>2. /\ Head(typed) \in Gates!Answers /\ Tail(typed) \in Seq(Gates!Answers)
      /\ Len(Tail(typed)) = Len(typed) - 1
      /\ \A i \in 1..Len(Tail(typed)) : Tail(typed)[i] = typed[i + 1]
  BY <1>1, HeadTailProperties
<1>3. Len(typed) \in Nat \ {0} /\ DOMAIN typed = 1..Len(typed)
  BY <1>1, EmptySeq, LenProperties
<1>4. DOMAIN Tail(typed) = 1..Len(Tail(typed))
  BY <1>2, LenProperties
<1>5. ASSUME NEW x, typed = <<x>> PROVE Tail(typed) = <<>> /\ Head(typed) = x
  BY <1>5
<1> QED BY <1>2, <1>3, <1>4, <1>5

\* Some readers get the first line, or nothing when there is none.
LEMMA DecideKeeps ==
  ASSUME GatesOf, GatesInv, NEW ts \in SUBSET Gated, NEW a \in Gates!Answers \cup {Gates!None},
         \A t \in ts : gate[t] = "reading",
         \/ Gates!Decide(ts, a) \/ UNCHANGED gate,
         UNCHANGED <<dependsOn, shown, meant, pEof>>,
         \/ typed # <<>> /\ a = Head(typed) /\ typed' = Tail(typed)
         \/ typed = <<>> /\ a = Gates!None /\ typed' = typed /\ pEof
  PROVE  Gates!TypeOK' /\ YesInv'
<1>1. \A t \in Gated : \/ gate'[t] = gate[t]
                      \/ /\ t \in ts /\ gate'[t] \in {"approved", "waiting"}
                         /\ gate'[t] = "approved" => a = "yes"
  BY DEF Gates!Decide, Gates!Verdict
<1>2. gate' \in [Gated -> {"pending", "reading", "approved", "waiting"}]
  BY <1>1 DEF Gates!Decide, Gates!Verdict, GatesInv, Gates!TypeOK
<1>3. typed' \in Seq(Gates!Answers) /\ \A i \in DOMAIN typed' : \E j \in DOMAIN typed : typed'[i] = typed[j]
  BY LineRead DEF GatesInv, Gates!TypeOK
<1>4. Gates!TypeOK'
  <2>1. \A t \in Gated, d \in Gated :
          gate'[t] # "pending" /\ d \in dependsOn[t] => gate'[d] = "approved"
    <3> SUFFICES ASSUME NEW t \in Gated, NEW d \in Gated,
                        gate'[t] # "pending", d \in dependsOn[t]
                 PROVE  gate'[d] = "approved"
      OBVIOUS
    <3>1. gate[t] # "pending"
      BY <1>1
    <3>2. gate[d] = "approved"
      BY <3>1 DEF GatesInv, Gates!TypeOK
    <3> QED BY <1>1, <3>2
  <2> QED BY <1>2, <1>3, <2>1 DEF GatesInv, Gates!TypeOK
<1>5. YesInv'
  <2>1. CASE \E t \in Gated : meant[t] = "yes"
    BY <2>1 DEF YesInv
  <2>2. CASE ~\E t \in Gated : meant[t] = "yes"
    <3>1. /\ \A t \in Gated : gate[t] # "approved"
          /\ \A i \in DOMAIN typed : typed[i] # "yes"
      BY <2>2 DEF GatesInv, YesInv
    <3>2. a # "yes"
      BY <3>1, LineRead DEF GatesInv, Gates!None
    <3> QED BY <1>1, <1>3, <3>1, <3>2 DEF YesInv
  <2> QED BY <2>1, <2>2
<1> QED BY <1>4, <1>5

LEMMA GatesStep == ASSUME GatesOf, GatesInv, [Gates!Next]_(Gates!vars) PROVE GatesInv'
<1>0. Gates!None \notin Gated /\ Gates!None \notin Gates!Answers
  BY DEF GatesOf, Gates!NamesAssumption, Gates!None, Gates!Answers
<1>1. ASSUME NEW t \in Gated, Gates!Ask(t) PROVE GatesInv'
  <2>0. /\ gate[t] = "pending" /\ \A d \in dependsOn[t] : gate[d] = "approved"
        /\ gate' = [gate EXCEPT ![t] = "reading"] /\ shown' = t
        /\ UNCHANGED <<dependsOn, typed, meant, pEof>>
    BY <1>1 DEF Gates!Ask
  <2>1. Gates!TypeOK'
    BY <2>0 DEF GatesInv, Gates!TypeOK
  <2>2. YesInv'
    BY <2>0 DEF GatesInv, Gates!TypeOK, YesInv
  <2>3. ASSUME Gates!OneAtATime PROVE LineInv'
    <3>1. \A u \in Gated : gate[u] # "reading"
      <4> SUFFICES ASSUME NEW u \in Gated, gate[u] = "reading" PROVE FALSE
        OBVIOUS
      <4>1. u # t /\ (u \in dependsOn[t] \/ t \in dependsOn[u])
        BY <2>0, <2>3 DEF Gates!OneAtATime
      <4> QED BY <2>0, <4>1 DEF GatesInv, Gates!TypeOK
    <3>2. typed = <<>>
      BY <2>3, <3>1 DEF GatesInv, LineInv
    <3> QED BY <2>0, <2>3, <3>1, <3>2 DEF GatesInv, Gates!TypeOK, LineInv, Gates!OwnYes
  <2> QED BY <2>0, <2>1, <2>2, <2>3 DEF GatesInv, Gates!OneAtATime
<1>2. ASSUME NEW a \in Gates!Answers, Gates!Answer(a) PROVE GatesInv'
  <2>0. /\ shown \in Gated /\ ~pEof /\ meant[shown] = Gates!None
        /\ typed' = Append(typed, a) /\ meant' = [meant EXCEPT ![shown] = a]
        /\ UNCHANGED <<dependsOn, gate, shown, pEof>> /\ typed \in Seq(Gates!Answers)
    BY <1>2 DEF Gates!Answer, GatesInv, Gates!TypeOK
  <2>1. /\ typed' \in Seq(Gates!Answers) /\ DOMAIN typed' = 1..(Len(typed) + 1)
        /\ \A i \in 1..Len(typed) : typed'[i] = typed[i]
        /\ typed'[Len(typed) + 1] = a /\ Len(typed) \in Nat /\ DOMAIN typed = 1..Len(typed)
    <3>1. /\ Append(typed, a) \in Seq(Gates!Answers)
          /\ Len(Append(typed, a)) = Len(typed) + 1
          /\ Append(typed, a)[Len(typed) + 1] = a
          /\ \A i \in 1..Len(typed) : Append(typed, a)[i] = typed[i]
      BY <2>0, AppendProperties
    <3>2. DOMAIN Append(typed, a) = 1..Len(Append(typed, a))
      BY <3>1, LenProperties
    <3>3. Len(typed) \in Nat /\ DOMAIN typed = 1..Len(typed)
      BY <2>0, LenProperties
    <3> QED BY <2>0, <3>1, <3>2, <3>3
  <2>2. Gates!TypeOK'
    BY <2>0, <2>1 DEF GatesInv, Gates!TypeOK
  <2>3. YesInv'
    <3>1. CASE a = "yes"
      BY <2>0, <3>1 DEF GatesInv, Gates!TypeOK, YesInv
    <3>2. CASE a # "yes" /\ \E t \in Gated : meant[t] = "yes"
      BY <2>0, <3>2 DEF GatesInv, Gates!TypeOK, YesInv, Gates!None
    <3>3. CASE a # "yes" /\ ~\E t \in Gated : meant[t] = "yes"
      <4>1. /\ \A t \in Gated : gate[t] # "approved"
            /\ \A i \in DOMAIN typed : typed[i] # "yes"
        BY <3>3 DEF GatesInv, YesInv
      <4>2. \A i \in DOMAIN typed' : typed'[i] # "yes"
        <5> SUFFICES ASSUME NEW i \in DOMAIN typed' PROVE typed'[i] # "yes"
          OBVIOUS
        <5>1. i \in 1..Len(typed) \/ i = Len(typed) + 1
          BY <2>1
        <5> QED BY <2>1, <3>3, <4>1, <5>1
      <4> QED BY <2>0, <4>1, <4>2 DEF YesInv
    <3> QED BY <3>1, <3>2, <3>3
  <2>4. ASSUME Gates!OneAtATime PROVE LineInv'
    <3>1. gate[shown] = "reading"
      BY <2>0, <2>4 DEF GatesInv, LineInv
    <3>2. typed = <<>>
      <4> SUFFICES ASSUME typed # <<>> PROVE FALSE
        OBVIOUS
      <4>1. typed = <<Gates!None>>
        BY <2>0, <2>4 DEF GatesInv, LineInv
      <4>2. Head(typed) \in Gates!Answers /\ Head(typed) = Gates!None
        BY <4>1, LineRead DEF GatesInv
      <4> QED BY <1>0, <4>2
    <3>3. typed' = <<a>>
      BY <2>0, <3>2
    <3>4. meant' [shown] = a /\ \A t \in Gated : t # shown => meant'[t] = meant[t]
      BY <2>0 DEF GatesInv, Gates!TypeOK
    <3> QED BY <1>0, <2>0, <2>4, <3>1, <3>3, <3>4 DEF GatesInv, LineInv, Gates!OwnYes
  <2> QED BY <2>0, <2>2, <2>3, <2>4 DEF GatesInv, Gates!OneAtATime
<1>3. CASE Gates!CloseStdin \/ UNCHANGED Gates!vars
  <2>1. UNCHANGED <<dependsOn, gate, shown, typed, meant>> /\ pEof' \in {pEof, TRUE}
    BY <1>3 DEF Gates!CloseStdin, Gates!vars
  <2> QED BY <2>1 DEF GatesInv, Gates!TypeOK, YesInv, LineInv, Gates!OneAtATime, Gates!OwnYes
<1>4. ASSUME NEW t \in Gated, Gates!ReadLine(t) PROVE GatesInv'
  <2>0. /\ gate[t] = "reading" /\ typed # <<>> /\ Gates!Decide({t}, Head(typed))
        /\ typed' = Tail(typed) /\ UNCHANGED <<dependsOn, shown, meant, pEof>>
    BY <1>4 DEF Gates!ReadLine
  <2>1. Gates!TypeOK' /\ YesInv'
    <3>1. Head(typed) \in Gates!Answers
      BY <2>0, LineRead DEF GatesInv
    <3> QED BY <2>0, <3>1, DecideKeeps
  <2>2. ASSUME Gates!OneAtATime PROVE LineInv'
    <3>1. shown = t /\ typed = <<meant[t]>>
      BY <2>0, <2>2 DEF GatesInv, LineInv
    <3>2. typed' = <<>> /\ Head(typed) = meant[t] /\ meant[t] \in Gates!Answers
      BY <2>0, <3>1, LineRead DEF GatesInv
    <3>3. /\ gate'[t] \in {"approved", "waiting"} /\ (gate'[t] = "approved" => meant[t] = "yes")
          /\ \A u \in Gated : u # t => gate'[u] = gate[u]
      BY <2>0, <3>2 DEF Gates!Decide, Gates!Verdict
    <3> QED BY <1>0, <2>0, <2>2, <3>1, <3>2, <3>3 DEF GatesInv, LineInv, Gates!OwnYes
  <2> QED BY <2>0, <2>1, <2>2 DEF GatesInv, Gates!OneAtATime
<1>5. ASSUME NEW t \in Gated, NEW u \in Gated, Gates!ReadTogether(t, u) PROVE GatesInv'
  <2>0. /\ t # u /\ gate[t] = "reading" /\ gate[u] = "reading" /\ typed # <<>>
        /\ typed' = Tail(typed) /\ UNCHANGED <<dependsOn, shown, meant, pEof>>
        /\ Gates!Decide({t, u}, Head(typed)) \/ UNCHANGED gate
    BY <1>5 DEF Gates!ReadTogether
  <2>1. Gates!TypeOK' /\ YesInv'
    <3>1. Head(typed) \in Gates!Answers /\ {t, u} \in SUBSET Gated
          /\ \A v \in {t, u} : gate[v] = "reading"
      BY <2>0, LineRead DEF GatesInv
    <3> QED BY <2>0, <3>1, DecideKeeps
  <2>2. ~Gates!OneAtATime
    BY <2>0 DEF GatesInv, LineInv
  <2> QED BY <2>0, <2>1, <2>2 DEF GatesInv, Gates!OneAtATime
<1>6. ASSUME NEW t \in Gated, Gates!ReadEnds(t) PROVE GatesInv'
  <2>0. /\ gate[t] = "reading" /\ typed = <<>> /\ pEof /\ Gates!Decide({t}, Gates!None)
        /\ UNCHANGED <<dependsOn, shown, typed, meant, pEof>>
    BY <1>6 DEF Gates!ReadEnds
  <2>1. Gates!TypeOK' /\ YesInv'
    BY <2>0, DecideKeeps
  <2>2. ASSUME Gates!OneAtATime PROVE LineInv'
    <3>1. /\ gate'[t] = "waiting" /\ \A u \in Gated : u # t => gate'[u] = gate[u]
      BY <2>0 DEF Gates!Decide, Gates!Verdict, Gates!None
    <3> QED BY <2>0, <2>2, <3>1 DEF GatesInv, LineInv, Gates!OwnYes
  <2> QED BY <2>0, <2>1, <2>2 DEF GatesInv, Gates!OneAtATime
<1> QED
  BY <1>1, <1>2, <1>3, <1>4, <1>5, <1>6 DEF Gates!Next

LEMMA GatesImply == ASSUME GatesInv PROVE Gates!ApprovedByItsAnswer
BY DEF GatesInv, YesInv, LineInv, Gates!SomebodySaidYes, Gates!ApprovedByItsAnswer

\* Nothing is approved unless the human has said "yes" to something, and where one
\* of any two gated tasks waits for the other each is approved by a "yes" to its
\* own prompt: for any number of tasks and any plan (main.go, the approval handler).
THEOREM AnswersHold == ASSUME GatesOf PROVE Gates!Spec => []ApprovedByItsAnswer
BY GatesInit, GatesStep, GatesImply, PTL DEF Gates!Spec, ApprovedByItsAnswer

-----------------------------------------------------------------------------
(* The MCP server                                                          *)

McpOf == Mcp!MethodsAssumption

\* The lines that have been handled.
Done == IF mAt = "handling" THEN read - 1 ELSE read

Shown == [line : Nat, says : {"result", "parse error", "method not found",
                              "invalid params", "tool error"}]

\* A tool runs only for a line that was understood; what was answered is what is
\* owed of the lines that are done, in order.
McpInv == /\ sent \in Seq(Mcp!Lines) /\ read \in 0..Len(sent)
          /\ mAt \in {"reading", "handling", "stopped"}
          /\ calling \in BOOLEAN /\ mEof \in BOOLEAN
          /\ mAt = "handling" => read > 0
          /\ calling => /\ mAt = "handling" /\ sent[read].parses
                        /\ sent[read].method = "tools/call"
          /\ out \in Seq(Shown)
          /\ \A i \in DOMAIN out : out[i].line \in 1..Done /\ Mcp!Owed(sent[out[i].line])
          /\ \A l \in 1..Done : Mcp!Owed(sent[l]) => \E i \in DOMAIN out : out[i].line = l
          /\ \A i, j \in DOMAIN out : i < j => out[i].line < out[j].line

LEMMA McpInit == ASSUME Mcp!Init PROVE McpInv
<1> USE DEF Mcp!Init
<1>1. sent \in Seq(Mcp!Lines) /\ Len(sent) = 0 /\ out \in Seq(Shown) /\ DOMAIN out = {}
  OBVIOUS
<1>2. Done = 0 /\ 1..0 = {} /\ read \in 0..0
  BY DEF Done
<1> QED BY <1>1, <1>2 DEF McpInv

LEMMA BelowIsNat == \A n \in Nat : \A k \in 0..n : k \in Nat
OBVIOUS

LEMMA UpTo ==
  ASSUME NEW r \in Nat, r > 0
  PROVE  /\ 1..r = 1..(r - 1) \cup {r} /\ r \notin 1..(r - 1)
         /\ \A l \in 1..(r - 1) : l < r
OBVIOUS

\* A line is done when its response is written, or none is owed.
LEMMA DoneKeeps ==
  ASSUME McpInv, mAt = "handling", mAt' = "reading", calling' = FALSE,
         UNCHANGED <<sent, read, mEof>>,
         \/ /\ Mcp!Owed(sent[read])
            /\ \E what \in {"result", "parse error", "method not found", "invalid params",
                            "tool error"} :
                 out' = Append(out, [line |-> read, says |-> what])
         \/ ~Mcp!Owed(sent[read]) /\ out' = out
  PROVE  McpInv'
<1>1. /\ Done = read - 1 /\ Done' = read
      /\ 1..read = 1..(read - 1) \cup {read} /\ read \notin 1..(read - 1)
      /\ \A l \in 1..(read - 1) : l < read
      /\ read \in Nat
  <2>2. read \in 0..Len(sent) /\ read > 0 /\ sent \in Seq(Mcp!Lines)
    BY DEF McpInv
  <2>3. Len(sent) \in Nat
    BY <2>2, LenProperties
  <2>4. read \in Nat
    BY <2>2, <2>3, BelowIsNat, Zenon
  <2> QED BY <2>2, <2>4, UpTo DEF Done
<1>2. CASE ~Mcp!Owed(sent[read]) /\ out' = out
  <2>1. \A i \in DOMAIN out : out[i].line \in 1..read /\ Mcp!Owed(sent[out[i].line])
    BY <1>1 DEF McpInv
  <2>2. \A l \in 1..read : Mcp!Owed(sent[l]) => \E i \in DOMAIN out : out[i].line = l
    BY <1>1, <1>2 DEF McpInv
  <2>3. \A l : Mcp!Owed(sent[l])' <=> Mcp!Owed(sent[l])
    BY DEF Mcp!Owed
  <2> QED BY <1>1, <1>2, <2>1, <2>2, <2>3 DEF McpInv
<1>3. ASSUME Mcp!Owed(sent[read]),
             NEW what \in {"result", "parse error", "method not found", "invalid params",
                           "tool error"},
             out' = Append(out, [line |-> read, says |-> what])
      PROVE  McpInv'
  <2> DEFINE r == [line |-> read, says |-> what]
  <2>1. r \in Shown /\ r.line = read
    BY <1>1 DEF Shown
  <2>2. out \in Seq(Shown) /\ out' = Append(out, r)
    BY <1>3 DEF McpInv
  <2> HIDE DEF r
  <2>3. out' \in Seq(Shown)
    BY <2>1, <2>2, Appended
  <2>4. PICK z \in Nat \ {0} :
          /\ z \notin DOMAIN out /\ DOMAIN out' = DOMAIN out \cup {z}
          /\ out'[z] = r
          /\ \A i \in DOMAIN out : out'[i] = out[i] /\ ~(z < i)
          /\ ~(z < z)
    <3>1. r \in Shown /\ out \in Seq(Shown)
      BY <2>1, <2>2
    <3>2. EndsWith(Append(out, r), out, r)
      BY <3>1, Appended
    <3>3. EndsWith(out', out, r)
      BY <2>2, <3>2
    <3> QED BY <3>3 DEF EndsWith
  <2>5. \A i \in DOMAIN out : out[i].line \in 1..(read - 1) /\ Mcp!Owed(sent[out[i].line])
    BY <1>1 DEF McpInv
  <2>7. \A i \in DOMAIN out' : out'[i].line \in 1..read /\ Mcp!Owed(sent[out'[i].line])
    BY <1>1, <1>3, <2>1, <2>4, <2>5
  <2>8. \A l \in 1..read : Mcp!Owed(sent[l]) => \E i \in DOMAIN out' : out'[i].line = l
    <3> SUFFICES ASSUME NEW l \in 1..read, Mcp!Owed(sent[l])
                 PROVE  \E i \in DOMAIN out' : out'[i].line = l
      OBVIOUS
    <3>1. CASE l = read
      BY <2>1, <2>4, <3>1
    <3>2. CASE l # read
      <4>1. PICK i \in DOMAIN out : out[i].line = l
        BY <1>1, <3>2 DEF McpInv
      <4> QED BY <2>4, <4>1
    <3> QED BY <3>1, <3>2
  <2>9. \A i, j \in DOMAIN out' : i < j => out'[i].line < out'[j].line
    <3> SUFFICES ASSUME NEW i \in DOMAIN out', NEW j \in DOMAIN out', i < j
                 PROVE  out'[i].line < out'[j].line
      OBVIOUS
    <3>1. i \in DOMAIN out /\ out'[i] = out[i] /\ (j \in DOMAIN out \/ j = z)
      BY <2>4
    <3>2. CASE j \in DOMAIN out
      <4>1. out[i].line < out[j].line /\ out'[j] = out[j]
        BY <2>4, <3>1, <3>2 DEF McpInv
      <4> QED BY <3>1, <4>1
    <3>3. CASE j = z
      <4>1. out'[j].line = read
        BY <2>1, <2>4, <3>3
      <4> QED BY <1>1, <2>5, <3>1, <4>1
    <3> QED BY <3>1, <3>2, <3>3
  <2>10. \A l : Mcp!Owed(sent[l])' <=> Mcp!Owed(sent[l])
    BY DEF Mcp!Owed
  <2> QED BY <1>1, <2>3, <2>7, <2>8, <2>9, <2>10 DEF McpInv
<1> QED BY <1>2, <1>3

\* What moves neither the line in hand nor the responses.
LEMMA QuietMcp ==
  ASSUME McpInv, UNCHANGED <<out, read>>, mEof' \in BOOLEAN, sent' \in Seq(Mcp!Lines),
         Len(sent') >= Len(sent), \A l \in 1..Len(sent) : sent'[l] = sent[l],
         mAt' \in {"reading", "handling", "stopped"},
         mAt' = "handling" <=> mAt = "handling",
         calling' \in BOOLEAN,
         calling' => /\ mAt = "handling" /\ sent[read].parses
                     /\ sent[read].method = "tools/call"
  PROVE  McpInv'
<1>1. Len(sent) \in Nat /\ Len(sent') \in Nat /\ read \in 0..Len(sent)
  BY LenProperties DEF McpInv
<1>2. read' = read /\ read \in 0..Len(sent') /\ Done' = Done
  BY <1>1 DEF Done
<1>3. mAt = "handling" => sent'[read] = sent[read]
  BY <1>1 DEF McpInv
<1>4. \A l \in 1..Done : sent'[l] = sent[l]
  BY <1>1 DEF Done
<1>5. \A i \in DOMAIN out : out[i].line \in 1..Done
  BY DEF McpInv
<1> QED BY <1>2, <1>3, <1>4, <1>5 DEF McpInv, Mcp!Owed

LEMMA McpStep == ASSUME McpInv, [Mcp!Next]_(Mcp!vars) PROVE McpInv'
<1>0. sent \in Seq(Mcp!Lines) /\ Len(sent) \in Nat /\ read \in 0..Len(sent)
  BY LenProperties DEF McpInv
<1>1. CASE Mcp!HostSends
  <2>1. PICK line \in Mcp!Lines : sent' = Append(sent, line)
    BY <1>1 DEF Mcp!HostSends
  <2>2. /\ sent' \in Seq(Mcp!Lines) /\ Len(sent') = Len(sent) + 1
        /\ \A l \in 1..Len(sent) : sent'[l] = sent[l]
    BY <1>0, <2>1, AppendProperties
  <2>3. UNCHANGED <<read, mAt, calling, out, mEof>>
    BY <1>1 DEF Mcp!HostSends
  <2>4. Len(sent') >= Len(sent)
    BY <1>0, <2>2
  <2> QED BY <2>2, <2>3, <2>4, QuietMcp DEF McpInv
<1>2. CASE Mcp!HostCloses \/ Mcp!Stop \/ Mcp!CallTool \/ UNCHANGED Mcp!vars
  <2>1. /\ UNCHANGED <<sent, read, out>>
        /\ mEof' \in {mEof, TRUE}
        /\ \/ mAt' = mAt /\ calling' = calling
           \/ mAt = "reading" /\ mAt' = "stopped" /\ calling' = calling
           \/ /\ mAt' = mAt /\ calling' = TRUE /\ mAt = "handling"
              /\ Mcp!Line.parses /\ Mcp!Line.method = "tools/call"
    BY <1>2 DEF Mcp!HostCloses, Mcp!Stop, Mcp!CallTool, Mcp!vars
  <2>2. mAt = "handling" => Mcp!Line = sent[read]
    BY <1>0 DEF Mcp!Line, McpInv
  <2>3. /\ sent' \in Seq(Mcp!Lines) /\ Len(sent') >= Len(sent)
        /\ \A l \in 1..Len(sent) : sent'[l] = sent[l]
    BY <1>0, <2>1
  <2>4. /\ mEof' \in BOOLEAN /\ mAt' \in {"reading", "handling", "stopped"}
        /\ mAt' = "handling" <=> mAt = "handling"
    BY <2>1 DEF McpInv
  <2>5. calling' \in BOOLEAN
    BY <2>1 DEF McpInv
  <2>6. calling' => /\ mAt = "handling" /\ sent[read].parses
                    /\ sent[read].method = "tools/call"
    BY <2>1, <2>2 DEF McpInv
  <2>7. UNCHANGED <<out, read>>
    BY <2>1
  <2> QED BY <2>3, <2>4, <2>5, <2>6, <2>7, QuietMcp
<1>3. CASE Mcp!ReadLine
  <2>1. /\ mAt = "reading" /\ read < Len(sent) /\ read' = read + 1 /\ mAt' = "handling"
        /\ UNCHANGED <<sent, calling, out, mEof>>
    BY <1>3 DEF Mcp!ReadLine
  <2>2. read + 1 \in 0..Len(sent) /\ read + 1 > 0 /\ (read + 1) - 1 = read
    BY <1>0, <2>1
  <2>3. Done' = Done
    BY <2>1, <2>2 DEF Done
  <2>4. ~calling
    BY <2>1 DEF McpInv
  <2> QED BY <2>1, <2>2, <2>3, <2>4 DEF McpInv, Mcp!Owed
<1>4. ASSUME Mcp!ParseError \/ Mcp!HandleMethod \/ Mcp!Initialized \/ Mcp!UnknownMethod
             \/ Mcp!BadParams \/ Mcp!ToolReturns
      PROVE  McpInv'
  <2>0. mAt = "handling"
    BY <1>4 DEF Mcp!ParseError, Mcp!HandleMethod, Mcp!Initialized, Mcp!UnknownMethod,
       Mcp!BadParams, Mcp!ToolReturns, McpInv
  <2>1. Mcp!Line = sent[read]
    BY <1>0, <2>0 DEF Mcp!Line, McpInv
  <2> DEFINE l == sent[read]
             says == {"result", "parse error", "method not found", "invalid params",
                      "tool error"}
             Answer(what) == out' = Append(out, [line |-> read, says |-> what])
  <2>2. l \in Mcp!Lines /\ l.parses \in BOOLEAN /\ l.request \in BOOLEAN
    <3>1. read \in 1..Len(sent)
      BY <1>0, <2>0 DEF McpInv
    <3>2. l \in Mcp!Lines
      BY <1>0, <3>1, ElementOfSeq
    <3> QED BY <3>2 DEF Mcp!Lines
  <2>3. /\ mAt' = "reading" /\ UNCHANGED <<sent, read, mEof>>
        /\ calling' = FALSE \/ calling' = calling
    BY <1>4 DEF Mcp!ParseError, Mcp!HandleMethod, Mcp!Initialized, Mcp!UnknownMethod,
       Mcp!BadParams, Mcp!ToolReturns, Mcp!Reply
  <2>4. \/ ~l.parses /\ Answer("parse error")
        \/ l.parses /\ l.method = "notifications/initialized" /\ out' = out
        \/ /\ l.parses /\ l.method # "notifications/initialized"
           /\ IF l.request THEN \E what \in says : Answer(what) ELSE out' = out
    <3>1. CASE Mcp!ParseError
      BY <2>1, <3>1 DEF Mcp!ParseError, Mcp!Respond
    <3>2. CASE Mcp!Initialized
      BY <2>1, <3>2 DEF Mcp!Initialized
    <3>3. CASE Mcp!HandleMethod
      BY <2>1, <3>3 DEF Mcp!HandleMethod, Mcp!Reply, Mcp!Respond
    <3>4. CASE Mcp!UnknownMethod
      BY <2>1, <3>4 DEF Mcp!UnknownMethod, Mcp!Reply, Mcp!Respond
    <3>5. CASE Mcp!BadParams
      BY <2>1, <3>5 DEF Mcp!BadParams, Mcp!Reply, Mcp!Respond
    <3>6. CASE Mcp!ToolReturns
      BY <2>1, <3>6 DEF Mcp!ToolReturns, Mcp!Reply, Mcp!Respond, McpInv
    <3> QED BY <1>4, <3>1, <3>2, <3>3, <3>4, <3>5, <3>6
  <2>5. calling' = FALSE
    BY <1>4, <2>1, <2>3 DEF Mcp!ParseError, Mcp!HandleMethod, Mcp!Initialized,
       Mcp!UnknownMethod, Mcp!BadParams, Mcp!ToolReturns, Mcp!Reply, McpInv
  <2>6. \/ Mcp!Owed(l) /\ \E what \in says : Answer(what)
        \/ ~Mcp!Owed(l) /\ out' = out
    BY <2>2, <2>4 DEF Mcp!Owed
  <2> QED BY <2>0, <2>3, <2>5, <2>6, DoneKeeps
<1> QED BY <1>1, <1>2, <1>3, <1>4 DEF Mcp!Next, Mcp!Serve

LEMMA McpImply == ASSUME McpInv PROVE Mcp!OneResponseEach
<1>0. Len(sent) \in Nat /\ read \in 0..Len(sent)
  BY LenProperties DEF McpInv
<1>1. Mcp!TypeOK
  <2>1. \A i \in DOMAIN out : out[i].line \in 1..read
    BY <1>0 DEF McpInv, Done
  <2>2. calling => Mcp!Line = sent[read]
    BY <1>0 DEF McpInv, Mcp!Line
  <2> QED BY <2>1, <2>2 DEF McpInv, Mcp!TypeOK
<1>2. Mcp!AnswersAreOwed
  BY DEF McpInv, Done, Mcp!AnswersAreOwed
<1> QED BY <1>1, <1>2 DEF Mcp!OneResponseEach

\* The host gets one response for each line that is owed one, in the order of the
\* lines, and nothing for a notification: for any lines (mcp/server.go, handleLine).
THEOREM ResponsesHold == Mcp!Spec => []OneResponseEach
BY McpInit, McpStep, McpImply, PTL DEF Mcp!Spec, OneResponseEach

-----------------------------------------------------------------------------
(* The facts                                                               *)

FactsOf == /\ Memo!CleanAssumption /\ Memo!FoldAssumption /\ Memo!IdAssumption
           /\ Memo!OutputsAssumption /\ Memo!BoundsAssumption /\ Memo!RowsAssumption

MemoryTypes ==
  /\ facts \in [FactIds -> Memo!Rows \cup {Absent}]
  /\ call \in [MemorySessions -> {"idle", "saving", "ok", "error"}]
  /\ todo \in [MemorySessions -> Seq(Memo!Facts)]
  /\ returned \in [MemorySessions -> SUBSET Memo!Facts]
  /\ stamp \in [MemorySessions -> 0..MaxClock]
  /\ saved \in [MemorySessions -> SUBSET FactIds]
  /\ clock \in 0..MaxClock /\ failures \in 0..MaxSaveFailures

Unlike(S) == \A f, g \in S : Memo!Alike(f, g) => f = g
Elements(fs) == {fs[i] : i \in DOMAIN fs}

\* A fact is in the table as it was given.
Stored(f) == /\ facts[f.id] # Absent
             /\ facts[f.id].topic = f.topic /\ facts[f.id].content = f.content

\* A call saves what it will return, and has stored of it what it has not still to save.
ListOf(s) ==
  /\ Elements(todo[s]) \subseteq returned[s]
  /\ Unlike(returned[s]) /\ returned[s] \subseteq Memo!Given
  /\ call[s] \in {"saving", "ok"} =>
       \A f \in returned[s] : f \in Elements(todo[s]) \/ Stored(f)
  /\ call[s] = "ok" => todo[s] = <<>>

MemoryInv == MemoryTypes /\ \A s \in MemorySessions : ListOf(s)

LEMMA MemoryCardinality ==
  \A S : Memo!Cardinality(S) = Cardinality(S) /\ (Memo!IsFiniteSet(S) <=> IsFiniteSet(S))
BY DEF Memo!Cardinality, Cardinality, Memo!IsFiniteSet, IsFiniteSet

LEMMA ListEnds ==
  ASSUME NEW S, NEW fs \in Seq(S), fs # <<>>
  PROVE  /\ Head(fs) \in Elements(fs) /\ Head(fs) \in S /\ Tail(fs) \in Seq(S)
         /\ \A g \in Elements(fs) : g = Head(fs) \/ g \in Elements(Tail(fs))
         /\ Elements(Tail(fs)) \subseteq Elements(fs)
<1>1. /\ Len(fs) \in Nat \ {0} /\ DOMAIN fs = 1..Len(fs) /\ Head(fs) = fs[1]
      /\ Tail(fs) \in Seq(S) /\ Len(Tail(fs)) = Len(fs) - 1
      /\ DOMAIN Tail(fs) = 1..(Len(fs) - 1)
      /\ \A i \in 1..(Len(fs) - 1) : Tail(fs)[i] = fs[i + 1]
  BY HeadTailProperties, EmptySeq, LenProperties
<1>2. ASSUME NEW i \in DOMAIN fs, i # 1
      PROVE  i - 1 \in DOMAIN Tail(fs) /\ Tail(fs)[i - 1] = fs[i]
  BY <1>1, <1>2
<1>3. ASSUME NEW i \in DOMAIN Tail(fs)
      PROVE  i + 1 \in DOMAIN fs /\ Tail(fs)[i] = fs[i + 1]
  BY <1>1
<1>4. 1 \in DOMAIN fs /\ fs[1] \in S
  BY <1>1
<1>5. ASSUME NEW g \in Elements(fs), g # Head(fs) PROVE g \in Elements(Tail(fs))
  <2>1. PICK i \in DOMAIN fs : g = fs[i]
    BY DEF Elements
  <2> QED BY <1>1, <1>2, <1>5, <2>1 DEF Elements
<1>6. ASSUME NEW g \in Elements(Tail(fs)) PROVE g \in Elements(fs)
  <2>1. PICK i \in DOMAIN Tail(fs) : g = Tail(fs)[i]
    BY DEF Elements
  <2> QED BY <1>3, <2>1 DEF Elements
<1>7. Head(fs) \in Elements(fs) /\ Head(fs) \in S
  BY <1>1, <1>4 DEF Elements
<1> QED BY <1>1, <1>5, <1>6, <1>7

LEMMA MemoryInit == ASSUME FactsOf, Memo!Init PROVE MemoryInv
<1>1. MemoryTypes
  BY DEF FactsOf, Memo!Init, MemoryTypes, Memo!BoundsAssumption
<1>2. \A s \in MemorySessions : ListOf(s)
  BY DEF Memo!Init, ListOf, Elements, Unlike
<1> QED BY <1>1, <1>2 DEF MemoryInv

LEMMA FactTypes ==
  ASSUME FactsOf, NEW item \in Memo!Items
  PROVE  Memo!FactOf(item) \in Memo!Facts /\ Memo!ManualFact(item) \in Memo!Facts
<1> DEFINE topic == IF item.kind = "array" THEN item.topic ELSE CleanTopic[item.topic]
<1>1. item.topic \in Topics /\ item.content \in FactContents
  BY DEF Memo!Items
<1>2. CleanTopic[item.topic] \in Topics /\ topic \in Topics
  BY <1>1 DEF FactsOf, Memo!CleanAssumption
<1>3. FactId \in [Topics \X FactContents -> FactIds]
  BY DEF FactsOf, Memo!IdAssumption
<1> HIDE DEF topic
<1>4. FactId[<<topic, item.content>>] \in FactIds /\ FactId[<<item.topic, item.content>>] \in FactIds
  BY <1>1, <1>2, <1>3
<1>5. Memo!FactOf(item) = [id |-> FactId[<<topic, item.content>>],
                           topic |-> CleanTopic[item.topic], content |-> item.content]
  BY DEF Memo!FactOf, topic
<1>6. Memo!ManualFact(item) = [id |-> FactId[<<item.topic, item.content>>],
                               topic |-> item.topic, content |-> item.content]
  BY DEF Memo!ManualFact
<1> QED BY <1>1, <1>2, <1>4, <1>5, <1>6 DEF Memo!Facts

\* The keys in an order, the places and what is there.
LEMMA PlaceFacts ==
  ASSUME FactsOf, NEW s \in MemorySessions,
         NEW keys \in Memo!SetToSeqs(DOMAIN TaskOutputs[s])
  PROVE  /\ IsFiniteSet(Memo!Places(s, keys)) /\ Memo!Places(s, keys) \subseteq Nat \X Nat
         /\ \A p \in Memo!Places(s, keys) :
              Memo!FactAt(s, keys, p) \in Memo!Facts \cap Memo!Given
<1> DEFINE Keys == DOMAIN TaskOutputs[s]
           n == Cardinality(Keys)
           Row(k) == {<<k, i>> : i \in DOMAIN TaskOutputs[s][keys[k]]}
           Rows == {Row(k) : k \in DOMAIN keys}
<1>1. /\ IsFiniteSet(Keys)
      /\ \A k \in Keys : TaskOutputs[s][k] \in Seq(Memo!Items)
  BY MemoryCardinality DEF FactsOf, Memo!OutputsAssumption
<1>2. n \in Nat
  BY <1>1, FS_CardinalityType
<1>3. keys \in [1..n -> Keys]
  BY MemoryCardinality DEF Memo!SetToSeqs
<1>4. \A k \in DOMAIN keys : /\ k \in Nat /\ keys[k] \in Keys
                             /\ TaskOutputs[s][keys[k]] \in Seq(Memo!Items)
  BY <1>1, <1>2, <1>3
<1>5. \A k \in DOMAIN keys :
        /\ Len(TaskOutputs[s][keys[k]]) \in Nat
        /\ DOMAIN TaskOutputs[s][keys[k]] = 1..Len(TaskOutputs[s][keys[k]])
        /\ \A i \in DOMAIN TaskOutputs[s][keys[k]] : TaskOutputs[s][keys[k]][i] \in Memo!Items
  BY <1>4, LenProperties, ElementOfSeq
<1>6. Memo!Places(s, keys) = UNION Rows
  BY DEF Memo!Places
<1>7. \A k \in DOMAIN keys : IsFiniteSet(Row(k))
  <2> SUFFICES ASSUME NEW k \in DOMAIN keys PROVE IsFiniteSet(Row(k))
    OBVIOUS
  <2> DEFINE D == DOMAIN TaskOutputs[s][keys[k]]
  <2>1. IsFiniteSet(D)
    BY <1>5, FS_Interval
  <2>2. [i \in D |-> <<k, i>>] \in Surjection(D, Row(k))
    BY DEF Surjection
  <2> HIDE DEF D
  <2> QED BY <2>1, <2>2, FS_Surjection
<1>8. IsFiniteSet(Rows)
  <2>1. IsFiniteSet(DOMAIN keys)
    BY <1>2, <1>3, FS_Interval
  <2>2. [k \in DOMAIN keys |-> Row(k)] \in Surjection(DOMAIN keys, Rows)
    <3> HIDE DEF Row
    <3> QED BY DEF Surjection
  <2> HIDE DEF Rows
  <2> QED BY <2>1, <2>2, FS_Surjection
<1>9. IsFiniteSet(UNION Rows)
  <2>1. \A T \in Rows : IsFiniteSet(T)
    BY <1>7
  <2> HIDE DEF Rows
  <2> QED BY <1>8, <2>1, FS_UNION
<1>10. ASSUME NEW p \in Memo!Places(s, keys)
       PROVE  /\ p \in Nat \X Nat
              /\ Memo!FactAt(s, keys, p) \in Memo!Facts \cap Memo!Given
  <2>1. PICK k \in DOMAIN keys : p \in Row(k)
    BY <1>6
  <2>2. PICK i \in DOMAIN TaskOutputs[s][keys[k]] : p = <<k, i>>
    BY <2>1
  <2> DEFINE item == TaskOutputs[s][keys[k]][i]
  <2>3. Memo!FactAt(s, keys, p) = Memo!FactOf(item)
    BY <2>2 DEF Memo!FactAt
  <2>4. item \in Memo!Items
    BY <1>5
  <2>5. Memo!FactOf(item) \in Memo!Given
    <3>1. item \in Memo!ToSet(TaskOutputs[s][keys[k]])
      BY DEF Memo!ToSet
    <3>2. Memo!FactOf(item) \in Memo!GivenBy(s)
      <4>1. keys[k] \in DOMAIN TaskOutputs[s]
        BY <1>4
      <4> HIDE DEF item
      <4> QED BY <3>1, <4>1 DEF Memo!GivenBy
    <3> QED BY <3>2 DEF Memo!Given
  <2>6. i \in Nat
    BY <1>5
  <2> QED BY <1>4, <2>2, <2>3, <2>4, <2>5, <2>6, FactTypes
<1> QED BY <1>6, <1>9, <1>10

\* What is extracted is given, and no two facts of it are alike.
LEMMA ExtractedFacts ==
  ASSUME FactsOf, NEW s \in MemorySessions,
         NEW keys \in Memo!SetToSeqs(DOMAIN TaskOutputs[s]),
         NEW fs \in Memo!Extracted(s, keys)
  PROVE  /\ fs \in Seq(Memo!Facts)
         /\ Elements(fs) \subseteq Memo!Facts \cap Memo!Given
         /\ Unlike(Elements(fs))
<1> DEFINE P == Memo!Places(s, keys)
           S == Memo!Deduplicate(s, keys)
           n == Cardinality(S)
           At(p) == Memo!FactAt(s, keys, p)
<1>1. /\ IsFiniteSet(P) /\ P \subseteq Nat \X Nat
      /\ \A p \in P : At(p) \in Memo!Facts \cap Memo!Given
  BY PlaceFacts
<1>2. /\ S \in SUBSET P
      /\ \A p, q \in S : Memo!Earlier(q, p) => ~Memo!Alike(At(q), At(p))
  BY DEF Memo!Deduplicate
<1>3. n \in Nat
  BY <1>1, <1>2, FS_Subset, FS_CardinalityType
<1>4. PICK o \in [1..n -> S] : fs = [i \in DOMAIN o |-> At(o[i])]
  BY MemoryCardinality DEF Memo!Extracted, Memo!SetToSeqs
<1> HIDE DEF P, S, n, At
<1>5. fs \in [1..n -> Memo!Facts]
  BY <1>1, <1>2, <1>4
<1>6. fs \in Seq(Memo!Facts)
  BY <1>3, <1>5
<1>7. \A f \in Elements(fs) : \E p \in S : f = At(p)
  BY <1>4 DEF Elements
<1>8. ASSUME NEW f \in Elements(fs), NEW g \in Elements(fs), Memo!Alike(f, g)
      PROVE  f = g
  <2>1. PICK p \in S, q \in S : f = At(p) /\ g = At(q)
    BY <1>7
  <2>2. p \in Nat \X Nat /\ q \in Nat \X Nat
    BY <1>1, <1>2
  <2>3. p = q \/ Memo!Earlier(p, q) \/ Memo!Earlier(q, p)
    BY <2>2 DEF Memo!Earlier
  <2>4. Memo!Alike(g, f)
    BY <1>8 DEF Memo!Alike
  <2> QED BY <1>2, <1>8, <2>1, <2>3, <2>4
<1> QED BY <1>1, <1>2, <1>6, <1>7, <1>8 DEF Unlike

\* What saving a fact does to the table.
LEMMA UpsertFacts ==
  ASSUME FactsOf, MemoryTypes, NEW f \in Memo!Facts,
         NEW who \in MemorySessions \cup {Memo!NoSession}, NEW now \in 0..MaxClock,
         Memo!Upsert(f, who, now)
  PROVE  /\ facts' \in [FactIds -> Memo!Rows \cup {Absent}]
         /\ \A i \in FactIds \ {f.id} : facts'[i] = facts[i]
         /\ facts'[f.id] \in Memo!Rows /\ facts'[f.id] # Absent
         /\ facts'[f.id].topic = f.topic /\ facts'[f.id].content = f.content
         /\ facts[f.id] # Absent => facts'[f.id].created = facts[f.id].created
<1> DEFINE r == [session |-> who, topic |-> f.topic, content |-> f.content,
                 created |-> IF facts[f.id] = Absent THEN now ELSE facts[f.id].created,
                 updated |-> now]
<1>1. /\ f.id \in FactIds /\ f.topic \in Topics /\ f.content \in FactContents
      /\ facts \in [FactIds -> Memo!Rows \cup {Absent}]
  BY DEF Memo!Facts, MemoryTypes
<1>2. facts' = [facts EXCEPT ![f.id] = r]
  BY <1>1 DEF Memo!Upsert
<1>3. facts[f.id] # Absent => facts[f.id].created \in 0..MaxClock
  BY <1>1 DEF Memo!Rows
<1>4. r \in Memo!Rows
  BY <1>1, <1>3 DEF Memo!Rows
<1>5. r # Absent
  BY <1>4 DEF FactsOf, Memo!RowsAssumption
<1>6. /\ r.topic = f.topic /\ r.content = f.content
      /\ facts[f.id] # Absent => r.created = facts[f.id].created
  OBVIOUS
<1> HIDE DEF r
<1> QED BY <1>1, <1>2, <1>4, <1>5, <1>6

\* A fact that is stored stays so when others are saved.
LEMMA StoredStays ==
  ASSUME FactsOf, Memo!IdsApart, MemoryTypes, NEW f \in Memo!Facts \cap Memo!Given,
         NEW who \in MemorySessions \cup {Memo!NoSession}, NEW now \in 0..MaxClock,
         Memo!Upsert(f, who, now)
  PROVE  /\ Stored(f)'
         /\ \A g \in Memo!Facts \cap Memo!Given : Stored(g) => Stored(g)'
<1>1. Stored(f)'
  BY UpsertFacts DEF Stored
<1>2. ASSUME NEW g \in Memo!Facts \cap Memo!Given, Stored(g) PROVE Stored(g)'
  <2>1. CASE g.id = f.id
    BY <1>1, <2>1 DEF Memo!IdsApart, Stored
  <2>2. CASE g.id # f.id
    <3>1. g.id \in FactIds
      BY DEF Memo!Facts
    <3> QED BY <1>2, <2>2, <3>1, UpsertFacts DEF Stored
  <2> QED BY <2>1, <2>2
<1> QED BY <1>1, <1>2

MemoryMoves == [Memo!Next]_(Memo!vars)

\* A step keeps the lists of the sessions, and the times of the rows.
LEMMA MemoryStep ==
  ASSUME FactsOf, Memo!IdsApart, MemoryInv, MemoryMoves
  PROVE  /\ MemoryInv'
         /\ \A i \in FactIds : facts[i] # Absent =>
              facts'[i] # Absent /\ facts'[i].created = facts[i].created
<1> DEFINE Kept == \A i \in FactIds : facts[i] # Absent =>
                     facts'[i] # Absent /\ facts'[i].created = facts[i].created
<1> USE DEF MemoryInv
<1>0. Memo!NoSession \notin {} /\ MaxClock \in Nat /\ MaxSaveFailures \in Nat
  BY DEF FactsOf, Memo!BoundsAssumption
<1>1. ASSUME NEW s \in MemorySessions, Memo!Extract(s) PROVE MemoryInv' /\ Kept
  <2>0. PICK keys \in Memo!SetToSeqs(DOMAIN TaskOutputs[s]) :
          \E fs \in Memo!Extracted(s, keys) : todo' = [todo EXCEPT ![s] = fs]
    BY <1>1 DEF Memo!Extract
  <2>1. PICK fs \in Memo!Extracted(s, keys) : todo' = [todo EXCEPT ![s] = fs]
    BY <2>0
  <2>2. /\ fs \in Seq(Memo!Facts) /\ Elements(fs) \subseteq Memo!Facts \cap Memo!Given
        /\ Unlike(Elements(fs))
    BY ExtractedFacts
  <2>3. todo'[s] = fs /\ \A u \in MemorySessions \ {s} : todo'[u] = todo[u]
    BY <2>1 DEF MemoryTypes
  <2>4. returned' = [returned EXCEPT ![s] = Elements(fs)]
    BY <1>1, <2>3 DEF Memo!Extract, Memo!ToSet, Elements
  <2>5. MemoryTypes'
    BY <1>0, <1>1, <2>1, <2>2, <2>4 DEF Memo!Extract, MemoryTypes
  <2>6. ASSUME NEW u \in MemorySessions PROVE ListOf(u)'
    <3>1. CASE u = s
      <4>1. todo'[u] = fs /\ returned'[u] = Elements(fs) /\ call'[u] = "saving"
        BY <1>1, <2>3, <2>4, <3>1 DEF Memo!Extract, MemoryTypes
      <4> QED BY <2>2, <4>1 DEF ListOf, Elements, Unlike, Memo!Alike
    <3>2. CASE u # s
      BY <1>1, <2>3, <2>4, <3>2 DEF Memo!Extract, MemoryTypes, ListOf, Elements, Unlike,
         Memo!Alike, Stored
    <3> QED BY <3>1, <3>2
  <2>7. Kept
    BY <1>1 DEF Memo!Extract
  <2> QED BY <2>5, <2>6, <2>7
<1>2. ASSUME NEW s \in MemorySessions, Memo!Save(s) PROVE MemoryInv' /\ Kept
  <2>0. PICK f : f = Head(todo[s])
    OBVIOUS
  <2>1. /\ call[s] = "saving" /\ todo[s] # <<>> /\ Memo!Upsert(f, s, stamp[s])
        /\ todo' = [todo EXCEPT ![s] = Tail(todo[s])]
        /\ saved' = [saved EXCEPT ![s] = saved[s] \cup {f.id}]
        /\ UNCHANGED <<call, returned, stamp, clock, failures>>
    BY <1>2, <2>0 DEF Memo!Save, MemoryTypes
  <2>2. todo[s] \in Seq(Memo!Facts) /\ stamp[s] \in 0..MaxClock
    BY DEF MemoryTypes
  <2>3. /\ f \in Elements(todo[s]) /\ f \in Memo!Facts
        /\ Tail(todo[s]) \in Seq(Memo!Facts)
        /\ \A g \in Elements(todo[s]) : g = f \/ g \in Elements(Tail(todo[s]))
        /\ Elements(Tail(todo[s])) \subseteq Elements(todo[s])
    BY <2>0, <2>1, <2>2, ListEnds
  <2>4. f \in Memo!Given
    BY <2>3 DEF ListOf
  <2>5. /\ Stored(f)'
        /\ \A g \in Memo!Facts \cap Memo!Given : Stored(g) => Stored(g)'
    BY <2>1, <2>2, <2>3, <2>4, StoredStays
  <2>6. f.id \in FactIds
    BY <2>3 DEF Memo!Facts
  <2>7. facts' \in [FactIds -> Memo!Rows \cup {Absent}] /\ Kept
    BY <2>1, <2>2, <2>3, <2>6, UpsertFacts
  <2>8. MemoryTypes'
    BY <2>1, <2>3, <2>6, <2>7 DEF MemoryTypes
  <2>9. ASSUME NEW u \in MemorySessions PROVE ListOf(u)'
    <3>0. returned[u] \subseteq Memo!Facts \cap Memo!Given
      BY DEF MemoryTypes, ListOf
    <3>1. CASE u = s
      <4>1. todo'[u] = Tail(todo[s]) /\ returned'[u] = returned[u] /\ call'[u] = "saving"
        BY <2>1, <3>1 DEF MemoryTypes
      <4>2. Elements(todo'[u]) \subseteq returned'[u] /\ Elements(todo[u]) \subseteq returned[u]
        BY <2>3, <3>1, <4>1 DEF ListOf
      <4>3. \A g \in returned'[u] : g \in Elements(todo'[u]) \/ Stored(g)'
        <5>1. \A g \in returned[s] : g \in Elements(todo[s]) \/ Stored(g)
          BY <2>1 DEF ListOf
        <5> QED BY <2>3, <2>5, <3>0, <3>1, <4>1, <5>1
      <4> QED BY <3>0, <4>1, <4>2, <4>3 DEF ListOf, Unlike, Memo!Alike, Elements
    <3>2. CASE u # s
      <4>1. todo'[u] = todo[u] /\ returned'[u] = returned[u] /\ call'[u] = call[u]
        BY <2>1, <3>2 DEF MemoryTypes
      <4> QED BY <2>5, <3>0, <4>1 DEF ListOf, Unlike, Memo!Alike, Elements
    <3> QED BY <3>1, <3>2
  <2> QED BY <2>7, <2>8, <2>9
<1>3. ASSUME NEW s \in MemorySessions, Memo!SaveFails(s) PROVE MemoryInv' /\ Kept
  <2>1. MemoryTypes'
    BY <1>0, <1>3 DEF Memo!SaveFails, MemoryTypes
  <2>2. ASSUME NEW u \in MemorySessions PROVE ListOf(u)'
    BY <1>3 DEF Memo!SaveFails, MemoryTypes, ListOf, Elements, Unlike, Memo!Alike, Stored
  <2> QED BY <1>3, <2>1, <2>2 DEF Memo!SaveFails
<1>4. ASSUME NEW s \in MemorySessions, Memo!Return(s) PROVE MemoryInv' /\ Kept
  <2>1. MemoryTypes'
    BY <1>4 DEF Memo!Return, MemoryTypes
  <2>2. ASSUME NEW u \in MemorySessions PROVE ListOf(u)'
    BY <1>4 DEF Memo!Return, MemoryTypes, ListOf, Elements, Unlike, Memo!Alike, Stored
  <2> QED BY <1>4, <2>1, <2>2 DEF Memo!Return
<1>5. ASSUME NEW m \in Manual, Memo!SaveManually(m) PROVE MemoryInv' /\ Kept
  <2>0. PICK f : f = Memo!ManualFact(m)
    OBVIOUS
  <2>1. /\ clock \in 0..MaxClock /\ clock' \in 0..MaxClock
        /\ Memo!Upsert(f, Memo!NoSession, clock)
        /\ UNCHANGED <<call, todo, returned, stamp, saved, failures>>
    BY <1>0, <1>5, <2>0 DEF Memo!SaveManually, MemoryTypes
  <2>2. f \in Memo!Facts /\ f \in Memo!Given
    <3>1. m \in Memo!Items
      BY DEF FactsOf, Memo!OutputsAssumption
    <3>2. f \in {Memo!ManualFact(o) : o \in Manual}
      BY <2>0
    <3>3. f \in Memo!Given
      BY <3>2 DEF Memo!Given
    <3>4. Memo!ManualFact(m) \in Memo!Facts
      BY <3>1, FactTypes
    <3> QED BY <2>0, <3>3, <3>4
  <2>3. \A g \in Memo!Facts \cap Memo!Given : Stored(g) => Stored(g)'
    BY <2>1, <2>2, StoredStays
  <2>4. f.id \in FactIds
    BY <2>2 DEF Memo!Facts
  <2>5. facts' \in [FactIds -> Memo!Rows \cup {Absent}] /\ Kept
    BY <2>1, <2>2, <2>4, UpsertFacts
  <2>6. MemoryTypes'
    BY <2>1, <2>5 DEF MemoryTypes
  <2>7. ASSUME NEW u \in MemorySessions PROVE ListOf(u)'
    <3>1. returned[u] \subseteq Memo!Facts \cap Memo!Given
      BY DEF MemoryTypes, ListOf
    <3> QED BY <2>1, <2>3, <3>1 DEF ListOf, Unlike, Memo!Alike, Elements
  <2> QED BY <2>5, <2>6, <2>7
<1>6. ASSUME UNCHANGED Memo!vars PROVE MemoryInv' /\ Kept
  <2>1. UNCHANGED <<facts, call, todo, returned, stamp, saved, clock, failures>>
    BY <1>6 DEF Memo!vars
  <2> QED BY <2>1 DEF MemoryTypes, ListOf, Elements, Unlike, Memo!Alike, Stored
<1> QED BY <1>1, <1>2, <1>3, <1>4, <1>5, <1>6 DEF MemoryMoves, Memo!Next

LEMMA MemoryImply == ASSUME FactsOf, MemoryInv PROVE Memo!TypeOK /\ Memo!ReturnedIsStored
<1>1. Memo!TypeOK
  BY DEF MemoryInv, MemoryTypes, ListOf, Elements, Unlike, Memo!TypeOK, Memo!ToSet
<1>2. ASSUME NEW s \in MemorySessions, call[s] = "ok", NEW f \in returned[s]
      PROVE  Stored(f)
  BY <1>2 DEF MemoryInv, ListOf, Elements
<1> QED BY <1>1, <1>2 DEF Stored, Memo!ReturnedIsStored

\* What ExtractAndPersist has returned is in the table as it was returned, whatever
\* fails, is called again, is saved by other sessions or by hand, and a row keeps
\* the time it was made: for all outputs, in every order of their keys, as long as
\* two facts that differ have not one ID.
THEOREM FactsHold == ASSUME FactsOf, Memo!IdsApart PROVE Memo!Spec => ReturnedIsStored
<1> DEFINE Kept == \A i \in FactIds : facts[i] # Absent =>
                     facts'[i] # Absent /\ facts'[i].created = facts[i].created
<1>1. MemoryInv /\ [Memo!Next]_(Memo!vars) => MemoryInv' /\ Kept
  BY MemoryStep DEF MemoryMoves
<1>2. MemoryInv /\ [Memo!Next]_(Memo!vars) => [Kept]_(Memo!vars)
  BY <1>1
<1> QED
  BY <1>1, <1>2, MemoryInit, MemoryImply, PTL
     DEF Memo!Spec, ReturnedIsStored, Memo!CreatedAtIsKept

-----------------------------------------------------------------------------
(* The rules of a run                                                      *)

CascadeOf == Cascade!CandidatesAssumption /\ Cascade!BoundsAssumption

RuleTypes == /\ used \in Seq(Cascade!Prefixes)
             /\ first \in {1, 2, 3}

\* The prefix of a session is frozen before the first execution, and those that
\* resume the run take it.
FrozenInv == /\ rStage # "session" => frozen \in Cascade!Prefixes
             /\ rStage \in {"session", "frozen", "run"} => used = <<>>
             /\ ~Cascade!MayMiss => rStage # "resume" /\ Cascade!ResumesAgree

\* A search has found nothing yet, goes past nothing but missing files, and never
\* past the path or the variable.
SearchInv ==
  rStage \in Cascade!Searching =>
    /\ found = Cascade!Nothing
    /\ opened => next <= Candidates
    /\ first \in {1, 2} => next = first
    /\ first = 3 => next >= 3
    /\ calm => \A c \in first..Candidates : c < next => file[c] = "absent"

RulesInv == /\ Cascade!TypeOK /\ RuleTypes /\ FrozenInv /\ SearchInv
            /\ Cascade!StrictPriority

LEMMA NoneBefore == \A n \in {1, 2, 3} : \A m : (\A c \in n..m : ~(c < n)) /\ (n = 3 => n >= 3)
OBVIOUS

LEMMA RulesInit == ASSUME CascadeOf, Cascade!Init PROVE RulesInv
<1> USE DEF CascadeOf, Cascade!CandidatesAssumption,
            Cascade!BoundsAssumption, Cascade!Init
<1>1. first = next /\ first \in {2, 3} /\ next \in 1..(Candidates + 1)
  BY DEF Cascade!Top, Cascade!Env
<1>2. used = <<>> /\ used \in Seq(Cascade!Prefixes) /\ DOMAIN used = {} /\ Len(used) = 0
  OBVIOUS
<1>3. Cascade!TypeOK
  <2>1. edits \in 0..MaxEdits /\ resumes \in 0..MaxResumes
    OBVIOUS
  <2> QED BY <1>1, <1>2, <2>1 DEF Cascade!TypeOK, Cascade!Searching
<1>4. RuleTypes /\ FrozenInv
  <2>1. \A i \in 2..Len(used) : FALSE
    BY <1>2
  <2>2. Cascade!ResumesAgree
    BY <2>1 DEF Cascade!ResumesAgree
  <2>3. first \in {1, 2, 3} /\ rStage = "session"
    BY <1>1
  <2> QED BY <1>2, <2>2, <2>3 DEF RuleTypes, FrozenInv
<1>5. SearchInv
  <2>1. (\A c \in first..Candidates : ~(c < first)) /\ (first = 3 => first >= 3)
    BY <1>1, NoneBefore, Zenon
  <2>2. found = Cascade!Nothing /\ opened = FALSE
    OBVIOUS
  <2>3. (\A c \in first..Candidates : ~(c < next)) /\ (first = 3 => next >= 3)
    BY <1>1, <2>1, Zenon
  <2> QED BY <1>1, <2>1, <2>2, <2>3 DEF SearchInv
<1> QED BY <1>3, <1>4, <1>5 DEF RulesInv, Cascade!StrictPriority

\* What a search returns is recorded by its caller.
LEMMA FoundKeeps ==
  ASSUME CascadeOf, RulesInv, rStage \in Cascade!Searching,
         UNCHANGED <<flags, file, edits, resumes>>,
         NEW prefix \in Cascade!Prefixes,
         \/ Cascade!Found(prefix) /\ (calm => prefix = Cascade!Cascade)
         \/ Cascade!Fails
  PROVE  RulesInv'
<1> DEFINE P == Cascade!Prefixes
<1>0. /\ used \in Seq(P) /\ frozen \in P \cup {Cascade!Nothing} /\ Len(used) \in Nat
      /\ DOMAIN used = 1..Len(used)
      /\ Cascade!Nothing \notin P /\ Cascade!Baseline \in P /\ Cascade!Bare \in P
      /\ opened' = FALSE /\ next' = next /\ calm' = calm /\ first' = first
  <2>1. used \in Seq(P) /\ frozen \in P \cup {Cascade!Nothing}
    BY DEF RulesInv, RuleTypes, Cascade!TypeOK
  <2>2. Len(used) \in Nat /\ DOMAIN used = 1..Len(used)
    BY <2>1, LenProperties
  <2>3. Cascade!Nothing \notin P /\ Cascade!Baseline \in P /\ Cascade!Bare \in P
    BY DEF Cascade!Prefixes, Cascade!Nothing, Cascade!Baseline, Cascade!Bare, Cascade!Raw
  <2>4. opened' = FALSE /\ next' = next /\ calm' = calm /\ first' = first
    BY DEF Cascade!Found, Cascade!Fails, Cascade!Use
  <2> QED BY <2>1, <2>2, <2>3, <2>4
<1>1. \/ /\ rStage = "session" /\ rStage' = "frozen" /\ used' = used
         /\ frozen' \in P
      \/ /\ rStage = "run" /\ rStage' = "ended" /\ used' = used /\ frozen' = frozen
      \/ /\ rStage \in {"run", "resume"} /\ rStage' = "working" /\ frozen' = frozen
         /\ \E x \in P : used' = Append(used, x)
  BY <1>0 DEF Cascade!Found, Cascade!Fails, Cascade!Use
<1>2. \/ found' = found
      \/ found' = prefix /\ (calm => prefix = Cascade!Cascade)
  BY DEF Cascade!Found, Cascade!Fails
<1> HIDE DEF P
<1>3. used' \in Seq(P) /\ DOMAIN used' = 1..Len(used') /\ \A i \in DOMAIN used' : used'[i] \in P
  <2>1. used' \in Seq(P)
    BY <1>0, <1>1, AppendProperties
  <2> QED BY <2>1, LenProperties, ElementOfSeq
<1>4. Cascade!TypeOK'
  <2>1. rStage' \in {"frozen", "working", "ended"} /\ frozen' \in P \cup {Cascade!Nothing}
    BY <1>0, <1>1
  <2>2. found' \in P \cup {Cascade!Nothing}
    BY <1>2 DEF P, RulesInv, Cascade!TypeOK
  <2> QED BY <1>0, <1>3, <2>1, <2>2 DEF RulesInv, Cascade!TypeOK, P
<1>5. FrozenInv'
  <2>1. rStage # "session" => frozen \in P
    BY DEF RulesInv, FrozenInv, P
  <2>2. rStage \in {"session", "run"} => used = <<>>
    BY DEF RulesInv, FrozenInv
  <2>3. ASSUME ~Cascade!MayMiss PROVE \A i \in 2..Len(used') : used'[i] = frozen'
    <3>1. rStage \in {"session", "run"} /\ used = <<>>
      BY <2>3, <2>2 DEF RulesInv, FrozenInv, Cascade!Searching
    <3>2. used' = <<>> \/ \E x \in P : used' = <<x>>
      BY <1>1, <3>1
    <3>3. Len(used') \in {0, 1}
      BY <3>2
    <3> QED BY <3>3
  <2>4. rStage' # "resume" /\ rStage' \notin {"session", "run"} /\ frozen' \in P
        /\ (rStage' = "frozen" => used' = <<>>)
    BY <1>0, <1>1, <2>1, <2>2
  <2> QED BY <2>3, <2>4 DEF FrozenInv, Cascade!ResumesAgree, Cascade!MayMiss, P
<1>6. SearchInv'
  BY <1>1 DEF SearchInv, Cascade!Searching
<1>7. Cascade!StrictPriority'
  <2>1. Cascade!Cascade' = Cascade!Cascade
    BY <1>0 DEF Cascade!Cascade
  <2> QED BY <1>0, <1>2, <2>1 DEF Cascade!StrictPriority, RulesInv, SearchInv
<1>8. RuleTypes'
  BY <1>0, <1>3 DEF RuleTypes, RulesInv, P
<1> QED BY <1>4, <1>5, <1>6, <1>7, <1>8 DEF RulesInv

\* The file at hand is the first that is there.
LEMMA FirstFound ==
  ASSUME CascadeOf, RulesInv, rStage \in Cascade!Searching, calm,
         next <= Candidates, file[next] # "absent"
  PROVE  Cascade!Cascade = Cascade!Compile(next, file[next])
<1> DEFINE there == {c \in first..Candidates : file[c] # "absent"}
<1>0. /\ next \in Nat /\ Candidates \in Nat /\ first \in {1, 2, 3} /\ next >= first
      /\ (first = 2 => next = 2)
  <2>1. next \in 1..(Candidates + 1) /\ Candidates \in Nat /\ first \in {1, 2, 3}
    BY DEF RulesInv, RuleTypes, Cascade!TypeOK, CascadeOf, Cascade!CandidatesAssumption
  <2>2. (first \in {1, 2} => next = first) /\ (first = 3 => next >= 3)
    BY DEF RulesInv, SearchInv
  <2> QED BY <2>1, <2>2
<1>1. next \in there
  BY <1>0
<1>2. \A d \in there : next <= d
  BY <1>0 DEF RulesInv, SearchInv
<1>3. \A c \in there : (\A d \in there : c <= d) => c = next
  <2> SUFFICES ASSUME NEW c \in there, \A d \in there : c <= d PROVE c = next
    OBVIOUS
  <2>1. c <= next /\ next <= c
    BY <1>1, <1>2
  <2>2. c \in Nat
    BY <1>0
  <2> HIDE DEF there
  <2> QED BY <1>0, <2>1, <2>2
<1> HIDE DEF there
<1>4. (CHOOSE c \in there : \A d \in there : c <= d) = next
  BY <1>1, <1>2, <1>3
<1>5. ~(first = Cascade!Env /\ Cascade!Env \notin there) /\ there # {}
  BY <1>0, <1>1 DEF Cascade!Env
<1> QED BY <1>4, <1>5 DEF Cascade!Cascade, there

LEMMA RulesStep == ASSUME CascadeOf, RulesInv, [Cascade!Next]_(Cascade!vars) PROVE RulesInv'
<1>0. /\ next \in 1..(Candidates + 1) /\ Candidates \in Nat /\ Candidates >= 2
      /\ first \in {1, 2, 3} /\ used \in Seq(Cascade!Prefixes)
      /\ file \in [Cascade!Files -> Cascade!Contents]
  BY DEF RulesInv, RuleTypes, Cascade!TypeOK, CascadeOf, Cascade!CandidatesAssumption
<1>f. UNCHANGED flags /\ (Cascade!MayMiss <=> Cascade!MayMiss')
  BY DEF Cascade!Next, Cascade!vars, Cascade!MayMiss
<1>1. CASE Cascade!ReadFile
  <2>1. CASE file[next] = "absent"
    <3>1. Cascade!Baseline \in Cascade!Prefixes
      BY DEF Cascade!Prefixes
    <3> QED BY <1>f, <1>1, <2>1, <3>1, FoundKeeps DEF Cascade!ReadFile
  <2>2. CASE file[next] # "absent" /\ next <= Candidates
    <3>1. next \in Cascade!Files
      BY <1>0, <2>2 DEF Cascade!Files
    <3>2. Cascade!Compile(next, file[next]) \in Cascade!Prefixes
      BY <1>0, <2>2, <3>1 DEF Cascade!Compile, Cascade!Prefixes, Cascade!Contents
    <3> QED BY <1>f, <1>1, <2>2, <3>2, FirstFound, FoundKeeps DEF Cascade!ReadFile
  <2>3. next <= Candidates
    BY <1>1 DEF Cascade!ReadFile, RulesInv, SearchInv
  <2> QED BY <2>1, <2>2, <2>3
<1>2. CASE Cascade!FallBack
  <2>1. Cascade!Baseline \in Cascade!Prefixes
    BY DEF Cascade!Prefixes
  <2>2. ASSUME calm PROVE Cascade!Baseline = Cascade!Cascade
    <3>1. first = 3 /\ next > Candidates
      BY <1>0, <1>2 DEF Cascade!FallBack, RulesInv, SearchInv
    <3>2. \A c \in first..Candidates : file[c] = "absent"
      BY <1>0, <1>2, <2>2, <3>1 DEF Cascade!FallBack, RulesInv, SearchInv
    <3>3. {c \in first..Candidates : file[c] # "absent"} = {}
      BY <3>2
    <3> QED BY <3>1, <3>3 DEF Cascade!Cascade, Cascade!Env
  <2> QED BY <1>f, <1>2, <2>1, <2>2, FoundKeeps DEF Cascade!FallBack
<1>3. CASE Cascade!Look /\ next = Cascade!Env /\ file[Cascade!Env] = "absent" /\ Cascade!Found(Cascade!Raw)
  <2>1. Cascade!Raw \in Cascade!Prefixes
    BY DEF Cascade!Prefixes
  <2>2. Cascade!Raw = Cascade!Cascade
    <3>1. first = Cascade!Env
      BY <1>0, <1>3 DEF Cascade!Look, RulesInv, SearchInv, Cascade!Env
    <3>2. Cascade!Env \notin {c \in first..Candidates : file[c] # "absent"}
      BY <1>3
    <3> QED BY <3>1, <3>2 DEF Cascade!Cascade
  <2> QED BY <1>f, <1>3, <2>1, <2>2, FoundKeeps DEF Cascade!Look
<1>4. CASE Cascade!Look /\ UNCHANGED <<rStage, frozen, used, found, calm, first>>
  <2>1. /\ rStage \in Cascade!Searching /\ UNCHANGED <<file, edits, resumes>>
        /\ \/ opened' = TRUE /\ next' = next
           \/ /\ next > 2 /\ file[next] = "absent" /\ next' = next + 1
              /\ opened' = opened
        /\ next <= Candidates /\ ~opened
    BY <1>4 DEF Cascade!Look, Cascade!Found, Cascade!Env, Cascade!Searching, Cascade!Use
  <2>2. Cascade!TypeOK'
    <3>1. next' \in 1..(Candidates + 1)
      BY <1>0, <2>1
    <3> QED BY <1>f, <1>4, <2>1, <3>1 DEF RulesInv, Cascade!TypeOK
  <2>3. RuleTypes' /\ FrozenInv'
    BY <1>f, <1>4, <2>1 DEF RulesInv, RuleTypes, FrozenInv, Cascade!ResumesAgree
  <2>4. SearchInv'
    <3>1. CASE next' = next
      BY <1>4, <2>1, <3>1 DEF RulesInv, SearchInv
    <3>2. CASE next' = next + 1 /\ next > 2 /\ file[next] = "absent"
      <4>1. first = 3 /\ next >= 3 /\ next + 1 >= 3
        BY <1>0, <2>1, <3>2 DEF RulesInv, SearchInv
      <4>2. ASSUME calm PROVE \A c \in first..Candidates : c < next + 1 => file[c] = "absent"
        <5> SUFFICES ASSUME NEW c \in first..Candidates, c < next + 1
                     PROVE  file[c] = "absent"
          OBVIOUS
        <5>1. c < next \/ c = next
          BY <1>0, <4>1
        <5> QED BY <2>1, <3>2, <4>2, <5>1 DEF RulesInv, SearchInv
      <4> QED BY <1>4, <2>1, <3>2, <4>1, <4>2 DEF RulesInv, SearchInv
    <3> QED BY <2>1, <3>1, <3>2
  <2>5. Cascade!StrictPriority'
    BY <1>4, <2>1 DEF RulesInv, SearchInv, Cascade!StrictPriority
  <2> QED BY <2>2, <2>3, <2>4, <2>5 DEF RulesInv
<1>5. ASSUME NEW who \in {"run", "resume"}, NEW path \in BOOLEAN,
             Cascade!Search(who, Cascade!Top(path)),
             UNCHANGED <<file, edits, frozen, used>>, resumes' \in 0..MaxResumes,
             rStage # "session", who = "run" => used = <<>>, who = "resume" => Cascade!MayMiss
      PROVE  RulesInv'
  <2>0. /\ rStage' = who /\ next' = Cascade!Top(path) /\ opened' = FALSE
        /\ found' = Cascade!Nothing /\ calm' = TRUE /\ first' = next'
    BY <1>5 DEF Cascade!Search
  <2>1. next' \in {1, 2, 3} /\ next' \in 1..(Candidates + 1)
    BY <1>0, <2>0 DEF Cascade!Top, Cascade!Path, Cascade!Env
  <2>2. Cascade!TypeOK' /\ RuleTypes'
    BY <1>f, <1>0, <1>5, <2>0, <2>1 DEF RulesInv, RuleTypes, Cascade!TypeOK, Cascade!Searching
  <2>3. FrozenInv'
    BY <1>f, <1>5, <2>0 DEF RulesInv, FrozenInv, Cascade!ResumesAgree
  <2>4. SearchInv'
    <3>1. \A c \in first'..Candidates : ~(c < next')
      BY <1>0, <2>0, <2>1
    <3>2. first' = 3 => next' >= 3
      BY <2>0
    <3> QED BY <2>0, <3>1, <3>2 DEF SearchInv
  <2> QED BY <2>0, <2>2, <2>3, <2>4 DEF RulesInv, Cascade!StrictPriority
<1>6. CASE Cascade!Run
  <2>1. /\ rStage = "frozen" /\ Cascade!Search("run", Cascade!Top(TRUE))
        /\ UNCHANGED <<file, edits, frozen, used, resumes>>
    BY <1>6 DEF Cascade!Run
  <2>2. used = <<>> /\ resumes \in 0..MaxResumes
    BY <2>1 DEF RulesInv, FrozenInv, Cascade!TypeOK
  <2> QED BY <1>5, <2>1, <2>2
<1>7. CASE Cascade!Stop
  <2>1. /\ rStage = "working" /\ rStage' = "paused"
        /\ UNCHANGED <<file, next, opened, frozen, used, found, calm, first, edits, resumes>>
    BY <1>7 DEF Cascade!Stop
  <2>2. Cascade!TypeOK' /\ RuleTypes'
    BY <1>f, <2>1 DEF RulesInv, RuleTypes, Cascade!TypeOK
  <2>3. FrozenInv' /\ SearchInv'
    BY <1>f, <2>1 DEF RulesInv, FrozenInv, SearchInv, Cascade!Searching,
       Cascade!ResumesAgree
  <2>4. Cascade!StrictPriority'
    BY <2>1 DEF RulesInv, Cascade!StrictPriority, Cascade!Cascade
  <2> QED BY <2>2, <2>3, <2>4 DEF RulesInv
<1>8. CASE Cascade!Resume
  <2>1. resumes' \in 0..MaxResumes
    <3>1. resumes \in 0..MaxResumes /\ MaxResumes \in Nat /\ resumes < MaxResumes
          /\ resumes' = resumes + 1
      BY <1>8 DEF Cascade!Resume, RulesInv, Cascade!TypeOK, CascadeOf,
         Cascade!BoundsAssumption
    <3> QED BY <3>1
  <2>2. CASE \E path \in BOOLEAN : Cascade!MayMiss /\ Cascade!Search("resume", Cascade!Top(path))
                                   /\ UNCHANGED <<frozen, used>>
    BY <1>5, <1>8, <2>1, <2>2 DEF Cascade!Resume
  <2>3. CASE Cascade!Use(frozen) /\ UNCHANGED <<opened, found>>
    <3>0. /\ rStage = "paused" /\ rStage' = "working" /\ used' = Append(used, frozen)
          /\ UNCHANGED <<file, next, opened, frozen, found, calm, first, edits>>
      BY <1>8, <2>3 DEF Cascade!Resume, Cascade!Use
    <3>1. frozen \in Cascade!Prefixes
      BY <3>0 DEF RulesInv, FrozenInv
    <3> DEFINE P == Cascade!Prefixes
    <3>p. frozen \in P /\ used \in Seq(P)
      BY <1>0, <3>1
    <3> HIDE DEF P
    <3>2. /\ used' \in Seq(P) /\ Len(used') = Len(used) + 1 /\ Len(used) \in Nat
          /\ \A i \in 1..Len(used) : used'[i] = used[i]
          /\ used'[Len(used) + 1] = frozen
          /\ \A i \in DOMAIN used' : used'[i] \in P
      <4>1. /\ used' \in Seq(P) /\ Len(used') = Len(used) + 1
            /\ \A i \in 1..Len(used) : used'[i] = used[i]
            /\ used'[Len(used) + 1] = frozen
        BY <3>0, <3>p, AppendProperties
      <4>2. Len(used) \in Nat
        BY <3>p, LenProperties
      <4>3. DOMAIN used' = 1..Len(used') /\ \A i \in 1..Len(used') : used'[i] \in P
        BY <4>1, LenProperties, ElementOfSeq
      <4> QED BY <4>1, <4>2, <4>3
    <3>3. Cascade!TypeOK' /\ RuleTypes'
      BY <1>f, <2>1, <3>0, <3>2 DEF RulesInv, RuleTypes, Cascade!TypeOK, P
    <3>4. ASSUME ~Cascade!MayMiss PROVE Cascade!ResumesAgree'
      <4> SUFFICES ASSUME NEW i \in 2..Len(used') PROVE used'[i] = frozen'
        BY DEF Cascade!ResumesAgree
      <4>1. i \in 2..Len(used) \/ i = Len(used) + 1
        BY <3>2
      <4>2. \A j \in 2..Len(used) : used[j] = frozen /\ used'[j] = used[j]
        BY <3>2, <3>4 DEF RulesInv, FrozenInv, Cascade!ResumesAgree
      <4> QED BY <3>0, <3>2, <4>1, <4>2
    <3>5. FrozenInv' /\ SearchInv'
      BY <1>f, <3>0, <3>1, <3>4 DEF FrozenInv, SearchInv, Cascade!Searching
    <3>6. Cascade!StrictPriority'
      BY <3>0 DEF RulesInv, Cascade!StrictPriority, Cascade!Cascade
    <3> QED BY <3>3, <3>5, <3>6 DEF RulesInv
  <2> QED BY <1>8, <2>2, <2>3 DEF Cascade!Resume
<1>9. ASSUME NEW c \in Cascade!Files, Cascade!Edit(c) PROVE RulesInv'
  <2>1. /\ \E text \in Cascade!Contents : file' = [file EXCEPT ![c] = text]
        /\ calm' = FALSE /\ edits < MaxEdits /\ edits' = edits + 1
        /\ UNCHANGED <<rStage, next, opened, frozen, used, found, first, resumes>>
    BY <1>9 DEF Cascade!Edit
  <2>2. edits' \in 0..MaxEdits
    <3>1. edits \in 0..MaxEdits /\ MaxEdits \in Nat
      BY DEF RulesInv, Cascade!TypeOK, CascadeOf, Cascade!BoundsAssumption
    <3> QED BY <2>1, <3>1
  <2>3. file' \in [Cascade!Files -> Cascade!Contents]
    BY <1>0, <2>1
  <2>4. Cascade!TypeOK' /\ RuleTypes'
    BY <1>f, <2>1, <2>2, <2>3 DEF RulesInv, RuleTypes, Cascade!TypeOK
  <2>5. FrozenInv' /\ SearchInv'
    BY <1>f, <2>1 DEF RulesInv, FrozenInv, SearchInv, Cascade!ResumesAgree
  <2> QED BY <2>1, <2>4, <2>5 DEF RulesInv, Cascade!StrictPriority
<1>10. CASE UNCHANGED Cascade!vars
  BY <1>f, <1>10 DEF Cascade!vars, RulesInv, RuleTypes, Cascade!TypeOK, FrozenInv, SearchInv,
     Cascade!StrictPriority, Cascade!Cascade, Cascade!ResumesAgree
<1>11. CASE Cascade!Look
  BY <1>3, <1>4, <1>11 DEF Cascade!Look
<1> QED
  BY <1>1, <1>2, <1>6, <1>7, <1>8, <1>9, <1>10, <1>11 DEF Cascade!Next

LEMMA RulesImply == ASSUME RulesInv PROVE Cascade!RulesAreStable
BY DEF RulesInv, FrozenInv, Cascade!RulesAreStable

\* A search that no edit disturbs returns the rules of the highest rank, and the
\* executions that resume a run agree on those of its session as long as its row
\* can be read: for any candidates, files and edits (rules/discovery.go, Discover).
THEOREM RulesHold == ASSUME CascadeOf PROVE Cascade!Spec => []RulesAreStable
BY RulesInit, RulesStep, RulesImply, PTL DEF Cascade!Spec, RulesAreStable

-----------------------------------------------------------------------------
(* The planner                                                             *)

PlansOf == Plans!AttemptsAssumption /\ Plans!SegmentsAssumption

Replies == FlatPlans \cup {Garbage}

\* The model has been told of all its replies but the one at hand, once for each
\* attempt; that one is accepted only where Plan returns it.
PlansInv ==
  /\ at \in {"ask", "validate", "returned"}
  /\ reply \in Replies /\ ended \in BOOLEAN
  /\ reflectionAttempts \in 0..MaxReflectionAttempts
  /\ feedback \in Seq(Replies) /\ Len(feedback) = reflectionAttempts
  /\ result \in {"none", "ok", "exhausted", "failed", "cancelled"}
  /\ result = "none" <=> at # "returned"
  /\ replies = IF at = "ask" \/ result = "failed" THEN feedback
                                                  ELSE Append(feedback, reply)
  /\ result = "ok" => Plans!Accepts(reply)
  /\ result = "exhausted" => ~Plans!Accepts(reply)

LEMMA PlansInit == ASSUME PlansOf, Plans!Init PROVE PlansInv
<1>1. 0 \in 0..MaxReflectionAttempts
  BY DEF PlansOf, Plans!AttemptsAssumption
<1>2. <<>> \in Seq(Replies) /\ Len(<<>>) = 0
  BY EmptySeq
<1> QED BY <1>1, <1>2 DEF Plans!Init, PlansInv, Replies

\* What one reply more makes of a sequence of them.
LEMMA AppendType ==
  ASSUME NEW S, NEW s \in Seq(S), NEW x \in S, NEW n, Len(s) = n
  PROVE  /\ Append(s, x) \in Seq(S) /\ Len(Append(s, x)) = n + 1
         /\ Append(s, x)[n + 1] = x
         /\ \A i \in 1..n : Append(s, x)[i] = s[i]
         /\ n \in Nat
BY LenProperties, AppendProperties

LEMMA OneMore ==
  ASSUME NEW m \in Nat, NEW n \in 0..m
  PROVE  n \in Nat /\ n <= 1 + m /\ n + 1 <= 1 + m /\ (n < m => n + 1 \in 0..m)
OBVIOUS

LEMMA PlansStep == ASSUME PlansOf, PlansInv, [Plans!Next]_(Plans!vars) PROVE PlansInv'
<1> USE DEF PlansInv
<1>0. reply \in Replies /\ feedback \in Seq(Replies) /\ MaxReflectionAttempts \in Nat
  BY DEF PlansOf, Plans!AttemptsAssumption
<1>1. CASE Plans!EndCtx
  BY <1>0, <1>1 DEF Plans!EndCtx
<1>2. CASE Plans!Ask
  <2>1. PICK p \in Replies : reply' = p /\ replies' = Append(replies, p)
    BY <1>2 DEF Plans!Ask, Replies
  <2>2. /\ at = "ask" /\ at' = "validate" /\ feedback' = feedback /\ result' = result
        /\ reflectionAttempts' = reflectionAttempts /\ ended' = ended
    BY <1>2 DEF Plans!Ask
  <2> QED BY <1>0, <2>1, <2>2
<1>3. CASE Plans!AskFails
  BY <1>0, <1>3 DEF Plans!AskFails, Plans!Return
<1>4. CASE Plans!Validate
  <2>1. /\ at = "validate" /\ result = "none" /\ replies = Append(feedback, reply)
        /\ reply' = reply /\ replies' = replies /\ ended' = ended
    BY <1>4 DEF Plans!Validate
  <2>2. \/ /\ at' = "returned" /\ result' \in {"cancelled", "ok", "exhausted"}
           /\ reflectionAttempts' = reflectionAttempts /\ feedback' = feedback
           /\ result' = "ok" => Plans!Accepts(reply)
           /\ result' = "exhausted" => ~Plans!Accepts(reply)
        \/ /\ reflectionAttempts < MaxReflectionAttempts
           /\ reflectionAttempts' = reflectionAttempts + 1
           /\ feedback' = Append(feedback, reply)
           /\ at' = "ask" /\ result' = result
    BY <1>4 DEF Plans!Validate, Plans!Return, Plans!MayReflect
  <2>3. Plans!Accepts(reply)' <=> Plans!Accepts(reply)
    BY <2>1 DEF Plans!Accepts, Plans!InNamespace, Plans!IsStrictPrefix, Plans!IsPrefix,
       Plans!ValidateAcyclic, Plans!HasDuplicateId, Plans!IsValidGraph, Plans!IsAcyclic,
       Plans!Ids, Plans!TaskNamed
  <2>4. CASE at' = "returned"
    BY <1>0, <2>1, <2>2, <2>3, <2>4
  <2>5. CASE at' = "ask"
    <3>1. /\ reflectionAttempts < MaxReflectionAttempts
          /\ reflectionAttempts' = reflectionAttempts + 1
          /\ feedback' = Append(feedback, reply) /\ at' = "ask" /\ result' = "none"
      BY <2>1, <2>2, <2>5
    <3>2. feedback' \in Seq(Replies) /\ Len(feedback') = reflectionAttempts + 1
      BY <1>0, <3>1, AppendType
    <3>3. reflectionAttempts + 1 \in 0..MaxReflectionAttempts
      BY <1>0, <3>1, OneMore
    <3> QED BY <2>1, <3>1, <3>2, <3>3, <1>0
  <2> QED BY <2>2, <2>4, <2>5
<1>5. CASE UNCHANGED Plans!vars
  <2>1. /\ at' = at /\ reply' = reply /\ reflectionAttempts' = reflectionAttempts
        /\ feedback' = feedback /\ replies' = replies /\ ended' = ended /\ result' = result
    BY <1>5 DEF Plans!vars
  <2>2. Plans!Accepts(reply)' <=> Plans!Accepts(reply)
    BY <2>1 DEF Plans!Accepts, Plans!InNamespace, Plans!IsStrictPrefix, Plans!IsPrefix,
       Plans!ValidateAcyclic, Plans!HasDuplicateId, Plans!IsValidGraph, Plans!IsAcyclic,
       Plans!Ids, Plans!TaskNamed
  <2> QED BY <2>1, <2>2
<1> QED BY <1>1, <1>2, <1>3, <1>4, <1>5 DEF Plans!Next

\* Two keys of which each lies in the namespace of its task are apart, unless one
\* task lies in the namespace of the other.
LEMMA NamespacesApart ==
  ASSUME NEW s \in Seq(STRING), NEW t \in Seq(STRING), NEW k \in Seq(STRING),
         Plans!InNamespace(k, s), Plans!InNamespace(k, t), s # t
  PROVE  Plans!InNamespace(s, t) \/ Plans!InNamespace(t, s)
<1> USE DEF Plans!InNamespace, Plans!IsStrictPrefix, Plans!IsPrefix
<1>1. /\ Len(s) \in Nat /\ Len(t) \in Nat /\ Len(k) \in Nat
      /\ Len(s) <= Len(k) /\ Len(t) <= Len(k)
  BY LenProperties
<1>2. \A u \in Seq(STRING) : \A n \in 0..Len(u) :
         /\ SubSeq(u, 1, n) \in Seq(STRING) /\ Len(SubSeq(u, 1, n)) = n
         /\ \A i \in 1..n : SubSeq(u, 1, n)[i] = u[i]
  BY SubSeqProperties, LenProperties
<1>3. \A i \in 1..Len(s) : s[i] = k[i]
  <2>1. Len(s) \in 0..Len(s) /\ Len(s) \in 0..Len(k)
    BY <1>1
  <2> QED BY <1>2, <2>1
<1>4. \A i \in 1..Len(t) : t[i] = k[i]
  <2>1. Len(t) \in 0..Len(t) /\ Len(t) \in 0..Len(k)
    BY <1>1
  <2> QED BY <1>2, <2>1
<1>5. ASSUME NEW u \in Seq(STRING), NEW v \in Seq(STRING), Len(u) <= Len(v),
             \A i \in 1..Len(u) : u[i] = k[i], \A i \in 1..Len(v) : v[i] = k[i]
      PROVE  SubSeq(u, 1, Len(u)) = SubSeq(v, 1, Len(u))
  <2>1. Len(u) \in 0..Len(u) /\ Len(u) \in 0..Len(v)
    BY <1>5, LenProperties
  <2>2. \A i \in 1..Len(u) : i \in 1..Len(v)
    BY <1>5, LenProperties
  <2>3. \A i \in 1..Len(u) : SubSeq(u, 1, Len(u))[i] = SubSeq(v, 1, Len(u))[i]
    BY <1>2, <1>5, <2>1, <2>2
  <2> QED BY <1>2, <2>1, <2>3, SeqEqual
<1> QED BY <1>1, <1>3, <1>4, <1>5

LEMMA PlansImply == ASSUME PlansOf, PlansInv PROVE Plans!PlansAreSound
<1> USE DEF PlansInv
<1>0. /\ MaxReflectionAttempts \in Nat /\ reply \in Replies /\ feedback \in Seq(Replies)
      /\ Len(feedback) = reflectionAttempts /\ reflectionAttempts \in 0..MaxReflectionAttempts
  BY DEF PlansOf, Plans!AttemptsAssumption
<1>1. /\ Append(feedback, reply) \in Seq(Replies)
      /\ Len(Append(feedback, reply)) = reflectionAttempts + 1
      /\ Append(feedback, reply)[reflectionAttempts + 1] = reply
      /\ \A i \in 1..reflectionAttempts : Append(feedback, reply)[i] = feedback[i]
  BY <1>0, AppendType
<1>2. reflectionAttempts <= 1 + MaxReflectionAttempts /\ reflectionAttempts \in Nat
      /\ reflectionAttempts + 1 <= 1 + MaxReflectionAttempts
  BY <1>0, OneMore
<1>3. Plans!TypeOK
  <2>1. replies = feedback \/ replies = Append(feedback, reply)
    OBVIOUS
  <2>2. Len(replies) <= 1 + MaxReflectionAttempts
    BY <1>0, <1>1, <1>2, <2>1
  <2> QED BY <2>2 DEF Plans!TypeOK, Replies
<1>4. SubSeq(Append(feedback, reply), 1, reflectionAttempts) = feedback
  BY <1>0, <1>1, <1>2, SubSeqProperties, SeqEqual, LenProperties
<1>5. SubSeq(feedback, 1, reflectionAttempts) = feedback
  BY <1>0, <1>2, SubSeqProperties, SeqEqual, LenProperties
<1>6. Plans!FeedbackIsCurrent
  <2>1. Plans!IsPrefix(feedback, replies)
    <3>1. reflectionAttempts <= reflectionAttempts + 1 /\ reflectionAttempts <= reflectionAttempts
      BY <1>2
    <3>2. CASE replies = feedback
      BY <1>0, <3>1, <3>2 DEF Plans!IsPrefix
    <3>3. CASE replies = Append(feedback, reply)
      BY <1>0, <1>1, <1>4, <1>5, <3>1, <3>3 DEF Plans!IsPrefix
    <3> QED BY <3>2, <3>3
  <2>2. ASSUME at = "returned", result \in {"ok", "exhausted"}
        PROVE  feedback = Plans!Front(replies) /\ (Plans!Accepts(Plans!Last(replies)) <=> result = "ok")
    <3>1. replies = Append(feedback, reply)
      BY <2>2
    <3>2. (reflectionAttempts + 1) - 1 = reflectionAttempts
      BY <1>2
    <3>3. feedback = Plans!Front(replies)
      BY <1>1, <1>4, <3>1, <3>2 DEF Plans!Front
    <3>4. Plans!Last(replies) = reply
      BY <1>1, <3>1 DEF Plans!Last
    <3> QED BY <2>2, <3>3, <3>4
  <2>3. at = "ask" => feedback = replies
    OBVIOUS
  <2> QED BY <2>1, <2>2, <2>3 DEF Plans!FeedbackIsCurrent
<1>7. ASSUME Plans!FlatIds, result = "ok", NEW i \in DOMAIN reply, NEW j \in DOMAIN reply,
             i # j, NEW k \in reply[i].outputKeys, k \in reply[j].outputKeys
      PROVE  FALSE
  <2>1. Plans!Accepts(reply)
    BY <1>7
  <2>2. reply \in FlatPlans
    BY <2>1 DEF Plans!Accepts, Replies
  <2>3. Plans!InNamespace(k, reply[i].id) /\ Plans!InNamespace(k, reply[j].id)
    BY <1>7, <2>1 DEF Plans!Accepts
  <2>4. reply[i].id # reply[j].id
    BY <1>7, <2>1 DEF Plans!Accepts, Plans!ValidateAcyclic, Plans!HasDuplicateId
  <2>5. /\ reply[i].id \in Seq(STRING) /\ reply[j].id \in Seq(STRING)
        /\ k \in Seq(STRING)
    <3>1. reply \in Seq([id : Seq(STRING), dependsOn : SUBSET Seq(STRING),
                         outputKeys : SUBSET Seq(STRING), hasAction : BOOLEAN])
      BY <2>2 DEF PlansOf, Plans!SegmentsAssumption
    <3>2. reply[i] \in [id : Seq(STRING), dependsOn : SUBSET Seq(STRING),
                        outputKeys : SUBSET Seq(STRING), hasAction : BOOLEAN]
          /\ reply[j] \in [id : Seq(STRING), dependsOn : SUBSET Seq(STRING),
                           outputKeys : SUBSET Seq(STRING), hasAction : BOOLEAN]
      BY <1>7, <3>1, ElementOfSeq, LenProperties
    <3> QED BY <1>7, <3>2
  <2>6. \/ Plans!InNamespace(reply[i].id, reply[j].id)
        \/ Plans!InNamespace(reply[j].id, reply[i].id)
    BY <2>3, <2>4, <2>5, NamespacesApart
  <2> QED BY <1>7, <2>2, <2>6 DEF Plans!FlatIds
<1>8. Plans!FlatIds => Plans!NoSharedKey
  BY <1>7 DEF Plans!NoSharedKey
<1> QED BY <1>3, <1>6, <1>8 DEF Plans!PlansAreSound

\* For every set of flat plans and number of attempts: the model is told of each of
\* its invalid plans before it is asked again, Plan returns the last one, and no two
\* tasks of it declare one key.
THEOREM PlansHold == ASSUME PlansOf PROVE Plans!Spec => []Plans!PlansAreSound
<1>1. PlansInv /\ [Plans!Next]_(Plans!vars) => PlansInv'
  BY PlansStep
<1> QED BY <1>1, PlansInit, PlansImply, PTL DEF Plans!Spec

-----------------------------------------------------------------------------
(* The topological sort                                                    *)

KahnOf == Kahn!RanksAssumption /\ Kahn!InputsAssumption

Clean == ~Kahn!HasDuplicate /\ ~Kahn!HasUnknown

TakenSoFar == {order[k] : k \in DOMAIN order}

\* The mentions in v's list that are still to be taken.
Open(v) == {k \in DOMAIN Kahn!DependsOn(v) : Kahn!DependsOn(v)[k] \notin TakenSoFar}

\* Each member of S depends on a member of S.
Waits(S) == \A v \in S : \E k \in DOMAIN Kahn!DependsOn(v) : Kahn!DependsOn(v)[k] \in S

\* In the loop: a task's in-degree counts its open mentions, the queue holds the
\* tasks that have none, and no task of a set that waits for itself is taken.
LoopInv ==
  /\ Clean
  /\ order \in Seq(Kahn!Listed)
  /\ \A i, j \in DOMAIN order : order[i] = order[j] => i = j
  /\ inDegree = [v \in Kahn!Listed |-> Cardinality(Open(v))]
  /\ queue = {v \in Kahn!Listed \ TakenSoFar : Open(v) = {}}
  /\ \A v \in TakenSoFar : Open(v) = {}
  /\ \A S \in SUBSET Kahn!Listed : Waits(S) => S \cap TakenSoFar = {}

\* No tasks of the list wait for each other.
Acyclic == \A S \in SUBSET Kahn!Listed : S # {} => ~Waits(S)

KahnInv ==
  /\ tasks \in Inputs
  /\ kPc \in {"check", "loop", "done"}
  /\ kPc = "check" => order = <<>>
  /\ kPc = "loop" => LoopInv
  /\ kPc = "done" => (kResult = "ok" <=> Clean /\ Acyclic)
  /\ Kahn!OrderIsCanonical

\* The list that is sorted is one of tasks with lists of their dependencies.
LEMMA ListTypes ==
  ASSUME KahnOf, tasks \in Inputs
  PROVE  /\ tasks \in Seq([id : Ranks, dependsOn : Seq(Ranks)])
         /\ Len(tasks) \in Nat /\ DOMAIN tasks = 1..Len(tasks)
         /\ \A i \in DOMAIN tasks : tasks[i].id \in Ranks /\ tasks[i].dependsOn \in Seq(Ranks)
         /\ Kahn!Listed \subseteq Nat
         /\ \A v \in Kahn!Listed : Kahn!DependsOn(v) \in Seq(Ranks)
<1>1. tasks \in Seq([id : Ranks, dependsOn : Seq(Ranks)])
  BY DEF KahnOf, Kahn!InputsAssumption
<1>2. Len(tasks) \in Nat /\ DOMAIN tasks = 1..Len(tasks)
  BY <1>1, LenProperties
<1>3. \A i \in DOMAIN tasks : tasks[i] \in [id : Ranks, dependsOn : Seq(Ranks)]
  BY <1>1, <1>2, ElementOfSeq
<1>4. Kahn!Listed \subseteq Nat
  BY <1>3 DEF KahnOf, Kahn!RanksAssumption, Kahn!Listed
<1>5. ASSUME NEW v \in Kahn!Listed
      PROVE  Kahn!DependsOn(v) \in Seq(Ranks)
  <2>1. \E i \in DOMAIN tasks : tasks[i].id = v
    BY DEF Kahn!Listed
  <2>2. (CHOOSE i \in DOMAIN tasks : tasks[i].id = v) \in DOMAIN tasks
    BY <2>1
  <2> QED BY <1>3, <2>2 DEF Kahn!DependsOn
<1> QED BY <1>1, <1>2, <1>3, <1>4, <1>5

\* Without duplicates the task of an ID is the one that has it.
LEMMA TheTask ==
  ASSUME ~Kahn!HasDuplicate, NEW i \in DOMAIN tasks
  PROVE  /\ Kahn!DependsOn(tasks[i].id) = tasks[i].dependsOn
         /\ (CHOOSE j \in DOMAIN tasks : tasks[j].id = tasks[i].id) = i
<1> DEFINE j == CHOOSE k \in DOMAIN tasks : tasks[k].id = tasks[i].id
<1>1. j \in DOMAIN tasks /\ tasks[j].id = tasks[i].id
  OBVIOUS
<1>2. j = i
  BY <1>1 DEF Kahn!HasDuplicate
<1> QED BY <1>2 DEF Kahn!DependsOn

\* The graph of the list, by definition.
LEMMA AsGraph ==
  /\ DOMAIN Kahn!AsTaskList = DOMAIN tasks
  /\ Kahn!Graph!Ids(Kahn!AsTaskList) = Kahn!Listed
  /\ Kahn!Graph!HasDuplicateId(Kahn!AsTaskList) <=> Kahn!HasDuplicate
<1>1. /\ DOMAIN Kahn!AsTaskList = DOMAIN tasks
      /\ \A i \in DOMAIN tasks : Kahn!AsTaskList[i].id = tasks[i].id
  BY DEF Kahn!AsTaskList
<1> QED BY <1>1 DEF Kahn!Graph!Ids, Kahn!Listed, Kahn!Graph!HasDuplicateId, Kahn!HasDuplicate

LEMMA AsDependencies ==
  ASSUME ~Kahn!HasDuplicate, NEW v \in Kahn!Listed
  PROVE  Kahn!Graph!TaskNamed(Kahn!AsTaskList, v).dependsOn =
           {Kahn!DependsOn(v)[k] : k \in DOMAIN Kahn!DependsOn(v)}
<1>1. PICK i \in DOMAIN tasks : tasks[i].id = v
  BY DEF Kahn!Listed
<1>2. (CHOOSE j \in DOMAIN tasks : tasks[j].id = v) = i /\ Kahn!DependsOn(v) = tasks[i].dependsOn
  BY <1>1, TheTask
<1>3. /\ DOMAIN Kahn!AsTaskList = DOMAIN tasks
      /\ \A j \in DOMAIN tasks : Kahn!AsTaskList[j].id = tasks[j].id
      /\ Kahn!AsTaskList[i].dependsOn =
           {tasks[i].dependsOn[k] : k \in DOMAIN tasks[i].dependsOn}
  BY <1>1 DEF Kahn!AsTaskList
<1>4. (CHOOSE j \in DOMAIN Kahn!AsTaskList : Kahn!AsTaskList[j].id = v) = i
  <2>1. \A j \in DOMAIN tasks : Kahn!AsTaskList[j].id = v <=> tasks[j].id = v
    BY <1>3
  <2>2. \A j \in DOMAIN tasks : tasks[j].id = v => j = i
    BY <1>1 DEF Kahn!HasDuplicate
  <2> QED BY <1>1, <1>3, <2>1, <2>2
<1> QED BY <1>2, <1>3, <1>4 DEF Kahn!Graph!TaskNamed

\* A list without duplicates and unknown dependencies is valid when none of its
\* tasks wait for each other; another list is not.
LEMMA ValidMeans ==
  ASSUME KahnOf, tasks \in Inputs
  PROVE  Kahn!Graph!ValidateAcyclic(Kahn!AsTaskList) <=> Clean /\ Acyclic
<1> DEFINE G == [t \in Kahn!Listed |-> {Kahn!DependsOn(t)[k] : k \in DOMAIN Kahn!DependsOn(t)}]
<1>1. CASE Kahn!HasDuplicate
  BY <1>1, AsGraph DEF Clean, Kahn!Graph!ValidateAcyclic
<1>2. ASSUME ~Kahn!HasDuplicate
      PROVE  Kahn!Graph!ValidateAcyclic(Kahn!AsTaskList) <=>
               Kahn!Graph!IsValidGraph(Kahn!Listed, G)
  <2>1. [t \in Kahn!Listed |-> Kahn!Graph!TaskNamed(Kahn!AsTaskList, t).dependsOn] = G
    BY <1>2, AsDependencies
  <2> QED BY <1>2, <2>1, AsGraph DEF Kahn!Graph!ValidateAcyclic
<1>3. ASSUME ~Kahn!HasDuplicate
      PROVE  Kahn!HasUnknown <=> ~\A t \in Kahn!Listed : G[t] \subseteq Kahn!Listed
  <2>1. ASSUME NEW i \in DOMAIN tasks, NEW k \in DOMAIN tasks[i].dependsOn,
               tasks[i].dependsOn[k] \notin Kahn!Listed
        PROVE  \E t \in Kahn!Listed : ~(G[t] \subseteq Kahn!Listed)
    <3>1. tasks[i].id \in Kahn!Listed /\ Kahn!DependsOn(tasks[i].id) = tasks[i].dependsOn
      BY <1>3, TheTask DEF Kahn!Listed
    <3>2. tasks[i].dependsOn[k] \in G[tasks[i].id]
      BY <3>1
    <3> QED BY <2>1, <3>1, <3>2
  <2>2. ASSUME NEW t \in Kahn!Listed, ~(G[t] \subseteq Kahn!Listed)
        PROVE  Kahn!HasUnknown
    <3>1. PICK i \in DOMAIN tasks : tasks[i].id = t
      BY DEF Kahn!Listed
    <3>2. Kahn!DependsOn(t) = tasks[i].dependsOn
      BY <1>3, <3>1, TheTask
    <3>3. PICK k \in DOMAIN tasks[i].dependsOn : tasks[i].dependsOn[k] \notin Kahn!Listed
      BY <2>2, <3>2
    <3> QED BY <3>3 DEF Kahn!HasUnknown
  <2> QED BY <2>1, <2>2 DEF Kahn!HasUnknown
<1>4. ASSUME NEW S \in SUBSET Kahn!Listed
      PROVE  Waits(S) <=> \A t \in S : G[t] \cap S # {}
  <2>1. ASSUME NEW t \in S
        PROVE  (\E k \in DOMAIN Kahn!DependsOn(t) : Kahn!DependsOn(t)[k] \in S)
                  <=> G[t] \cap S # {}
    OBVIOUS
  <2> QED BY <2>1 DEF Waits
<1> HIDE DEF G
<1>5. Kahn!Graph!IsAcyclic(Kahn!Listed, G) <=> Acyclic
  BY <1>4 DEF Kahn!Graph!IsAcyclic, Acyclic
<1> QED BY <1>1, <1>2, <1>3, <1>5 DEF Clean, Kahn!Graph!IsValidGraph

LEMMA KahnInit == ASSUME KahnOf, Kahn!Init PROVE KahnInv
<1>1. DOMAIN order = {}
  BY DEF Kahn!Init
<1>2. Kahn!OrderIsCanonical
  BY <1>1 DEF Kahn!OrderIsCanonical
<1> QED BY <1>2 DEF Kahn!Init, KahnInv

LEMMA LeastIsMember ==
  ASSUME NEW S, S \subseteq Nat, S # {}
  PROVE  Kahn!Least(S) \in S
<1>1. \E x \in S : \A y \in S : ~(<<y, x>> \in OpToRel(<, Nat))
  BY NatLessThanWellFounded, WFMin
<1>2. PICK x \in S : \A y \in S : ~(y < x)
  BY <1>1 DEF OpToRel
<1>3. \A y \in S : x <= y
  BY <1>2
<1> QED
  BY <1>3 DEF Kahn!Least

\* What is said of the list holds as long as the list is not changed.
LEMMA SameTasks ==
  ASSUME tasks' = tasks
  PROVE  /\ Kahn!Listed' = Kahn!Listed
         /\ \A v : Kahn!DependsOn(v)' = Kahn!DependsOn(v)
         /\ \A S : Waits(S)' <=> Waits(S)
         /\ Clean' <=> Clean
         /\ Acyclic' <=> Acyclic
<1>1. Kahn!Listed' = Kahn!Listed
  BY DEF Kahn!Listed
<1>2. \A v : Kahn!DependsOn(v)' = Kahn!DependsOn(v)
  BY DEF Kahn!DependsOn
<1>3. \A S : Waits(S)' <=> Waits(S)
  BY <1>2 DEF Waits
<1>4. Clean' <=> Clean
  BY <1>1 DEF Clean, Kahn!HasDuplicate, Kahn!HasUnknown
<1> QED BY <1>1, <1>2, <1>3, <1>4 DEF Acyclic

\* The order is canonical as long as neither it nor the list is changed.
LEMMA SameOrder ==
  ASSUME tasks' = tasks, order' = order
  PROVE  /\ TakenSoFar' = TakenSoFar
         /\ \A v : Open(v)' = Open(v)
         /\ Kahn!OrderIsCanonical => Kahn!OrderIsCanonical'
<1>1. \A n : Kahn!Taken(n)' = Kahn!Taken(n)
  BY DEF Kahn!Taken
<1>2. Kahn!Listed' = Kahn!Listed /\ \A v : Kahn!DependsOn(v)' = Kahn!DependsOn(v)
  BY SameTasks
<1>3. TakenSoFar' = TakenSoFar
  BY DEF TakenSoFar
<1> QED BY <1>1, <1>2, <1>3 DEF Open, Kahn!OrderIsCanonical

LEMMA RejectIsRight == ASSUME KahnOf, KahnInv, Kahn!Reject PROVE KahnInv'
<1>1. /\ kPc = "check" /\ ~Clean /\ kPc' = "done" /\ kResult' \in {"duplicate", "unknown"}
      /\ tasks' = tasks /\ order' = order
  BY DEF Kahn!Reject, Kahn!Return, Clean
<1> QED BY <1>1, SameTasks, SameOrder DEF KahnInv

\* Nothing is taken yet, and all mentions are open.
LEMMA CountIsRight == ASSUME KahnOf, KahnInv, Kahn!CountEdges PROVE KahnInv'
<1>1. /\ kPc = "check" /\ Clean /\ kPc' = "loop" /\ tasks' = tasks /\ order' = order
      /\ order = <<>> /\ tasks \in Inputs
      /\ inDegree' = [v \in Kahn!Listed |-> Len(Kahn!DependsOn(v))]
      /\ queue' = {v \in Kahn!Listed : Kahn!DependsOn(v) = <<>>}
  BY DEF Kahn!CountEdges, Clean, KahnInv
<1>2. TakenSoFar = {} /\ order \in Seq(Kahn!Listed) /\ DOMAIN order = {}
  BY <1>1, EmptySeq DEF TakenSoFar
<1>3. ASSUME NEW v \in Kahn!Listed
      PROVE  /\ Cardinality(Open(v)) = Len(Kahn!DependsOn(v))
             /\ Open(v) = {} <=> Kahn!DependsOn(v) = <<>>
  <2>1. Kahn!DependsOn(v) \in Seq(Ranks)
    BY <1>1, ListTypes
  <2>2. /\ Open(v) = 1..Len(Kahn!DependsOn(v)) /\ Len(Kahn!DependsOn(v)) \in Nat
    BY <1>2, <2>1, LenProperties DEF Open
  <2>3. Cardinality(1..Len(Kahn!DependsOn(v))) = Len(Kahn!DependsOn(v))
    BY <2>2, FS_Interval
  <2>4. 1..Len(Kahn!DependsOn(v)) = {} <=> Len(Kahn!DependsOn(v)) = 0
    BY <2>2
  <2> QED BY <2>1, <2>2, <2>3, <2>4, EmptySeq
<1>4. LoopInv'
  <2>1. inDegree' = [v \in Kahn!Listed |-> Cardinality(Open(v))]
    BY <1>1, <1>3
  <2>2. queue' = {v \in Kahn!Listed \ TakenSoFar : Open(v) = {}}
    BY <1>1, <1>2, <1>3
  <2>3. Kahn!Listed' = Kahn!Listed /\ TakenSoFar' = TakenSoFar /\ Clean'
        /\ \A v : Open(v)' = Open(v)
    BY <1>1, SameTasks, SameOrder
  <2> QED BY <1>1, <1>2, <2>1, <2>2, <2>3 DEF LoopInv
<1> QED BY <1>1, <1>4, SameTasks, SameOrder DEF KahnInv

\* What is left of a task's open mentions when u is taken.
LEMMA TakenMentions ==
  ASSUME KahnOf, tasks \in Inputs, NEW u, u \notin TakenSoFar, NEW v \in Kahn!Listed,
         NEW rest, rest = Open(v) \ Kahn!Mentions(u, v)
  PROVE  /\ Cardinality(Open(v)) - Kahn!Edges(u, v) = Cardinality(rest)
         /\ Cardinality(rest) = 0 <=> rest = {}
         /\ Kahn!Edges(u, v) > 0 <=> Kahn!Mentions(u, v) # {}
         /\ Kahn!Mentions(u, v) \subseteq Open(v)
<1>1. Kahn!DependsOn(v) \in Seq(Ranks)
  BY ListTypes
<1>2. DOMAIN Kahn!DependsOn(v) = 1..Len(Kahn!DependsOn(v)) /\ Len(Kahn!DependsOn(v)) \in Nat
  BY <1>1, LenProperties
<1>3. IsFiniteSet(DOMAIN Kahn!DependsOn(v))
  BY <1>2, FS_Interval
<1>4. Kahn!Mentions(u, v) \subseteq Open(v) /\ Open(v) \subseteq DOMAIN Kahn!DependsOn(v)
  BY DEF Kahn!Mentions, Open
<1>5. IsFiniteSet(Open(v)) /\ IsFiniteSet(Kahn!Mentions(u, v))
  BY <1>3, <1>4, FS_Subset
<1>6. /\ IsFiniteSet(rest)
      /\ Cardinality(rest) = Cardinality(Open(v)) - Cardinality(Open(v) \cap Kahn!Mentions(u, v))
  BY <1>5, FS_Difference
<1>7. Open(v) \cap Kahn!Mentions(u, v) = Kahn!Mentions(u, v)
  BY <1>4
<1>8. /\ Cardinality(rest) = 0 <=> rest = {}
      /\ Cardinality(Kahn!Mentions(u, v)) = 0 <=> Kahn!Mentions(u, v) = {}
  BY <1>5, <1>6, FS_EmptySet
<1>9. Cardinality(Kahn!Mentions(u, v)) \in Nat
  BY <1>5, FS_CardinalityType
<1>e. Kahn!Edges(u, v) = Cardinality(Kahn!Mentions(u, v))
  BY DEF Kahn!Edges, Kahn!Mentions, Kahn!Cardinality, Cardinality
<1>10. Kahn!Edges(u, v) > 0 <=> Kahn!Mentions(u, v) # {}
  <2>1. Kahn!Edges(u, v) \in Nat /\ (Kahn!Edges(u, v) = 0 <=> Kahn!Mentions(u, v) = {})
    BY <1>8, <1>9, <1>e
  <2> QED BY <2>1
<1>11. Cardinality(Open(v)) - Kahn!Edges(u, v) = Cardinality(rest)
  BY <1>6, <1>7, <1>e
<1> QED BY <1>4, <1>8, <1>10, <1>11

\* An order with one task more.
LEMMA OneTaken ==
  ASSUME NEW S, NEW s \in Seq(S), NEW u \in S
  PROVE  /\ Append(s, u) \in Seq(S)
         /\ {Append(s, u)[k] : k \in DOMAIN Append(s, u)} = {s[k] : k \in DOMAIN s} \cup {u}
         /\ DOMAIN Append(s, u) = DOMAIN s \cup {Len(s) + 1}
         /\ Append(s, u)[Len(s) + 1] = u
         /\ \A i \in DOMAIN s : Append(s, u)[i] = s[i]
         /\ DOMAIN s = 1..Len(s) /\ Len(s) \in Nat
<1>1. DOMAIN s = 1..Len(s) /\ Len(s) \in Nat
  BY LenProperties
<1>2. /\ Append(s, u) \in Seq(S) /\ Len(Append(s, u)) = Len(s) + 1
      /\ Append(s, u)[Len(s) + 1] = u
      /\ \A i \in 1..Len(s) : Append(s, u)[i] = s[i]
  BY AppendProperties
<1>3. DOMAIN Append(s, u) = 1..(Len(s) + 1)
  BY <1>2, LenProperties
<1>4. 1..(Len(s) + 1) = 1..Len(s) \cup {Len(s) + 1}
  BY <1>1
<1> QED BY <1>1, <1>2, <1>3, <1>4

\* The task that is taken is in the queue: it waits for nothing.
LEMMA TakeKeeps ==
  ASSUME KahnOf, KahnInv, Kahn!Take
  PROVE  LoopInv'
<1> DEFINE u == Kahn!Least(queue)
<1>1. /\ LoopInv /\ tasks \in Inputs /\ tasks' = tasks /\ queue # {}
      /\ order' = Append(order, u)
      /\ inDegree' = [v \in Kahn!Listed |-> inDegree[v] - Kahn!Edges(u, v)]
      /\ queue' = (queue \ {u}) \cup
           {v \in Kahn!Listed : /\ Kahn!Edges(u, v) > 0
                                /\ [w \in Kahn!Listed |-> inDegree[w] - Kahn!Edges(u, w)][v] = 0}
  BY DEF Kahn!Take, KahnInv
<1>2. /\ Clean /\ order \in Seq(Kahn!Listed)
      /\ \A i, j \in DOMAIN order : order[i] = order[j] => i = j
      /\ inDegree = [v \in Kahn!Listed |-> Cardinality(Open(v))]
      /\ queue = {v \in Kahn!Listed \ TakenSoFar : Open(v) = {}}
      /\ \A v \in TakenSoFar : Open(v) = {}
      /\ \A S \in SUBSET Kahn!Listed : Waits(S) => S \cap TakenSoFar = {}
  BY <1>1 DEF LoopInv
<1>3. u \in queue
  <2>1. queue \subseteq Nat
    BY <1>1, <1>2, ListTypes
  <2> QED BY <1>1, <2>1, LeastIsMember
<1> HIDE DEF u
<1>4. u \in Kahn!Listed /\ u \notin TakenSoFar /\ Open(u) = {}
  BY <1>2, <1>3
<1>5. TakenSoFar' = TakenSoFar \cup {u}
  <2>1. {Append(order, u)[k] : k \in DOMAIN Append(order, u)}
           = {order[k] : k \in DOMAIN order} \cup {u}
    BY <1>2, <1>4, OneTaken
  <2> QED BY <1>1, <2>1 DEF TakenSoFar
<1>6. Kahn!Listed' = Kahn!Listed /\ \A v : Kahn!DependsOn(v)' = Kahn!DependsOn(v)
  BY <1>1, SameTasks
<1>7. \A v : Open(v)' = Open(v) \ Kahn!Mentions(u, v)
  <2> SUFFICES ASSUME NEW v PROVE Open(v)' = Open(v) \ Kahn!Mentions(u, v)
    OBVIOUS
  <2>1. Open(v)' = {k \in DOMAIN Kahn!DependsOn(v) :
                      Kahn!DependsOn(v)[k] \notin TakenSoFar \cup {u}}
    BY <1>5, <1>6 DEF Open
  <2> QED BY <2>1 DEF Open, Kahn!Mentions
<1>8. \A v \in Kahn!Listed :
        /\ Cardinality(Open(v)) - Kahn!Edges(u, v) = Cardinality(Open(v) \ Kahn!Mentions(u, v))
        /\ Cardinality(Open(v) \ Kahn!Mentions(u, v)) = 0 <=> Open(v) \ Kahn!Mentions(u, v) = {}
        /\ Kahn!Edges(u, v) > 0 <=> Kahn!Mentions(u, v) # {}
        /\ Kahn!Mentions(u, v) \subseteq Open(v)
  BY <1>1, <1>4, TakenMentions
<1>9. inDegree' = [v \in Kahn!Listed |-> Cardinality(Open(v) \ Kahn!Mentions(u, v))]
  <2>1. \A v \in Kahn!Listed :
           inDegree[v] - Kahn!Edges(u, v) = Cardinality(Open(v) \ Kahn!Mentions(u, v))
    BY <1>2, <1>8
  <2> QED BY <1>1, <2>1
<1>10. queue' = {v \in Kahn!Listed \ TakenSoFar' : Open(v)' = {}}
  <2>1. queue' = (queue \ {u}) \cup
           {v \in Kahn!Listed : Kahn!Mentions(u, v) # {} /\ Open(v) \ Kahn!Mentions(u, v) = {}}
    <3>1. \A v \in Kahn!Listed :
            [w \in Kahn!Listed |-> inDegree[w] - Kahn!Edges(u, w)][v]
               = Cardinality(Open(v) \ Kahn!Mentions(u, v))
      BY <1>1, <1>9
    <3> QED BY <1>1, <1>8, <3>1
  <2>2. ASSUME NEW v \in queue'
        PROVE  v \in Kahn!Listed \ TakenSoFar' /\ Open(v) \ Kahn!Mentions(u, v) = {}
    <3>1. CASE v \in queue \ {u}
      BY <1>2, <1>5, <3>1
    <3>2. CASE v \in Kahn!Listed /\ Kahn!Mentions(u, v) # {} /\ Open(v) \ Kahn!Mentions(u, v) = {}
      <4>1. Open(v) # {}
        BY <1>8, <3>2
      <4> QED BY <1>2, <1>4, <1>5, <3>2, <4>1
    <3> QED BY <2>1, <2>2, <3>1, <3>2
  <2>3. ASSUME NEW v \in Kahn!Listed \ TakenSoFar', Open(v) \ Kahn!Mentions(u, v) = {}
        PROVE  v \in queue'
    BY <1>2, <1>5, <2>1, <2>3
  <2> QED BY <1>7, <2>2, <2>3, <2>1, <1>2
<1>11. \A v \in TakenSoFar' : Open(v)' = {}
  BY <1>2, <1>4, <1>5, <1>7
<1>12. ASSUME NEW S \in SUBSET Kahn!Listed, Waits(S)
       PROVE  S \cap TakenSoFar' = {}
  <2>1. u \notin S
    <3>1. ASSUME NEW k \in DOMAIN Kahn!DependsOn(u), Kahn!DependsOn(u)[k] \in S
          PROVE  FALSE
      <4>1. Kahn!DependsOn(u)[k] \in TakenSoFar
        BY <1>4, <3>1 DEF Open
      <4> QED BY <1>2, <1>12, <3>1, <4>1
    <3> QED BY <1>12, <3>1 DEF Waits
  <2> QED BY <1>2, <1>5, <1>12, <2>1
<1>13. order' \in Seq(Kahn!Listed) /\ \A i, j \in DOMAIN order' : order'[i] = order'[j] => i = j
  <2>1. /\ order' \in Seq(Kahn!Listed) /\ DOMAIN order' = DOMAIN order \cup {Len(order) + 1}
        /\ order'[Len(order) + 1] = u /\ \A i \in DOMAIN order : order'[i] = order[i]
    BY <1>1, <1>2, <1>4, OneTaken
  <2>2. \A i \in DOMAIN order : order[i] # u
    BY <1>4 DEF TakenSoFar
  <2> QED BY <1>2, <2>1, <2>2
<1>14. Clean' /\ \A S : Waits(S)' <=> Waits(S)
  BY <1>1, <1>2, SameTasks
<1>15. inDegree' = [v \in Kahn!Listed' |-> Cardinality(Open(v)')]
  BY <1>6, <1>7, <1>9
<1> QED BY <1>6, <1>10, <1>11, <1>12, <1>13, <1>14, <1>15 DEF LoopInv

\* What is taken is the least of the tasks that could be.
LEMMA TakeIsCanonical ==
  ASSUME KahnOf, KahnInv, Kahn!Take
  PROVE  Kahn!OrderIsCanonical'
<1> DEFINE u == Kahn!Least(queue)
           n == Len(order)
<1>1. LoopInv /\ tasks' = tasks /\ order' = Append(order, u) /\ queue # {} /\ tasks \in Inputs
  BY DEF Kahn!Take, KahnInv
<1>2. /\ order \in Seq(Kahn!Listed)
      /\ queue = {v \in Kahn!Listed \ TakenSoFar : Open(v) = {}}
  BY <1>1 DEF LoopInv
<1>3. u \in Kahn!Listed
  <2>1. queue \subseteq Nat
    BY <1>1, <1>2, ListTypes
  <2> QED BY <1>1, <1>2, <2>1, LeastIsMember
<1>4. /\ DOMAIN order' = DOMAIN order \cup {n + 1} /\ order'[n + 1] = u
      /\ \A i \in DOMAIN order : order'[i] = order[i]
      /\ DOMAIN order = 1..n /\ n \in Nat
  BY <1>1, <1>2, <1>3, OneTaken
<1>5. queue = {id \in Kahn!Listed \ Kahn!Taken(n) :
                 \A k \in DOMAIN Kahn!DependsOn(id) : Kahn!DependsOn(id)[k] \in Kahn!Taken(n)}
  <2>1. TakenSoFar = Kahn!Taken(n)
    BY <1>4 DEF TakenSoFar, Kahn!Taken
  <2> QED BY <1>2, <2>1 DEF Open
<1> HIDE DEF u, n
<1>6. \A m \in DOMAIN order \cup {n + 1} : Kahn!Taken(m - 1)' = Kahn!Taken(m - 1)
  <2> SUFFICES ASSUME NEW m \in DOMAIN order \cup {n + 1}
               PROVE  Kahn!Taken(m - 1)' = Kahn!Taken(m - 1)
    OBVIOUS
  <2>1. \A k \in 1..(m - 1) : k \in DOMAIN order
    BY <1>4
  <2>2. \A k \in 1..(m - 1) : order'[k] = order[k]
    BY <1>4, <2>1
  <2>3. Kahn!Taken(m - 1)' = {order'[k] : k \in 1..(m - 1)}
    BY DEF Kahn!Taken
  <2> QED BY <2>2, <2>3 DEF Kahn!Taken
<1>7. Kahn!Listed' = Kahn!Listed /\ \A v : Kahn!DependsOn(v)' = Kahn!DependsOn(v)
  BY <1>1, SameTasks
<1> DEFINE Could(m) == {id \in Kahn!Listed \ Kahn!Taken(m - 1) :
                          \A k \in DOMAIN Kahn!DependsOn(id) :
                             Kahn!DependsOn(id)[k] \in Kahn!Taken(m - 1)}
<1>8. \A m \in DOMAIN order : order[m] = Kahn!Least(Could(m))
  BY DEF KahnInv, Kahn!OrderIsCanonical
<1>9. Could(n + 1) = queue
  <2>1. (n + 1) - 1 = n
    BY <1>4
  <2> QED BY <1>5, <2>1
<1>10. \A m \in DOMAIN order \cup {n + 1} : Could(m)' = Could(m)
  BY <1>6, <1>7
<1> HIDE DEF Could
<1>11. \A m \in DOMAIN order' : order'[m] = Kahn!Least(Could(m))
  BY <1>4, <1>8, <1>9 DEF u
<1>12. \A m \in DOMAIN order' : order'[m] = Kahn!Least(Could(m)')
  BY <1>4, <1>10, <1>11
<1> QED BY <1>12 DEF Kahn!OrderIsCanonical, Could, Kahn!Least

LEMMA TakeIsRight == ASSUME KahnOf, KahnInv, Kahn!Take PROVE KahnInv'
<1>1. kPc = "loop" /\ kPc' = "loop" /\ tasks' = tasks
  BY DEF Kahn!Take
<1> QED BY <1>1, TakeKeeps, TakeIsCanonical DEF KahnInv

\* A list without duplicates has one ID for each of its entries.
LEMMA ListedCount ==
  ASSUME NEW S, NEW s \in Seq(S), \A i, j \in DOMAIN s : s[i] = s[j] => i = j
  PROVE  /\ IsFiniteSet({s[k] : k \in DOMAIN s})
         /\ Cardinality({s[k] : k \in DOMAIN s}) = Len(s)
<1> DEFINE T == {s[k] : k \in DOMAIN s}
<1>1. DOMAIN s = 1..Len(s) /\ Len(s) \in Nat
  BY LenProperties
<1>2. s \in [1..Len(s) -> T]
  <2>1. s = [k \in 1..Len(s) |-> s[k]]
    BY <1>1, ElementOfSeq, LenProperties, SeqDef
  <2> QED BY <1>1, <2>1
<1>3. s \in Surjection(1..Len(s), T) /\ s \in Injection(1..Len(s), T)
  BY <1>1, <1>2 DEF Surjection, Injection, IsInjective
<1>4. IsFiniteSet(1..Len(s)) /\ Cardinality(1..Len(s)) = Len(s)
  BY <1>1, FS_Interval
<1> HIDE DEF T
<1>5. IsFiniteSet(T) /\ Cardinality(T) = Len(s)
  BY <1>3, <1>4, FS_Surjection
<1> QED BY <1>5 DEF T

\* When the queue is empty, what is not taken waits for itself.
LEMMA FinishIsRight == ASSUME KahnOf, KahnInv, Kahn!Finish PROVE KahnInv'
<1>1. /\ LoopInv /\ tasks \in Inputs /\ tasks' = tasks /\ order' = order /\ queue = {}
      /\ kPc' = "done" /\ kResult' = IF Len(order) < Len(tasks) THEN "cycle" ELSE "ok"
  BY DEF Kahn!Finish, Kahn!Return, KahnInv
<1>2. /\ Clean /\ order \in Seq(Kahn!Listed)
      /\ \A i, j \in DOMAIN order : order[i] = order[j] => i = j
      /\ \A v \in Kahn!Listed \ TakenSoFar : Open(v) # {}
      /\ \A S \in SUBSET Kahn!Listed : Waits(S) => S \cap TakenSoFar = {}
  BY <1>1 DEF LoopInv
<1>3. IsFiniteSet(TakenSoFar) /\ Cardinality(TakenSoFar) = Len(order) /\ Len(order) \in Nat
  BY <1>2, ListedCount, LenProperties DEF TakenSoFar
<1>4. TakenSoFar \in SUBSET Kahn!Listed
  BY <1>2, LenProperties, ElementOfSeq DEF TakenSoFar
<1>5. IsFiniteSet(Kahn!Listed) /\ Cardinality(Kahn!Listed) = Len(tasks) /\ Len(tasks) \in Nat
  <2> DEFINE ids == [i \in 1..Len(tasks) |-> tasks[i].id]
  <2>1. /\ Len(tasks) \in Nat /\ DOMAIN tasks = 1..Len(tasks)
        /\ \A i \in 1..Len(tasks) : tasks[i].id \in Kahn!Listed
    BY <1>1, ListTypes DEF Kahn!Listed
  <2>2. ids \in Seq(Kahn!Listed) /\ Len(ids) = Len(tasks) /\ DOMAIN ids = 1..Len(tasks)
    BY <2>1, IsASeq
  <2>3. \A i, j \in DOMAIN ids : ids[i] = ids[j] => i = j
    BY <1>2, <2>1, <2>2 DEF Clean, Kahn!HasDuplicate
  <2>4. {ids[k] : k \in DOMAIN ids} = Kahn!Listed
    BY <2>1, <2>2 DEF Kahn!Listed
  <2> HIDE DEF ids
  <2>5. IsFiniteSet(Kahn!Listed) /\ Cardinality(Kahn!Listed) = Len(ids)
    BY <2>2, <2>3, <2>4, ListedCount
  <2> QED BY <2>1, <2>2, <2>5
<1>6. /\ Cardinality(TakenSoFar) <= Cardinality(Kahn!Listed)
      /\ Cardinality(Kahn!Listed) = Cardinality(TakenSoFar) => Kahn!Listed = TakenSoFar
  BY <1>4, <1>5, FS_Subset
<1>7. kResult' = "ok" <=> Kahn!Listed = TakenSoFar
  <2>1. Len(order) <= Len(tasks) /\ (Len(tasks) = Len(order) <=> Kahn!Listed = TakenSoFar)
    BY <1>3, <1>5, <1>6
  <2>2. Len(order) < Len(tasks) <=> Len(order) # Len(tasks)
    BY <1>3, <1>5, <2>1
  <2> QED BY <1>1, <2>1, <2>2
<1>8. Kahn!Listed = TakenSoFar => Acyclic
  BY <1>2 DEF Acyclic
<1>9. Kahn!Listed # TakenSoFar => ~Acyclic
  <2> SUFFICES ASSUME Kahn!Listed # TakenSoFar PROVE ~Acyclic
    OBVIOUS
  <2> DEFINE S == Kahn!Listed \ TakenSoFar
  <2>1. S # {} /\ S \in SUBSET Kahn!Listed
    BY <1>4
  <2>2. ASSUME NEW v \in S
        PROVE  \E k \in DOMAIN Kahn!DependsOn(v) : Kahn!DependsOn(v)[k] \in S
    <3>1. PICK k \in DOMAIN Kahn!DependsOn(v) : Kahn!DependsOn(v)[k] \notin TakenSoFar
      BY <1>2 DEF Open
    <3>2. PICK i \in DOMAIN tasks : tasks[i].id = v
      BY DEF Kahn!Listed
    <3>3. Kahn!DependsOn(v) = tasks[i].dependsOn
      BY <1>2, <3>2, TheTask DEF Clean
    <3>4. Kahn!DependsOn(v)[k] \in Kahn!Listed
      BY <1>2, <3>3 DEF Clean, Kahn!HasUnknown
    <3> QED BY <3>1, <3>4
  <2>3. Waits(S)
    BY <2>2 DEF Waits
  <2> QED BY <2>1, <2>3 DEF Acyclic
<1>10. kResult' = "ok" <=> Clean /\ Acyclic
  BY <1>2, <1>7, <1>8, <1>9
<1> QED BY <1>1, <1>10, SameTasks, SameOrder DEF KahnInv

LEMMA KahnStep == ASSUME KahnOf, KahnInv, [Kahn!Next]_(Kahn!vars) PROVE KahnInv'
<1>1. CASE UNCHANGED Kahn!vars
  <2>1. /\ tasks' = tasks /\ kPc' = kPc /\ order' = order /\ kResult' = kResult
        /\ inDegree' = inDegree /\ queue' = queue
    BY <1>1 DEF Kahn!vars
  <2>2. LoopInv => LoopInv'
    BY <2>1, SameTasks, SameOrder DEF LoopInv
  <2> QED BY <2>1, <2>2, SameTasks, SameOrder DEF KahnInv
<1> QED BY <1>1, RejectIsRight, CountIsRight, TakeIsRight, FinishIsRight
     DEF Kahn!Next, Kahn!Terminated

LEMMA KahnImply == ASSUME KahnOf, KahnInv PROVE Kahn!SortIsSound
<1>1. Kahn!Graph!ValidateAcyclic(Kahn!AsTaskList) <=> Clean /\ Acyclic
  BY ValidMeans DEF KahnInv
<1> QED BY <1>1 DEF KahnInv, Kahn!SortIsSound, Kahn!AcceptsValidGraphs

\* For every set of task lists, however long: a list is accepted exactly when it has
\* no duplicate, no unknown dependency and no tasks that wait for each other, and its
\* order is that in which the least task that could come next comes next.
THEOREM SortHolds == ASSUME KahnOf PROVE Kahn!Spec => []Kahn!SortIsSound
<1>1. KahnInv /\ [Kahn!Next]_(Kahn!vars) => KahnInv'
  BY KahnStep
<1> QED BY <1>1, KahnInit, KahnImply, PTL DEF Kahn!Spec

\* What comes out of the planner and of the sort of its plans is sound.
THEOREM PlansAndOrdersHold ==
  ASSUME PlansOf, KahnOf PROVE Plans!Spec /\ Kahn!Spec => []PlansAreSound
BY PlansHold, SortHolds, PTL DEF PlansAreSound
===============================================================================
