------------------------------- MODULE Sessions -------------------------------
(***************************************************************************)
(* session.Manager and session.ApprovalManager: the rows of sessions, and  *)
(* the permission grants, of which a manager has one set for all of its    *)
(* sessions.  EndSession reads the row, updates it through the store's     *)
(* writer, and resets the grants; IsApproved looks under a read lock and   *)
(* takes the write lock to consume a grant.                                *)
(***************************************************************************)
EXTENDS Naturals, FiniteSets

CONSTANTS Sessions, Caps,
          Wildcards,   \* capabilities that stand for all: "*" and "all"
          Enders,      \* calls of EndSession
          EnderOf,     \* Enders -> Sessions
          Checkers,    \* goroutines that call IsApproved, again and again
          MaxGrants,   \* bound: calls of Grant
          MaxChecks,   \* bound: calls of IsApproved
          MaxGiveUps   \* bound: updates given up by their context

Scopes == {"action", "session", "permanent"}
Nobody == "nobody"

EndersAssumption == EnderOf \in [Enders -> Sessions] /\ Nobody \notin Enders
CapsAssumption == Wildcards \subseteq Caps
BoundsAssumption == MaxGrants \in Nat /\ MaxChecks \in Nat /\ MaxGiveUps \in Nat

VARIABLES
  status,         \* sessions.status of each session: "none", "ACTIVE", "ENDED"
  summary,        \* sessions.summary: the call of EndSession it is from
  endedAt,        \* sessions.ended_at: the call that set it
  allowlist, sessionGrants, actionGrants,
  ending,         \* where each call of EndSession is
  checking,       \* where each checker is
  wanted,         \* the capability it asks for
  given,          \* history: action grants given, per capability
  spent,          \* history: checks answered by an action grant
  granted,        \* history: capabilities granted for a session, by session
  grants, checks, giveUps

vars == <<status, summary, endedAt, allowlist, sessionGrants, actionGrants, ending,
          checking, wanted, given, spent, granted, grants, checks, giveUps>>
rows == <<status, summary, endedAt>>
approvals == <<allowlist, sessionGrants, actionGrants, given, spent, granted, grants>>
checkers == <<checking, wanted, checks>>

Init == /\ status = [s \in Sessions |-> "none"]
        /\ summary = [s \in Sessions |-> Nobody]
        /\ endedAt = [s \in Sessions |-> Nobody]
        /\ allowlist = {} /\ sessionGrants = {}
        /\ actionGrants = [c \in Caps |-> 0]
        /\ ending = [e \in Enders |-> "idle"]
        /\ checking = [k \in Checkers |-> "idle"]
        /\ wanted \in [Checkers -> Caps]
        /\ given = [c \in Caps |-> 0] /\ spent = [c \in Caps |-> 0]
        /\ granted = [s \in Sessions |-> {}]
        /\ grants = 0 /\ checks = 0 /\ giveUps = 0

-----------------------------------------------------------------------------
(* Sessions                                                                *)

\* The rules it compiles and freezes in the row are left out.
StartSession(s) == /\ status[s] = "none"
                   /\ status' = [status EXCEPT ![s] = "ACTIVE"]
                   /\ UNCHANGED <<summary, endedAt, approvals, ending, checkers, giveUps>>

To(e, where) == ending' = [ending EXCEPT ![e] = where]

\* GetSession; a session that has ended already is left as it is.
ReadSession(e) == /\ ending[e] = "idle" /\ status[EnderOf[e]] # "none"
                  /\ To(e, IF status[EnderOf[e]] = "ENDED" THEN "ok" ELSE "update")
                  /\ UNCHANGED <<rows, approvals, checkers, giveUps>>

\* Store.UpdateSessionStatus: ended_at keeps its first value.
SetEnded(e) == LET s == EnderOf[e]
               IN /\ status' = [status EXCEPT ![s] = "ENDED"]
                  /\ summary' = [summary EXCEPT ![s] = e]
                  /\ endedAt' = [endedAt EXCEPT ![s] = IF @ = Nobody THEN e ELSE @]

Update(e) == /\ ending[e] = "update"
             /\ SetEnded(e) /\ To(e, "reset")
             /\ UNCHANGED <<approvals, checkers, giveUps>>

\* The context ends while the request is queued; the writer may execute it later.
GiveUp(e) == /\ ending[e] = "update" /\ giveUps < MaxGiveUps
             /\ giveUps' = giveUps + 1
             /\ \/ To(e, "error") \/ To(e, "error, queued")
             /\ UNCHANGED <<rows, approvals, checkers>>

LateUpdate(e) == /\ ending[e] = "error, queued"
                 /\ SetEnded(e) /\ To(e, "error")
                 /\ UNCHANGED <<approvals, checkers, giveUps>>

\* Both kinds of grants are cleared, whichever session they were given in.
ResetSession(e) == /\ ending[e] = "reset" /\ To(e, "ok")
                   /\ sessionGrants' = {}
                   /\ actionGrants' = [c \in Caps |-> 0]
                   /\ UNCHANGED <<rows, checkers, giveUps, allowlist, given, spent, granted,
                                  grants>>

-----------------------------------------------------------------------------
(* Approvals                                                               *)

\* A grant given while the user works in session s.
Grant(s, c, scope) ==
  /\ status[s] = "ACTIVE" /\ grants < MaxGrants
  /\ grants' = grants + 1
  /\ CASE scope = "permanent" -> /\ allowlist' = allowlist \cup {c}
                                 /\ UNCHANGED <<sessionGrants, actionGrants, given, granted>>
       [] scope = "session" -> /\ sessionGrants' = sessionGrants \cup {c}
                               /\ granted' = [granted EXCEPT ![s] = @ \cup {c}]
                               /\ UNCHANGED <<allowlist, actionGrants, given>>
       [] scope = "action" -> /\ actionGrants' = [actionGrants EXCEPT ![c] = @ + 1]
                              /\ given' = [given EXCEPT ![c] = @ + 1]
                              /\ UNCHANGED <<allowlist, sessionGrants, granted>>
  /\ UNCHANGED <<rows, ending, checkers, spent, giveUps>>

Standing(c) == allowlist \cap (Wildcards \cup {c}) # {} \/ c \in sessionGrants
Answer(k, what) == checking' = [checking EXCEPT ![k] = what]
Answered == {"idle", "yes", "no"}

\* Under the read lock.
Look(k, c) == /\ checking[k] \in Answered /\ checks < MaxChecks
              /\ checks' = checks + 1
              /\ wanted' = [wanted EXCEPT ![k] = c]
              /\ Answer(k, IF Standing(c) THEN "yes"
                           ELSE IF actionGrants[c] = 0 THEN "no" ELSE "consume")
              /\ UNCHANGED <<rows, approvals, ending, giveUps>>

\* Mutant: the grants are not looked at again after the lock was given up.
Consume_NoRecheck(k) == /\ checking[k] = "consume"
                        /\ LET c == wanted[k]
                           IN /\ actionGrants' = [actionGrants EXCEPT
                                                    ![c] = IF @ = 0 THEN 0 ELSE @ - 1]
                              /\ spent' = [spent EXCEPT ![c] = @ + 1]
                        /\ Answer(k, "yes")
                        /\ UNCHANGED <<rows, allowlist, sessionGrants, given, granted,
                                       grants, ending, wanted, checks, giveUps>>

\* Under the write lock, everything is looked at again.
Consume(k) ==
  /\ checking[k] = "consume"
  /\ LET c == wanted[k]
     IN IF ~Standing(c) /\ actionGrants[c] > 0
        THEN /\ actionGrants' = [actionGrants EXCEPT ![c] = @ - 1]
             /\ spent' = [spent EXCEPT ![c] = @ + 1]
             /\ Answer(k, "yes")
        ELSE /\ Answer(k, IF Standing(c) THEN "yes" ELSE "no")
             /\ UNCHANGED <<actionGrants, spent>>
  /\ UNCHANGED <<rows, allowlist, sessionGrants, given, granted, grants, ending, wanted,
                 checks, giveUps>>

EndSession(e) == \/ ReadSession(e) \/ Update(e) \/ GiveUp(e) \/ LateUpdate(e)
                 \/ ResetSession(e)

Next == \/ \E s \in Sessions : StartSession(s)
        \/ \E e \in Enders : EndSession(e)
        \/ \E s \in Sessions, c \in Caps, scope \in Scopes : Grant(s, c, scope)
        \/ \E k \in Checkers : Consume(k) \/ \E c \in Caps : Look(k, c)

Spec == Init /\ [][Next]_vars

-----------------------------------------------------------------------------
(* Properties                                                              *)

TypeOK == /\ status \in [Sessions -> {"none", "ACTIVE", "ENDED"}]
          /\ summary \in [Sessions -> Enders \cup {Nobody}]
          /\ endedAt \in [Sessions -> Enders \cup {Nobody}]
          /\ allowlist \in SUBSET Caps /\ sessionGrants \in SUBSET Caps
          /\ actionGrants \in [Caps -> 0..MaxGrants]
          /\ ending \in [Enders -> {"idle", "update", "reset", "ok", "error",
                                    "error, queued"}]
          /\ checking \in [Checkers -> Answered \cup {"consume"}]

\* A grant for one action answers one check: however many goroutines ask at once,
\* no more checks are answered by such grants than were given.
SpentOnce == \A c \in Caps : spent[c] + actionGrants[c] <= given[c]

\* A capability granted for a session stays approved until that session ends.
SessionGrantHolds ==
  \A s \in Sessions : status[s] = "ACTIVE" => granted[s] \subseteq sessionGrants

\* Once the calls that end a session have returned, and one without error, nothing
\* that was granted for the session is approved any more.
EndedHasNoGrants ==
  \A s \in Sessions :
    LET Calls == {e \in Enders : EnderOf[e] = s}
    IN (/\ \A e \in Calls : ending[e] \in {"ok", "error"}
        /\ \E e \in Calls : ending[e] = "ok")
         => granted[s] \cap sessionGrants = {}

\* A manager has one set of grants for all of its sessions: those of a session last
\* as long as it does only if there is no other, and they are gone after it only
\* if no update of its row was given up, which may be carried out without them.
GrantsAreKept ==
  /\ TypeOK /\ SpentOnce
  /\ (\A s, u \in Sessions : s = u) =>
       SessionGrantHolds /\ (giveUps = 0 => EndedHasNoGrants)

\* The time a session ended is set once.
EndedAtIsKept ==
  [][\A s \in Sessions : endedAt[s] # Nobody => endedAt'[s] = endedAt[s]]_vars

\* Ending a session that has ended changes nothing in its row.
EndIsIdempotent ==
  [][\A s \in Sessions : status[s] = "ENDED" => summary'[s] = summary[s]]_vars
===============================================================================
