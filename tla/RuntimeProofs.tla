---------------------------- MODULE RuntimeProofs ----------------------------
(***************************************************************************)
(* What holds of the parts below the scheduler, each an instance of its    *)
(* module with constants and variables of its own in MCRuntime.            *)
(***************************************************************************)
EXTENDS MCRuntime, FiniteSetTheorems, SequenceTheorems, TLAPS

-----------------------------------------------------------------------------
(* The file tools                                                          *)

FilesOf == /\ Files!FilesAssumption /\ Files!PiecesAssumption /\ Files!BoundsAssumption

\* What a call may have come to, and what its reads gave.
FileTypes ==
  /\ \A w \in Writes : fAt[w] \in Files!InWrite \cup {"idle", "ok", "error", "dead"}
  /\ \A r \in Reads : fAt[r] \in {"idle", "read", "ok", "error", "dead"}
  /\ got \in [Reads -> Seq(Files!Files \X BOOLEAN)]

\* A call has written its file before it renames it, the path has led only to
\* what was renamed, and the temporary name is there from CreateTemp on.
WriteInv ==
  /\ Old \in whole /\ shown \subseteq whole /\ target \in shown \cup {Files!None}
  /\ \A w \in Writes :
       /\ fAt[w] \in {"sync", "close", "rename"} => w \in whole
       /\ w \in shown <=> fAt[w] = "ok"
       /\ fAt[w] \in {"idle", "create"} => w \notin temps
       /\ w \in temps => fAt[w] \in Files!InWrite \/ w \in killed

\* All that a reader got is from the one file it has opened.
GotWhole(r) ==
  /\ fAt[r] = "idle" => got[r] = <<>>
  /\ fAt[r] \in {"read", "ok"} =>
       /\ opened[r] \in shown
       /\ \A i \in DOMAIN got[r] : got[r][i] = <<opened[r], TRUE>>
  /\ fAt[r] = "read" => Len(got[r]) < Pieces
  /\ fAt[r] = "ok" => Len(got[r]) = Pieces

ReadInv == \A r \in Reads : GotWhole(r)

FilesInv == Files!TypeOK /\ FileTypes /\ WriteInv /\ ReadInv

LEMMA FilesInit == ASSUME FilesOf, Files!Init PROVE FilesInv
<1> USE DEF FilesOf, Files!FilesAssumption, Files!PiecesAssumption,
            Files!BoundsAssumption, Files!Init, Files!None, Files!InWrite, Files!Files
<1>1. Files!TypeOK
  BY DEF Files!TypeOK
<1>2. FileTypes
  BY DEF FileTypes
<1>3. WriteInv
  BY DEF WriteInv
<1>4. ReadInv
  BY DEF ReadInv, GotWhole
<1> QED BY <1>1, <1>2, <1>3, <1>4 DEF FilesInv

LEMMA WriteKeeps ==
  ASSUME FilesOf, FilesInv, NEW w \in Writes, Files!WriteFile(w)
  PROVE  FilesInv'
<1> USE DEF FilesOf, Files!FilesAssumption, Files!None, Files!InWrite, Files!Files,
            Files!Goto, Files!Failure, Files!NoFailure, Files!readers,
            Files!Call, Files!CreateTemp, Files!WriteString, Files!Flush, Files!Rename,
            Files!Remove, Files!WriteFile
<1>1. Files!TypeOK'
  BY DEF FilesInv, Files!TypeOK, Files!BoundsAssumption
<1>2. FileTypes'
  BY DEF FilesInv, FileTypes, Files!TypeOK
<1>3. WriteInv'
  BY DEF FilesInv, FileTypes, Files!TypeOK, WriteInv
<1>4. ReadInv'
  BY DEF FilesInv, FileTypes, Files!TypeOK, ReadInv, GotWhole
<1> QED BY <1>1, <1>2, <1>3, <1>4 DEF FilesInv

LEMMA OpenKeeps ==
  ASSUME FilesOf, FilesInv, NEW r \in Reads, Files!Open(r), Files!ReadFile(r)
  PROVE  FilesInv'
<1> USE DEF FilesOf, Files!FilesAssumption, Files!PiecesAssumption
<1>1. UNCHANGED <<target, temps, whole, shown, killed, fCrashes, got>> /\ got[r] = <<>>
  BY DEF Files!ReadFile, Files!Open, FilesInv, ReadInv, GotWhole
<1>2. \/ /\ target # Files!None /\ fAt' = [fAt EXCEPT ![r] = "read"]
         /\ opened' = [opened EXCEPT ![r] = target]
      \/ fAt' = [fAt EXCEPT ![r] = "error"] /\ UNCHANGED opened
  BY DEF Files!Open, Files!Goto
<1>3. fFailures' \in 0..MaxFailures
  <2>1. fFailures' = fFailures \/ (fFailures < MaxFailures /\ fFailures' = fFailures + 1)
    BY DEF Files!Open, Files!NoFailure, Files!Failure
  <2> QED BY <2>1 DEF FilesInv, Files!TypeOK, Files!BoundsAssumption
<1>4. Files!TypeOK'
  BY <1>1, <1>2, <1>3 DEF FilesInv, Files!TypeOK
<1>5. FileTypes'
  BY <1>1, <1>2 DEF FilesInv, FileTypes, Files!TypeOK
<1>6. WriteInv'
  BY <1>1, <1>2 DEF FilesInv, FileTypes, Files!TypeOK, WriteInv
<1>7. ReadInv'
  <2> SUFFICES ASSUME NEW q \in Reads PROVE GotWhole(q)'
    BY DEF ReadInv
  <2>1. GotWhole(q) /\ DOMAIN fAt = Writes \cup Reads /\ DOMAIN opened = Reads
    BY DEF FilesInv, ReadInv, Files!TypeOK
  <2>2. CASE q # r
    BY <1>1, <1>2, <2>1, <2>2 DEF GotWhole
  <2>3. CASE q = r
    <3>1. target # Files!None => target \in shown
      BY DEF FilesInv, WriteInv
    <3>2. Len(got[r]) = 0 /\ DOMAIN got[r] = {}
      BY <1>1
    <3>3. \/ fAt'[q] = "read" /\ opened'[q] \in shown
          \/ fAt'[q] = "error"
      BY <1>2, <2>1, <2>3, <3>1
    <3>4. Len(got'[q]) = 0 /\ DOMAIN got'[q] = {} /\ shown' = shown
      BY <1>1, <2>3, <3>2
    <3> HIDE DEF Files!FilesAssumption
    <3>5. 0 < Pieces
      BY DEF Files!PiecesAssumption
    <3> QED
      BY <3>3, <3>4, <3>5 DEF GotWhole
  <2> QED BY <2>2, <2>3
<1> QED BY <1>4, <1>5, <1>6, <1>7 DEF FilesInv

\* What Read adds is whole, being of a file that the path has led to.
LEMMA PieceKeeps ==
  ASSUME FilesOf, FilesInv, NEW r \in Reads, Files!Read(r), Files!ReadFile(r)
  PROVE  FilesInv'
<1> USE DEF FilesOf, Files!FilesAssumption, Files!PiecesAssumption
<1>0. UNCHANGED <<target, temps, whole, shown, killed, fCrashes, opened>>
  BY DEF Files!ReadFile, Files!Read
<1>1. /\ fAt[r] = "read" /\ opened[r] \in shown /\ opened[r] \in whole
      /\ got[r] \in Seq(Files!Files \X BOOLEAN) /\ Len(got[r]) < Pieces
      /\ opened[r] \in Files!Files
  BY DEF Files!Read, FilesInv, ReadInv, GotWhole, WriteInv, FileTypes, Files!TypeOK
<1>2. \E s \in {"read", "ok", "error"} : fAt' = [fAt EXCEPT ![r] = s]
  BY DEF Files!Read, Files!Goto
<1>3. fFailures' \in 0..MaxFailures
  BY DEF Files!Read, Files!Failure, Files!NoFailure, FilesInv, Files!TypeOK,
         Files!BoundsAssumption
<1>4. \A q \in Reads : q # r => got'[q] = got[q] /\ fAt'[q] = fAt[q]
  BY <1>2 DEF Files!Read, FilesInv, FileTypes, Files!TypeOK
<1>5. CASE UNCHANGED got /\ fAt' = [fAt EXCEPT ![r] = "error"]
  <2>1. Files!TypeOK' /\ FileTypes'
    BY <1>0, <1>3, <1>5 DEF FilesInv, Files!TypeOK, FileTypes, Files!InWrite
  <2>2. WriteInv'
    BY <1>0, <1>5 DEF FilesInv, Files!TypeOK, WriteInv
  <2>3. ReadInv'
    BY <1>0, <1>5 DEF FilesInv, Files!TypeOK, ReadInv, GotWhole
  <2> QED BY <2>1, <2>2, <2>3 DEF FilesInv
<1>6. CASE /\ got' = [got EXCEPT ![r] = Append(got[r], <<opened[r], opened[r] \in whole>>)]
           /\ fAt' = [fAt EXCEPT ![r] = IF Len(got'[r]) = Pieces THEN "ok" ELSE "read"]
  <2> DEFINE p == <<opened[r], TRUE>>
             S == Files!Files \X BOOLEAN
  <2>1. got' = [got EXCEPT ![r] = Append(got[r], p)]
    BY <1>1, <1>6
  <2>2. p \in S /\ got[r] \in Seq(S)
    BY <1>1
  <2> HIDE DEF p, S
  <2>3. /\ Append(got[r], p) \in Seq(S)
        /\ Len(Append(got[r], p)) = Len(got[r]) + 1
        /\ \A i \in 1..Len(got[r]) : Append(got[r], p)[i] = got[r][i]
        /\ Append(got[r], p)[Len(got[r]) + 1] = p
    BY <2>2, AppendProperties
  <2>4. got'[r] = Append(got[r], p) /\ got' \in [Reads -> Seq(S)]
    BY <2>1, <2>3 DEF FilesInv, FileTypes, S
  <2>l. Len(got[r]) \in Nat /\ DOMAIN got[r] = 1..Len(got[r])
        /\ DOMAIN Append(got[r], p) = 1..(Len(got[r]) + 1)
    BY <2>2, <2>3, LenProperties
  <2>5. fAt'[r] = IF Len(got'[r]) = Pieces THEN "ok" ELSE "read"
    BY <1>6 DEF FilesInv, Files!TypeOK
  <2>6. Len(got'[r]) <= Pieces
    BY <1>1, <2>3, <2>4, <2>l
  <2>7. Files!TypeOK'
    BY <1>0, <1>2, <1>3, <1>4, <2>6 DEF FilesInv, Files!TypeOK
  <2>8. FileTypes'
    BY <1>2, <2>4 DEF FilesInv, Files!TypeOK, FileTypes, S
  <2>9. WriteInv'
    BY <1>0, <1>2 DEF FilesInv, Files!TypeOK, WriteInv
  <2>10. \A i \in DOMAIN got'[r] : got'[r][i] = <<opened[r], TRUE>>
    <3> SUFFICES ASSUME NEW i \in 1..(Len(got[r]) + 1)
                 PROVE  Append(got[r], p)[i] = p
      BY <2>4, <2>l DEF p
    <3>1. CASE i = Len(got[r]) + 1
      BY <3>1, <2>3
    <3>2. CASE i # Len(got[r]) + 1
      <4>1. i \in 1..Len(got[r])
        BY <3>2, <2>l
      <4>2. got[r][i] = p
        BY <4>1, <1>1, <2>l DEF p, FilesInv, ReadInv, GotWhole
      <4> QED BY <4>1, <4>2, <2>3
    <3> QED BY <3>1, <3>2
  <2>11. ReadInv'
    <3> SUFFICES ASSUME NEW q \in Reads PROVE GotWhole(q)'
      BY DEF ReadInv
    <3>1. CASE q # r
      BY <3>1, <1>0, <1>4 DEF FilesInv, ReadInv, GotWhole
    <3>2. CASE q = r
      <4>1. /\ got'[q] = Append(got[r], p) /\ opened'[q] = opened[r] /\ shown' = shown
            /\ fAt'[q] = IF Len(got'[q]) = Pieces THEN "ok" ELSE "read"
        BY <3>2, <1>0, <2>4, <2>5
      <4>2. Len(got'[q]) \in Nat /\ Len(got'[q]) <= Pieces
        BY <3>2, <2>3, <2>4, <2>6, <2>l
      <4>3. \A i \in DOMAIN got'[q] : got'[q][i] = <<opened'[q], TRUE>>
        BY <3>2, <4>1, <2>10
      <4>4. opened'[q] \in shown'
        BY <4>1, <1>1
      <4>5. \/ fAt'[q] = "ok" /\ Len(got'[q]) = Pieces
            \/ fAt'[q] = "read" /\ Len(got'[q]) < Pieces
        <5>1. CASE Len(got'[q]) = Pieces
          BY <5>1, <4>1
        <5>2. CASE Len(got'[q]) # Pieces
          BY <5>2, <4>1, <4>2 DEF Files!PiecesAssumption
        <5> QED BY <5>1, <5>2
      <4> QED BY <4>3, <4>4, <4>5 DEF GotWhole
    <3> QED BY <3>1, <3>2
  <2> QED BY <2>7, <2>8, <2>9, <2>11 DEF FilesInv
<1> QED
  BY <1>5, <1>6 DEF Files!Read, Files!Goto

LEMMA ReadKeeps ==
  ASSUME FilesOf, FilesInv, NEW r \in Reads, Files!ReadFile(r)
  PROVE  FilesInv'
BY OpenKeeps, PieceKeeps DEF Files!ReadFile

LEMMA CrashKeeps == ASSUME FilesOf, FilesInv, Files!Crash PROVE FilesInv'
<1> USE DEF FilesOf, Files!FilesAssumption, Files!None, Files!InWrite, Files!Files,
            Files!Crash, Files!readers
<1>1. Files!TypeOK'
  BY DEF FilesInv, Files!TypeOK, Files!BoundsAssumption
<1>2. FileTypes'
  BY DEF FilesInv, FileTypes, Files!TypeOK
<1>3. WriteInv'
  BY DEF FilesInv, FileTypes, Files!TypeOK, WriteInv
<1>4. ReadInv'
  BY DEF FilesInv, FileTypes, Files!TypeOK, ReadInv, GotWhole
<1> QED BY <1>1, <1>2, <1>3, <1>4 DEF FilesInv

LEMMA FilesStep ==
  ASSUME FilesOf, FilesInv, [Files!Next]_(Files!vars) PROVE FilesInv'
<1>1. CASE UNCHANGED Files!vars
  BY <1>1 DEF Files!vars, FilesInv, Files!TypeOK, FileTypes, WriteInv, ReadInv, GotWhole
<1> QED
  BY <1>1, WriteKeeps, ReadKeeps, CrashKeeps DEF Files!Next

LEMMA FilesImplies == ASSUME FilesOf, FilesInv PROVE Files!FilesAreWhole
<1>1. Files!ReadsAreWhole
  <2> SUFFICES ASSUME NEW r \in Reads, fAt[r] = "ok"
               PROVE  got[r] = [i \in 1..Pieces |-> <<opened[r], TRUE>>]
    BY DEF Files!ReadsAreWhole, FilesInv, ReadInv, GotWhole
  <2>1. got[r] \in Seq(Files!Files \X BOOLEAN) /\ Len(got[r]) = Pieces
    BY DEF FilesInv, FileTypes, ReadInv, GotWhole
  <2> QED
    BY <2>1, LenProperties DEF FilesInv, ReadInv, GotWhole
<1>2. Files!ResultIsTrue /\ Files!NoLitter
  BY DEF Files!ResultIsTrue, Files!NoLitter, FilesInv, WriteInv, Files!TypeOK
<1> QED
  BY <1>1, <1>2 DEF Files!FilesAreWhole, FilesInv

\* A reader that returns no error returns the whole content of one call, a call
\* is reported as what it did, and a temporary file stays only after a kill or a
\* failed Remove: for any number of calls, whatever fails or dies between any two
\* system calls (tools.go, WriteFile and ReadFile).
THEOREM FilesHold == ASSUME FilesOf PROVE Files!Spec => []FilesAreWhole
BY FilesInit, FilesStep, FilesImplies, PTL DEF Files!Spec, FilesAreWhole
-----------------------------------------------------------------------------
(* The silence watchdog                                                    *)

DogOf == Dog!ProcessesAssumption /\ Dog!SilenceAssumption

\* The timer never runs ahead of the silence: it is behind it, or output is on its
\* way to set it back.
TimerInv == /\ ~pipe /\ activity = 0 => timer <= quiet
            /\ timer <= longest /\ quiet <= longest

\* Main, which stays in its group, is killed once, by a supervisor with a reason that
\* lasts; nothing runs when the caller has stopped waiting.
KillInv == /\ Main \in group
           /\ Main \in alive => status = "none"
           /\ status = "killed" => silenceKilled \/ dEnded
           /\ caller # "wait" => alive = {}
           /\ dResult # "none" => caller = "returned"

DogInv == /\ Dog!TypeOK /\ pipe \in BOOLEAN
          /\ TimerInv /\ KillInv
          /\ silenceKilled => longest = Silence
          /\ Dog!ReportIsTrue

LEMMA DogInit == ASSUME DogOf, Dog!Init PROVE DogInv
<1>1. Dog!TypeOK /\ TimerInv
  BY DEF DogOf, Dog!SilenceAssumption, Dog!Init, Dog!TypeOK, TimerInv
<1>2. KillInv /\ Dog!ReportIsTrue
  BY DEF Dog!Init, KillInv, Dog!ReportIsTrue
<1> QED BY <1>1, <1>2 DEF Dog!Init, DogInv

LEMMA WorldKeeps == ASSUME DogOf, DogInv, Dog!World PROVE DogInv'
<1> USE DEF DogOf, Dog!SilenceAssumption, DogInv, Dog!TypeOK, TimerInv, KillInv,
            Dog!ReportIsTrue, Dog!processes, Dog!waiting, Dog!clocks
<1>1. CASE Dog!Emit
  BY <1>1 DEF Dog!Emit
<1>2. CASE Dog!EndCtx
  BY <1>2 DEF Dog!EndCtx
<1>3. ASSUME NEW p \in alive, Dog!Exit(p) PROVE DogInv'
  BY <1>3 DEF Dog!Exit
<1>4. ASSUME NEW p \in alive, Dog!Leave(p) PROVE DogInv'
  BY <1>4 DEF Dog!Leave, Dog!ProcessesAssumption
<1> QED
  BY <1>1, <1>2, <1>3, <1>4 DEF Dog!World

LEMMA ClockKeeps == ASSUME DogOf, DogInv, Dog!Tick \/ Dog!Write PROVE DogInv'
<1> USE DEF DogOf, Dog!SilenceAssumption, DogInv, Dog!TypeOK, TimerInv, KillInv,
            Dog!ReportIsTrue, Dog!processes, Dog!waiting, Dog!clocks
<1>1. CASE Dog!Tick
  BY <1>1 DEF Dog!Tick
<1>2. CASE Dog!Write
  <2>1. activity' \in 0..ActivityCap /\ activity' # 0
    BY <1>2 DEF Dog!Write
  <2>2. Dog!TypeOK' /\ TimerInv'
    BY <1>2, <2>1 DEF Dog!Write
  <2>3. KillInv' /\ Dog!ReportIsTrue'
    BY <1>2 DEF Dog!Write
  <2> QED BY <1>2, <2>2, <2>3 DEF Dog!Write
<1> QED BY <1>1, <1>2

LEMMA SupervisorKeeps == ASSUME DogOf, DogInv, Dog!Supervisor PROVE DogInv'
<1> USE DEF DogOf, Dog!SilenceAssumption, DogInv, Dog!TypeOK, TimerInv, KillInv,
            Dog!ReportIsTrue, Dog!processes, Dog!waiting, Dog!clocks
<1>1. CASE Dog!OnDone
  BY <1>1 DEF Dog!OnDone
<1>2. CASE Dog!OnContext
  <2>1. Main \in alive => dResult = "none" /\ caller = "wait"
    OBVIOUS
  <2>2. status' # status => Main \in alive /\ status' = "killed"
    BY <1>2 DEF Dog!OnContext, Dog!KillProcessGroup
  <2>3. Dog!TypeOK' /\ TimerInv'
    BY <1>2 DEF Dog!OnContext, Dog!KillProcessGroup
  <2>4. KillInv' /\ Dog!ReportIsTrue'
    BY <1>2, <2>1, <2>2 DEF Dog!OnContext, Dog!KillProcessGroup
  <2> QED BY <1>2, <2>3, <2>4 DEF Dog!OnContext
<1>3. CASE Dog!OnActivity
  BY <1>3 DEF Dog!OnActivity
<1>4. CASE Dog!OnTimer
  <2>1. Main \in alive => dResult = "none" /\ caller = "wait"
    OBVIOUS
  <2>2. status' # status => Main \in alive /\ status' = "killed"
    BY <1>4 DEF Dog!OnTimer, Dog!KillProcessGroup
  <2>3. Dog!TypeOK' /\ TimerInv'
    BY <1>4 DEF Dog!OnTimer, Dog!KillProcessGroup
  <2>4. KillInv' /\ Dog!ReportIsTrue'
    BY <1>4, <2>1, <2>2 DEF Dog!OnTimer, Dog!KillProcessGroup
  <2> QED BY <1>4, <2>3, <2>4 DEF Dog!OnTimer
<1> QED
  BY <1>1, <1>2, <1>3, <1>4 DEF Dog!Supervisor

LEMMA CallerKeeps == ASSUME DogOf, DogInv, Dog!Caller PROVE DogInv'
<1> USE DEF DogOf, Dog!SilenceAssumption, DogInv, Dog!TypeOK, TimerInv, KillInv,
            Dog!ReportIsTrue, Dog!processes, Dog!waiting, Dog!clocks
<1>1. CASE Dog!Wait
  BY <1>1 DEF Dog!Wait
<1>2. CASE Dog!Close
  BY <1>2 DEF Dog!Close
<1>3. CASE Dog!Decide
  <2>1. dResult' \in {"none", "silence", "cancelled", "error", "ok"}
    BY <1>3 DEF Dog!Decide, Dog!Verdict
  <2>2. Dog!ReportIsTrue'
    BY <1>3 DEF Dog!Decide, Dog!Verdict
  <2>3. Dog!TypeOK' /\ TimerInv' /\ KillInv'
    BY <1>3, <2>1 DEF Dog!Decide
  <2> QED BY <1>3, <2>2, <2>3 DEF Dog!Decide
<1> QED
  BY <1>1, <1>2, <1>3 DEF Dog!Caller

LEMMA DogStep == ASSUME DogOf, DogInv, [Dog!Next]_(Dog!vars) PROVE DogInv'
<1>1. CASE UNCHANGED Dog!vars
  BY <1>1 DEF Dog!vars, DogInv, Dog!TypeOK, TimerInv, KillInv, Dog!ReportIsTrue
<1> QED
  BY <1>1, WorldKeeps, ClockKeeps, SupervisorKeeps, CallerKeeps DEF Dog!Next

\* A command is killed for its silence only after the whole of SilenceDuration
\* without output, one that was killed is never reported as having failed or ended
\* by itself, and "ok" is its own: for any processes, any silence and any capacity
\* of the channel, whichever of the ready branches the select takes (executor.go,
\* runIsolatedCommand).
THEOREM KillsHold == ASSUME DogOf PROVE Dog!Spec => []SilenceIsReal
<1>1. DogInv => Dog!SilenceIsReal
  BY DEF DogInv, Dog!SilenceIsReal, Dog!KilledForSilence
<1> QED
  BY <1>1, DogInit, DogStep, PTL DEF Dog!Spec, SilenceIsReal
-----------------------------------------------------------------------------
(* The worker's conversation                                               *)

WorkOf == Work!BudgetAssumption /\ Work!CallsAssumption

SomeMessages == [role : {"system", "user", "assistant", "tool"}, calls : 0..MaxCalls]

TalkTypes == /\ messages \in Seq(SomeMessages) /\ requests \in Nat
             /\ wAnswer \in [kind : Work!Texts \cup {"calls"}, calls : 0..MaxCalls]

\* Every turn and every reflection has paid for one request; the one for the answer
\* is the last.  The model is offered tools only while it has turns left.
Paid(where, asked, turns, attempts) ==
  /\ asked <= turns + attempts + 1
  /\ where \in {"loop", "ask", "tools", "final", "recover"} => asked = turns + attempts
  /\ where \in {"answered", "final answered", "recovered"} => asked = turns + attempts + 1
  /\ where \in {"loop", "ask", "answered"} => turns < MaxToolTurns
CostInv == /\ Paid(wAt, requests, toolTurnCount, reflectionAttempts)
           /\ wResult # "over budget"

\* The tool messages of the last message are still coming while tools run, and no
\* other message of the model waits for any.
Open == IF wAt = "tools" THEN pending ELSE 0
Followed(i) ==
  LET n == messages[i].calls
      l == Len(messages)
  IN /\ i + n = l + Open \/ i + n < l
     /\ \A j \in 1..n : i + j <= l => messages[i + j].role = "tool"
     /\ i + n < l => messages[i + n + 1].role # "tool"
TalkInv ==
  \A i \in 1..Len(messages) : messages[i].role = "assistant" => Followed(i)

WorkInv == Work!TypeOK /\ TalkTypes /\ CostInv /\ TalkInv

LEMMA Said ==
  ASSUME NEW S, NEW s \in Seq(S), NEW a \in S, NEW b \in S
  PROVE  /\ s \o <<a>> \in Seq(S) /\ Len(s \o <<a>>) = Len(s) + 1
         /\ \A i \in 1..Len(s) : (s \o <<a>>)[i] = s[i]
         /\ (s \o <<a>>)[Len(s) + 1] = a
         /\ s \o <<a, b>> \in Seq(S) /\ Len(s \o <<a, b>>) = Len(s) + 2
         /\ \A i \in 1..Len(s) : (s \o <<a, b>>)[i] = s[i]
         /\ (s \o <<a, b>>)[Len(s) + 1] = a /\ (s \o <<a, b>>)[Len(s) + 2] = b
<1>1. <<a>> \in Seq(S) /\ Len(<<a>>) = 1 /\ <<a>>[1] = a
  OBVIOUS
<1>2. <<a, b>> \in Seq(S) /\ Len(<<a, b>>) = 2 /\ <<a, b>>[1] = a /\ <<a, b>>[2] = b
  OBVIOUS
<1>3. Len(s) \in Nat
  BY LenProperties
<1>4. /\ s \o <<a>> \in Seq(S) /\ Len(s \o <<a>>) = Len(s) + 1
      /\ \A i \in 1..(Len(s) + 1) : (s \o <<a>>)[i] = IF i <= Len(s) THEN s[i]
                                                      ELSE <<a>>[i - Len(s)]
  BY <1>1, ConcatProperties
<1>5. /\ s \o <<a, b>> \in Seq(S) /\ Len(s \o <<a, b>>) = Len(s) + 2
      /\ \A i \in 1..(Len(s) + 2) : (s \o <<a, b>>)[i] = IF i <= Len(s) THEN s[i]
                                                         ELSE <<a, b>>[i - Len(s)]
  BY <1>2, ConcatProperties
<1>6. \A i \in 1..Len(s) : (s \o <<a>>)[i] = s[i] /\ (s \o <<a, b>>)[i] = s[i]
  BY <1>3, <1>4, <1>5
<1>7. (s \o <<a>>)[Len(s) + 1] = a
  BY <1>1, <1>3, <1>4
<1>8. (s \o <<a, b>>)[Len(s) + 1] = a /\ (s \o <<a, b>>)[Len(s) + 2] = b
  BY <1>2, <1>3, <1>5
<1> QED BY <1>4, <1>5, <1>6, <1>7, <1>8

LEMMA MessagesTyped ==
  ASSUME NEW s \in Seq(SomeMessages) PROVE \A i \in DOMAIN s : s[i] \in SomeMessages
BY LenProperties, ElementOfSeq

LEMMA WorkInit == ASSUME WorkOf, Work!Init PROVE WorkInv
<1> USE DEF WorkOf, Work!BudgetAssumption, Work!CallsAssumption, Work!Init
<1>1. /\ messages \in Seq(SomeMessages) /\ Len(messages) = 2
      /\ messages[1] = [role |-> "system", calls |-> 0]
      /\ messages[2] = [role |-> "user", calls |-> 0]
  BY DEF SomeMessages, Work!Message
<1>2. Work!TypeOK
  <2>1. \A i \in DOMAIN messages : messages[i] \in SomeMessages
    BY <1>1, MessagesTyped
  <2>2. /\ toolTurnCount \in 0..MaxToolTurns
        /\ reflectionAttempts \in 0..MaxReflectionAttempts
        /\ pending \in 0..MaxCalls
    OBVIOUS
  <2> QED BY <2>1, <2>2 DEF Work!TypeOK, SomeMessages
<1>3. TalkTypes
  BY <1>1 DEF TalkTypes, Work!Text, Work!Texts
<1>4. CostInv
  BY DEF CostInv, Paid
<1>5. TalkInv
  BY <1>1 DEF TalkInv
<1> QED BY <1>2, <1>3, <1>4, <1>5 DEF WorkInv

\* Steps that say nothing, with no tool message to come.
LEMMA QuietKeeps ==
  ASSUME WorkInv, UNCHANGED messages, Open = 0, Open' = 0
  PROVE  TalkInv'
BY DEF WorkInv, TalkInv, Followed

\* A message of the model is said when those before are followed, and its own tool
\* messages are to come.
LEMMA AssistantKeeps ==
  ASSUME WorkOf, WorkInv, Open = 0, NEW m \in SomeMessages, m.role # "tool",
         messages' = Append(messages, m), 
         m.role = "assistant" => Open' = m.calls, m.role # "assistant" => Open' = 0
  PROVE  TalkInv'
<1> DEFINE l == Len(messages)
<1>1. /\ messages \in Seq(SomeMessages) /\ l \in Nat /\ Len(messages') = l + 1
      /\ \A i \in 1..l : messages'[i] = messages[i] /\ messages[i] \in SomeMessages
      /\ messages'[l + 1] = m
  BY AppendProperties, LenProperties, MessagesTyped DEF WorkInv, TalkTypes
<1>2. MaxCalls \in Nat /\ m.calls \in Nat
      /\ \A i \in 1..l : messages[i].calls \in Nat
  BY <1>1 DEF SomeMessages, WorkOf, Work!CallsAssumption
<1> SUFFICES ASSUME NEW i \in 1..(l + 1), messages'[i].role = "assistant"
             PROVE  Followed(i)'
  BY <1>1 DEF TalkInv
<1>3. CASE i = l + 1
  BY <1>1, <1>2, <1>3 DEF Followed
<1>4. CASE i # l + 1
  <2>1. i \in 1..l /\ messages'[i] = messages[i] /\ Followed(i) /\ messages[i].calls \in Nat
    BY <1>1, <1>2, <1>4 DEF WorkInv, TalkInv
  <2> DEFINE n == messages[i].calls
  <2>2. i + n <= l
    BY <1>1, <2>1 DEF Followed
  <2>3. \A j \in 1..n : messages'[i + j].role = "tool"
    BY <1>1, <2>1, <2>2 DEF Followed
  <2>4. i + n < l + 1 /\ messages'[i + n + 1].role # "tool"
    <3>1. CASE i + n = l
      BY <1>1, <3>1, <2>2
    <3>2. CASE i + n # l
      BY <1>1, <3>2, <2>1, <2>2 DEF Followed
    <3> QED BY <3>1, <3>2, <2>1, <2>2, <1>1
  <2> QED
    BY <1>1, <2>1, <2>3, <2>4 DEF Followed
<1> QED BY <1>3, <1>4

\* A tool message is the next of those that the last message waits for.
LEMMA ToolKeeps ==
  ASSUME WorkOf, WorkInv, Work!RunTool PROVE TalkInv'
<1> DEFINE l == Len(messages)
           m == Work!Message("tool", 0)
<1>0. m \in SomeMessages /\ m.role = "tool"
  BY DEF SomeMessages, WorkOf, Work!CallsAssumption, Work!Message
<1> HIDE DEF m
<1>1. /\ messages \in Seq(SomeMessages) /\ l \in Nat /\ Len(messages') = l + 1
      /\ \A i \in 1..l : messages'[i] = messages[i] /\ messages[i] \in SomeMessages
      /\ messages'[l + 1] = m
  BY <1>0, Said, LenProperties, MessagesTyped DEF WorkInv, TalkTypes, Work!RunTool, Work!Say, m
<1>2. MaxCalls \in Nat /\ \A i \in 1..l : messages[i].calls \in Nat
  BY <1>1 DEF SomeMessages, WorkOf, Work!CallsAssumption
<1>3. pending \in Nat /\ pending > 0 /\ Open = pending /\ Open' = pending - 1
  <2>1. pending \in 0..MaxCalls
    BY DEF WorkInv, Work!TypeOK
  <2>2. wAt = "tools" /\ wAt' = "tools" /\ pending > 0 /\ pending' = pending - 1
    BY DEF Work!RunTool
  <2> QED BY <1>2, <2>1, <2>2 DEF Open
<1> SUFFICES ASSUME NEW i \in 1..(l + 1), messages'[i].role = "assistant"
             PROVE  Followed(i)'
  BY <1>1 DEF TalkInv
<1>4. i \in 1..l /\ messages'[i] = messages[i]
  BY <1>0, <1>1
<1>5. Followed(i) /\ messages[i].calls \in Nat
  BY <1>2, <1>4 DEF WorkInv, TalkInv
<1> DEFINE n == messages[i].calls
<1>6. CASE i + n < l
  <2>1. \A j \in 1..n : messages'[i + j].role = "tool"
    BY <1>1, <1>4, <1>5, <1>6 DEF Followed
  <2>2. messages'[i + n + 1].role # "tool"
    BY <1>1, <1>4, <1>5, <1>6 DEF Followed
  <2> QED BY <1>1, <1>4, <1>5, <1>6, <2>1, <2>2 DEF Followed
<1>7. CASE i + n = l + pending
  <2>1. \A j \in 1..n : i + j <= l + 1 => messages'[i + j].role = "tool"
    <3> SUFFICES ASSUME NEW j \in 1..n, i + j <= l + 1 PROVE messages'[i + j].role = "tool"
      OBVIOUS
    <3>1. CASE i + j = l + 1
      BY <1>0, <1>1, <3>1
    <3>2. CASE i + j # l + 1
      <4>1. i + j \in 1..l /\ j \in 1..n
        BY <1>1, <1>4, <3>2
      <4> QED BY <1>1, <1>4, <1>5, <4>1 DEF Followed
    <3> QED BY <3>1, <3>2
  <2> QED BY <1>1, <1>3, <1>4, <1>5, <1>7, <2>1 DEF Followed
<1> QED BY <1>3, <1>5, <1>6, <1>7 DEF Followed

\* The turns and attempts stay within their budgets, and are paid for.
Counts == /\ toolTurnCount \in 0..MaxToolTurns
          /\ reflectionAttempts \in 0..MaxReflectionAttempts
          /\ requests \in Nat

\* What a request, a turn and a reflection do to the account.
LEMMA PaidSteps ==
  ASSUME WorkOf
  PROVE  \A q \in Nat, t \in 0..MaxToolTurns, r \in 0..MaxReflectionAttempts :
    /\ Paid("ask", q, t, r) => Paid("answered", q + 1, t, r)
    /\ Paid("final", q, t, r) => Paid("final answered", q + 1, t, r)
    /\ Paid("recover", q, t, r) => Paid("recovered", q + 1, t, r)
    /\ Paid("answered", q, t, r) => /\ Paid("tools", q, t + 1, r)
                                   /\ Paid("loop", q, t, r + 1)
    /\ Paid("final answered", q, t, r) => Paid("recover", q, t, r + 1)
    /\ Paid("loop", q, t, r) => Paid("ask", q, t, r)
<1>1. MaxToolTurns \in Nat /\ MaxReflectionAttempts \in Nat
  BY DEF WorkOf, Work!BudgetAssumption
<1> QED BY <1>1 DEF Paid

LEMMA CostKeeps == ASSUME WorkOf, WorkInv, Work!Next PROVE Counts' /\ CostInv'
<1> DEFINE t == toolTurnCount
           r == reflectionAttempts
           q == requests
<1>1. MaxToolTurns \in Nat \ {0} /\ MaxReflectionAttempts \in Nat
  BY DEF WorkOf, Work!BudgetAssumption
<1>2. t \in 0..MaxToolTurns /\ r \in 0..MaxReflectionAttempts /\ q \in Nat
  BY DEF WorkInv, Work!TypeOK, TalkTypes
<1>3. Paid(wAt, q, t, r) /\ wResult # "over budget"
  BY DEF WorkInv, CostInv
<1>4. t \in Nat /\ r \in Nat
  BY <1>1, <1>2
<1>5. ASSUME \/ Work!Loop \/ Work!AskFails \/ Work!RecoveryFails \/ Work!RunTool
             \/ Work!ToolsDone \/ Work!Accept \/ Work!Reject \/ Work!EndCtx
      PROVE  Counts' /\ CostInv'
  <2>1. t' = t /\ r' = r /\ q' = q
    BY <1>5 DEF Work!Loop, Work!AskFails, Work!RecoveryFails, Work!RunTool,
                Work!ToolsDone, Work!Accept, Work!Reject, Work!EndCtx, Work!counts, Work!talk
  <2>2. Counts'
    BY <1>2, <2>1 DEF Counts
  <2>3. CASE Work!Loop \/ Work!AskFails \/ Work!RecoveryFails \/ Work!Accept \/ Work!Reject
    <3>1. \/ wAt' = "returned" /\ wResult' # "over budget"
          \/ wAt = "loop" /\ wAt' = "ask" /\ wResult' = wResult
      BY <2>3 DEF Work!Loop, Work!AskFails, Work!RecoveryFails, Work!Accept, Work!Reject,
                  Work!Return, Work!Goto, Work!Parse
    <3>2. Paid("returned", q, t, r)
      BY <1>3 DEF Paid
    <3>3. wAt = "loop" => Paid("ask", q, t, r)
      BY <1>2, <1>3, PaidSteps
    <3> QED BY <1>3, <2>1, <2>2, <3>1, <3>2, <3>3 DEF CostInv
  <2>4. CASE Work!RunTool \/ Work!EndCtx
    BY <1>3, <2>1, <2>2, <2>4 DEF Work!RunTool, Work!EndCtx, CostInv
  <2>5. CASE Work!ToolsDone
    <3>1. CASE t >= MaxToolTurns
      <4>1. wAt = "tools" /\ wAt' = "final" /\ wResult' = wResult
        BY <2>5, <3>1 DEF Work!ToolsDone, Work!Exhausted, Work!Goto
      <4>2. Paid("final", q, t, r)
        <5>1. Paid("tools", q, t, r)
          BY <1>3, <4>1
        <5> QED BY <5>1 DEF Paid
      <4> QED BY <1>3, <2>1, <2>2, <4>1, <4>2 DEF CostInv
    <3>2. CASE ~(t >= MaxToolTurns)
      <4>1. wAt = "tools" /\ wAt' = "loop" /\ wResult' = wResult
        BY <2>5, <3>2 DEF Work!ToolsDone, Work!Exhausted, Work!Goto
      <4>2. Paid("loop", q, t, r)
        <5>1. t < MaxToolTurns
          BY <1>1, <1>2, <1>4, <3>2
        <5>2. Paid("tools", q, t, r)
          BY <1>3, <4>1
        <5> QED BY <5>1, <5>2 DEF Paid
      <4> QED BY <1>3, <2>1, <2>2, <4>1, <4>2 DEF CostInv
    <3> QED BY <3>1, <3>2
  <2> QED BY <1>5, <2>2, <2>3, <2>4, <2>5
<1>6. CASE Work!AskLoop \/ Work!AskFinal \/ Work!AskRecovery
  <2>1. q' = q + 1 /\ t' = t /\ r' = r
    BY <1>6 DEF Work!AskLoop, Work!AskFinal, Work!AskRecovery, Work!Ask, Work!counts
  <2>2. \/ wAt = "ask" /\ wAt' = "answered"
        \/ wAt = "final" /\ wAt' = "final answered"
        \/ wAt = "recover" /\ wAt' = "recovered"
    BY <1>6 DEF Work!AskLoop, Work!AskFinal, Work!AskRecovery, Work!Ask, Work!Goto
  <2>3. wResult' = wResult
    BY <1>6 DEF Work!AskLoop, Work!AskFinal, Work!AskRecovery, Work!Ask
  <2>4. /\ wAt = "ask" => Paid("answered", q + 1, t, r)
        /\ wAt = "final" => Paid("final answered", q + 1, t, r)
        /\ wAt = "recover" => Paid("recovered", q + 1, t, r)
    BY <1>2, <1>3, PaidSteps
  <2>5. Counts'
    BY <1>2, <2>1 DEF Counts
  <2> QED BY <1>3, <2>1, <2>2, <2>3, <2>4, <2>5 DEF CostInv
<1>7. CASE Work!TakeCalls
  <2>1. t < MaxToolTurns /\ wAt = "answered"
    BY <1>3, <1>7 DEF Work!TakeCalls, Paid
  <2>2. ~(t + 1 > MaxToolTurns) /\ t + 1 \in 0..MaxToolTurns
    BY <1>1, <1>2, <1>4, <2>1
  <2>3. t' = t + 1 /\ wAt' = "tools" /\ r' = r /\ q' = q /\ wResult' = wResult
    BY <1>7, <2>2 DEF Work!TakeCalls, Work!Goto
  <2>4. Paid("tools", q, t + 1, r)
    BY <1>2, <1>3, <2>1, PaidSteps
  <2>5. Counts'
    BY <1>2, <2>2, <2>3 DEF Counts
  <2> QED BY <1>3, <2>3, <2>4, <2>5 DEF CostInv
<1>8. CASE Work!Reflect
  <2>1. r < MaxReflectionAttempts /\ r' = r + 1 /\ t' = t /\ q' = q
    BY <1>8 DEF Work!Reflect
  <2>2. /\ \/ wAt = "answered" /\ wAt' = "loop"
           \/ wAt = "final answered" /\ wAt' = "recover"
        /\ wResult' = wResult
    BY <1>8 DEF Work!Reflect, Work!Goto
  <2>3. /\ wAt = "answered" => Paid("loop", q, t, r + 1)
        /\ wAt = "final answered" => Paid("recover", q, t, r + 1)
    BY <1>2, <1>3, PaidSteps
  <2>4. Counts'
    BY <1>1, <1>2, <1>4, <2>1 DEF Counts
  <2> QED BY <1>3, <2>1, <2>2, <2>3, <2>4 DEF CostInv
<1> QED
  BY <1>5, <1>6, <1>7, <1>8 DEF Work!Next, Work!Execute

LEMMA TalkKeeps == ASSUME WorkOf, WorkInv, Work!Next PROVE TalkInv' /\ messages' \in Seq(SomeMessages)
<1> USE DEF Work!Goto, Work!Return, Work!counts, Work!talk
<1>0. messages \in Seq(SomeMessages) /\ wAnswer.calls \in 0..MaxCalls
  BY DEF WorkInv, TalkTypes
<1>1. CASE UNCHANGED messages /\ wAt # "tools" /\ wAt' # "tools"
  BY <1>0, <1>1, QuietKeeps DEF Open
<1>2. CASE Work!EndCtx
  BY <1>0, <1>2 DEF Work!EndCtx, WorkInv, TalkInv, Followed, Open
<1>3. CASE Work!RunTool
  <2>1. Work!Message("tool", 0) \in SomeMessages
    BY DEF SomeMessages, Work!Message, WorkOf, Work!CallsAssumption
  <2> QED BY <1>0, <1>3, <2>1, ToolKeeps, Said DEF Work!RunTool, Work!Say
<1>4. CASE Work!ToolsDone
  <2>1. UNCHANGED messages \/ messages' = messages \o <<Work!Message("user", 0)>>
    BY <1>4 DEF Work!ToolsDone, Work!Say
  <2>2. Open = 0 /\ Open' = 0
    BY <1>4 DEF Work!ToolsDone, Open
  <2>3. Work!Message("user", 0) \in SomeMessages
    BY DEF SomeMessages, Work!Message, WorkOf, Work!CallsAssumption
  <2>4. CASE messages' = messages \o <<Work!Message("user", 0)>>
    BY <1>0, <2>2, <2>3, <2>4, AssistantKeeps, AppendIsConcat, Said DEF Work!Message
  <2> QED BY <1>0, <2>1, <2>2, <2>4, QuietKeeps
<1>5. CASE Work!TakeCalls
  <2>1. toolTurnCount < MaxToolTurns
    BY <1>5 DEF Work!TakeCalls, WorkInv, CostInv, Paid
  <2>2. ~(toolTurnCount + 1 > MaxToolTurns)
    <3>1. toolTurnCount \in 0..MaxToolTurns /\ MaxToolTurns \in Nat
      BY DEF WorkInv, Work!TypeOK, WorkOf, Work!BudgetAssumption
    <3> QED BY <2>1, <3>1
  <2>4. messages' = messages \o <<Work!AssistantSays>> /\ Open = 0 /\ Open' = wAnswer.calls
    BY <1>5, <2>2 DEF Work!TakeCalls, Work!Say, Open
  <2>3. Work!AssistantSays \in SomeMessages
    BY <1>0 DEF SomeMessages, Work!AssistantSays, Work!Message
  <2> QED
    BY <1>0, <2>3, <2>4, AssistantKeeps, AppendIsConcat, Said
    DEF Work!AssistantSays, Work!Message
<1>6. CASE Work!Reflect
  <2>1. /\ messages' = messages \o <<Work!AssistantSays, Work!Message("user", 0)>>
        /\ wAnswer.calls = 0 /\ Open = 0 /\ Open' = 0
    BY <1>6 DEF Work!Reflect, Work!Say, Open
  <2>2. Work!AssistantSays \in SomeMessages /\ Work!Message("user", 0) \in SomeMessages
    BY <1>0 DEF SomeMessages, Work!AssistantSays, Work!Message, WorkOf,
                Work!CallsAssumption
  <2>3. messages' \in Seq(SomeMessages)
    BY <1>0, <2>1, <2>2, Said
  <2>4. TalkInv'
    <3> DEFINE a == Work!AssistantSays
               b == Work!Message("user", 0)
               l == Len(messages)
    <3>1. a.role = "assistant" /\ a.calls = 0 /\ b.role = "user"
      BY <2>1 DEF Work!AssistantSays, Work!Message
    <3>2. messages' = messages \o <<a, b>> /\ a \in SomeMessages /\ b \in SomeMessages
      BY <2>1, <2>2
    <3> HIDE DEF a, b
    <3>3. /\ l \in Nat /\ Len(messages') = l + 2
          /\ \A i \in 1..l : messages'[i] = messages[i] /\ messages[i] \in SomeMessages
          /\ messages'[l + 1] = a /\ messages'[l + 2] = b
      BY <1>0, <3>2, Said, LenProperties, MessagesTyped
    <3> SUFFICES ASSUME NEW i \in 1..(l + 2), messages'[i].role = "assistant"
                 PROVE  Followed(i)'
      BY <3>3 DEF TalkInv
    <3>4. CASE i = l + 1
      BY <2>1, <3>1, <3>3, <3>4 DEF Followed
    <3>5. CASE i \in 1..l
      <4> DEFINE n == messages[i].calls
      <4>1. Followed(i) /\ n \in Nat /\ messages'[i] = messages[i]
        BY <3>3, <3>5 DEF WorkInv, TalkInv, SomeMessages, WorkOf, Work!CallsAssumption
      <4>2. i + n <= l /\ i + n < l + 2
        BY <2>1, <3>3, <4>1 DEF Followed
      <4>3. \A j \in 1..n : messages'[i + j].role = "tool"
        <5> SUFFICES ASSUME NEW j \in 1..n PROVE messages'[i + j].role = "tool"
          OBVIOUS
        <5>1. i + j \in 1..l
          BY <3>3, <4>1, <4>2
        <5>2. messages[i + j].role = "tool"
          BY <4>1, <5>1, <3>3 DEF Followed
        <5> QED BY <3>3, <5>1, <5>2
      <4>4. messages'[i + n + 1].role # "tool"
        <5>1. CASE i + n = l
          BY <3>1, <3>3, <4>1, <5>1
        <5>2. CASE i + n # l
          BY <3>3, <4>1, <4>2, <5>2 DEF Followed
        <5> QED BY <5>1, <5>2
      <4> QED BY <2>1, <3>3, <4>1, <4>2, <4>3, <4>4 DEF Followed
    <3> QED BY <3>1, <3>3, <3>4, <3>5
  <2> QED BY <2>3, <2>4
<1> QED
  BY <1>1, <1>2, <1>3, <1>4, <1>5, <1>6
  DEF Work!Next, Work!Execute, Work!Loop, Work!AskLoop, Work!AskFinal, Work!AskRecovery,
      Work!Ask, Work!AskFails, Work!RecoveryFails, Work!Accept, Work!Reject

LEMMA WorkTypes ==
  ASSUME WorkOf, WorkInv, Work!Next, messages' \in Seq(SomeMessages), Counts'
  PROVE  Work!TypeOK' /\ TalkTypes'
<1> USE DEF WorkOf, Work!CallsAssumption, Work!Goto, Work!Return, Work!counts, Work!talk
<1>1. wAnswer' \in [kind : Work!Texts \cup {"calls"}, calls : 0..MaxCalls]
  <2>1. \/ wAnswer' = wAnswer
        \/ \E k \in Work!Texts : wAnswer' = [kind |-> k, calls |-> 0]
        \/ \E n \in 1..MaxCalls : wAnswer' = [kind |-> "calls", calls |-> n]
    BY DEF Work!Next, Work!Execute, Work!Loop, Work!AskLoop, Work!AskFinal,
       Work!AskRecovery, Work!Ask, Work!AskFails, Work!RecoveryFails, Work!Accept,
       Work!Reject, Work!Reflect, Work!RunTool, Work!ToolsDone, Work!TakeCalls,
       Work!EndCtx, Work!Text, Work!Call
  <2> QED BY <2>1 DEF WorkInv, TalkTypes
<1>2. \A i \in DOMAIN messages' : messages'[i] \in SomeMessages
  BY MessagesTyped
<1>3. pending' \in 0..MaxCalls
  <2>1. pending \in 0..MaxCalls /\ wAnswer.calls \in 0..MaxCalls
    BY DEF WorkInv, Work!TypeOK, TalkTypes
  <2>2. \/ pending' = pending \/ pending' = wAnswer.calls
        \/ pending > 0 /\ pending' = pending - 1
    BY DEF Work!Next, Work!Execute, Work!Loop, Work!AskLoop, Work!AskFinal, Work!AskRecovery,
      Work!Ask, Work!AskFails, Work!RecoveryFails, Work!Accept, Work!Reject, Work!Reflect,
      Work!RunTool, Work!ToolsDone, Work!TakeCalls, Work!EndCtx
  <2> QED BY <2>1, <2>2
<1>4. wEnded' \in BOOLEAN /\ persisted' \in BOOLEAN /\ offered' \in BOOLEAN
  <2>1. wEnded' = wEnded \/ wEnded' = TRUE
    BY DEF Work!Next, Work!Execute, Work!Loop, Work!AskLoop, Work!AskFinal,
       Work!AskRecovery, Work!Ask, Work!AskFails, Work!RecoveryFails, Work!Accept,
       Work!Reject, Work!Reflect, Work!RunTool, Work!ToolsDone, Work!TakeCalls, Work!EndCtx
  <2>2. offered' = offered \/ \E where : offered' = (where = "ask")
    BY DEF Work!Next, Work!Execute, Work!Loop, Work!AskLoop, Work!AskFinal,
       Work!AskRecovery, Work!Ask, Work!AskFails, Work!RecoveryFails, Work!Accept,
       Work!Reject, Work!Reflect, Work!RunTool, Work!ToolsDone, Work!TakeCalls, Work!EndCtx,
       Work!Offer
  <2>3. persisted' = persisted \/ \E what : persisted' = (what \in {"completed", "yielded"})
    BY DEF Work!Next, Work!Execute, Work!Loop, Work!AskLoop, Work!AskFinal,
       Work!AskRecovery, Work!Ask, Work!AskFails, Work!RecoveryFails, Work!Accept,
       Work!Reject, Work!Reflect, Work!RunTool, Work!ToolsDone, Work!TakeCalls, Work!EndCtx
  <2>4. wEnded \in BOOLEAN /\ persisted \in BOOLEAN /\ offered \in BOOLEAN
    BY DEF WorkInv, Work!TypeOK
  <2>5. wEnded' \in BOOLEAN
    BY <2>1, <2>4
  <2>6. offered' \in BOOLEAN
    BY <2>2, <2>4, Zenon
  <2>7. persisted' \in BOOLEAN
    <3>1. ASSUME NEW what, persisted' = (what \in {"completed", "yielded"})
          PROVE  persisted' \in BOOLEAN
      BY <3>1
    <3> QED BY <2>3, <2>4, <3>1
  <2> QED BY <2>5, <2>6, <2>7
<1>5. /\ wAt' \in {"loop", "ask", "answered", "tools", "final", "final answered",
                  "recover", "recovered", "returned"}
      /\ wResult' \in {"none", "cancelled", "failed", "exhausted", "over budget",
                       "completed", "yielded"}
  <2> USE DEF WorkInv, Work!TypeOK
  <2>1. CASE Work!Loop \/ Work!AskFails \/ Work!RecoveryFails \/ Work!EndCtx
    BY <2>1 DEF Work!Loop, Work!AskFails, Work!RecoveryFails, Work!EndCtx
  <2>2. CASE Work!AskLoop \/ Work!AskFinal \/ Work!AskRecovery
    BY <2>2 DEF Work!AskLoop, Work!AskFinal, Work!AskRecovery, Work!Ask
  <2>3. CASE Work!TakeCalls \/ Work!RunTool
    BY <2>3 DEF Work!TakeCalls, Work!RunTool
  <2>4. CASE Work!ToolsDone \/ Work!Reflect
    BY <2>4 DEF Work!ToolsDone, Work!Reflect
  <2>5. CASE Work!Accept \/ Work!Reject
    BY <2>5 DEF Work!Accept, Work!Reject, Work!Parse
  <2> QED BY <2>1, <2>2, <2>3, <2>4, <2>5 DEF Work!Next, Work!Execute
<1> QED
  BY <1>1, <1>2, <1>3, <1>4, <1>5 DEF Work!TypeOK, TalkTypes, SomeMessages, Counts

LEMMA WorkStep == ASSUME WorkOf, WorkInv, [Work!Next]_(Work!vars) PROVE WorkInv'
<1>1. CASE Work!Next
  BY <1>1, CostKeeps, TalkKeeps, WorkTypes DEF WorkInv
<1>2. CASE UNCHANGED Work!vars
  BY <1>2 DEF Work!vars, WorkInv, Work!TypeOK, TalkTypes, CostInv, TalkInv, Followed, Open
<1> QED BY <1>1, <1>2

LEMMA WorkImplies == ASSUME WorkOf, WorkInv PROVE Work!TalkIsSound
<1>1. Work!CallsAreAnswered
  <2> SUFFICES ASSUME wAt \in {"ask", "final", "recover"}, NEW i \in DOMAIN messages,
                      messages[i].role = "assistant"
               PROVE  LET n == messages[i].calls
                      IN /\ i + n <= Len(messages)
                         /\ \A j \in 1..n : messages[i + j].role = "tool"
                         /\ i + n < Len(messages) => messages[i + n + 1].role # "tool"
    BY DEF Work!CallsAreAnswered
  <2>1. i \in 1..Len(messages) /\ messages[i].calls \in Nat /\ Len(messages) \in Nat
    <3>1. messages \in Seq(SomeMessages) /\ MaxCalls \in Nat
      BY DEF WorkInv, TalkTypes, WorkOf, Work!CallsAssumption
    <3>2. messages[i] \in SomeMessages /\ i \in 1..Len(messages)
      BY <3>1, LenProperties, MessagesTyped
    <3> QED BY <3>1, <3>2, LenProperties DEF SomeMessages
  <2>2. Followed(i) /\ Open = 0
    BY <2>1 DEF WorkInv, TalkInv, Open
  <2>3. i + messages[i].calls <= Len(messages)
    BY <2>1, <2>2 DEF Followed
  <2>4. \A j \in 1..messages[i].calls : messages[i + j].role = "tool"
    BY <2>1, <2>2, <2>3 DEF Followed
  <2> QED BY <2>1, <2>2, <2>3, <2>4 DEF Followed
<1>2. Work!CostIsBounded
  BY DEF Work!CostIsBounded, WorkInv, CostInv, Paid
<1> QED BY <1>1, <1>2 DEF Work!TalkIsSound, WorkInv

\* Whenever the model is asked, its earlier tool calls are all answered and by
\* nothing else, and a task costs one request for each turn and reflection and one
\* more, the second check of the budget never being reached: for any budgets and
\* any number of calls in a message (worker.go, Execute).
THEOREM TalkHolds == ASSUME WorkOf PROVE Work!Spec => []TalkIsSound
BY WorkInit, WorkStep, WorkImplies, PTL DEF Work!Spec, TalkIsSound

-----------------------------------------------------------------------------
(* The blackboard                                                          *)

BoardOf == Board!GraphAssumption /\ Board!BoundsAssumption /\ Board!KeysAssumption

Rng(s) == {s[i] : i \in DOMAIN s}
Once(s) == \A i, j \in DOMAIN s : s[i] = s[j] => i = j

\* The key a handler is at, where its payload may go, and the keys that are its own.
Cur(t) == Head(left[t])
Path(k) == Board!SpillPath(k)
Whole(e, k) == e.spilled => file[Path(k)] = e.by

Persisting == {"persist", "persist.file", "persist.store"}
Ensuring == {"ensure", "ensure.file", "ensure.store"}
InFile == {"persist.file", "ensure.file"}
InStore == {"persist.store", "ensure.store"}
AfterLoops == {"snapshot", "flush", "ended"}

BoardTypes ==
  /\ left \in [Tasks -> Seq(Board!Keys)]
  /\ seen \in [Tasks -> [Board!Keys -> Board!Content \cup {Board!Unread, Board!Missing}]]
  /\ snap \in [Tasks -> [Board!Keys -> Board!Entry \cup {Board!NoEntry}]]

\* A handler in a loop goes through its output keys once, writes only keys of its
\* own, and has filled the file of the one it is about to store.
LoopOf(t) ==
  /\ bAt[t] \in Persisting \cup Ensuring =>
       Once(left[t]) /\ Rng(left[t]) \subseteq Rng(OutputKeys[t])
  /\ bAt[t] \in InFile \cup InStore => left[t] # <<>> /\ Cur(t) \in Board!Own(t)
  /\ bAt[t] = "read" => left[t] # <<>>
  /\ bAt[t] \in InFile => size[t] = "big"
  /\ bAt[t] \in InStore /\ size[t] = "big" => file[Path(Cur(t))] = t
  /\ t \in bDone => bAt[t] \in AfterLoops \cup {"idle"}
  /\ bAt[t] # "idle" => DependsOn[t] \subseteq bDone

LoopInv == \A t \in Tasks : LoopOf(t)

\* An entry, saved or not, is of the task whose key it is.
OwnInv ==
  \A k \in Board!Keys :
    /\ entries[k] # Board!NoEntry => k \in Board!Own(entries[k].by)
    /\ checkpoint[k] # Board!NoEntry => k \in Board!Own(checkpoint[k].by)
    /\ \A t \in Tasks : snap[t][k] # Board!NoEntry => k \in Board!Own(snap[t][k].by)

\* Before the first crash: once a key is in the map, the handler it belongs to never
\* touches its file again, and snapshots hold nothing that the map does not.
Past(d, k) == \/ bAt[d] \in {"ensure"} \cup AfterLoops
              \/ bAt[d] \in {"ensure.file", "ensure.store"} /\ Cur(d) # k
              \/ bAt[d] \in Persisting /\ k \notin Rng(left[d])

KeptOnce(d, k) ==
  /\ entries[k] # Board!NoEntry => Whole(entries[k], k) /\ Past(d, k)
  /\ checkpoint[k] \in {Board!NoEntry, entries[k]}
  /\ \A t \in Tasks : snap[t][k] \in {Board!NoEntry, entries[k]}

\* Up to the second crash, and no write having failed: only the file being written
\* can be torn.
KeptTwice(d, k) ==
  \/ bAt[d] \in InFile /\ Cur(d) = k
  \/ /\ Whole(entries[k], k) /\ Whole(checkpoint[k], k)
     /\ \A t \in Tasks : Whole(snap[t][k], k)

\* Up to the third: a handler that has gone past a key has left it in the map, whole,
\* and has nothing to make up for.
Stored(d, k) ==
  /\ (bAt[d] \in Persisting /\ k \notin Rng(left[d])) \/ bAt[d] = "ensure"
       => entries[k] # Board!NoEntry /\ Whole(entries[k], k)
  /\ d \in bDone => Whole(entries[k], k)
  /\ bAt[d] \notin {"ensure.file", "ensure.store"}

KeptInv == \A d \in Tasks : \A k \in Board!Own(d) :
             /\ bCrashes = 0 => KeptOnce(d, k)
             /\ bFailures = 0 /\ bCrashes <= 1 => KeptTwice(d, k)
             /\ bFailures = 0 /\ bCrashes <= 2 => Stored(d, k)

Calm == bCrashes = 0 \/ (bFailures = 0 /\ bCrashes <= 2)

\* What a task has seen of a key of its dependency, and is about to see.
SeenOf(t, d, k) ==
  /\ seen[t][k] \in {Board!Unread, Board!Missing, d}
  /\ bAt[t] = "read" /\ Cur(t) = k => entries[k].spilled

SeenInv == Calm => \A t \in Tasks : \A d \in DependsOn[t] : \A k \in Board!Own(d) :
                     SeenOf(t, d, k)

BoardInv == Board!TypeOK /\ BoardTypes /\ LoopInv /\ OwnInv /\ KeptInv /\ SeenInv

LEMMA TailFacts ==
  ASSUME NEW S, NEW s \in Seq(S), s # <<>>
  PROVE  /\ Head(s) \in S /\ Head(s) \in Rng(s) /\ Tail(s) \in Seq(S)
         /\ Once(s) => Once(Tail(s)) /\ Rng(Tail(s)) = Rng(s) \ {Head(s)}
<1>1. /\ Len(s) \in Nat /\ Len(s) >= 1 /\ DOMAIN s = 1..Len(s) /\ Head(s) = s[1]
      /\ Tail(s) \in Seq(S) /\ Len(Tail(s)) = Len(s) - 1
      /\ \A i \in 1..Len(Tail(s)) : Tail(s)[i] = s[i + 1]
      /\ DOMAIN Tail(s) = 1..Len(Tail(s))
      /\ \A i \in 1..Len(s) : s[i] \in S
  BY EmptySeq, LenProperties, HeadTailProperties, ElementOfSeq
<1>2. Head(s) \in S /\ Head(s) \in Rng(s)
  BY <1>1 DEF Rng
<1>3. ASSUME Once(s) PROVE Once(Tail(s))
  BY <1>1, <1>3 DEF Once
<1>4. ASSUME Once(s) PROVE Rng(Tail(s)) = Rng(s) \ {Head(s)}
  <2>1. ASSUME NEW x \in Rng(Tail(s)) PROVE x \in Rng(s) \ {Head(s)}
    <3>1. PICK i \in 1..Len(Tail(s)) : x = s[i + 1]
      BY <1>1, <2>1 DEF Rng
    <3>2. i + 1 \in DOMAIN s /\ 1 \in DOMAIN s /\ i + 1 # 1
      BY <1>1
    <3> QED BY <1>1, <1>4, <3>1, <3>2 DEF Rng, Once
  <2>2. ASSUME NEW x \in Rng(s), x # Head(s) PROVE x \in Rng(Tail(s))
    <3>1. PICK i \in 1..Len(s) : x = s[i]
      BY <1>1, <2>2 DEF Rng
    <3>2. i - 1 \in 1..Len(Tail(s)) /\ (i - 1) + 1 = i
      BY <1>1, <2>2, <3>1
    <3>3. Tail(s)[i - 1] = s[i]
      BY <1>1, <3>2
    <3> QED BY <1>1, <3>1, <3>2, <3>3 DEF Rng
  <2> QED BY <2>1, <2>2
<1> QED BY <1>1, <1>2, <1>3, <1>4

\* Keys of two tasks, and the files they spill to, are apart.
LEMMA KeysApart ==
  ASSUME BoardOf
  PROVE  /\ \A t \in Tasks : \A k \in Board!Own(t) :
              k \in Board!Keys /\ Path(k) \in Board!Files /\ k \in Rng(OutputKeys[t])
         /\ \A t, u \in Tasks : \A k \in Board!Own(t), l \in Board!Own(u) :
              (Path(k) = Path(l) => k = l) /\ (k = l => t = u)
         /\ \A t \in Tasks : /\ OutputKeys[t] \in Seq(Board!Keys) /\ Once(OutputKeys[t])
                             /\ InputKeys[t] \in Seq(Board!Keys)
<1>1. \A t \in Tasks : /\ OutputKeys[t] \in Seq(Board!Keys) /\ Once(OutputKeys[t])
                       /\ InputKeys[t] \in Seq(Board!Keys)
  BY DEF BoardOf, Board!GraphAssumption, Board!KeysAssumption, Once
<1>2. ASSUME NEW t \in Tasks, NEW k \in Board!Own(t)
      PROVE  k \in Board!Keys /\ Path(k) \in Board!Files /\ k \in Rng(OutputKeys[t])
             /\ Board!Allowed(t, k)
  <2>1. k \in Rng(OutputKeys[t]) /\ Board!Allowed(t, k)
    BY <1>2 DEF Board!Own, Board!ToSet, Rng
  <2>2. k \in Board!Keys
    BY <1>1, <2>1, ElementOfSeq, LenProperties DEF Rng
  <2> QED BY <2>1, <2>2 DEF Board!Files, Path
<1>3. ASSUME NEW t \in Tasks, NEW u \in Tasks, NEW k \in Board!Own(t), NEW l \in Board!Own(u)
      PROVE  (Path(k) = Path(l) => k = l) /\ (k = l => t = u)
  BY <1>2 DEF BoardOf, Board!KeysAssumption, Path
<1> QED BY <1>1, <1>2, <1>3

\* What a step of a task's handler does, for that task and the others.
Turned(t, from, to, keys) == bAt[t] = from /\ bAt'[t] = to /\ left'[t] = keys
Apart(t) == /\ bCrashes' = bCrashes
            /\ \A u \in Tasks \ {t} :
                 /\ bAt'[u] = bAt[u] /\ left'[u] = left[u] /\ size'[u] = size[u]
                 /\ seen'[u] = seen[u] /\ snap'[u] = snap[u]
Still == UNCHANGED <<entries, file, bDone, checkpoint>>
SameData(t) == size'[t] = size[t] /\ seen'[t] = seen[t] /\ snap'[t] = snap[t]
Pending(t) == /\ left[t] # <<>> /\ Cur(t) \in Board!Own(t)
              /\ bAt[t] = "ensure" => entries[Cur(t)] = Board!NoEntry
OnlyFile(t) == /\ \A k \in Board!Keys : Path(k) # Path(Cur(t)) => file'[Path(k)] = file[Path(k)]
               /\ UNCHANGED <<entries, bDone, checkpoint, bFailures>>

Begun(t) == /\ Turned(t, "idle", "get", InputKeys[t]) /\ t \notin bDone
            /\ DependsOn[t] \subseteq bDone
            /\ Still /\ SameData(t) /\ UNCHANGED bFailures
ToRead(t) == /\ Turned(t, "get", "read", left[t]) /\ left[t] # <<>>
             /\ entries[Cur(t)].spilled
             /\ Still /\ SameData(t) /\ UNCHANGED bFailures
Seen(t) ==
  /\ bAt[t] \in {"get", "read"} /\ bAt'[t] = "get"
  /\ left[t] # <<>> /\ left'[t] = Tail(left[t])
  /\ \A k \in Board!Keys \ {Cur(t)} : seen'[t][k] = seen[t][k]
  /\ \/ seen'[t][Cur(t)] = Board!Missing
     \/ entries[Cur(t)] # Board!NoEntry /\ seen'[t][Cur(t)] = entries[Cur(t)].by
     \/ bAt[t] = "read" /\ seen'[t][Cur(t)] = file[Path(Cur(t))]
  /\ Still /\ size'[t] = size[t] /\ snap'[t] = snap[t] /\ UNCHANGED bFailures
Produced(t) == /\ Turned(t, "get", "persist", OutputKeys[t])
               /\ Still /\ seen'[t] = seen[t] /\ snap'[t] = snap[t] /\ UNCHANGED bFailures
Skipped(t) == /\ \E where \in {"persist", "ensure"} :
                   /\ Turned(t, where, where, Tail(left[t])) /\ left[t] # <<>>
                   /\ \/ Cur(t) \notin Board!Own(t)
                      \/ where = "ensure" /\ entries[Cur(t)] # Board!NoEntry
              /\ Still /\ SameData(t) /\ UNCHANGED bFailures
Copied(t) == /\ \/ Turned(t, "persist", "persist.store", left[t])
                \/ Turned(t, "ensure", "ensure.store", left[t])
             /\ Pending(t) /\ size[t] = "small"
             /\ Still /\ SameData(t) /\ UNCHANGED bFailures
Opened(t) == /\ \/ Turned(t, "persist", "persist.file", left[t])
                \/ Turned(t, "ensure", "ensure.file", left[t])
             /\ Pending(t) /\ size[t] = "big"
             /\ OnlyFile(t) /\ SameData(t)
Failed(t) == /\ \/ \E from \in {"persist", "persist.file"} :
                     Turned(t, from, "persist", Tail(left[t]))
                \/ \E from \in {"ensure", "ensure.file"} :
                     Turned(t, from, "ensure", Tail(left[t]))
             /\ left[t] # <<>> /\ bFailures' # 0
             /\ Still /\ SameData(t)
Filled(t) == /\ \/ Turned(t, "persist.file", "persist.store", left[t])
                \/ Turned(t, "ensure.file", "ensure.store", left[t])
             /\ file'[Path(Cur(t))] = t
             /\ OnlyFile(t) /\ SameData(t)
PutIn(t) == /\ \/ Turned(t, "persist.store", "persist", Tail(left[t]))
               \/ Turned(t, "ensure.store", "ensure", Tail(left[t]))
            /\ entries'[Cur(t)] = [by |-> t, spilled |-> size[t] = "big"]
            /\ \A k \in Board!Keys \ {Cur(t)} : entries'[k] = entries[k]
            /\ UNCHANGED <<file, bDone, checkpoint, bFailures>> /\ SameData(t)
Again(t) == /\ Turned(t, "persist", "ensure", OutputKeys[t]) /\ left[t] = <<>>
            /\ Still /\ SameData(t) /\ UNCHANGED bFailures
Recorded(t) == /\ Turned(t, "ensure", "snapshot", <<>>) /\ left[t] = <<>>
               /\ bDone' = bDone \cup {t}
               /\ UNCHANGED <<entries, file, checkpoint, bFailures>> /\ SameData(t)
Snapped(t) == /\ Turned(t, "snapshot", "flush", <<>>) /\ snap'[t] = entries
              /\ Still /\ size'[t] = size[t] /\ seen'[t] = seen[t] /\ UNCHANGED bFailures
Flushed(t) == /\ Turned(t, "flush", "ended", <<>>) /\ checkpoint' = snap[t]
              /\ UNCHANGED <<entries, file, bDone, bFailures>> /\ SameData(t)

Moved(t) == /\ Apart(t)
            /\ \/ Begun(t) \/ ToRead(t) \/ Seen(t) \/ Produced(t)
               \/ Skipped(t) \/ Copied(t) \/ Opened(t) \/ Failed(t) \/ Filled(t) \/ PutIn(t)
               \/ Again(t) \/ Recorded(t) \/ Snapped(t) \/ Flushed(t)

LEMMA HandlerMoves ==
  ASSUME BoardOf, BoardInv, NEW t \in Tasks, Board!Handler(t) PROVE Moved(t)
<1> USE DEF Board!board, Board!saved, Board!Goto, Cur, Path
<1>0. /\ bAt \in [Tasks -> {"idle", "get", "read", "snapshot", "flush", "ended"}
                           \cup Board!Loops \cup Board!Writing]
      /\ left \in [Tasks -> Seq(Board!Keys)] /\ size \in [Tasks -> {"small", "big"}]
      /\ seen \in [Tasks -> [Board!Keys -> Board!Content \cup {Board!Unread, Board!Missing}]]
      /\ snap \in [Tasks -> [Board!Keys -> Board!Entry \cup {Board!NoEntry}]]
      /\ entries \in [Board!Keys -> Board!Entry \cup {Board!NoEntry}]
      /\ file \in [Board!Files -> Board!Content]
      /\ bFailures \in Nat
  BY DEF BoardInv, Board!TypeOK, BoardTypes, BoardOf, Board!BoundsAssumption
<1>1. Apart(t)
  BY <1>0 DEF Apart, Board!Handler, Board!Start, Board!Get, Board!ReadPayload, Board!Produce,
     Board!Skip, Board!SetSmall, Board!OpenFile, Board!FillFile, Board!StoreEntry,
     Board!Ensure, Board!RecordSuccess, Board!Snapshot, Board!FlushSnapshot, Board!See
<1>2. /\ left[t] # <<>> => Cur(t) \in Board!Keys
      /\ bAt[t] = "read" => left[t] # <<>>
      /\ bAt[t] \in InFile \cup InStore => left[t] # <<>> /\ Cur(t) \in Board!Own(t)
      /\ bAt[t] \in Persisting \cup Ensuring /\ left[t] # <<>> /\ Board!Allowed(t, Cur(t))
           => Cur(t) \in Board!Own(t)
  <2>1. left[t] \in Seq(Board!Keys)
    BY <1>0
  <2>2. left[t] # <<>> => Cur(t) \in Board!Keys /\ Cur(t) \in Rng(left[t])
    BY <2>1, TailFacts
  <2>3. LoopOf(t)
    BY DEF BoardInv, LoopInv
  <2> QED BY <2>2, <2>3 DEF LoopOf, Board!Own, Board!ToSet, Rng
<1>3. CASE Board!Start(t)
  <2>1. Begun(t)
    BY <1>0, <1>3 DEF Board!Start, Begun, Turned, Still, SameData
  <2> QED BY <1>1, <2>1 DEF Moved
<1>4. CASE Board!Get(t)
  <2>1. ToRead(t) \/ Seen(t)
    BY <1>0, <1>2, <1>4 DEF Board!Get, Board!See, ToRead, Seen, Turned, Still, SameData
  <2> QED BY <1>1, <2>1 DEF Moved
<1>5. CASE Board!ReadPayload(t)
  <2>1. Seen(t)
    BY <1>0, <1>2, <1>5 DEF Board!ReadPayload, Board!See, Seen, Turned, Still, SameData
  <2> QED BY <1>1, <2>1 DEF Moved
<1>6. CASE Board!Produce(t)
  <2>1. Produced(t)
    BY <1>0, <1>6 DEF Board!Produce, Produced, Turned, Still
  <2> QED BY <1>1, <2>1 DEF Moved
<1>7. CASE Board!Skip(t)
  <2>1. Skipped(t)
    BY <1>0, <1>2, <1>7 DEF Board!Skip, Board!Loops, Board!Own, Skipped, Turned, Still, SameData
  <2> QED BY <1>1, <2>1 DEF Moved
<1>8. CASE Board!SetSmall(t)
  <2>1. Copied(t)
    BY <1>0, <1>2, <1>8 DEF Board!SetSmall, Board!Loops, Board!Storing, Board!Loop,
       Persisting, Ensuring, Copied, Pending, Turned, Still, SameData
  <2> QED BY <1>1, <2>1 DEF Moved
<1>f. bFailures' = bFailures + 1 => bFailures' # 0
  BY <1>0
<1>9. CASE Board!OpenFile(t)
  <2>1. /\ bAt[t] \in {"persist", "ensure"} /\ Pending(t) /\ size[t] = "big"
        /\ UNCHANGED <<entries, bDone, checkpoint, size, seen, snap>>
    BY <1>0, <1>2, <1>9 DEF Board!OpenFile, Board!Loops, Persisting, Ensuring, Pending
  <2>2. CASE Board!Goto(t, Board!Filing[Board!Loop(t)], left[t]) /\ UNCHANGED bFailures
             /\ file' = [file EXCEPT ![Board!SpillPath(Head(left[t]))] = Board!Torn]
    <3>1. OnlyFile(t)
      BY <1>0, <2>1, <2>2 DEF OnlyFile, Board!Files
    <3>2. Opened(t)
      BY <1>0, <2>1, <2>2, <3>1 DEF Board!Filing, Board!Loop, Opened, Turned, SameData
    <3> QED BY <1>1, <3>2 DEF Moved
  <2>3. CASE bFailures' = bFailures + 1 /\ UNCHANGED file
             /\ Board!Goto(t, bAt[t], Tail(left[t]))
    <3>1. Failed(t)
      BY <1>0, <1>f, <2>1, <2>3 DEF Pending, Failed, Turned, Still, SameData
    <3> QED BY <1>1, <3>1 DEF Moved
  <2> QED BY <1>9, <2>2, <2>3 DEF Board!OpenFile
<1>10. CASE Board!FillFile(t)
  <2>1. /\ bAt[t] \in InFile /\ left[t] # <<>> /\ Cur(t) \in Board!Own(t)
        /\ UNCHANGED <<entries, bDone, checkpoint, size, seen, snap>>
    BY <1>0, <1>2, <1>10 DEF Board!FillFile, InFile
  <2>2. ~ \E u \in Tasks \ {t} : /\ bAt[u] \in {"persist.file", "ensure.file"}
                                 /\ Path(Cur(u)) = Path(Cur(t))
    BY <2>1, KeysApart DEF BoardInv, LoopInv, LoopOf, InFile
  <2>3. CASE Board!Goto(t, Board!Storing[Board!Loop(t)], left[t]) /\ UNCHANGED bFailures
             /\ file' = [file EXCEPT ![Board!SpillPath(Head(left[t]))] = t]
    <3>1. Path(Cur(t)) \in Board!Files
      BY <2>1, KeysApart
    <3>2. OnlyFile(t) /\ file'[Path(Cur(t))] = t
      BY <1>0, <2>1, <2>3, <3>1 DEF OnlyFile, Board!Files
    <3>3. Filled(t)
      BY <1>0, <2>1, <2>3, <3>2 DEF Board!Storing, Board!Loop, InFile, Filled, Turned, SameData
    <3> QED BY <1>1, <3>3 DEF Moved
  <2>4. CASE bFailures' = bFailures + 1 /\ UNCHANGED file
             /\ Board!Goto(t, Board!Loop(t), Tail(left[t]))
    <3>1. Failed(t)
      BY <1>0, <1>f, <2>1, <2>4 DEF Board!Loop, InFile, Failed, Turned, Still, SameData
    <3> QED BY <1>1, <3>1 DEF Moved
  <2> QED BY <1>10, <2>2, <2>3, <2>4 DEF Board!FillFile
<1>11. CASE Board!StoreEntry(t)
  <2>1. PutIn(t)
    BY <1>0, <1>2, <1>11 DEF Board!StoreEntry, Board!Loop, InStore,
       PutIn, Turned, Still, SameData
  <2> QED BY <1>1, <2>1 DEF Moved
<1>12. CASE Board!Ensure(t) \/ Board!RecordSuccess(t) \/ Board!Snapshot(t)
            \/ Board!FlushSnapshot(t)
  <2>1. Again(t) \/ Recorded(t) \/ Snapped(t) \/ Flushed(t)
    BY <1>0, <1>12 DEF Board!Ensure, Board!RecordSuccess, Board!Snapshot, Board!FlushSnapshot,
       Again, Recorded, Snapped, Flushed, Turned, Still, SameData
  <2> QED BY <1>1, <2>1 DEF Moved
<1> QED
  BY <1>3, <1>4, <1>5, <1>6, <1>7, <1>8, <1>9, <1>10, <1>11, <1>12 DEF Board!Handler

LEMMA BoardTypesKeep ==
  ASSUME BoardOf, BoardInv, NEW t \in Tasks, Board!Handler(t)
  PROVE  Board!TypeOK' /\ BoardTypes'
<1> USE DEF Board!board, Board!saved, Board!Goto, Board!Loops, Board!Writing
<1>0. /\ Board!TypeOK /\ BoardTypes /\ LoopOf(t)
      /\ OutputKeys[t] \in Seq(Board!Keys) /\ InputKeys[t] \in Seq(Board!Keys)
      /\ left[t] \in Seq(Board!Keys) /\ <<>> \in Seq(Board!Keys)
      /\ left[t] # <<>> => Tail(left[t]) \in Seq(Board!Keys) /\ Head(left[t]) \in Board!Keys
  BY KeysApart, TailFacts DEF BoardInv, LoopInv, BoardTypes
<1>1. bFailures' = bFailures + 1 /\ bFailures < BoardFailures => bFailures' \in 0..BoardFailures
  BY <1>0 DEF Board!TypeOK, BoardOf, Board!BoundsAssumption
<1>2. \A k \in Board!Keys : /\ Board!SpillPath(k) \in Board!Files
                            /\ file[Board!SpillPath(k)] \in Board!Content
                            /\ entries[k] # Board!NoEntry => entries[k].by \in Tasks
                            /\ Board!NoEntry.spilled = FALSE
  BY <1>0 DEF Board!TypeOK, Board!Files, Board!Entry, Board!NoEntry
<1>3. CASE Board!Start(t) \/ Board!Produce(t) \/ Board!Ensure(t)
  BY <1>0, <1>3 DEF Board!Start, Board!Produce, Board!Ensure, Board!TypeOK, BoardTypes
<1>4. CASE Board!Get(t) \/ Board!ReadPayload(t)
  <2>1. left[t] # <<>>
    BY <1>0, <1>4 DEF Board!Get, Board!ReadPayload, LoopOf
  <2>2. left' \in [Tasks -> Seq(Board!Keys)]
    BY <1>0, <1>4, <2>1 DEF Board!Get, Board!ReadPayload, BoardTypes
  <2>3. seen' \in [Tasks -> [Board!Keys -> Board!Content \cup {Board!Unread, Board!Missing}]]
    <3>1. seen' = seen \/ \E w \in Board!Content \cup {Board!Unread, Board!Missing} :
                            seen' = [seen EXCEPT ![t][Head(left[t])] = w]
      BY <1>0, <1>2, <1>4, <2>1 DEF Board!Get, Board!ReadPayload, Board!See, Board!Content
    <3> DEFINE Row(w) == [seen[t] EXCEPT ![Head(left[t])] = w]
    <3>2. \A w \in Board!Content \cup {Board!Unread, Board!Missing} :
            Row(w) \in [Board!Keys -> Board!Content \cup {Board!Unread, Board!Missing}]
      BY <1>0, <2>1 DEF BoardTypes
    <3>3. seen' = seen \/ \E w \in Board!Content \cup {Board!Unread, Board!Missing} :
                            seen' = [seen EXCEPT ![t] = Row(w)]
      BY <3>1
    <3> HIDE DEF Row
    <3> QED BY <1>0, <3>2, <3>3 DEF BoardTypes
  <2> QED BY <1>0, <1>4, <2>2, <2>3 DEF Board!Get, Board!ReadPayload, Board!TypeOK, BoardTypes
<1>5. CASE Board!Skip(t) \/ Board!SetSmall(t)
  BY <1>0, <1>5 DEF Board!Skip, Board!SetSmall, Board!Storing, Board!Loop, Board!TypeOK,
     BoardTypes
<1>6. CASE Board!OpenFile(t)
  BY <1>0, <1>1, <1>2, <1>6 DEF Board!OpenFile, Board!Filing, Board!Loop, Board!TypeOK,
     Board!Content, BoardTypes
<1>7. CASE Board!FillFile(t)
  <2>1. left[t] # <<>>
    BY <1>0, <1>7 DEF Board!FillFile, LoopOf, InFile
  <2>2. bFailures' \in 0..BoardFailures
    BY <1>0, <1>1, <1>7 DEF Board!FillFile, Board!TypeOK
  <2>3. file' \in [Board!Files -> Board!Content]
    BY <1>0, <1>2, <1>7, <2>1 DEF Board!FillFile, Board!TypeOK, Board!Content
  <2>4. \E where \in {"persist", "ensure", "persist.store", "ensure.store"} :
          \/ Board!Goto(t, where, left[t])
          \/ Board!Goto(t, where, Tail(left[t]))
    BY <1>7 DEF Board!FillFile, Board!Storing, Board!Loop
  <2>5. UNCHANGED <<entries, bDone, checkpoint, size, seen, snap, bCrashes>>
    BY <1>7 DEF Board!FillFile
  <2> HIDE DEF Board!Goto
  <2>6. /\ bAt' \in [Tasks -> {"idle", "get", "read", "snapshot", "flush", "ended"}
                              \cup Board!Loops \cup Board!Writing]
        /\ left' \in [Tasks -> Seq(Board!Keys)]
    BY <1>0, <2>1, <2>4 DEF Board!Goto, Board!TypeOK, BoardTypes
  <2> QED BY <1>0, <2>2, <2>3, <2>5, <2>6 DEF Board!TypeOK, BoardTypes
<1>8. CASE Board!StoreEntry(t)
  <2>1. left[t] # <<>>
    BY <1>0, <1>8 DEF Board!StoreEntry, LoopOf, InStore
  <2> QED BY <1>0, <1>8, <2>1 DEF Board!StoreEntry, Board!Loop, Board!TypeOK, Board!Entry,
       BoardTypes
<1>9. CASE Board!RecordSuccess(t)
  BY <1>0, <1>9 DEF Board!RecordSuccess, Board!TypeOK, BoardTypes
<1>10. CASE Board!Snapshot(t)
  BY <1>0, <1>10 DEF Board!Snapshot, Board!TypeOK, BoardTypes
<1>11. CASE Board!FlushSnapshot(t)
  BY <1>0, <1>11 DEF Board!FlushSnapshot, Board!TypeOK, BoardTypes
<1> QED
  BY <1>3, <1>4, <1>5, <1>6, <1>7, <1>8, <1>9, <1>10, <1>11 DEF Board!Handler

LEMMA LoopKeeps ==
  ASSUME BoardOf, BoardInv, NEW t \in Tasks, Moved(t)
  PROVE  LoopInv'
<1> USE DEF Turned, Still, SameData, InFile, InStore, Persisting, Ensuring, AfterLoops
<1>0. /\ LoopInv /\ left[t] \in Seq(Board!Keys) /\ DependsOn \in [Tasks -> SUBSET Tasks]
      /\ bDone \subseteq Tasks
      /\ \A u \in Tasks : size[u] \in {"small", "big"}
  BY DEF BoardInv, BoardTypes, Board!TypeOK, BoardOf, Board!GraphAssumption
<1>1. /\ left[t] # <<>> => /\ Cur(t) \in Rng(left[t])
                           /\ Once(left[t]) => /\ Once(Tail(left[t]))
                                               /\ Rng(Tail(left[t])) \subseteq Rng(left[t])
      /\ Once(OutputKeys[t])
      /\ Once(<<>>) /\ Rng(<<>>) = {}
  <2>1. Once(<<>>) /\ Rng(<<>>) = {}
    BY DEF Once, Rng
  <2> QED BY <1>0, <2>1, TailFacts, KeysApart DEF Cur
<1>2. ASSUME NEW u \in Tasks, u # t PROVE LoopOf(u)'
  <2>1. /\ bAt'[u] = bAt[u] /\ left'[u] = left[u] /\ size'[u] = size[u]
        /\ LoopOf(u) /\ (u \in bDone' <=> u \in bDone) /\ bDone \subseteq bDone'
    BY <1>0, <1>2 DEF Moved, Apart, LoopInv, Begun, ToRead, Seen, Produced, Skipped, Copied,
       Opened, Failed, Filled, PutIn, Again, Recorded, Snapped, Flushed, OnlyFile
  <2>2. ASSUME bAt[u] \in InStore, size[u] = "big" PROVE file'[Path(Cur(u))] = u
    <3>1. Cur(u) \in Board!Own(u) /\ Cur(u) \in Board!Keys /\ file[Path(Cur(u))] = u
      BY <2>1, <2>2, KeysApart DEF LoopOf
    <3>2. CASE Opened(t) \/ Filled(t)
      <4>1. Cur(t) \in Board!Own(t) /\ OnlyFile(t)
        BY <1>0, <3>2 DEF Opened, Filled, Pending, LoopInv, LoopOf
      <4>2. Path(Cur(u)) # Path(Cur(t))
        BY <1>2, <3>1, <4>1, KeysApart
      <4> QED BY <3>1, <4>1, <4>2 DEF OnlyFile
    <3>3. CASE file' = file
      BY <3>1, <3>3
    <3> QED
      BY <3>2, <3>3 DEF Moved, Begun, ToRead, Seen, Produced, Skipped, Copied,
         Failed, PutIn, Again, Recorded, Snapped, Flushed
  <2>3. (Path(Cur(u)))' = Path(Cur(u))
    BY <2>1 DEF Path, Cur, Board!SpillPath
  <2> QED BY <2>1, <2>2, <2>3 DEF LoopOf, Cur
<1>3. LoopOf(t)'
  <2>0. LoopOf(t)
    BY <1>0 DEF LoopInv
  <2>1. CASE Begun(t) \/ ToRead(t) \/ Seen(t) \/ Produced(t)
    BY <1>0, <1>1, <2>0, <2>1 DEF LoopOf, Begun, ToRead, Seen, Produced, Cur
  <2>2. CASE Skipped(t) \/ Failed(t) \/ PutIn(t)
    BY <1>0, <1>1, <2>0, <2>2 DEF LoopOf, Skipped, Failed, PutIn
  <2>3. CASE Copied(t) \/ Opened(t)
    BY <1>0, <1>1, <2>0, <2>3 DEF LoopOf, Copied, Opened, Pending, OnlyFile, Cur
  <2>4. CASE Filled(t)
    <3>1. (Path(Cur(t)))' = Path(Cur(t))
      BY <2>4 DEF Path, Cur, Board!SpillPath, Filled
    <3> QED BY <1>0, <1>1, <2>0, <2>4, <3>1 DEF LoopOf, Filled, OnlyFile, Cur
  <2>5. CASE Again(t) \/ Recorded(t) \/ Snapped(t) \/ Flushed(t)
    BY <1>0, <1>1, <2>0, <2>5 DEF LoopOf, Again, Recorded, Snapped, Flushed
  <2> QED BY <2>1, <2>2, <2>3, <2>4, <2>5 DEF Moved
<1> QED BY <1>2, <1>3 DEF LoopInv

LEMMA OwnKeeps ==
  ASSUME BoardOf, BoardInv, NEW t \in Tasks, Moved(t)
  PROVE  OwnInv'
<1> USE DEF Turned, Still, SameData, OnlyFile
<1> SUFFICES ASSUME NEW k \in Board!Keys
             PROVE  /\ entries'[k] # Board!NoEntry => k \in Board!Own(entries'[k].by)
                    /\ checkpoint'[k] # Board!NoEntry => k \in Board!Own(checkpoint'[k].by)
                    /\ \A u \in Tasks : snap'[u][k] # Board!NoEntry
                                          => k \in Board!Own(snap'[u][k].by)
  BY DEF OwnInv, Board!Own, Board!Allowed, Board!NoEntry, Board!ToSet, Board!IsStrictPrefix,
     Board!IsPrefix, Board!Keys
<1>0. /\ entries[k] # Board!NoEntry => k \in Board!Own(entries[k].by)
      /\ checkpoint[k] # Board!NoEntry => k \in Board!Own(checkpoint[k].by)
      /\ \A u \in Tasks : snap[u][k] # Board!NoEntry => k \in Board!Own(snap[u][k].by)
      /\ \A u \in Tasks : u # t => snap'[u] = snap[u]
  BY DEF BoardInv, OwnInv, Moved, Apart
<1>1. CASE PutIn(t)
  <2>1. Cur(t) \in Board!Own(t)
    BY <1>1 DEF PutIn, BoardInv, LoopInv, LoopOf, InStore
  <2>2. entries'[k] = entries[k] \/ (k = Cur(t) /\ entries'[k].by = t)
    BY <1>1 DEF PutIn
  <2> QED BY <1>0, <1>1, <2>1, <2>2 DEF PutIn
<1>2. CASE Snapped(t) \/ Flushed(t)
  BY <1>0, <1>2 DEF Snapped, Flushed
<1>3. CASE Begun(t) \/ ToRead(t) \/ Seen(t) \/ Produced(t) \/ Skipped(t) \/ Copied(t)
           \/ Opened(t) \/ Failed(t) \/ Filled(t) \/ Again(t) \/ Recorded(t)
  BY <1>0, <1>3 DEF Begun, ToRead, Seen, Produced, Skipped, Copied, Opened, Failed, Filled,
     Again, Recorded
<1> QED BY <1>1, <1>2, <1>3 DEF Moved

\* Only its owner changes the entry of a key and its file.
LEMMA OthersKeep ==
  ASSUME BoardOf, BoardInv, NEW t \in Tasks, Moved(t), NEW d \in Tasks, NEW k \in Board!Own(d),
         ~ ((PutIn(t) \/ Opened(t) \/ Filled(t)) /\ Cur(t) = k)
  PROVE  entries'[k] = entries[k] /\ file'[Path(k)] = file[Path(k)]
<1>0. k \in Board!Keys
  BY KeysApart
<1>1. CASE Opened(t) \/ Filled(t)
  <2>1. Cur(t) \in Board!Own(t) /\ OnlyFile(t)
    BY <1>1 DEF Opened, Filled, Pending, BoardInv, LoopInv, LoopOf, Turned, InFile
  <2>2. Path(k) # Path(Cur(t))
    BY <1>1, <2>1, KeysApart
  <2> QED BY <1>0, <2>1, <2>2 DEF OnlyFile
<1>2. CASE PutIn(t)
  BY <1>0, <1>2 DEF PutIn
<1> QED
  BY <1>1, <1>2 DEF Moved, Begun, ToRead, Seen, Produced, Skipped, Copied, Failed, Again,
     Recorded, Snapped, Flushed, Still

\* What a handler does at a key of a task d is done by the handler of d, and it is
\* then at that key in a loop.
LEMMA TouchesOwn ==
  ASSUME BoardOf, BoardInv, NEW t \in Tasks, Moved(t), NEW d \in Tasks, NEW k \in Board!Own(d),
         PutIn(t) \/ Opened(t) \/ Filled(t), Cur(t) = k
  PROVE  /\ t = d /\ (~Past(d, k) \/ (Opened(t) /\ bAt[d] = "ensure"))
         /\ t = d /\ Opened(t) /\ bAt[d] = "ensure" => entries[k] = Board!NoEntry
         /\ t = d /\ d \notin bDone /\ k \in Board!Keys
         /\ k \in Rng(left[d]) /\ k \notin Rng(Tail(left[d]))
         /\ PutIn(t) => /\ entries'[k].by = d /\ entries'[k] # Board!NoEntry
                        /\ entries'[k].spilled => file'[Path(k)] = d
<1> USE DEF Turned, InFile, InStore, Persisting, Ensuring, AfterLoops
<1>0. /\ LoopOf(t) /\ left[t] \in Seq(Board!Keys) /\ <<>> \notin Tasks
  BY DEF BoardInv, LoopInv, BoardTypes, BoardOf, Board!GraphAssumption
<1>1. k \in Board!Own(t) /\ left[t] # <<>> /\ bAt[t] \in Persisting \cup Ensuring
  BY <1>0 DEF PutIn, Opened, Filled, Pending, LoopOf
<1>2. t = d /\ k \in Board!Keys
  BY <1>1, KeysApart
<1>3. k \in Rng(left[t]) /\ k \notin Rng(Tail(left[t]))
  BY <1>0, <1>1, TailFacts DEF LoopOf, Cur
<1>4. d \notin bDone
  BY <1>0, <1>1, <1>2 DEF LoopOf
<1>5. PutIn(t) => /\ entries'[k].by = d /\ entries'[k] # Board!NoEntry
                  /\ entries'[k].spilled => file'[Path(k)] = d
  <2> SUFFICES ASSUME PutIn(t) PROVE /\ entries'[k].by = d /\ entries'[k] # Board!NoEntry
                                     /\ entries'[k].spilled => file'[Path(k)] = d
    OBVIOUS
  <2>1. entries'[k] = [by |-> t, spilled |-> size[t] = "big"] /\ file' = file
    BY DEF PutIn
  <2>2. size[t] = "big" => file[Path(k)] = t
    BY <1>0 DEF PutIn, LoopOf
  <2>3. entries'[k].by = t /\ entries'[k].spilled = (size[t] = "big")
    <3>1. \A b \in BOOLEAN : LET e == [by |-> t, spilled |-> b] IN e.by = t /\ e.spilled = b
      OBVIOUS
    <3> QED BY <2>1, <3>1
  <2>4. entries'[k] # Board!NoEntry
    BY <1>0, <2>3 DEF Board!NoEntry
  <2> QED BY <1>2, <2>1, <2>2, <2>3, <2>4
<1>6. ~Past(d, k) \/ (Opened(t) /\ bAt[d] = "ensure")
  BY <1>2, <1>3 DEF Past, PutIn, Opened, Filled
<1>7. Opened(t) /\ bAt[t] = "ensure" => entries[k] = Board!NoEntry
  BY DEF Opened, Pending
<1> QED BY <1>2, <1>3, <1>4, <1>5, <1>6, <1>7

\* A handler that has gone past a key in the map stays past it.
LEMMA PastKeeps ==
  ASSUME BoardOf, BoardInv, NEW t \in Tasks, Moved(t), NEW d \in Tasks, NEW k \in Board!Own(d),
         Past(d, k), entries[k] # Board!NoEntry
  PROVE  Past(d, k)'
<1> USE DEF Turned, InFile, InStore, Persisting, Ensuring, AfterLoops
<1>0. LoopOf(t) /\ left[t] \in Seq(Board!Keys)
  BY DEF BoardInv, LoopInv, BoardTypes
<1>1. CASE t # d
  BY <1>1 DEF Moved, Apart, Past, Cur
<1>2. CASE t = d
  <2>1. bAt[d] \in Persisting /\ left[d] # <<>> /\ k \notin Rng(left[d])
          => k \notin Rng(Tail(left[d]))
    BY <1>0, <1>2, TailFacts DEF LoopOf
  <2>2. CASE Begun(t) \/ ToRead(t) \/ Seen(t) \/ Produced(t) \/ Skipped(t) \/ Failed(t)
             \/ PutIn(t)
    BY <1>0, <1>2, <2>1, <2>2 DEF Past, Begun, ToRead, Seen, Produced, Skipped, Failed, PutIn,
       LoopOf
  <2>3. CASE Copied(t) \/ Opened(t)
    BY <1>2, <2>3 DEF Past, Copied, Opened, Pending, Cur
  <2>4. CASE Filled(t)
    BY <1>2, <2>4 DEF Past, Filled, Cur
  <2>5. CASE Again(t) \/ Recorded(t) \/ Snapped(t) \/ Flushed(t)
    BY <1>2, <2>5 DEF Past, Again, Recorded, Snapped, Flushed
  <2> QED BY <2>2, <2>3, <2>4, <2>5 DEF Moved
<1> QED BY <1>1, <1>2

\* What a snapshot or the row of the run holds comes from the map.
LEMMA CopiesKeep ==
  ASSUME NEW t \in Tasks, Moved(t), NEW k
  PROVE  /\ checkpoint'[k] = checkpoint[k] \/ (checkpoint'[k] = snap[t][k] /\ entries' = entries)
         /\ \A u \in Tasks : \/ snap'[u][k] = snap[u][k]
                             \/ snap'[u][k] = entries[k] /\ entries' = entries
<1>1. CASE Snapped(t) \/ Flushed(t)
  BY <1>1 DEF Snapped, Flushed, Still, SameData, Moved, Apart
<1>2. CASE Begun(t) \/ ToRead(t) \/ Seen(t) \/ Produced(t) \/ Skipped(t) \/ Copied(t)
           \/ Opened(t) \/ Failed(t) \/ Filled(t) \/ Again(t) \/ Recorded(t) \/ PutIn(t)
  BY <1>2 DEF Begun, ToRead, Seen, Produced, Skipped, Copied, Opened, Failed, Filled,
     Again, Recorded, PutIn, Still, SameData, OnlyFile, Moved, Apart
<1> QED BY <1>1, <1>2 DEF Moved

LEMMA OnceKeeps ==
  ASSUME BoardOf, BoardInv, NEW t \in Tasks, Moved(t), NEW d \in Tasks, NEW k \in Board!Own(d),
         bCrashes = 0
  PROVE  KeptOnce(d, k)'
<1> SUFFICES
      /\ entries'[k] # Board!NoEntry
           => (entries'[k].spilled => file'[Path(k)] = entries'[k].by) /\ Past(d, k)'
      /\ checkpoint'[k] \in {Board!NoEntry, entries'[k]}
      /\ \A u \in Tasks : snap'[u][k] \in {Board!NoEntry, entries'[k]}
  BY DEF KeptOnce, Whole, Path, Board!SpillPath, Board!NoEntry
<1>0. KeptOnce(d, k)
  BY DEF BoardInv, KeptInv
<1>1. CASE PutIn(t) /\ Cur(t) = k
  <2>1. entries[k] = Board!NoEntry
    BY <1>0, <1>1, TouchesOwn DEF KeptOnce, PutIn, Opened, Turned
  <2>2. entries'[k].spilled => file'[Path(k)] = entries'[k].by
    BY <1>1, TouchesOwn
  <2>3. Past(d, k)'
    BY <1>1, TouchesOwn DEF Past, PutIn, Turned, Persisting
  <2>4. checkpoint' = checkpoint /\ \A u \in Tasks : snap'[u] = snap[u]
    BY <1>1 DEF PutIn, SameData, Moved, Apart
  <2> QED BY <1>0, <2>1, <2>2, <2>3, <2>4 DEF KeptOnce
<1>2. CASE (Opened(t) \/ Filled(t)) /\ Cur(t) = k
  <2>1. entries[k] = Board!NoEntry
    BY <1>0, <1>2, TouchesOwn DEF KeptOnce
  <2>2. entries' = entries
    BY <1>2 DEF Opened, Filled, OnlyFile
  <2> QED BY <1>0, <2>1, <2>2, CopiesKeep DEF KeptOnce
<1>3. CASE ~ ((PutIn(t) \/ Opened(t) \/ Filled(t)) /\ Cur(t) = k)
  <2>1. entries'[k] = entries[k] /\ file'[Path(k)] = file[Path(k)]
    BY <1>3, OthersKeep
  <2>2. entries[k] # Board!NoEntry => Past(d, k)'
    BY <1>0, PastKeeps DEF KeptOnce
  <2> QED BY <1>0, <2>1, <2>2, CopiesKeep DEF KeptOnce, Whole
<1> QED BY <1>1, <1>2, <1>3

LEMMA TwiceKeeps ==
  ASSUME BoardOf, BoardInv, NEW t \in Tasks, Moved(t), NEW d \in Tasks, NEW k \in Board!Own(d),
         KeptTwice(d, k), bFailures' = 0
  PROVE  KeptTwice(d, k)'
<1> SUFFICES
      \/ bAt'[d] \in InFile /\ Head(left'[d]) = k
      \/ /\ entries'[k].spilled => file'[Path(k)] = entries'[k].by
         /\ checkpoint'[k].spilled => file'[Path(k)] = checkpoint'[k].by
         /\ \A u \in Tasks : snap'[u][k].spilled => file'[Path(k)] = snap'[u][k].by
  BY DEF KeptTwice, Whole, Cur, Path, Board!SpillPath
<1>0. /\ k \in Board!Keys /\ Board!NoEntry.spilled = FALSE
      /\ entries[k] # Board!NoEntry => entries[k].by = d
      /\ checkpoint[k] # Board!NoEntry => checkpoint[k].by = d
      /\ \A u \in Tasks : snap[u][k] # Board!NoEntry => snap[u][k].by = d
  <2>1. k \in Board!Keys /\ Board!NoEntry.spilled = FALSE
    BY KeysApart DEF Board!NoEntry
  <2>2. \A e \in Board!Entry \cup {Board!NoEntry} : e # Board!NoEntry => e.by \in Tasks
    BY DEF Board!Entry
  <2>3. /\ entries[k] \in Board!Entry \cup {Board!NoEntry}
        /\ checkpoint[k] \in Board!Entry \cup {Board!NoEntry}
        /\ \A u \in Tasks : snap[u][k] \in Board!Entry \cup {Board!NoEntry}
    BY <2>1 DEF BoardInv, BoardTypes, Board!TypeOK
  <2> QED BY <2>1, <2>2, <2>3, KeysApart DEF BoardInv, OwnInv
<1>1. CASE Opened(t) /\ Cur(t) = k
  BY <1>1, TouchesOwn DEF Opened, Turned, InFile, Cur
<1>2. CASE Filled(t) /\ Cur(t) = k
  <2>1. file'[Path(k)] = d /\ entries' = entries
    BY <1>2, TouchesOwn DEF Filled, OnlyFile
  <2> QED BY <1>0, <2>1, CopiesKeep
<1>3. CASE PutIn(t) /\ Cur(t) = k
  <2>1. /\ entries'[k].spilled => file'[Path(k)] = entries'[k].by
        /\ file' = file /\ checkpoint' = checkpoint /\ \A u \in Tasks : snap'[u] = snap[u]
        /\ bAt[d] \notin InFile
    BY <1>3, TouchesOwn DEF PutIn, SameData, Moved, Apart, Turned, InFile
  <2> QED BY <2>1 DEF KeptTwice, Whole
<1>4. CASE ~ ((PutIn(t) \/ Opened(t) \/ Filled(t)) /\ Cur(t) = k)
  <2>1. entries'[k] = entries[k] /\ file'[Path(k)] = file[Path(k)]
    BY <1>4, OthersKeep
  <2>2. CASE bAt[d] \in InFile /\ Cur(d) = k
    <3>1. bAt'[d] = bAt[d] /\ left'[d] = left[d]
      BY <1>4, <2>2 DEF Moved, Apart, Begun, ToRead, Seen, Produced, Skipped, Copied, Opened,
         Failed, Filled, PutIn, Again, Recorded, Snapped, Flushed, Turned, InFile
    <3> QED BY <2>2, <3>1 DEF Cur
  <2>3. CASE ~ (bAt[d] \in InFile /\ Cur(d) = k)
    BY <2>1, <2>3, CopiesKeep DEF KeptTwice, Whole
  <2> QED BY <2>2, <2>3
<1> QED BY <1>1, <1>2, <1>3, <1>4

LEMMA StoredKeeps ==
  ASSUME BoardOf, BoardInv, NEW t \in Tasks, Moved(t), NEW d \in Tasks, NEW k \in Board!Own(d),
         \A l \in Board!Own(d) : Stored(d, l), bFailures' = 0
  PROVE  Stored(d, k)'
<1> USE DEF Turned, Persisting
<1> SUFFICES
      /\ (bAt'[d] \in Persisting /\ k \notin Rng(left'[d])) \/ bAt'[d] = "ensure" \/ d \in bDone'
           => (entries'[k].spilled => file'[Path(k)] = entries'[k].by)
      /\ (bAt'[d] \in Persisting /\ k \notin Rng(left'[d])) \/ bAt'[d] = "ensure"
           => entries'[k] # Board!NoEntry
      /\ bAt'[d] \notin {"ensure.file", "ensure.store"}
  BY DEF Stored, Whole, Path, Board!SpillPath, Rng, Board!NoEntry
<1>1. CASE (PutIn(t) \/ Opened(t) \/ Filled(t)) /\ Cur(t) = k
  <2>1. CASE PutIn(t)
    BY <1>1, <2>1, TouchesOwn DEF Stored, PutIn
  <2>2. CASE Opened(t) \/ Filled(t)
    BY <1>1, <2>2, TouchesOwn DEF Stored, Opened, Filled, OnlyFile
  <2> QED BY <1>1, <2>1, <2>2
<1>2. CASE ~ ((PutIn(t) \/ Opened(t) \/ Filled(t)) /\ Cur(t) = k)
  <2>1. entries'[k] = entries[k] /\ file'[Path(k)] = file[Path(k)]
    BY <1>2, OthersKeep
  <2>2. CASE t # d
    <3>1. bAt'[d] = bAt[d] /\ left'[d] = left[d] /\ (d \in bDone' <=> d \in bDone)
      BY <2>2 DEF Moved, Apart, Begun, ToRead, Seen, Produced, Skipped, Copied, Opened, Still,
         Failed, Filled, PutIn, Again, Recorded, Snapped, Flushed, OnlyFile
    <3> QED BY <2>1, <3>1 DEF Stored, Whole
  <2>3. CASE t = d
    <3>1. /\ LoopOf(d) /\ left[d] \in Seq(Board!Keys) /\ k \in Rng(OutputKeys[d])
          /\ Rng(<<>>) = {}
      <4>1. Rng(<<>>) = {}
        BY DEF Rng
      <4> QED BY <4>1, KeysApart DEF BoardInv, LoopInv, BoardTypes
    <3>2. bAt[d] \in Persisting /\ left[d] # <<>> /\ Cur(d) # k /\ k \notin Rng(Tail(left[d]))
            => k \notin Rng(left[d])
      BY <3>1, TailFacts DEF LoopOf, Cur
    <3>3. CASE Begun(t) \/ ToRead(t) \/ Seen(t) \/ Produced(t)
      BY <2>1, <2>3, <3>1, <3>3 DEF Stored, Whole, Begun, ToRead, Seen, Produced, Still
    <3>4. CASE Skipped(t)
      BY <2>1, <2>3, <3>1, <3>2, <3>4 DEF Stored, Whole, Skipped, Still
    <3>5. CASE Copied(t) \/ Opened(t)
      <4>1. bAt[t] # "ensure"
        BY <2>3, <3>1, <3>5 DEF Stored, Copied, Opened, Pending
      <4> QED BY <2>1, <2>3, <3>1, <3>5, <4>1 DEF Stored, Whole, Copied, Opened, Still, OnlyFile
    <3>6. CASE Filled(t) \/ PutIn(t)
      BY <1>2, <2>1, <2>3, <3>1, <3>2, <3>6 DEF Stored, Whole, Filled, PutIn, OnlyFile, LoopOf,
         InFile, InStore
    <3>7. CASE Again(t) \/ Recorded(t) \/ Snapped(t) \/ Flushed(t)
      BY <2>1, <2>3, <3>1, <3>7 DEF Stored, Whole, Again, Recorded, Snapped, Flushed, Still
    <3>8. ~Failed(t)
      BY DEF Failed
    <3> QED BY <3>3, <3>4, <3>5, <3>6, <3>7, <3>8 DEF Moved
  <2> QED BY <2>2, <2>3
<1> QED BY <1>1, <1>2

LEMMA KeptKeeps ==
  ASSUME BoardOf, BoardInv, NEW t \in Tasks, Moved(t), bFailures' = 0 => bFailures = 0
  PROVE  KeptInv'
<1> SUFFICES ASSUME NEW d \in Tasks, NEW k \in Board!Own(d)
             PROVE  /\ bCrashes' = 0 => KeptOnce(d, k)'
                    /\ bFailures' = 0 /\ bCrashes' <= 1 => KeptTwice(d, k)'
                    /\ bFailures' = 0 /\ bCrashes' <= 2 => Stored(d, k)'
  BY DEF KeptInv, Board!Own, Board!Allowed, Board!ToSet, Board!IsStrictPrefix, Board!IsPrefix
<1>1. bCrashes' = bCrashes
  BY DEF Moved, Apart
<1>2. /\ bFailures = 0 /\ bCrashes <= 1 => KeptTwice(d, k)
      /\ bFailures = 0 /\ bCrashes <= 2 => \A l \in Board!Own(d) : Stored(d, l)
  BY DEF BoardInv, KeptInv
<1>3. bCrashes' = 0 => KeptOnce(d, k)'
  BY <1>1, OnceKeeps
<1>4. bFailures' = 0 /\ bCrashes' <= 1 => KeptTwice(d, k)'
  BY <1>1, <1>2, TwiceKeeps
<1>5. bFailures' = 0 /\ bCrashes' <= 2 => Stored(d, k)'
  BY <1>1, <1>2, StoredKeeps
<1> QED BY <1>3, <1>4, <1>5

\* What is in the map for a task that is done can be read.
LEMMA DoneIsWhole ==
  ASSUME BoardOf, BoardInv, Calm, NEW d \in bDone, NEW k \in Board!Own(d)
  PROVE  Whole(entries[k], k) /\ d \in Tasks /\ (entries[k] # Board!NoEntry => entries[k].by = d)
<1>1. d \in Tasks /\ <<>> \notin Tasks /\ k \in Board!Keys
  BY KeysApart DEF BoardInv, Board!TypeOK, BoardOf, Board!GraphAssumption
<1>2. Whole(entries[k], k)
  BY <1>1 DEF BoardInv, KeptInv, Calm, KeptOnce, Stored, Whole, Board!NoEntry
<1>3. entries[k] # Board!NoEntry => entries[k].by = d
  <2>1. entries[k] \in Board!Entry \cup {Board!NoEntry}
    BY <1>1 DEF BoardInv, Board!TypeOK
  <2>2. entries[k] # Board!NoEntry => entries[k].by \in Tasks
    BY <2>1 DEF Board!Entry
  <2> QED BY <1>1, <2>2, KeysApart DEF BoardInv, OwnInv
<1> QED BY <1>1, <1>2, <1>3

LEMMA SeenKeeps ==
  ASSUME BoardOf, BoardInv, NEW t \in Tasks, Moved(t), Calm
  PROVE  SeenInv'
<1> USE DEF Turned
<1> SUFFICES ASSUME NEW u \in Tasks, NEW d \in DependsOn[u], NEW k \in Board!Own(d)
             PROVE  /\ seen'[u][k] \in {Board!Unread, Board!Missing, d}
                    /\ bAt'[u] = "read" /\ Head(left'[u]) = k => entries'[k].spilled
  BY DEF SeenInv, SeenOf, Cur, Board!Unread, Board!Missing, Board!Own, Board!Allowed,
     Board!ToSet, Board!IsStrictPrefix, Board!IsPrefix
<1>0. d \in Tasks /\ k \in Board!Keys
  BY KeysApart DEF BoardOf, Board!GraphAssumption
<1>1. SeenOf(u, d, k) /\ LoopOf(u)
  BY DEF BoardInv, SeenInv, LoopInv
<1>2. bAt[u] = "read" => entries'[k] = entries[k]
  <2> SUFFICES ASSUME bAt[u] = "read" PROVE entries'[k] = entries[k]
    OBVIOUS
  <2>1. d \in bDone
    BY <1>1 DEF LoopOf
  <2> QED BY <1>0, <2>1, OthersKeep, TouchesOwn
<1>3. CASE u # t
  BY <1>1, <1>2, <1>3 DEF Moved, Apart, SeenOf, Cur
<1>4. CASE u = t
  <2>1. CASE ToRead(t)
    BY <1>1, <1>4, <2>1 DEF ToRead, Still, SameData, SeenOf, Cur
  <2>2. CASE Seen(t)
    <3>1. Whole(entries[k], k) /\ (entries[k] # Board!NoEntry => entries[k].by = d)
      BY <1>1, <1>4, <2>2, DoneIsWhole DEF Seen, LoopOf
    <3>2. Board!NoEntry.spilled = FALSE
      BY DEF Board!NoEntry
    <3>3. Cur(t) = k => seen'[t][k] \in {Board!Missing, d}
      BY <1>1, <1>4, <2>2, <3>1, <3>2 DEF Seen, SeenOf, Whole
    <3>4. Cur(t) # k => seen'[t][k] = seen[t][k]
      BY <1>0, <2>2 DEF Seen
    <3> QED BY <1>1, <1>4, <2>2, <3>3, <3>4 DEF Seen, SeenOf
  <2>3. CASE Begun(t) \/ Produced(t) \/ Skipped(t) \/ Copied(t) \/ Opened(t) \/ Failed(t)
             \/ Filled(t) \/ PutIn(t) \/ Again(t) \/ Recorded(t) \/ Snapped(t) \/ Flushed(t)
    <3>1. seen'[t] = seen[t] /\ bAt'[t] # "read"
      BY <2>3 DEF Begun, Produced, Skipped, Copied, Opened, Failed, Filled, PutIn, Again,
         Recorded, Snapped, Flushed, SameData
    <3> QED BY <1>1, <1>4, <3>1 DEF SeenOf
  <2> QED BY <2>1, <2>2, <2>3 DEF Moved
<1> QED BY <1>3, <1>4

LEMMA HandlerKeeps ==
  ASSUME BoardOf, BoardInv, NEW t \in Tasks, Board!Handler(t) PROVE BoardInv'
<1>1. Moved(t)
  BY HandlerMoves
<1>2. bCrashes' = bCrashes /\ (bFailures' = 0 => bFailures = 0)
  <2>1. bFailures \in Nat
    BY DEF BoardInv, Board!TypeOK, BoardOf, Board!BoundsAssumption
  <2>2. bFailures' = bFailures \/ bFailures' # 0
    BY <1>1 DEF Moved, Begun, ToRead, Seen, Produced, Skipped, Copied, Opened, Failed, Filled,
       PutIn, Again, Recorded, Snapped, Flushed, OnlyFile
  <2> QED BY <1>1, <2>1, <2>2 DEF Moved, Apart
<1>3. Board!TypeOK' /\ BoardTypes'
  BY BoardTypesKeep
<1>4. LoopInv' /\ OwnInv' /\ KeptInv'
  BY <1>1, <1>2, LoopKeeps, OwnKeeps, KeptKeeps
<1>5. SeenInv'
  <2>1. Calm' => Calm
    BY <1>2 DEF Calm
  <2>2. CASE Calm
    BY <1>1, <2>2, SeenKeeps
  <2>3. CASE ~Calm
    BY <2>1, <2>3 DEF SeenInv
  <2> QED BY <2>2, <2>3
<1> QED BY <1>3, <1>4, <1>5 DEF BoardInv

\* After the first crash the map is what was saved before it, and whole; after the
\* second, what the tasks that were done by then have left in it.
LEMMA RestoreKeeps ==
  ASSUME BoardOf, BoardInv, Board!Restore PROVE BoardInv'
<1>0. /\ bCrashes \in Nat /\ bCrashes' = bCrashes + 1 /\ bCrashes' \in 0..BoardCrashes
      /\ bFailures' = bFailures
  BY DEF BoardInv, Board!TypeOK, Board!Restore, BoardOf, Board!BoundsAssumption
<1>1. /\ entries' = checkpoint /\ bAt' = [t \in Tasks |-> "idle"]
      /\ left' = [t \in Tasks |-> <<>>]
      /\ seen' = [t \in Tasks |-> [k \in Board!Keys |-> Board!Unread]]
      /\ snap' = [t \in Tasks |-> Board!NoSnap]
      /\ UNCHANGED <<file, size, bDone, checkpoint>>
  BY DEF Board!Restore
<1>2. \A t \in Tasks : \A k \in Board!Keys :
        snap'[t][k] = Board!NoEntry /\ seen'[t][k] = Board!Unread
  BY <1>1 DEF Board!NoSnap
<1>3. Board!TypeOK' /\ BoardTypes'
  <2>1. snap' \in [Tasks -> [Board!Keys -> Board!Entry \cup {Board!NoEntry}]]
    BY <1>1 DEF Board!NoSnap
  <2>2. seen' \in [Tasks -> [Board!Keys -> Board!Content \cup {Board!Unread, Board!Missing}]]
    BY <1>1
  <2> QED BY <1>0, <1>1, <2>1, <2>2 DEF BoardInv, Board!TypeOK, BoardTypes
<1>4. LoopInv'
  BY <1>1 DEF BoardInv, LoopInv, LoopOf, Persisting, Ensuring, InFile, InStore, AfterLoops
<1>5. OwnInv'
  <2> SUFFICES ASSUME NEW k \in Board!Keys
               PROVE  /\ entries'[k] # Board!NoEntry => k \in Board!Own(entries'[k].by)
                      /\ checkpoint'[k] # Board!NoEntry => k \in Board!Own(checkpoint'[k].by)
                      /\ \A t \in Tasks : snap'[t][k] # Board!NoEntry
                                            => k \in Board!Own(snap'[t][k].by)
    BY DEF OwnInv, Board!Own, Board!Allowed, Board!NoEntry, Board!ToSet, Board!IsStrictPrefix,
       Board!IsPrefix, Board!Keys
  <2> QED BY <1>1, <1>2 DEF BoardInv, OwnInv
<1>6. KeptInv'
  <2> SUFFICES ASSUME NEW d \in Tasks, NEW k \in Board!Own(d)
               PROVE  /\ bCrashes' = 0 => KeptOnce(d, k)'
                      /\ bFailures' = 0 /\ bCrashes' <= 1 => KeptTwice(d, k)'
                      /\ bFailures' = 0 /\ bCrashes' <= 2 => Stored(d, k)'
    BY DEF KeptInv, Board!Own, Board!Allowed, Board!ToSet, Board!IsStrictPrefix, Board!IsPrefix
  <2>0. bCrashes' # 0 /\ (bCrashes' <= 1 => bCrashes = 0) /\ (bCrashes' <= 2 => bCrashes <= 1)
    BY <1>0
  <2>1. k \in Board!Keys /\ Board!NoEntry.spilled = FALSE
    BY KeysApart DEF Board!NoEntry
  <2>2. bCrashes = 0 => (checkpoint[k].spilled => file[Path(k)] = checkpoint[k].by)
    BY <2>1 DEF BoardInv, KeptInv, KeptOnce, Whole
  <2>3. bFailures = 0 /\ bCrashes <= 1 /\ d \in bDone
          => (checkpoint[k].spilled => file[Path(k)] = checkpoint[k].by)
    BY DEF BoardInv, KeptInv, KeptTwice, Whole, LoopInv, LoopOf, InFile, AfterLoops
  <2>4. (bFailures' = 0 /\ bCrashes' <= 1) => KeptTwice(d, k)'
    <3> SUFFICES ASSUME bFailures' = 0, bCrashes' <= 1
                 PROVE  /\ entries'[k].spilled => file'[Path(k)] = entries'[k].by
                        /\ checkpoint'[k].spilled => file'[Path(k)] = checkpoint'[k].by
                        /\ \A t \in Tasks : snap'[t][k].spilled => file'[Path(k)] = snap'[t][k].by
      BY DEF KeptTwice, Whole, Path, Board!SpillPath
    <3> QED BY <1>1, <1>2, <2>0, <2>1, <2>2
  <2>5. (bFailures' = 0 /\ bCrashes' <= 2) => Stored(d, k)'
    <3> SUFFICES ASSUME bFailures' = 0, bCrashes' <= 2
                 PROVE  /\ bAt'[d] = "idle"
                        /\ d \in bDone' => (entries'[k].spilled => file'[Path(k)] = entries'[k].by)
      BY DEF Stored, Whole, Path, Board!SpillPath, Persisting
    <3> QED BY <1>0, <1>1, <2>0, <2>3
  <2> QED BY <2>0, <2>4, <2>5
<1>7. SeenInv'
  <2> SUFFICES ASSUME NEW u \in Tasks, NEW d \in DependsOn[u], NEW k \in Board!Own(d)
               PROVE  /\ seen'[u][k] \in {Board!Unread, Board!Missing, d}
                      /\ bAt'[u] = "read" /\ Head(left'[u]) = k => entries'[k].spilled
    BY DEF SeenInv, SeenOf, Cur, Board!Unread, Board!Missing, Board!Own, Board!Allowed,
       Board!ToSet, Board!IsStrictPrefix, Board!IsPrefix
  <2>1. k \in Board!Keys
    BY KeysApart DEF BoardOf, Board!GraphAssumption
  <2> QED BY <1>1, <1>2, <2>1
<1> QED BY <1>3, <1>4, <1>5, <1>6, <1>7 DEF BoardInv

LEMMA BoardInit == ASSUME BoardOf, Board!Init PROVE BoardInv
<1> USE DEF BoardOf, Board!BoundsAssumption, Board!Init
<1>1. \A k \in Board!Keys : /\ entries[k] = Board!NoEntry /\ checkpoint[k] = Board!NoEntry
                            /\ \A t \in Tasks : /\ snap[t][k] = Board!NoEntry
                                                /\ seen[t][k] = Board!Unread
  BY DEF Board!NoSnap
<1>2. Board!TypeOK /\ BoardTypes
  BY DEF Board!TypeOK, BoardTypes, Board!NoSnap, Board!Content, Board!Loops, Board!Writing
<1>3. LoopInv
  BY DEF LoopInv, LoopOf, Persisting, Ensuring, InFile, InStore, AfterLoops
<1>4. OwnInv
  BY <1>1 DEF OwnInv
<1>5. KeptInv
  <2>1. Board!NoEntry.spilled = FALSE
    BY DEF Board!NoEntry
  <2> QED BY <1>1, <2>1, KeysApart DEF KeptInv, KeptOnce, KeptTwice, Stored, Whole, Persisting
<1>6. SeenInv
  BY <1>1, KeysApart DEF SeenInv, SeenOf, Board!GraphAssumption
<1> QED BY <1>2, <1>3, <1>4, <1>5, <1>6 DEF BoardInv

LEMMA BoardStep == ASSUME BoardOf, BoardInv, [Board!Next]_(Board!vars) PROVE BoardInv'
<1>1. CASE Board!Restore
  BY <1>1, RestoreKeeps
<1>2. ASSUME NEW t \in Tasks, Board!Handler(t) PROVE BoardInv'
  BY <1>2, HandlerKeeps
<1>3. CASE UNCHANGED Board!vars
  <2> USE <1>3 DEF Board!vars
  <2>1. Board!TypeOK' /\ BoardTypes'
    BY DEF BoardInv, Board!TypeOK, BoardTypes
  <2>2. LoopInv'
    BY DEF BoardInv, LoopInv, LoopOf, Cur, Path, Board!SpillPath, Board!Own, Board!Allowed
  <2>3. OwnInv'
    BY DEF BoardInv, OwnInv
  <2>4. KeptInv'
    BY DEF BoardInv, KeptInv, KeptOnce, KeptTwice, Stored, Past, Whole, Cur, Path,
       Board!SpillPath
  <2>5. SeenInv'
    BY DEF BoardInv, SeenInv, SeenOf, Calm, Cur
  <2> QED BY <2>1, <2>2, <2>3, <2>4, <2>5 DEF BoardInv
<1> QED BY <1>1, <1>2, <1>3 DEF Board!Next

LEMMA BoardImply == ASSUME BoardOf, BoardInv PROVE Board!BoardIsSound
<1>1. ASSUME Calm PROVE Board!InputsAreWhole
  <2> SUFFICES ASSUME NEW t \in Tasks, NEW d \in DependsOn[t],
                      NEW k \in Board!ToSet(OutputKeys[d]), Board!Allowed(d, k)
               PROVE  seen[t][k] \in {Board!Unread, Board!Missing, d}
    BY DEF Board!InputsAreWhole
  <2> QED BY <1>1 DEF BoardInv, SeenInv, SeenOf, Board!Own
<1>2. ASSUME Calm PROVE Board!EntriesAreReadable
  <2> SUFFICES ASSUME NEW k \in Board!Keys, entries[k].spilled, entries[k].by \in bDone
               PROVE  file[Path(k)] = entries[k].by
    BY DEF Board!EntriesAreReadable, Path
  <2>1. k \in Board!Own(entries[k].by)
    BY DEF BoardInv, OwnInv, Board!NoEntry
  <2> QED BY <1>2, <2>1, DoneIsWhole DEF Whole
<1> QED BY <1>1, <1>2 DEF Board!BoardIsSound, BoardInv, Calm

\* A task finds the whole payloads of its dependencies or none, and the map can be
\* read, as long as the process does not die, or dies at most twice and no write
\* fails: for any tasks, keys and interleavings (blackboard.go, Set and Get).
THEOREM BoardHolds == ASSUME BoardOf PROVE Board!Spec => []BoardIsSound
BY BoardInit, BoardStep, BoardImply, PTL DEF Board!Spec, BoardIsSound

-----------------------------------------------------------------------------
(* The requests to the model                                               *)

LlmOf == LLM!RunsAssumption /\ LLM!RetriesAssumption

Stations == {"idle", "loop", "send", "answered", "asleep", "returned"}

\* The instance has names of its own for what FiniteSets defines.
LEMMA SameCardinality == \A S : LLM!Cardinality(S) = Cardinality(S)
BY DEF LLM!Cardinality, Cardinality

LEMMA CallsFinite == ASSUME LlmOf PROVE /\ IsFiniteSet(Calls) /\ ExecOf \in [Calls -> Execs]
                                               /\ RunOf \in [Execs -> Runs]
                                               /\ ClientOf \in [Execs -> Clients]
                                               /\ 0 \notin Execs
BY DEF LlmOf, LLM!RunsAssumption, LLM!IsFiniteSet, IsFiniteSet

LlmTypes ==
  /\ lAt \in [Calls -> Stations]
  /\ attempt \in [Calls -> Nat] /\ sent \in [Calls -> Nat]
  /\ last \in [Calls -> LLM!Answers \cup {"none"}]
  /\ lEnded \in SUBSET Calls
  /\ lResult \in [Calls -> LLM!Errors \cup {"ok", "none"}]
  /\ usage \in [Calls -> {0, 1}] /\ total \in [Clients -> Nat]

\* What Clients and rows hold, apart from the calls.
RowTypes ==
  /\ recorded \in [Runs -> -1..Cardinality(Calls)]
  /\ phase \in [Execs -> {"idle", "loaded", "running", "flushed", "dropped"}]
  /\ loaded \in [Execs -> 0..Cardinality(Calls)]
  /\ flusher \in [Runs -> Execs \cup {0}]

\* The loop variable counts the requests sent, or all but the last of them, and
\* goes up behind a transient failure only.
CallInv(c) ==
  /\ attempt[c] <= MaxRetries /\ sent[c] <= MaxRetries + 1
  /\ lAt[c] \in {"idle", "loop", "send"} =>
       sent[c] = attempt[c] /\ (attempt[c] > 0 => last[c] \in LLM!Transient)
  /\ lAt[c] \in {"answered", "asleep"} => sent[c] = attempt[c] + 1
  /\ lAt[c] = "asleep" => attempt[c] < MaxRetries /\ last[c] \in LLM!Transient
  /\ lResult[c] = "exhausted" => sent[c] = MaxRetries + 1
  /\ lResult[c] = "refused" => last[c] = "refused"
  /\ lResult[c] # "none" => lAt[c] = "returned"
  /\ lAt[c] # "returned" => usage[c] = 0

KeyOf(c) == ClientOf[ExecOf[c]]
Used(k) == {c \in Calls : KeyOf(c) = k /\ usage[c] = 1}

\* A client's counter is what its calls have used.
TotalInv == \A k \in Clients : total[k] = Cardinality(Used(k))

\* The calls of an execution that has ended have returned, and the end that wrote
\* a row last left nothing out.
RowInv ==
  /\ \A c \in Calls : phase[ExecOf[c]] = "flushed" => lAt[c] \in {"idle", "returned"}
  /\ LLM!NeverUndercounted

LlmInv == LlmTypes /\ RowTypes /\ (\A c \in Calls : CallInv(c)) /\ TotalInv /\ RowInv

Counted(c) == total' = [total EXCEPT ![KeyOf(c)] = @ + 1]

\* A step of one call, without its EXCEPTs.
MoveOf(c) ==
  \/ /\ lAt[c] = "idle" /\ lAt'[c] = "loop" /\ LLM!Calling(ExecOf[c])
     /\ UNCHANGED <<attempt[c], sent[c], last[c], lResult[c], usage[c], total>>
  \/ /\ lAt[c] = "loop" /\ lAt'[c] = "returned" /\ lResult'[c] = "cancelled"
     /\ UNCHANGED <<attempt[c], sent[c], last[c], usage[c], total>>
  \/ /\ lAt[c] = "loop" /\ lAt'[c] = "send"
     /\ UNCHANGED <<attempt[c], sent[c], last[c], lResult[c], usage[c], total>>
  \/ /\ lAt[c] = "send" /\ lAt'[c] = "returned" /\ lResult'[c] = "cancelled"
     /\ UNCHANGED <<attempt[c], sent[c], last[c], usage[c], total>>
  \/ /\ lAt[c] = "send" /\ c \notin lEnded /\ lAt'[c] = "answered"
     /\ sent'[c] = sent[c] + 1 /\ last'[c] \in LLM!Answers
     /\ UNCHANGED <<attempt[c], lResult[c], usage[c], total>>
  \/ /\ lAt[c] = "answered" /\ lAt'[c] = "asleep"
     /\ last[c] \in LLM!Transient /\ attempt[c] < MaxRetries
     /\ UNCHANGED <<attempt[c], sent[c], last[c], lResult[c], usage[c], total>>
  \/ /\ lAt[c] = "asleep" /\ lAt'[c] = "loop" /\ attempt'[c] = attempt[c] + 1
     /\ UNCHANGED <<sent[c], last[c], lResult[c], usage[c], total>>
  \/ /\ lAt[c] = "answered" /\ lAt'[c] = "returned"
     /\ lResult'[c] \in LLM!Errors \cup {"ok"}
     /\ lResult'[c] = "exhausted" => last[c] = "busy" /\ ~(attempt[c] < MaxRetries)
     /\ lResult'[c] = "refused" => last[c] = "refused"
     /\ UNCHANGED <<attempt[c], sent[c], last[c]>>
     /\ \/ UNCHANGED <<usage[c], total>>
        \/ usage'[c] = 1 /\ Counted(c)

\* All that a step of one call leaves alone.
RestOf(c) ==
  /\ \A b \in Calls \ {c} : UNCHANGED <<lAt[b], attempt[b], sent[b], last[b], lResult[b],
                                        usage[b]>>
  /\ UNCHANGED <<lEnded, recorded, phase, loaded, flusher>>

LEMMA StepMoves == ASSUME LlmOf, LlmTypes, NEW c \in Calls, CallInv(c),
                          LLM!Call(c) \/ LLM!Step(c)
                   PROVE  MoveOf(c) /\ RestOf(c) /\ LlmTypes'
<1> USE DEF LlmTypes, LLM!Goto, LLM!Return, LLM!tokens, LLM!runVars, RestOf, Stations
<1>0. ASSUME LLM!Call(c) PROVE MoveOf(c) /\ RestOf(c) /\ LlmTypes'
  BY <1>0 DEF LLM!Call, MoveOf
<1>1. ASSUME LLM!Check(c) PROVE MoveOf(c) /\ RestOf(c) /\ LlmTypes'
  BY <1>1 DEF LLM!Check, MoveOf, LLM!Errors
<1>2. ASSUME LLM!Do(c) PROVE MoveOf(c) /\ RestOf(c) /\ LlmTypes'
  <2>1. CASE c \in lEnded /\ LLM!Return(c, "cancelled") /\ UNCHANGED <<sent, last>>
    BY <1>2, <2>1 DEF LLM!Do, MoveOf, LLM!Errors
  <2>2. CASE c \notin lEnded
    <3>1. PICK a \in LLM!Answers : last' = [last EXCEPT ![c] = a]
      BY <1>2, <2>2 DEF LLM!Do
    <3>2. /\ lAt[c] = "send" /\ lAt' = [lAt EXCEPT ![c] = "answered"]
          /\ sent' = [sent EXCEPT ![c] = @ + 1]
          /\ UNCHANGED <<attempt, lEnded, slept, lResult, usage, total, LLM!runVars>>
      BY <1>2, <2>2 DEF LLM!Do
    <3>3. MoveOf(c)
      BY <2>2, <3>1, <3>2 DEF MoveOf
    <3>4. RestOf(c)
      BY <3>1, <3>2
    <3>5. LlmTypes'
      BY <3>1, <3>2
    <3> QED BY <3>3, <3>4, <3>5
  <2> QED BY <1>2, <2>1, <2>2 DEF LLM!Do
<1>3. ASSUME LLM!SleepWithJitter(c) PROVE MoveOf(c) /\ RestOf(c) /\ LlmTypes'
  <2>1. /\ lAt[c] = "answered" /\ lAt' = [lAt EXCEPT ![c] = "asleep"]
        /\ last[c] \in LLM!Transient /\ attempt[c] < MaxRetries
        /\ UNCHANGED <<attempt, sent, last, lEnded, lResult, usage, total, LLM!runVars>>
    BY <1>3 DEF LLM!SleepWithJitter, LLM!MayRetry
  <2> QED BY <2>1 DEF MoveOf
<1>4. ASSUME LLM!Wake(c) PROVE MoveOf(c) /\ RestOf(c) /\ LlmTypes'
  BY <1>4 DEF LLM!Wake, MoveOf
<1>5. ASSUME LLM!GiveUp(c) PROVE MoveOf(c) /\ RestOf(c) /\ LlmTypes'
  <2>1. lResult'[c] \in {"exhausted", "refused", "failed"}
        /\ (lResult'[c] = "exhausted" => last[c] = "busy")
        /\ (lResult'[c] = "refused" => last[c] = "refused")
    BY <1>5 DEF LLM!GiveUp
  <2>2. last[c] = "busy" => ~(attempt[c] < MaxRetries)
    BY <1>5 DEF LLM!GiveUp, LLM!MayRetry, LLM!Transient
  <2>3. LlmTypes'
    <3>1. lResult' = [lResult EXCEPT ![c] = lResult'[c]]
      BY <1>5 DEF LLM!GiveUp
    <3>2. lResult'[c] \in LLM!Errors
      BY <2>1 DEF LLM!Errors
    <3> QED BY <1>5, <3>1, <3>2 DEF LLM!GiveUp
  <2>4. RestOf(c)
    BY <1>5 DEF LLM!GiveUp
  <2>5. MoveOf(c)
    BY <1>5, <2>1, <2>2 DEF LLM!GiveUp, MoveOf, LLM!Errors
  <2> QED BY <2>3, <2>4, <2>5
<1>6. ASSUME LLM!Cancelled(c) PROVE MoveOf(c) /\ RestOf(c) /\ LlmTypes'
  BY <1>6 DEF LLM!Cancelled, MoveOf, LLM!Errors
<1>7. ASSUME LLM!Succeed(c) PROVE MoveOf(c) /\ RestOf(c) /\ LlmTypes'
  <2>1. PICK u \in {0, 1} : /\ usage' = [usage EXCEPT ![c] = u]
                             /\ total' = [total EXCEPT ![KeyOf(c)] = @ + u]
    BY <1>7 DEF LLM!Succeed, KeyOf
  <2>2. usage[c] = 0
    BY <1>7 DEF LLM!Succeed, CallInv
  <2>3. /\ lAt[c] = "answered" /\ lAt' = [lAt EXCEPT ![c] = "returned"]
        /\ lResult' = [lResult EXCEPT ![c] = "ok"]
        /\ UNCHANGED <<attempt, sent, last, lEnded, slept, LLM!runVars>>
    BY <1>7 DEF LLM!Succeed
  <2>4. u = 0 => total' = total
    BY <2>1
  <2>5. MoveOf(c)
    BY <2>1, <2>2, <2>3, <2>4 DEF MoveOf, Counted
  <2>6. RestOf(c)
    BY <2>1, <2>3
  <2>7. LlmTypes'
    <3>1. KeyOf(c) \in Clients
      BY CallsFinite DEF KeyOf
    <3>2. total[KeyOf(c)] + u \in Nat
      BY <2>1, <3>1
    <3>3. total' \in [Clients -> Nat]
      BY <2>1, <3>2
    <3> QED BY <2>1, <2>3, <3>3
  <2> QED BY <2>5, <2>6, <2>7
<1> QED BY <1>0, <1>1, <1>2, <1>3, <1>4, <1>5, <1>6, <1>7 DEF LLM!Step

LEMMA MoveKeepsCall == ASSUME LlmOf, LlmTypes, LlmTypes', NEW c \in Calls, CallInv(c), MoveOf(c)
                       PROVE  CallInv(c)'
<1> USE DEF CallInv, MoveOf, LlmTypes, LlmOf, LLM!RetriesAssumption, Stations
<1>1. CASE lAt[c] \in {"idle", "loop"}
  BY <1>1 DEF LLM!Errors
<1>2. CASE lAt[c] = "send"
  BY <1>2 DEF LLM!Errors
<1>3. CASE lAt[c] = "asleep"
  BY <1>3
<1>4. CASE lAt[c] = "answered"
  BY <1>4 DEF LLM!Errors, LLM!Transient
<1> QED BY <1>1, <1>2, <1>3, <1>4

LEMMA MoveKeepsTotal ==
  ASSUME LlmOf, LlmInv, NEW c \in Calls, MoveOf(c), RestOf(c), LlmTypes'
  PROVE  TotalInv'
<1>0. IsFiniteSet(Calls) /\ KeyOf(c) \in Clients
  BY CallsFinite DEF KeyOf
<1>1. usage[c] = 0
  BY DEF MoveOf, LlmInv, CallInv
<1> SUFFICES ASSUME NEW k \in Clients PROVE total'[k] = Cardinality(Used(k)')
  BY DEF TotalInv
<1>2. CASE k # KeyOf(c) \/ UNCHANGED <<usage[c], total>>
  <2>1. Used(k)' = Used(k)
    BY <1>2 DEF Used, RestOf, KeyOf
  <2>2. total'[k] = total[k]
    BY <1>2 DEF MoveOf, Counted, LlmInv, LlmTypes
  <2> QED BY <2>1, <2>2 DEF LlmInv, TotalInv
<1>3. CASE k = KeyOf(c) /\ usage'[c] = 1 /\ Counted(c)
  <2>1. Used(k)' = Used(k) \cup {c} /\ c \notin Used(k)
    BY <1>1, <1>3 DEF Used, RestOf, KeyOf
  <2>2. IsFiniteSet(Used(k))
    BY <1>0, FS_Subset DEF Used
  <2>3. Cardinality(Used(k)') = Cardinality(Used(k)) + 1
    BY <2>1, <2>2, FS_AddElement
  <2>4. total'[k] = total[k] + 1
    BY <1>0, <1>3 DEF Counted, LlmInv, LlmTypes
  <2> QED BY <2>3, <2>4 DEF LlmInv, TotalInv
<1> QED BY <1>2, <1>3 DEF MoveOf

\* A call moves only while its execution has not ended.
LEMMA MoveKeepsRow ==
  ASSUME LlmOf, LlmInv, NEW c \in Calls, MoveOf(c), RestOf(c)
  PROVE  RowInv'
<1>1. ExecOf[c] \in Execs /\ phase[ExecOf[c]] # "flushed"
  BY CallsFinite DEF MoveOf, LLM!Calling, LlmInv, RowInv
<1>2. \A b \in Calls : phase'[ExecOf[b]] = "flushed" =>
        b # c /\ lAt'[b] = lAt[b] /\ usage'[b] = usage[b]
  BY <1>1 DEF RestOf
<1>3. ASSUME NEW x \in Execs, flusher'[RunOf[x]] = x
      PROVE  recorded'[RunOf[x]] >= LLM!Cardinality(LLM!EndedCalls(x)')
  <2>1. LLM!EndedCalls(x)' = LLM!EndedCalls(x)
    BY <1>2 DEF LLM!EndedCalls, RestOf
  <2> QED BY <1>3, <2>1 DEF LlmInv, RowInv, LLM!NeverUndercounted, RestOf
<1>4. \A b \in Calls : phase'[ExecOf[b]] = "flushed" => lAt'[b] \in {"idle", "returned"}
  BY <1>2 DEF LlmInv, RowInv, RestOf
<1> QED BY <1>3, <1>4 DEF RowInv, LLM!NeverUndercounted

\* What an execution does to a row leaves the calls and the counters alone.
LEMMA CallsStay ==
  ASSUME LlmInv, UNCHANGED <<lAt, attempt, sent, last, lResult, usage, total>>,
         lEnded' \in SUBSET Calls
  PROVE  LlmTypes' /\ (\A c \in Calls : CallInv(c)') /\ TotalInv'
BY DEF LlmInv, LlmTypes, CallInv, TotalInv, Used, KeyOf

\* A row that an end has not written last owes nothing; the others are as before.
LEMMA OtherRows ==
  ASSUME LlmOf, LlmInv, NEW x \in Execs, NEW n, UNCHANGED <<lAt, usage>>,
         recorded' = [recorded EXCEPT ![RunOf[x]] = n],
         flusher' = [flusher EXCEPT ![RunOf[x]] = 0],
         \A y \in Execs : phase'[y] = "flushed" <=> phase[y] = "flushed"
  PROVE  RowInv'
<1>0. RunOf[x] \in Runs /\ 0 \notin Execs /\ \A c \in Calls : ExecOf[c] \in Execs
  BY CallsFinite
<1>1. ASSUME NEW y \in Execs, flusher'[RunOf[y]] = y
      PROVE  recorded'[RunOf[y]] >= LLM!Cardinality(LLM!EndedCalls(y)')
  <2>0. RunOf[y] \in Runs
    BY CallsFinite
  <2>1. RunOf[y] # RunOf[x]
    BY <1>0, <1>1 DEF LlmInv, RowTypes
  <2>2. flusher[RunOf[y]] = y /\ recorded'[RunOf[y]] = recorded[RunOf[y]]
    BY <1>1, <2>0, <2>1 DEF LlmInv, RowTypes
  <2>3. LLM!EndedCalls(y)' = LLM!EndedCalls(y)
    BY <1>0 DEF LLM!EndedCalls
  <2> QED BY <2>2, <2>3 DEF LlmInv, RowInv, LLM!NeverUndercounted
<1>2. \A c \in Calls : phase'[ExecOf[c]] = "flushed" => lAt'[c] \in {"idle", "returned"}
  BY <1>0 DEF LlmInv, RowInv
<1> QED BY <1>1, <1>2 DEF RowInv, LLM!NeverUndercounted

LEMMA FlushKeeps == ASSUME LlmOf, LlmInv, NEW x \in Execs, LLM!FlushRun(x)
                    PROVE  LlmInv'
<1> USE DEF LLM!FlushRun
<1> DEFINE k == ClientOf[x]
           r == RunOf[x]
<1>0. /\ IsFiniteSet(Calls) /\ Cardinality(Calls) \in Nat
      /\ k \in Clients /\ r \in Runs /\ \A c \in Calls : ExecOf[c] \in Execs
  BY CallsFinite, FS_CardinalityType
<1>1. UNCHANGED <<lAt, attempt, sent, last, lResult, usage, total, lEnded, loaded>>
  BY DEF LLM!callVars
<1>2. LlmTypes' /\ (\A c \in Calls : CallInv(c)') /\ TotalInv'
  BY <1>1, CallsStay DEF LlmInv, LlmTypes
<1>3. total[k] = Cardinality(Used(k)) /\ IsFiniteSet(Used(k))
  BY <1>0, FS_Subset DEF LlmInv, TotalInv, Used
<1>4. total[k] \in 0..Cardinality(Calls)
  <2>1. Used(k) \subseteq Calls
    BY DEF Used
  <2> QED BY <1>0, <1>3, <2>1, FS_Subset, FS_CardinalityType
<1>5. RowTypes'
  BY <1>0, <1>1, <1>4 DEF LlmInv, RowTypes
<1>6. ASSUME NEW y \in Execs, flusher'[RunOf[y]] = y
      PROVE  recorded'[RunOf[y]] >= LLM!Cardinality(LLM!EndedCalls(y)')
  <2>0. RunOf[y] \in Runs
    BY CallsFinite
  <2>1. CASE y = x
    <3>1. recorded'[r] = total[k]
      BY <1>0 DEF LlmInv, RowTypes
    <3>2. LLM!EndedCalls(x)' \subseteq Used(k)
      BY <1>1 DEF LLM!EndedCalls, Used, KeyOf
    <3>3. Cardinality(LLM!EndedCalls(x)') <= Cardinality(Used(k))
      BY <1>3, <3>2, FS_Subset
    <3>4. LLM!Cardinality(LLM!EndedCalls(x)') = Cardinality(LLM!EndedCalls(x)')
      BY SameCardinality
    <3>5. Cardinality(LLM!EndedCalls(x)') \in Nat
      BY <1>3, <3>2, FS_Subset, FS_CardinalityType
    <3> QED BY <1>3, <1>4, <2>1, <3>1, <3>3, <3>4, <3>5
  <2>2. CASE y # x
    <3>1. RunOf[y] # r
      BY <1>0, <1>6, <2>2 DEF LlmInv, RowTypes
    <3>2. flusher[RunOf[y]] = y /\ recorded'[RunOf[y]] = recorded[RunOf[y]]
      BY <1>6, <2>0, <3>1 DEF LlmInv, RowTypes
    <3>3. \A c \in Calls : RunOf[ExecOf[c]] = RunOf[y] => phase'[ExecOf[c]] = phase[ExecOf[c]]
      BY <1>0, <3>1 DEF LlmInv, RowTypes
    <3>4. LLM!EndedCalls(y)' = LLM!EndedCalls(y)
      BY <1>1, <3>3 DEF LLM!EndedCalls
    <3> QED BY <3>2, <3>4 DEF LlmInv, RowInv, LLM!NeverUndercounted
  <2> QED BY <2>1, <2>2
<1>7. \A c \in Calls : phase'[ExecOf[c]] = "flushed" => lAt'[c] \in {"idle", "returned"}
  BY <1>0, <1>1 DEF LlmInv, RowInv, RowTypes
<1> QED BY <1>2, <1>5, <1>6, <1>7 DEF LlmInv, RowInv, LLM!NeverUndercounted

LEMMA ExecutionKeeps == ASSUME LlmOf, LlmInv, NEW x \in Execs, LLM!Execution(x)
                        PROVE  LlmInv'
<1>0. /\ RunOf[x] \in Runs /\ Cardinality(Calls) \in Nat
      /\ \A c \in Calls : ExecOf[c] \in Execs
  BY CallsFinite, FS_CardinalityType
<1>1. ASSUME LLM!GetRun(x) PROVE LlmInv'
  <2>1. /\ UNCHANGED <<lAt, attempt, sent, last, lResult, usage, total, lEnded, recorded,
                       flusher>>
        /\ phase' = [phase EXCEPT ![x] = "loaded"] /\ phase[x] = "idle"
    BY <1>1 DEF LLM!GetRun, LLM!callVars
  <2>2. loaded' \in [Execs -> 0..Cardinality(Calls)]
    <3>1. CASE recorded[RunOf[x]] # -1 /\ loaded' = [loaded EXCEPT ![x] = recorded[RunOf[x]]]
      BY <1>0, <3>1 DEF LlmInv, RowTypes
    <3>2. CASE UNCHANGED loaded
      BY <3>2 DEF LlmInv, RowTypes
    <3> QED BY <1>1, <3>1, <3>2 DEF LLM!GetRun
  <2>3. LlmTypes' /\ (\A c \in Calls : CallInv(c)') /\ TotalInv'
    BY <2>1, CallsStay DEF LlmInv, LlmTypes
  <2>4. RowTypes'
    BY <2>1, <2>2 DEF LlmInv, RowTypes
  <2>5. \A y \in Execs : phase'[y] = "flushed" <=> phase[y] = "flushed"
    BY <2>1 DEF LlmInv, RowTypes
  <2>6. \A y \in Execs : LLM!EndedCalls(y)' = LLM!EndedCalls(y)
    BY <1>0, <2>1, <2>5 DEF LLM!EndedCalls
  <2>7. RowInv'
    BY <1>0, <2>1, <2>5, <2>6 DEF LlmInv, RowInv, LLM!NeverUndercounted
  <2> QED BY <2>3, <2>4, <2>7 DEF LlmInv
<1>2. ASSUME LLM!Reopen(x) \/ LLM!WriteZero(x) PROVE LlmInv'
  <2>1. PICK n \in 0..Cardinality(Calls) : LLM!Write(x, n)
    <3>1. loaded[x] \in 0..Cardinality(Calls) /\ 0 \in 0..Cardinality(Calls)
      BY <1>0 DEF LlmInv, RowTypes
    <3> QED BY <1>2, <3>1 DEF LLM!Reopen, LLM!WriteZero
  <2>2. /\ UNCHANGED <<lAt, attempt, sent, last, lResult, usage, total, lEnded, loaded>>
        /\ recorded' = [recorded EXCEPT ![RunOf[x]] = n]
        /\ flusher' = [flusher EXCEPT ![RunOf[x]] = 0]
    BY <2>1 DEF LLM!Write, LLM!callVars
  <2>3. /\ phase' \in [Execs -> {"idle", "loaded", "running", "flushed", "dropped"}]
        /\ \A y \in Execs : phase'[y] = "flushed" <=> phase[y] = "flushed"
    BY <1>2 DEF LLM!Reopen, LLM!WriteZero, LlmInv, RowTypes
  <2>4. LlmTypes' /\ (\A c \in Calls : CallInv(c)') /\ TotalInv'
    BY <2>2, CallsStay DEF LlmInv, LlmTypes
  <2>5. RowTypes'
    BY <1>0, <2>2, <2>3 DEF LlmInv, RowTypes
  <2>6. RowInv'
    BY <2>2, <2>3, OtherRows
  <2> QED BY <2>4, <2>5, <2>6 DEF LlmInv
<1>3. ASSUME LLM!Abandon(x) PROVE LlmInv'
  <2>1. /\ UNCHANGED <<lAt, attempt, sent, last, lResult, usage, total, recorded, loaded,
                       flusher>>
        /\ phase' = [phase EXCEPT ![x] = "dropped"] /\ phase[x] # "flushed"
        /\ lEnded' \in SUBSET Calls
    BY <1>3 DEF LLM!Abandon, LlmInv, LlmTypes
  <2>2. LlmTypes' /\ (\A c \in Calls : CallInv(c)') /\ TotalInv'
    BY <2>1, CallsStay
  <2>3. RowTypes'
    BY <2>1 DEF LlmInv, RowTypes
  <2>4. \A y \in Execs : phase'[y] = "flushed" <=> phase[y] = "flushed"
    BY <2>1 DEF LlmInv, RowTypes
  <2>5. \A y \in Execs : LLM!EndedCalls(y)' = LLM!EndedCalls(y)
    BY <1>0, <2>1, <2>4 DEF LLM!EndedCalls
  <2>6. RowInv'
    BY <1>0, <2>1, <2>4, <2>5 DEF LlmInv, RowInv, LLM!NeverUndercounted
  <2> QED BY <2>2, <2>3, <2>6 DEF LlmInv
<1> QED BY <1>1, <1>2, <1>3, FlushKeeps DEF LLM!Execution

LEMMA LlmInit == ASSUME LlmOf, LLM!Init PROVE LlmInv
<1>0. Cardinality(Calls) \in Nat /\ 0 \notin Execs
      /\ \A x \in Execs : RunOf[x] \in Runs
      /\ \A c \in Calls : ExecOf[c] \in Execs
  BY CallsFinite, FS_CardinalityType
<1>1. LlmTypes /\ RowTypes /\ \A c \in Calls : CallInv(c)
  BY <1>0 DEF LLM!Init, LlmTypes, RowTypes, CallInv, LlmOf, LLM!RetriesAssumption, Stations
<1>2. \A k \in Clients : Used(k) = {}
  BY DEF LLM!Init, Used
<1>3. TotalInv
  BY <1>2, FS_EmptySet DEF LLM!Init, TotalInv
<1>4. RowInv
  BY <1>0 DEF LLM!Init, RowInv, LLM!NeverUndercounted
<1> QED BY <1>1, <1>3, <1>4 DEF LlmInv

LEMMA LlmStep == ASSUME LlmOf, LlmInv, [LLM!Next]_(LLM!vars) PROVE LlmInv'
<1>1. CASE \E c \in Calls : LLM!Call(c) \/ LLM!Step(c)
  <2>1. PICK c \in Calls : LLM!Call(c) \/ LLM!Step(c)
    BY <1>1
  <2>2. MoveOf(c) /\ RestOf(c) /\ LlmTypes'
    BY <2>1, StepMoves DEF LlmInv
  <2>3. CallInv(c)'
    BY <2>2, MoveKeepsCall DEF LlmInv
  <2>4. \A b \in Calls \ {c} : CallInv(b)'
    BY <2>2 DEF LlmInv, RestOf, CallInv
  <2>5. TotalInv' /\ RowInv'
    BY <2>2, MoveKeepsTotal, MoveKeepsRow
  <2>6. RowTypes'
    BY <2>2 DEF LlmInv, RowTypes, RestOf
  <2> QED BY <2>2, <2>3, <2>4, <2>5, <2>6 DEF LlmInv
<1>2. CASE (\E c \in Calls : LLM!EndCtx(c)) \/ UNCHANGED LLM!vars
  <2>1. /\ UNCHANGED <<lAt, attempt, sent, last, lResult, usage, total, recorded, phase,
                       loaded, flusher>>
        /\ lEnded' \in SUBSET Calls
    BY <1>2 DEF LLM!EndCtx, LLM!vars, LLM!tokens, LLM!runVars, LlmInv, LlmTypes
  <2>2. LlmTypes' /\ (\A c \in Calls : CallInv(c)') /\ TotalInv'
    BY <2>1, CallsStay
  <2>3. RowTypes' /\ RowInv'
    BY <2>1 DEF LlmInv, RowTypes, RowInv, LLM!NeverUndercounted, LLM!EndedCalls
  <2> QED BY <2>2, <2>3 DEF LlmInv
<1>3. CASE \E x \in Execs : LLM!Execution(x)
  BY <1>3, ExecutionKeeps
<1> QED BY <1>1, <1>2, <1>3 DEF LLM!Next

LEMMA LlmImplies == ASSUME LlmOf, LlmInv
                    PROVE  LLM!TypeOK /\ LLM!ErrorsAreEarned /\ LLM!NeverUndercounted
<1>1. LLM!TypeOK
  <2>1. MaxRetries \in Nat
    BY DEF LlmOf, LLM!RetriesAssumption
  <2>2. attempt \in [Calls -> 0..MaxRetries]
    BY <2>1 DEF LlmInv, LlmTypes, CallInv
  <2>3. LLM!Cardinality(Calls) = Cardinality(Calls)
    BY SameCardinality
  <2> QED BY <2>2, <2>3 DEF LLM!TypeOK, LlmInv, LlmTypes, RowTypes, Stations
<1>2. LLM!ErrorsAreEarned
  BY DEF LLM!ErrorsAreEarned, LlmInv, CallInv
<1>3. LLM!NeverUndercounted
  BY DEF LlmInv, RowInv
<1> QED BY <1>1, <1>2, <1>3

\* The action of LLM!ResendsAreJustified.
Resend == \A c \in Calls : sent'[c] > sent[c] => /\ c \notin lEnded
                                                 /\ sent[c] > 0 => last[c] \in LLM!Transient

LEMMA LlmResends == ASSUME LlmOf, LlmInv, [LLM!Next]_(LLM!vars) PROVE [Resend]_(LLM!vars)
<1>1. CASE \E c \in Calls : LLM!Call(c) \/ LLM!Step(c)
  <2>1. PICK c \in Calls : LLM!Call(c) \/ LLM!Step(c)
    BY <1>1
  <2>2. MoveOf(c) /\ RestOf(c)
    BY <2>1, StepMoves DEF LlmInv
  <2>3. \A b \in Calls : sent[b] \in Nat
    BY DEF LlmInv, LlmTypes
  <2>4. ASSUME NEW b \in Calls, sent'[b] > sent[b]
        PROVE  b \notin lEnded /\ (sent[b] > 0 => last[b] \in LLM!Transient)
    <3>1. b = c
      BY <2>2, <2>3, <2>4 DEF RestOf
    <3>2. lAt[c] = "send" /\ c \notin lEnded
      BY <2>2, <2>3, <2>4, <3>1 DEF MoveOf
    <3>3. sent[c] > 0 => last[c] \in LLM!Transient
      BY <3>2 DEF LlmInv, CallInv
    <3> QED BY <3>1, <3>2, <3>3
  <2> QED BY <2>4 DEF Resend
<1>2. CASE (\E c \in Calls : LLM!EndCtx(c)) \/ (\E x \in Execs : LLM!Execution(x))
  <2>1. sent' = sent
    BY <1>2 DEF LLM!EndCtx, LLM!Execution, LLM!GetRun, LLM!Reopen, LLM!WriteZero,
                LLM!Write, LLM!FlushRun, LLM!Abandon, LLM!callVars
  <2>2. \A c \in Calls : sent[c] \in Nat
    BY DEF LlmInv, LlmTypes
  <2> QED BY <2>1, <2>2 DEF Resend
<1>3. CASE UNCHANGED LLM!vars
  BY <1>3
<1> QED BY <1>1, <1>2, <1>3 DEF LLM!Next

\* A request is sent again only behind a transient failure and under a context that
\* goes on, "retries exceeded" is said of no fewer requests than it claims, and a row
\* that the end of an execution wrote last has no fewer tokens than the run's ended
\* executions through that execution's client used, whatever the other executions
\* and clients do: for any calls, executions, runs, clients, retries and backoff
\* (client.go, CreateChatCompletion; orchestrator.go:354-362, resume.go:111).
THEOREM ResendsHold == ASSUME LlmOf PROVE LLM!Spec => ResendsAreJustified
<1>1. LLM!Init => LlmInv
  BY LlmInit
<1>2. LlmInv /\ [LLM!Next]_(LLM!vars) => LlmInv' /\ [Resend]_(LLM!vars)
  BY LlmStep, LlmResends
<1>3. LlmInv => LLM!TypeOK /\ LLM!ErrorsAreEarned /\ LLM!NeverUndercounted
  BY LlmImplies
<1> QED BY <1>1, <1>2, <1>3, PTL DEF LLM!Spec, ResendsAreJustified, LLM!ResendsAreJustified, Resend
=============================================================================
