-------------------------------- MODULE Rules --------------------------------
(***************************************************************************)
(* The rules cascade of a run: a session is started and freezes what the   *)
(* cascade finds, the run looks for itself, and a resume takes what the    *)
(* session froze.  The files may change at any time: their owner edits     *)
(* them, and so do the run's own workers.                                  *)
(*                                                                         *)
(* The candidates are ranked: 1 is the path of --rules, 2 the value of     *)
(* REMINIS_RULES, then come the files of the workspace and those of the    *)
(* user; the listing of ~/.config/gentle-ai is taken as fixed.             *)
(***************************************************************************)
EXTENDS Naturals, Sequences

CONSTANTS
  Candidates,  \* how many there are
  MaxEdits, MaxResumes \* bounds

CandidatesAssumption == Candidates \in Nat /\ Candidates >= 2
BoundsAssumption == MaxEdits \in Nat /\ MaxResumes \in Nat

VARIABLES
  flags,   \* of the run: what is given, and what may happen to its session
  file,    \* what is in the file of each candidate
  stage,   \* "session", "run", "resume": who searches; "working", "paused", "ended"
  next,    \* the candidate the search looks at
  opened,  \* Stat has found it, ReadFile is to come
  frozen,  \* sessions.compiled_prefix
  used,    \* history: the prefix of each execution of the run
  found,   \* history: what the search in progress, or the last one, has returned
  calm,    \* history: no file has changed since it began
  first,   \* history: the candidate it began with
  edits, resumes

vars == <<flags, file, stage, next, opened, frozen, used, found, calm, first, edits,
          resumes>>

HasPath == flags.path  \* the client of the run was given a path
HasEnv == flags.env    \* REMINIS_RULES is set
MayMiss == flags.miss  \* the row of the session may be unreadable

Contents == {"absent", "blank", "a", "b"}
Files == 1..Candidates
Path == 1
Env == 2

\* Rules are told apart by their candidate and their text.
Baseline == <<0, "baseline">>
Bare == <<0, "bare">>   \* the baseline without the padding of Compile
Nothing == <<0, "nothing">>
Raw == <<Env, "raw">>   \* the value of REMINIS_RULES itself
Prefixes == (Files \X {"a", "b"}) \cup {Baseline, Bare, Raw}

Searching == {"session", "run", "resume"}

\* Where a search begins; that of a session is not told of the path.
Top(path) == IF HasPath /\ path THEN Path ELSE IF HasEnv THEN Env ELSE 3

Init == /\ flags \in [path : BOOLEAN, env : BOOLEAN, miss : BOOLEAN]
        /\ file \in [Files -> Contents]
        /\ stage = "session" /\ next = Top(FALSE) /\ opened = FALSE
        /\ frozen = Nothing /\ used = <<>>
        /\ found = Nothing /\ calm = TRUE /\ first = Top(FALSE)
        /\ edits = 0 /\ resumes = 0

-----------------------------------------------------------------------------
(* Discover and Compile                                                    *)

\* Blank rules compile to the baseline.
Compile(c, text) == IF text = "blank" THEN Baseline ELSE <<c, text>>

Search(who, top) == /\ stage' = who /\ next' = top /\ opened' = FALSE
                    /\ found' = Nothing /\ calm' = TRUE /\ first' = top

Use(prefix) == /\ used' = Append(used, prefix)
               /\ stage' = "working"
               /\ UNCHANGED <<next, frozen, calm, first>>

\* What the caller makes of the prefix.
Found(prefix) ==
  /\ \/ /\ stage = "session"
        /\ frozen' = prefix
        /\ stage' = "frozen"
        /\ UNCHANGED <<used, next, calm, first>>
     \/ /\ stage \in {"run", "resume"}
        /\ Use(prefix)
  /\ found' = prefix /\ opened' = FALSE

\* A session falls back on the baseline, a resume on its bare text; a run fails.
Fails ==
  /\ \/ /\ stage = "session"
        /\ frozen' = Baseline /\ stage' = "frozen"
        /\ UNCHANGED <<used, next, calm, first>>
     \/ /\ stage = "run"
        /\ stage' = "ended"
        /\ UNCHANGED <<frozen, used, next, calm, first>>
     \/ /\ stage = "resume"
        /\ Use(Bare)
  /\ opened' = FALSE /\ UNCHANGED found

\* Stat: a file that is not there is passed over, except the path, which is read
\* without it, and the variable, which then stands for itself.
Look ==
  /\ stage \in Searching /\ ~opened /\ next <= Candidates
  /\ \/ /\ next = Path \/ file[next] # "absent"
        /\ opened' = TRUE
        /\ UNCHANGED <<stage, next, frozen, used, found, calm, first>>
     \/ /\ next = Env /\ file[Env] = "absent"
        /\ Found(Raw)
     \/ /\ next > Env /\ file[next] = "absent"
        /\ next' = next + 1
        /\ UNCHANGED <<stage, opened, frozen, used, found, calm, first>>
  /\ UNCHANGED <<file, edits, resumes>>

\* Mutant: of the candidates that are there, the last one counts.
ReadFile_GoOn ==
  /\ stage \in Searching /\ opened
  /\ IF file[next] = "absent" THEN Fails
     ELSE IF next < Candidates /\ next > Env
     THEN /\ next' = next + 1 /\ opened' = FALSE
          /\ UNCHANGED <<stage, frozen, used, found, calm, first>>
     ELSE Found(Compile(next, file[next]))
  /\ UNCHANGED <<file, edits, resumes>>

ReadFile ==
  /\ stage \in Searching /\ opened
  /\ IF file[next] = "absent" THEN Fails
                              ELSE Found(Compile(next, file[next]))
  /\ UNCHANGED <<file, edits, resumes>>

FallBack == /\ stage \in Searching /\ next > Candidates
            /\ Found(Baseline)
            /\ UNCHANGED <<file, edits, resumes>>

-----------------------------------------------------------------------------
(* The calls                                                               *)

\* The session is on record; the orchestrator searches for itself.
Run == /\ stage = "frozen"
       /\ Search("run", Top(TRUE))
       /\ UNCHANGED <<file, frozen, used, edits, resumes>>

\* The execution pauses, fails or dies.
Stop == /\ stage = "working" /\ stage' = "paused"
        /\ UNCHANGED <<file, next, opened, frozen, used, found, calm, first, edits,
                       resumes>>

\* The prefix of the session or, when its row cannot be read, a new search: by a
\* client with the path, or by the resume command, which has none.
Resume == /\ stage = "paused" /\ resumes < MaxResumes
          /\ resumes' = resumes + 1
          /\ \/ Use(frozen) /\ UNCHANGED <<opened, found>>
             \/ /\ MayMiss /\ \E path \in BOOLEAN : Search("resume", Top(path))
                /\ UNCHANGED <<frozen, used>>
          /\ UNCHANGED <<file, edits>>

Edit(c) == /\ edits < MaxEdits /\ edits' = edits + 1
           /\ \E text \in Contents \ {file[c]} : file' = [file EXCEPT ![c] = text]
           /\ calm' = FALSE
           /\ UNCHANGED <<stage, next, opened, frozen, used, found, first, resumes>>

Next == /\ \/ Look \/ ReadFile \/ FallBack
           \/ Run \/ Stop \/ Resume
           \/ \E c \in Files : Edit(c)
        /\ UNCHANGED flags

Spec == Init /\ [][Next]_vars

-----------------------------------------------------------------------------
(* Properties                                                              *)

TypeOK == /\ flags \in [path : BOOLEAN, env : BOOLEAN, miss : BOOLEAN]
          /\ file \in [Files -> Contents]
          /\ stage \in Searching \cup {"frozen", "working", "paused", "ended"}
          /\ next \in 1..(Candidates + 1)
          /\ opened \in BOOLEAN /\ calm \in BOOLEAN
          /\ frozen \in Prefixes \cup {Nothing}
          /\ \A i \in DOMAIN used : used[i] \in Prefixes
          /\ found \in Prefixes \cup {Nothing}
          /\ edits \in 0..MaxEdits /\ resumes \in 0..MaxResumes

\* SPEC.md, "strict priority order": what a search that began there is to find.
Cascade ==
  LET there == {c \in first..Candidates : file[c] # "absent"}
      top == CHOOSE c \in there : \A d \in there : c <= d
  IN IF first = Env /\ Env \notin there THEN Raw
     ELSE IF there = {} THEN Baseline ELSE Compile(top, file[top])

\* A search that no edit disturbs returns the rules of the highest rank, also when
\* the files of lower ranks are there, blank, or were there in an earlier search.
StrictPriority == calm /\ found # Nothing => found = Cascade

\* However the files are edited, the executions that resume a run agree on one
\* prefix: that of its session.
ResumesAgree == \A i \in 2..Len(used) : used[i] = frozen

\* A search finds the rules of the highest rank, and the executions that resume a
\* run agree on theirs as long as the row of the session can be read.
RulesAreStable == TypeOK /\ StrictPriority /\ (~MayMiss => ResumesAgree)

\* SPEC.md: the compiled prefix of the session is "frozen for the run's lifecycle".
FrozenForTheRun == \A i \in DOMAIN used : used[i] = frozen

\* SPEC.md: the baseline is "injected only if no upstream rules exist".
BaselineIsLast ==
  calm /\ found = Baseline => \A c \in 3..Candidates : file[c] \in {"absent", "blank"}
=============================================================================
