------------------------------ MODULE McpServer ------------------------------
(***************************************************************************)
(* mcp.Server: one goroutine reads a line, handles it, writes at most one  *)
(* response, and only then reads the next.  A tool call runs the operation *)
(* of the SDK to its end.                                                  *)
(***************************************************************************)
EXTENDS Naturals, Sequences, FiniteSets, SequencesExt

CONSTANTS MaxLines,  \* bound: lines the host sends
          Methods    \* the methods and kinds of tool call that it uses

Handled == {"initialize", "ping", "tools/list", "tools/call"}
MethodsAssumption ==
  Methods \subseteq Handled \cup {"notifications/initialized", "unknown"}

\* A line: whether it parses, its method, and whether it has an ID.
Lines == [parses : BOOLEAN, method : Methods, request : BOOLEAN]
NoLine == [parses |-> FALSE, method |-> "none", request |-> FALSE]

VARIABLES
  sent,     \* history: the lines of the host
  read,     \* how many of them the server has read
  at,       \* "reading", "handling", "stopped"
  calling,  \* a tool call is in progress
  out,      \* the responses: the number of the line, and what it says
  eof       \* the host has closed its end; its last line may lack a newline

vars == <<sent, read, at, calling, out, eof>>

Init == /\ sent = <<>> /\ read = 0 /\ at = "reading"
        /\ calling = FALSE /\ out = <<>> /\ eof = FALSE

\* The host does not wait for answers.
HostSends == /\ ~eof /\ Len(sent) < MaxLines
             /\ \E line \in Lines : sent' = Append(sent, line)
             /\ UNCHANGED <<read, at, calling, out, eof>>

HostCloses == /\ ~eof /\ eof' = TRUE
              /\ UNCHANGED <<sent, read, at, calling, out>>

ReadLine == /\ at = "reading" /\ read < Len(sent)
            /\ read' = read + 1 /\ at' = "handling"
            /\ UNCHANGED <<sent, calling, out, eof>>

\* io.EOF with nothing before it.
Stop == /\ at = "reading" /\ eof /\ read = Len(sent) /\ at' = "stopped"
        /\ UNCHANGED <<sent, read, calling, out, eof>>

Line == IF read = 0 THEN NoLine ELSE sent[read]

\* writeResponse: one frame per call, under writeMu.
Respond(what) == out' = Append(out, [line |-> read, says |-> what])

\* Mutant: a notification is answered.
Reply_Always(what) == /\ Respond(what)
                      /\ at' = "reading" /\ calling' = FALSE
                      /\ UNCHANGED <<sent, read, eof>>

\* A line without an ID, or with the ID null, is a notification.
Reply(what) == /\ IF Line.request THEN Respond(what) ELSE UNCHANGED out
               /\ at' = "reading" /\ calling' = FALSE
               /\ UNCHANGED <<sent, read, eof>>

\* A line that is not a request is answered with the ID null, since its own is
\* not known.
ParseError == /\ at = "handling" /\ ~Line.parses
              /\ Respond("parse error")
              /\ at' = "reading" /\ UNCHANGED <<sent, read, calling, eof>>

HandleMethod == /\ at = "handling" /\ Line.parses
                /\ Line.method \in {"initialize", "ping", "tools/list"}
                /\ Reply("result")

Initialized == /\ at = "handling" /\ Line.parses
               /\ Line.method = "notifications/initialized"
               /\ at' = "reading" /\ UNCHANGED <<sent, read, calling, out, eof>>

UnknownMethod == /\ at = "handling" /\ Line.parses /\ Line.method = "unknown"
                 /\ Reply("method not found")

BadParams == /\ at = "handling" /\ ~calling
             /\ Line.parses /\ Line.method = "tools/call"
             /\ Reply("invalid params")

\* CallTool enters the client.
CallTool == /\ at = "handling" /\ ~calling
            /\ Line.parses /\ Line.method = "tools/call"
            /\ calling' = TRUE
            /\ UNCHANGED <<sent, read, at, out, eof>>

\* Its error, too, is a result: one that says it is an error.
ToolReturns == calling /\ \E what \in {"result", "tool error"} : Reply(what)

Serve == \/ ReadLine \/ Stop \/ ParseError \/ HandleMethod \/ Initialized
         \/ UnknownMethod \/ BadParams \/ CallTool \/ ToolReturns

Next == HostSends \/ HostCloses \/ Serve

Spec == Init /\ [][Next]_vars

\* Tools return; the host need not send or close anything.
FairSpec == Spec /\ WF_vars(Serve)

-----------------------------------------------------------------------------
(* Properties                                                              *)

Owed(l) == \/ ~l.parses
           \/ l.request /\ l.method # "notifications/initialized"

\* The variables are of their types, and a tool runs only while its line is
\* handled.
TypeOK == /\ sent \in Seq(Lines) /\ read \in 0..Len(sent)
          /\ at \in {"reading", "handling", "stopped"} /\ calling \in BOOLEAN
          /\ calling => at = "handling" /\ Line.method = "tools/call"
          /\ \A i \in DOMAIN out : out[i].line \in 1..read
          /\ eof \in BOOLEAN

\* Standard output holds one response for each line that is owed one, in the
\* order of the lines, and nothing else: "Notifications (requests without an ID)
\* do not send responses" (server.go:131), strict stdout hygiene (docs/mcp.md).
AnswersAreOwed ==
  LET done == IF at = "handling" THEN read - 1 ELSE read
  IN /\ {out[i].line : i \in DOMAIN out} = {l \in 1..done : Owed(sent[l])}
     /\ \A i, j \in DOMAIN out : i < j => out[i].line < out[j].line

\* The host gets one response for each line that is owed one, in order.
OneResponseEach == TypeOK /\ AnswersAreOwed

\* Whatever is sent before the host closes its end is handled, the last line
\* without a newline too, and then the server stops.
AllIsServed == (\A n \in 1..MaxLines : Len(sent) >= n ~> read >= n)
               /\ (eof ~> at = "stopped")
==============================================================================
