----------------------------- MODULE McpServers -----------------------------
(***************************************************************************)
(* The MCP servers that a status request starts, asks for their tools and  *)
(* stops again: start_all, status and stop_all of a manager of its own, as *)
(* the API, the shell, the command line and every refresh of the screen's  *)
(* integrations do.  Client and server talk through pipes; the client      *)
(* takes the next message for the answer to its last request, and waits    *)
(* for the operating system's pipe although a message may be waiting in    *)
(* its own read buffer.  tools/call is not modelled: no entry point of the *)
(* program bridges the tools into a registry.                              *)
(***************************************************************************)
EXTENDS Naturals, Sequences

CONSTANTS
    NumServers,  \* enabled servers of the configuration
    MaxNotes     \* messages a server sends of its own accord

ASSUME McpAssumption == NumServers \in Nat /\ MaxNotes \in Nat

VARIABLES
    server,      \* processes, with the requests and messages in their pipes
    conn,        \* MCPConnection: where start stands, and the tools it took
    manager,     \* where start_all, status and stop_all stand
    notes,       \* notifications sent
    disturbed    \* history: servers that sent one, or whose reply came late

mcpVars == <<server, conn, manager, notes, disturbed>>

McpServerIds == 1..NumServers
NoServer == [up |-> FALSE, asked |-> <<>>, pipe |-> <<>>, buffer |-> <<>>]
Unstarted == [at |-> "none", tools |-> "none"]
Methods == {"initialize", "tools/list"}
Starting(s) == manager = [at |-> "start", next |-> s]
Awaiting(s) == Starting(s) /\ conn[s].at \in Methods

McpInit ==
    /\ server = [s \in McpServerIds |-> NoServer]
    /\ conn = [s \in McpServerIds |-> Unstarted]
    /\ manager = [at |-> "idle", next |-> 1]
    /\ notes = 0
    /\ disturbed = {}

\* A new manager: a process that the one before left is out of its reach.
BeginStatus ==
    /\ manager.at = "idle"
    /\ server' = [s \in McpServerIds |-> NoServer]
    /\ conn' = [s \in McpServerIds |-> Unstarted]
    /\ manager' = [at |-> IF NumServers = 0 THEN "report" ELSE "start", next |-> 1]
    /\ disturbed' = {}
    /\ UNCHANGED notes

Proceed(s) == manager' = IF s < NumServers THEN [at |-> "start", next |-> s + 1]
                         ELSE [at |-> "report", next |-> 1]
Ends(s, how) == conn' = [conn EXCEPT ![s].at = how] /\ Proceed(s)

\* Popen, and the first request.
StartServer(s) ==
    /\ Starting(s) /\ conn[s].at = "none"
    /\ \/ /\ server' = [server EXCEPT ![s] = [NoServer EXCEPT !.up = TRUE,
                                                              !.asked = <<"initialize">>]]
          /\ conn' = [conn EXCEPT ![s].at = "initialize"]
          /\ UNCHANGED manager
       \/ Ends(s, "degraded") /\ UNCHANGED server
    /\ UNCHANGED <<notes, disturbed>>

\* Mutant: the notification that follows is sent as a request.
TakeAnswerAsked(s, message) ==
    IF conn[s].at = "initialize" /\ message \notin {"note", "error"} /\ server[s].up
    THEN /\ conn' = [conn EXCEPT ![s].at = "tools/list"]
         /\ server' = [server EXCEPT ![s].asked = @ \o <<"initialized", "tools/list">>,
                                     ![s].buffer = Tail(@ \o server[s].pipe),
                                     ![s].pipe = <<>>]
         /\ UNCHANGED manager
    ELSE /\ conn' = [conn EXCEPT ![s] = [at |-> IF @.at = "initialize" THEN "degraded"
                                                ELSE "connected",
                                         tools |-> IF @.at = "initialize" THEN "none"
                                                   ELSE message]]
         /\ Proceed(s)
         /\ server' = [server EXCEPT ![s].buffer = Tail(@ \o server[s].pipe), ![s].pipe = <<>>]

\* A result of initialize is answered by a notification and the request for
\* the tools, which a server that has exited cannot be sent.  Any other message
\* ends the start in failure; whatever comes after that request, in success.
TakeAnswer(s, message) ==
    IF conn[s].at = "initialize" /\ message \notin {"note", "error"} /\ server[s].up
    THEN /\ conn' = [conn EXCEPT ![s].at = "tools/list"]
         /\ server' = [server EXCEPT ![s].asked = Append(@, "tools/list"),
                                     ![s].buffer = Tail(@ \o server[s].pipe),
                                     ![s].pipe = <<>>]
         /\ UNCHANGED manager
    ELSE /\ conn' = [conn EXCEPT ![s] = [at |-> IF @.at = "initialize" THEN "degraded"
                                                ELSE "connected",
                                         tools |-> IF @.at = "initialize" THEN "none"
                                                   ELSE message]]
         /\ Proceed(s)
         /\ server' = [server EXCEPT ![s].buffer = Tail(@ \o server[s].pipe), ![s].pipe = <<>>]

\* select finds the pipe readable; the first message of the read buffer is
\* taken, and the buffer holds whatever else was in the pipe.
ReadAnswer(s) ==
    /\ Awaiting(s)
    /\ server[s].pipe # <<>> \/ (~server[s].up /\ server[s].buffer # <<>>)
    /\ TakeAnswer(s, Head(server[s].buffer \o server[s].pipe))
    /\ UNCHANGED <<notes, disturbed>>

\* Ten seconds went by with an empty pipe, or the file is at its end: the
\* request has no answer.  Nobody stops the process of a start that failed.
NoAnswer(s) ==
    /\ Awaiting(s) /\ server[s].pipe = <<>>
    /\ server[s].up \/ server[s].buffer = <<>>
    /\ Ends(s, IF conn[s].at = "initialize" THEN "degraded" ELSE "connected")
    /\ disturbed' = disturbed \cup {s}
    /\ UNCHANGED <<server, notes>>

\* The server answers its requests in order, with a result or an error.
ServerAnswers(s) ==
    /\ server[s].up /\ server[s].asked # <<>>
    /\ \E message \in {Head(server[s].asked), "error"} :
          server' = [server EXCEPT ![s].asked = Tail(@), ![s].pipe = Append(@, message)]
    /\ UNCHANGED <<conn, manager, notes, disturbed>>

ServerNotifies(s) ==
    /\ server[s].up /\ notes < MaxNotes /\ notes' = notes + 1
    /\ server' = [server EXCEPT ![s].pipe = Append(@, "note")]
    /\ disturbed' = disturbed \cup {s}
    /\ UNCHANGED <<conn, manager>>

\* What it wrote can still be read.
ServerExits(s) ==
    /\ server[s].up
    /\ server' = [server EXCEPT ![s].up = FALSE, ![s].asked = <<>>]
    /\ disturbed' = disturbed \cup {s}
    /\ UNCHANGED <<conn, manager, notes>>

\* Mutant: the connections are forgotten, and no process is terminated.
StopNone ==
    /\ manager.at = "report"
    /\ manager' = [at |-> "idle", next |-> 1]
    /\ UNCHANGED <<server, conn, notes, disturbed>>

\* status, and stop_all: the connected servers are terminated or killed.
StopAll ==
    /\ manager.at = "report"
    /\ manager' = [at |-> "idle", next |-> 1]
    /\ server' = [s \in McpServerIds |-> IF conn[s].at = "connected" THEN NoServer ELSE server[s]]
    /\ UNCHANGED <<conn, notes, disturbed>>

McpNext ==
    \/ BeginStatus \/ StopAll
    \/ \E s \in McpServerIds : \/ StartServer(s) \/ ReadAnswer(s) \/ NoAnswer(s)
                               \/ ServerAnswers(s) \/ ServerNotifies(s) \/ ServerExits(s)

McpSpec == McpInit /\ [][McpNext]_mcpVars

-----------------------------------------------------------------------------
McpTypeOK ==
    /\ \A s \in McpServerIds :
          /\ server[s].up \in BOOLEAN
          /\ \A m \in {"asked", "pipe", "buffer"} : Len(server[s][m]) <= 3 + MaxNotes
          /\ conn[s].at \in {"none", "degraded", "connected"} \cup Methods
          /\ conn[s].tools \in {"none", "note", "error", "initialize", "initialized",
                             "tools/list"}
    /\ manager.at \in {"idle", "start", "report"} /\ manager.next \in 1..NumServers + 1
    /\ notes \in 0..MaxNotes
    /\ disturbed \subseteq McpServerIds

\* The client looks at no id.  While a server speaks only when it is asked and
\* in time, and whatever its neighbours do, what it is connected with are the
\* tools of its own answer (mcp_client.py:76-97).
ToolsAreTheAnswer ==
    \A s \in McpServerIds :
        conn[s].at = "connected" /\ s \notin disturbed => conn[s].tools \in {"tools/list", "error"}

\* Once a status request is through, only a server whose start failed is left
\* running (mcp_client.py:153-187).
OnlyFailedStartsStay ==
    manager.at = "idle" => \A s \in McpServerIds : server[s].up => conn[s].at = "degraded"
=============================================================================
