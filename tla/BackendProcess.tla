--------------------------- MODULE BackendProcess ---------------------------
(***************************************************************************)
(* The process of the subprocess backend and the thread that watches over  *)
(* it: _execute_backend_once polls until the process has exited and only   *)
(* then reads its output, and meanwhile looks for a cancel and for pause   *)
(* and resume, which are signals.  The command may block on a full pipe,   *)
(* ignore SIGTERM, or leave a helper behind that keeps the pipe open.      *)
(***************************************************************************)
EXTENDS Naturals

CONSTANTS
    MaxOutput,   \* pieces of output the command writes at most
    PipeSize     \* pieces the pipe holds

ASSUME ProcessAssumption == MaxOutput \in Nat /\ PipeSize \in Nat

VARIABLES
    child,       \* the command: state, output left, pipe, helper, stubborn
    watch,       \* the thread: where it stands, and is_paused
    control      \* what the operator asked for

processVars == <<child, watch, control>>

Watching(l) == watch.at = l
Watch(l) == watch' = [watch EXCEPT !.at = l]
Exited == child.state = "exited"

ProcessInit ==
    /\ child \in [state : {"runs"}, left : 0..MaxOutput, pipe : {0}, helper : {FALSE},
                  stubborn : BOOLEAN, term : {FALSE}]
    /\ watch = [at |-> "poll", paused |-> FALSE]
    /\ control = [cancel |-> FALSE, pause |-> FALSE]

-----------------------------------------------------------------------------
(* The command *)

ChildWrites ==
    /\ child.state = "runs" /\ child.left > 0 /\ child.pipe < PipeSize
    /\ child' = [child EXCEPT !.left = @ - 1, !.pipe = @ + 1]
    /\ UNCHANGED <<watch, control>>

ChildForks ==
    /\ child.state = "runs" /\ ~child.helper
    /\ child' = [child EXCEPT !.helper = TRUE]
    /\ UNCHANGED <<watch, control>>

ChildExits ==
    /\ child.state = "runs" /\ child.left = 0
    /\ child' = [child EXCEPT !.state = "exited"]
    /\ UNCHANGED <<watch, control>>

\* A pending SIGTERM is delivered to a process that runs; one that is stopped
\* keeps it pending.
ChildIsTerminated ==
    /\ child.state = "runs" /\ child.term /\ ~child.stubborn
    /\ child' = [child EXCEPT !.state = "exited", !.term = FALSE]
    /\ UNCHANGED <<watch, control>>

HelperEnds ==
    /\ child.helper
    /\ child' = [child EXCEPT !.helper = FALSE]
    /\ UNCHANGED <<watch, control>>

-----------------------------------------------------------------------------
(* The thread *)

Poll ==
    /\ Watching("poll")
    /\ Watch(IF Exited THEN "communicate" ELSE "cancel?")
    /\ UNCHANGED <<child, control>>

LookForCancel ==
    /\ Watching("cancel?")
    /\ Watch(IF control.cancel THEN "terminate" ELSE "control?")
    /\ UNCHANGED <<child, control>>

\* SIGSTOP and SIGCONT are sent after another poll; is_paused is set whether
\* or not a signal was sent.  Then the thread sleeps.
LookForControl ==
    /\ Watching("control?")
    /\ watch' = [at |-> "poll", paused |-> control.pause]
    /\ child' = CASE Exited -> child
                  [] control.pause /\ ~watch.paused -> [child EXCEPT !.state = "stopped"]
                  [] ~control.pause /\ watch.paused -> [child EXCEPT !.state = "runs"]
                  [] OTHER -> child
    /\ UNCHANGED control

Terminate ==
    /\ Watching("terminate")
    /\ Watch("reap")
    /\ child' = IF Exited THEN child ELSE [child EXCEPT !.term = TRUE]
    /\ UNCHANGED control

\* wait(timeout=2) comes back.
Reap ==
    /\ Watching("reap") /\ Exited
    /\ Watch("canceled")
    /\ UNCHANGED <<child, control>>

\* Mutant: a second SIGTERM instead of SIGKILL.
KillGently ==
    /\ Watching("reap") /\ ~Exited
    /\ child' = [child EXCEPT !.term = TRUE]
    /\ UNCHANGED <<watch, control>>

\* It timed out: SIGKILL, which reaches a stopped process as well.
Kill ==
    /\ Watching("reap") /\ ~Exited
    /\ child' = [child EXCEPT !.state = "exited", !.term = FALSE]
    /\ UNCHANGED <<watch, control>>

\* communicate() reads to the end of the file, which comes when nobody holds
\* the other end.  Nothing looks for a cancel here.
Communicate ==
    /\ Watching("communicate") /\ ~child.helper
    /\ Watch("done") /\ child' = [child EXCEPT !.pipe = 0]
    /\ UNCHANGED control

-----------------------------------------------------------------------------
AskCancelProcess ==
    /\ ~control.cancel /\ control' = [control EXCEPT !.cancel = TRUE]
    /\ UNCHANGED <<child, watch>>

AskPauseResume ==
    /\ control' = [control EXCEPT !.pause = ~@]
    /\ UNCHANGED <<child, watch>>

WatchStep ==
    Poll \/ LookForCancel \/ LookForControl \/ Terminate \/ Reap \/ Kill \/ Communicate

ProcessNext ==
    \/ ChildWrites \/ ChildForks \/ ChildExits \/ ChildIsTerminated \/ HelperEnds
    \/ WatchStep \/ AskCancelProcess \/ AskPauseResume

ProcessSpec == ProcessInit /\ [][ProcessNext]_processVars

\* Only the thread is scheduled for certain: the command owes nothing.
ProcessFairSpec == ProcessSpec /\ WF_processVars(WatchStep)

-----------------------------------------------------------------------------
ProcessTypeOK ==
    /\ child \in [state : {"runs", "stopped", "exited"}, left : 0..MaxOutput, pipe : 0..PipeSize,
                  helper : BOOLEAN, stubborn : BOOLEAN, term : BOOLEAN]
    /\ watch \in [at : {"poll", "cancel?", "control?", "terminate", "reap", "communicate",
                        "done", "canceled"}, paused : BOOLEAN]
    /\ control \in [cancel : BOOLEAN, pause : BOOLEAN]

\* The thread never leaves the command running or stopped behind it, whatever
\* signals crossed its exit (subprocess_command.py:29-47).
CommandEndsFirst == watch.at \in {"done", "canceled"} => Exited

\* A cancel ends the thread though the command is stopped, blocked on a full
\* pipe or deaf to SIGTERM, unless it has exited and a helper of it keeps the
\* pipe open (orchestrator.py:1999-2048).
CancelEndsProcess ==
    control.cancel ~> \/ watch.at \in {"done", "canceled"}
                      \/ watch.at = "communicate" /\ child.helper
=============================================================================
