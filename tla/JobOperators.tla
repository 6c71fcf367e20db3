---------------------------- MODULE JobOperators ----------------------------
(***************************************************************************)
(* The operators of background jobs: shell sessions (/cancel, /pause,      *)
(* /resume, /inject, /approve, /approvals_review), the full-screen UI and  *)
(* the HTTP API.  Each runs one command at a time, a database statement or *)
(* pattern-file access per step; op[o] is the command it is in.            *)
(***************************************************************************)
EXTENDS JobStore

CONSTANTS
    Operators,   \* shell sessions, screens and API clients
    Commands,    \* the commands in use
    MaxCommands  \* bound on the commands of one operator

ASSUME OperatorAssumption == MaxCommands \in Nat

VARIABLES
    op,          \* the command each operator is in
    granted      \* history: calls some operator ever granted

operatorVars == <<op, granted>>

OpLabels == {"idle", "cancelWrite", "pauseWrite", "pauseMark", "resumeRead",
             "resumeWrite", "resumeMark", "rememberWrite", "resolve"}

\* mark: the command also writes shell_jobs.status, as do_pause and do_resume
\* of the shell do and the screen and the API do not.
\* resume: resolving the request resumes the job, as /approve and the API do
\* and the review loop and the screen do not.
Opers == [at : OpLabels,
          job : Jobs,
          request : Steps,
          decision : {"approved", "denied"},
          grant : SUBSET Calls,
          loaded : SUBSET Calls,
          mark : BOOLEAN,
          resume : BOOLEAN,
          left : 0 .. MaxCommands]

OperatorTypeOK ==
    /\ op \in [Operators -> Opers]
    /\ granted \in SUBSET Calls

Idle(j, n) == [at |-> "idle", job |-> j, request |-> 1, decision |-> "denied",
               grant |-> {}, loaded |-> {}, mark |-> FALSE, resume |-> FALSE,
               left |-> n]

OperatorInit ==
    /\ \E j \in Jobs : op = [o \in Operators |-> Idle(j, MaxCommands)]
    /\ granted = allow

OnRows == <<job, since>>
OnAsking == <<requests, allow, granted>>

\* A command is begun by an idle operator that has one left.
May(o, c) == c \in Commands /\ op[o].at = "idle" /\ op[o].left > 0

Begin(o, j, l, mark) ==
    op' = [op EXCEPT ![o] = [Idle(j, @.left - 1) EXCEPT !.at = l, !.mark = mark]]

Then(o, l) == op' = [op EXCEPT ![o].at = l]

Finish(o) == op' = [op EXCEPT ![o] = Idle(@.job, @.left)]

-----------------------------------------------------------------------------
(* Cancel, pause, resume: a SELECT that decides, then the writes.          *)
(* The shell's own check of control_state admits what the SELECT admits.   *)

StartCancel(o, j) ==
    /\ May(o, "cancel")
    /\ CancelAccepted(j)
    /\ Begin(o, j, "cancelWrite", FALSE)
    /\ UNCHANGED <<storeVars, granted>>

CancelWrite(o) ==
    /\ op[o].at = "cancelWrite"
    /\ WriteStatus(op[o].job, "cancel_requested")
    /\ Finish(o)
    /\ UNCHANGED <<run, inbox, OnAsking>>

StartPause(o, j) ==
    /\ May(o, "pause")
    /\ PauseAccepted(j)
    /\ \E mark \in BOOLEAN : Begin(o, j, "pauseWrite", mark)
    /\ UNCHANGED <<storeVars, granted>>

PauseWrite(o) ==
    /\ op[o].at = "pauseWrite"
    /\ WriteControl(op[o].job, "paused")
    /\ IF op[o].mark THEN Then(o, "pauseMark") ELSE Finish(o)
    /\ UNCHANGED <<run, inbox, OnAsking>>

PauseMark(o) ==
    /\ op[o].at = "pauseMark"
    /\ WriteStatus(op[o].job, "paused")
    /\ Finish(o)
    /\ UNCHANGED <<run, inbox, OnAsking>>

StartResume(o, j) ==
    /\ May(o, "resume")
    /\ ResumeAccepted(j)
    /\ \E mark \in BOOLEAN : Begin(o, j, "resumeWrite", mark)
    /\ UNCHANGED <<storeVars, granted>>

\* The request_shell_job_resume that ends /inject --resume and /approve.
ResumeRead(o) ==
    /\ op[o].at = "resumeRead"
    /\ IF ResumeAccepted(op[o].job) THEN Then(o, "resumeWrite") ELSE Finish(o)
    /\ UNCHANGED <<storeVars, granted>>

ResumeWrite(o) ==
    /\ op[o].at = "resumeWrite"
    /\ WriteControl(op[o].job, "running")
    /\ IF op[o].mark THEN Then(o, "resumeMark") ELSE Finish(o)
    /\ UNCHANGED <<run, inbox, OnAsking>>

ResumeMark(o) ==
    /\ op[o].at = "resumeMark"
    /\ WriteStatus(op[o].job, "running")
    /\ Finish(o)
    /\ UNCHANGED <<run, inbox, OnAsking>>

-----------------------------------------------------------------------------
(* Operator input *)

Inject(o, j, n) ==
    /\ May(o, "inject")
    /\ job[j].status # "absent"
    /\ inbox[j][n] = "unsent"
    /\ EnqueueInput(j, n)
    /\ \E l \in {"idle", "resumeRead"} : Begin(o, j, l, FALSE)
    /\ UNCHANGED <<OnRows, run, OnAsking>>

-----------------------------------------------------------------------------
(* Approval requests *)

Exists(r) == requests[r].status # "none"

\* The record is read, resolved or not, and remember() loads the pattern file.
\* The operator may grant other calls than the one asked for.
StartApprove(o, j, n) ==
    /\ May(o, "approve")
    /\ Exists(<<j, n>>)
    /\ \E g \in SUBSET Calls, resume \in BOOLEAN :
          op' = [op EXCEPT ![o] =
                   [Idle(j, @.left - 1) EXCEPT
                       !.at = "rememberWrite", !.request = n,
                       !.decision = "approved", !.grant = g,
                       !.loaded = allow, !.resume = resume]]
    /\ UNCHANGED <<storeVars, granted>>

\* remember() rewrites the whole file from what it loaded.
RememberWrite(o) ==
    /\ op[o].at = "rememberWrite"
    /\ allow' = op[o].loaded \cup op[o].grant
    /\ granted' = granted \cup op[o].grant
    /\ Then(o, "resolve")
    /\ UNCHANGED <<OnRows, run, requests, inbox>>

StartDeny(o, j, n) ==
    /\ May(o, "deny")
    /\ Exists(<<j, n>>)
    /\ op' = [op EXCEPT ![o] = [Idle(j, @.left - 1) EXCEPT
                                   !.at = "resolve", !.request = n,
                                   !.resume = TRUE]]
    /\ UNCHANGED <<storeVars, granted>>

Resolve(o) ==
    /\ op[o].at = "resolve"
    /\ LET r == <<op[o].job, op[o].request>> IN
         /\ ResolveApprovalRequest(r, op[o].decision)
         /\ IF requests[r].status = "pending" /\ op[o].resume
            THEN Then(o, "resumeRead")
            ELSE Finish(o)
    /\ UNCHANGED <<OnRows, run, inbox, allow, granted>>

\* The screen's keys and the review loop's a and d: one statement, no pattern.
Decide(o, j, n) ==
    /\ May(o, "decide")
    /\ Exists(<<j, n>>)
    /\ \E d \in {"approved", "denied"} : ResolveApprovalRequest(<<j, n>>, d)
    /\ Begin(o, j, "idle", FALSE)
    /\ UNCHANGED <<OnRows, run, inbox, allow, granted>>

-----------------------------------------------------------------------------

\* The operator's process ends between two statements of a command.
OperatorExit(o) ==
    /\ op[o].at # "idle"
    /\ Finish(o)
    /\ UNCHANGED <<storeVars, granted>>

\* The steps by which a command under way proceeds.
Proceed(o) ==
    \/ CancelWrite(o) \/ PauseWrite(o) \/ PauseMark(o)
    \/ ResumeRead(o) \/ ResumeWrite(o) \/ ResumeMark(o)
    \/ RememberWrite(o) \/ Resolve(o)

StartCommand(o) ==
    \E j \in Jobs :
        \/ StartCancel(o, j) \/ StartPause(o, j) \/ StartResume(o, j)
        \/ \E n \in Notes : Inject(o, j, n)
        \/ \E n \in Steps : \/ StartApprove(o, j, n)
                            \/ StartDeny(o, j, n)
                            \/ Decide(o, j, n)

OperatorStep(o) == StartCommand(o) \/ Proceed(o) \/ OperatorExit(o)

=============================================================================
