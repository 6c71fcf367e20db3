------------------------------ MODULE JobStore ------------------------------
(***************************************************************************)
(* The rows a background job lives in: shell_jobs, runs,                   *)
(* approval_requests and shell_job_inputs of the SQLite database, and the  *)
(* pattern file tool_approvals.json.  Worker threads (JobWorker) and       *)
(* operators (JobOperators) meet only here.                                *)
(*                                                                         *)
(* OrchestroDB opens a connection per method and Python's sqlite3 starts a *)
(* transaction at the first write only.  The unit of atomicity is thus the *)
(* SQL statement: a method that SELECTs and then UPDATEs is two steps, and *)
(* the operators below are those statements.                               *)
(***************************************************************************)
EXTENDS Naturals

CONSTANTS
    Jobs,        \* background jobs (one run each)
    Calls,       \* tool calls of the confirm tier, up to their approval_key
    Notes,       \* notes an operator may inject
    NoCall,      \* no tool call
    MaxSteps     \* tool-loop steps, or attempts of a retrying strategy

ASSUME StoreAssumption == MaxSteps \in Nat \ {0} /\ NoCall \notin Calls

VARIABLES
    job,         \* shell_jobs: status, control_state, whether run_id is set
    run,         \* runs.status of the job's run
    requests,    \* approval_requests, by the job and step that asked
    inbox,       \* shell_job_inputs.status, by job and note
    allow,       \* the calls covered by tool_approvals.json
    since        \* history: backend operations begun since the last change
                 \* of control_state, and of status

storeVars == <<job, run, requests, inbox, allow, since>>

Steps == 1 .. MaxSteps
Requests == Jobs \X Steps

JobTerminal == {"done", "failed", "canceled"}
JobStatus == {"absent", "running", "cancel_requested", "paused"} \cup JobTerminal
RunTerminal == {"done", "failed", "canceled"}
RunStatus == {"absent", "running"} \cup RunTerminal

\* since counts to 2 and stays there: the properties only ask whether more
\* than one operation was begun.
SinceCap == 2
Counted(n) == IF n < SinceCap THEN n + 1 ELSE n

JobRows == [status : JobStatus, control : {"running", "paused"}, linked : BOOLEAN]
RequestRows == [status : {"none", "pending", "approved", "denied"},
                call : Calls \cup {NoCall}]
Counts == [control : 0 .. SinceCap, status : 0 .. SinceCap]

StoreTypeOK ==
    /\ job \in [Jobs -> JobRows]
    /\ run \in [Jobs -> RunStatus]
    /\ requests \in [Requests -> RequestRows]
    /\ inbox \in [Jobs -> [Notes -> {"unsent", "pending", "consumed"}]]
    /\ allow \in SUBSET Calls
    /\ since \in [Jobs -> Counts]

\* The store may hold remembered patterns of earlier sessions.
StoreInit ==
    /\ job = [j \in Jobs |-> [status |-> "absent", control |-> "running",
                              linked |-> FALSE]]
    /\ run = [j \in Jobs |-> "absent"]
    /\ requests = [r \in Requests |-> [status |-> "none", call |-> NoCall]]
    /\ inbox = [j \in Jobs |-> [n \in Notes |-> "unsent"]]
    /\ allow \in SUBSET Calls
    /\ since = [j \in Jobs |-> [control |-> 0, status |-> 0]]

-----------------------------------------------------------------------------
(* shell_jobs *)

WriteStatus(j, s) ==
    /\ job' = [job EXCEPT ![j].status = s]
    /\ since' = IF job[j].status = s THEN since
                ELSE [since EXCEPT ![j].status = 0]

WriteControl(j, c) ==
    /\ job' = [job EXCEPT ![j].control = c]
    /\ since' = IF job[j].control = c THEN since
                ELSE [since EXCEPT ![j].control = 0]

\* create_shell_job; the schema's defaults leave run_id NULL
CreateShellJob(j) ==
    /\ job' = [job EXCEPT ![j] = [status |-> "running", control |-> "running",
                                  linked |-> FALSE]]
    /\ UNCHANGED since

AttachShellJobRun(j) ==
    /\ job' = [job EXCEPT ![j].linked = TRUE]
    /\ UNCHANGED since

IsCancelRequested(j) == job[j].status = "cancel_requested"

\* What the SELECT of each request_shell_job_* method decides on.
CancelAccepted(j) == job[j].status \notin JobTerminal \cup {"absent"}
PauseAccepted(j)  == CancelAccepted(j) /\ job[j].control # "paused"
ResumeAccepted(j) == CancelAccepted(j) /\ job[j].control # "running"

-----------------------------------------------------------------------------
(* approval_requests and tool_approvals.json *)

PendingFor(j, c) ==
    {n \in Steps : requests[<<j, n>>] = [status |-> "pending", call |-> c]}

\* ORDER BY created_at DESC LIMIT 1
LatestPending(j, c) ==
    CHOOSE n \in PendingFor(j, c) : \A m \in PendingFor(j, c) : m <= n

CreateApprovalRequest(j, n, c) ==
    requests' = [requests EXCEPT ![<<j, n>>] = [status |-> "pending", call |-> c]]

\* Mutant: the UPDATE without its status guard.
ResolveUnguarded(r, decision) ==
    requests' = [requests EXCEPT ![r].status = decision]

\* UPDATE ... WHERE id = ? AND status = 'pending'
ResolveApprovalRequest(r, decision) ==
    requests' = IF requests[r].status = "pending"
                THEN [requests EXCEPT ![r].status = decision]
                ELSE requests

IsAllowed(c) == c \in allow

-----------------------------------------------------------------------------
(* shell_job_inputs *)

PendingNotes(j) == {n \in Notes : inbox[j][n] = "pending"}

EnqueueInput(j, n) == inbox' = [inbox EXCEPT ![j][n] = "pending"]

\* UPDATE ... SET status = 'consumed' WHERE job_id = ? AND status = 'pending'
ConsumePending(j) ==
    inbox' = [inbox EXCEPT ![j] =
                [n \in Notes |-> IF inbox[j][n] = "pending" THEN "consumed"
                                                            ELSE inbox[j][n]]]

-----------------------------------------------------------------------------
(* runs *)

CreateRun(j) == run' = [run EXCEPT ![j] = "running"]
CompleteRun(j) == run' = [run EXCEPT ![j] = "done"]
FailRun(j) == run' = [run EXCEPT ![j] = "failed"]
CancelRun(j) == run' = [run EXCEPT ![j] = "canceled"]

=============================================================================
