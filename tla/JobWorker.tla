----------------------------- MODULE JobWorker ------------------------------
(***************************************************************************)
(* The worker thread of a background job: the closure `worker` of /bg (and *)
(* the one of /delegate, which skips the dispatch check), the part of      *)
(* Orchestro.execute_prepared_run it drives, the tool loop, and the        *)
(* approval wait _approve_tool_for_job.  pc[j] is the next database access *)
(* or backend operation of the thread, frame[j] its locals.                *)
(***************************************************************************)
EXTENDS JobStore

CONSTANTS
    Strategies,  \* subset of {"tool-loop", "direct"}; "direct" is the attempt
                 \* loop shared by direct and the reflect-retry strategies
    Backends,    \* subset of {"process", "inline"}: what backend.start returns
    Origins      \* subset of {"bg", "delegate"}

VARIABLES
    pc,          \* control point of the worker of each job
    frame,       \* its locals
    delivered,   \* history: notes handed to the tool loop
    ran          \* history: confirm-tier calls executed by the job

workerVars == <<pc, frame, delivered, ran>>

Before == {"start", "attach", "dispatch", "cancelBefore", "execute"}
Loop == {"top", "pauseCheck", "pauseWait", "inputs", "markInputs"}
Operation == {"call", "busy", "pollControl"}
Approval == {"gate", "ask", "askPause", "askPauseWrite", "poll", "waitCancel",
             "recheck", "runTool"}
After == {"cancelRun", "complete", "failRun", "settle",
          "markDone", "markCanceled", "markFailed"}
Live == Before \cup Loop \cup Operation \cup Approval \cup After
Labels == {"absent", "ended", "killed"} \cup Live

Mode == [strategy : Strategies, backend : Backends, origin : Origins]

\* ticket is the step whose approval request the thread waits on, 0 for none.
Frames == [mode : Mode,
           step : 1 .. MaxSteps + 1,
           call : Calls \cup {NoCall},
           ticket : 0 .. MaxSteps,
           taken : SUBSET Notes,
           stopped : BOOLEAN]

WorkerTypeOK ==
    /\ pc \in [Jobs -> Labels]
    /\ frame \in [Jobs -> Frames]
    /\ delivered \in [Jobs -> SUBSET Notes]
    /\ ran \in [Jobs -> SUBSET Calls]

FirstFrame(m) == [mode |-> m, step |-> 1, call |-> NoCall, ticket |-> 0,
                  taken |-> {}, stopped |-> FALSE]

WorkerInit ==
    /\ pc = [j \in Jobs |-> "absent"]
    /\ \E m \in [Jobs -> Mode] : frame = [j \in Jobs |-> FirstFrame(m[j])]
    /\ delivered = [j \in Jobs |-> {}]
    /\ ran = [j \in Jobs |-> {}]

At(j, l) == pc[j] = l
Goto(j, l) == pc' = [pc EXCEPT ![j] = l]
IsToolLoop(j) == frame[j].mode.strategy = "tool-loop"
IsProcess(j) == frame[j].mode.backend = "process"

\* Steps that touch neither the history nor one of these groups of rows.
JobRow == <<job, since>>
Asking == <<requests, allow>>
History == <<delivered, ran>>

-----------------------------------------------------------------------------
(* Creation, dispatch and the pre-run hook *)

\* The shell inserts the row and starts the thread.
Launch(j) ==
    /\ At(j, "absent")
    /\ CreateShellJob(j)
    /\ Goto(j, "start")
    /\ UNCHANGED <<run, Asking, inbox, frame, History>>

\* start_run may raise before it inserts the run (an unknown backend) or
\* after (an event, the git snapshot).
StartRun(j) ==
    /\ At(j, "start")
    /\ \/ CreateRun(j) /\ Goto(j, "attach")
       \/ CreateRun(j) /\ Goto(j, "markFailed")
       \/ UNCHANGED run /\ Goto(j, "markFailed")
    /\ UNCHANGED <<JobRow, Asking, inbox, frame, History>>

AttachRun(j) ==
    /\ At(j, "attach")
    /\ AttachShellJobRun(j)
    /\ Goto(j, IF frame[j].mode.origin = "bg" THEN "dispatch" ELSE "execute")
    /\ UNCHANGED <<run, Asking, inbox, frame, History>>

\* The grace period only delays this last look at the status.
DispatchCheck(j) ==
    /\ At(j, "dispatch")
    /\ Goto(j, IF IsCancelRequested(j) THEN "cancelBefore" ELSE "execute")
    /\ UNCHANGED <<storeVars, frame, History>>

CancelBeforeDispatch(j) ==
    /\ At(j, "cancelBefore")
    /\ CancelRun(j)
    /\ Goto(j, "markCanceled")
    /\ UNCHANGED <<JobRow, Asking, inbox, frame, History>>

\* A plugin's pre_run hook may abort: the run fails, but the method returns.
PreRunHook(j) ==
    /\ At(j, "execute")
    /\ \/ FailRun(j) /\ Goto(j, "settle")
       \/ UNCHANGED run /\ Goto(j, IF IsToolLoop(j) THEN "top" ELSE "call")
    /\ UNCHANGED <<JobRow, Asking, inbox, frame, History>>

-----------------------------------------------------------------------------
(* The head of a tool-loop step *)

\* The step budget and the autonomy budget end the loop with an answer.
StopLoop(j) ==
    /\ At(j, "top")
    /\ frame[j].step > 1
    /\ Goto(j, "complete")
    /\ UNCHANGED <<storeVars, frame, History>>

\* Mutant: range(1, max_steps + 2).
EnterStepOnceMore(j) ==
    /\ At(j, "top")
    /\ frame[j].step <= MaxSteps + 1
    /\ Goto(j, IF IsCancelRequested(j) THEN "cancelRun" ELSE "pauseCheck")
    /\ UNCHANGED <<storeVars, frame, History>>

\* Mutant: the step does not look at the cancel flag.
EnterStepBlindly(j) ==
    /\ At(j, "top")
    /\ frame[j].step <= MaxSteps
    /\ Goto(j, "pauseCheck")
    /\ UNCHANGED <<storeVars, frame, History>>

EnterStep(j) ==
    /\ At(j, "top")
    /\ frame[j].step <= MaxSteps
    /\ Goto(j, IF IsCancelRequested(j) THEN "cancelRun" ELSE "pauseCheck")
    /\ UNCHANGED <<storeVars, frame, History>>

PauseCheck(j) ==
    /\ At(j, "pauseCheck")
    /\ Goto(j, IF job[j].control = "paused" THEN "pauseWait" ELSE "inputs")
    /\ UNCHANGED <<storeVars, frame, History>>

PauseWait(j) ==
    /\ At(j, "pauseWait")
    /\ Goto(j, IF IsCancelRequested(j) THEN "cancelRun" ELSE "pauseCheck")
    /\ UNCHANGED <<storeVars, frame, History>>

\* consume_pending_shell_job_inputs: the SELECT ...
SelectInputs(j) ==
    /\ At(j, "inputs")
    /\ frame' = [frame EXCEPT ![j].taken = PendingNotes(j)]
    /\ Goto(j, IF PendingNotes(j) = {} THEN "call" ELSE "markInputs")
    /\ UNCHANGED <<storeVars, History>>

\* Mutant: the rows are returned and stay pending.
MarkNothing(j) ==
    /\ At(j, "markInputs")
    /\ delivered' = [delivered EXCEPT ![j] = @ \cup frame[j].taken]
    /\ frame' = [frame EXCEPT ![j].taken = {}]
    /\ Goto(j, "call")
    /\ UNCHANGED <<JobRow, inbox, run, Asking, ran>>

\* ... and the UPDATE, after which the rows of the SELECT are returned.
MarkInputs(j) ==
    /\ At(j, "markInputs")
    /\ ConsumePending(j)
    /\ delivered' = [delivered EXCEPT ![j] = @ \cup frame[j].taken]
    /\ frame' = [frame EXCEPT ![j].taken = {}]
    /\ Goto(j, "call")
    /\ UNCHANGED <<JobRow, run, Asking, ran>>

-----------------------------------------------------------------------------
(* One backend operation: _execute_backend_once *)

BeginOperation(j) ==
    /\ At(j, "call")
    /\ since' = [since EXCEPT ![j] = [control |-> Counted(@.control),
                                      status |-> Counted(@.status)]]
    /\ Goto(j, "busy")
    /\ UNCHANGED <<job, run, Asking, inbox, frame, History>>

\* The poll loop of a subprocess reads the cancel flag, and terminates it.
PollCancel(j) ==
    /\ At(j, "busy")
    /\ IsProcess(j)
    /\ \/ IsCancelRequested(j) /\ Goto(j, "cancelRun")
       \/ ~ IsCancelRequested(j) /\ ~ IsToolLoop(j) /\ Goto(j, "pollControl")
    /\ UNCHANGED <<storeVars, frame, History>>

\* Mutant: a stopped process is never continued.
PollControlStopsOnly(j) ==
    /\ At(j, "pollControl")
    /\ frame' = [frame EXCEPT ![j].stopped = @ \/ (job[j].control = "paused")]
    /\ Goto(j, "busy")
    /\ UNCHANGED <<storeVars, History>>

\* The tool loop passes control_state=None: only the attempt loop gets here.
PollControl(j) ==
    /\ At(j, "pollControl")
    /\ frame' = [frame EXCEPT ![j].stopped = (job[j].control = "paused")]
    /\ Goto(j, "busy")
    /\ UNCHANGED <<storeVars, History>>

\* A process stopped by SIGSTOP does not return.
Returns(j) == At(j, "busy") /\ ~ frame[j].stopped

NextStep(j, l) ==
    /\ frame' = [frame EXCEPT ![j].step = @ + 1, ![j].call = NoCall,
                              ![j].ticket = 0]
    /\ Goto(j, l)

FinalAnswer(j) ==
    /\ Returns(j)
    /\ Goto(j, "complete")
    /\ UNCHANGED <<storeVars, frame, History>>

RequestTool(j) ==
    /\ Returns(j)
    /\ IsToolLoop(j)
    /\ \E c \in Calls : frame' = [frame EXCEPT ![j].call = c]
    /\ Goto(j, "gate")
    /\ UNCHANGED <<storeVars, History>>

\* An unknown, denied or autonomously skipped tool, or an automatic one: no
\* access to the rows.  (A delegated child run, which may access all of them,
\* is not modelled here.)
OtherAction(j) ==
    /\ Returns(j)
    /\ IsToolLoop(j)
    /\ NextStep(j, "top")
    /\ UNCHANGED <<storeVars, History>>

\* Nothing in the tool loop's branch, of a backend or an automatic tool that
\* raises, turns an exception into fail_run; the attempt loop retries or fails
\* the run, and raises in both cases at last.  It raises with the run still
\* running when what its handler does raises: the choice of another backend, or
\* the reading of an impossible date in a quota error.
BackendFails(j) ==
    /\ Returns(j)
    /\ \/ /\ \/ Goto(j, "markFailed")
             \/ ~ IsToolLoop(j) /\ Goto(j, "failRun")
          /\ UNCHANGED frame
       \/ /\ ~ IsToolLoop(j)
          /\ frame[j].step < MaxSteps
          /\ NextStep(j, "call")
    /\ UNCHANGED <<storeVars, History>>

BackendReturns(j) ==
    FinalAnswer(j) \/ RequestTool(j) \/ OtherAction(j) \/ BackendFails(j)

-----------------------------------------------------------------------------
(* A confirm-tier call: _approve_tool_for_job and the tool itself *)

Gate(j) ==
    /\ At(j, "gate")
    /\ Goto(j, IF IsAllowed(frame[j].call) THEN "runTool" ELSE "ask")
    /\ UNCHANGED <<storeVars, frame, History>>

\* Mutant: no look for a pending request of the same call.
AskAnew(j) ==
    /\ At(j, "ask")
    /\ CreateApprovalRequest(j, frame[j].step, frame[j].call)
    /\ frame' = [frame EXCEPT ![j].ticket = frame[j].step]
    /\ Goto(j, "askPause")
    /\ UNCHANGED <<JobRow, run, inbox, allow, History>>

\* Only this thread inserts requests of its job, so the look for a pending
\* one and the insertion are one step.
Ask(j) ==
    /\ At(j, "ask")
    /\ LET c == frame[j].call  n == frame[j].step IN
       \/ /\ PendingFor(j, c) # {}
          /\ frame' = [frame EXCEPT ![j].ticket = LatestPending(j, c)]
          /\ Goto(j, "poll")
          /\ UNCHANGED requests
       \/ /\ PendingFor(j, c) = {}
          /\ CreateApprovalRequest(j, n, c)
          /\ frame' = [frame EXCEPT ![j].ticket = n]
          /\ Goto(j, "askPause")
    /\ UNCHANGED <<JobRow, run, inbox, allow, History>>

\* request_shell_job_pause by the worker itself
AskPause(j) ==
    /\ At(j, "askPause")
    /\ Goto(j, IF PauseAccepted(j) THEN "askPauseWrite" ELSE "poll")
    /\ UNCHANGED <<storeVars, frame, History>>

AskPauseWrite(j) ==
    /\ At(j, "askPauseWrite")
    /\ WriteControl(j, "paused")
    /\ Goto(j, "poll")
    /\ UNCHANGED <<run, Asking, inbox, frame, History>>

Ticket(j) == <<j, frame[j].ticket>>

\* Mutant: any resolution sends the worker back to the pattern store.
PollRequestResolved(j) ==
    /\ At(j, "poll")
    /\ Goto(j, IF requests[Ticket(j)].status = "pending" THEN "waitCancel"
                                                         ELSE "recheck")
    /\ UNCHANGED <<storeVars, frame, History>>

PollRequest(j) ==
    /\ At(j, "poll")
    /\ \/ requests[Ticket(j)].status = "approved" /\ Goto(j, "recheck")
                                                  /\ UNCHANGED frame
       \/ requests[Ticket(j)].status = "denied" /\ NextStep(j, "top")
       \/ requests[Ticket(j)].status = "pending" /\ Goto(j, "waitCancel")
                                                 /\ UNCHANGED frame
    /\ UNCHANGED <<storeVars, History>>

\* Mutant: the approval wait has no cancel check.
WaitDeafly(j) ==
    /\ At(j, "waitCancel")
    /\ Goto(j, "poll")
    /\ UNCHANGED <<storeVars, frame, History>>

WaitCancel(j) ==
    /\ At(j, "waitCancel")
    /\ \/ IsCancelRequested(j) /\ NextStep(j, "top")
       \/ ~ IsCancelRequested(j) /\ Goto(j, "poll") /\ UNCHANGED frame
    /\ UNCHANGED <<storeVars, History>>

\* Mutant: an approved request is enough.
RecheckNothing(j) ==
    /\ At(j, "recheck")
    /\ Goto(j, "runTool")
    /\ UNCHANGED <<storeVars, frame, History>>

\* An approval is honoured through the pattern store, not by itself.
Recheck(j) ==
    /\ At(j, "recheck")
    /\ \/ IsAllowed(frame[j].call) /\ Goto(j, "runTool") /\ UNCHANGED frame
       \/ ~ IsAllowed(frame[j].call) /\ NextStep(j, "top")
    /\ UNCHANGED <<storeVars, History>>

\* A tool that raises leaves the tool loop, and the run as it is.
RunTool(j) ==
    /\ At(j, "runTool")
    /\ ran' = [ran EXCEPT ![j] = @ \cup {frame[j].call}]
    /\ \/ NextStep(j, "top")
       \/ Goto(j, "markFailed") /\ UNCHANGED frame
    /\ UNCHANGED <<storeVars, delivered>>

-----------------------------------------------------------------------------
(* The end of the run and of the job *)

\* The tool loop raises after cancel_run; the attempt loop returns, but where
\* the git snapshot that is taken then raises.
CancelDuringRun(j) ==
    /\ At(j, "cancelRun")
    /\ CancelRun(j)
    /\ Goto(j, "markFailed") \/ (~ IsToolLoop(j) /\ Goto(j, "settle"))
    /\ UNCHANGED <<JobRow, Asking, inbox, frame, History>>

\* After complete_run, too, the git snapshot may raise.
Complete(j) ==
    /\ At(j, "complete")
    /\ CompleteRun(j)
    /\ Goto(j, "settle") \/ Goto(j, "markFailed")
    /\ UNCHANGED <<JobRow, Asking, inbox, frame, History>>

FailAttempts(j) ==
    /\ At(j, "failRun")
    /\ FailRun(j)
    /\ Goto(j, "markFailed")
    /\ UNCHANGED <<JobRow, Asking, inbox, frame, History>>

\* Mutant: the worker does not re-read the run it executed.
SettleUnread(j) ==
    /\ At(j, "settle")
    /\ Goto(j, "markDone")
    /\ UNCHANGED <<storeVars, frame, History>>

Settle(j) ==
    /\ At(j, "settle")
    /\ Goto(j, IF run[j] = "canceled" THEN "markCanceled" ELSE "markDone")
    /\ UNCHANGED <<storeVars, frame, History>>

\* update_shell_job overwrites whatever status the row has.
MarkJob(j) ==
    /\ \/ At(j, "markDone") /\ WriteStatus(j, "done")
       \/ At(j, "markCanceled") /\ WriteStatus(j, "canceled")
       \/ At(j, "markFailed") /\ WriteStatus(j, "failed")
    /\ Goto(j, "ended")
    /\ UNCHANGED <<run, Asking, inbox, frame, History>>

-----------------------------------------------------------------------------

\* Worker threads are daemons: they end with the shell that started them, and
\* nothing at start-up looks for the rows they leave behind.
ShellExit ==
    /\ \E j \in Jobs : pc[j] \in Live
    /\ pc' = [j \in Jobs |-> IF pc[j] \in Live THEN "killed" ELSE pc[j]]
    /\ UNCHANGED <<storeVars, frame, History>>

DispatchStep(j) ==
    \/ StartRun(j) \/ AttachRun(j) \/ DispatchCheck(j)
    \/ CancelBeforeDispatch(j) \/ PreRunHook(j)

HeadStep(j) ==
    \/ StopLoop(j) \/ EnterStep(j) \/ PauseCheck(j) \/ PauseWait(j)
    \/ SelectInputs(j) \/ MarkInputs(j)

OperationStep(j) ==
    BeginOperation(j) \/ PollCancel(j) \/ PollControl(j) \/ BackendReturns(j)

ApprovalStep(j) ==
    \/ Gate(j) \/ Ask(j) \/ AskPause(j) \/ AskPauseWrite(j)
    \/ PollRequest(j) \/ WaitCancel(j) \/ Recheck(j) \/ RunTool(j)

EndStep(j) ==
    \/ CancelDuringRun(j) \/ Complete(j) \/ FailAttempts(j)
    \/ Settle(j) \/ MarkJob(j)

WorkerStep(j) ==
    \/ DispatchStep(j) \/ HeadStep(j) \/ OperationStep(j)
    \/ ApprovalStep(j) \/ EndStep(j)

=============================================================================
