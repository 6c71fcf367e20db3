-------------------------- MODULE ShellJobsSafety ---------------------------
(***************************************************************************)
(* The safety properties of ShellJobs, proved for every number of jobs,    *)
(* operators, calls, notes, steps and commands, over the domains of        *)
(* ShellJobsTypes.  Each has an inductive invariant of its own, stated for *)
(* one job: RunFollowsWorker and GrantsKnown for the promise, RowTold for  *)
(* the row's status, Stops for pauses and cancellations, NotesInOrder for  *)
(* the notes, RequestsInOrder for the approvals.  Since a worker's step is *)
(* not seen by another worker (WorkerKeeps), the proofs look at the one    *)
(* worker that moved, and at what an operator may write under it.          *)
(***************************************************************************)
EXTENDS ShellJobsTypes

-----------------------------------------------------------------------------
(* The invariants.                                                         *)

\* The run's status is what the worker's position says it is.
RunFollowsWorker ==
    \A j \in Jobs :
        /\ pc[j] \in {"absent", "start"} => run[j] = "absent"
        /\ pc[j] \in (Before \ {"start"}) \cup Loop \cup Operation \cup Approval
                      \cup {"cancelRun", "complete", "failRun"} =>
               run[j] = "running"
        /\ pc[j] = "settle" => run[j] \in RunTerminal
        /\ pc[j] = "markDone" => run[j] \in {"done", "failed"}
        /\ pc[j] = "markCanceled" => run[j] = "canceled"

\* Whatever the pattern file holds, or a command is about to write back to
\* it, or a worker found in it, some operator granted.
GrantsKnown ==
    /\ allow \subseteq granted
    /\ \A o \in Operators : op[o].loaded \subseteq granted
    /\ \A j \in Jobs : pc[j] = "runTool" => frame[j].call \in granted

PromiseInv == DomainInv /\ RunFollowsWorker /\ GrantsKnown

\* Only a worker writes done, failed and canceled, as its last step, and what
\* it writes is what it knows of the run.
RowTold(j) ==
    /\ job[j].status \in JobTerminal => pc[j] = "ended"
    /\ pc[j] \in Live \ {"start", "attach", "markFailed"} => job[j].linked
    /\ job[j].status = "done" => run[j] \in {"done", "failed"}
    /\ job[j].status = "canceled" => run[j] = "canceled"
    /\ job[j].status \in {"done", "canceled"} => job[j].linked

OutcomeInv == PromiseInv /\ \A j \in Jobs : RowTold(j)

\* The steps that passed the look at the pause, and those that passed the
\* look at the cancellation, and have not begun their operation yet.
PastPause == {"inputs", "markInputs", "call"}
PastCancel == PastPause \cup {"pauseCheck", "pauseWait"}

\* A tool loop that is past the look had not begun an operation since.
Stops(j) ==
    IsToolLoop(j) =>
        /\ job[j].control = "paused" =>
               /\ since[j].control <= 1
               /\ pc[j] \in PastPause => since[j].control = 0
        /\ job[j].status = "cancel_requested" =>
               /\ since[j].status <= 1
               /\ pc[j] \in PastCancel => since[j].status = 0

StopInv == DomainInv /\ \A j \in Jobs : Stops(j)

\* A delivered note was consumed; one that is taken was not delivered.
NotesInOrder(j) ==
    /\ \A n \in delivered[j] : inbox[j][n] = "consumed"
    /\ \A n \in frame[j].taken : /\ inbox[j][n] \in {"pending", "consumed"}
                                 /\ n \notin delivered[j]
    /\ frame[j].taken # {} => pc[j] \in {"markInputs", "killed"}

NoteInv == DomainInv /\ \A j \in Jobs : NotesInOrder(j)

\* Requests are made in the order of the steps, one a step, and the worker
\* asks the pattern store again, or runs what it asked about, only behind an
\* approval.
RequestsInOrder(j) ==
    /\ \A n \in Steps :
          requests[<<j, n>>].status # "none" =>
              \/ n < frame[j].step
              \/ (n = frame[j].step /\ frame[j].ticket # 0)
    /\ pc[j] = "recheck" \/ (pc[j] = "runTool" /\ frame[j].ticket # 0) =>
          requests[Ticket(j)].status = "approved"

RequestInv == DomainInv /\ \A j \in Jobs : RequestsInOrder(j)

-----------------------------------------------------------------------------
(* What a step leaves alone.                                               *)

\* A step of one worker is not seen by another one, and writes neither the
\* pattern file nor what the operators hold.
LEMMA WorkerKeeps ==
    ASSUME DomainInv, NEW j \in Jobs, Worker(j)
    PROVE  /\ UNCHANGED <<allow, op, granted>>
           /\ \A i \in Jobs \ {j} :
                 /\ UNCHANGED <<pc[i], frame[i], job[i], run[i], since[i]>>
                 /\ UNCHANGED <<inbox[i], delivered[i], ran[i]>>
                 /\ \A n \in Steps : UNCHANGED requests[<<i, n>>]
<1> USE DEF DomainInv, TypeOK, StoreTypeOK, WorkerTypeOK, Worker, Goto,
   NextStep, storeVars, operatorVars, JobRow, Asking, History, Requests
<1>1. CASE Launch(j) \/ DispatchStep(j)
  BY <1>1 DEF Launch, DispatchStep, StartRun, AttachRun, DispatchCheck,
     CancelBeforeDispatch, PreRunHook, CreateShellJob, AttachShellJobRun,
     CreateRun, FailRun, CancelRun
<1>2. CASE HeadStep(j)
  BY <1>2 DEF HeadStep, StopLoop, EnterStep, PauseCheck, PauseWait,
     SelectInputs, MarkInputs, ConsumePending
<1>3. CASE OperationStep(j)
  BY <1>3 DEF OperationStep, BeginOperation, PollCancel, PollControl,
     BackendReturns, FinalAnswer, RequestTool, OtherAction, BackendFails
<1>4. CASE ApprovalStep(j)
  BY <1>4 DEF ApprovalStep, Gate, Ask, AskPause, AskPauseWrite, PollRequest,
     WaitCancel, Recheck, RunTool, CreateApprovalRequest, WriteControl
<1>5. CASE EndStep(j)
  BY <1>5 DEF EndStep, CancelDuringRun, Complete, FailAttempts, Settle,
     MarkJob, CancelRun, CompleteRun, FailRun, WriteStatus
<1> QED BY <1>1, <1>2, <1>3, <1>4, <1>5 DEF WorkerStep

\* An operator writes no run, and a request only by resolving it.
LEMMA OperatorKeeps ==
    ASSUME NEW o \in Operators, Operator(o)
    PROVE  /\ UNCHANGED run /\ UNCHANGED workerVars
           /\ \/ UNCHANGED requests
              \/ \E r, d : ResolveApprovalRequest(r, d)
<1> USE DEF Operator, OperatorStep, StartCommand, Proceed, storeVars, OnRows,
   OnAsking
<1>1. UNCHANGED workerVars
  OBVIOUS
<1>2. UNCHANGED run
  BY DEF StartCancel, StartPause, StartResume, Inject, StartApprove, StartDeny,
     Decide, CancelWrite, PauseWrite, PauseMark, ResumeRead, ResumeWrite,
     ResumeMark, RememberWrite, Resolve, OperatorExit
<1>3. \/ UNCHANGED requests
      \/ \E r, d : ResolveApprovalRequest(r, d)
  BY DEF StartCancel, StartPause, StartResume, Inject, StartApprove, StartDeny,
     Decide, CancelWrite, PauseWrite, PauseMark, ResumeRead, ResumeWrite,
     ResumeMark, RememberWrite, Resolve, OperatorExit
<1> QED BY <1>1, <1>2, <1>3

-----------------------------------------------------------------------------
(* Runs and grants: the promise.                                           *)

\* The steps of a worker keep the run's status in line with its position.
LEMMA RunStep ==
    ASSUME DomainInv, RunFollowsWorker, NEW j \in Jobs, Worker(j)
    PROVE  RunFollowsWorker'
<1> USE DEF Worker, RunFollowsWorker, DomainInv, TypeOK, StoreTypeOK,
   WorkerTypeOK, At, Goto, storeVars, JobRow, Asking, History, Before, Loop,
   Operation, Approval, RunTerminal
<1>1. CASE Launch(j) \/ DispatchStep(j)
  BY <1>1 DEF Launch, DispatchStep, StartRun, AttachRun, DispatchCheck,
     CancelBeforeDispatch, PreRunHook, CreateRun, FailRun, CancelRun
<1>2. CASE HeadStep(j)
  BY <1>2 DEF HeadStep, StopLoop, EnterStep, PauseCheck, PauseWait,
     SelectInputs, MarkInputs
<1>3. CASE OperationStep(j)
  BY <1>3 DEF OperationStep, BeginOperation, PollCancel, PollControl, Returns,
     BackendReturns, FinalAnswer, RequestTool, OtherAction, BackendFails,
     NextStep
<1>4. CASE ApprovalStep(j)
  BY <1>4 DEF ApprovalStep, Gate, Ask, AskPause, AskPauseWrite, PollRequest,
     WaitCancel, Recheck, RunTool, NextStep
<1>5. CASE EndStep(j)
  BY <1>5 DEF EndStep, CancelDuringRun, Complete, FailAttempts, Settle,
     MarkJob, CancelRun, CompleteRun, FailRun
<1> QED BY <1>1, <1>2, <1>3, <1>4, <1>5 DEF WorkerStep

\* A worker gets to running a call only from a look at the pattern file.
LEMMA GrantWorkerStep ==
    ASSUME DomainInv, GrantsKnown, NEW j \in Jobs, Worker(j)
    PROVE  GrantsKnown'
<1> USE DEF DomainInv, TypeOK, WorkerTypeOK, GrantsKnown
<1>1. CASE pc'[j] # "runTool"
  BY <1>1, WorkerKeeps
<1>2. CASE pc'[j] = "runTool"
  <2>1. frame'[j] = frame[j] /\ frame[j].call \in allow
    BY <1>2 DEF Worker, WorkerStep, Launch, DispatchStep, StartRun, AttachRun,
       DispatchCheck, CancelBeforeDispatch, PreRunHook, HeadStep, StopLoop,
       EnterStep, PauseCheck, PauseWait, SelectInputs, MarkInputs,
       OperationStep, BeginOperation, PollCancel, PollControl, BackendReturns,
       FinalAnswer, RequestTool, OtherAction, BackendFails, ApprovalStep, Gate,
       Ask, AskPause, AskPauseWrite, PollRequest, WaitCancel, Recheck, RunTool,
       EndStep, CancelDuringRun, Complete, FailAttempts, Settle, MarkJob, Goto,
       NextStep, IsAllowed
  <2> QED BY <1>2, <2>1, WorkerKeeps
<1> QED BY <1>1, <1>2

\* remember() may lose patterns others wrote since it loaded the file, but it
\* writes none that nobody granted.
LEMMA GrantOperatorStep ==
    ASSUME DomainInv, GrantsKnown, NEW o \in Operators, Operator(o)
    PROVE  GrantsKnown'
<1> USE DEF DomainInv, TypeOK, GrantsKnown, OperatorTypeOK, Operator,
   workerVars, storeVars, OnRows, OnAsking
<1>1. ASSUME NEW j \in Jobs, NEW l, NEW mark, Begin(o, j, l, mark)
      PROVE  \A p \in Operators : op'[p].loaded \in {{}, op[p].loaded}
  BY <1>1 DEF Begin, Idle
<1>2. ASSUME NEW l, Finish(o) \/ Then(o, l)
      PROVE  \A p \in Operators : op'[p].loaded \in {{}, op[p].loaded}
  <2>1. CASE Finish(o)
    BY <2>1 DEF Finish, Idle
  <2>2. CASE Then(o, l)
    BY <2>2 DEF Then, Opers
  <2> QED BY <1>2, <2>1, <2>2
<1>3. ASSUME NEW j \in Jobs, NEW n \in Steps,
             StartApprove(o, j, n) \/ StartDeny(o, j, n)
      PROVE  \A p \in Operators : op'[p].loaded \in {{}, allow, op[p].loaded}
  BY <1>3 DEF StartApprove, StartDeny, Idle
<1>4. CASE RememberWrite(o)
  BY <1>4, <1>2 DEF RememberWrite
<1>5. CASE ~ RememberWrite(o)
  <2>1. UNCHANGED <<allow, granted>>
    BY <1>5 DEF OperatorStep, StartCommand, Proceed, StartCancel, StartPause,
       StartResume, Inject, StartApprove, StartDeny, Decide, CancelWrite,
       PauseWrite, PauseMark, ResumeRead, ResumeWrite, ResumeMark, Resolve,
       OperatorExit
  <2>2. \A p \in Operators : op'[p].loaded \in {{}, allow, op[p].loaded}
    BY <1>5, <1>1, <1>2, <1>3 DEF OperatorStep, StartCommand, Proceed,
       StartCancel, StartPause, StartResume, Inject, Decide, CancelWrite,
       PauseWrite, PauseMark, ResumeRead, ResumeWrite, ResumeMark, Resolve,
       OperatorExit
  <2> QED BY <2>1, <2>2, WorkerKeeps DEF workerVars
<1> QED BY <1>4, <1>5

\* Every step of the system keeps the two.
LEMMA PromiseStep == PromiseInv /\ [Next]_vars => PromiseInv'
<1> SUFFICES ASSUME PromiseInv, [Next]_vars PROVE PromiseInv'
  OBVIOUS
<1> USE DEF PromiseInv
<1>1. DomainInv'
  BY StepTypes
<1>2. ASSUME NEW j \in Jobs, Worker(j) PROVE RunFollowsWorker' /\ GrantsKnown'
  BY <1>2, RunStep, GrantWorkerStep
<1>3. ASSUME NEW o \in Operators, Operator(o)
      PROVE  RunFollowsWorker' /\ GrantsKnown'
  BY <1>3, OperatorKeeps, GrantOperatorStep DEF RunFollowsWorker, workerVars
<1>4. ASSUME Exit PROVE RunFollowsWorker' /\ GrantsKnown'
  BY <1>4 DEF Exit, ShellExit, storeVars, operatorVars, History,
     RunFollowsWorker, GrantsKnown, DomainInv, TypeOK, WorkerTypeOK, Before,
     Loop, Operation, Approval
<1>5. ASSUME UNCHANGED vars PROVE RunFollowsWorker' /\ GrantsKnown'
  BY <1>5 DEF vars, storeVars, workerVars, operatorVars, RunFollowsWorker,
     GrantsKnown
<1> QED BY <1>1, <1>2, <1>3, <1>4, <1>5 DEF Next

\* They hold when no job was started.
LEMMA PromiseInit == Init => PromiseInv
<1>1. Init => RunFollowsWorker /\ GrantsKnown
  BY DEF Init, StoreInit, WorkerInit, OperatorInit, Idle, RunFollowsWorker,
     GrantsKnown, Before, Loop, Operation, Approval
<1> QED BY <1>1, InitTypes DEF PromiseInv

\* The invariant behind the promise holds.
THEOREM RunsAndGrants == Spec => []PromiseInv
BY PromiseInit, PromiseStep, PTL DEF Spec

\* The workers and operators of background jobs, interleaved statement by
\* statement, implement RunPromise: a run ends once, its outcome is final, and
\* a confirm-tier call runs only while its run goes on and under a grant.
THEOREM Refines == Spec => KeepsPromise
<1>1. Init => Promised!Init
  BY DEF Init, StoreInit, WorkerInit, OperatorInit, Promised!Init
<1>2. PromiseInv /\ [Next]_vars => [Promised!Next]_Promised!vars
  <2> SUFFICES ASSUME PromiseInv, Next PROVE [Promised!Next]_Promised!vars
    BY DEF vars, storeVars, workerVars, operatorVars, Promised!vars
  <2> USE DEF PromiseInv, Promised!Next, Promised!vars
  <2>1. ASSUME NEW o \in Operators, Operator(o)
        PROVE  [Promised!Next]_Promised!vars
    <3>1. CASE RememberWrite(o)
      BY <2>1, <3>1, OperatorKeeps DEF RememberWrite, Promised!Grant,
         workerVars, DomainInv, TypeOK, OperatorTypeOK, Opers
    <3>2. CASE ~ RememberWrite(o)
      BY <2>1, <3>2, OperatorKeeps DEF workerVars, Operator, OperatorStep,
         StartCommand, Proceed, storeVars, OnRows, OnAsking, StartCancel,
         StartPause, StartResume, Inject, StartApprove, StartDeny, Decide,
         CancelWrite, PauseWrite, PauseMark, ResumeRead, ResumeWrite,
         ResumeMark, Resolve, OperatorExit
    <3> QED BY <3>1, <3>2
  <2>2. CASE Exit
    BY <2>2 DEF Exit, ShellExit, storeVars, operatorVars, History
  <2>3. ASSUME NEW j \in Jobs, Worker(j) PROVE [Promised!Next]_Promised!vars
    <3> USE DEF Worker, operatorVars, DomainInv, TypeOK, StoreTypeOK,
       WorkerTypeOK, JobRow, storeVars, Asking, History, At, Goto,
       RunFollowsWorker
    <3>1. CASE RunTool(j)
      BY <2>3, <3>1 DEF RunTool, GrantsKnown, Promised!Execute, Approval,
         TicketHeld
    <3>2. CASE Launch(j) \/ DispatchStep(j)
      BY <2>3, <3>2 DEF Launch, DispatchStep, StartRun, AttachRun,
         DispatchCheck, CancelBeforeDispatch, PreRunHook, CreateRun, FailRun,
         CancelRun, Before, Promised!Begin, Promised!End, Promised!Outcomes
    <3>3. CASE EndStep(j)
      BY <2>3, <3>3 DEF EndStep, CancelDuringRun, Complete, FailAttempts,
         Settle, MarkJob, FailRun, CancelRun, CompleteRun, Promised!End,
         Promised!Outcomes
    <3>4. CASE \/ HeadStep(j) \/ OperationStep(j)
               \/ ApprovalStep(j) /\ ~ RunTool(j)
      BY <2>3, <3>4 DEF HeadStep, StopLoop, EnterStep, PauseCheck, PauseWait,
         SelectInputs, MarkInputs, OperationStep, BeginOperation, PollCancel,
         PollControl, BackendReturns, FinalAnswer, RequestTool, OtherAction,
         BackendFails, ApprovalStep, Gate, Ask, AskPause, AskPauseWrite,
         PollRequest, WaitCancel, Recheck
    <3> QED BY <2>3, <3>1, <3>2, <3>3, <3>4 DEF WorkerStep
  <2> QED BY <2>1, <2>2, <2>3 DEF Next
<1> QED BY <1>1, <1>2, RunsAndGrants, PTL DEF Spec, KeepsPromise, Promised!Spec

-----------------------------------------------------------------------------
(* The job row and the run.                                                *)

\* Operators change a row's status only to one that says nothing of the run.
LEMMA RowOperatorStep ==
    ASSUME DomainInv, NEW o \in Operators, Operator(o), NEW j \in Jobs
    PROVE  /\ job'[j].status \in {job[j].status, "cancel_requested", "paused",
                                  "running"}
           /\ job'[j].linked = job[j].linked
           /\ job'[j].status # job[j].status => since'[j].status = 0
           /\ job'[j].control # job[j].control => since'[j].control = 0
           /\ job'[j].status = job[j].status =>
                  since'[j].status = since[j].status
           /\ job'[j].control = job[j].control =>
                  since'[j].control = since[j].control
<1> USE DEF DomainInv, TypeOK, StoreTypeOK, OperatorTypeOK
<1>0. job[j] \in JobRows /\ since[j] \in Counts /\ op[o].job \in Jobs
  BY DEF Opers
<1>1. CASE UNCHANGED <<job, since>>
  BY <1>1
<1>2. ASSUME NEW i \in Jobs,
             NEW s \in {"cancel_requested", "paused", "running"},
             WriteStatus(i, s)
      PROVE  /\ job' = [job EXCEPT ![i].status = s]
             /\ job'[j].status \in {job[j].status, s}
             /\ job'[j].linked = job[j].linked
             /\ job'[j].control = job[j].control
             /\ job'[j].status # job[j].status => since'[j].status = 0
             /\ job'[j].status = job[j].status =>
                    since'[j].status = since[j].status
             /\ since'[j].control = since[j].control
  BY <1>0, <1>2 DEF WriteStatus, JobRows, Counts
<1>3. ASSUME NEW i \in Jobs, NEW c \in {"paused", "running"}, WriteControl(i, c)
      PROVE  /\ job'[j].status = job[j].status /\ job'[j].linked = job[j].linked
             /\ job'[j].control # job[j].control => since'[j].control = 0
             /\ job'[j].control = job[j].control =>
                    since'[j].control = since[j].control
             /\ since'[j].status = since[j].status
  BY <1>0, <1>3 DEF WriteControl, JobRows, Counts
<1>4. \/ UNCHANGED <<job, since>>
      \/ \E s \in {"cancel_requested", "paused", "running"} :
            WriteStatus(op[o].job, s)
      \/ \E c \in {"paused", "running"} : WriteControl(op[o].job, c)
  BY DEF Operator, OperatorStep, StartCommand, Proceed, storeVars, OnRows,
     StartCancel, StartPause, StartResume, Inject, StartApprove, StartDeny,
     Decide, ResumeRead, RememberWrite, Resolve, OperatorExit, CancelWrite,
     PauseWrite, PauseMark, ResumeWrite, ResumeMark
<1> QED BY <1>0, <1>1, <1>2, <1>3, <1>4

\* A worker's step keeps its row truthful.
LEMMA RowWorkerStep ==
    ASSUME OutcomeInv, NEW j \in Jobs, Worker(j)
    PROVE  RowTold(j)'
<1> USE DEF OutcomeInv, PromiseInv, DomainInv, TypeOK, StoreTypeOK,
   WorkerTypeOK, RowTold, RunFollowsWorker, Worker, At, Goto, storeVars,
   JobRow, Asking, History, Live, Before, Loop, Operation, Approval, After,
   JobTerminal
<1>0. job[j] \in JobRows
  OBVIOUS
<1>1. CASE Launch(j)
  BY <1>1 DEF Launch, CreateShellJob
<1>2. CASE DispatchStep(j)
  BY <1>0, <1>2 DEF DispatchStep, StartRun, AttachRun, DispatchCheck,
     CancelBeforeDispatch, PreRunHook, AttachShellJobRun, CreateRun, FailRun,
     CancelRun, JobRows
<1>3. CASE HeadStep(j)
  BY <1>3 DEF HeadStep, StopLoop, EnterStep, PauseCheck, PauseWait,
     SelectInputs, MarkInputs
<1>4. CASE OperationStep(j)
  BY <1>4 DEF OperationStep, BeginOperation, PollCancel, PollControl, Returns,
     BackendReturns, FinalAnswer, RequestTool, OtherAction, BackendFails,
     NextStep
<1>5. CASE AskPauseWrite(j)
  <2>1. /\ job'[j].status = job[j].status
        /\ job'[j].linked = job[j].linked
        /\ run' = run
        /\ pc[j] = "askPauseWrite" /\ pc'[j] = "poll"
    BY <1>0, <1>5 DEF AskPauseWrite, WriteControl, JobRows
  <2> QED BY <2>1
<1>6. CASE ApprovalStep(j) /\ ~ AskPauseWrite(j)
  BY <1>6 DEF ApprovalStep, Gate, Ask, AskPause, PollRequest, WaitCancel,
     Recheck, RunTool, NextStep
<1>7. CASE MarkJob(j)
  <2>1. ASSUME NEW s \in JobTerminal, WriteStatus(j, s)
        PROVE  job'[j].status = s /\ job'[j].linked = job[j].linked
    BY <1>0, <2>1 DEF WriteStatus, JobRows
  <2>2. run' = run /\ pc'[j] = "ended"
    BY <1>7 DEF MarkJob
  <2>3. CASE pc[j] = "markDone" /\ WriteStatus(j, "done")
    BY <2>1, <2>2, <2>3
  <2>4. CASE pc[j] = "markCanceled" /\ WriteStatus(j, "canceled")
    BY <2>1, <2>2, <2>4
  <2>5. CASE pc[j] = "markFailed" /\ WriteStatus(j, "failed")
    BY <2>1, <2>2, <2>5
  <2> QED BY <1>7, <2>3, <2>4, <2>5 DEF MarkJob
<1>8. CASE EndStep(j) /\ ~ MarkJob(j)
  BY <1>0, <1>8 DEF EndStep, CancelDuringRun, Complete, FailAttempts, Settle,
     CancelRun, CompleteRun, FailRun, RunTerminal, JobRows
<1> QED BY <1>1, <1>2, <1>3, <1>4, <1>5, <1>6, <1>7, <1>8 DEF WorkerStep

\* The invariant behind the row's status holds.
THEOREM Outcomes == Spec => []OutcomeInv
<1>1. ASSUME Init, NEW j \in Jobs PROVE RowTold(j)
  <2>1. job[j] = [status |-> "absent", control |-> "running", linked |-> FALSE]
    BY <1>1 DEF Init, StoreInit
  <2>2. pc[j] = "absent"
    BY <1>1 DEF Init, WorkerInit
  <2> QED
  BY <2>1, <2>2 DEF Init, StoreInit, WorkerInit, RowTold, JobTerminal, Live,
     Before, Loop, Operation, Approval, After
<1>2. Init => OutcomeInv
  BY <1>1, PromiseInit DEF OutcomeInv
<1>3. ASSUME OutcomeInv, [Next]_vars, NEW i \in Jobs PROVE RowTold(i)'
  <2>1. ASSUME NEW o \in Operators, Operator(o) PROVE RowTold(i)'
    BY <1>3, <2>1, RowOperatorStep, OperatorKeeps DEF OutcomeInv, PromiseInv,
       RowTold, JobTerminal, workerVars
  <2>2. CASE Exit
    BY <1>3, <2>2 DEF Exit, ShellExit, storeVars, OutcomeInv, PromiseInv,
       DomainInv, TypeOK, WorkerTypeOK, RowTold, Live, Before, Loop, Operation,
       Approval, After
  <2>3. CASE UNCHANGED vars
    BY <1>3, <2>3 DEF vars, storeVars, workerVars, OutcomeInv, RowTold
  <2>4. ASSUME NEW j \in Jobs, Worker(j), i # j PROVE RowTold(i)'
    BY <1>3, <2>4, WorkerKeeps DEF OutcomeInv, PromiseInv, RowTold
  <2> QED BY <1>3, <2>1, <2>2, <2>3, <2>4, RowWorkerStep DEF Next
<1>4. OutcomeInv /\ [Next]_vars => OutcomeInv'
  BY <1>3, PromiseStep DEF OutcomeInv
<1> QED BY <1>2, <1>4, PTL DEF Spec

-----------------------------------------------------------------------------
(* Pauses and cancellations.                                               *)

\* A worker begins an operation only behind its looks at the row.
LEMMA StopWorkerStep ==
    ASSUME StopInv, NEW j \in Jobs, Worker(j)
    PROVE  Stops(j)'
<1> USE DEF StopInv, DomainInv, TypeOK, StoreTypeOK, WorkerTypeOK, Stops,
   PastPause, PastCancel, IsToolLoop, Worker, At, Goto, storeVars, JobRow,
   Asking, History
<1>0. job[j] \in JobRows /\ since[j] \in Counts /\ frame[j] \in Frames
  OBVIOUS
<1>a. frame'[j].mode = frame[j].mode
  BY <1>0 DEF Frames, WorkerStep, Launch, DispatchStep, StartRun, AttachRun,
     DispatchCheck, CancelBeforeDispatch, PreRunHook, HeadStep, StopLoop,
     EnterStep, PauseCheck, PauseWait, SelectInputs, MarkInputs, OperationStep,
     BeginOperation, PollCancel, PollControl, BackendReturns, FinalAnswer,
     RequestTool, OtherAction, BackendFails, ApprovalStep, Gate, Ask, AskPause,
     AskPauseWrite, PollRequest, WaitCancel, Recheck, RunTool, EndStep,
     CancelDuringRun, Complete, FailAttempts, Settle, MarkJob, NextStep
<1>1. CASE Launch(j)
  BY <1>a, <1>1 DEF Launch, CreateShellJob
<1>2. CASE DispatchStep(j)
  BY <1>0, <1>a, <1>2 DEF DispatchStep, StartRun, AttachRun, DispatchCheck,
     CancelBeforeDispatch, PreRunHook, AttachShellJobRun, JobRows
<1>3. CASE HeadStep(j)
  BY <1>a, <1>3 DEF HeadStep, StopLoop, EnterStep, PauseCheck, PauseWait,
     SelectInputs, MarkInputs, IsCancelRequested
<1>4. CASE BeginOperation(j)
  BY <1>0, <1>a, <1>4 DEF BeginOperation, Counted, SinceCap, Counts
<1>5. CASE OperationStep(j) /\ ~ BeginOperation(j)
  BY <1>a, <1>5 DEF OperationStep, PollCancel, PollControl, Returns,
     BackendReturns, FinalAnswer, RequestTool, OtherAction, BackendFails,
     NextStep
<1>6. CASE AskPauseWrite(j)
  <2>1. /\ job'[j].status = job[j].status
        /\ job'[j].control # job[j].control => since'[j].control = 0
        /\ job'[j].control = job[j].control =>
               since'[j].control = since[j].control
        /\ since'[j].status = since[j].status
    BY <1>0, <1>6 DEF AskPauseWrite, WriteControl, JobRows, Counts
  <2>2. pc'[j] = "poll" /\ pc[j] = "askPauseWrite"
    BY <1>6 DEF AskPauseWrite
  <2> QED BY <1>a, <2>1, <2>2
<1>7. CASE ApprovalStep(j) /\ ~ AskPauseWrite(j)
  BY <1>a, <1>7 DEF ApprovalStep, Gate, Ask, AskPause, PollRequest, WaitCancel,
     Recheck, RunTool, NextStep
<1>8. CASE MarkJob(j)
  <2>1. ASSUME NEW s \in JobTerminal, WriteStatus(j, s)
        PROVE  /\ job'[j].status = s /\ job'[j].control = job[j].control
               /\ since'[j].control = since[j].control
    BY <1>0, <2>1 DEF WriteStatus, JobRows, Counts
  <2>2. pc'[j] = "ended"
    BY <1>8 DEF MarkJob
  <2>3. \E s \in JobTerminal : WriteStatus(j, s)
    BY <1>8 DEF MarkJob, JobTerminal
  <2> QED BY <1>a, <2>1, <2>2, <2>3 DEF JobTerminal
<1>9. CASE EndStep(j) /\ ~ MarkJob(j)
  BY <1>a, <1>9 DEF EndStep, CancelDuringRun, Complete, FailAttempts, Settle
<1> QED BY <1>1, <1>2, <1>3, <1>4, <1>5, <1>6, <1>7, <1>8, <1>9 DEF WorkerStep

\* The invariant behind pauses and cancellations holds.
THEOREM Stopping == Spec => []StopInv
<1>1. Init => StopInv
  BY InitTypes DEF Init, StoreInit, StopInv, Stops
<1>3. ASSUME StopInv, [Next]_vars, NEW i \in Jobs PROVE Stops(i)'
  <2>1. ASSUME NEW o \in Operators, Operator(o) PROVE Stops(i)'
    BY <1>3, <2>1, RowOperatorStep, OperatorKeeps DEF StopInv, Stops,
       IsToolLoop, workerVars
  <2>2. CASE Exit
    BY <1>3, <2>2 DEF Exit, ShellExit, storeVars, StopInv, DomainInv, TypeOK,
       WorkerTypeOK, Stops, IsToolLoop, PastPause, PastCancel
  <2>3. CASE UNCHANGED vars
    BY <1>3, <2>3 DEF vars, storeVars, workerVars, StopInv, Stops, IsToolLoop
  <2>4. ASSUME NEW j \in Jobs, Worker(j), i # j PROVE Stops(i)'
    BY <1>3, <2>4, WorkerKeeps DEF StopInv, Stops, IsToolLoop
  <2> QED BY <1>3, <2>1, <2>2, <2>3, <2>4, StopWorkerStep DEF Next
<1>4. StopInv /\ [Next]_vars => StopInv'
  BY <1>3, StepTypes DEF StopInv
<1> QED BY <1>1, <1>4, PTL DEF Spec

-----------------------------------------------------------------------------
(* What the properties of the runs follow from. *)

\* Whatever operators write to shell_jobs.status under the worker's feet, a row
\* that reads done or canceled tells its run's outcome.
THEOREM DoneAndCanceledAreTrue == Spec => []StatusTellsOutcome
<1>1. OutcomeInv => StatusTellsOutcome
  BY DEF OutcomeInv, RowTold, StatusTellsOutcome
<1> QED BY <1>1, Outcomes, PTL

\* A paused or cancel-requested tool loop begins at most one more operation.
THEOREM StopIsHonored == Spec => []StopsWithinAStep
<1>1. StopInv => StopsWithinAStep
  BY DEF StopInv, Stops, StopsWithinAStep, IsCancelRequested
<1> QED BY <1>1, Stopping, PTL

-----------------------------------------------------------------------------
(* Notes *)

\* consume_pending_shell_job_inputs hands out a note only with its mark.
LEMMA NoteWorkerStep ==
    ASSUME NoteInv, NEW j \in Jobs, Worker(j)
    PROVE  NotesInOrder(j)'
<1> USE DEF NoteInv, DomainInv, TypeOK, StoreTypeOK, WorkerTypeOK,
   NotesInOrder, Worker, At, Goto, storeVars, JobRow, Asking, History
<1>0. /\ frame[j] \in Frames /\ delivered[j] \subseteq Notes
      /\ inbox[j] \in [Notes -> {"unsent", "pending", "consumed"}]
  OBVIOUS
<1>1. CASE Launch(j) \/ DispatchStep(j)
  <2>1. /\ inbox' = inbox /\ delivered' = delivered /\ frame' = frame
        /\ pc[j] \notin {"markInputs", "killed"}
    BY <1>1 DEF Launch, DispatchStep, StartRun, AttachRun, DispatchCheck,
       CancelBeforeDispatch, PreRunHook
  <2> QED BY <2>1
<1>2. CASE SelectInputs(j)
  <2>1. frame'[j].taken = PendingNotes(j)
    BY <1>0, <1>2 DEF SelectInputs, Frames
  <2>2. inbox' = inbox /\ delivered' = delivered
    BY <1>2 DEF SelectInputs
  <2>3. PendingNotes(j) # {} => pc'[j] = "markInputs"
    BY <1>2 DEF SelectInputs
  <2> QED BY <2>1, <2>2, <2>3 DEF PendingNotes
<1>3. CASE MarkInputs(j)
  <2>1. frame'[j].taken = {}
    BY <1>0, <1>3 DEF MarkInputs, Frames
  <2>2. \A n \in Notes : inbox[j][n] \in {"pending", "consumed"} =>
                              inbox'[j][n] = "consumed"
    BY <1>0, <1>3 DEF MarkInputs, ConsumePending
  <2>3. delivered'[j] = delivered[j] \cup frame[j].taken
    BY <1>3 DEF MarkInputs
  <2>4. frame[j].taken \subseteq Notes
    BY <1>0 DEF Frames
  <2> QED BY <1>0, <2>1, <2>2, <2>3, <2>4
<1>4. CASE HeadStep(j) /\ ~ SelectInputs(j) /\ ~ MarkInputs(j)
  BY <1>4 DEF HeadStep, StopLoop, EnterStep, PauseCheck, PauseWait
<1>5. CASE OperationStep(j)
  <2>1. frame'[j].taken = frame[j].taken
    BY <1>0, <1>5 DEF OperationStep, BeginOperation, PollCancel, PollControl,
       BackendReturns, FinalAnswer, RequestTool, OtherAction, BackendFails,
       NextStep, Frames
  <2>2. /\ inbox' = inbox /\ delivered' = delivered
        /\ pc[j] \notin {"markInputs", "killed"}
    BY <1>5 DEF OperationStep, BeginOperation, PollCancel, PollControl,
       BackendReturns, FinalAnswer, RequestTool, OtherAction, BackendFails,
       Returns
  <2> QED BY <2>1, <2>2
<1>6. CASE ApprovalStep(j)
  <2>1. frame'[j].taken = frame[j].taken
    BY <1>0, <1>6 DEF ApprovalStep, Gate, Ask, AskPause, AskPauseWrite,
       PollRequest, WaitCancel, Recheck, RunTool, NextStep, Frames
  <2>2. /\ inbox' = inbox /\ delivered' = delivered
        /\ pc[j] \notin {"markInputs", "killed"}
    BY <1>6 DEF ApprovalStep, Gate, Ask, AskPause, AskPauseWrite, PollRequest,
       WaitCancel, Recheck, RunTool
  <2> QED BY <2>1, <2>2
<1>7. CASE EndStep(j)
  BY <1>7 DEF EndStep, CancelDuringRun, Complete, FailAttempts, Settle, MarkJob
<1> QED BY <1>1, <1>2, <1>3, <1>4, <1>5, <1>6, <1>7 DEF WorkerStep

\* An operator never changes a note that was sent.
LEMMA NoteOperatorStep ==
    ASSUME DomainInv, NEW o \in Operators, Operator(o), NEW j \in Jobs,
           NEW n \in Notes
    PROVE  \/ inbox'[j][n] = inbox[j][n]
           \/ inbox[j][n] = "unsent"
<1> USE DEF Operator, OperatorStep, StartCommand, Proceed, storeVars, OnRows,
   OnAsking
<1>1. \/ UNCHANGED inbox
      \/ \E i \in Jobs, m \in Notes :
            inbox[i][m] = "unsent" /\ EnqueueInput(i, m)
  BY DEF StartCancel, StartPause, StartResume, Inject, StartApprove, StartDeny,
     Decide, CancelWrite, PauseWrite, PauseMark, ResumeRead, ResumeWrite,
     ResumeMark, RememberWrite, Resolve, OperatorExit
<1> QED BY <1>1 DEF EnqueueInput, DomainInv, TypeOK, StoreTypeOK

\* The invariant behind the notes holds.
THEOREM NotesKeepOrder == Spec => []NoteInv
<1>1. ASSUME Init PROVE NoteInv
  <2>1. PICK m \in [Jobs -> Mode] : frame = [j \in Jobs |-> FirstFrame(m[j])]
    BY <1>1 DEF Init, WorkerInit
  <2>2. \A j \in Jobs : frame[j].taken = {}
    BY <2>1 DEF FirstFrame
  <2>3. \A j \in Jobs : delivered[j] = {}
    BY <1>1 DEF Init, WorkerInit
  <2> QED BY <1>1, <2>2, <2>3, InitTypes DEF NoteInv, NotesInOrder
<1>2. ASSUME NoteInv, [Next]_vars, NEW i \in Jobs PROVE NotesInOrder(i)'
  <2>1. ASSUME NEW o \in Operators, Operator(o) PROVE NotesInOrder(i)'
    <3>1. UNCHANGED <<pc, frame, delivered>>
      BY <2>1, OperatorKeeps DEF workerVars
    <3>2. delivered[i] \subseteq Notes /\ frame[i].taken \subseteq Notes
      BY <1>2 DEF NoteInv, DomainInv, TypeOK, WorkerTypeOK, Frames
    <3>3. \A n \in Notes : \/ inbox'[i][n] = inbox[i][n]
                           \/ inbox[i][n] = "unsent"
      BY <1>2, <2>1, NoteOperatorStep DEF NoteInv
    <3> QED BY <1>2, <3>1, <3>2, <3>3 DEF NoteInv, NotesInOrder
  <2>2. CASE Exit
    BY <1>2, <2>2 DEF Exit, ShellExit, storeVars, History, NoteInv, DomainInv,
       TypeOK, WorkerTypeOK, NotesInOrder, Live, Loop
  <2>3. CASE UNCHANGED vars
    BY <1>2, <2>3 DEF vars, storeVars, workerVars, NoteInv, NotesInOrder
  <2>4. ASSUME NEW j \in Jobs, Worker(j), i # j PROVE NotesInOrder(i)'
    BY <1>2, <2>4, WorkerKeeps DEF NoteInv, NotesInOrder
  <2> QED BY <1>2, <2>1, <2>2, <2>3, <2>4, NoteWorkerStep DEF Next
<1>3. NoteInv /\ [Next]_vars => NoteInv'
  BY <1>2, StepTypes DEF NoteInv
<1> QED BY <1>1, <1>3, PTL DEF Spec

\* No note is handed to the tool loop twice.
THEOREM NotesReachTheLoopOnce == Spec => []NoNoteTwice
<1>1. NoteInv => NoNoteTwice
  BY DEF NoteInv, NotesInOrder, NoNoteTwice
<1> QED BY <1>1, NotesKeepOrder, PTL

-----------------------------------------------------------------------------
(* Requests *)

\* A worker asks once a step, and goes on with a ticket only if approved.
LEMMA RequestWorkerStep ==
    ASSUME RequestInv, NEW j \in Jobs, Worker(j)
    PROVE  RequestsInOrder(j)'
<1> USE DEF RequestInv, DomainInv, TypeOK, StoreTypeOK, WorkerTypeOK,
   RequestsInOrder, Worker, At, Goto, storeVars, JobRow, Asking, History
<1>0. frame[j] \in Frames
  OBVIOUS
<1>1. CASE Launch(j) \/ DispatchStep(j) \/ HeadStep(j) \/ EndStep(j)
  <2>1. CASE Launch(j) \/ DispatchStep(j)
    <3>1. /\ requests' = requests /\ frame' = frame
          /\ pc'[j] \notin {"recheck", "runTool"}
      BY <2>1 DEF Launch, DispatchStep, StartRun, AttachRun, DispatchCheck,
         CancelBeforeDispatch, PreRunHook
    <3> QED BY <3>1
  <2>2. CASE HeadStep(j)
    <3>1. /\ requests' = requests
          /\ pc'[j] \notin {"recheck", "runTool"}
      BY <2>2 DEF HeadStep, StopLoop, EnterStep, PauseCheck, PauseWait,
         SelectInputs, MarkInputs
    <3>2. frame'[j].step = frame[j].step /\ frame'[j].ticket = frame[j].ticket
      BY <1>0, <2>2 DEF HeadStep, StopLoop, EnterStep, PauseCheck, PauseWait,
         SelectInputs, MarkInputs, Frames
    <3> QED BY <3>1, <3>2
  <2>3. CASE EndStep(j)
    <3>1. /\ requests' = requests /\ frame' = frame
          /\ pc'[j] \notin {"recheck", "runTool"}
      BY <2>3 DEF EndStep, CancelDuringRun, Complete, FailAttempts, Settle,
         MarkJob
    <3> QED BY <3>1
  <2> QED BY <1>1, <2>1, <2>2, <2>3
<1>2. ASSUME NEW l \in Labels \ {"recheck", "runTool"}, NextStep(j, l),
             requests' = requests
      PROVE  RequestsInOrder(j)'
  <2>1. frame'[j].step = frame[j].step + 1
    BY <1>0, <1>2 DEF NextStep, Frames
  <2>2. pc'[j] \notin {"recheck", "runTool"}
    BY <1>2 DEF NextStep
  <2>3. \A n \in Steps : n < frame[j].step \/ n = frame[j].step =>
                            n < frame'[j].step
    BY <1>0, <2>1 DEF Frames, Steps
  <2>4. requests' = requests
    BY <1>2
  <2>5. \A n \in Steps : requests[<<j, n>>].status # "none" =>
                            n < frame[j].step \/ n = frame[j].step
    OBVIOUS
  <2> QED
    <3> HIDE DEF TypeOK
    <3> QED BY <2>2, <2>3, <2>4, <2>5
<1>3. CASE OperationStep(j)
  <2>1. requests' = requests
    BY <1>3 DEF OperationStep, BeginOperation, PollCancel, PollControl,
       BackendReturns, FinalAnswer, RequestTool, OtherAction, BackendFails
  <2>2. \/ \E l \in {"top", "call"} : NextStep(j, l)
        \/ /\ frame'[j].step = frame[j].step
           /\ frame'[j].ticket = frame[j].ticket
           /\ pc'[j] \notin {"recheck", "runTool"}
    BY <1>0, <1>3 DEF OperationStep, BeginOperation, PollCancel, PollControl,
       BackendReturns, FinalAnswer, RequestTool, OtherAction, BackendFails,
       Frames
  <2> QED BY <1>2, <2>1, <2>2 DEF Labels, Live, Loop, Operation
<1>4. CASE Ask(j)
  <2>1. frame'[j].step = frame[j].step
    BY <1>0, <1>4 DEF Ask, Frames
  <2>2. pc[j] = "ask" /\ pc'[j] \in {"poll", "askPause"}
    BY <1>4 DEF Ask
  <2>3. CASE requests' = requests /\ frame'[j].ticket # 0
    BY <2>1, <2>2, <2>3
  <2>4. CASE /\ \A n \in Steps \ {frame[j].step} :
                   requests'[<<j, n>>] = requests[<<j, n>>]
             /\ frame'[j].ticket # 0
    BY <2>1, <2>2, <2>4
  <2>5. DomainInv'
    BY StepTypes DEF Next
  <2>6. frame'[j].ticket # 0
    BY <2>2, <2>5 DEF TicketHeld, Waiting
  <2> QED BY <1>4, <2>3, <2>4, <2>6 DEF Ask, CreateApprovalRequest, Requests
<1>5. CASE ApprovalStep(j) /\ ~ Ask(j)
  <2>1. requests' = requests
    BY <1>5 DEF ApprovalStep, Gate, AskPause, AskPauseWrite, PollRequest,
       WaitCancel, Recheck, RunTool
  <2>2. CASE NextStep(j, "top")
    BY <1>2, <2>1, <2>2 DEF Labels, Live, Loop
  <2>3. CASE frame' = frame /\ pc'[j] \notin {"recheck", "runTool"}
    BY <2>1, <2>3
  <2>4. CASE Gate(j)
    BY <2>1, <2>4 DEF Gate, TicketHeld, Waiting
  <2>5. CASE PollRequest(j)
    BY <2>1, <2>2, <2>5 DEF PollRequest, Ticket
  <2>6. CASE Recheck(j)
    BY <2>1, <2>2, <2>6 DEF Recheck, Ticket
  <2> QED BY <1>5, <2>2, <2>3, <2>4, <2>5, <2>6 DEF ApprovalStep, AskPause,
     AskPauseWrite, WaitCancel, RunTool
<1> QED BY <1>1, <1>3, <1>4, <1>5 DEF WorkerStep

\* The invariant behind the requests holds.
THEOREM RequestsKeepOrder == Spec => []RequestInv
<1>1. ASSUME Init PROVE RequestInv
  <2>1. \A r \in Requests : requests[r].status = "none"
    BY <1>1 DEF Init, StoreInit
  <2>2. \A j \in Jobs : pc[j] = "absent"
    BY <1>1 DEF Init, WorkerInit
  <2> QED BY <1>1, <2>1, <2>2, InitTypes DEF RequestInv, RequestsInOrder,
     Requests
<1>2. ASSUME RequestInv, [Next]_vars, NEW i \in Jobs PROVE RequestsInOrder(i)'
  <2>1. ASSUME NEW o \in Operators, Operator(o) PROVE RequestsInOrder(i)'
    <3>1. UNCHANGED <<pc, frame>>
      BY <2>1, OperatorKeeps DEF workerVars
    <3>2. \A n \in Steps :
              \/ requests'[<<i, n>>] = requests[<<i, n>>]
              \/ requests[<<i, n>>].status = "pending"
      BY <1>2, <2>1, OperatorKeeps DEF ResolveApprovalRequest, RequestInv,
         DomainInv, TypeOK, StoreTypeOK, Requests
    <3>3. frame[i].ticket # 0 => frame[i].ticket \in Steps
      BY <1>2 DEF RequestInv, DomainInv, TypeOK, WorkerTypeOK, Frames, Steps,
         StoreAssumption
    <3>4. pc[i] = "recheck" => frame[i].ticket # 0
      BY <1>2 DEF RequestInv, DomainInv, TicketHeld, Waiting
    <3> QED BY <1>2, <3>1, <3>2, <3>3, <3>4 DEF RequestInv, RequestsInOrder,
       Ticket
  <2>2. CASE Exit
    BY <1>2, <2>2 DEF Exit, ShellExit, storeVars, RequestInv, DomainInv,
       TypeOK, WorkerTypeOK, RequestsInOrder, Ticket
  <2>3. CASE UNCHANGED vars
    BY <1>2, <2>3 DEF vars, storeVars, workerVars, RequestInv, RequestsInOrder,
       Ticket
  <2>4. ASSUME NEW j \in Jobs, Worker(j), i # j PROVE RequestsInOrder(i)'
    <3>1. frame[i].ticket # 0 => frame[i].ticket \in Steps
      BY <1>2 DEF RequestInv, DomainInv, TypeOK, WorkerTypeOK, Frames, Steps,
         StoreAssumption
    <3>2. pc[i] = "recheck" => frame[i].ticket # 0
      BY <1>2 DEF RequestInv, DomainInv, TicketHeld, Waiting
    <3> QED BY <1>2, <2>4, <3>1, <3>2, WorkerKeeps DEF RequestInv,
       RequestsInOrder, Ticket
  <2> QED BY <1>2, <2>1, <2>2, <2>3, <2>4, RequestWorkerStep DEF Next
<1>3. RequestInv /\ [Next]_vars => RequestInv'
  BY <1>2, StepTypes DEF RequestInv
<1> QED BY <1>1, <1>3, PTL DEF Spec

\* A worker that had to ask runs the tool only if its request was approved.
THEOREM DenialStands == Spec => []ApprovedBeforeRun
<1>1. RequestInv => ApprovedBeforeRun
  BY DEF RequestInv, RequestsInOrder, ApprovedBeforeRun, At
<1> QED BY <1>1, RequestsKeepOrder, PTL

\* No step overwrites a request that has its decision: operators are guarded
\* by the status, and the worker's INSERT is for a step that has none.
LEMMA RequestWrites ==
    ASSUME RequestInv, [Next]_vars, NEW r \in Requests,
           requests[r].status \in {"approved", "denied"}
    PROVE  requests'[r] = requests[r]
<1> USE DEF RequestInv, DomainInv, TypeOK, StoreTypeOK
<1>1. ASSUME NEW o \in Operators, Operator(o) PROVE requests'[r] = requests[r]
  BY <1>1, OperatorKeeps DEF ResolveApprovalRequest
<1>2. ASSUME NEW j \in Jobs, Worker(j), Ask(j) PROVE requests'[r] = requests[r]
  <2>1. requests[<<j, frame[j].step>>].status = "none"
    <3>0. pc[j] = "ask" /\ frame[j] \in Frames
      BY <1>2 DEF Ask, At, WorkerTypeOK
    <3>1. frame[j].ticket = 0 /\ frame[j].step \in Steps
      <4>1. frame[j].ticket = 0
        BY <3>0 DEF TicketHeld, Waiting
      <4>2. frame[j].step <= MaxSteps
        BY <3>0 DEF StepsCounted, Approval
      <4> QED BY <3>0, <4>1, <4>2, StoreAssumption DEF Frames, Steps
    <3>2. ~ (frame[j].step < frame[j].step)
      BY <3>1 DEF Steps
    <3> QED BY <3>1, <3>2 DEF RequestsInOrder
  <2> QED BY <1>2, <2>1 DEF Ask, CreateApprovalRequest
<1>3. ASSUME NEW j \in Jobs, Worker(j), ~ Ask(j) PROVE requests' = requests
  <2> USE DEF Worker, storeVars, Asking
  <2>1. CASE Launch(j) \/ DispatchStep(j)
    BY <2>1 DEF Launch, DispatchStep, StartRun, AttachRun, DispatchCheck,
       CancelBeforeDispatch, PreRunHook
  <2>2. CASE HeadStep(j)
    BY <2>2 DEF HeadStep, StopLoop, EnterStep, PauseCheck, PauseWait,
       SelectInputs, MarkInputs
  <2>3. CASE OperationStep(j)
    BY <2>3 DEF OperationStep, BeginOperation, PollCancel, PollControl,
       BackendReturns, FinalAnswer, RequestTool, OtherAction, BackendFails
  <2>4. CASE ApprovalStep(j)
    BY <1>3, <2>4 DEF ApprovalStep, Gate, AskPause, AskPauseWrite, PollRequest,
       WaitCancel, Recheck, RunTool
  <2>5. CASE EndStep(j)
    BY <2>5 DEF EndStep, CancelDuringRun, Complete, FailAttempts, Settle,
       MarkJob
  <2> QED BY <1>3, <2>1, <2>2, <2>3, <2>4, <2>5 DEF WorkerStep
<1>4. CASE Exit \/ UNCHANGED vars
  BY <1>4 DEF Exit, ShellExit, vars, storeVars
<1> QED BY <1>1, <1>2, <1>3, <1>4 DEF Next

\* A resolved request keeps its decision whoever answers it again.
THEOREM DecisionsAreFinal == Spec => DecisionFinal
<1>1. RequestInv /\ [Next]_vars =>
        [\A r \in Requests :
           requests[r].status \in {"approved", "denied"} =>
               requests'[r] = requests[r]]_vars
  BY RequestWrites
<1> QED BY <1>1, RequestsKeepOrder, PTL DEF Spec, DecisionFinal

=============================================================================
