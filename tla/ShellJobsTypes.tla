--------------------------- MODULE ShellJobsTypes ---------------------------
(***************************************************************************)
(* The type invariant of ShellJobs, proved for every number of jobs,       *)
(* operators, calls, notes, steps and commands, with the inductive         *)
(* invariant DomainInv it needs: that a worker is inside the approval only *)
(* with a call at hand and a ticket where it waits, and that it enters a   *)
(* step only when one is left.  One lemma per group of statements, one per *)
(* group of actions.                                                       *)
(***************************************************************************)
EXTENDS ShellJobs, TLAPS

-----------------------------------------------------------------------------
(* The inductive invariant.  Its first part is what the domains rest on.   *)

\* A worker that begins has its first step before it, and one inside a step
\* has not passed the last.
StepsCounted ==
    \A j \in Jobs :
        /\ pc[j] \in Before \cup {"absent"} => frame[j].step = 1
        /\ pc[j] \in (Loop \ {"top"}) \cup Operation \cup Approval =>
               frame[j].step <= MaxSteps

Waiting == {"askPause", "askPauseWrite", "poll", "waitCancel", "recheck"}

\* A call is at hand during the approval of it, and the thread holds the
\* ticket of a request from the request on, to its end if the tool raises.
TicketHeld ==
    \A j \in Jobs :
        /\ pc[j] \in Approval => frame[j].call \in Calls
        /\ pc[j] \in Waiting => frame[j].ticket # 0
        /\ frame[j].ticket # 0 =>
            pc[j] \in Waiting \cup {"runTool", "markFailed", "ended", "killed"}

DomainInv == TypeOK /\ StepsCounted /\ TicketHeld /\ NoDuplicateRequest

-----------------------------------------------------------------------------
(* The statements of the store keep the domains of the rows they write.    *)

\* Every statement on shell_jobs writes a row of the table's domain.
LEMMA RowsTyped ==
    ASSUME StoreTypeOK, NEW j \in Jobs,
           \/ CreateShellJob(j) \/ AttachShellJobRun(j)
           \/ \E s \in JobStatus : WriteStatus(j, s)
           \/ \E c \in {"running", "paused"} : WriteControl(j, c)
    PROVE  job' \in [Jobs -> JobRows] /\ since' \in [Jobs -> Counts]
<1>1. job[j] \in JobRows /\ since[j] \in Counts
  BY DEF StoreTypeOK
<1>2. /\ [since[j] EXCEPT !.status = 0] \in Counts
      /\ [since[j] EXCEPT !.control = 0] \in Counts
  BY <1>1 DEF Counts, SinceCap
<1>3. CASE CreateShellJob(j)
  <2>1. [status |-> "running", control |-> "running", linked |-> FALSE] \in JobRows
    BY DEF JobRows, JobStatus
  <2> QED BY <1>3, <2>1 DEF CreateShellJob, StoreTypeOK
<1>4. CASE AttachShellJobRun(j)
  <2>1. [job[j] EXCEPT !.linked = TRUE] \in JobRows
    BY <1>1 DEF JobRows
  <2> QED BY <1>4, <2>1 DEF AttachShellJobRun, StoreTypeOK
<1>5. ASSUME NEW s \in JobStatus, WriteStatus(j, s)
      PROVE  job' \in [Jobs -> JobRows] /\ since' \in [Jobs -> Counts]
  <2>1. [job[j] EXCEPT !.status = s] \in JobRows
    BY <1>1 DEF JobRows
  <2>2. job' \in [Jobs -> JobRows]
    BY <1>5, <2>1 DEF WriteStatus, StoreTypeOK
  <2>3. since' \in [Jobs -> Counts]
    BY <1>5, <1>2 DEF WriteStatus, StoreTypeOK
  <2> QED BY <2>2, <2>3
<1>6. ASSUME NEW c \in {"running", "paused"}, WriteControl(j, c)
      PROVE  job' \in [Jobs -> JobRows] /\ since' \in [Jobs -> Counts]
  <2>1. [job[j] EXCEPT !.control = c] \in JobRows
    BY <1>1 DEF JobRows
  <2>2. job' \in [Jobs -> JobRows]
    BY <1>6, <2>1 DEF WriteControl, StoreTypeOK
  <2>3. since' \in [Jobs -> Counts]
    BY <1>6, <1>2 DEF WriteControl, StoreTypeOK
  <2> QED BY <2>2, <2>3
<1> QED BY <1>3, <1>4, <1>5, <1>6

\* Every statement on runs writes a status of the domain.
LEMMA RunsTyped ==
    ASSUME StoreTypeOK, NEW j \in Jobs,
           CreateRun(j) \/ CompleteRun(j) \/ FailRun(j) \/ CancelRun(j)
    PROVE  run' \in [Jobs -> RunStatus]
BY DEF StoreTypeOK, CreateRun, CompleteRun, FailRun, CancelRun, RunStatus,
       RunTerminal

\* The INSERT of a request for a call keeps the domain of approval_requests,
LEMMA RequestCreated ==
    ASSUME StoreTypeOK, NEW j \in Jobs, NEW n \in Steps, NEW c \in Calls,
           CreateApprovalRequest(j, n, c)
    PROVE  requests' \in [Requests -> RequestRows]
<1>1. [status |-> "pending", call |-> c] \in RequestRows
  BY DEF RequestRows
<1> QED BY <1>1 DEF CreateApprovalRequest, StoreTypeOK

\* and so does the guarded UPDATE that resolves one.
LEMMA RequestResolved ==
    ASSUME StoreTypeOK, NEW r \in Requests, NEW d \in {"approved", "denied"},
           ResolveApprovalRequest(r, d)
    PROVE  requests' \in [Requests -> RequestRows]
<1>1. [requests[r] EXCEPT !.status = d] \in RequestRows
  BY DEF StoreTypeOK, RequestRows
<1> QED BY <1>1 DEF ResolveApprovalRequest, StoreTypeOK

\* Enqueueing a note and consuming the pending ones keep the domain.
LEMMA InboxTyped ==
    ASSUME StoreTypeOK, NEW j \in Jobs,
           ConsumePending(j) \/ \E n \in Notes : EnqueueInput(j, n)
    PROVE  inbox' \in [Jobs -> [Notes -> {"unsent", "pending", "consumed"}]]
<1>1. CASE ConsumePending(j)
  BY <1>1 DEF StoreTypeOK, ConsumePending
<1>2. CASE \E n \in Notes : EnqueueInput(j, n)
  BY <1>2 DEF StoreTypeOK, EnqueueInput
<1> QED BY <1>1, <1>2

\* A worker whose step is not past the last may take the next one.
LEMMA NextStepTyped ==
    ASSUME frame \in [Jobs -> Frames], NEW j \in Jobs, NEW l,
           frame[j].step <= MaxSteps, NextStep(j, l)
    PROVE  frame' \in [Jobs -> Frames]
<1>1. frame[j] \in Frames /\ frame[j].step + 1 \in 1 .. MaxSteps + 1
  BY StoreAssumption DEF Frames
<1>2. 0 \in 0 .. MaxSteps
  BY StoreAssumption
<1>3. [frame[j] EXCEPT !.step = @ + 1, !.call = NoCall, !.ticket = 0] \in Frames
  BY <1>1, <1>2 DEF Frames
<1> QED BY <1>3 DEF NextStep

\* Launching and dispatching writes the row, its link and the run's status.
LEMMA DispatchTypes ==
    ASSUME DomainInv, NEW j \in Jobs, UNCHANGED operatorVars,
           Launch(j) \/ DispatchStep(j)
    PROVE  DomainInv'
<1> USE DEF DomainInv, TypeOK, DispatchStep, Launch, StartRun, AttachRun,
        DispatchCheck, CancelBeforeDispatch, PreRunHook, At, Goto, JobRow,
        Asking, History, storeVars, operatorVars
<1>1. StoreTypeOK'
  BY RowsTyped, RunsTyped DEF StoreTypeOK
<1>2. pc' \in [Jobs -> Labels]
  BY DEF WorkerTypeOK, Labels, Live, Before, Loop, Operation, Approval, After
<1>3. frame' \in [Jobs -> Frames]
  BY DEF WorkerTypeOK
<1>4. delivered' \in [Jobs -> SUBSET Notes] /\ ran' \in [Jobs -> SUBSET Calls]
  BY DEF WorkerTypeOK
<1>5. OperatorTypeOK'
  BY DEF OperatorTypeOK
<1>6. StepsCounted'
  BY StoreAssumption DEF StepsCounted, WorkerTypeOK, Frames, Before, Loop,
     Operation, Approval
<1>7. TicketHeld'
  BY DEF TicketHeld, WorkerTypeOK, Frames, Approval, Waiting
<1>8. NoDuplicateRequest'
  BY DEF NoDuplicateRequest
<1> QED
  BY <1>1, <1>2, <1>3, <1>4, <1>5, <1>6, <1>7, <1>8 DEF WorkerTypeOK

\* The head of a step writes the inbox and takes the notes.
LEMMA HeadTypes ==
    ASSUME DomainInv, NEW j \in Jobs, UNCHANGED operatorVars,
           HeadStep(j)
    PROVE  DomainInv'
<1> USE DEF DomainInv, TypeOK, HeadStep, StopLoop, EnterStep, PauseCheck,
        PauseWait, SelectInputs, MarkInputs, At, Goto, JobRow, Asking,
        History, storeVars, operatorVars
<1>1. StoreTypeOK'
  BY InboxTyped DEF StoreTypeOK
<1>2. pc' \in [Jobs -> Labels]
  BY DEF WorkerTypeOK, Labels, Live, Before, Loop, Operation, Approval, After
<1>3. frame' \in [Jobs -> Frames]
  <2>1. \A t \in SUBSET Notes : [frame[j] EXCEPT !.taken = t] \in Frames
    BY DEF WorkerTypeOK, Frames
  <2>2. PendingNotes(j) \in SUBSET Notes /\ {} \in SUBSET Notes
    BY DEF PendingNotes
  <2> QED BY <2>1, <2>2 DEF WorkerTypeOK
<1>4. delivered' \in [Jobs -> SUBSET Notes] /\ ran' \in [Jobs -> SUBSET Calls]
  BY DEF WorkerTypeOK, Frames
<1>5. OperatorTypeOK'
  BY DEF OperatorTypeOK
<1>6. StepsCounted'
  BY StoreAssumption DEF StepsCounted, WorkerTypeOK, Frames, Before, Loop,
     Operation, Approval
<1>7. TicketHeld'
  BY DEF TicketHeld, WorkerTypeOK, Frames, Approval, Waiting
<1>8. NoDuplicateRequest'
  BY DEF NoDuplicateRequest
<1> QED
  BY <1>1, <1>2, <1>3, <1>4, <1>5, <1>6, <1>7, <1>8 DEF WorkerTypeOK

\* A backend operation counts in since, and its return moves the frame.
LEMMA OperationTypes ==
    ASSUME DomainInv, NEW j \in Jobs, UNCHANGED operatorVars,
           OperationStep(j)
    PROVE  DomainInv'
<1> USE DEF DomainInv, TypeOK, OperationStep, BackendReturns, BeginOperation,
        PollCancel, PollControl, FinalAnswer, RequestTool, OtherAction,
        BackendFails, Returns, At, Goto, JobRow, Asking, History, storeVars,
        operatorVars
<1>0. frame[j] \in Frames /\ (pc[j] = "busy" => frame[j].step <= MaxSteps)
  BY DEF WorkerTypeOK, StepsCounted, Operation
<1>1. StoreTypeOK'
  <2>1. CASE BeginOperation(j)
    <3>1. [control |-> Counted(since[j].control),
           status |-> Counted(since[j].status)] \in Counts
      BY DEF StoreTypeOK, Counts, Counted, SinceCap
    <3> QED BY <2>1, <3>1 DEF StoreTypeOK
  <2>2. CASE UNCHANGED storeVars
    BY <2>2 DEF StoreTypeOK
  <2> QED BY <2>1, <2>2
<1>2. pc' \in [Jobs -> Labels]
  BY DEF WorkerTypeOK, Labels, Live, Before, Loop, Operation, Approval, After,
     NextStep
<1>3. frame' \in [Jobs -> Frames]
  <2>1. CASE PollControl(j)
    <3>1. [frame[j] EXCEPT !.stopped = (job[j].control = "paused")] \in Frames
      BY <1>0 DEF Frames
    <3> QED BY <2>1, <3>1 DEF WorkerTypeOK
  <2>2. CASE RequestTool(j)
    <3>1. \A c \in Calls : [frame[j] EXCEPT !.call = c] \in Frames
      BY <1>0 DEF Frames
    <3> QED BY <2>2, <3>1 DEF WorkerTypeOK
  <2>3. CASE OtherAction(j) \/ BackendFails(j)
    BY <2>3, <1>0, NextStepTyped DEF WorkerTypeOK
  <2>4. CASE UNCHANGED frame
    BY <2>4 DEF WorkerTypeOK
  <2> QED BY <2>1, <2>2, <2>3, <2>4
<1>4. delivered' \in [Jobs -> SUBSET Notes] /\ ran' \in [Jobs -> SUBSET Calls]
  BY DEF WorkerTypeOK
<1>5. OperatorTypeOK'
  BY DEF OperatorTypeOK
<1>6. StepsCounted'
  BY StoreAssumption DEF StepsCounted, WorkerTypeOK, Frames, Before, Loop,
     Operation, Approval, NextStep
<1>7. TicketHeld'
  BY DEF TicketHeld, WorkerTypeOK, Frames, Approval, Waiting, NextStep
<1>8. NoDuplicateRequest'
  BY DEF NoDuplicateRequest
<1> QED
  BY <1>1, <1>2, <1>3, <1>4, <1>5, <1>6, <1>7, <1>8 DEF WorkerTypeOK

\* The approval of a call: the request it makes is the only one pending for
\* the call, and its ticket is a step.
LEMMA ApprovalTypes ==
    ASSUME DomainInv, NEW j \in Jobs, UNCHANGED operatorVars,
           ApprovalStep(j)
    PROVE  DomainInv'
<1> USE StoreAssumption DEF DomainInv, TypeOK, ApprovalStep, Gate, Ask, AskPause,
        AskPauseWrite, PollRequest, WaitCancel, Recheck, RunTool, At, Goto,
        JobRow, Asking, History, storeVars, operatorVars
<1>1. /\ frame[j] \in Frames
      /\ pc[j] \in Approval => /\ frame[j].call \in Calls
                               /\ frame[j].step \in Steps
  BY DEF WorkerTypeOK, TicketHeld, StepsCounted, Frames, Steps
<1>0. Ask(j) /\ PendingFor(j, frame[j].call) # {} =>
         LatestPending(j, frame[j].call) \in Steps
  <2> SUFFICES ASSUME NEW n \in PendingFor(j, frame[j].call)
               PROVE  LatestPending(j, frame[j].call) \in Steps
    OBVIOUS
  <2>1. PendingFor(j, frame[j].call) = {n}
    BY DEF PendingFor, NoDuplicateRequest
  <2>2. n \in Steps /\ n <= n
    BY DEF PendingFor, Steps
  <2> QED BY <2>1, <2>2 DEF LatestPending
<1>2. StoreTypeOK'
  <2>1. CASE Ask(j)
    <3>1. CASE requests' = requests
      BY <2>1, <3>1 DEF StoreTypeOK
    <3>2. CASE CreateApprovalRequest(j, frame[j].step, frame[j].call)
      BY <2>1, <3>2, <1>1, RequestCreated DEF StoreTypeOK, Approval
    <3> QED BY <2>1, <3>1, <3>2
  <2>2. CASE AskPauseWrite(j)
    BY <2>2, RowsTyped DEF StoreTypeOK
  <2>3. CASE UNCHANGED storeVars
    BY <2>3 DEF StoreTypeOK
  <2> QED BY <2>1, <2>2, <2>3
<1>3. pc' \in [Jobs -> Labels]
  BY DEF WorkerTypeOK, Labels, Live, Before, Loop, Operation, Approval, After,
         NextStep
<1>4. frame' \in [Jobs -> Frames]
  <2>1. CASE Ask(j)
    <3>1. \A t \in Steps : [frame[j] EXCEPT !.ticket = t] \in Frames
      BY <1>1 DEF Frames, Steps
    <3> QED BY <2>1, <1>1, <1>0, <3>1 DEF WorkerTypeOK, Approval
  <2>2. CASE NextStep(j, "top")
    BY <1>1, <2>2, NextStepTyped DEF WorkerTypeOK, Approval, Steps
  <2>3. CASE UNCHANGED frame
    BY <2>3 DEF WorkerTypeOK
  <2> QED BY <2>1, <2>2, <2>3
<1>5. delivered' \in [Jobs -> SUBSET Notes] /\ ran' \in [Jobs -> SUBSET Calls]
  BY <1>1 DEF WorkerTypeOK, Approval
<1>6. OperatorTypeOK'
  BY DEF OperatorTypeOK
<1>7. StepsCounted'
  BY DEF StepsCounted, WorkerTypeOK, Frames, Before, Loop, Operation, Approval,
     NextStep
<1>8. TicketHeld'
  <2>1. CASE Ask(j)
    <3>1. /\ frame'[j].ticket \in Steps
          /\ frame'[j].call \in Calls
          /\ pc'[j] \in {"poll", "askPause"}
      BY <2>1, <1>1, <1>0 DEF WorkerTypeOK, Approval, Frames
    <3>2. \A i \in Jobs \ {j} : frame'[i] = frame[i] /\ pc'[i] = pc[i]
      BY <2>1 DEF WorkerTypeOK
    <3>3. \A t \in Steps : t # 0
      BY DEF Steps
    <3> QED BY <3>1, <3>2, <3>3 DEF TicketHeld, Waiting
  <2>2. CASE ~ Ask(j)
    BY <2>2 DEF TicketHeld, WorkerTypeOK, Frames, Approval, Waiting, NextStep
  <2> QED BY <2>1, <2>2
<1>9. NoDuplicateRequest'
  <2>1. CASE Ask(j) /\ PendingFor(j, frame[j].call) = {}
    <3>1. \A n \in Steps : ~ (/\ requests[<<j, n>>].status = "pending"
                               /\ requests[<<j, n>>].call = frame[j].call)
       BY <2>1 DEF PendingFor, StoreTypeOK, RequestRows, Requests
    <3> DEFINE r == <<j, frame[j].step>>
    <3>2. requests' = [requests EXCEPT ![r] = [status |-> "pending",
                                               call |-> frame[j].call]]
       BY <2>1 DEF CreateApprovalRequest
    <3>3. \A q \in Requests : q # r => requests'[q] = requests[q]
       BY <3>2 DEF StoreTypeOK
    <3>4. /\ r \in Requests
          /\ requests'[r] = [status |-> "pending", call |-> frame[j].call]
       BY <3>2, <2>1, <1>1 DEF StoreTypeOK, Requests, Approval
    <3> HIDE DEF r
    <3> QED BY <3>1, <3>3, <3>4 DEF NoDuplicateRequest, Requests, r
  <2>2. CASE UNCHANGED requests
    BY <2>2 DEF NoDuplicateRequest
  <2> QED BY <2>1, <2>2
<1> QED
  BY <1>2, <1>3, <1>4, <1>5, <1>6, <1>7, <1>8, <1>9 DEF WorkerTypeOK

\* The end of a job writes the run's status, then the row's.
LEMMA EndTypes ==
    ASSUME DomainInv, NEW j \in Jobs, UNCHANGED operatorVars,
           EndStep(j)
    PROVE  DomainInv'
<1> USE DEF DomainInv, TypeOK, EndStep, CancelDuringRun, Complete,
        FailAttempts, Settle, MarkJob, At, Goto, JobRow, Asking, History,
        storeVars, operatorVars
<1>1. StoreTypeOK'
  BY RowsTyped, RunsTyped DEF StoreTypeOK, JobStatus, JobTerminal
<1>2. pc' \in [Jobs -> Labels]
  BY DEF WorkerTypeOK, Labels, Live, Before, Loop, Operation, Approval, After
<1>3. frame' \in [Jobs -> Frames]
  BY DEF WorkerTypeOK
<1>4. delivered' \in [Jobs -> SUBSET Notes] /\ ran' \in [Jobs -> SUBSET Calls]
  BY DEF WorkerTypeOK
<1>5. OperatorTypeOK'
  BY DEF OperatorTypeOK
<1>6. StepsCounted'
  BY StoreAssumption DEF StepsCounted, WorkerTypeOK, Frames, Before, Loop,
     Operation, Approval
<1>7. TicketHeld'
  BY DEF TicketHeld, WorkerTypeOK, Frames, Approval, Waiting
<1>8. NoDuplicateRequest'
  BY DEF NoDuplicateRequest
<1> QED
  BY <1>1, <1>2, <1>3, <1>4, <1>5, <1>6, <1>7, <1>8 DEF WorkerTypeOK

\* The records of the operators keep their domain.
LEMMA OpsTyped ==
    ASSUME OperatorTypeOK, StoreTypeOK, NEW o \in Operators
    PROVE  /\ op[o] \in Opers
           /\ Finish(o) => op' \in [Operators -> Opers]
           /\ \A l \in OpLabels : Then(o, l) => op' \in [Operators -> Opers]
           /\ \A j \in Jobs, l \in OpLabels, mark \in BOOLEAN :
                 op[o].left > 0 /\ Begin(o, j, l, mark) =>
                     op' \in [Operators -> Opers]
<1> USE StoreAssumption, OperatorAssumption DEF OperatorTypeOK
<1>1. op[o] \in Opers /\ op[o].job \in Jobs /\ op[o].left \in 0 .. MaxCommands
  BY DEF Opers
<1>2. \A j \in Jobs, n \in 0 .. MaxCommands : Idle(j, n) \in Opers
  BY DEF Idle, Opers, OpLabels, Steps
<1>3. Finish(o) => op' \in [Operators -> Opers]
  BY <1>1, <1>2 DEF Finish
<1>4. ASSUME NEW l \in OpLabels, Then(o, l) PROVE op' \in [Operators -> Opers]
  <2>1. [op[o] EXCEPT !.at = l] \in Opers
    BY <1>1 DEF Opers
  <2> QED BY <2>1, <1>4 DEF Then
<1>5. ASSUME NEW j \in Jobs, NEW l \in OpLabels, NEW mark \in BOOLEAN,
             op[o].left > 0, Begin(o, j, l, mark)
      PROVE  op' \in [Operators -> Opers]
  <2>1. op[o].left - 1 \in 0 .. MaxCommands
    BY <1>1, <1>5
  <2>2. Idle(j, op[o].left - 1) \in Opers
    BY <1>2, <2>1
  <2>3. ASSUME NEW r \in Opers
        PROVE  [r EXCEPT !.at = l, !.mark = mark] \in Opers
    BY DEF Opers
  <2> QED BY <2>2, <2>3, <1>5 DEF Begin
<1> QED BY <1>1, <1>3, <1>4, <1>5

\* A step of an operator's command keeps the domains and touches no worker.
LEMMA CommandTypes ==
    ASSUME DomainInv, NEW o \in Operators, OperatorStep(o), UNCHANGED workerVars
    PROVE  DomainInv'
<1> USE StoreAssumption, OpsTyped DEF DomainInv, TypeOK, OperatorTypeOK,
        storeVars, OnRows, OnAsking, operatorVars
<1>0. op[o] \in Opers /\ op[o].job \in Jobs /\ op[o].left \in 0 .. MaxCommands
  BY DEF Opers
<1>1. ASSUME NEW j \in Jobs,
             StartCancel(o, j) \/ StartPause(o, j) \/ StartResume(o, j)
      PROVE  StoreTypeOK' /\ OperatorTypeOK' /\ UNCHANGED requests
  <2>1. op' \in [Operators -> Opers]
    BY <1>1 DEF StartCancel, StartPause, StartResume, May, OpLabels
  <2> QED
    BY <1>1, <2>1 DEF StartCancel, StartPause, StartResume, StoreTypeOK
<1>2. ASSUME NEW j \in Jobs, NEW n \in Notes, Inject(o, j, n)
      PROVE  StoreTypeOK' /\ OperatorTypeOK' /\ UNCHANGED requests
  BY <1>2, InboxTyped DEF Inject, May, OpLabels, StoreTypeOK
<1>3. ASSUME NEW j \in Jobs, NEW n \in Steps,
             StartApprove(o, j, n) \/ StartDeny(o, j, n)
      PROVE  StoreTypeOK' /\ OperatorTypeOK' /\ UNCHANGED requests
  <2>1. op[o].left - 1 \in 0 .. MaxCommands
    <3>1. op[o].left > 0
      BY <1>3 DEF StartApprove, StartDeny, May
    <3> QED BY <1>0, <3>1, OperatorAssumption
  <2>2. Idle(j, op[o].left - 1) \in Opers
    BY <2>1 DEF Idle, Opers, OpLabels, Steps
  <2>3. ASSUME NEW r \in Opers, NEW g \in SUBSET Calls, NEW resume \in BOOLEAN
        PROVE  /\ [r EXCEPT !.at = "rememberWrite", !.request = n,
                            !.decision = "approved", !.grant = g,
                            !.loaded = allow, !.resume = resume] \in Opers
               /\ [r EXCEPT !.at = "resolve", !.request = n,
                            !.resume = TRUE] \in Opers
    BY DEF Opers, OpLabels, StoreTypeOK
  <2>4. CASE StartApprove(o, j, n)
    <3>1. PICK g \in SUBSET Calls, resume \in BOOLEAN :
             op' = [op EXCEPT ![o] =
                      [Idle(j, @.left - 1) EXCEPT
                          !.at = "rememberWrite", !.request = n,
                          !.decision = "approved", !.grant = g,
                          !.loaded = allow, !.resume = resume]]
      BY <2>4 DEF StartApprove
    <3> QED BY <2>2, <2>3, <2>4, <3>1 DEF StartApprove, StoreTypeOK
  <2>5. CASE StartDeny(o, j, n)
    BY <2>2, <2>3, <2>5 DEF StartDeny, StoreTypeOK
  <2> QED BY <1>3, <2>4, <2>5
<1>4. ASSUME NEW j \in Jobs, NEW n \in Steps, Decide(o, j, n)
      PROVE  /\ StoreTypeOK' /\ OperatorTypeOK'
             /\ \E d \in {"approved", "denied"} :
                   ResolveApprovalRequest(<<j, n>>, d)
  <2>1. <<j, n>> \in Requests
    BY DEF Requests
  <2>2. op' \in [Operators -> Opers]
    BY <1>4 DEF Decide, May, OpLabels
  <2> QED
    BY <1>4, <2>1, <2>2, RequestResolved DEF Decide, StoreTypeOK
<1>5. ASSUME \/ CancelWrite(o) \/ PauseWrite(o) \/ PauseMark(o)
             \/ ResumeRead(o) \/ ResumeWrite(o) \/ ResumeMark(o)
      PROVE  StoreTypeOK' /\ OperatorTypeOK' /\ UNCHANGED requests
  <2>1. op' \in [Operators -> Opers]
    BY <1>5 DEF CancelWrite, PauseWrite, PauseMark, ResumeRead, ResumeWrite,
       ResumeMark, OpLabels
  <2>2. op[o].job \in Jobs
    BY DEF Opers
  <2> QED
    BY <1>5, <2>1, <2>2, RowsTyped DEF CancelWrite, PauseWrite, PauseMark,
       ResumeRead, ResumeWrite, ResumeMark, StoreTypeOK, JobStatus
<1>6. ASSUME RememberWrite(o)
      PROVE  StoreTypeOK' /\ OperatorTypeOK' /\ UNCHANGED requests
  <2>1. op' \in [Operators -> Opers]
    BY <1>6 DEF RememberWrite, OpLabels
  <2>2. op[o].grant \in SUBSET Calls /\ op[o].loaded \in SUBSET Calls
    BY <1>0 DEF Opers
  <2> QED BY <1>6, <2>1, <2>2 DEF RememberWrite, StoreTypeOK
<1>7. ASSUME Resolve(o)
      PROVE  /\ StoreTypeOK' /\ OperatorTypeOK'
             /\ \E r \in Requests, d \in {"approved", "denied"} :
                   ResolveApprovalRequest(r, d)
  <2>1. op' \in [Operators -> Opers]
    BY <1>7 DEF Resolve, OpLabels
  <2>2. /\ <<op[o].job, op[o].request>> \in Requests
        /\ op[o].decision \in {"approved", "denied"}
    BY <1>0 DEF Opers, Requests
  <2> QED BY <1>7, <2>1, <2>2, RequestResolved DEF Resolve, StoreTypeOK
<1>8. ASSUME OperatorExit(o)
      PROVE  StoreTypeOK' /\ OperatorTypeOK' /\ UNCHANGED requests
  BY <1>8 DEF OperatorExit, StoreTypeOK
<1>9. ASSUME \/ UNCHANGED requests
             \/ \E r \in Requests, d \in {"approved", "denied"} :
                   ResolveApprovalRequest(r, d)
      PROVE  NoDuplicateRequest'
  <2>1. CASE UNCHANGED requests
    BY <2>1 DEF NoDuplicateRequest
  <2>2. ASSUME NEW r \in Requests, NEW d \in {"approved", "denied"},
               ResolveApprovalRequest(r, d)
        PROVE  NoDuplicateRequest'
    <3>1. \A q \in Requests :
             requests'[q] = requests[q] \/ requests'[q].status = d
      BY <2>2 DEF ResolveApprovalRequest, StoreTypeOK, RequestRows
    <3> QED BY <3>1 DEF NoDuplicateRequest, Requests
  <2> QED BY <1>9, <2>1, <2>2
<1>10. WorkerTypeOK' /\ StepsCounted' /\ TicketHeld'
  BY DEF workerVars, WorkerTypeOK, StepsCounted, TicketHeld
<1>11. \A j \in Jobs, n \in Steps : <<j, n>> \in Requests
  BY DEF Requests
<1> QED
  BY <1>1, <1>2, <1>3, <1>4, <1>5, <1>6, <1>7, <1>8, <1>9, <1>10, <1>11
  DEF OperatorStep, StartCommand, Proceed

\* The shell's exit kills workers and leaves the rows.
LEMMA ExitTypes ==
    ASSUME DomainInv, Exit
    PROVE  DomainInv'
<1> USE DEF DomainInv, TypeOK, Exit, ShellExit, History, storeVars, operatorVars
<1>1. StoreTypeOK' /\ OperatorTypeOK' /\ NoDuplicateRequest'
  BY DEF StoreTypeOK, OperatorTypeOK, NoDuplicateRequest
<1>2. WorkerTypeOK'
  BY DEF WorkerTypeOK, Labels
<1>3. StepsCounted' /\ TicketHeld'
  BY DEF StepsCounted, TicketHeld, WorkerTypeOK, Before, Loop, Operation,
     Approval, Waiting
<1> QED BY <1>1, <1>2, <1>3

\* The domains hold of an empty database.
LEMMA InitTypes == Init => DomainInv
<1> SUFFICES ASSUME Init PROVE DomainInv
  OBVIOUS
<1> USE StoreAssumption, OperatorAssumption DEF Init
<1>1. StoreTypeOK
  BY DEF StoreInit, StoreTypeOK, JobRows, RequestRows, Counts, JobStatus,
     RunStatus, SinceCap, Requests
<1>2. WorkerTypeOK
  BY DEF WorkerInit, WorkerTypeOK, Labels, FirstFrame, Frames
<1>3. OperatorTypeOK
  BY <1>1 DEF OperatorInit, OperatorTypeOK, Opers, Idle, OpLabels, Steps,
     StoreTypeOK
<1>4. StepsCounted /\ TicketHeld
  BY DEF WorkerInit, FirstFrame, StepsCounted, TicketHeld, Before, Loop,
     Operation, Approval, Waiting
<1>5. NoDuplicateRequest
  BY DEF StoreInit, NoDuplicateRequest, Requests
<1> QED BY <1>1, <1>2, <1>3, <1>4, <1>5 DEF DomainInv, TypeOK

\* Every step of the system keeps the domains.
LEMMA StepTypes == DomainInv /\ [Next]_vars => DomainInv'
<1> SUFFICES ASSUME DomainInv, [Next]_vars PROVE DomainInv'
  OBVIOUS
<1>1. CASE Next
  BY <1>1, DispatchTypes, HeadTypes, OperationTypes, ApprovalTypes, EndTypes,
     CommandTypes, ExitTypes
  DEF Next, Worker, WorkerStep, Operator
<1>2. CASE UNCHANGED vars
  BY <1>2 DEF vars, storeVars, workerVars, operatorVars, DomainInv, TypeOK,
     StoreTypeOK, WorkerTypeOK, OperatorTypeOK, StepsCounted, TicketHeld,
     NoDuplicateRequest
<1> QED BY <1>1, <1>2

\* The inductive invariant holds.
THEOREM DomainsHold == Spec => []DomainInv
BY InitTypes, StepTypes, PTL DEF Spec

\* The rows, the locals of every worker thread and the state of every command
\* keep their domains; in particular no tool loop takes a step more than its
\* max_tool_steps, whatever operators do meanwhile.
THEOREM Typed == Spec => []TypeOK
<1>1. DomainInv => TypeOK
  BY DEF DomainInv
<1> QED BY <1>1, DomainsHold, PTL

\* _approve_tool_for_job never leaves two requests pending for one call.
THEOREM AskedOnce == Spec => []NoDuplicateRequest
<1>1. DomainInv => NoDuplicateRequest
  BY DEF DomainInv
<1> QED BY <1>1, DomainsHold, PTL

=============================================================================
