----------------------------- MODULE ShellJobs ------------------------------
(***************************************************************************)
(* Background jobs as a whole: the worker threads and the operators,       *)
(* interleaved statement by statement over the shared rows, and what the   *)
(* pair promises.                                                          *)
(***************************************************************************)
EXTENDS JobWorker, JobOperators

vars == <<storeVars, workerVars, operatorVars>>

Init == StoreInit /\ WorkerInit /\ OperatorInit

Worker(j) == (Launch(j) \/ WorkerStep(j)) /\ UNCHANGED operatorVars

Exit == ShellExit /\ UNCHANGED operatorVars

Operator(o) == OperatorStep(o) /\ UNCHANGED workerVars

Next ==
    \/ \E j \in Jobs : Worker(j)
    \/ Exit
    \/ \E o \in Operators : Operator(o)

Spec == Init /\ [][Next]_vars

\* Threads are scheduled; a backend operation that is not stopped ends; a
\* command that was begun goes on.  Nobody has to begin a command.
Fairness ==
    /\ \A j \in Jobs : /\ WF_vars(WorkerStep(j) /\ UNCHANGED operatorVars)
                       /\ SF_vars(BackendReturns(j) /\ UNCHANGED operatorVars)
    /\ \A o \in Operators : WF_vars(Proceed(o) /\ UNCHANGED workerVars)

FairSpec == Spec /\ Fairness

-----------------------------------------------------------------------------

\* The rows and the locals of every thread and command keep their domains: in
\* particular no tool loop takes more than MaxSteps steps.
TypeOK == StoreTypeOK /\ WorkerTypeOK /\ OperatorTypeOK

\* Operators overwrite shell_jobs.status while the worker settles it.  Still a
\* row reading done or canceled tells the truth about its run: done is only
\* ever said of a run that finished by itself, canceled of a canceled one, and
\* both of a run the row links to.
StatusTellsOutcome ==
    \A j \in Jobs :
        /\ job[j].status = "done" => run[j] \in {"done", "failed"}
        /\ job[j].status = "canceled" => run[j] = "canceled"
        /\ job[j].status \in {"done", "canceled"} => job[j].linked

\* Once a tool-loop job is paused, or its cancellation requested, and for as
\* long as that stands, at most one more backend operation is begun: the one
\* whose step had passed its checks.
StopsWithinAStep ==
    \A j \in Jobs : IsToolLoop(j) =>
        /\ job[j].control = "paused" => since[j].control <= 1
        /\ IsCancelRequested(j) => since[j].status <= 1

\* A request that was resolved keeps its decision, however many operators
\* answer it through the shell, the screen and the API.
DecisionFinal ==
    [][\A r \in Requests :
          requests[r].status \in {"approved", "denied"} =>
              requests'[r] = requests[r]]_vars

\* A worker that had to ask runs the tool only if its own request was
\* approved: a pattern remembered meanwhile for another request does not
\* overrule a denial.
ApprovedBeforeRun ==
    \A j \in Jobs :
        At(j, "runTool") /\ frame[j].ticket # 0 =>
            requests[Ticket(j)].status = "approved"

\* A call an earlier step left unanswered is not asked about twice.
NoDuplicateRequest ==
    \A j \in Jobs : \A m, n \in Steps :
        /\ requests[<<j, m>>].status = "pending"
        /\ requests[<<j, n>>] = requests[<<j, m>>]
        => m = n

\* No note reaches the tool loop twice.
NoNoteTwice == \A j \in Jobs : frame[j].taken \cap delivered[j] = {}

\* Runs end once and for all, and tools run under a grant.
Promised == INSTANCE RunPromise WITH outcome <- run, executed <- ran
KeepsPromise == Promised!Spec

Ended(j) == pc[j] \in {"ended", "killed"}

\* A cancellation that is left standing stops the worker, also one that is
\* paused or waits for an approval nobody gives.
CancelReachesWorker ==
    \A j \in Jobs : IsCancelRequested(j) ~> (Ended(j) \/ ~ IsCancelRequested(j))

AwaitsDecision(j) ==
    /\ pc[j] \in {"poll", "waitCancel"}
    /\ requests[Ticket(j)].status = "pending"

\* A job that stays resumed and whose requests are answered comes to an end.
ResumedJobEnds ==
    \A j \in Jobs :
        <>[](job[j].status # "absent" /\ job[j].control = "running"
             /\ ~ AwaitsDecision(j)) => <>Ended(j)

-----------------------------------------------------------------------------
(* What the repository says of background jobs and the code does not do.   *)

\* cli.py on /cancel: the current backend call may still finish before the
\* request can be honored.  So the request stands until the worker settles.
CancelStands ==
    [][\A j \in Jobs : IsCancelRequested(j) =>
          job'[j].status \in JobTerminal \cup {"cancel_requested"}]_vars

\* architecture.md: inject operator guidance into a paused or running task;
\* roadmap.md: the operator can intervene without losing state.  A note marked
\* consumed was handed to the loop.
ConsumedIsDelivered ==
    \A j \in Jobs : \A n \in Notes :
        inbox[j][n] = "consumed" => n \in delivered[j]

=============================================================================
