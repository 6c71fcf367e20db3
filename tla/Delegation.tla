----------------------------- MODULE Delegation -----------------------------
(***************************************************************************)
(* The tool loop and the child runs it delegates to.  One thread executes  *)
(* a tree of runs: a parent stands in its delegating step until its child  *)
(* returns or raises, and an exception unwinds the whole chain.  A child   *)
(* whose delegation names acceptance tests has a task, which the parent    *)
(* settles when the child has returned.  An operator may cancel, pause and *)
(* resume meanwhile; the callables that ask are handed down the tree.      *)
(*                                                                         *)
(* The tool spawn_subagent starts a child of its own, which is given none  *)
(* of the callables.  On whose behalf it takes from an attribute of the    *)
(* registry of tools that the threads of all jobs write: whenever it is    *)
(* read it may hold a run or nothing.  That it may hold a run of another   *)
(* job, which then is the parent in the rows of the child and of its task, *)
(* is left out: caller is the run that waits for the child.                *)
(*                                                                         *)
(* Runs are numbered in the order of their creation.  What the model puts  *)
(* in its JSON is a choice; a child of another strategy ends in one of the *)
(* ways that RunRecovery and Strategies end.                               *)
(***************************************************************************)
EXTENDS Naturals

CONSTANTS
    MaxRuns,       \* runs that are explored
    LoopSteps,     \* max_steps of the tool loop (6 in the code)
    MaxDepth,      \* depth at which a delegation is rejected (2 in the code)
    MaxToolCalls,  \* budget: tool calls
    MaxBashCalls   \* budget: bash calls

ASSUME DelegationAssumption ==
    /\ MaxRuns \in Nat \ {0} /\ LoopSteps \in Nat \ {0} /\ MaxDepth \in Nat
    /\ MaxToolCalls \in Nat /\ MaxBashCalls \in Nat

VARIABLES
    tree,        \* runs with the locals of the thread that executes them
    tasks,       \* the task a run was created for: its status
    asked,       \* control_state and cancel_requested
    passedTests  \* history: children whose acceptance tests all passed

delegationVars == <<tree, tasks, asked, passedTests>>

RunIds == 1..MaxRuns
TaskStates == {"none", "created", "assigned", "completed", "failed"}
Ended == {"done", "failed", "canceled"}

\* A run, its frame at l, without a step or a call as yet.
Run(s, p, isSpawned, depth, isLoop, l) ==
    [status |-> s, caller |-> p, spawned |-> isSpawned, depth |-> depth,
     loop |-> isLoop, at |-> l, step |-> 0, calls |-> 0, bash |-> 0]

NoRun == Run("absent", 0, FALSE, 0, FALSE, "none")

NewRun(p, depth, isLoop) ==
    Run("running", p, FALSE, depth, isLoop, IF isLoop THEN "step" ELSE "attempt")

Exists(r) == tree[r].status # "absent"
Free(r) == tree[r].at = "none" /\ \A q \in RunIds : q < r => tree[q].at # "none"
ChildrenOf(r) == {c \in RunIds : Exists(c) /\ tree[c].caller = r}
Stands(r, l) == r \in RunIds /\ tree[r].at = l
Set(r, field, value) == [tree EXCEPT ![r][field] = value]

\* A child of spawn_subagent is direct.
NewSpawned(p) == Run("running", p, TRUE, 0, FALSE, "attempt")

\* The frame of the run is left; its row says s.
Leave(r, s, l) ==
    [tree EXCEPT ![r] = Run(s, tree[r].caller, tree[r].spawned, 0, FALSE, l)]

DelegationInit ==
    /\ tree = [r \in RunIds |-> IF r = 1 THEN NewRun(0, 0, TRUE) ELSE NoRun]
    /\ tasks = [r \in RunIds |-> "none"]
    /\ asked = [cancel |-> FALSE, pause |-> FALSE]
    /\ passedTests = {}

-----------------------------------------------------------------------------
(* A step of the loop *)

\* Mutant: the calls of bash have no limit of their own.
OverBudgetTools(r) == tree[r].calls > MaxToolCalls

\* budget.check: more than the limit has been used.
OverBudget(r) == tree[r].calls > MaxToolCalls \/ tree[r].bash > MaxBashCalls

Through(r) == OverBudget(r) \/ tree[r].step = LoopSteps

\* The budget is looked at first.  Exhausted, it is escalated, and the loop
\* returns a response all the same; so it does after its last step.
StopLoop(r) ==
    /\ Stands(r, "step") /\ Through(r)
    /\ tree' = Set(r, "at", "complete")
    /\ UNCHANGED <<tasks, asked, passedTests>>

\* Mutant: a paused loop looks for nothing but the resume.
CancelLoopUnpaused(r) ==
    /\ Stands(r, "step") /\ asked.cancel /\ ~asked.pause /\ ~Through(r)
    /\ tree' = Leave(r, "canceled", "raise")
    /\ UNCHANGED <<tasks, asked, passedTests>>

\* The cancel is looked for before the step and while it is paused.
CancelLoop(r) ==
    /\ Stands(r, "step") /\ asked.cancel /\ ~Through(r)
    /\ tree' = Leave(r, "canceled", "raise")
    /\ UNCHANGED <<tasks, asked, passedTests>>

CallModel(r) ==
    /\ Stands(r, "step") /\ ~asked.cancel /\ ~asked.pause /\ ~Through(r)
    /\ tree' = [tree EXCEPT ![r].at = "call", ![r].step = @ + 1]
    /\ UNCHANGED <<tasks, asked, passedTests>>

\* Terminating the backend's process cancels the row; None is raised for.
CancelModelCall(r) ==
    /\ Stands(r, "call") /\ asked.cancel
    /\ tree' = Leave(r, "canceled", "raise")
    /\ UNCHANGED <<tasks, asked, passedTests>>

\* The call fails, or the runner of the tool it asked for raises.
FailModelCall(r) ==
    /\ Stands(r, "call")
    /\ tree' = Leave(r, "running", "raise")
    /\ UNCHANGED <<tasks, asked, passedTests>>

\* "final", or no JSON object with an action that is known.
FinalAnswer(r) ==
    /\ Stands(r, "call")
    /\ tree' = Set(r, "at", "complete")
    /\ UNCHANGED <<tasks, asked, passedTests>>

\* A tool that fails has been called all the same.
RunTool(r, bash) ==
    /\ Stands(r, "call")
    /\ tree' = [tree EXCEPT ![r].at = "step", ![r].calls = @ + 1,
                            ![r].bash = IF bash THEN @ + 1 ELSE @]
    /\ UNCHANGED <<tasks, asked, passedTests>>

\* Refused by whoever is asked about a tool, or a delegation too deep.
Refuse(r) ==
    /\ Stands(r, "call")
    /\ tree' = Set(r, "at", "step")
    /\ UNCHANGED <<tasks, asked, passedTests>>

-----------------------------------------------------------------------------
(* A child run *)

\* create_task, then start_run, which may find no backend to use.
CreateTask(r, c) ==
    /\ Stands(r, "call") /\ tree[r].depth < MaxDepth /\ Free(c)
    /\ tasks' = [tasks EXCEPT ![c] = "created"]
    /\ tree' = Set(r, "at", "spawn")
    /\ UNCHANGED <<asked, passedTests>>

MaySpawn(r) == Stands(r, "spawn") \/ (Stands(r, "call") /\ tree[r].depth < MaxDepth)

\* start_run, assign_task and the call of execute_prepared_run.
Spawn(r, c, isLoop) ==
    /\ MaySpawn(r) /\ Free(c)
    /\ tree' = [tree EXCEPT ![r].at = "wait", ![c] = NewRun(r, tree[r].depth + 1, isLoop)]
    /\ tasks' = IF tasks[c] = "created" THEN [tasks EXCEPT ![c] = "assigned"] ELSE tasks
    /\ UNCHANGED <<asked, passedTests>>

\* start_run raises: nothing undoes the task.
SpawnFails(r) ==
    /\ MaySpawn(r)
    /\ tree' = Leave(r, "running", "raise")
    /\ UNCHANGED <<tasks, asked, passedTests>>

\* start_run raises after create_run: the row of the child is left running.
SpawnBreaks(r, c) ==
    /\ MaySpawn(r) /\ Free(c)
    /\ tree' = [Leave(r, "running", "raise") EXCEPT
                   ![c] = Run("running", r, FALSE, 0, FALSE, "gone")]
    /\ UNCHANGED <<tasks, asked, passedTests>>

\* Another strategy returns: done, aborted by a hook, or canceled in its one
\* attempt.  Or it raises with the row failed or canceled; with the row done,
\* when the snapshot of the finally raises; or with a row that stays running.
EndAttempt(r) ==
    /\ Stands(r, "attempt") /\ ~tree[r].spawned
    /\ \E s \in Ended \cup {"running"}, l \in {"returned", "raise"} :
          /\ s = "canceled" => asked.cancel
          /\ s = "running" => l = "raise"
          /\ tree' = Leave(r, s, l)
    /\ UNCHANGED <<tasks, asked, passedTests>>

\* complete_run, whatever the loop's response says; then the snapshot.
CompleteLoop(r) ==
    /\ Stands(r, "complete")
    /\ \E l \in {"returned", "raise"} : tree' = Leave(r, "done", l)
    /\ UNCHANGED <<tasks, asked, passedTests>>

\* Mutant: the acceptance tests are run whatever became of the child.
AcceptAny(r, c) ==
    /\ Stands(r, "wait") /\ c \in ChildrenOf(r) /\ Stands(c, "returned") /\ ~tree[c].spawned
    /\ \/ /\ tasks[c] = "assigned"
          /\ \/ tasks' = [tasks EXCEPT ![c] = "completed"] /\ passedTests' = passedTests \cup {c}
             \/ tasks' = [tasks EXCEPT ![c] = "failed"] /\ UNCHANGED passedTests
       \/ tasks[c] # "assigned" /\ UNCHANGED <<tasks, passedTests>>
    /\ tree' = [tree EXCEPT ![r].at = "step", ![c].at = "gone"]
    /\ UNCHANGED asked

\* The child has returned.  For a child that is done the tests decide over its
\* task; the task of any other is failed.
Accept(r, c) ==
    /\ Stands(r, "wait") /\ c \in ChildrenOf(r) /\ Stands(c, "returned") /\ ~tree[c].spawned
    /\ \/ /\ tasks[c] = "assigned" /\ tree[c].status = "done"
          /\ \/ tasks' = [tasks EXCEPT ![c] = "completed"] /\ passedTests' = passedTests \cup {c}
             \/ tasks' = [tasks EXCEPT ![c] = "failed"] /\ UNCHANGED passedTests
       \/ /\ tasks[c] = "assigned" /\ tree[c].status # "done"
          /\ tasks' = [tasks EXCEPT ![c] = "failed"] /\ UNCHANGED passedTests
       \/ tasks[c] # "assigned" /\ UNCHANGED <<tasks, passedTests>>
    /\ tree' = [tree EXCEPT ![r].at = "step", ![c].at = "gone"]
    /\ UNCHANGED asked

\* Mutant: the parent takes the exception for a failed delegation.
UnwindCaught(r) ==
    /\ Stands(r, "raise") /\ ~tree[r].spawned
    /\ tree' = IF tree[r].caller = 0 THEN Set(r, "at", "gone")
               ELSE [tree EXCEPT ![r].at = "gone", ![tree[r].caller].at = "step"]
    /\ UNCHANGED <<tasks, asked, passedTests>>

\* The exception passes the parent, whose row and task stay as they are.
Unwind(r) ==
    /\ Stands(r, "raise") /\ ~tree[r].spawned
    /\ tree' = IF tree[r].caller = 0 THEN Set(r, "at", "gone")
               ELSE [tree EXCEPT ![r].at = "gone", ![tree[r].caller].at = "raise"]
    /\ UNCHANGED <<tasks, asked, passedTests>>

-----------------------------------------------------------------------------
(* The tool spawn_subagent *)

\* create_task, if the attribute holds a run, be it the caller or another.
SpawnTask(r, c) ==
    /\ Stands(r, "call") /\ Free(c)
    /\ \/ tasks' = [tasks EXCEPT ![c] = "created"]
       \/ UNCHANGED tasks
    /\ tree' = [tree EXCEPT ![r].at = "tool", ![c].at = "due", ![c].caller = r]
    /\ UNCHANGED <<asked, passedTests>>

\* The tool answers and the loop goes on: a tool call of the budget, after
\* which nothing of the frame of c is left.
ToolAnswers(r, c) == [tree EXCEPT ![r].at = "step", ![r].calls = @ + 1, ![c].at = "gone"]

\* Updates name the task, and change no row if there is none.
Settled(c, s) == IF tasks[c] = "created" THEN [tasks EXCEPT ![c] = s] ELSE tasks

\* Read once more, the attribute is empty: no child, and a task that stays.
SpawnNothing(r, c) ==
    /\ Stands(r, "tool") /\ Stands(c, "due") /\ tree[c].caller = r
    /\ tree' = ToolAnswers(r, c)
    /\ UNCHANGED <<tasks, asked, passedTests>>

\* run: a direct child of whatever run the attribute holds by now.
SpawnDirect(r, c) ==
    /\ Stands(r, "tool") /\ Stands(c, "due") /\ tree[c].caller = r
    /\ tree' = [tree EXCEPT ![c] = NewSpawned(r)]
    /\ UNCHANGED <<tasks, asked, passedTests>>

\* The child answers, or a hook aborts it.  It raises when its attempt failed,
\* with the row failed or, by the date of a quota or a start that raises after
\* create_run, running; or when the snapshot of the finally raises.  No cancel
\* and no pause reaches it.
EndSpawned(c) ==
    /\ Stands(c, "attempt") /\ tree[c].spawned
    /\ \/ \E s \in {"done", "failed"} : tree' = Leave(c, s, "returned")
       \/ \E s \in {"done", "failed", "running"} : tree' = Leave(c, s, "raise")
    /\ UNCHANGED <<tasks, asked, passedTests>>

\* assign_task and the verdict by the child's status alone: its acceptance
\* tests are not run.  Whatever run raises, in start_run or in the child, fails
\* the task, to which that child is not assigned; the child's row stays as it is.
SettleSpawned(r, c) ==
    /\ Stands(r, "tool") /\ tree[c].caller = r
    /\ \/ /\ Stands(c, "returned")
          /\ tasks' = Settled(c, IF tree[c].status = "done" THEN "completed" ELSE "failed")
       \/ /\ Stands(c, "raise") \/ Stands(c, "due")
          /\ tasks' = Settled(c, "failed")
    /\ tree' = ToolAnswers(r, c)
    /\ UNCHANGED <<asked, passedTests>>

-----------------------------------------------------------------------------
AskToCancel ==
    /\ ~asked.cancel /\ asked' = [asked EXCEPT !.cancel = TRUE]
    /\ UNCHANGED <<tree, tasks, passedTests>>

PauseOrResume ==
    /\ ~asked.cancel /\ asked' = [asked EXCEPT !.pause = ~@]
    /\ UNCHANGED <<tree, tasks, passedTests>>

LoopStep(r) ==
    \/ StopLoop(r) \/ CancelLoop(r) \/ CallModel(r) \/ CancelModelCall(r)
    \/ FailModelCall(r) \/ FinalAnswer(r) \/ Refuse(r)
    \/ \E bash \in BOOLEAN : RunTool(r, bash)
    \/ \E c \in RunIds : \/ CreateTask(r, c) \/ Accept(r, c)
                         \/ \E isLoop \in BOOLEAN : Spawn(r, c, isLoop)
    \/ \E c \in RunIds : \/ SpawnTask(r, c) \/ SpawnNothing(r, c)
                         \/ SpawnDirect(r, c) \/ SettleSpawned(r, c)
                         \/ SpawnBreaks(r, c)
    \/ EndSpawned(r) \/ SpawnFails(r) \/ EndAttempt(r) \/ CompleteLoop(r) \/ Unwind(r)

DelegationNext == (\E r \in RunIds : LoopStep(r)) \/ AskToCancel \/ PauseOrResume

DelegationSpec == DelegationInit /\ [][DelegationNext]_delegationVars

\* The thread is scheduled, and a backend answers or fails in the end.  The
\* operator is under no obligation to resume what is paused.
DelegationFairSpec ==
    DelegationSpec /\ WF_delegationVars(\E r \in RunIds : LoopStep(r))

-----------------------------------------------------------------------------
TreeRuns ==
    [status : {"absent", "running"} \cup Ended, caller : 0..MaxRuns,
     spawned : BOOLEAN, depth : Nat, loop : BOOLEAN,
     at : {"none", "step", "call", "spawn", "wait", "tool", "due", "attempt",
           "complete", "returned", "raise", "gone"},
     step : 0..LoopSteps, calls : Nat, bash : Nat]

DelegationTypeOK ==
    /\ tree \in [RunIds -> TreeRuns]
    /\ tasks \in [RunIds -> TaskStates]
    /\ asked \in [cancel : BOOLEAN, pause : BOOLEAN]
    /\ passedTests \subseteq RunIds

\* A run that is done waits for nothing any more: every child is out of its
\* frame, its task is closed and its row has ended, though one step of a
\* delegation or of spawn_subagent can fail after another has been written
\* (orchestrator.py:1096-1190, tools.py:602-681).  A row that stays running is
\* that of a child of spawn_subagent, which swallows what the child raised
\* (tools.py:668): its task, if any, is failed.  A task whose child was never
\* started because the registry had lost its run id stays created.
DoneLeavesNothing ==
    \A r \in RunIds : tree[r].status = "done" =>
        \A c \in ChildrenOf(r) :
            /\ tree[c].at = "gone" /\ tasks[c] \notin {"created", "assigned"}
            /\ tree[c].status = "running" => tree[c].spawned /\ tasks[c] # "completed"

\* A task is completed only for a child that is done and, unless the tool
\* spawn_subagent created it, whose acceptance tests passed.
CompletedWasAccepted ==
    \A c \in RunIds : tasks[c] = "completed" =>
        tree[c].status = "done" /\ (tree[c].spawned \/ c \in passedTests)

\* A loop overruns each limit of its budget by one call at most, refused calls
\* and delegations in between included (budget.check compares with >).  Each
\* run of a tree has a budget of its own.
BudgetOverrunByOne ==
    \A r \in RunIds : tree[r].calls <= MaxToolCalls + 1 /\ tree[r].bash <= MaxBashCalls + 1

\* A cancel ends the whole tree, wherever it stands, paused or not.
CancelEndsTree == asked.cancel ~> \A r \in RunIds : tree[r].at \in {"none", "returned", "gone"}
=============================================================================
