# A verification development of Orchestro in TLA+

Orchestro (`src/orchestro`) is a local orchestrator for language-model
backends: a shell (`cli.py`), a full-screen interface (`tui.py`) and an HTTP API
(`api.py`) over one SQLite database (`db.py`).  A *run* sends a goal to a backend
under a *strategy* (`orchestrator.py`); a *background job* is a run in a worker
thread that operators cancel, pause, resume, feed and approve.  All parts meet in
the database: there is no other channel between a worker and the processes that
steer it.

This directory holds TLA+ modules that model the code, TLC configurations that
check them on small instances, and proofs that TLAPS checks for all values of the
constants.  `PROJECT.json` lists components, runs, hazards, findings, theorems,
and for every definition the source lines it stands for.  In this file, bare file
names are those of `src/orchestro` and `docs`.

## 1. Inventory

For each part: its state; its operations; whom it meets; what is hard; what makes
it correct.

| Part | State | Operations | What is hard | What makes it correct |
|---|---|---|---|---|
| **Background jobs** (`cli.py` `do_bg`, `_spawn_background_job`, `_approve_tool_for_job`; `orchestrator.py` `execute_prepared_run`; `db.py` `*shell_job*`, `*approval*`) | `shell_jobs`, `shell_job_inputs`, `approval_requests`, `runs.status`, the pattern file `tool_approvals.json`; locals of a thread per job | start, dispatch, cancel, pause, resume, inject, approve, deny, settle | worker and operators share rows without transactions around read-then-write; operators are several processes; threads are daemons | one truthful outcome; a request to stop is honoured; a tool runs only under a grant; no note lost or repeated; jobs end |
| **Event log** (`db.py` `append_event`, `append_plan_event`, `append_shell_job_event`) | `run_events`, `plan_events`, `shell_job_events` | append, list | sequence numbers from `MAX + 1` by concurrent writers | per owner, the numbers are 1, 2, 3, … |
| **Plans** (`db.py` 1624-1997, `planner.py`, `cli.py` `do_plan_*`, `api.py`, `tui.py`) | `plans`, `plan_steps`, the cursor `current_step_no` | create, insert, edit, drop, replan, select, run a step, advance | step numbers shift while a worker runs a step; ids derive from numbers; cursor and rows are written separately | the cursor names the step meant; done means executed; numbers are dense |
| **Run lifecycle, retry, recovery** (`orchestrator.py` 131-660, `recovery.py`) | `runs`, the attempt counter | start, attempt, retry, reroute, complete, fail | an exception between two statements; retry of what was done | a run ends once; attempts are bounded; each failure gets the recipe's next step |
| **Tool loop, delegation, tasks, budget** (`orchestrator.py` 700-1250, `tasks.py`, `budget.py`) | locals of the loop, child runs, `tasks`, budget counters | step, tool, delegate, verify acceptance | nested runs share the job's approval and cancel callbacks | a child ends before its parent; depth and budget hold; an assigned task is settled |
| **Strategies** (`orchestrator.py` 1700-1990, `verifiers.py`, `quality.py`) | locals, the quality level of the run | self-consistency, critique-revise, debate, verified, plan-execute | partial failure of one sample or verifier | the quality level recorded is the one reached |
| **Embedding queue** (`db.py`, `embeddings.py`, `EmbeddingWorker` of `scheduler.py`) | `embedding_jobs`, vectors | enqueue, embed, mark | content changes while a vector is computed | the vector belongs to the current content |
| **Backend routing and cooldown** (`routing.py`, `backend_profiles.py`) | a dictionary of cooldowns in memory, profiles | select, mark unavailable, expire | several threads read and expire it | no automatic selection of a backend that cools down while another serves |
| **Scheduler** (`scheduler.py`) | `scheduled_tasks` | match a cron line, poll, run (nothing starts the loop) | boundaries of calendar fields | a task is due exactly in the minutes its line allows |
| **MCP and LSP clients** (`mcp_client.py`, `lsp_client.py`) | one pipe per server, a read buffer, the tools listed | start, request, reply, time out, stop | notifications and late replies on one pipe; a start that fails half way | the tools of a server are its answer; no process is left |
| **Escalation** (`escalation.py`) | none | send on a channel | a channel that fails | - |
| **Trust, policies, plugins** (`trust.py`, `policies.py`, `plugins.py`) | registries | classify, decide, run hooks | precedence of rules | deny wins; a tier is monotone |
| **Compaction, retrieval, collections, facts, corrections** | text, vectors, `collection_*` tables and their full-text index | compact, rank, ingest, delete, search | deletion meets ingestion; row ids are reused under the index | every chunk is found by its words, and by no others |
| **Screen** (`tui.py`) | lists read at the last refresh, indices into them, widgets, an editor with its context, a thread per goal | refresh, select, edit, save, command, submit | rows come and go under an index that stays; widgets open over one another | a command acts on what is drawn; a text goes back where it came from |
| **Subprocess backend** (`backends/subprocess_command.py`) | a process and its pipe | start, stop, continue, terminate | signals racing exit, a pipe nobody reads | no process outlives its run; a cancel ends it |
| **Benchmarks, training, mesh feedback** (`bench.py`, `training_export.py`, `mesh_feedback.py`) | files of cases and summaries | evaluate, compare, export, rate | missing runs, ratings out of order | figures add up; a preferred answer is rated better |
| **HTTP backends, other tools, configuration** | none shared | format, parse, print | - | pure input and output |

How they interact.  The shell inserts a `shell_jobs` row and starts a daemon
thread.  The thread creates a run, links it, and drives the tool loop or the
attempt loop; between operations it reads `shell_jobs.status` (cancellation) and
`shell_jobs.control_state` (pause) and consumes `shell_job_inputs`.  A
confirm-tier tool call asks the pattern file, and if no pattern covers it inserts
an `approval_requests` row, pauses its own job and polls.  Operators, in the same
or in other processes, write those rows.  When the run returns the worker re-reads
`runs.status` and settles the job.

## 2. Plan

1. **JobStore, JobWorker, JobOperators, ShellJobs**, the abstract specification
   **RunPromise**, and proofs: background jobs are where Orchestro's concurrency
   is.  *Done (sections 3, 4 and 9).*
2. **Plans**: rows, cursor, edits, a step under way in a thread; **PlansProofs**.
   *Done (sections 4a and 9).*
3. **RunRecovery, Strategies, Delegation**: what happens within a run; **RunProofs,
   DelegationProofs**.  *Done (sections 5 and 9).*
4. **EventLog, EmbeddingQueue, Collections, McpServers, BackendProcess**: the
   services around the runs; **ServicesProofs**.  *Done (sections 6 and 9).*
5. **Screen**: the full-screen front end over the tables; **ScreenProofs**.  *Done
   (sections 6a and 9).*
6. **ToolPolicy, Schedules, Routing, Retrieval, Reports, Chunks, Verifiers**: pure
   algorithms against reference definitions.  *Done (section 7); theorems about
   ToolPolicy.*
7. Theorems: every invariant and every action property that a passing run checks is
   a theorem (section 9).  The liveness properties are checked by TLC only.  *Open:*
   what the algorithms of section 7 compute, as far as it needs no induction.

Conventions that keep modules provable: parameters are CONSTANTS with a named
assumption, one action per statement or operation, no RECURSIVE operator in a
module with, or under, a theorem (recursion is a recursive function, as in
`EmbeddingQueue!Among`); mutants of an action stand before it.

## 3. Background jobs: modules and code

| Module | What it is | Code |
|---|---|---|
| `JobStore` | the rows and the pattern file, one operator per SQL statement | `db.py` 775-981, 1210-1595; `approvals.py` |
| `JobWorker` | the worker thread of a job, one action per database access or backend operation | `cli.py` 480-605, 2614-2776; `orchestrator.py` 131-343, 441-657, 700-1084, 1992-2052 |
| `JobOperators` | shell sessions, screens and API clients, one action per statement of a command | `cli.py` 807-906, 1819-1853, 1931-1993, 2778-2810; `api.py`; `tui.py` |
| `ShellJobs` | their interleaving, fairness, and the properties | |
| `RunPromise` | what a job promises: one outcome, tools under a grant | |
| `MCShellJobs` | its instance for TLC: jobs, operators, calls and notes are interchangeable | |
| `ShellJobsTypes` | proof of type correctness and that nothing is asked twice | |
| `ShellJobsSafety` | proof of refinement and the remaining safety properties | |

**Granularity.**  `OrchestroDB` opens a connection per method, and Python's
`sqlite3` starts a transaction at the first write only.  So a method that SELECTs,
decides and then UPDATEs is two atomic steps, and so it is modelled:
`StartCancel` is the SELECT of `request_shell_job_cancel` and `CancelWrite` its
UPDATE; `SelectInputs` and `MarkInputs` are the two halves of
`consume_pending_shell_job_inputs`; `do_pause` of the shell is `StartPause`,
`PauseWrite` and, because it also writes `status`, `PauseMark`.  Two statements are
merged only where no other writer can come between them (`Ask`: only the worker
inserts requests of its job).

**State.**  `job`, `run`, `requests`, `inbox` are the rows, `allow` the calls the
pattern file covers (a pattern is its set of calls).  `pc[j]` is the statement the
thread of job `j` executes next and `frame[j]` its locals: the step, the call
under way, the request it waits on (`ticket`), the notes its SELECT returned
(`taken`), whether the subprocess is stopped.  `op[o]` is the command an operator
is in, with what it read.  `since`, `delivered`, `ran`, `granted` are history: no
action's guard reads them.

**Choices of the environment** are disjuncts: what a backend returns
(`FinalAnswer`, `RequestTool`, `OtherAction`, `BackendFails`), whether `start_run`,
a plugin hook, a tool, the handler of a failed attempt, or the git snapshot that is
taken of an ended run raises, the calls an operator's pattern covers, the moment the
shell exits (`ShellExit` kills every live thread: they are daemons) or an
operator's process ends (`OperatorExit`).

**Left out.**  Delegated child runs inside the worker (they access the same
rows; `Delegation` has them by themselves); `shell_job_events` and `run_events` (written, and no decision reads
them back); a raise of the database itself (locked, disk full); the time between
opening and writing `tool_approvals.json` (the write is one step, the read before
it another); the strategies other than the tool loop and the attempt loop; the
grace period of `/bg`, which only delays a step.

## 4. Runs

Every pass run sets `CHECK_DEADLOCK FALSE`: jobs end, the commands of an operator
run out, and the system then has nothing left to do.

| Run | Bounds | Distinct states | Question |
|---|---|---|---|
| `ShellJobsControl` | 1 job, 2 operators with 2 commands, 2 steps, 1 note, both strategies, both backends, both origins | 1,112,035 | Does the job row ever contradict its run (`StatusTellsOutcome`)?  Does a paused or cancelled tool loop begin more than one further operation (`StopsWithinAStep`)?  Is a note ever handed to the loop twice (`NoNoteTwice`)? |
| `ShellJobsApprovals` | 1 job, 2 operators with 2 commands, 2 steps, 1 call | 864,145 | May a call run on a denied request (`ApprovedBeforeRun`), a request change its decision (`DecisionFinal`), a pending call be asked about again (`NoDuplicateRequest`)?  Does the system implement `RunPromise` (`KeepsPromise`)?  Do all values keep their domains (`TypeOK`)? |
| `ShellJobsLive` | 1 job, 1 operator with 3 commands, 2 steps, both strategies and backends | 222,810 | Does a standing cancellation stop the worker (`CancelReachesWorker`)?  Does a job that stays resumed and answered end (`ResumedJobEnds`)? |

**Why the bounds are enough.**  A job touches only its own rows and the pattern
file, and what other jobs do to the file an operator with a stale copy does as
well; two jobs are covered by the proofs.  A race needs two commands in flight,
hence two operators, and a command after it, hence two commands each.  A second
step is needed to ask again after a cancelled wait, to begin an operation after a
pause and to consume a note again.  The safety properties of these runs are
moreover proved for all values (section 9).

**Fairness** (`FairSpec`).  Weak fairness of a worker's steps: its thread is
scheduled and none of its statements blocks on another thread.  Strong fairness
of `BackendReturns`: an operation that keeps being unstopped ends; SIGSTOP
suspends it, so weak fairness would not be enough and an unconditional promise
would be too much.  Weak fairness of a command under way.  No fairness of
beginning a command, of `ShellExit` or of `OperatorExit`: nobody needs to cancel,
approve or quit, and a job waiting for an answer that never comes waits for ever,
as in the code (`AwaitsDecision` is excluded in `ResumedJobEnds`).

## 4a. Plans

`Plans` models one plan: `rows` are its `plan_steps`, `plan` its status and cursor,
and `act[a]` the command an actor (a thread of `/plan_run` or `/plan_bg`, a shell
session, a screen, an API client) is in, with what it has read.  `MCPlans` is its
instance for TLC.

| Actions | Code |
|---|---|
| `Init` | `create_plan` |
| `StartRun`, `BeginPlan`, `BeginStep` | `_prepare_plan_step_run` |
| `EndRun` | the run in `do_plan_run`, `do_plan_bg`: done, not done, or an exception of the thread |
| `MarkEnd`, `BlockAfterFailure`, `FinishPlan` | `_finalize_plan_step_run` |
| `AdvanceCursor`, `AdvanceNext`, `AdvanceWrite` | the three statements of `advance_plan`, for a thread and for the screen |
| `StartInsert`, `InsertWrite` | the SELECT and the transaction of `insert_plan_step` |
| `StartDrop`, `DropWrite` | the SELECT and the transaction of `delete_plan_step` |
| `StartSelect`, `SelectWrite`, `StartAdvance`, `BlockPlan` | the screen |
| `StartReplan`, `Replace` | `replan_plan_from_step`; the draft of the backend comes between |
| `ActorExit` | a session or a daemon thread ends between two statements |

A step's `id` is a pair: the number and the time of which the code makes it.  The
loops of UPDATEs are given by their result: `Shifted` is the number of a row once
the loop of `insert_plan_step` has come down to `n`, and `ShiftClashes` says that
one UPDATE of it meets the UNIQUE constraint, so that the transaction is undone
(`Refuse`).  `uid` and `executed` are history: which step a row is, and which steps
were executed.  The texts of the steps, and so the commands that only edit a text,
are left out (`Screen` has their editing), and `plan_events`.

| Run | Bounds | Distinct states | Question |
|---|---|---|---|
| `PlansAlone` | 1 actor, drafts of 1 or 3 steps, 4 numbers, 5 steps in all | 350,997 | One session at a time that runs steps, inserts behind the cursor, drops and replans, and may end anywhere: is what lies before the cursor done (`EarlierStepsDone`), what is marked done executed (`DoneWasExecuted`), a plan declared done only when its steps are (`DoneWhenAllDone`), and can a plan with steps always be resumed (`KeepsItsPlace`)? |
| `PlansShared` | 2 actors, drafts of 2 steps, 3 numbers, 4 steps in all | 475,718 | Inserts, drops, selections, advances and replannings of two sessions interleave: does a drop keep the cursor on its step (`DropKeepsCursor`), and can an insertion that renumbers by what it read, or a replanning that makes ids of numbers again, give two steps one number or one id (`TypeOK`)? |

The bounds let an insertion and a replanning meet a plan of three steps with the
cursor before, on and behind them; a number is reached by shifting, by insertion
and by replanning, and a step beyond the fifth repeats one of these.  There are no
bounds on the number of commands.  Insertions at numbers below 0 are left out.  A
draft has a step at least (`planner.py` 63 falls back on one of its own) and fits the
bounds (`PlanAssumption`).  Section 9 has proofs of all these properties, for any
bounds.

`PlansAlone` is as much as the code keeps: nothing locks a plan against a second
thread or session.  In particular `DoneWasExecuted` says nothing of a step that
another session renumbers while its run is under way, since that cannot happen in
this run: the code then marks the step that has the number by then.  Section 8 has
this and what else two sessions, and a plan emptied or replanned, lead to.

## 5. What happens within a run

Three modules model what `JobWorker` takes as one operation.  They share no
variable, and `MCRunKinds` explores them in one run of TLC: its variable `part`
says which of the three a behaviour is about, the other two stand still, and so
the states are the sum of the three and not the product.

| Module | What it is | Code |
|---|---|---|
| `RunRecovery` | the attempt loop of the runs of one process: automatic choice of a backend, rerouting, recipes; they meet in the dictionary of cooldowns | `orchestrator.py` 122-323, 437-672, 2054-2078, 2232-2254; `recovery.py`; `backend_profiles.py` 223-515 |
| `Strategies` | self-consistency, critique-revise, debate, plan-execute, verified, up to the quality level; a cancel and a rating at any time | `orchestrator.py` 325-436, 1257-1963, 2299-2342; `quality.py` |
| `Delegation` | the tool loop, its budget, the tree of child runs in one thread, their tasks | `orchestrator.py` 682-842, 961-1256; `budget.py`; `db.py` 2158-2250; `tools.py` 602-681 |

A raise is a step where the code lets one through.  In `RunRecovery`: while a run is
started, before and after `create_run`; in the handler of a failed attempt, at the
date of a quota error and at the choice of another backend; and in the git snapshot
that the `finally` takes of an ended run.  In `Delegation` a child raises in any of
these ways, so that its row has failed, is running or is even done; a delegation
lets the exception through, and `spawn_subagent` swallows it.  Left out are a raise
of the database, KeyboardInterrupt, the end of the process (which leaves every row
as it stands), and a base URL in a profile that is none.

`RunRecovery`: `row[r]` is the run's row, `loop[r]` the locals of
`execute_prepared_run`, `cooldown` the dictionary `_TEMPORARILY_UNAVAILABLE`.
Reading the dictionary and popping what is over are two steps, as in
`get_backend_cooldown`: another run may mark a backend between them.  An error is
what the code makes of its text - does it read like a quota, and which failure
category is it - and a hint in the goal may pick any candidate.

`Strategies`: a response is one of three texts, two of which are the same up to
case; a verdict is a number of errors.  `work` holds the locals and, in `got`, the
responses so far.

`Delegation`: `tree[r]` is the row of run `r` with the frame of its thread, from
`step` over `wait` or `tool` (its child, delegated or spawned, is at work) to `returned`, or `raise`, which unwinds
through the parents as an exception does.  `asked` is what the callables
`cancel_requested` and `control_state` return, handed down the tree.

| Run | Bounds | Distinct states | Question |
|---|---|---|---|
| `RunKinds` | 2 runs, one of which may recover, 2 backends, 2 failure categories; 3 samples, 3 plan steps, 2 errors; 3 runs in a tree of depth 2, 3 steps a loop, a budget of 1 tool call and 0 bash calls | 273,333 | Is the number of attempts bounded and told by the row (`AttemptsBounded`), the row of a thread that is through settled but for the raises named there (`EndsSettled`), and does every run end (`RunComesToAnEnd`)?  Does replanning keep to the budget (`PlanKeepsToItsBudget`), a cancelled run stay cancelled (`CanceledStaysCanceled`), a majority win (`MajorityWins`), the best attempt come back (`BestAttemptIsKept`)?  Does a run that is done leave an open task, or a running child that `spawn_subagent` did not swallow the exception of (`DoneLeavesNothing`), is a task completed without its tests (`CompletedWasAccepted`), by how much is a budget overrun (`BudgetOverrunByOne`), does a cancel end the whole tree (`CancelEndsTree`)? |

Two backends let a run be rerouted, come back and run out of backends; two runs are
needed for one to mark what the other is about to call.  The two categories have
the recipes that go back to a backend and that change it.  Three samples are the
fewest with a majority, three plan steps the fewest that can be replanned twice.
Three runs have a child of a child, or two children of one parent; three steps a loop
let a loop run over its budget of tool calls before it is out of steps, and go on
after two children.  The
safety properties are proved for all values in section 9, `MajorityWins` for up to
three samples.

Fairness: the thread of a run or of a tree is scheduled, and a backend answers or
fails in the end: the HTTP and agent backends limit the time of every request, and a
process ends or is cancelled.  Nobody owes a
resume: `CancelEndsTree` must hold in a paused tree as well.

## 6. The services around the runs

`MCServices` explores five modules in one run, with `part` as above.

| Module | What it is | Code |
|---|---|---|
| `EventLog` | writers that take `MAX + 1` under `BEGIN IMMEDIATE`, time out on the lock or roll back; the operator who rates an event by its place in a listing | `db.py` 610-619, 813-883, 2308-2373; `cli.py` 2166-2205 |
| `EmbeddingQueue` | the queue of jobs, drained by worker threads and by commands that know nothing of each other | `db.py` 2567-3143, 3557-3603; `scheduler.py` 144-233; `cli.py` 3530-3569 |
| `Collections` | chunks and their full-text index without content, under ingestion and deletion | `db.py` 324-346, 3145-3303; `collections.py` 65-118 |
| `McpServers` | servers that a status request starts, asks for their tools and stops | `mcp_client.py` 25-196 |
| `BackendProcess` | the process of the subprocess backend and the thread that polls it | `orchestrator.py` 1999-2052; `backends/subprocess_command.py` |

Each method of the database is as many steps as it has statements another
connection can come between, as in section 3.  `McpServers` keeps apart the pipe of
the operating system, for which the client waits, and its own read buffer, from
which it takes the next message.  `EmbeddingQueue` keeps the jobs in
the order of their rows; a drain takes those that are pending `Among` them.
`BackendProcess` has a command that may ignore SIGTERM, block on a full pipe, or leave a helper that keeps the pipe open.

| Run | Bounds | Distinct states | Question |
|---|---|---|---|
| `Services` | 2 writers, 2 runs, 3 events each; 2 sources, 2 models, 1 worker, 1 command, batches of 2, 1 locked statement; 2 collections, 2 ingests, 2 row ids, files of at most 1 chunk; 2 servers, 2 notifications; 2 pieces of output, a pipe for 1 | 344,519 | Are the numbers of events dense and do listed events keep their places (`EventsKeepTheirPlaces`)?  Has an indexed job its vector (`IndexedHasVector`), is every job settled (`EveryJobSettles`)?  Is every chunk found by its words (`EveryChunkIsFound`)?  Are the tools of a server its own answer (`ToolsAreTheAnswer`), is a process left behind (`NoProcessIsLeft`), does a cancel end the process of a backend (`CancelEndsProcess`)? |

The second writer and the second run show that a lock on one run's events blocks the
other; the second row id that one is reused; the third event that a rating falls
between two appends.  Two models matter as vectors are kept by source alone.

Fairness: the worker's thread and the polling thread are scheduled, and an
embedding call answers or fails.  Commands and the child process owe nothing.
`EveryJobSettles` excepts a worker whose thread has ended, as a tick that finds the
database locked ends it for good, and a worker whose provider of embeddings cannot
be built, as it then skips every tick (`SkipTick`; section 8).  `IndexedHasVector`
speaks of a vector of the source: it may be that of a drain of another model, and a
search with the first model then does not find it.

## 6a. The screen

`Screen` is `OrchestroTUI`: `ui` holds its attributes and widgets, and one action is
one handler of the UI thread, with the refresh it ends in.  `order`, `steps` and
`cursor` are the tables it lists; the other front ends write to them between two
refreshes.  `goal` is the thread that executes what was typed, which posts its
callbacks to the UI thread and waits for them.  Of a row the model keeps its
identity, of a plan its numbered steps.  `commanded` and `edited` are history: the
rows the last handler wrote.  A command on a step, to drop or select it by the number
typed, is in `commanded` with its plan, so that a number gone stale since it was drawn
is not seen there.

| Run | Bounds | Distinct states | Question |
|---|---|---|---|
| `Screen` | five scenarios (requests with a view of integrations; jobs under review; sessions with a goal; a plan; runs and their activity with two goals), 1 or 2 writes by others, a strip of 2 buttons, lists of 1 to 3 rows | 114,496 | Do selection, widgets and flags agree, is there always a widget that takes input (`ScreenTypeOK`)?  Does a command write to the row that is drawn as selected (`WritesWhatIsDrawn`)?  Does a text go where it was loaded from (`SaveGoesWhereItWasOpened`)?  Does the screen get over every goal (`BusyEnds`)? |

A scenario fills the lists it is about, so that each list is looked at without the
product of all; a list holds one row more than is read, or a row may arrive.
`ScreenAssumption` says what a scenario is: a table has a row once, the steps of a
plan are numbered as `create_plan` numbers them, and ids that are to be given later
are not in use.
Fairness: the thread of the goal and the callbacks on the UI thread are scheduled,
and a run ends, which `RunRecovery` and `Delegation` show.

## 7. Algorithms

These modules have no state.  They translate functions of the code, and each
`ASSUME` compares the translation with what the function is for, over bounded
inputs; TLC evaluates them at the start of the run `Services`, whose MC module
extends them all.

| Module | Code | Compared with |
|---|---|---|
| `ToolPolicy` | the way of a tool call through plugins, policies, trust tiers, corrections and consent (`orchestrator.py` 843-1017, `trust.py`, `policies.py`, `correction_aware.py`, `tools.py` 261-279) | the documented order of overrides; and theorems (section 9) |
| `Schedules` | `parse_cron`, `cron_is_due`, the choice of a tick (`scheduler.py` 34-118) | single values at both limits, the weekday, unions of ranges |
| `Routing` | `collect_routing_stats`, `suggest_backend` (`routing.py` 81-198) | counts of rows; no better candidate passed over |
| `Retrieval` | providers, `_dedupe_hits`, the sections of a context (`retrieval.py` 79-218) | the first of each source and shape, in order |
| `Chunks` | paragraph and Markdown chunks (`collections.py` 17-62), `compact_tool_state` (`compaction.py`) | nothing lost, nothing joined needlessly; the recent entries kept |
| `Verifiers` | quotes and parentheses of SQL, the sums of bookkeeping (`verifiers.py` 115-404) | removal of quoted text; running sums |
| `Reports` | rating for the mesh, benchmark evaluation and comparison, training pairs, escalation channels (`mesh_feedback.py`, `bench.py` 216-587, `training_export.py`, `escalation.py`) | monotony, symmetry, sums, order of preference |

## 8. Where the code does something else than the repository says

Each of these runs checks one statement quoted from the repository, and TLC finds
the interleaving that breaks it.  Each is small enough to be replayed by hand.

| Run, property | What happens |
|---|---|
| `ShellJobsCancelLost`, `CancelStands` | `/pause` or `/resume` after `/cancel` overwrites `cancel_requested`, which is the only trace of the request; the job runs on. |
| `ShellJobsNoteLost`, `ConsumedIsDelivered` | a note inserted between the SELECT and the UPDATE of the consumption is marked consumed and never reaches the loop. |
| `PlansTwoRunners`, `NothingSkipped` | the same step runs in two threads, and both advance the plan: the next step is passed over. |
| `CollectionSearch`, `SearchFindsOnlyWhatMatches` | a collection is deleted but its postings are not; another chunk takes the row id and is found by words it does not have. |

What else the models follow the code in, where a reader might expect something
else.  No run is about these; the properties are stated so as to hold beside them.

- *Jobs.*  A tool loop that is cancelled raises after `cancel_run`, and its worker
  marks the job `failed` (`orchestrator.py` 740); `StatusTellsOutcome` speaks of
  `done` and `canceled` only.  The attempt loop on a backend without a process does
  not look at a pause; `StopsWithinAStep` speaks of tool loops only.  A request
  answered before the worker's own pause is written leaves the job paused
  (`cli.py` 2760), and so does one answered from the screen or in a review, which
  neither resume the job nor remember a pattern (`tui.py` 4037).  An operator who read
  the status before the worker wrote `done` writes `cancel_requested` over it
  (`db.py` 1375), and there it stays.  A plugin hook that aborts fails the run and
  returns, and the job reads `done` (`orchestrator.py` 323).  An automatic tool that
  raises leaves the run `running`, and a git snapshot that raises makes the job of an
  ended run `failed`.
- *The tool `spawn_subagent`.*  The run a tool call belongs to is one attribute of
  the registry (`tools.py` 275), shared by the threads of all jobs, and read at
  several places of one call.  With two jobs at work a child and its task may get
  the other job's run for a parent, which the model leaves out; or the task is
  created and its child is not, because another call ended between the two reads,
  which it has (`SpawnNothing`).  Such a task stays `created`, so `DoneLeavesNothing`
  speaks of tasks with a child.  The tool does not run acceptance tests, and
  gives the child no way to see a cancel.  Whatever a child raises it swallows
  (`tools.py` 668): where that left the child's row `running`, the parent goes on, and
  may be done over it (`DoneLeavesNothing` allows it such a child, with its task not
  completed).
- *Plans.*  Drop step 1 of three and replan from 2: the renumbered step still has
  the id `plan:2`, and the insertion of a new one raises (`db.py` 1921).  A step
  inserted into an emptied plan gets number 2 while the cursor is 1 (`db.py` 1810),
  and an insertion takes any number at all.  The other cases need two sessions.
  Renumber the steps while one of them runs, and its thread marks the one that
  has the number then (`cli.py` 1687).  Append a step between the reads of
  `advance_plan`, and it is passed over, or the plan declared done over it (`db.py`
  1955).  Renumber while a
  backend drafts, and the draft replaces the steps from the old number on
  (`planner.py` 128).
- *Recovery.*  Two raises within the handler of a failed attempt leave the run
  `running`, and `EndsSettled` excepts both: a quota error whose text has a date that
  does not exist, as `31/12/2026` with the day first (`orchestrator.py` 489,
  `backend_profiles.py` 421-424), and a choice of another backend that is reachable
  but not usable (`orchestrator.py` 569).  A start that raises after `create_run`
  leaves its row `running` as well.  `retry_same` calls a backend though it cools
  down.
- *Quality.*  A verified run that never passed is recorded `tool-verified`, against
  `borrowed-patterns.md` 621; and the level written after completion overwrites an
  operator's rating (`orchestrator.py` 361).
- *Delegation.*  A run out of budget is `done`, where `borrowed-patterns.md` 1061
  says failed; each child has a fresh budget; an exception of a child leaves its
  ancestors `running` and its task `assigned`.
- *Trust.*  `trust-and-security.md` 69-73 says that any deny wins.  Among the levels
  of trust it does (`AnyDenyWins`); but the built-in policy that approves `pwd`,
  `ls`, `read_file`, `rg` and `think` is asked before them and before any custom
  policy, so that a deny of one of these has no effect.  `load_trust_policy` takes any
  string for a tier (`trust.py` 28-37): one that is none counts as neither deny nor
  confirm, so that the tool runs unasked if it is an automatic one; on a confirm tool
  the registry raises a PermissionError that ends the run (`tools.py` 273).
- *Embedding.*  A locked database at the SELECT of a tick ends the worker's thread, and
  an unknown provider of embeddings makes it skip every tick (`scheduler.py` 195-199);
  either way jobs stay pending until a command drains them.  A
  drain may mark a job failed whose vector is stored; a vector is kept by its
  source, whatever model the job was for.
- *MCP.*  The process of a server whose start failed is left running; a reply is not
  matched with its request, so after a notification or a late answer the tools of a
  server may be anything (`ToolsAreTheAnswer` excepts such a server).
- *Self-consistency.*  Asked for five samples, two answers alike to the letter win
  over three that differ in case only (`orchestrator.py` 1333); `MajorityWins` is
  about the three samples that are the default.
- *Processes.*  A command that fills the pipe waits until it is cancelled, as nobody
  reads before it exits; a helper that keeps the pipe open makes a cancel without
  effect.
- *Screen.*  A button of the selector strip does nothing unless its row is the
  selected one; an emptied session title keeps the old one, though it is reported
  as updated; a palette command issued while the editor or the help is open closes
  that instead of the palette; the text of a failed run's live output is kept.  A text
  of the step editor goes to the step that has the number when it is saved, whichever
  was opened (`tui.py` 3306): this is the exception in `SaveGoesWhereItWasOpened`.
- *Reports and retrieval.*  `include_edits` is never read; ratings in routing are not
  those of the domain; a hinted backend that fails as often as not hides a good one
  that is not hinted (`HintsComeFirst`); asked for `lexical` or `semantic` alone,
  retrieval searches nothing (`DocumentsNeedAKind`); what a chunk has beyond the cap
  is lost.

## 9. Proofs

Every invariant and every action property of the passing runs is a theorem about
the specification those runs explore, for all values of the constants.  The way is
the same everywhere: an invariant that says what each label of a thread, frame or
command implies for the rows is shown to hold at first and under every action, and the
property follows from it.  Each such invariant was an invariant of the run first, so
that TLC found where it was not inductive.  The bounds of the models (`MaxRows`,
`MaxEvents`, ...) are constants like others, and a theorem holds for each value of
them.

| Module | About | Assumes of the constants |
|---|---|---|
| `ShellJobsTypes`, `ShellJobsSafety` | `ShellJobs` | `StoreAssumption` (`MaxSteps` is a positive natural, `NoCall` is no call), `OperatorAssumption` (`MaxCommands` is a natural); nothing of `Jobs`, `Operators`, `Calls`, `Notes`, not even that they are finite |
| `DelegationProofs` | `Delegation` | `DelegationAssumption`: bounds and budgets are naturals, there is a run and a step |
| `RunProofs` | `RunRecovery`, `Strategies`, and `MCRunKinds`, their sum with `Delegation` | `RecoveryAssumption`: finitely many backends, a recipe for each category; `StrategyAssumption`; for `MajoritiesWin` three samples at most |
| `ServicesProofs` | the five services, and `MCServices`, their sum | the assumption of each: bounds are naturals, the absent value is no value |
| `PlansProofs` | `Plans` | `PlanAssumption`: drafts fit the bounds; for three theorems `Alone`, for one `Alone \/ Unmoved` |
| `ScreenProofs` | `Screen` | `ScreenAssumption`: what a scenario is |
| `ToolPolicy` | the way of a tool call | nothing but the domains |

**What the provers leave open, and the ways round it.**  The library's induction
theorems take an operator as a parameter, which no installed prover instantiates.
Single inductions are done by a least counterexample instead: a set of naturals has
a least member (`WFMin` with `NatLessThanWellFounded`, which have no operator
parameter), and that one is refuted.  So `MinIsLeast`, `MaxIsGreatest` and
`LeastIsLeast` show that the choices of a smallest or largest number exist, `KeptExists`
that the recursive function in `EmbeddingQueue!Among` is one, `AmongKeeps` what it
keeps, and `PlansCanBeResumed` counts steps without a gap.

**`ShellJobsTypes`.**  `TypeOK` is not inductive: `NextStep` increments `step`
wherever a call ends, and only the labels tell that it was at most `MaxSteps`; a
poll reads the request its ticket names, which must exist.  `DomainInv` adds
`StepsCounted` (past the head of the loop the step is at most `MaxSteps`) and
`TicketHeld` (where the thread polls, the ticket is a step and that request was
made), and `NoDuplicateRequest`, which travels with them.  The preservation proof
has one lemma per group of actions (dispatch, head, operation, approval, end, each
command).

**`ShellJobsSafety`.**  Given `DomainInv`, each property has an invariant of its
own that relates the label of the thread to the rows:

- `RunFollowsWorker`: before `start` the run is absent, from `attach` to the end
  it is running, and at each `mark` label it has the status the label announces;
  with `GrantsKnown` (what is in the pattern file, or about to be run, was
  granted) this is the refinement: `Refines` is `Spec => KeepsPromise`.
- `OutcomeInv`: a row that reads `done` or `canceled` agrees with its run and
  links to it.  `RowTold` carries it: only the worker's last step writes a
  terminal status, and past `attach` every worker is linked.
- `StopInv`: in a tool loop the operations begun since a change of `control_state`
  or `status` are at most one, and none while the thread is at a label past the
  check of an unpaused, uncancelled row.
- `NoteInv`: a delivered note is consumed; a note the SELECT took is not
  delivered, and the thread holds taken notes only until its UPDATE.
- `RequestInv`: requests are made in the order of the steps, at most one a step,
  and at `recheck`, or at `runTool` with a ticket, that request is approved; the
  status guard of the UPDATE keeps it so.

Most steps change little, so the lemmas `WorkerKeeps`, `OperatorKeeps` and their
like say once what each family of actions leaves alone, and a proof of
preservation treats by name only the actions that touch its variables.

| Theorem | States |
|---|---|
| `Typed` | `Spec => []TypeOK` |
| `AskedOnce` | `Spec => []NoDuplicateRequest` |
| `Refines` | `Spec => KeepsPromise` |
| `DoneAndCanceledAreTrue` | `Spec => []StatusTellsOutcome` |
| `StopIsHonored` | `Spec => []StopsWithinAStep` |
| `NotesReachTheLoopOnce` | `Spec => []NoNoteTwice` |
| `DenialStands` | `Spec => []ApprovedBeforeRun` |
| `DecisionsAreFinal` | `Spec => DecisionFinal` |

**`DelegationProofs`.**  `TreeInv` says where the frames of one thread can stand.  The
status of a run goes with its place (`StatusFollowsFrame`); a spawned run has nothing
but its attempt (`SpawnedIsDirect`); the caller of a run that is present waits for it
(`CallerWaits`), and for no other (`OneChildPresent`), so that an exception unwinds
one frame at a time; a task stays open while its child is on the stack
(`TaskFollowsChild`); once it is gone, its task is closed and its row has ended, or is
running and the child a spawned one with its task not completed, unless the caller was
left by an exception and will not be done either (`GoneIsSettled`).
`BudgetHolds` says that a call is under way only within the budget: the check comes after the call, so one call
too many is the most there is.

| Theorem | States |
|---|---|
| `DelegationTyped` | `DelegationSpec => []DelegationTypeOK` |
| `NothingIsLeft` | `DelegationSpec => []DoneLeavesNothing` |
| `CompletedTasksWereAccepted` | `DelegationSpec => []CompletedWasAccepted` |
| `BudgetsHold` | `DelegationSpec => []BudgetOverrunByOne` |

**`RunProofs`.**  `RunsSound` is about the attempt loop.  `AttemptsArePaidFor` bounds it:
an attempt follows either a skip of one more backend or a recovery, and only the
first two attempts can be followed by a recovery; hence two attempts more than there are
backends, whatever the chain of quotas and failures.  `RowCountsAttempts` ties
`recovery_attempts` to the local counter, `RowFitsLabel` the status
to the label, and `EndFitsRow` the status to the way the thread came to its end, for
each place that can raise (`MayEnd`).  `WorkFits` is about the
strategies, with a conjunct for each kind:
`PlanFits` (steps made and to come stay within the budget, also after a replanning),
`SampleFits` (the choice is the majority's of the samples there are), `AttemptFits`
(the attempt kept is the one that passed or the first of the fewest errors).
`CanceledIsOver` carries `CanceledForGood`.  That the sum of the three modules keeps
the properties of each (`KindsTyped`) follows as each of its steps is a step of one and
leaves the others as they are.

| Theorem | States |
|---|---|
| `RecoveryTyped` | `RecoverySpec => []RecoveryTypeOK` |
| `AttemptsAreBounded` | `RecoverySpec => []AttemptsBounded` |
| `EndsAreSettled` | `RecoverySpec => []EndsSettled` |
| `StrategyTyped` | `StrategySpec => []StrategyTypeOK` |
| `PlansKeepToTheirBudget` | `StrategySpec => []PlanKeepsToItsBudget` |
| `TheBestAttemptIsKept` | `StrategySpec => []BestAttemptIsKept` |
| `MajoritiesWin` | `StrategySpec => []MajorityWins`, if `Samples <= 3` |
| `CanceledForGood` | `StrategySpec => CanceledStaysCanceled` |
| `KindsTyped` | `MCRunKinds!Spec => []KindsTypeOK` |

Three is the default of `consistency_samples`; with five the property is false
(section 8).

**`ServicesProofs`.**  One invariant per service.

- `LogSound`: the numbers of a run's events are 1 up to their count (`InSequence`); a
  writer past its SELECT holds the lock, and the number it holds is the next one still
  (`WriterKeeps`); what is shown is in the log, in its place (`ShownInPlace`).  The
  lock is needed: without it the number is stale at the INSERT.
- `EmbeddingSound`: the rows are those of the jobs that were queued, each once
  (`JobsFit`); a batch holds jobs that have a row, and a drain that is about to mark
  one has stored its vector (`DrainFits`); an indexed job has a vector (`VectorsFit`).
  A worker that skips its ticks has no batch.
- `ShelfSound`: who ingests has a collection to write to (`IntoNames`), and
  `EveryChunkIsFound` is inductive with it: a collection that is deleted takes its
  chunks along, and what it leaves in the index only adds hits.
- `McpSound`: servers start in turn and stop together (`InTurn`); no more is under way
  than two requests or answers and the notifications (`Fits`, which bounds pipe and
  buffer); and with a server whose traffic was not disturbed, just the one request or
  its answer is (`Conversation`).
- `GoneOnlyAfterExit`: the polling thread is through with a process that has exited.

| Theorem | States |
|---|---|
| `EventsAreInPlace`, `LogTyped` | `EventLogSpec => []EventsKeepTheirPlaces`, `[]EventLogTypeOK` |
| `IndexedIsFound`, `QueueTyped` | `EmbeddingSpec => []IndexedHasVector`, `[]EmbeddingTypeOK` |
| `ChunksAreFound`, `ShelfTyped` | `CollectionsSpec => []EveryChunkIsFound`, `[]CollectionsTypeOK` |
| `AnswersAreToTheQuestion`, `ServersTyped` | `McpSpec => []ToolsAreTheAnswer`, `[]McpTypeOK` |
| `NobodyIsLeft`, `ServicesTyped` | `MCServices!Spec => []NoProcessIsLeft`, `[]ServicesTypeOK` |

**`PlansProofs`.**  `PlanSound` holds for any number of actors and all commands: no two
rows share a number, an id or a uid, whatever UPDATE loops, refusals and replannings
meet (`TypeOK`, `HandedOut`), and what a command has read was a number and an id then
(`ActSound`).  That suffices for `DropsKeepTheCursor`.  The other four properties
are false with two actors who use any commands (section 8).  So their theorems assume
`Alone`: one actor at a time, with the commands of the run `PlansAlone` (run, insert
and replan at the cursor, drop anywhere), for all bounds and drafts.  `AloneSound` adds
that what it has read is still so (`Follows`).  `DoneIsExecuted` holds beyond that,
under `Unmoved`: any number of threads that run steps, select, advance and block under
each other, as long as nobody inserts, drops or replans; `MarksSound` says that the
number a run was begun with is still that of its step.
The last part of `AloneSound` needs counting: rows that are
numbered 1, 2, 3, ... stay so when the loop of an insertion shifts, when a
drop renumbers and when a draft replaces a tail.

| Theorem | States |
|---|---|
| `PlansTyped` | `Spec => []TypeOK` |
| `DropsKeepTheCursor` | `Spec => DropKeepsCursor` |
| `WorkProceedsFromTheFront` | `Spec => []EarlierStepsDone`, if `Alone` |
| `DoneIsExecuted` | `Spec => []DoneWasExecuted`, if `Alone \/ Unmoved` |
| `PlansEndDone` | `Spec => DoneWhenAllDone`, if `Alone` |
| `PlansCanBeResumed` | `Spec => KeepsItsPlace`, if `Alone` |

**`ScreenProofs`.**  `ScreenSound` says of the tables that a row is in a list once
(`Tabled`) and numbers are (`Numbered`), of the screen that each selection is within
its list and is what the panes draw (`SelectionFits`), that the widgets agree with
the editor and the palette (`WidgetsFit`), and that the editor knows by what name to
save (`EditorFits`).  The core is the lemma `Refreshed`: from whatever indices, view
and rows a handler leaves behind (`UiWell`), a refresh ends with selections that fit.
So a handler needs to be looked at up to its refresh only, and a command, which
runs before, meets a selection that is the one drawn.  Ids yet to be given occur
nowhere (`fresh`), so that a row that arrives is a new one.

| Theorem | States |
|---|---|
| `ScreenTyped` | `ScreenSpec => []ScreenTypeOK` |
| `CommandsHitWhatIsDrawn` | `ScreenSpec => WritesWhatIsDrawn` |
| `SavesGoHome` | `ScreenSpec => SaveGoesWhereItWasOpened` |

**`ToolPolicy`.**  Three theorems about the way of one call, over all combinations of
tiers, overrides, policy, plugin, correction, autonomy and consent.  They rest on no
assumption but the domains of these; an override may be a string that is no tier, as
`trust.json` is not validated.

| Theorem | States |
|---|---|
| `AnyDenyWins` | the tiers resolve to deny just when one of the four levels denies |
| `RunsOnlyAsAllowed` | a tool is handed to the registry only behind a policy, a tier that asks for nothing and no correction disputes, or consent |
| `RegistryRefusesUnknownTiers` | `ToolRegistry.run` refuses, of the calls handed to it, just those of a confirm tool whose override is no tier |

**Only model-checked:** the seven liveness properties (`CancelReachesWorker`,
`ResumedJobEnds`, `RunComesToAnEnd`, `CancelEndsTree`, `EveryJobSettles`,
`CancelEndsProcess`, `BusyEnds`): fairness is about ENABLED, which is out of the prover's
reach; what the algorithms of section 7 other than `ToolPolicy` compute (most fold
or recurse over their input, and induction over data is out of reach but for the
single inductions above); and the violations of section 8, which are
counterexamples.

## 10. Not modelled

- `lsp_client.py`: no entry point constructs a `ToolRegistry` with an `lsp_manager`.
- `tools/call` of the MCP client: `bridge_tools` has no caller outside the tests.
- The loop of `SchedulerLoop`: nothing starts it.  The expressions are in `Schedules`.
- The HTTP backends, the tools other than `spawn_subagent`, `bash_analysis.py`,
  `git_changes.py`, configuration and prompts: formatting, parsing and input and
  output, without shared state.
- Rows that are only created, listed and deleted (facts, scheduled tasks, sessions
  outside the screen, corrections beyond their embedding).
- Layout, trays, skins, status lines and palette history of the screen; parsing of
  the API's requests.  Its stream of a run's answer sends what the run has returned
  with (`api.py` 1310), so there is no concurrency to model in it.
- The composition of `JobWorker` with the modules of section 5: their product is out
  of TLC's reach.  They meet in `runs.status`, whose writers `JobWorker` has all,
  and in the callables a tree of runs is handed, which `Delegation` has.

## 11. Hazards

`PROJECT.json` lists each at its line with the properties that would catch it.  Eleven
have none, and a note that says why.  They are places where the code goes wrong in the
way feared, and no sentence of the repository says that it does not, so that there is
nothing a run could hold or refute: a terminal job status overwritten, a job left paused
by an answer from the screen, a job `done` over a run a plugin aborted, the run id that
all tool calls share, the renumbering of a step under its run, of a plan under
`advance_plan`, under a draft and under an open editor, the insertion at any number, the
worker that ends or skips its ticks, and the reply of an MCP server that is not matched
with its request.  The models take all these steps; the properties except them, and
section 8 lists each.
