---------------------------- MODULE RunRecovery ----------------------------
(***************************************************************************)
(* The attempt loop of execute_prepared_run: runs in the threads of one    *)
(* process, each calling a backend until it answers, rerouting when an     *)
(* automatically chosen backend is out of quota, and otherwise following   *)
(* the recovery recipe of the failure.  The runs meet in the dictionary    *)
(* _TEMPORARILY_UNAVAILABLE, which is read and written without a lock.     *)
(*                                                                         *)
(* An error is what the code makes of its text: whether it reads like a    *)
(* quota, and its failure category.  Prompts, models, events and the       *)
(* postmortem's text are left out.                                         *)
(***************************************************************************)
EXTENDS Naturals, FiniteSets, Sequences

CONSTANTS
    Runs,        \* runs of one process
    Reflecting,  \* those that may ask for the strategy reflect-retry
    Backends,    \* configured backends
    Fallbacks,   \* those decide_auto_backend falls back on without a hint
    Local,       \* those that need no health check (mock, subprocess-command)
    Categories,  \* failure categories that occur
    NoBackend    \* no backend

Recipes ==
    [backend_timeout     |-> <<"retry_same", "retry_different_backend", "escalate">>,
     backend_unreachable |-> <<"retry_different_backend", "escalate">>,
     context_overflow    |-> <<"compact_context", "retry_same", "escalate">>,
     tool_crash          |-> <<"retry_same", "simplify_strategy", "escalate">>,
     approval_timeout    |-> <<"escalate">>,
     workspace_conflict  |-> <<"escalate">>,
     general_failure     |-> <<"retry_same", "abandon">>]

ASSUME RecoveryAssumption ==
    /\ Categories \subseteq DOMAIN Recipes
    /\ Reflecting \subseteq Runs
    /\ Fallbacks \subseteq Backends /\ Local \subseteq Backends
    /\ NoBackend \notin Backends
    /\ IsFiniteSet(Backends)

VARIABLES
    row,         \* runs: status and recovery_attempts
    loop,        \* locals of the thread of each run
    cooldown     \* _TEMPORARILY_UNAVAILABLE: what the entry of a backend says

recoveryVars == <<row, loop, cooldown>>

Retries == {"retry_same", "retry_different_backend", "compact_context", "simplify_strategy"}

\* Mutant: a recipe starts over when it is used up.
StepForFailureAgain(category, index) ==
    Recipes[category][(index % Len(Recipes[category])) + 1]

StepForFailure(category, index) ==
    IF index < Len(Recipes[category]) THEN Recipes[category][index + 1] ELSE "abandon"

RunEnds == {"done", "failed", "canceled"}
Purposes == {"start", "reroute", "recover"}

Rows == [status : {"absent", "running"} \cup RunEnds, recoveries : Nat]
Locals ==
    [at : {"new", "read", "pop", "pick", "create", "call", "failed", "ended"},
     auto : BOOLEAN, reflect : BOOLEAN, backend : Backends \cup {NoBackend},
     skipped : SUBSET Backends, attempt : Nat, purpose : Purposes,
     over : SUBSET Backends, seen : SUBSET Backends,
     ended : {"no", "returned", "raised"}]

Fresh == [at |-> "new", auto |-> FALSE, reflect |-> FALSE, backend |-> NoBackend,
          skipped |-> {}, attempt |-> 0, purpose |-> "start", over |-> {},
          seen |-> {}, ended |-> "no"]

At(r, l) == loop[r].at = l
Goto(r, l) == loop' = [loop EXCEPT ![r].at = l]
\* The locals are gone, but for what the request asked for.
End(r, how) ==
    loop' = [loop EXCEPT ![r] = [Fresh EXCEPT !.at = "ended", !.ended = how,
                !.attempt = loop[r].attempt, !.auto = loop[r].auto, !.reflect = loop[r].reflect]]

\* The finally takes a snapshot of an ended run with git, and raises if git
\* cannot be started or prints what is no UTF-8.
EndWithSnapshot(r) == End(r, "returned") \/ End(r, "raised")
Mark(r, s) == row' = [row EXCEPT ![r].status = s]

RecoveryInit ==
    /\ row = [r \in Runs |-> [status |-> "absent", recoveries |-> 0]]
    /\ loop = [r \in Runs |-> Fresh]
    /\ cooldown = [b \in Backends |-> "absent"]

-----------------------------------------------------------------------------
(* Choosing a backend *)

\* A request names a backend or asks for "auto"; reflect-retry recovers.
Submit(r) ==
    /\ At(r, "new")
    /\ \E reflect \in {FALSE, (r \in Reflecting)} :
          \/ loop' = [loop EXCEPT ![r].at = "read", ![r].auto = TRUE, ![r].reflect = reflect]
          \/ \E b \in Backends :
                loop' = [loop EXCEPT ![r].at = "create", ![r].backend = b,
                                     ![r].reflect = reflect]
    /\ UNCHANGED <<row, cooldown>>

\* list_backend_cooldowns looks an entry up and compares its time; an entry
\* whose time is over it pops in a statement of its own.
ReadCooldowns(r) ==
    /\ At(r, "read")
    /\ loop' = [loop EXCEPT ![r].at = "pop",
                   ![r].over = {b \in Backends : cooldown[b] = "over"},
                   ![r].seen = {b \in Backends : cooldown[b] # "cooling"}]
    /\ UNCHANGED <<row, cooldown>>

\* The pop names the backend, whatever its entry says by now; then the health
\* checks are made, which a backend that is not local may fail.
PopExpired(r) ==
    /\ At(r, "pop")
    /\ cooldown' = [b \in Backends |-> IF b \in loop[r].over THEN "absent" ELSE cooldown[b]]
    /\ \E healthy \in SUBSET (loop[r].seen \ Local) :
          loop' = [loop EXCEPT ![r].at = "pick", ![r].over = {},
                               ![r].seen = (loop[r].seen \cap Local) \cup healthy]
    /\ UNCHANGED row

Candidates(r) ==
    CASE loop[r].purpose = "start"   -> loop[r].seen
      [] loop[r].purpose = "reroute" -> loop[r].seen \ ({loop[r].backend} \cup loop[r].skipped)
      [] loop[r].purpose = "recover" -> loop[r].seen \ {loop[r].backend}

\* A hint in the goal, the statistics or the order of fallbacks decides: any
\* candidate may come out, and none when no hint fits and no fallback is there.
Undecided(r) == Candidates(r) \cap Fallbacks = {}

PickFirst(r) ==
    /\ At(r, "pick") /\ loop[r].purpose = "start"
    /\ \/ \E b \in Candidates(r) :
             loop' = [loop EXCEPT ![r].at = "create", ![r].backend = b, ![r].seen = {}]
       \/ Undecided(r) /\ End(r, "raised")
    /\ UNCHANGED <<row, cooldown>>

\* create_run, the first events, and the pre_run hook, by which a plugin may
\* abort: then the run is failed and nothing is raised.  The instructions, read
\* before create_run, and the snapshot taken after it may raise.
CreateRow(r) ==
    /\ At(r, "create")
    /\ \/ /\ Mark(r, "running")
          /\ loop' = [loop EXCEPT ![r].at = "call", ![r].attempt = 1]
       \/ Mark(r, "failed") /\ End(r, "returned")
       \/ UNCHANGED row /\ End(r, "raised")
       \/ Mark(r, "running") /\ End(r, "raised")
    /\ UNCHANGED cooldown

-----------------------------------------------------------------------------
(* The attempt and its end *)

Answer(r) ==
    /\ At(r, "call")
    /\ Mark(r, "done") /\ EndWithSnapshot(r)
    /\ UNCHANGED cooldown

CancelAttempt(r) ==
    /\ At(r, "call")
    /\ Mark(r, "canceled") /\ EndWithSnapshot(r)
    /\ UNCHANGED cooldown

\* The error of an automatically routed run reads like a quota: the backend is
\* marked, and another is looked for.  A date in its text that does not exist,
\* as 31/12/2026 with the day first, raises within the handler: the backend is
\* not marked, and nothing fails the run.
RunOutOfQuota(r) ==
    /\ At(r, "call") /\ loop[r].auto
    /\ \/ /\ cooldown' = [cooldown EXCEPT ![loop[r].backend] = "cooling"]
          /\ loop' = [loop EXCEPT ![r].at = "read", ![r].purpose = "reroute"]
       \/ UNCHANGED cooldown /\ End(r, "raised")
    /\ UNCHANGED row

Reroute(r) ==
    /\ At(r, "pick") /\ loop[r].purpose = "reroute"
    /\ \E b \in Candidates(r) :
          loop' = [loop EXCEPT ![r].at = "call", ![r].backend = b, ![r].seen = {},
                      ![r].skipped = @ \cup {loop[r].backend},
                      ![r].attempt = @ + 1]
    /\ row' = [row EXCEPT ![r].recoveries = loop[r].attempt]
    /\ UNCHANGED cooldown

\* Without another backend the error is treated as any other.
StayAndRecover(r) ==
    /\ At(r, "pick") /\ loop[r].purpose = "reroute"
    /\ Undecided(r)
    /\ loop' = [loop EXCEPT ![r].at = "failed", ![r].seen = {}]
    /\ UNCHANGED <<row, cooldown>>

OtherError(r) ==
    /\ At(r, "call")
    /\ Goto(r, "failed")
    /\ UNCHANGED <<row, cooldown>>

\* Mutant: the row is left as the last attempt had it.
GiveUpUnmarked(r) ==
    /\ row' = [row EXCEPT ![r].recoveries = loop[r].attempt - 1]
    /\ End(r, "raised")

\* fail_run with the attempts before this one, the postmortem, and raise.
GiveUp(r) ==
    /\ row' = [row EXCEPT ![r] = [status |-> "failed", recoveries |-> loop[r].attempt - 1]]
    /\ End(r, "raised")

\* The next attempt, on backend b, of a retrying step.
RetryOn(r, b) ==
    /\ row' = [row EXCEPT ![r].recoveries = loop[r].attempt]
    /\ loop' = [loop EXCEPT ![r].at = "call", ![r].backend = b, ![r].seen = {},
                            ![r].attempt = @ + 1]

\* Whatever the first strategy was asked for decides over recovery, also once
\* the request was simplified.
Recover(r) ==
    /\ At(r, "failed")
    /\ \E category \in Categories :
          LET step == IF loop[r].reflect THEN StepForFailure(category, loop[r].attempt - 1)
                      ELSE "abandon"
          IN  \/ step = "retry_different_backend"
                 /\ row' = [row EXCEPT ![r].recoveries = loop[r].attempt - 1]
                 /\ loop' = [loop EXCEPT ![r].at = "read", ![r].purpose = "recover"]
              \/ step \in Retries \ {"retry_different_backend"} /\ RetryOn(r, loop[r].backend)
              \/ step \notin Retries /\ GiveUp(r)
    /\ UNCHANGED cooldown

\* Mutant: without another backend the loop looks again.
RecoverElsewhereWaits(r) ==
    /\ At(r, "pick") /\ loop[r].purpose = "recover"
    /\ \/ \E b \in Candidates(r) : RetryOn(r, b)
       \/ Candidates(r) = {} /\ Goto(r, "read") /\ UNCHANGED row
       \/ Candidates(r) # {} /\ Undecided(r) /\ End(r, "raised") /\ UNCHANGED row
    /\ UNCHANGED cooldown

\* Nothing else reachable: escalate, then fail.  Reachable but not usable: the
\* decision's ValueError leaves the handler, and nothing fails the run.
RecoverElsewhere(r) ==
    /\ At(r, "pick") /\ loop[r].purpose = "recover"
    /\ \/ \E b \in Candidates(r) : RetryOn(r, b)
       \/ Candidates(r) = {} /\ GiveUp(r)
       \/ Candidates(r) # {} /\ Undecided(r) /\ End(r, "raised") /\ UNCHANGED row
    /\ UNCHANGED cooldown

\* The announced time of a backend goes by.
TimeGoesBy(b) ==
    /\ cooldown[b] = "cooling"
    /\ cooldown' = [cooldown EXCEPT ![b] = "over"]
    /\ UNCHANGED <<row, loop>>

-----------------------------------------------------------------------------
RunStep(r) ==
    \/ ReadCooldowns(r) \/ PopExpired(r) \/ PickFirst(r) \/ CreateRow(r)
    \/ Answer(r) \/ CancelAttempt(r) \/ RunOutOfQuota(r) \/ Reroute(r)
    \/ StayAndRecover(r) \/ OtherError(r) \/ Recover(r) \/ RecoverElsewhere(r)

RecoveryNext ==
    \/ \E r \in Runs : Submit(r) \/ RunStep(r)
    \/ \E b \in Backends : TimeGoesBy(b)

RecoverySpec == RecoveryInit /\ [][RecoveryNext]_recoveryVars

\* A thread is scheduled, and a backend answers or fails in the end.
RecoveryFairSpec == RecoverySpec /\ \A r \in Runs : WF_recoveryVars(RunStep(r))

-----------------------------------------------------------------------------
RecoveryTypeOK ==
    /\ row \in [Runs -> Rows]
    /\ loop \in [Runs -> Locals]
    /\ cooldown \in [Backends -> {"absent", "cooling", "over"}]

\* However failures of different categories, reroutings and recoveries that go
\* back to a backend alternate, a run makes at most two attempts more than
\* there are backends (the recipes of recovery.py and _auto_backend_skipped);
\* and whatever way led to an attempt, the row counts as recovery_attempts the
\* attempts before it, which the benchmarks and the postmortem read.
AttemptsBounded ==
    \A r \in Runs :
        /\ loop[r].attempt <= Cardinality(Backends) + 2
        /\ loop[r].attempt > 0 /\ loop[r].at \in {"call", "ended"}
               => row[r].recoveries = loop[r].attempt - 1

\* A thread that is through leaves its run ended, whichever of the attempts,
\* reroutings and recoveries it was in, but for what raises within the handler
\* of a failed attempt before anything is written: the date of a quota in an
\* automatically routed run (orchestrator.py:489) and the choice of another
\* backend in a reflecting one (orchestrator.py:569).  A start that raises
\* leaves no run, or after create_run one that stays running (line 265).
EndsSettled ==
    \A r \in Runs :
        /\ loop[r].ended = "returned" => row[r].status \in RunEnds
        /\ loop[r].ended = "raised" /\ loop[r].attempt > 0 =>
               \/ row[r].status \in RunEnds
               \/ row[r].status = "running" /\ (loop[r].auto \/ loop[r].reflect)
        /\ loop[r].ended = "raised" /\ loop[r].attempt = 0 =>
               row[r].status \in {"absent", "running"}

\* Every submitted run comes to an end, through whatever chain of failures.
RunComesToAnEnd == \A r \in Runs : At(r, "read") \/ At(r, "create") ~> At(r, "ended")
=============================================================================
