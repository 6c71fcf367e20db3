-------------------------------- MODULE Plans -------------------------------
(***************************************************************************)
(* One plan: its steps (plan_steps), its status and execution cursor       *)
(* (plans), and the actors that work on it: the thread of a /plan_run or   *)
(* /plan_bg, the editing commands of the shell, the screen and the API,    *)
(* and a replanning, which asks a backend for a draft between its SELECTs  *)
(* and its writes.                                                         *)
(*                                                                         *)
(* Steps are addressed by number, and every edit renumbers them.  As in    *)
(* JobStore a method that SELECTs before its first write is two steps; the *)
(* writes of one method are one transaction, which a violated UNIQUE or    *)
(* PRIMARY KEY constraint rolls back.  plan_events, and the texts of the    *)
(* steps, are left out.                                                    *)
(***************************************************************************)
EXTENDS Naturals, FiniteSets, FiniteSetsExt

CONSTANTS
    Actors,      \* threads and sessions that work on the plan
    Commands,    \* the commands in use
    DraftSizes,  \* numbers of steps a planning backend may return
    MaxNo,       \* bound on step numbers
    MaxRows      \* bound on the steps ever inserted

\* The bounds leave room for any first draft.
ASSUME PlanAssumption ==
    /\ MaxNo \in Nat \ {0}
    /\ MaxRows \in Nat
    /\ DraftSizes \subseteq (1 .. MaxNo) \cap (1 .. MaxRows)

VARIABLES
    rows,        \* plan_steps; uid is history: which step the row is
    plan,        \* plans: status and current_step_no
    act,         \* the command each actor is in, with what it has read
    made,        \* history: steps inserted so far
    executed     \* history: steps some run of which ended done

vars == <<rows, plan, act, made, executed>>

Numbers == 1 .. MaxNo
Uids == 1 .. MaxRows

\* "<plan>:<n>" of create_plan and a replanning is <<n, 0>>; the time in the
\* "<plan>:<n>:<time>" of an insertion makes it unlike any other.
Ids == Numbers \X (0 .. MaxRows)

StepStatus == {"pending", "in_progress", "done", "failed"}
PlanStatus == {"draft", "in_progress", "blocked", "done"}
Labels == {"idle", "refused", "begin", "markBegin", "execute", "markDone",
           "markFailed", "block", "advance", "advanceNext", "advanceWrite",
           "finish", "insert", "drop", "select", "replace"}

Rows == [no : Numbers, id : Ids, uid : Uids, status : StepStatus]

\* no is the step number a command goes by, uid the step its run executes (0
\* for the commands that run nothing).
Acts == [at : Labels, no : 0 .. MaxNo, uid : 0 .. MaxRows, seen : 0 .. MaxNo,
         snap : SUBSET (Ids \X Numbers)]

Idle == [at |-> "idle", no |-> 0, uid |-> 0, seen |-> 0, snap |-> {}]

PlanStep(n, id, uid) ==
    [no |-> n, id |-> id, uid |-> uid, status |-> "pending"]

\* The steps of a draft, from number k on, as create_plan and
\* replace_plan_steps_from insert them.
Draft(k, n) == {PlanStep(k + i - 1, <<k + i - 1, 0>>, made + i) : i \in 1 .. n}

\* create_plan: one transaction, before anyone knows of the plan.
Init ==
    /\ \E n \in DraftSizes :
          /\ rows = {PlanStep(i, <<i, 0>>, i) : i \in 1 .. n}
          /\ made = n
    /\ plan = [status |-> "draft", cursor |-> 1]
    /\ act = [a \in Actors |-> Idle]
    /\ executed = {}

StepsAt(n) == {r \in rows : r.no = n}
UsedNumbers == {r.no : r \in rows}

At(a, l) == act[a].at = l
May(a, c) == c \in Commands /\ At(a, "idle")
Goto(a, l) == act' = [act EXCEPT ![a].at = l]
Finish(a) == act' = [act EXCEPT ![a] = Idle]
\* The constraint's exception leaves the command; the transaction is undone.
Refuse(a) == Goto(a, "refused") /\ UNCHANGED <<rows, plan, made>>

MarkStep(n, s) ==
    rows' = {IF r.no = n THEN [r EXCEPT !.status = s] ELSE r : r \in rows}

MarkPlan(s) == plan' = [plan EXCEPT !.status = s]

-----------------------------------------------------------------------------
(* Running the current step: _prepare_plan_step_run, the run itself, and   *)
(* _finalize_plan_step_run                                                 *)

StartRun(a) ==
    /\ May(a, "run")
    /\ \E r \in StepsAt(plan.cursor) :
          act' = [act EXCEPT ![a] =
                     [Idle EXCEPT !.at = "begin", !.no = r.no, !.uid = r.uid]]
    /\ UNCHANGED <<rows, plan, made, executed>>

BeginPlan(a) ==
    /\ At(a, "begin")
    /\ MarkPlan("in_progress")
    /\ Goto(a, "markBegin")
    /\ UNCHANGED <<rows, made, executed>>

BeginStep(a) ==
    /\ At(a, "markBegin")
    /\ MarkStep(act[a].no, "in_progress")
    /\ Goto(a, "execute")
    /\ UNCHANGED <<plan, made, executed>>

\* Mutant: the step counts as done however its run ended.
EndRunUnread(a) ==
    /\ At(a, "execute")
    /\ \E ok \in BOOLEAN :
          executed' = IF ok THEN executed \cup {act[a].uid} ELSE executed
    /\ Goto(a, "markDone")
    /\ UNCHANGED <<rows, plan, made>>

\* The run ends done or not, or an exception leaves the thread of /plan_bg,
\* or start_run, before anything is marked.
EndRun(a) ==
    /\ At(a, "execute")
    /\ \/ executed' = executed \cup {act[a].uid} /\ Goto(a, "markDone")
       \/ UNCHANGED executed /\ (Goto(a, "markFailed") \/ Finish(a))
    /\ UNCHANGED <<rows, plan, made>>

\* Mutant: the plan goes on after a failed step.
MarkEndRegardless(a) ==
    /\ \E s \in {"done", "failed"} :
          At(a, IF s = "done" THEN "markDone" ELSE "markFailed") /\ MarkStep(act[a].no, s)
    /\ Goto(a, "advance")
    /\ UNCHANGED <<plan, made, executed>>

\* The step is marked by the number it had when the run was prepared.
MarkEnd(a) ==
    /\ \/ At(a, "markDone") /\ MarkStep(act[a].no, "done") /\ Goto(a, "advance")
       \/ At(a, "markFailed") /\ MarkStep(act[a].no, "failed") /\ Goto(a, "block")
    /\ UNCHANGED <<plan, made, executed>>

BlockAfterFailure(a) ==
    /\ At(a, "block")
    /\ MarkPlan("blocked")
    /\ Finish(a)
    /\ UNCHANGED <<rows, made, executed>>

\* advance_plan: the SELECT of the cursor, ...
AdvanceCursor(a) ==
    /\ At(a, "advance")
    /\ act' = [act EXCEPT ![a].at = "advanceNext", ![a].seen = plan.cursor]
    /\ UNCHANGED <<rows, plan, made, executed>>

\* Mutant: one step too far.
AdvanceNextButOne(a) ==
    /\ At(a, "advanceNext")
    /\ LET later == {n \in UsedNumbers : n > act[a].seen + 1} IN
         act' = [act EXCEPT ![a].at = "advanceWrite",
                            ![a].seen = IF later = {} THEN 0 ELSE Min(later)]
    /\ UNCHANGED <<rows, plan, made, executed>>

\* ... the SELECT of the next number (0 for none), ...
AdvanceNext(a) ==
    /\ At(a, "advanceNext")
    /\ LET later == {n \in UsedNumbers : n > act[a].seen} IN
         act' = [act EXCEPT ![a].at = "advanceWrite",
                            ![a].seen = IF later = {} THEN 0 ELSE Min(later)]
    /\ UNCHANGED <<rows, plan, made, executed>>

\* ... and the UPDATE, after which a run whose plan is at its end says so
\* once more.
AdvanceWrite(a) ==
    /\ At(a, "advanceWrite")
    /\ \/ /\ act[a].seen = 0
          /\ MarkPlan("done")
          /\ IF act[a].uid # 0 THEN Goto(a, "finish") ELSE Finish(a)
       \/ /\ act[a].seen # 0
          /\ plan' = [status |-> "in_progress", cursor |-> act[a].seen]
          /\ Finish(a)
    /\ UNCHANGED <<rows, made, executed>>

FinishPlan(a) ==
    /\ At(a, "finish")
    /\ MarkPlan("done")
    /\ Finish(a)
    /\ UNCHANGED <<rows, made, executed>>

-----------------------------------------------------------------------------
(* Edits *)

\* The SELECT of the rows behind position k.  The shell and the API take any
\* k, the screen the cursor.
StartInsert(a) ==
    /\ \E k \in 0 .. MaxNo - 1 :
          /\ May(a, "insert") \/ (May(a, "insertHere") /\ k = plan.cursor)
          /\ act' = [act EXCEPT ![a] =
                [Idle EXCEPT !.at = "insert", !.no = k,
                             !.snap = {<<r.id, r.no>> : r \in {q \in rows : q.no > k}}]]
    /\ UNCHANGED <<rows, plan, made, executed>>

\* The number of r once the UPDATEs, highest number first, have dealt with the
\* rows of the SELECT that were at or above n.
Shifted(r, snap, n) ==
    IF \E s \in snap : s[1] = r.id /\ s[2] >= n
    THEN (CHOOSE s \in snap : s[1] = r.id)[2] + 1
    ELSE r.no

\* Mutant: the numbers of a plan are not UNIQUE in the table.
NothingClashes(snap) == FALSE

\* An UPDATE meets a row, read before or not, that has the number it writes.
ShiftClashes(snap) ==
    \E s \in snap : \E q, r \in rows :
        /\ q.id = s[1]
        /\ r.id # s[1]
        /\ Shifted(r, snap, s[2] + 1) = s[2] + 1

\* The UPDATEs go by the ids and numbers of the SELECT.
InsertWrite(a) ==
    /\ At(a, "insert")
    /\ LET k == act[a].no + 1
           moved == {[r EXCEPT !.no = Shifted(r, act[a].snap, 1)] : r \in rows}
       IN IF ShiftClashes(act[a].snap) \/ k \in {r.no : r \in moved}
          THEN Refuse(a)
          ELSE /\ made < MaxRows
               /\ \A r \in moved : r.no <= MaxNo
               /\ made' = made + 1
               /\ rows' = moved \cup {PlanStep(k, <<k, made + 1>>, made + 1)}
               /\ Finish(a)
               /\ UNCHANGED plan
    /\ UNCHANGED executed

\* delete_plan_step looks for the step first.
StartDrop(a) ==
    /\ May(a, "drop")
    /\ \E k \in UsedNumbers : act' = [act EXCEPT ![a] =
                                        [Idle EXCEPT !.at = "drop", !.no = k]]
    /\ UNCHANGED <<rows, plan, made, executed>>

\* The rows behind k move up, whether k is still there or not.
Closed(k) == {IF r.no > k THEN [r EXCEPT !.no = @ - 1] ELSE r :
                 r \in {q \in rows : q.no # k}}

\* Mutant: a cursor on the dropped step stays where it is.
LandingNowhere(k, left) ==
    IF plan.cursor > k THEN plan.cursor - 1 ELSE plan.cursor

\* Mutant: only the dropped step is looked at.
LandingUnmoved(k, left) ==
    IF plan.cursor # k THEN plan.cursor
    ELSE IF \E n \in left : n >= k THEN Min({n \in left : n >= k})
    ELSE IF left # {} THEN Max(left)
    ELSE 1

\* The cursor after step k is gone and left are the numbers.
Landing(k, left) ==
    IF plan.cursor > k THEN plan.cursor - 1
    ELSE IF plan.cursor < k THEN plan.cursor
    ELSE IF \E n \in left : n >= k THEN Min({n \in left : n >= k})
    ELSE IF left # {} THEN Max(left)
    ELSE 1

DropWrite(a) ==
    /\ At(a, "drop")
    /\ LET k == act[a].no IN
         /\ rows' = Closed(k)
         /\ plan' = [plan EXCEPT !.cursor = Landing(k, {r.no : r \in Closed(k)})]
    /\ Finish(a)
    /\ UNCHANGED <<made, executed>>

\* The screen moves the cursor: by number or to a neighbour.
StartSelect(a) ==
    /\ May(a, "select")
    /\ \E k \in UsedNumbers : act' = [act EXCEPT ![a] =
                                        [Idle EXCEPT !.at = "select", !.no = k]]
    /\ UNCHANGED <<rows, plan, made, executed>>

SelectWrite(a) ==
    /\ At(a, "select")
    /\ plan' = [status |-> "in_progress", cursor |-> act[a].no]
    /\ Finish(a)
    /\ UNCHANGED <<rows, made, executed>>

\* The screen's advance and block.
StartAdvance(a) ==
    /\ May(a, "advance")
    /\ Goto(a, "advance")
    /\ UNCHANGED <<rows, plan, made, executed>>

BlockPlan(a) ==
    /\ May(a, "block")
    /\ MarkPlan("blocked")
    /\ UNCHANGED <<rows, act, made, executed>>

-----------------------------------------------------------------------------
(* Replanning *)

\* The number of the step to start from is all that is kept while the backend
\* drafts: a given one, or the cursor.
StartReplan(a) ==
    /\ \E k \in UsedNumbers :
          /\ May(a, "replan") \/ (May(a, "replanHere") /\ k = plan.cursor)
          /\ act' = [act EXCEPT ![a] = [Idle EXCEPT !.at = "replace", !.no = k]]
    /\ UNCHANGED <<rows, plan, made, executed>>

Replace(a) ==
    /\ At(a, "replace")
    /\ \E n \in DraftSizes :
         LET k == act[a].no
             kept == {r \in rows : r.no < k}
             new == Draft(k, n)
         IN /\ k + n - 1 <= MaxNo
            /\ made + n <= MaxRows
            /\ IF {r.id : r \in kept} \cap {r.id : r \in new} # {}
               THEN Refuse(a)
               ELSE /\ rows' = kept \cup new
                    /\ made' = made + n
                    /\ plan' = [status |-> "draft", cursor |-> k]
                    /\ Finish(a)
    /\ UNCHANGED executed

-----------------------------------------------------------------------------

\* A session ends between two statements, or after an exception; another one
\* takes its place.
ActorExit(a) ==
    /\ ~ At(a, "idle")
    /\ Finish(a)
    /\ UNCHANGED <<rows, plan, made, executed>>

RunSteps(a) ==
    \/ StartRun(a) \/ BeginPlan(a) \/ BeginStep(a) \/ EndRun(a) \/ MarkEnd(a)
    \/ BlockAfterFailure(a) \/ AdvanceCursor(a) \/ AdvanceNext(a)
    \/ AdvanceWrite(a) \/ FinishPlan(a)

EditSteps(a) ==
    \/ StartInsert(a) \/ InsertWrite(a) \/ StartDrop(a) \/ DropWrite(a)
    \/ StartSelect(a) \/ SelectWrite(a) \/ StartAdvance(a)
    \/ BlockPlan(a) \/ StartReplan(a) \/ Replace(a)

Next == \E a \in Actors : RunSteps(a) \/ EditSteps(a) \/ ActorExit(a)

Spec == Init /\ [][Next]_vars

-----------------------------------------------------------------------------

\* Values keep their domains, and the keys of the table are keys, also where an
\* insertion renumbers by what it read before another edit.
TypeOK ==
    /\ rows \subseteq Rows
    /\ \A q, r \in rows : q.no = r.no \/ q.id = r.id \/ q.uid = r.uid => q = r
    /\ plan \in [status : PlanStatus, cursor : Numbers]
    /\ act \in [Actors -> Acts]
    /\ made \in 0 .. MaxRows
    /\ executed \subseteq Uids

OnStep ==
    /\ UsedNumbers = 1 .. Cardinality(rows)
    /\ rows # {} => plan.cursor \in UsedNumbers

\* An operator who runs, drops and replans steps and inserts them
\* behind the cursor, one command after the other, and never runs out of
\* steps, finds them numbered from 1 on without a gap and the cursor on one of
\* them: the plan can be resumed from wherever a command or a crash left it.
KeepsItsPlace == [][OnStep /\ rows # {} => OnStep']_vars

\* Work proceeds from the front: what lies before the cursor is done.
EarlierStepsDone == \A r \in rows : r.no < plan.cursor => r.status = "done"

\* One command after the other: a step marked done was executed by a run that
\* ended done, wherever commands broke off before and however steps were
\* renumbered before its run and after it.  A step renumbered by another actor
\* while the run is under way is another matter: the mark goes by the number
\* the step had, to whichever step has it by then (_finalize_plan_step_run,
\* cli.py:1686-1687).
DoneWasExecuted == \A r \in rows : r.status = "done" => r.uid \in executed

\* A plan is declared done only when all of its steps are.
DoneWhenAllDone ==
    [][plan.status # "done" /\ plan'.status = "done" =>
          \A r \in rows' : r.status = "done"]_vars

StepsOf(S) == {r.uid : r \in S}
UidAt(S, n) == {r.uid : r \in {q \in S : q.no = n}}

\* However the actors interleave, a drop leaves the cursor on the step it was
\* on, and if that is the step dropped, on the one behind it, or at the end on
\* the last one.
DropKeepsCursor ==
    [][\A r \in rows :
          StepsOf(rows') = StepsOf(rows) \ {r.uid} =>
              /\ r.no # plan.cursor =>
                    UidAt(rows', plan'.cursor) = UidAt(rows, plan.cursor)
              /\ r.no = plan.cursor /\ rows' # {} =>
                    \E q \in rows' :
                        /\ q.no = plan'.cursor
                        /\ q.no < r.no => \A p \in rows' : p.no <= q.no
      ]_vars

-----------------------------------------------------------------------------
(* What the repository says of plans and the code does not do.             *)

\* architecture.md: execute one step at a time.  A step the cursor has left
\* behind was executed.
NothingSkipped == \A r \in rows : r.no < plan.cursor => r.uid \in executed

=============================================================================
