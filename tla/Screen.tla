------------------------------- MODULE Screen -------------------------------
(***************************************************************************)
(* The full-screen front end: the handlers of OrchestroTUI, which one UI   *)
(* thread calls one after the other, the thread that executes a goal and   *)
(* posts its callbacks to the UI thread, and the other front ends, which   *)
(* write to the same database meanwhile.                                   *)
(*                                                                         *)
(* ui is the state of the object: what _refresh_dashboard last read from   *)
(* the database, the selection and what it drew, the widgets that are      *)
(* shown, and the editor.  Of a row the model keeps its identity and its   *)
(* place, of a plan its numbered steps and its cursor too.  Layout, skins, *)
(* trays, messages and palette history are left out.                       *)
(***************************************************************************)
EXTENDS Integers, Sequences, SequencesExt, FiniteSets

CONSTANTS
    Lists,       \* tables that are listed
    Ids,         \* of a list: the ids of its rows
    Limit,       \* of a list: how many rows are read
    Scenarios,   \* [tables, fresh, views, changes, goals]: the tables at first, and
                 \* the bounds: ids that may be added, views visited, writes of
                 \* other front ends, goals submitted
    RunOf,       \* of a job: its run, if it has one yet
    Files,       \* of a run: files in the diff its row has
    Steps,       \* steps a plan has or is given
    StepsAtFirst,\* of a plan: the rows it has at first
    Slots,       \* buttons of the selector strip (6 in the code)
    Nothing      \* no row, step or run

\* In every scenario the ids that are taken differ, and the steps of a plan are
\* numbered as create_plan numbers them.
ASSUME ScreenAssumption ==
    /\ Lists = {"runs", "sessions", "plans", "approvals", "jobs", "activity"}
    /\ Slots \in Nat \ {0} /\ DOMAIN Ids = Lists /\ Limit \in [Lists -> Nat \ {0}]
    /\ \A s \in Scenarios :
          /\ s.tables \in [Lists -> Seq(UNION {Ids[l] : l \in Lists})]
          /\ \A l \in Lists : /\ s.tables[l] \in Seq(Ids[l] \ s.fresh)
                              /\ Len(s.tables[l]) = Cardinality(ToSet(s.tables[l]))
          /\ \A p \in Ids["plans"] : \A r \in StepsAtFirst[p] : r.uid \notin s.fresh
          /\ s.views \subseteq Lists \cup {"review", "integrations"}
          /\ s.changes \in Nat /\ s.goals \in Nat
    /\ RunOf \in [Ids["jobs"] -> Ids["runs"] \cup {Nothing}]
    /\ Files \in [Ids["runs"] -> Nat]
    /\ StepsAtFirst \in [Ids["plans"] -> SUBSET [no : Nat \ {0}, uid : Steps]]
    /\ \A p \in Ids["plans"] :
          /\ IsFiniteSet(StepsAtFirst[p])
          /\ {r.no : r \in StepsAtFirst[p]} = 1..Cardinality(StepsAtFirst[p])
          /\ \A q, r \in StepsAtFirst[p] : q.no = r.no => q = r

VARIABLES
    order,       \* the tables, each in the order it is listed in
    fresh,       \* ids that are not taken
    steps,       \* of a plan: rows [no, uid] of plan_steps
    cursor,      \* of a plan: current_step_no
    ui,          \* the attributes of OrchestroTUI and its widgets
    goal,        \* the thread orchestro-tui-run
    live,        \* _live_output: runs it has text of
    bound,       \* views, changes and goals to come
    commanded,   \* history: rows the last handler wrote, a command
    edited       \* history: sessions and steps it wrote, a save of the editor

database == <<order, fresh, steps, cursor>>
screenVars == <<database, ui, goal, live, bound, commanded, edited>>
WritesNothing == commanded' = {} /\ edited' = {}

NoEditor == [mode |-> "none", item |-> Nothing, no |-> 0, loaded |-> Nothing]
Multiline == {"session-summary", "plan-add-inline", "plan-edit-inline"}
Idle == [at |-> "none", run |-> Nothing]

\* max(0, n - 1) for an index behind the end.
Clamp(i, n) == IF i < n THEN i ELSE IF n = 0 THEN 0 ELSE n - 1
Up(i, n) == Clamp(i + 1, n)
Down(i) == IF i = 0 THEN 0 ELSE i - 1

Selected(u, l) == IF u.rows[l] = <<>> THEN Nothing ELSE u.rows[l][u.index[l] + 1]

\* The list the selection of a view moves in.
ListOf(view) == IF view = "review" THEN "jobs" ELSE view

\* _selected_review_run: the run of the selected job, if it has one.
ReviewRun(u) ==
    LET job == Selected(u, "jobs")
    IN  IF job # Nothing /\ RunOf[job] # Nothing THEN RunOf[job] ELSE Selected(u, "runs")

FilesOf(run) == IF run = Nothing THEN 0 ELSE Files[run]
FilesShown(u) == FilesOf(IF u.view = "review" THEN ReviewRun(u) ELSE Selected(u, "runs"))

\* The lists are read, and every index is clamped.
ReadLists(u, tables, cursors) ==
    LET rows == [l \in Lists |-> IF Len(tables[l]) <= Limit[l] THEN tables[l]
                                 ELSE SubSeq(tables[l], 1, Limit[l])]
    IN  [u EXCEPT !.rows = rows, !.cursors = cursors,
                  !.index = [l \in Lists |-> Clamp(u.index[l], Len(rows[l]))]]

\* The panes are drawn around what is selected.
DrawPanes(u) == [u EXCEPT !.drawn = [l \in Lists |-> Selected(u, l)]]

RefreshDashboard(u, tables, cursors) ==
    LET read == ReadLists(u, tables, cursors)
    IN  DrawPanes([read EXCEPT !.diff = Clamp(@, FilesShown(read))])

\* The UI thread has handled an event that left the database as it was.
Handled(u) ==
    /\ ui' = RefreshDashboard(u, order, cursor)
    /\ UNCHANGED <<database, goal, live, bound>> /\ WritesNothing

\* A table has a row once.
Without(s, x) ==
    IF \E i \in DOMAIN s : s[i] = x THEN RemoveAt(s, CHOOSE i \in DOMAIN s : s[i] = x) ELSE s
ToFront(l, x) == [order EXCEPT ![l] = <<x>> \o Without(@, x)]

ScreenInit ==
    \E s \in Scenarios :
        /\ order = s.tables /\ bound = [views |-> s.views, changes |-> s.changes, goals |-> s.goals]
        /\ fresh = s.fresh
        /\ steps = StepsAtFirst
        /\ cursor = [p \in Ids["plans"] |-> 1]
        /\ ui = RefreshDashboard(
              [view |-> "runs", index |-> [l \in Lists |-> 0], rows |-> order,
               cursors |-> cursor, drawn |-> [l \in Lists |-> Nothing],
               focus |-> "targets", diff |-> 0, help |-> FALSE, palette |-> FALSE,
               shown |-> {"composer"}, editor |-> NoEditor, busy |-> FALSE], order, cursor)
        /\ goal = Idle /\ live = {}
        /\ commanded = {} /\ edited = {}

-----------------------------------------------------------------------------
(* Views, selection and widgets *)

\* set_interval: every five seconds, and on request.
Refresh == Handled(ui)

SwitchView(v) ==
    v \in bound.views /\ Handled([ui EXCEPT !.view = v, !.focus = IF v = "review" THEN "targets" ELSE @])

\* The index that the keys for the next and the previous item move.
Moved(u, forward) ==
    LET l == ListOf(u.view)
    IN  IF u.view = "review" /\ u.focus = "files"
        THEN [u EXCEPT !.diff = IF forward THEN (IF FilesOf(ReviewRun(u)) = 0 THEN @ ELSE Up(@, FilesOf(ReviewRun(u))))
                                ELSE Down(@)]
        ELSE IF l \in Lists /\ u.rows[l] # <<>>
        THEN [u EXCEPT !.index[l] = IF forward THEN Up(@, Len(u.rows[l])) ELSE Down(@)]
        ELSE u

\* Mutant: the selection moves, the panes are not drawn.
MoveUndrawn(forward) ==
    /\ ui' = Moved(ui, forward)
    /\ UNCHANGED <<database, goal, live, bound>> /\ WritesNothing

MoveSelection(forward) == Handled(Moved(ui, forward))

NextDiffFile(forward) ==
    Handled([ui EXCEPT !.diff = IF forward THEN @ + 1 ELSE Down(@)])

ToggleReviewFocus ==
    /\ ui.view = "review"
    /\ Handled([ui EXCEPT !.focus = IF @ = "targets" THEN "files" ELSE "targets"])

ToggleHelp == Handled([ui EXCEPT !.help = ~@])

\* The editor is not looked at: both may be shown.
TogglePalette ==
    /\ ui' = IF ui.palette
             THEN [ui EXCEPT !.palette = FALSE, !.shown = (@ \ {"palette"}) \cup {"composer"}]
             ELSE [ui EXCEPT !.palette = TRUE, !.shown = (@ \ {"composer"}) \cup {"palette"}]
    /\ UNCHANGED <<database, goal, live, bound>> /\ WritesNothing

EditorClosed(u) ==
    [u EXCEPT !.editor = NoEditor, !.shown = (@ \ {"editor", "editor-area"}) \cup {"composer"}]

\* Mutant: the composer comes back with the palette alone.
ClosedWithoutComposer(u) ==
    IF u.editor # NoEditor
    THEN [u EXCEPT !.editor = NoEditor, !.shown = @ \ {"editor", "editor-area"}]
    ELSE IF u.help THEN [u EXCEPT !.help = FALSE]
    ELSE IF u.palette
    THEN [u EXCEPT !.palette = FALSE, !.shown = (@ \ {"palette"}) \cup {"composer"}]
    ELSE u

\* action_close_palette: the editor goes first, then the help, then the palette.
Closed(u) ==
    IF u.editor # NoEditor THEN EditorClosed(u)
    ELSE IF u.help THEN [u EXCEPT !.help = FALSE]
    ELSE IF u.palette
    THEN [u EXCEPT !.palette = FALSE, !.shown = (@ \ {"palette"}) \cup {"composer"}]
    ELSE u

\* Only where the help is closed are the panes drawn.
Escape ==
    IF ui.editor = NoEditor /\ ui.help THEN Handled(Closed(ui))
    ELSE /\ ui' = Closed(ui)
         /\ UNCHANGED <<database, goal, live, bound>> /\ WritesNothing

-----------------------------------------------------------------------------
(* Steps of a plan *)

StepNumbers(p) == {r.no : r \in steps[p]}
StepAt(p, n) == {r.uid : r \in {q \in steps[p] : q.no = n}}
Least(s) == CHOOSE n \in s : \A k \in s : n <= k
Greatest(s) == CHOOSE n \in s : \A k \in s : n >= k

InsertStep(p, after, uid) ==
    /\ uid \in fresh /\ fresh' = fresh \ {uid}
    /\ steps' = [steps EXCEPT ![p] =
          {[r EXCEPT !.no = IF @ > after THEN @ + 1 ELSE @] : r \in @}
              \cup {[no |-> after + 1, uid |-> uid]}]
    /\ UNCHANGED cursor

DeleteStep(p, n) ==
    LET left == {[r EXCEPT !.no = IF @ > n THEN @ - 1 ELSE @] : r \in {q \in steps[p] : q.no # n}}
        behind == {r.no : r \in {q \in left : q.no >= n}}
    IN  /\ n \in StepNumbers(p) /\ UNCHANGED fresh
        /\ steps' = [steps EXCEPT ![p] = left]
        /\ cursor' = [cursor EXCEPT ![p] =
              IF @ > n THEN @ - 1 ELSE IF @ < n THEN @
              ELSE IF behind # {} THEN Least(behind)
              ELSE IF left # {} THEN Greatest({r.no : r \in left}) ELSE 1]

-----------------------------------------------------------------------------
(* Commands: from the palette, or from the buttons of a view *)

\* What the buttons of a view do, besides going to another view.  While the
\* editor is open they are Save, Close and Palette.
Controls(view) ==
    CASE view = "review"    -> {"review"}
      [] view = "plans"     -> {"plan-step", "advance"}
      [] view = "sessions"  -> {"sessions"}
      [] view = "approvals" -> {"resolve"}
      [] view = "jobs"      -> {"jobs"}
      [] OTHER              -> {}

FromPalette == "palette" \in ui.shown
FromButton(command) == ui.editor = NoEditor /\ command \in Controls(ui.view)
Commandable(command) == FromPalette \/ FromButton(command)

\* Every command ends in action_close_palette and a refresh.
EndCommand(u) ==
    /\ ui' = RefreshDashboard(Closed(u), order', cursor')
    /\ UNCHANGED <<goal, live, bound>> /\ edited' = {}

\* approve, deny: of a request that is pending still.
ResolveSelected ==
    LET a == Selected(ui, "approvals")
    IN  /\ Commandable("resolve") /\ a # Nothing
        /\ order' = [order EXCEPT !["approvals"] = Without(@, a)]
        /\ commanded' = {a} \cap ToSet(order["approvals"])
        /\ UNCHANGED <<fresh, steps, cursor>> /\ EndCommand(ui)

\* pause, resume, cancel, unless the job refuses; archive, activate and the
\* texts of a session; block-plan, plan-edit.
WriteSelected(l) ==
    LET x == Selected(ui, l)
    IN  /\ l \in {"jobs", "sessions", "plans"} /\ Commandable(l) /\ x # Nothing
        /\ \/ order' = ToFront(l, x) /\ commanded' = {x}
           \/ l = "jobs" /\ UNCHANGED order /\ commanded' = {}
        /\ UNCHANGED <<fresh, steps, cursor>> /\ EndCommand(ui)

\* advance-plan: which step is next depends on statuses that are left out.
AdvanceSelected ==
    LET p == Selected(ui, "plans")
    IN  /\ Commandable("advance") /\ p # Nothing
        /\ \E n \in StepNumbers(p) \cup {cursor[p]} :
              n >= cursor[p] /\ cursor' = [cursor EXCEPT ![p] = n]
        /\ order' = ToFront("plans", p) /\ commanded' = {p}
        /\ UNCHANGED <<fresh, steps>> /\ EndCommand(ui)

\* prev-step, next-step: from the cursor of the last refresh, over the steps
\* there are now.  The buttons of the view close nothing.
SelectStep(p, n, u) ==
    /\ cursor' = [cursor EXCEPT ![p] = n]
    /\ order' = ToFront("plans", p)
    /\ ui' = RefreshDashboard(u, order', cursor')
    /\ UNCHANGED <<fresh, steps, goal, live, bound>> /\ WritesNothing

MovePlanStep(forward) ==
    LET p == Selected(ui, "plans")
        at == ui.cursors[p]
        numbers == StepNumbers(p)
        beyond == {n \in numbers : IF forward THEN n > at ELSE n < at}
        target == IF at \notin numbers THEN Least(numbers)
                  ELSE IF beyond = {} THEN at
                  ELSE IF forward THEN Least(beyond) ELSE Greatest(beyond)
    IN  /\ p # Nothing /\ numbers # {}
        /\ \/ FromPalette /\ SelectStep(p, target, Closed(ui))
           \/ FromButton("plan-step") /\ SelectStep(p, target, ui)

\* plan-add: behind the cursor of the last refresh.
AddStep ==
    LET p == Selected(ui, "plans")
    IN  /\ FromPalette /\ p # Nothing
        /\ \E uid \in Steps : InsertStep(p, ui.cursors[p], uid)
        /\ order' = ToFront("plans", p) /\ commanded' = {p}
        /\ EndCommand(ui)

\* plan-drop: any number there is.
DropStep ==
    LET p == Selected(ui, "plans")
    IN  /\ FromPalette /\ p # Nothing
        /\ \E n \in StepNumbers(p) : DeleteStep(p, n)
        /\ order' = ToFront("plans", p) /\ commanded' = {p}
        /\ EndCommand(ui)

\* The key and the button: the step the last refresh had the cursor on.
DropSelected ==
    LET p == Selected(ui, "plans")
    IN  /\ ui.view = "plans" /\ p # Nothing
        /\ DeleteStep(p, ui.cursors[p])
        /\ order' = ToFront("plans", p) /\ commanded' = {p}
        /\ ui' = RefreshDashboard(ui, order', cursor')
        /\ UNCHANGED <<goal, live, bound>> /\ edited' = {}

\* focus: unlike the keys it leaves the focus within the review.
FocusView(v) == FromPalette /\ v \in bound.views /\ Handled(Closed([ui EXCEPT !.view = v]))

\* open: the row that matches best, of any list but the activity.
OpenTarget(l) ==
    /\ FromPalette /\ l # "activity"
    /\ \E i \in DOMAIN ui.rows[l] :
          Handled(Closed([ui EXCEPT !.view = l, !.index[l] = i - 1]))

\* A button closes nothing, a palette command does.
Reviewed(u) ==
    \/ FromPalette /\ Handled(Closed(u))
    \/ FromButton("review") /\ Handled(u)

\* target: one of the jobs that are under review.
ReviewTarget ==
    /\ ui.view = "review" /\ FromPalette
    /\ \E i \in DOMAIN ui.rows["jobs"] :
          Reviewed([ui EXCEPT !.index["jobs"] = i - 1, !.focus = "targets"])

ReviewFile ==
    /\ ui.view = "review" /\ FromPalette
    /\ \E n \in 1..FilesOf(ReviewRun(ui)) : Reviewed([ui EXCEPT !.diff = n - 1, !.focus = "files"])

\* next-target and prev-target, in any view: from the place the selected job
\* has among those under review, or from the first.
MoveReviewTarget(forward) ==
    \/ /\ ui.focus = "targets"
       /\ \E under \in (SUBSET DOMAIN ui.rows["jobs"]) \ {{}} :
             LET at == IF ui.index["jobs"] + 1 \in under THEN ui.index["jobs"] + 1 ELSE Least(under)
                 beyond == {i \in under : IF forward THEN i > at ELSE i < at}
                 target == IF beyond = {} THEN at ELSE IF forward THEN Least(beyond) ELSE Greatest(beyond)
             IN  Reviewed([ui EXCEPT !.index["jobs"] = target - 1])
    \/ LET n == FilesOf(ReviewRun(ui))
       IN  /\ ui.focus = "files" /\ n > 0
           /\ Reviewed([ui EXCEPT !.diff = IF forward THEN Up(@, n) ELSE Down(@)])

\* refresh, clear-error, a selection by review-focus, an unknown word or none,
\* and any command that finds nothing selected.
OtherCommand == FromPalette /\ Handled(Closed(ui))

\* contextual_selector_state: the positions that have a button, around the
\* selected one.
Strip(n, selected) ==
    LET first == IF n <= Slots THEN 0
                 ELSE IF selected < Slots \div 2 THEN 0
                 ELSE IF selected - Slots \div 2 > n - Slots THEN n - Slots
                 ELSE selected - Slots \div 2
    IN  first + 1..first + (IF n <= Slots THEN n ELSE Slots)

PlaceOf(n, s) == Cardinality({k \in s : k < n})

\* pick: the palette stays.
PickSelector ==
    LET l == ui.view
        p == Selected(ui, "plans")
    IN  /\ FromPalette
        /\ \/ /\ l \in Lists \ {"plans"}
              /\ \E i \in Strip(Len(ui.rows[l]), ui.index[l]) : Handled([ui EXCEPT !.index[l] = i - 1])
           \/ /\ l = "review" /\ ui.focus = "targets"
              /\ \E i \in DOMAIN ui.rows["jobs"] : Handled([ui EXCEPT !.index["jobs"] = i - 1])
           \/ /\ l = "review" /\ ui.focus = "files"
              /\ \E n \in Strip(FilesShown(ui), ui.diff) : Handled([ui EXCEPT !.diff = n - 1])
           \/ /\ l = "plans" /\ p # Nothing
              /\ LET numbers == StepNumbers(p)
                     at == IF ui.cursors[p] \in numbers THEN PlaceOf(ui.cursors[p], numbers) ELSE 0
                 IN  \E n \in numbers : /\ PlaceOf(n, numbers) + 1 \in Strip(Cardinality(numbers), at)
                                        /\ SelectStep(p, n, ui)

\* A button of the strip does something only while its row is the selected
\* one: for a plan the cursor is set back to the one of the last refresh.
PressSelector ==
    LET p == Selected(ui, "plans")
    IN  /\ ui.view = "plans" /\ p # Nothing /\ ui.cursors[p] \in StepNumbers(p)
        /\ SelectStep(p, ui.cursors[p], ui)

-----------------------------------------------------------------------------
(* The editor *)

Show(editor) ==
    /\ ui' = [ui EXCEPT !.editor = editor, !.palette = FALSE,
                 !.shown = IF editor.mode \in Multiline THEN {"editor-area"} ELSE {"editor"}]
    /\ UNCHANGED <<database, goal, live, bound>> /\ WritesNothing

OpenSessionEditor(mode) ==
    LET s == Selected(ui, "sessions")
    IN  /\ mode \in {"session-title", "session-summary"}
        /\ ui.view = "sessions" /\ s # Nothing
        /\ Show([mode |-> mode, item |-> s, no |-> 0, loaded |-> s])

\* The step that has the number the last refresh had the cursor on.
OpenStepEditor ==
    LET p == Selected(ui, "plans")
    IN  /\ ui.view = "plans" /\ p # Nothing
        /\ IF StepAt(p, ui.cursors[p]) = {} THEN Handled(ui)
           ELSE \E uid \in StepAt(p, ui.cursors[p]) :
                   Show([mode |-> "plan-edit-inline", item |-> p, no |-> ui.cursors[p], loaded |-> uid])

OpenAddEditor ==
    LET p == Selected(ui, "plans")
    IN  /\ ui.view = "plans" /\ p # Nothing
        /\ Show([mode |-> "plan-add-inline", item |-> p, no |-> ui.cursors[p], loaded |-> Nothing])

\* Whatever became of the text, the editor closes.
EndSave ==
    /\ ui' = RefreshDashboard(EditorClosed(ui), order', cursor')
    /\ UNCHANGED <<goal, live, bound>> /\ commanded' = {}

\* Mutant: the selection decides, not the context of the editor.
SaveSessionSelected(empty) ==
    LET s == Selected(ui, "sessions")
    IN  /\ ui.editor.mode \in {"session-title", "session-summary"} /\ s # Nothing
        /\ order' = ToFront("sessions", s)
        /\ edited' = IF empty THEN {} ELSE {s}
        /\ UNCHANGED <<fresh, steps, cursor>> /\ EndSave

\* An empty text leaves what the session had.
SaveSession(empty) ==
    LET s == ui.editor.item
    IN  /\ ui.editor.mode \in {"session-title", "session-summary"}
        /\ order' = ToFront("sessions", s)
        /\ edited' = IF empty THEN {} ELSE {s}
        /\ UNCHANGED <<fresh, steps, cursor>> /\ EndSave

\* By number: no step, or another one, may have it now.
SaveStep ==
    /\ ui.editor.mode = "plan-edit-inline"
    /\ order' = ToFront("plans", ui.editor.item)
    /\ edited' = StepAt(ui.editor.item, ui.editor.no)
    /\ UNCHANGED <<fresh, steps, cursor>> /\ EndSave

SaveNewStep ==
    /\ ui.editor.mode = "plan-add-inline"
    /\ \E uid \in Steps : InsertStep(ui.editor.item, ui.editor.no, uid)
    /\ order' = ToFront("plans", ui.editor.item)
    /\ edited' = {} /\ EndSave

\* Without a title nothing is written, and the text is gone.
SaveUntitled ==
    /\ ui.editor.mode \in {"plan-edit-inline", "plan-add-inline"}
    /\ UNCHANGED <<order, fresh, steps, cursor>> /\ edited' = {} /\ EndSave

-----------------------------------------------------------------------------
(* A goal *)

\* While busy the text is dropped.
SubmitGoal ==
    /\ "composer" \in ui.shown /\ ~ui.busy /\ bound.goals > 0
    /\ bound' = [bound EXCEPT !.goals = @ - 1]
    /\ goal' = [Idle EXCEPT !.at = "start"]
    /\ ui' = RefreshDashboard([ui EXCEPT !.busy = TRUE], order, cursor)
    /\ UNCHANGED <<database, live>> /\ WritesNothing

Proceed(at) == goal' = [goal EXCEPT !.at = at]

\* start_run writes the row of the run.
StartRun ==
    /\ goal.at = "start"
    /\ \E r \in Ids["runs"] \cap fresh :
          /\ order' = ToFront("runs", r) /\ fresh' = fresh \ {r}
          /\ goal' = [at |-> "refresh", run |-> r]
    /\ UNCHANGED <<steps, cursor, ui, live, bound>> /\ WritesNothing

\* An exception of start_run or of the execution.
GoalFails ==
    /\ goal.at \in {"start", "execute"} /\ Proceed("fail")
    /\ UNCHANGED <<database, ui, live, bound>> /\ WritesNothing

\* The first text of a backend that streams; the ones after it do the same.
StreamChunk ==
    /\ goal.at = "execute" /\ goal.run \notin live /\ Proceed("chunk")
    /\ live' = live \cup {goal.run}
    /\ UNCHANGED <<database, ui, bound>> /\ WritesNothing

GoalEnds ==
    /\ goal.at = "execute" /\ Proceed("done")
    /\ UNCHANGED <<database, ui, live, bound>> /\ WritesNothing

\* call_from_thread: the thread waits for the UI thread.
RefreshForGoal ==
    /\ goal.at \in {"refresh", "chunk"}
    /\ Proceed(IF goal.at = "refresh" THEN "select" ELSE "execute")
    /\ ui' = RefreshDashboard(ui, order, cursor)
    /\ UNCHANGED <<database, live, bound>> /\ WritesNothing

\* The run is selected if it is among those that are listed.
SelectAfterStart ==
    /\ goal.at = "select" /\ Proceed("execute")
    /\ LET u == RefreshDashboard(ui, order, cursor)
           at == {i \in DOMAIN u.rows["runs"] : u.rows["runs"][i] = goal.run}
       IN  ui' = IF at = {} THEN u
                 ELSE RefreshDashboard([u EXCEPT !.index["runs"] = Least(at) - 1], order, cursor)
    /\ UNCHANGED <<database, live, bound>> /\ WritesNothing

\* Mutant: only a run that has a row can be finished.
FinishRunStarted ==
    /\ goal.at \in {"done", "fail"} /\ goal.run # Nothing
    /\ goal' = Idle
    /\ live' = IF goal.at = "done" THEN live \ {goal.run} ELSE live
    /\ ui' = RefreshDashboard([ui EXCEPT !.busy = FALSE], order, cursor)
    /\ UNCHANGED <<database, bound>> /\ WritesNothing

\* A failed run is not named to the callback: its text is kept.
FinishRun ==
    /\ goal.at \in {"done", "fail"}
    /\ goal' = Idle
    /\ live' = IF goal.at = "done" THEN live \ {goal.run} ELSE live
    /\ ui' = RefreshDashboard([ui EXCEPT !.busy = FALSE], order, cursor)
    /\ UNCHANGED <<database, bound>> /\ WritesNothing

-----------------------------------------------------------------------------
(* The other front ends *)

Elsewhere ==
    /\ bound.changes > 0 /\ bound' = [bound EXCEPT !.changes = @ - 1]
    /\ UNCHANGED <<ui, goal, live>> /\ WritesNothing

RowArrives(l) ==
    /\ Elsewhere
    /\ \E x \in Ids[l] \cap fresh : order' = ToFront(l, x) /\ fresh' = fresh \ {x}
    /\ UNCHANGED <<steps, cursor>>

\* A request is resolved; a session, plan or job is written.
RowIsWritten(l) ==
    /\ Elsewhere
    /\ \E x \in ToSet(order[l]) :
          order' = IF l = "approvals" THEN [order EXCEPT ![l] = Without(@, x)] ELSE ToFront(l, x)
    /\ l \in {"approvals", "sessions", "plans", "jobs"}
    /\ UNCHANGED <<fresh, steps, cursor>>

StepsAreChanged(p) ==
    /\ Elsewhere
    /\ p \in ToSet(order["plans"])
    /\ \/ \E n \in StepNumbers(p) : DeleteStep(p, n)
       \/ \E n \in StepNumbers(p) \cup {0}, uid \in Steps : InsertStep(p, n, uid)
    /\ order' = ToFront("plans", p)

-----------------------------------------------------------------------------
GoalStep == StartRun \/ GoalFails \/ StreamChunk \/ GoalEnds
Callback == RefreshForGoal \/ SelectAfterStart \/ FinishRun

ScreenNext ==
    \/ Refresh \/ ToggleReviewFocus \/ ToggleHelp \/ TogglePalette \/ Escape
    \/ \E v \in bound.views : SwitchView(v) \/ FocusView(v)
    \/ \E forward \in BOOLEAN :
          \/ MoveSelection(forward) \/ NextDiffFile(forward)
          \/ MovePlanStep(forward) \/ MoveReviewTarget(forward)
    \/ \E l \in Lists : WriteSelected(l) \/ OpenTarget(l) \/ RowArrives(l) \/ RowIsWritten(l)
    \/ ResolveSelected \/ AdvanceSelected \/ AddStep \/ DropStep \/ DropSelected
    \/ ReviewTarget \/ ReviewFile \/ OtherCommand \/ PickSelector \/ PressSelector
    \/ \E mode \in Multiline \cup {"session-title"} : OpenSessionEditor(mode)
    \/ OpenStepEditor \/ OpenAddEditor
    \/ \E empty \in BOOLEAN : SaveSession(empty)
    \/ SaveStep \/ SaveNewStep \/ SaveUntitled
    \/ SubmitGoal \/ GoalStep \/ Callback
    \/ \E p \in Ids["plans"] : StepsAreChanged(p)

\* The threads are scheduled, and a run ends (RunRecovery).
ScreenSpec ==
    /\ ScreenInit /\ [][ScreenNext]_screenVars
    /\ WF_screenVars(GoalStep) /\ WF_screenVars(Callback)

-----------------------------------------------------------------------------
\* The selection is always inside the lists that were read, though they shrink
\* from one refresh to the next; the widgets show what the flags say, and one
\* that takes input is always there, whatever opened over what and was closed
\* in which order; the screen is busy exactly while a goal has a thread.
ScreenTypeOK ==
    /\ order \in [Lists -> Seq(UNION {Ids[l] : l \in Lists})]
    /\ steps \in [Ids["plans"] -> SUBSET [no : Nat \ {0}, uid : Steps]]
    /\ cursor \in [Ids["plans"] -> Nat \ {0}]
    /\ ui.view \in Lists \cup {"review", "integrations"} /\ ui.focus \in {"targets", "files"}
    /\ \A l \in Lists : ui.index[l] < Len(ui.rows[l]) \/ (ui.rows[l] = <<>> /\ ui.index[l] = 0)
    /\ ui.diff = 0 \/ ui.diff < FilesShown(ui)
    /\ ui.shown \subseteq {"composer", "palette", "editor", "editor-area"} /\ ui.shown # {}
    /\ ui.palette = ("palette" \in ui.shown)
    /\ ui.shown \cap {"editor", "editor-area"} =
          IF ui.editor = NoEditor THEN {}
          ELSE IF ui.editor.mode \in Multiline THEN {"editor-area"} ELSE {"editor"}
    /\ goal.at \in {"none", "start", "refresh", "select", "execute", "chunk", "done", "fail"}
    /\ ui.busy = (goal # Idle)
    /\ live \subseteq Ids["runs"] /\ (commanded \cup edited) \cap fresh = {}

\* A command writes to a row the panes show as selected, however the lists
\* moved since the index was set (tui.py:3564-3583, 4032-4153).  Of a
\* command on a step it is the plan that counts: the number is typed, and is that
\* of whichever step has it now.
WritesWhatIsDrawn == [][commanded' \subseteq {ui.drawn[l] : l \in Lists}]_screenVars

\* A saved text goes where it was loaded from, whatever was selected, opened
\* and written in between, as long as the step has the number it had
\* (_editor_context, tui.py:3257, 3283-3318).
SaveGoesWhereItWasOpened ==
    [][edited' # {} =>
          \/ edited' = {ui.editor.loaded}
          \/ /\ ui.editor.mode = "plan-edit-inline"
             /\ [no |-> ui.editor.no, uid |-> ui.editor.loaded] \notin steps[ui.editor.item]
      ]_screenVars

\* Whatever becomes of a goal, the composer takes the next one in the end.
BusyEnds == ui.busy ~> ~ui.busy
=============================================================================
