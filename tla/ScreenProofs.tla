----------------------------- MODULE ScreenProofs -----------------------------
(***************************************************************************)
(* The safety properties of Screen, proved for all tables, ids, limits,    *)
(* steps and scenarios.                                                    *)
(*                                                                         *)
(* The invariant is one about the tables and steps (Tabled, Numbered) and  *)
(* one about the screen in front of them (UiFits).  A refresh establishes  *)
(* the second whatever index, view and selection it starts from (UiWell),  *)
(* and all handlers but those of palette, help and editor end in one.      *)
(***************************************************************************)
EXTENDS Screen, FiniteSetTheorems, SequenceTheorems, WellFoundedInduction, TLAPS

Views == Lists \cup {"review", "integrations"}
AnyRow == UNION {Ids[l] : l \in Lists}
Widgets == {"composer", "palette", "editor", "editor-area"}
Modes == {"none", "session-title"} \cup Multiline
StepRows == [no : Nat \ {0}, uid : Steps]
Cursors == [Ids["plans"] -> Nat \ {0}]
Editors == [mode : Modes, item : AnyRow \cup {Nothing}, no : Nat,
            loaded : AnyRow \cup Steps \cup {Nothing}]
Uis == [view : Views, index : [Lists -> Nat], rows : [Lists -> Seq(AnyRow)],
        cursors : Cursors, drawn : [Lists -> AnyRow \cup {Nothing}],
        focus : {"targets", "files"}, diff : Nat, help : BOOLEAN, palette : BOOLEAN,
        shown : SUBSET Widgets, editor : Editors, busy : BOOLEAN]
Goals == [at : {"none", "start", "refresh", "select", "execute", "chunk", "done", "fail"},
          run : Ids["runs"] \cup {Nothing}]

\* Tables hold rows that are taken: F are the ids that are not.
Tabled(o, F) ==
    /\ o \in [Lists -> Seq(AnyRow)]
    /\ \A l \in Lists : o[l] \in Seq(Ids[l] \ F)

\* The steps of a plan have numbers of their own, up to some number.
Numbered(S, F) ==
    /\ S \in [Ids["plans"] -> SUBSET StepRows]
    /\ \A p \in Ids["plans"] :
          /\ \A q, r \in S[p] : q.no = r.no => q = r
          /\ \A r \in S[p] : r.uid \notin F
          /\ \E m \in Nat : \A r \in S[p] : r.no <= m

\* The editor knows what its text was loaded from, and by what name to save it.
EditorFits(e, F) ==
    /\ e.mode = "none" => e = NoEditor
    /\ e.mode \in {"session-title", "session-summary"} =>
          e.item \in Ids["sessions"] \ F /\ e.loaded = e.item
    /\ e.mode \in {"plan-add-inline", "plan-edit-inline"} =>
          e.item \in Ids["plans"] \ F /\ e.no \in Nat \ {0}

WidgetsFit(u) ==
    /\ u.shown # {}
    /\ u.palette = ("palette" \in u.shown)
    /\ u.shown \cap {"editor", "editor-area"} =
          IF u.editor = NoEditor THEN {}
          ELSE IF u.editor.mode \in Multiline THEN {"editor-area"} ELSE {"editor"}

\* What a refresh starts from, ...
UiWell(u, F) ==
    /\ u \in Uis
    /\ \A l \in Lists : u.rows[l] \in Seq(Ids[l] \ F)
    /\ EditorFits(u.editor, F) /\ WidgetsFit(u)

\* ... and what it ends with: selections within the lists, drawn as they are.
SelectionFits(u) ==
    /\ \A l \in Lists : u.index[l] < Len(u.rows[l]) \/ (u.rows[l] = <<>> /\ u.index[l] = 0)
    /\ u.diff = 0 \/ u.diff < FilesShown(u)
    /\ \A l \in Lists : u.drawn[l] = Selected(u, l)

UiFits(u, F) == UiWell(u, F) /\ SelectionFits(u)

\* The screen is busy while a goal g has a thread, which knows its run.
GoalFits(g, busy) ==
    /\ g \in Goals
    /\ g.at = "none" => g = Idle
    /\ g.at \in {"refresh", "select", "execute", "chunk"} => g.run \in Ids["runs"]
    /\ busy <=> g # Idle

Bounds == [views : SUBSET Views, changes : Nat, goals : Nat]

ScreenSound ==
    /\ Tabled(order, fresh) /\ Numbered(steps, fresh) /\ cursor \in Cursors
    /\ UiFits(ui, fresh) /\ GoalFits(goal, ui.busy)
    /\ live \subseteq Ids["runs"] /\ bound \in Bounds
    /\ (commanded \cup edited) \cap fresh = {}

-----------------------------------------------------------------------------
(* Truth values; least and greatest                                        *)

LEMMA SameTruth == \A b, c \in BOOLEAN : (b <=> c) => b = c
OBVIOUS

LEMMA LeastIsLeast ==
    ASSUME NEW S \in SUBSET Nat, S # {}
    PROVE  Least(S) \in S /\ \A m \in S : Least(S) <= m
<1>1. PICK k \in S : \A m \in S : <<m, k>> \notin OpToRel(<, Nat)
  BY WFMin, NatLessThanWellFounded, Zenon
<1>2. ASSUME NEW m \in S PROVE k <= m
  <2>1. m \in Nat /\ k \in Nat
    OBVIOUS
  <2>2. ~(m < k)
    BY <1>1, <1>2, <2>1, Zenon DEF OpToRel
  <2>. QED
    BY <2>1, <2>2
<1>. QED
  BY <1>2 DEF Least

LEMMA GreatestIsGreatest ==
    ASSUME NEW n \in Nat, NEW S \in SUBSET Nat, \A m \in S : m <= n, S # {}
    PROVE  Greatest(S) \in S
<1> DEFINE Below == {k \in Nat : n - k \in S}
<1>1. Below # {}
  <2>1. PICK s \in S : TRUE
    OBVIOUS
  <2>2. n - s \in Nat /\ n - (n - s) = s
    OBVIOUS
  <2>. QED
    BY <2>1, <2>2
<1>2. Least(Below) \in Below /\ \A k \in Below : Least(Below) <= k
  BY <1>1, LeastIsLeast
<1> DEFINE r == n - Least(Below)
<1>3. r \in S
  BY <1>2
<1>4. ASSUME NEW s \in S PROVE r >= s
  <2>1. n - s \in Nat /\ n - (n - s) = s
    OBVIOUS
  <2>2. n - s \in Below
    BY <2>1
  <2>. QED
    BY <1>2, <2>1, <2>2
<1>. HIDE DEF r
<1>. QED
  BY <1>3, <1>4 DEF Greatest

-----------------------------------------------------------------------------
(* Tables and steps                                                        *)

LEMMA WithoutOne ==
    ASSUME NEW S, NEW s \in Seq(S), NEW x
    PROVE  Without(s, x) \in Seq(S)
<1>1. Len(s) \in Nat /\ DOMAIN s = 1..Len(s) /\ \A i \in 1..Len(s) : s[i] \in S
  BY LenProperties, ElementOfSeq
<1>2. CASE \E i \in DOMAIN s : s[i] = x
  <2> DEFINE i == CHOOSE i \in DOMAIN s : s[i] = x
  <2>1. i \in 1..Len(s)
    BY <1>1, <1>2
  <2>2. Without(s, x) = SubSeq(s, 1, i - 1) \o SubSeq(s, i + 1, Len(s))
    BY <1>2 DEF Without, RemoveAt
  <2>. HIDE DEF i
  <2>3. SubSeq(s, 1, i - 1) \in Seq(S)
    <3>1. 1 \in Int /\ i - 1 \in Int /\ \A j \in 1..i - 1 : s[j] \in S
      BY <1>1, <2>1
    <3>. QED
      BY <3>1, SubSeqProperties
  <2>4. SubSeq(s, i + 1, Len(s)) \in Seq(S)
    <3>1. i + 1 \in Int /\ Len(s) \in Int /\ \A j \in i + 1..Len(s) : s[j] \in S
      BY <1>1, <2>1
    <3>. QED
      BY <3>1, SubSeqProperties
  <2>. QED
    BY <2>2, <2>3, <2>4, ConcatProperties
<1>3. CASE ~\E i \in DOMAIN s : s[i] = x
  BY <1>3 DEF Without
<1>. QED
  BY <1>2, <1>3

LEMMA TablesKeep ==
    ASSUME NEW o, NEW F, Tabled(o, F), NEW l \in Lists, NEW s \in Seq(Ids[l] \ F)
    PROVE  Tabled([o EXCEPT ![l] = s], F)
<1>1. s \in Seq(AnyRow)
  BY SeqMonotonic DEF AnyRow
<1>. QED
  BY <1>1 DEF Tabled

LEMMA RowToFront ==
    ASSUME NEW F, Tabled(order, F), NEW l \in Lists, NEW x \in Ids[l] \ F
    PROVE  Tabled(ToFront(l, x), F)
<1> DEFINE s == <<x>> \o Without(order[l], x)
<1>1. Without(order[l], x) \in Seq(Ids[l] \ F)
  BY WithoutOne DEF Tabled
<1>2. <<x>> \in Seq(Ids[l] \ F)
  OBVIOUS
<1>3. s \in Seq(Ids[l] \ F)
  BY <1>1, <1>2, ConcatProperties
<1>4. ToFront(l, x) = [order EXCEPT ![l] = s]
  BY DEF ToFront
<1>. HIDE DEF s
<1>5. Tabled([order EXCEPT ![l] = s], F)
  BY <1>3, TablesKeep
<1>. QED
  BY <1>4, <1>5, Zenon

LEMMA RowGone ==
    ASSUME NEW F, Tabled(order, F), NEW l \in Lists, NEW x
    PROVE  Tabled([order EXCEPT ![l] = Without(@, x)], F)
<1>1. Without(order[l], x) \in Seq(Ids[l] \ F)
  BY WithoutOne DEF Tabled
<1>. QED
  BY <1>1, TablesKeep

\* Ids that are taken stay taken.
LEMMA TablesLast ==
    ASSUME NEW o, NEW F, NEW G \in SUBSET F, Tabled(o, F) PROVE Tabled(o, G)
<1>1. \A l \in Lists : o[l] \in Seq(Ids[l] \ G)
  <2> SUFFICES ASSUME NEW l \in Lists PROVE o[l] \in Seq(Ids[l] \ G)
    OBVIOUS
  <2>1. Ids[l] \ F \subseteq Ids[l] \ G
    OBVIOUS
  <2>. QED
    BY <2>1, SeqMonotonic DEF Tabled
<1>. QED
  BY <1>1 DEF Tabled

LEMMA StepsLast ==
    ASSUME NEW S, NEW F, NEW G \in SUBSET F, Numbered(S, F) PROVE Numbered(S, G)
BY DEF Numbered

LEMMA WellLast ==
    ASSUME NEW u, NEW F, NEW G \in SUBSET F, UiWell(u, F) PROVE UiWell(u, G)
<1>1. \A l \in Lists : u.rows[l] \in Seq(Ids[l] \ G)
  <2> SUFFICES ASSUME NEW l \in Lists PROVE u.rows[l] \in Seq(Ids[l] \ G)
    OBVIOUS
  <2>1. Ids[l] \ F \subseteq Ids[l] \ G
    OBVIOUS
  <2>. QED
    BY <2>1, SeqMonotonic DEF UiWell
<1>2. EditorFits(u.editor, G)
  BY DEF UiWell, EditorFits
<1>. QED
  BY <1>1, <1>2 DEF UiWell

-----------------------------------------------------------------------------
(* A refresh *)

\* What is selected is within the lists.
InLists(u, F) ==
    /\ u.index \in [Lists -> Nat]
    /\ \A l \in Lists :
          /\ u.rows[l] \in Seq(Ids[l] \ F)
          /\ u.index[l] < Len(u.rows[l]) \/ (u.rows[l] = <<>> /\ u.index[l] = 0)

LEMMA ClampFits ==
    ASSUME NEW i \in Nat, NEW n \in Nat
    PROVE  Clamp(i, n) \in Nat /\ (Clamp(i, n) < n \/ (n = 0 /\ Clamp(i, n) = 0))
BY DEF Clamp

LEMMA UpAndDown ==
    ASSUME NEW i \in Nat, NEW n \in Nat
    PROVE  Up(i, n) \in Nat /\ Down(i) \in Nat
BY DEF Up, Down, Clamp

LEMMA ListsNamed ==
    /\ \A l \in {"runs", "sessions", "plans", "approvals", "jobs", "activity"} : l \in Lists
    /\ \A l \in Lists : Ids[l] \subseteq AnyRow
BY ScreenAssumption DEF AnyRow

LEMMA SelectedRow ==
    ASSUME NEW F, NEW u, InLists(u, F), NEW l \in Lists
    PROVE  /\ Selected(u, l) = Nothing \/ Selected(u, l) \in Ids[l] \ F
           /\ Selected(u, l) \in AnyRow \cup {Nothing}
<1>1. CASE u.rows[l] = <<>>
  BY <1>1 DEF Selected
<1>2. CASE u.rows[l] # <<>>
  <2>1. u.index[l] \in Nat /\ u.index[l] < Len(u.rows[l]) /\ u.rows[l] \in Seq(Ids[l] \ F)
    BY <1>2 DEF InLists
  <2>2. \A k, n \in Nat : k < n => k + 1 \in 1..n
    OBVIOUS
  <2>3. u.index[l] + 1 \in 1..Len(u.rows[l])
    BY <2>1, <2>2, LenProperties
  <2>4. u.rows[l][u.index[l] + 1] \in Ids[l] \ F
    BY <2>1, <2>3, ElementOfSeq
  <2>. QED
    BY <1>2, <2>4, ListsNamed DEF Selected
<1>. QED
  BY <1>1, <1>2

LEMMA FilesCounted ==
    ASSUME NEW F, NEW u, InLists(u, F)
    PROVE  FilesShown(u) \in Nat /\ FilesOf(ReviewRun(u)) \in Nat
<1>1. Selected(u, "runs") = Nothing \/ Selected(u, "runs") \in Ids["runs"]
  BY SelectedRow, ListsNamed
<1>2. Selected(u, "jobs") = Nothing \/ Selected(u, "jobs") \in Ids["jobs"]
  BY SelectedRow, ListsNamed
<1>3. ReviewRun(u) = Nothing \/ ReviewRun(u) \in Ids["runs"]
  BY <1>1, <1>2, ScreenAssumption DEF ReviewRun
<1>4. \A run : run = Nothing \/ run \in Ids["runs"] => FilesOf(run) \in Nat
  BY ScreenAssumption DEF FilesOf
<1>. QED
  BY <1>1, <1>3, <1>4 DEF FilesShown

LEMMA ListsRead ==
    ASSUME NEW F, NEW u, UiWell(u, F), NEW o, Tabled(o, F), NEW c \in Cursors
    PROVE  /\ UiWell(ReadLists(u, o, c), F) /\ InLists(ReadLists(u, o, c), F)
           /\ ReadLists(u, o, c).busy = u.busy /\ ReadLists(u, o, c).editor = u.editor
           /\ ReadLists(u, o, c).view = u.view /\ ReadLists(u, o, c).drawn = u.drawn
<1> DEFINE rows == [l \in Lists |-> IF Len(o[l]) <= Limit[l] THEN o[l] ELSE SubSeq(o[l], 1, Limit[l])]
           index == [l \in Lists |-> Clamp(u.index[l], Len(rows[l]))]
           r == [u EXCEPT !.rows = rows, !.cursors = c, !.index = index]
<1>1. ReadLists(u, o, c) = r
  BY DEF ReadLists
<1>2. \A l \in Lists : rows[l] \in Seq(Ids[l] \ F)
  <2> SUFFICES ASSUME NEW l \in Lists PROVE rows[l] \in Seq(Ids[l] \ F)
    OBVIOUS
  <2>1. o[l] \in Seq(Ids[l] \ F) /\ Limit[l] \in Nat \ {0}
    BY ScreenAssumption DEF Tabled
  <2>2. ASSUME ~(Len(o[l]) <= Limit[l]) PROVE SubSeq(o[l], 1, Limit[l]) \in Seq(Ids[l] \ F)
    <3>1. Len(o[l]) \in Nat
      BY <2>1, LenProperties
    <3>2. \A i \in 1..Limit[l] : i \in 1..Len(o[l])
      BY <2>1, <2>2, <3>1
    <3>3. \A i \in 1..Limit[l] : o[l][i] \in Ids[l] \ F
      BY <2>1, <3>2, ElementOfSeq
    <3>. QED
      BY <2>1, <3>3, SubSeqProperties
  <2>. QED
    BY <2>1, <2>2
<1>3. rows \in [Lists -> Seq(AnyRow)]
  <2>1. \A l \in Lists : rows[l] \in Seq(AnyRow)
    <3> SUFFICES ASSUME NEW l \in Lists PROVE rows[l] \in Seq(AnyRow)
      OBVIOUS
    <3>1. Ids[l] \ F \subseteq AnyRow
      BY ListsNamed
    <3>. HIDE DEF rows
    <3>. QED
      BY <1>2, <3>1, SeqMonotonic
  <2>. QED
    BY <2>1
<1>. HIDE DEF rows
<1>4. \A l \in Lists : /\ index[l] \in Nat
                       /\ index[l] < Len(rows[l]) \/ (rows[l] = <<>> /\ index[l] = 0)
  <2> SUFFICES ASSUME NEW l \in Lists
               PROVE  /\ index[l] \in Nat
                      /\ index[l] < Len(rows[l]) \/ (rows[l] = <<>> /\ index[l] = 0)
    OBVIOUS
  <2>1. u.index[l] \in Nat /\ Len(rows[l]) \in Nat
    BY <1>2, LenProperties DEF UiWell, Uis
  <2>2. Len(rows[l]) = 0 => rows[l] = <<>>
    BY <1>2, EmptySeq
  <2>. QED
    BY <2>1, <2>2, ClampFits
<1>5. index \in [Lists -> Nat]
  BY <1>4
<1>. HIDE DEF index
<1>6. /\ r \in Uis /\ r.rows = rows /\ r.index = index /\ r.busy = u.busy /\ r.editor = u.editor
      /\ r.view = u.view /\ r.drawn = u.drawn /\ r.shown = u.shown /\ r.palette = u.palette
  BY <1>3, <1>5 DEF UiWell, Uis
<1>. HIDE DEF r
<1>7. UiWell(r, F)
  BY <1>2, <1>6 DEF UiWell, WidgetsFit
<1>8. InLists(r, F)
  BY <1>2, <1>4, <1>5, <1>6 DEF InLists
<1>. QED
  BY <1>1, <1>6, <1>7, <1>8

\* Whatever index, view and files there were: a refresh ends with a selection
\* that is within the lists, and drawn.
LEMMA Refreshed ==
    ASSUME NEW F, NEW u, UiWell(u, F), NEW o, Tabled(o, F), NEW c \in Cursors
    PROVE  /\ UiFits(RefreshDashboard(u, o, c), F)
           /\ RefreshDashboard(u, o, c).busy = u.busy
           /\ RefreshDashboard(u, o, c).editor = u.editor
<1> DEFINE r == ReadLists(u, o, c)
           d == Clamp(r.diff, FilesShown(r))
           v == [r EXCEPT !.diff = d]
           drawn == [l \in Lists |-> Selected(v, l)]
           w == [v EXCEPT !.drawn = drawn]
<1>1. RefreshDashboard(u, o, c) = w
  BY DEF RefreshDashboard, DrawPanes
<1>2. UiWell(r, F) /\ InLists(r, F) /\ r.busy = u.busy /\ r.editor = u.editor
  BY ListsRead
<1>. HIDE DEF r
<1>3. r.diff \in Nat /\ FilesShown(r) \in Nat
  BY <1>2, FilesCounted DEF UiWell, Uis
<1>4. d \in Nat /\ (d = 0 \/ d < FilesShown(r))
  BY <1>3, ClampFits
<1>. HIDE DEF d
<1>5. /\ v \in Uis /\ v.diff = d /\ v.rows = r.rows /\ v.index = r.index /\ v.busy = r.busy
      /\ v.editor = r.editor /\ v.view = r.view /\ v.shown = r.shown /\ v.palette = r.palette
  BY <1>2, <1>4 DEF UiWell, Uis
<1>. HIDE DEF v
<1>6. InLists(v, F)
  BY <1>2, <1>5 DEF InLists
<1>7. drawn \in [Lists -> AnyRow \cup {Nothing}]
  BY <1>6, SelectedRow
<1>7b. \A l \in Lists : drawn[l] = Selected(v, l)
  OBVIOUS
<1>. HIDE DEF drawn
<1>8. /\ w \in Uis /\ w.diff = d /\ w.rows = r.rows /\ w.index = r.index /\ w.busy = r.busy
      /\ w.editor = r.editor /\ w.view = r.view /\ w.shown = r.shown /\ w.palette = r.palette
      /\ w.drawn = drawn
  BY <1>5, <1>7 DEF Uis
<1>. HIDE DEF w
<1>9. \A l \in Lists : Selected(w, l) = Selected(v, l) /\ Selected(w, l) = Selected(r, l)
  BY <1>5, <1>8 DEF Selected
<1>10. FilesShown(w) = FilesShown(r)
  BY <1>8, <1>9, ListsNamed DEF FilesShown, ReviewRun
<1>11. UiWell(w, F)
  BY <1>2, <1>8 DEF UiWell, WidgetsFit
<1>12. SelectionFits(w)
  BY <1>2, <1>4, <1>7b, <1>8, <1>9, <1>10 DEF SelectionFits, InLists
<1>. QED
  BY <1>1, <1>2, <1>8, <1>11, <1>12 DEF UiFits

-----------------------------------------------------------------------------
(* What handlers do to the screen *)

\* Another view, selection, focus or help: the widgets stay.
Steered(w, u) ==
    /\ w \in Uis
    /\ w.rows = u.rows /\ w.editor = u.editor /\ w.shown = u.shown /\ w.palette = u.palette
    /\ w.busy = u.busy

LEMMA SteeredWell ==
    ASSUME NEW F, NEW u, UiWell(u, F), NEW w, Steered(w, u)
    PROVE  UiWell(w, F) /\ w.busy = u.busy
BY DEF Steered, UiWell, WidgetsFit

LEMMA WellSteered ==
    ASSUME NEW F, NEW u, UiWell(u, F)
    PROVE  Steered(u, u)
BY DEF Steered, UiWell

LEMMA SteeredBy ==
    ASSUME NEW F, NEW u, UiWell(u, F),
           NEW v \in Views, NEW index \in [Lists -> Nat], NEW d \in Nat, NEW f \in {"targets", "files"}
    PROVE  /\ Steered([u EXCEPT !.view = v], u)
           /\ Steered([u EXCEPT !.view = v, !.focus = f], u)
           /\ Steered([u EXCEPT !.view = v, !.index = index], u)
           /\ Steered([u EXCEPT !.index = index], u)
           /\ Steered([u EXCEPT !.index = index, !.focus = f], u)
           /\ Steered([u EXCEPT !.diff = d], u)
           /\ Steered([u EXCEPT !.diff = d, !.focus = f], u)
           /\ Steered([u EXCEPT !.focus = f], u)
           /\ Steered([u EXCEPT !.help = ~@], u)
<1>. u \in Uis
  BY DEF UiWell
<1>1. Steered([u EXCEPT !.view = v], u) /\ Steered([u EXCEPT !.view = v, !.focus = f], u)
  BY DEF Steered, Uis
<1>2. Steered([u EXCEPT !.view = v, !.index = index], u)
  BY DEF Steered, Uis
<1>3. Steered([u EXCEPT !.index = index], u) /\ Steered([u EXCEPT !.index = index, !.focus = f], u)
  BY DEF Steered, Uis
<1>4. Steered([u EXCEPT !.diff = d], u) /\ Steered([u EXCEPT !.diff = d, !.focus = f], u)
  BY DEF Steered, Uis
<1>5. Steered([u EXCEPT !.focus = f], u) /\ Steered([u EXCEPT !.help = ~@], u)
  BY DEF Steered, Uis
<1>. QED
  BY <1>1, <1>2, <1>3, <1>4, <1>5

LEMMA NoEditorFits == NoEditor \in Editors /\ \A F : EditorFits(NoEditor, F)
BY DEF NoEditor, Editors, EditorFits, Modes, AnyRow

LEMMA EditorClosedWell ==
    ASSUME NEW F, NEW u, UiWell(u, F)
    PROVE  UiWell(EditorClosed(u), F) /\ EditorClosed(u).busy = u.busy
<1> DEFINE shown == (u.shown \ {"editor", "editor-area"}) \cup {"composer"}
           w == [u EXCEPT !.editor = NoEditor, !.shown = shown]
<1>1. EditorClosed(u) = w
  BY DEF EditorClosed
<1>2. u \in Uis /\ u.shown \in SUBSET Widgets
  BY DEF UiWell, Uis
<1>3. /\ shown \in SUBSET Widgets /\ shown # {}
      /\ ("palette" \in shown) = ("palette" \in u.shown)
      /\ shown \cap {"editor", "editor-area"} = {}
  BY <1>2 DEF Widgets
<1>. HIDE DEF shown
<1>4. /\ w \in Uis /\ w.shown = shown /\ w.editor = NoEditor /\ w.rows = u.rows
      /\ w.palette = u.palette /\ w.busy = u.busy
  BY <1>2, <1>3, NoEditorFits DEF Uis
<1>. HIDE DEF w
<1>5. WidgetsFit(w)
  BY <1>3, <1>4 DEF WidgetsFit, UiWell
<1>. QED
  BY <1>1, <1>4, <1>5, NoEditorFits DEF UiWell

LEMMA PaletteClosedWell ==
    ASSUME NEW F, NEW u, UiWell(u, F),
           NEW w, w = [u EXCEPT !.palette = FALSE, !.shown = (@ \ {"palette"}) \cup {"composer"}]
    PROVE  UiWell(w, F) /\ w.busy = u.busy
<1> DEFINE shown == (u.shown \ {"palette"}) \cup {"composer"}
<1>1. u \in Uis /\ u.shown \in SUBSET Widgets
  BY DEF UiWell, Uis
<1>2. /\ shown \in SUBSET Widgets /\ shown # {} /\ "palette" \notin shown
      /\ shown \cap {"editor", "editor-area"} = u.shown \cap {"editor", "editor-area"}
  BY <1>1 DEF Widgets
<1>3. w = [u EXCEPT !.palette = FALSE, !.shown = shown]
  OBVIOUS
<1>. HIDE DEF shown
<1>4. /\ w \in Uis /\ w.shown = shown /\ w.editor = u.editor /\ w.rows = u.rows
      /\ w.palette = FALSE /\ w.busy = u.busy
  BY <1>1, <1>2, <1>3 DEF Uis
<1>5. w.palette = ("palette" \in w.shown)
  <2>1. ~w.palette /\ w.palette \in BOOLEAN
    BY <1>4
  <2>2. ~("palette" \in w.shown)
    BY <1>2, <1>4
  <2>3. ("palette" \in w.shown) \in BOOLEAN
    OBVIOUS
  <2>. QED
    BY <2>1, <2>2, <2>3, SameTruth, Zenon
<1>6. w.shown # {} /\ w.shown \cap {"editor", "editor-area"} = u.shown \cap {"editor", "editor-area"}
  BY <1>2, <1>4
<1>7. WidgetsFit(w)
  BY <1>4, <1>5, <1>6 DEF WidgetsFit, UiWell
<1>. QED
  BY <1>4, <1>7 DEF UiWell

LEMMA PaletteOpenedWell ==
    ASSUME NEW F, NEW u, UiWell(u, F),
           NEW w, w = [u EXCEPT !.palette = TRUE, !.shown = (@ \ {"composer"}) \cup {"palette"}]
    PROVE  UiWell(w, F) /\ w.busy = u.busy
<1> DEFINE shown == (u.shown \ {"composer"}) \cup {"palette"}
<1>1. u \in Uis /\ u.shown \in SUBSET Widgets
  BY DEF UiWell, Uis
<1>2. /\ shown \in SUBSET Widgets /\ shown # {} /\ "palette" \in shown
      /\ shown \cap {"editor", "editor-area"} = u.shown \cap {"editor", "editor-area"}
  BY <1>1 DEF Widgets
<1>3. w = [u EXCEPT !.palette = TRUE, !.shown = shown]
  OBVIOUS
<1>. HIDE DEF shown
<1>4. /\ w \in Uis /\ w.shown = shown /\ w.editor = u.editor /\ w.rows = u.rows
      /\ w.palette = TRUE /\ w.busy = u.busy
  BY <1>1, <1>2, <1>3 DEF Uis
<1>5. WidgetsFit(w)
  BY <1>2, <1>4 DEF WidgetsFit, UiWell
<1>. QED
  BY <1>4, <1>5 DEF UiWell

LEMMA ClosedWell ==
    ASSUME NEW F, NEW u, UiWell(u, F)
    PROVE  UiWell(Closed(u), F) /\ Closed(u).busy = u.busy
<1>1. CASE u.editor # NoEditor
  BY <1>1, EditorClosedWell DEF Closed
<1>2. CASE u.editor = NoEditor /\ u.help
  <2> DEFINE w == [u EXCEPT !.help = FALSE]
  <2>1. Closed(u) = w
    BY <1>2 DEF Closed
  <2>2. Steered(w, u)
    BY DEF UiWell, Uis, Steered
  <2>. HIDE DEF w
  <2>. QED
    BY <2>1, <2>2, SteeredWell
<1>3. CASE u.editor = NoEditor /\ ~u.help /\ u.palette
  BY <1>3, PaletteClosedWell DEF Closed
<1>4. CASE u.editor = NoEditor /\ ~u.help /\ ~u.palette
  BY <1>4 DEF Closed
<1>5. u.help \in BOOLEAN /\ u.palette \in BOOLEAN
  BY DEF UiWell, Uis
<1>. QED
  BY <1>1, <1>2, <1>3, <1>4, <1>5

\* The screen is refreshed in the end, whatever was written before.
LEMMA EndsRefreshed ==
    ASSUME ScreenSound, NEW u, UiWell(u, fresh'), ui' = RefreshDashboard(u, order', cursor'),
           Tabled(order', fresh'), Numbered(steps', fresh'), cursor' \in Cursors,
           GoalFits(goal', u.busy), live' \subseteq Ids["runs"], bound' \in Bounds,
           (commanded' \cup edited') \cap fresh' = {}
    PROVE  ScreenSound'
<1>1. /\ UiFits(RefreshDashboard(u, order', cursor'), fresh')
      /\ RefreshDashboard(u, order', cursor').busy = u.busy
  BY Refreshed
<1>2. UiFits(ui', fresh') /\ ui'.busy = u.busy
  BY <1>1, Zenon
<1>3. GoalFits(goal', ui'.busy)
  BY <1>2
<1>. QED
  BY <1>2, <1>3 DEF ScreenSound

LEMMA HandledSound ==
    ASSUME ScreenSound, NEW u, UiWell(u, fresh), u.busy = ui.busy, Handled(u)
    PROVE  ScreenSound'
<1>1. /\ order' = order /\ fresh' = fresh /\ steps' = steps /\ cursor' = cursor
      /\ goal' = goal /\ live' = live /\ bound' = bound /\ commanded' = {} /\ edited' = {}
      /\ ui' = RefreshDashboard(u, order, cursor)
  BY DEF Handled, database, WritesNothing
<1>2. UiWell(u, fresh') /\ ui' = RefreshDashboard(u, order', cursor') /\ GoalFits(goal', u.busy)
  BY <1>1 DEF ScreenSound
<1>3. /\ Tabled(order', fresh') /\ Numbered(steps', fresh') /\ cursor' \in Cursors
      /\ live' \subseteq Ids["runs"] /\ bound' \in Bounds /\ (commanded' \cup edited') \cap fresh' = {}
  BY <1>1 DEF ScreenSound
<1>. QED
  BY <1>2, <1>3, EndsRefreshed

LEMMA SteeredSound ==
    ASSUME ScreenSound, NEW u, Steered(u, ui), Handled(u) \/ Handled(Closed(u))
    PROVE  ScreenSound'
<1>1. UiWell(u, fresh) /\ u.busy = ui.busy
  BY SteeredWell DEF ScreenSound, UiFits
<1>2. UiWell(Closed(u), fresh) /\ Closed(u).busy = ui.busy
  BY <1>1, ClosedWell
<1>. QED
  BY <1>1, <1>2, HandledSound

LEMMA SoundInLists ==
    ASSUME ScreenSound
    PROVE  /\ InLists(ui, fresh) /\ UiWell(ui, fresh) /\ ui \in Uis
           /\ \A l \in Lists : Selected(ui, l) # Nothing => Selected(ui, l) \in Ids[l] \ fresh
<1>1. UiWell(ui, fresh) /\ SelectionFits(ui) /\ ui \in Uis
  BY DEF ScreenSound, UiFits, UiWell
<1>2. InLists(ui, fresh)
  BY <1>1 DEF InLists, UiWell, SelectionFits, Uis
<1>. QED
  BY <1>1, <1>2, SelectedRow

LEMMA IndexMoves ==
    ASSUME ScreenSound, NEW l \in Lists, NEW k \in Nat
    PROVE  /\ Steered([ui EXCEPT !.index[l] = k], ui)
           /\ Steered([ui EXCEPT !.index[l] = k, !.focus = "targets"], ui)
           /\ \A v \in Views : Steered([ui EXCEPT !.view = v, !.index[l] = k], ui)
<1> DEFINE index == [ui.index EXCEPT ![l] = k]
<1>1. UiWell(ui, fresh) /\ ui \in Uis
  BY SoundInLists
<1>2. index \in [Lists -> Nat]
  BY <1>1 DEF Uis
<1>3. [ui EXCEPT !.index[l] = k] = [ui EXCEPT !.index = index]
  OBVIOUS
<1>4. [ui EXCEPT !.index[l] = k, !.focus = "targets"] = [ui EXCEPT !.index = index, !.focus = "targets"]
  OBVIOUS
<1>5. ASSUME NEW v \in Views
      PROVE  [ui EXCEPT !.view = v, !.index[l] = k] = [ui EXCEPT !.view = v, !.index = index]
  BY <1>1 DEF Uis
<1>. HIDE DEF index
<1>6. Steered([ui EXCEPT !.index = index], ui) /\ Steered([ui EXCEPT !.index = index, !.focus = "targets"], ui)
  BY <1>1, <1>2 DEF Steered, Uis
<1>7. ASSUME NEW v \in Views PROVE Steered([ui EXCEPT !.view = v, !.index = index], ui)
  BY <1>1, <1>2 DEF Steered, Uis
<1>. QED
  BY <1>3, <1>4, <1>5, <1>6, <1>7, Zenon

LEMMA PlacesAreIndices ==
    ASSUME ScreenSound, NEW l \in Lists
    PROVE  /\ ui.index[l] \in Nat /\ Len(ui.rows[l]) \in Nat /\ DOMAIN ui.rows[l] = 1..Len(ui.rows[l])
           /\ \A i \in DOMAIN ui.rows[l] : i \in Nat /\ i - 1 \in Nat /\ i <= Len(ui.rows[l])
<1>1. ui.index[l] \in Nat /\ ui.rows[l] \in Seq(Ids[l] \ fresh)
  BY SoundInLists DEF InLists
<1>2. Len(ui.rows[l]) \in Nat /\ DOMAIN ui.rows[l] = 1..Len(ui.rows[l])
  BY <1>1, LenProperties
<1>3. \A n \in Nat : \A i \in 1..n : i \in Nat /\ i - 1 \in Nat /\ i <= n
  OBVIOUS
<1>. QED
  BY <1>1, <1>2, <1>3, Zenon

LEMMA StripFits ==
    ASSUME NEW n \in Nat, NEW selected \in Nat, NEW i \in Strip(n, selected)
    PROVE  i - 1 \in Nat
<1>1. Slots \in Nat \ {0} /\ Slots \div 2 \in Nat
  BY ScreenAssumption
<1> DEFINE first == IF n <= Slots THEN 0
                    ELSE IF selected < Slots \div 2 THEN 0
                    ELSE IF selected - Slots \div 2 > n - Slots THEN n - Slots
                    ELSE selected - Slots \div 2
           last == first + (IF n <= Slots THEN n ELSE Slots)
<1>2. first \in Nat
  BY <1>1
<1>3. last \in Nat /\ i \in first + 1..last
  BY <1>1, <1>2 DEF Strip
<1>. HIDE DEF first, last
<1>. QED
  BY <1>2, <1>3

-----------------------------------------------------------------------------
(* Views, selection and widgets *)

LEMMA MovedSteered ==
    ASSUME ScreenSound, NEW forward \in BOOLEAN
    PROVE  Steered(Moved(ui, forward), ui)
<1> DEFINE l == ListOf(ui.view)
           n == FilesOf(ReviewRun(ui))
<1>1. UiWell(ui, fresh) /\ ui \in Uis /\ ui.diff \in Nat /\ n \in Nat
  BY SoundInLists, FilesCounted DEF Uis
<1>. HIDE DEF n
<1>2. CASE ui.view = "review" /\ ui.focus = "files"
  <2> DEFINE d == IF forward THEN (IF n = 0 THEN ui.diff ELSE Up(ui.diff, n)) ELSE Down(ui.diff)
  <2>1. Moved(ui, forward) = [ui EXCEPT !.diff = d]
    BY <1>2 DEF Moved, n
  <2>2. d \in Nat
    BY <1>1, UpAndDown
  <2>. HIDE DEF d
  <2>3. Steered([ui EXCEPT !.diff = d], ui)
    BY <1>1, <2>2 DEF Steered, Uis
  <2>. QED
    BY <2>1, <2>3
<1>3. CASE ~(ui.view = "review" /\ ui.focus = "files") /\ l \in Lists /\ ui.rows[l] # <<>>
  <2> DEFINE k == IF forward THEN Up(ui.index[l], Len(ui.rows[l])) ELSE Down(ui.index[l])
  <2>1. Moved(ui, forward) = [ui EXCEPT !.index[l] = k]
    BY <1>3 DEF Moved
  <2>2. k \in Nat
    BY <1>3, PlacesAreIndices, UpAndDown
  <2>. HIDE DEF k, l
  <2>. QED
    BY <1>3, <2>1, <2>2, IndexMoves
<1>4. CASE ~(ui.view = "review" /\ ui.focus = "files") /\ ~(l \in Lists /\ ui.rows[l] # <<>>)
  BY <1>1, <1>4, WellSteered DEF Moved
<1>. QED
  BY <1>2, <1>3, <1>4

LEMMA ViewsKeepSound ==
    ASSUME ScreenSound,
           \/ Refresh \/ ToggleReviewFocus \/ ToggleHelp \/ OtherCommand
           \/ \E v \in bound.views : SwitchView(v) \/ FocusView(v)
           \/ \E forward \in BOOLEAN : MoveSelection(forward) \/ NextDiffFile(forward)
    PROVE  ScreenSound'
<1>1. UiWell(ui, fresh) /\ ui \in Uis /\ ui.diff \in Nat /\ bound.views \subseteq Views
  BY SoundInLists DEF Uis, ScreenSound, Bounds
<1>2. CASE Refresh \/ OtherCommand
  BY <1>1, <1>2, WellSteered, SteeredSound DEF Refresh, OtherCommand
<1>3. CASE ToggleReviewFocus
  <2> DEFINE w == [ui EXCEPT !.focus = IF @ = "targets" THEN "files" ELSE "targets"]
  <2>1. Steered(w, ui)
    BY <1>1 DEF Steered, Uis
  <2>2. Handled(w)
    BY <1>3 DEF ToggleReviewFocus
  <2>. HIDE DEF w
  <2>. QED
    BY <2>1, <2>2, SteeredSound
<1>4. CASE ToggleHelp
  <2> DEFINE w == [ui EXCEPT !.help = ~@]
  <2>1. Steered(w, ui)
    BY <1>1 DEF Steered, Uis
  <2>2. Handled(w)
    BY <1>4 DEF ToggleHelp
  <2>. HIDE DEF w
  <2>. QED
    BY <2>1, <2>2, SteeredSound
<1>5. ASSUME NEW v \in bound.views, SwitchView(v) PROVE ScreenSound'
  <2> DEFINE w == [ui EXCEPT !.view = v, !.focus = IF v = "review" THEN "targets" ELSE @]
  <2>1. Steered(w, ui)
    BY <1>1 DEF Steered, Uis
  <2>2. Handled(w)
    BY <1>5 DEF SwitchView
  <2>. HIDE DEF w
  <2>. QED
    BY <2>1, <2>2, SteeredSound
<1>6. ASSUME NEW v \in bound.views, FocusView(v) PROVE ScreenSound'
  <2> DEFINE w == [ui EXCEPT !.view = v]
  <2>1. Steered(w, ui)
    BY <1>1 DEF Steered, Uis
  <2>2. Handled(Closed(w))
    BY <1>6 DEF FocusView
  <2>. HIDE DEF w
  <2>. QED
    BY <2>1, <2>2, SteeredSound
<1>7. ASSUME NEW forward \in BOOLEAN, MoveSelection(forward) PROVE ScreenSound'
  BY <1>7, MovedSteered, SteeredSound DEF MoveSelection
<1>8. ASSUME NEW forward \in BOOLEAN, NextDiffFile(forward) PROVE ScreenSound'
  <2> DEFINE d == IF forward THEN ui.diff + 1 ELSE Down(ui.diff)
             w == [ui EXCEPT !.diff = d]
  <2>1. d \in Nat
    BY <1>1 DEF Down
  <2>2. Handled(w)
    BY <1>8 DEF NextDiffFile
  <2>. HIDE DEF d
  <2>3. Steered(w, ui)
    BY <1>1, <2>1 DEF Steered, Uis
  <2>. HIDE DEF w
  <2>. QED
    BY <2>2, <2>3, SteeredSound
<1>. QED
  BY <1>2, <1>3, <1>4, <1>5, <1>6, <1>7, <1>8

\* A handler that draws nothing: the selection is drawn as it was.
LEMMA WidgetsSound ==
    ASSUME ScreenSound, UiWell(ui', fresh), ui'.busy = ui.busy,
           ui'.view = ui.view, ui'.index = ui.index, ui'.rows = ui.rows, ui'.diff = ui.diff,
           ui'.drawn = ui.drawn,
           UNCHANGED <<database, goal, live, bound>>, WritesNothing
    PROVE  ScreenSound'
<1>1. /\ order' = order /\ fresh' = fresh /\ steps' = steps /\ cursor' = cursor
      /\ goal' = goal /\ live' = live /\ bound' = bound /\ commanded' = {} /\ edited' = {}
  BY DEF database, WritesNothing
<1>2. \A l \in Lists : Selected(ui', l) = Selected(ui, l)
  BY DEF Selected
<1>3. FilesShown(ui') = FilesShown(ui)
  BY <1>2, ListsNamed DEF FilesShown, ReviewRun
<1>4. SelectionFits(ui')
  BY <1>2, <1>3 DEF SelectionFits, ScreenSound, UiFits
<1>5. UiFits(ui', fresh')
  BY <1>1, <1>4 DEF UiFits
<1>6. GoalFits(goal', ui'.busy)
  BY <1>1 DEF ScreenSound
<1>. QED
  BY <1>1, <1>5, <1>6 DEF ScreenSound

\* The editor and the palette: what is closed first does not matter.
LEMMA WidgetsKeepSound ==
    ASSUME ScreenSound, TogglePalette \/ Escape
    PROVE  ScreenSound'
<1>1. UiWell(ui, fresh) /\ ui \in Uis
  BY SoundInLists
<1>2. CASE TogglePalette
  <2>1. UNCHANGED <<database, goal, live, bound>> /\ WritesNothing
    BY <1>2 DEF TogglePalette
  <2>2. UiWell(ui', fresh) /\ ui'.busy = ui.busy
    BY <1>1, <1>2, PaletteClosedWell, PaletteOpenedWell DEF TogglePalette
  <2>3. /\ ui'.view = ui.view /\ ui'.index = ui.index /\ ui'.rows = ui.rows /\ ui'.diff = ui.diff
        /\ ui'.drawn = ui.drawn
    BY <1>1, <1>2 DEF TogglePalette, Uis
  <2>. QED
    BY <2>1, <2>2, <2>3, WidgetsSound
<1>3. CASE Escape /\ ui.editor = NoEditor /\ ui.help
  <2>1. Handled(Closed(ui))
    BY <1>3 DEF Escape
  <2>. QED
    BY <1>1, <2>1, WellSteered, SteeredSound
<1>4. CASE Escape /\ ~(ui.editor = NoEditor /\ ui.help)
  <2>1. ui' = Closed(ui) /\ UNCHANGED <<database, goal, live, bound>> /\ WritesNothing
    BY <1>4 DEF Escape
  <2>2. UiWell(ui', fresh) /\ ui'.busy = ui.busy
    BY <1>1, <2>1, ClosedWell
  <2>3. /\ ui'.view = ui.view /\ ui'.index = ui.index /\ ui'.rows = ui.rows /\ ui'.diff = ui.diff
        /\ ui'.drawn = ui.drawn
    <3>1. CASE ui.editor # NoEditor
      BY <1>1, <2>1, <3>1 DEF Closed, EditorClosed, Uis
    <3>2. CASE ui.editor = NoEditor /\ ~ui.help /\ ui.palette
      BY <1>1, <2>1, <3>2 DEF Closed, Uis
    <3>3. CASE ui.editor = NoEditor /\ ~ui.help /\ ~ui.palette
      BY <1>1, <2>1, <3>3 DEF Closed, Uis
    <3>. QED
      BY <1>4, <3>1, <3>2, <3>3
  <2>. QED
    BY <2>1, <2>2, <2>3, WidgetsSound
<1>. QED
  BY <1>2, <1>3, <1>4

LEMMA OpenTargetSound ==
    ASSUME ScreenSound, NEW l \in Lists, OpenTarget(l)
    PROVE  ScreenSound'
<1>1. PICK i \in DOMAIN ui.rows[l] : Handled(Closed([ui EXCEPT !.view = l, !.index[l] = i - 1]))
  BY DEF OpenTarget
<1> DEFINE w == [ui EXCEPT !.view = l, !.index[l] = i - 1]
<1>2. i - 1 \in Nat /\ l \in Views
  BY PlacesAreIndices DEF Views
<1>3. Steered(w, ui)
  BY <1>2, IndexMoves
<1>. HIDE DEF w
<1>. QED
  BY <1>1, <1>3, SteeredSound DEF w

\* A button or a command that points at a row or a file of the review.
LEMMA ReviewedSound ==
    ASSUME ScreenSound, NEW u, Steered(u, ui), Reviewed(u)
    PROVE  ScreenSound'
BY SteeredSound DEF Reviewed

LEMMA ReviewsKeepSound ==
    ASSUME ScreenSound, ReviewTarget \/ ReviewFile \/ \E forward \in BOOLEAN : MoveReviewTarget(forward)
    PROVE  ScreenSound'
<1> DEFINE n == FilesOf(ReviewRun(ui))
<1>1. UiWell(ui, fresh) /\ ui \in Uis /\ ui.diff \in Nat /\ n \in Nat
  BY SoundInLists, FilesCounted DEF Uis
<1>2. "jobs" \in Lists
  BY ListsNamed
<1>3. CASE ReviewTarget
  <2>1. PICK i \in DOMAIN ui.rows["jobs"] :
           Reviewed([ui EXCEPT !.index["jobs"] = i - 1, !.focus = "targets"])
    BY <1>3 DEF ReviewTarget
  <2>2. i - 1 \in Nat
    BY <1>2, PlacesAreIndices
  <2>3. Steered([ui EXCEPT !.index["jobs"] = i - 1, !.focus = "targets"], ui)
    BY <1>2, <2>2, IndexMoves
  <2>. QED
    BY <2>1, <2>3, ReviewedSound
<1>4. CASE ReviewFile
  <2>1. PICK k \in 1..n : Reviewed([ui EXCEPT !.diff = k - 1, !.focus = "files"])
    BY <1>4 DEF ReviewFile
  <2>. HIDE DEF n
  <2>2. k - 1 \in Nat
    BY <1>1
  <2>3. Steered([ui EXCEPT !.diff = k - 1, !.focus = "files"], ui)
    BY <1>1, <2>2 DEF Steered, Uis
  <2>. QED
    BY <2>1, <2>3, ReviewedSound
<1>5. ASSUME NEW forward \in BOOLEAN, MoveReviewTarget(forward) PROVE ScreenSound'
  <2>1. CASE \E under \in (SUBSET DOMAIN ui.rows["jobs"]) \ {{}} :
               LET at == IF ui.index["jobs"] + 1 \in under THEN ui.index["jobs"] + 1 ELSE Least(under)
                   beyond == {i \in under : IF forward THEN i > at ELSE i < at}
                   target == IF beyond = {} THEN at ELSE IF forward THEN Least(beyond) ELSE Greatest(beyond)
               IN  Reviewed([ui EXCEPT !.index["jobs"] = target - 1])
    <3>1. PICK under \in (SUBSET DOMAIN ui.rows["jobs"]) \ {{}} :
               LET at == IF ui.index["jobs"] + 1 \in under THEN ui.index["jobs"] + 1 ELSE Least(under)
                   beyond == {i \in under : IF forward THEN i > at ELSE i < at}
                   target == IF beyond = {} THEN at ELSE IF forward THEN Least(beyond) ELSE Greatest(beyond)
               IN  Reviewed([ui EXCEPT !.index["jobs"] = target - 1])
      BY <2>1
    <3> DEFINE at == IF ui.index["jobs"] + 1 \in under THEN ui.index["jobs"] + 1 ELSE Least(under)
               beyond == {i \in under : IF forward THEN i > at ELSE i < at}
               target == IF beyond = {} THEN at ELSE IF forward THEN Least(beyond) ELSE Greatest(beyond)
    <3>. HIDE DEF at, beyond, target
    <3>0. \A i \in DOMAIN ui.rows["jobs"] : i \in Nat /\ i - 1 \in Nat /\ i <= Len(ui.rows["jobs"])
      BY <1>2, PlacesAreIndices
    <3>2. under \in SUBSET Nat /\ under # {} /\ \A i \in under : i - 1 \in Nat /\ i <= Len(ui.rows["jobs"])
      BY <3>0, Zenon
    <3>3. at \in under
      BY <3>2, LeastIsLeast DEF at
    <3>4. Reviewed([ui EXCEPT !.index["jobs"] = target - 1])
      BY <3>1 DEF target, beyond, at
    <3>5. beyond \in SUBSET Nat /\ \A i \in beyond : i \in under /\ i <= Len(ui.rows["jobs"])
      BY <3>2 DEF beyond
    <3>6. beyond # {} => Least(beyond) \in under /\ Greatest(beyond) \in under
      BY <1>2, <3>5, LeastIsLeast, GreatestIsGreatest, PlacesAreIndices
    <3>7. target \in under
      BY <3>3, <3>6 DEF target
    <3>8. target - 1 \in Nat
      BY <3>2, <3>7
    <3>9. Steered([ui EXCEPT !.index["jobs"] = target - 1], ui)
      BY <1>2, <3>8, IndexMoves
    <3>. QED
      BY <3>4, <3>9, ReviewedSound
  <2>2. CASE n > 0 /\ Reviewed([ui EXCEPT !.diff = IF forward THEN Up(@, n) ELSE Down(@)])
    <3> DEFINE d == IF forward THEN Up(ui.diff, n) ELSE Down(ui.diff)
    <3>1. Reviewed([ui EXCEPT !.diff = d])
      BY <2>2
    <3>. HIDE DEF n
    <3>2. d \in Nat
      BY <1>1, UpAndDown
    <3>. HIDE DEF d
    <3>3. Steered([ui EXCEPT !.diff = d], ui)
      BY <1>1, <3>2 DEF Steered, Uis
    <3>. QED
      BY <3>1, <3>3, ReviewedSound
  <2>. QED
    BY <1>5, <2>1, <2>2 DEF MoveReviewTarget
<1>. QED
  BY <1>3, <1>4, <1>5

-----------------------------------------------------------------------------
(* Commands *)

LEMMA NumbersOfSteps ==
    ASSUME NEW F, Numbered(steps, F), NEW p \in Ids["plans"]
    PROVE  /\ StepNumbers(p) \in SUBSET (Nat \ {0}) /\ steps[p] \in SUBSET StepRows
           /\ \E m \in Nat : \A n \in StepNumbers(p) : n <= m
BY DEF Numbered, StepNumbers, StepRows

LEMMA StepInserted ==
    ASSUME Numbered(steps, fresh), cursor \in Cursors,
           NEW p \in Ids["plans"], NEW after \in Nat, NEW uid \in Steps, InsertStep(p, after, uid)
    PROVE  Numbered(steps', fresh') /\ cursor' \in Cursors /\ fresh' \subseteq fresh
<1> DEFINE To(r) == [r EXCEPT !.no = IF @ > after THEN @ + 1 ELSE @]
           new == [no |-> after + 1, uid |-> uid]
           rows == {To(r) : r \in steps[p]} \cup {new}
<1>1. /\ fresh' = fresh \ {uid} /\ cursor' = cursor
      /\ steps' = [steps EXCEPT ![p] = rows]
  BY DEF InsertStep
<1>2. /\ steps \in [Ids["plans"] -> SUBSET StepRows] /\ steps[p] \in SUBSET StepRows
      /\ \A q, r \in steps[p] : q.no = r.no => q = r
      /\ \A r \in steps[p] : r.uid \notin fresh
  BY DEF Numbered
<1>3. PICK m \in Nat : \A r \in steps[p] : r.no <= m
  BY DEF Numbered
<1>4. \A r \in steps[p] : /\ r \in StepRows /\ r.no \in Nat \ {0} /\ r.uid \in Steps
                          /\ r = [no |-> r.no, uid |-> r.uid]
  BY <1>2 DEF StepRows
<1>5. \A r \in steps[p] : /\ To(r) \in StepRows /\ To(r).uid = r.uid
                          /\ To(r).no = IF r.no > after THEN r.no + 1 ELSE r.no
                          /\ To(r).no \in Nat /\ To(r).no # after + 1 /\ To(r).no <= m + 1
  BY <1>3, <1>4 DEF StepRows
<1>6. new \in StepRows /\ new.no = after + 1 /\ new.uid = uid
  BY DEF StepRows
<1>. HIDE DEF To, new
<1>7. rows \in SUBSET StepRows
  BY <1>5, <1>6
<1>8. ASSUME NEW q \in rows, NEW r \in rows, q.no = r.no PROVE q = r
  <2>1. CASE q = new \/ r = new
    BY <1>5, <1>6, <1>8, <2>1
  <2>2. CASE q # new /\ r # new
    <3>1. PICK a \in steps[p], b \in steps[p] : q = To(a) /\ r = To(b)
      BY <2>2
    <3>2. a.no = b.no
      BY <1>4, <1>5, <1>8, <3>1
    <3>. QED
      BY <1>2, <3>1, <3>2
  <2>. QED
    BY <2>1, <2>2
<1>9. \A r \in rows : r.uid \notin fresh'
  BY <1>1, <1>2, <1>5, <1>6
<1>10. \E k \in Nat : \A r \in rows : r.no <= k
  <2>1. m + after + 1 \in Nat /\ \A r \in rows : r.no <= m + after + 1
    BY <1>5, <1>6
  <2>. QED
    BY <2>1
<1>. HIDE DEF rows
<1>11. /\ steps' \in [Ids["plans"] -> SUBSET StepRows] /\ steps'[p] = rows
       /\ \A q \in Ids["plans"] \ {p} : steps'[q] = steps[q]
  BY <1>1, <1>2, <1>7
<1>12. ASSUME NEW q \in Ids["plans"]
       PROVE  /\ \A r, s \in steps'[q] : r.no = s.no => r = s
              /\ \A r \in steps'[q] : r.uid \notin fresh'
              /\ \E k \in Nat : \A r \in steps'[q] : r.no <= k
  <2>1. CASE q = p
    BY <1>8, <1>9, <1>10, <1>11, <2>1
  <2>2. CASE q # p
    BY <1>1, <1>11, <2>2 DEF Numbered
  <2>. QED
    BY <2>1, <2>2
<1>. QED
  BY <1>1, <1>11, <1>12 DEF Numbered

LEMMA StepDeleted ==
    ASSUME Numbered(steps, fresh), cursor \in Cursors,
           NEW p \in Ids["plans"], NEW n \in Nat, DeleteStep(p, n)
    PROVE  Numbered(steps', fresh') /\ cursor' \in Cursors /\ fresh' = fresh
<1> DEFINE To(r) == [r EXCEPT !.no = IF @ > n THEN @ - 1 ELSE @]
           left == {To(r) : r \in {q \in steps[p] : q.no # n}}
           behind == {r.no : r \in {q \in left : q.no >= n}}
           numbers == {r.no : r \in left}
           to == IF cursor[p] > n THEN cursor[p] - 1 ELSE IF cursor[p] < n THEN cursor[p]
                 ELSE IF behind # {} THEN Least(behind)
                 ELSE IF left # {} THEN Greatest(numbers) ELSE 1
<1>1. /\ fresh' = fresh /\ steps' = [steps EXCEPT ![p] = left] /\ n \in StepNumbers(p)
      /\ cursor' = [cursor EXCEPT ![p] = to]
  BY DEF DeleteStep
<1>2. /\ steps \in [Ids["plans"] -> SUBSET StepRows] /\ steps[p] \in SUBSET StepRows
      /\ \A q, r \in steps[p] : q.no = r.no => q = r
      /\ \A r \in steps[p] : r.uid \notin fresh
  BY DEF Numbered
<1>3. PICK m \in Nat : \A r \in steps[p] : r.no <= m
  BY DEF Numbered
<1>4. \A r \in steps[p] : /\ r \in StepRows /\ r.no \in Nat \ {0} /\ r.uid \in Steps
                          /\ r = [no |-> r.no, uid |-> r.uid]
  BY <1>2 DEF StepRows
<1>5. n > 0
  BY <1>1, NumbersOfSteps
<1>6. \A r \in steps[p] :
         r.no # n => /\ To(r) \in StepRows /\ To(r).uid = r.uid
                     /\ To(r).no = IF r.no > n THEN r.no - 1 ELSE r.no
                     /\ To(r).no \in Nat \ {0} /\ To(r).no <= m
  BY <1>3, <1>4, <1>5 DEF StepRows
<1>. HIDE DEF To
<1>7. left \in SUBSET StepRows /\ \A r \in left : r.uid \notin fresh /\ r.no \in Nat \ {0} /\ r.no <= m
  BY <1>2, <1>6
<1>8. ASSUME NEW q \in left, NEW r \in left, q.no = r.no PROVE q = r
  <2>1. PICK a \in steps[p], b \in steps[p] : a.no # n /\ b.no # n /\ q = To(a) /\ r = To(b)
    OBVIOUS
  <2>2. a.no = b.no
    BY <1>4, <1>6, <1>8, <2>1
  <2>. QED
    BY <1>2, <2>1, <2>2
<1>. HIDE DEF left
<1>9. to \in Nat \ {0}
  <2>1. cursor[p] \in Nat \ {0}
    BY DEF Cursors
  <2>2. behind \in SUBSET (Nat \ {0}) /\ numbers \in SUBSET (Nat \ {0}) /\ \A k \in numbers : k <= m
    BY <1>7
  <2>3. left # {} => numbers # {}
    OBVIOUS
  <2>. HIDE DEF behind, numbers
  <2>4. behind # {} => Least(behind) \in Nat \ {0}
    BY <2>2, LeastIsLeast
  <2>5. left # {} => Greatest(numbers) \in Nat \ {0}
    BY <2>2, <2>3, GreatestIsGreatest
  <2>. QED
    BY <1>5, <2>1, <2>4, <2>5
<1>. HIDE DEF to
<1>10. /\ steps' \in [Ids["plans"] -> SUBSET StepRows] /\ steps'[p] = left
       /\ \A q \in Ids["plans"] \ {p} : steps'[q] = steps[q]
  BY <1>1, <1>2, <1>7
<1>11. ASSUME NEW q \in Ids["plans"]
       PROVE  /\ \A r, s \in steps'[q] : r.no = s.no => r = s
              /\ \A r \in steps'[q] : r.uid \notin fresh'
              /\ \E k \in Nat : \A r \in steps'[q] : r.no <= k
  <2>1. CASE q = p
    BY <1>1, <1>7, <1>8, <1>10, <2>1
  <2>2. CASE q # p
    BY <1>1, <1>10, <2>2 DEF Numbered
  <2>. QED
    BY <2>1, <2>2
<1>12. cursor' \in Cursors
  BY <1>1, <1>9 DEF Cursors
<1>. QED
  BY <1>1, <1>10, <1>11, <1>12 DEF Numbered

\* What a command has written, and the refresh it ends with.
LEMMA CommandSound ==
    ASSUME ScreenSound, NEW u, UiWell(u, fresh), u.busy = ui.busy,
           ui' = RefreshDashboard(u, order', cursor'), UNCHANGED <<goal, live, bound>>,
           Tabled(order', fresh), fresh' \in SUBSET fresh, Numbered(steps', fresh'), cursor' \in Cursors,
           (commanded' \cup edited') \cap fresh = {}
    PROVE  ScreenSound'
<1>1. UiWell(u, fresh')
  BY WellLast
<1>2. Tabled(order', fresh')
  BY TablesLast
<1>3. GoalFits(goal', u.busy) /\ live' \subseteq Ids["runs"] /\ bound' \in Bounds
  BY DEF ScreenSound
<1>4. (commanded' \cup edited') \cap fresh' = {}
  OBVIOUS
<1>. QED
  BY <1>1, <1>2, <1>3, <1>4, EndsRefreshed

\* The selected row of a table is one that is taken, and moves to the front.
LEMMA SelectedToFront ==
    ASSUME ScreenSound, NEW l \in Lists, Selected(ui, l) # Nothing
    PROVE  /\ Selected(ui, l) \in Ids[l] \ fresh
           /\ Tabled(ToFront(l, Selected(ui, l)), fresh)
<1>1. Selected(ui, l) \in Ids[l] \ fresh
  BY SoundInLists
<1>2. Tabled(order, fresh)
  BY DEF ScreenSound
<1>. QED
  BY <1>1, <1>2, RowToFront

LEMMA ResolveSelectedSound ==
    ASSUME ScreenSound, ResolveSelected
    PROVE  ScreenSound'
<1> DEFINE a == Selected(ui, "approvals")
<1>1. /\ a # Nothing /\ order' = [order EXCEPT !["approvals"] = Without(@, a)]
      /\ commanded' \subseteq {a} /\ fresh' = fresh /\ steps' = steps /\ cursor' = cursor
      /\ ui' = RefreshDashboard(Closed(ui), order', cursor') /\ UNCHANGED <<goal, live, bound>>
      /\ edited' = {}
  BY DEF ResolveSelected, EndCommand
<1>2. "approvals" \in Lists
  BY ListsNamed
<1>3. a \notin fresh
  BY <1>1, <1>2, SoundInLists
<1>. HIDE DEF a
<1>4. Tabled(order', fresh)
  BY <1>1, <1>2, RowGone DEF ScreenSound
<1>5. UiWell(Closed(ui), fresh) /\ Closed(ui).busy = ui.busy
  BY SoundInLists, ClosedWell
<1>6. Numbered(steps', fresh') /\ cursor' \in Cursors
  BY <1>1 DEF ScreenSound
<1>7. (commanded' \cup edited') \cap fresh = {} /\ fresh' \in SUBSET fresh
  BY <1>1, <1>3
<1>. QED
  BY <1>1, <1>4, <1>5, <1>6, <1>7, CommandSound

LEMMA WriteSelectedSound ==
    ASSUME ScreenSound, NEW l \in Lists, WriteSelected(l)
    PROVE  ScreenSound'
<1> DEFINE x == Selected(ui, l)
<1>1. /\ x # Nothing /\ (order' = ToFront(l, x) \/ order' = order)
      /\ commanded' \subseteq {x} /\ fresh' = fresh /\ steps' = steps /\ cursor' = cursor
      /\ ui' = RefreshDashboard(Closed(ui), order', cursor') /\ UNCHANGED <<goal, live, bound>>
      /\ edited' = {}
  BY DEF WriteSelected, EndCommand
<1>2. x \notin fresh /\ Tabled(order', fresh)
  BY <1>1, SelectedToFront DEF ScreenSound
<1>. HIDE DEF x
<1>3. UiWell(Closed(ui), fresh) /\ Closed(ui).busy = ui.busy
  BY SoundInLists, ClosedWell
<1>4. Numbered(steps', fresh') /\ cursor' \in Cursors
  BY <1>1 DEF ScreenSound
<1>5. (commanded' \cup edited') \cap fresh = {} /\ fresh' \in SUBSET fresh
  BY <1>1, <1>2
<1>. QED
  BY <1>1, <1>2, <1>3, <1>4, <1>5, CommandSound

LEMMA AdvanceSelectedSound ==
    ASSUME ScreenSound, AdvanceSelected
    PROVE  ScreenSound'
<1> DEFINE p == Selected(ui, "plans")
<1>1. /\ p # Nothing /\ order' = ToFront("plans", p)
      /\ commanded' = {p} /\ fresh' = fresh /\ steps' = steps
      /\ ui' = RefreshDashboard(Closed(ui), order', cursor') /\ UNCHANGED <<goal, live, bound>>
      /\ edited' = {}
  BY DEF AdvanceSelected, EndCommand
<1>2. PICK n \in StepNumbers(p) \cup {cursor[p]} : cursor' = [cursor EXCEPT ![p] = n]
  BY DEF AdvanceSelected
<1>3. "plans" \in Lists
  BY ListsNamed
<1>4. p \in Ids["plans"] \ fresh /\ Tabled(order', fresh)
  BY <1>1, <1>3, SelectedToFront
<1>. HIDE DEF p
<1>5. n \in Nat \ {0} /\ cursor \in Cursors
  BY <1>4, NumbersOfSteps DEF ScreenSound, Cursors
<1>6. cursor' \in Cursors
  BY <1>2, <1>5 DEF Cursors
<1>7. UiWell(Closed(ui), fresh) /\ Closed(ui).busy = ui.busy
  BY SoundInLists, ClosedWell
<1>8. Numbered(steps', fresh') /\ (commanded' \cup edited') \cap fresh = {} /\ fresh' \in SUBSET fresh
  BY <1>1, <1>4 DEF ScreenSound
<1>. QED
  BY <1>1, <1>4, <1>6, <1>7, <1>8, CommandSound

LEMMA SelectStepSound ==
    ASSUME ScreenSound, NEW n \in Nat \ {0}, NEW u, UiWell(u, fresh), u.busy = ui.busy,
           Selected(ui, "plans") # Nothing, SelectStep(Selected(ui, "plans"), n, u)
    PROVE  ScreenSound'
<1> DEFINE p == Selected(ui, "plans")
<1>1. /\ cursor' = [cursor EXCEPT ![p] = n] /\ order' = ToFront("plans", p)
      /\ ui' = RefreshDashboard(u, order', cursor') /\ UNCHANGED <<goal, live, bound>>
      /\ fresh' = fresh /\ steps' = steps /\ commanded' = {} /\ edited' = {}
  BY DEF SelectStep, WritesNothing
<1>2. "plans" \in Lists
  BY ListsNamed
<1>3. p \in Ids["plans"] \ fresh /\ Tabled(order', fresh)
  BY <1>1, <1>2, SelectedToFront
<1>. HIDE DEF p
<1>4. cursor' \in Cursors
  BY <1>1 DEF ScreenSound, Cursors
<1>5. Numbered(steps', fresh') /\ (commanded' \cup edited') \cap fresh = {} /\ fresh' \in SUBSET fresh
  BY <1>1 DEF ScreenSound
<1>. QED
  BY <1>1, <1>3, <1>4, <1>5, CommandSound

LEMMA MovePlanStepSound ==
    ASSUME ScreenSound, NEW forward \in BOOLEAN, MovePlanStep(forward)
    PROVE  ScreenSound'
<1> DEFINE p == Selected(ui, "plans")
           at == ui.cursors[p]
           numbers == StepNumbers(p)
           beyond == {n \in numbers : IF forward THEN n > at ELSE n < at}
           target == IF at \notin numbers THEN Least(numbers)
                     ELSE IF beyond = {} THEN at
                     ELSE IF forward THEN Least(beyond) ELSE Greatest(beyond)
<1>1. /\ p # Nothing /\ numbers # {}
      /\ SelectStep(p, target, Closed(ui)) \/ SelectStep(p, target, ui)
  BY DEF MovePlanStep
<1>2. p \in Ids["plans"]
  BY <1>1, SoundInLists, ListsNamed
<1>3. numbers \in SUBSET (Nat \ {0}) /\ \E m \in Nat : \A n \in numbers : n <= m
  BY <1>2, NumbersOfSteps DEF ScreenSound
<1>. HIDE DEF numbers, p, at
<1>4. beyond \in SUBSET numbers
  OBVIOUS
<1>. HIDE DEF beyond
<1>5. Least(numbers) \in numbers
  BY <1>1, <1>3, LeastIsLeast
<1>6. beyond # {} => Least(beyond) \in numbers /\ Greatest(beyond) \in numbers
  <2>1. PICK m \in Nat : \A n \in numbers : n <= m
    BY <1>3
  <2>2. beyond \in SUBSET Nat /\ \A n \in beyond : n <= m
    BY <1>3, <1>4, <2>1
  <2>3. beyond # {} => Least(beyond) \in beyond /\ Greatest(beyond) \in beyond
    BY <2>2, LeastIsLeast, GreatestIsGreatest
  <2>. QED
    BY <1>4, <2>3
<1>7. target \in Nat \ {0}
  BY <1>3, <1>5, <1>6
<1>. HIDE DEF target
<1>8. UiWell(ui, fresh) /\ UiWell(Closed(ui), fresh) /\ Closed(ui).busy = ui.busy
  BY SoundInLists, ClosedWell
<1>. QED
  BY <1>1, <1>7, <1>8, SelectStepSound DEF p

LEMMA StepCommandsSound ==
    ASSUME ScreenSound, AddStep \/ DropStep \/ DropSelected
    PROVE  ScreenSound'
<1> DEFINE p == Selected(ui, "plans")
<1>1. p # Nothing /\ order' = ToFront("plans", p) /\ commanded' = {p} /\ edited' = {}
      /\ UNCHANGED <<goal, live, bound>>
  BY DEF AddStep, DropStep, DropSelected, EndCommand
<1>2. "plans" \in Lists
  BY ListsNamed
<1>3. p \in Ids["plans"] \ fresh /\ Tabled(order', fresh)
  BY <1>1, <1>2, SelectedToFront
<1>4. ui.cursors[p] \in Nat \ {0} /\ Numbered(steps, fresh) /\ cursor \in Cursors
  BY <1>3, SoundInLists DEF ScreenSound, Uis, Cursors
<1>5. Numbered(steps', fresh') /\ cursor' \in Cursors /\ fresh' \in SUBSET fresh
  <2>1. CASE AddStep
    <3>1. PICK uid \in Steps : InsertStep(p, ui.cursors[p], uid)
      BY <2>1 DEF AddStep
    <3>. QED
      BY <1>3, <1>4, <3>1, StepInserted
  <2>2. CASE DropStep
    <3>1. PICK n \in StepNumbers(p) : DeleteStep(p, n)
      BY <2>2 DEF DropStep
    <3>2. n \in Nat
      BY <1>3, <1>4, NumbersOfSteps
    <3>. QED
      BY <1>3, <1>4, <3>1, <3>2, StepDeleted
  <2>3. CASE DropSelected
    <3>1. DeleteStep(p, ui.cursors[p])
      BY <2>3 DEF DropSelected
    <3>. QED
      BY <1>3, <1>4, <3>1, StepDeleted
  <2>. QED
    BY <2>1, <2>2, <2>3
<1>6. UiWell(ui, fresh) /\ UiWell(Closed(ui), fresh) /\ Closed(ui).busy = ui.busy
  BY SoundInLists, ClosedWell
<1>7. ui' = RefreshDashboard(Closed(ui), order', cursor') \/ ui' = RefreshDashboard(ui, order', cursor')
  BY DEF AddStep, DropStep, DropSelected, EndCommand
<1>8. (commanded' \cup edited') \cap fresh = {}
  BY <1>1, <1>3
<1>. QED
  BY <1>1, <1>3, <1>5, <1>6, <1>7, <1>8, CommandSound

LEMMA SelectorSound ==
    ASSUME ScreenSound, PickSelector \/ PressSelector
    PROVE  ScreenSound'
<1> DEFINE p == Selected(ui, "plans")
           l == ui.view
<1>1. UiWell(ui, fresh) /\ ui \in Uis /\ ui.diff \in Nat /\ FilesShown(ui) \in Nat
  BY SoundInLists, FilesCounted DEF Uis
<1>2. "plans" \in Lists /\ "jobs" \in Lists
  BY ListsNamed
<1>3. p # Nothing => p \in Ids["plans"] /\ StepNumbers(p) \in SUBSET (Nat \ {0})
  BY <1>2, SoundInLists, NumbersOfSteps DEF ScreenSound
<1>4. CASE /\ l \in Lists
           /\ \E i \in Strip(Len(ui.rows[l]), ui.index[l]) : Handled([ui EXCEPT !.index[l] = i - 1])
  <2>1. PICK i \in Strip(Len(ui.rows[l]), ui.index[l]) : Handled([ui EXCEPT !.index[l] = i - 1])
    BY <1>4
  <2>2. i - 1 \in Nat
    BY <1>4, PlacesAreIndices, StripFits
  <2>. HIDE DEF l
  <2>3. Steered([ui EXCEPT !.index[l] = i - 1], ui)
    BY <1>4, <2>2, IndexMoves
  <2>. QED
    BY <2>1, <2>3, SteeredSound
<1>5. CASE \E i \in DOMAIN ui.rows["jobs"] : Handled([ui EXCEPT !.index["jobs"] = i - 1])
  <2>1. PICK i \in DOMAIN ui.rows["jobs"] : Handled([ui EXCEPT !.index["jobs"] = i - 1])
    BY <1>5
  <2>2. i - 1 \in Nat
    BY <1>2, PlacesAreIndices
  <2>3. Steered([ui EXCEPT !.index["jobs"] = i - 1], ui)
    BY <1>2, <2>2, IndexMoves
  <2>. QED
    BY <2>1, <2>3, SteeredSound
<1>6. CASE \E n \in Strip(FilesShown(ui), ui.diff) : Handled([ui EXCEPT !.diff = n - 1])
  <2>1. PICK n \in Strip(FilesShown(ui), ui.diff) : Handled([ui EXCEPT !.diff = n - 1])
    BY <1>6
  <2>2. n - 1 \in Nat
    BY <1>1, StripFits
  <2>3. Steered([ui EXCEPT !.diff = n - 1], ui)
    BY <1>1, <2>2 DEF Steered, Uis
  <2>. QED
    BY <2>1, <2>3, SteeredSound
<1>7. CASE p # Nothing /\ \E n \in StepNumbers(p) : SelectStep(p, n, ui)
  BY <1>1, <1>3, <1>7, SelectStepSound
<1>8. CASE PressSelector
  BY <1>1, <1>3, <1>8, SelectStepSound DEF PressSelector
<1>9. CASE PickSelector
  <2>1. \/ /\ l \in Lists
           /\ \E i \in Strip(Len(ui.rows[l]), ui.index[l]) : Handled([ui EXCEPT !.index[l] = i - 1])
        \/ \E i \in DOMAIN ui.rows["jobs"] : Handled([ui EXCEPT !.index["jobs"] = i - 1])
        \/ \E n \in Strip(FilesShown(ui), ui.diff) : Handled([ui EXCEPT !.diff = n - 1])
        \/ p # Nothing /\ \E n \in StepNumbers(p) : SelectStep(p, n, ui)
    BY <1>9, Zenon DEF PickSelector
  <2>. QED
    BY <1>4, <1>5, <1>6, <1>7, <2>1
<1>. QED
  BY <1>8, <1>9

-----------------------------------------------------------------------------
(* The editor *)

LEMMA ShowSound ==
    ASSUME ScreenSound, NEW e \in Editors, e.mode # "none", EditorFits(e, fresh), Show(e)
    PROVE  ScreenSound'
<1> DEFINE shown == IF e.mode \in Multiline THEN {"editor-area"} ELSE {"editor"}
<1>1. UiWell(ui, fresh) /\ ui \in Uis
  BY SoundInLists
<1>2. /\ ui' = [ui EXCEPT !.editor = e, !.palette = FALSE, !.shown = shown]
      /\ UNCHANGED <<database, goal, live, bound>> /\ WritesNothing
  BY DEF Show
<1>3. shown \in SUBSET Widgets /\ shown # {} /\ "palette" \notin shown
  BY DEF Widgets
<1>4. shown \cap {"editor", "editor-area"} = IF e.mode \in Multiline THEN {"editor-area"} ELSE {"editor"}
  OBVIOUS
<1>. HIDE DEF shown
<1>5. /\ ui' \in Uis /\ ui'.editor = e /\ ui'.palette = FALSE /\ ui'.shown = shown /\ ui'.rows = ui.rows
      /\ ui'.view = ui.view /\ ui'.index = ui.index /\ ui'.diff = ui.diff /\ ui'.drawn = ui.drawn
      /\ ui'.busy = ui.busy
  BY <1>1, <1>2, <1>3 DEF Uis
<1>6. e # NoEditor
  BY DEF NoEditor
<1>7. ui'.palette = ("palette" \in ui'.shown)
  <2>1. ~ui'.palette /\ ui'.palette \in BOOLEAN
    BY <1>5
  <2>2. ~("palette" \in ui'.shown)
    BY <1>3, <1>5
  <2>3. ("palette" \in ui'.shown) \in BOOLEAN
    OBVIOUS
  <2>. QED
    BY <2>1, <2>2, <2>3, SameTruth, Zenon
<1>8. WidgetsFit(ui')
  BY <1>3, <1>4, <1>5, <1>6, <1>7 DEF WidgetsFit
<1>9. UiWell(ui', fresh)
  BY <1>1, <1>5, <1>8 DEF UiWell
<1>. QED
  BY <1>2, <1>5, <1>9, WidgetsSound

LEMMA OpenEditorSound ==
    ASSUME ScreenSound, OpenStepEditor \/ OpenAddEditor \/ \E mode \in Modes : OpenSessionEditor(mode)
    PROVE  ScreenSound'
<1> DEFINE p == Selected(ui, "plans")
<1>1. UiWell(ui, fresh) /\ ui \in Uis
  BY SoundInLists
<1>2. p # Nothing => /\ p \in Ids["plans"] \ fresh /\ p \in AnyRow
                     /\ ui.cursors[p] \in Nat \ {0} /\ steps[p] \in SUBSET StepRows
  BY <1>1, SoundInLists, ListsNamed DEF Uis, Cursors, ScreenSound, Numbered
<1>3. CASE OpenStepEditor
  <2>1. p # Nothing
    BY <1>3 DEF OpenStepEditor
  <2>2. CASE Handled(ui)
    BY <1>1, <2>2, HandledSound
  <2>3. CASE \E uid \in StepAt(p, ui.cursors[p]) :
                Show([mode |-> "plan-edit-inline", item |-> p, no |-> ui.cursors[p], loaded |-> uid])
    <3>1. PICK uid \in StepAt(p, ui.cursors[p]) :
                Show([mode |-> "plan-edit-inline", item |-> p, no |-> ui.cursors[p], loaded |-> uid])
      BY <2>3
    <3> DEFINE e == [mode |-> "plan-edit-inline", item |-> p, no |-> ui.cursors[p], loaded |-> uid]
    <3>2. uid \in Steps
      BY <1>2, <2>1 DEF StepAt, StepRows
    <3>. HIDE DEF p
    <3>3. e \in Editors /\ e.mode # "none" /\ EditorFits(e, fresh)
      BY <1>2, <2>1, <3>2 DEF Editors, Modes, Multiline, EditorFits
    <3>4. Show(e)
      BY <3>1
    <3>. HIDE DEF e
    <3>. QED
      BY <3>3, <3>4, ShowSound
  <2>. QED
    BY <1>3, <2>2, <2>3 DEF OpenStepEditor
<1>4. CASE OpenAddEditor
  <2> DEFINE e == [mode |-> "plan-add-inline", item |-> p, no |-> ui.cursors[p], loaded |-> Nothing]
  <2>1. p # Nothing /\ Show(e)
    BY <1>4 DEF OpenAddEditor
  <2>. HIDE DEF p
  <2>2. e \in Editors /\ e.mode # "none" /\ EditorFits(e, fresh)
    BY <1>2, <2>1 DEF Editors, Modes, Multiline, EditorFits
  <2>. HIDE DEF e
  <2>. QED
    BY <2>1, <2>2, ShowSound
<1>5. ASSUME NEW mode \in Modes, OpenSessionEditor(mode) PROVE ScreenSound'
  <2> DEFINE s == Selected(ui, "sessions")
             e == [mode |-> mode, item |-> s, no |-> 0, loaded |-> s]
  <2>1. mode \in {"session-title", "session-summary"} /\ s # Nothing /\ Show(e)
    BY <1>5 DEF OpenSessionEditor
  <2>2. s \in Ids["sessions"] \ fresh /\ s \in AnyRow
    BY <2>1, SoundInLists, ListsNamed
  <2>. HIDE DEF s
  <2>3. e \in Editors /\ e.mode # "none" /\ EditorFits(e, fresh)
    BY <2>1, <2>2 DEF Editors, EditorFits
  <2>. HIDE DEF e
  <2>. QED
    BY <2>1, <2>3, ShowSound
<1>. QED
  BY <1>3, <1>4, <1>5

\* A save goes by what the editor was opened with, not by the selection.
LEMMA SavesSound ==
    ASSUME ScreenSound,
           SaveStep \/ SaveNewStep \/ SaveUntitled \/ \E empty \in BOOLEAN : SaveSession(empty)
    PROVE  ScreenSound'
<1> DEFINE e == ui.editor
<1>1. /\ UiWell(ui, fresh) /\ EditorFits(e, fresh) /\ Tabled(order, fresh) /\ Numbered(steps, fresh)
      /\ cursor \in Cursors /\ "sessions" \in Lists /\ "plans" \in Lists
  BY SoundInLists, ListsNamed DEF UiWell, ScreenSound
<1>2. UiWell(EditorClosed(ui), fresh) /\ EditorClosed(ui).busy = ui.busy
  BY <1>1, EditorClosedWell
<1>3. /\ ui' = RefreshDashboard(EditorClosed(ui), order', cursor')
      /\ UNCHANGED <<goal, live, bound>> /\ commanded' = {}
  BY DEF SaveStep, SaveNewStep, SaveUntitled, SaveSession, EndSave
<1>4. CASE \E empty \in BOOLEAN : SaveSession(empty)
  <2>1. /\ e.mode \in {"session-title", "session-summary"} /\ order' = ToFront("sessions", e.item)
        /\ edited' \subseteq {e.item} /\ fresh' = fresh /\ steps' = steps /\ cursor' = cursor
    BY <1>4 DEF SaveSession
  <2>2. e.item \in Ids["sessions"] \ fresh
    BY <1>1, <2>1 DEF EditorFits
  <2>. HIDE DEF e
  <2>3. Tabled(order', fresh)
    BY <1>1, <2>1, <2>2, RowToFront
  <2>4. (commanded' \cup edited') \cap fresh = {} /\ fresh' \in SUBSET fresh
    BY <1>3, <2>1, <2>2
  <2>5. Numbered(steps', fresh') /\ cursor' \in Cursors
    BY <1>1, <2>1
  <2>. QED
    BY <1>2, <1>3, <2>3, <2>4, <2>5, CommandSound
<1>5. ASSUME e.mode \in {"plan-add-inline", "plan-edit-inline"}
      PROVE  e.item \in Ids["plans"] \ fresh /\ e.no \in Nat \ {0} /\ Tabled(ToFront("plans", e.item), fresh)
  <2>1. e.item \in Ids["plans"] \ fresh /\ e.no \in Nat \ {0}
    BY <1>1, <1>5 DEF EditorFits
  <2>. HIDE DEF e
  <2>. QED
    BY <1>1, <2>1, RowToFront
<1>6. CASE SaveStep
  <2>1. /\ e.mode = "plan-edit-inline" /\ order' = ToFront("plans", e.item)
        /\ edited' = StepAt(e.item, e.no) /\ fresh' = fresh /\ steps' = steps /\ cursor' = cursor
    BY <1>6 DEF SaveStep
  <2>. HIDE DEF e
  <2>2. edited' \cap fresh = {}
    BY <1>1, <1>5, <2>1 DEF StepAt, Numbered
  <2>3. (commanded' \cup edited') \cap fresh = {} /\ fresh' \in SUBSET fresh
    BY <1>3, <2>1, <2>2
  <2>4. Numbered(steps', fresh') /\ cursor' \in Cursors /\ Tabled(order', fresh)
    BY <1>1, <1>5, <2>1
  <2>. QED
    BY <1>2, <1>3, <2>3, <2>4, CommandSound
<1>7. CASE SaveNewStep
  <2>1. /\ e.mode = "plan-add-inline" /\ order' = ToFront("plans", e.item) /\ edited' = {}
    BY <1>7 DEF SaveNewStep
  <2>2. PICK uid \in Steps : InsertStep(e.item, e.no, uid)
    BY <1>7 DEF SaveNewStep
  <2>. HIDE DEF e
  <2>3. e.item \in Ids["plans"] /\ e.no \in Nat
    BY <1>5, <2>1
  <2>4. Numbered(steps', fresh') /\ cursor' \in Cursors /\ fresh' \in SUBSET fresh
    BY <1>1, <2>2, <2>3, StepInserted
  <2>5. (commanded' \cup edited') \cap fresh = {} /\ Tabled(order', fresh)
    BY <1>3, <1>5, <2>1
  <2>. QED
    BY <1>2, <1>3, <2>4, <2>5, CommandSound
<1>8. CASE SaveUntitled
  <2>1. order' = order /\ edited' = {} /\ fresh' = fresh /\ steps' = steps /\ cursor' = cursor
    BY <1>8 DEF SaveUntitled
  <2>2. (commanded' \cup edited') \cap fresh = {} /\ fresh' \in SUBSET fresh
    BY <1>3, <2>1
  <2>3. Numbered(steps', fresh') /\ cursor' \in Cursors /\ Tabled(order', fresh)
    BY <1>1, <2>1
  <2>. QED
    BY <1>2, <1>3, <2>2, <2>3, CommandSound
<1>. QED
  BY <1>4, <1>6, <1>7, <1>8

-----------------------------------------------------------------------------
(* A goal *)

LEMMA BusyWell ==
    ASSUME NEW F, NEW u, UiWell(u, F), NEW b \in BOOLEAN
    PROVE  UiWell([u EXCEPT !.busy = b], F) /\ [u EXCEPT !.busy = b].busy = b
<1> DEFINE w == [u EXCEPT !.busy = b]
<1>1. u \in Uis
  BY DEF UiWell
<1>2. /\ w \in Uis /\ w.rows = u.rows /\ w.editor = u.editor /\ w.shown = u.shown
      /\ w.palette = u.palette /\ w.busy = b
  BY <1>1 DEF Uis
<1>. HIDE DEF w
<1>3. UiWell(w, F)
  BY <1>2 DEF UiWell, WidgetsFit
<1>. QED
  BY <1>2, <1>3 DEF w

LEMMA GoalProceeds ==
    ASSUME NEW busy, GoalFits(goal, busy), goal.at # "none", Proceed(goal'.at),
           goal'.at \in {"refresh", "select", "execute", "chunk", "done", "fail"},
           goal.run \in Ids["runs"] \/ goal'.at \in {"done", "fail"}
    PROVE  GoalFits(goal', busy)
<1>1. goal \in Goals /\ goal # Idle /\ goal' = [goal EXCEPT !.at = goal'.at]
  BY DEF GoalFits, Idle, Proceed
<1>2. goal' \in Goals /\ goal'.run = goal.run
  BY <1>1 DEF Goals
<1>3. goal' # Idle
  BY DEF Idle
<1>. QED
  BY <1>1, <1>2, <1>3 DEF GoalFits

\* The thread of the goal, and other front ends, leave the screen alone.
LEMMA UiKeptSound ==
    ASSUME ScreenSound, ui' = ui, Tabled(order', fresh'), Numbered(steps', fresh'), cursor' \in Cursors,
           fresh' \in SUBSET fresh, GoalFits(goal', ui.busy), live' \subseteq Ids["runs"],
           bound' \in Bounds, WritesNothing
    PROVE  ScreenSound'
<1>1. UiWell(ui, fresh) /\ SelectionFits(ui)
  BY DEF ScreenSound, UiFits
<1>2. UiWell(ui', fresh')
  BY <1>1, WellLast
<1>3. SelectionFits(ui') /\ GoalFits(goal', ui'.busy)
  BY <1>1
<1>4. (commanded' \cup edited') \cap fresh' = {}
  BY DEF WritesNothing
<1>. QED
  BY <1>2, <1>3, <1>4 DEF ScreenSound, UiFits

LEMMA GoalStepsSound ==
    ASSUME ScreenSound, GoalStep
    PROVE  ScreenSound'
<1>1. /\ GoalFits(goal, ui.busy) /\ goal \in Goals /\ Tabled(order, fresh) /\ Numbered(steps, fresh)
      /\ cursor \in Cursors /\ live \subseteq Ids["runs"] /\ bound \in Bounds
  BY DEF ScreenSound, GoalFits
<1>2. CASE StartRun
  <2>1. /\ goal.at = "start" /\ ui' = ui /\ steps' = steps /\ cursor' = cursor /\ live' = live
        /\ bound' = bound /\ WritesNothing
    BY <1>2 DEF StartRun
  <2>2. PICK r \in Ids["runs"] \cap fresh :
           order' = ToFront("runs", r) /\ fresh' = fresh \ {r} /\ goal' = [at |-> "refresh", run |-> r]
    BY <1>2 DEF StartRun
  <2>3. GoalFits(goal', ui.busy)
    <3>1. goal # Idle
      BY <2>1 DEF Idle
    <3>2. goal' \in Goals /\ goal' # Idle /\ goal'.at = "refresh" /\ goal'.run \in Ids["runs"]
      BY <2>2 DEF Goals, Idle
    <3>. QED
      BY <1>1, <3>1, <3>2 DEF GoalFits
  <2>4. fresh' \in SUBSET fresh /\ "runs" \in Lists /\ r \in Ids["runs"] \ fresh'
    BY <2>2, ListsNamed
  <2>5. Tabled(order, fresh') /\ Numbered(steps, fresh')
    BY <1>1, <2>4, TablesLast, StepsLast
  <2>6. Tabled(order', fresh')
    BY <2>2, <2>4, <2>5, RowToFront
  <2>. QED
    BY <1>1, <2>1, <2>3, <2>4, <2>5, <2>6, UiKeptSound
<1>3. CASE GoalFails \/ StreamChunk \/ GoalEnds
  <2>1. /\ goal.at \in {"start", "execute"} /\ goal' = [goal EXCEPT !.at = goal'.at] /\ ui' = ui
        /\ order' = order /\ fresh' = fresh /\ steps' = steps /\ cursor' = cursor
        /\ bound' = bound /\ WritesNothing
        /\ goal'.at \in {"chunk", "done", "fail"} /\ (goal'.at = "chunk" => goal.at = "execute")
    BY <1>1, <1>3 DEF GoalFails, StreamChunk, GoalEnds, Proceed, database, Goals
  <2>2. goal.at = "execute" => goal.run \in Ids["runs"]
    BY <1>1 DEF GoalFits
  <2>3. GoalFits(goal', ui.busy)
    BY <1>1, <2>1, <2>2, GoalProceeds DEF Proceed
  <2>4. live' \subseteq Ids["runs"]
    BY <1>1, <1>3, <2>2 DEF GoalFails, StreamChunk, GoalEnds
  <2>. QED
    BY <1>1, <2>1, <2>3, <2>4, UiKeptSound
<1>. QED
  BY <1>2, <1>3 DEF GoalStep

LEMMA CallbacksSound ==
    ASSUME ScreenSound, Callback \/ SubmitGoal
    PROVE  ScreenSound'
<1>1. /\ GoalFits(goal, ui.busy) /\ goal \in Goals /\ Tabled(order, fresh) /\ Numbered(steps, fresh)
      /\ cursor \in Cursors /\ live \subseteq Ids["runs"] /\ bound \in Bounds
      /\ UiWell(ui, fresh) /\ ui \in Uis /\ "runs" \in Lists
  BY SoundInLists, ListsNamed DEF ScreenSound, GoalFits
<1>2. /\ order' = order /\ fresh' = fresh /\ steps' = steps /\ cursor' = cursor
      /\ commanded' = {} /\ edited' = {} /\ live' \subseteq live
  BY DEF Callback, RefreshForGoal, SelectAfterStart, FinishRun, SubmitGoal, database, WritesNothing
<1>3. /\ Tabled(order', fresh') /\ Numbered(steps', fresh') /\ cursor' \in Cursors
      /\ live' \subseteq Ids["runs"] /\ (commanded' \cup edited') \cap fresh' = {}
  BY <1>1, <1>2
<1>4. CASE RefreshForGoal
  <2>1. /\ goal.at \in {"refresh", "chunk"} /\ goal' = [goal EXCEPT !.at = goal'.at]
        /\ goal'.at \in {"select", "execute"} /\ bound' = bound
        /\ ui' = RefreshDashboard(ui, order', cursor')
    BY <1>1, <1>2, <1>4 DEF RefreshForGoal, Proceed, Goals
  <2>2. goal.run \in Ids["runs"]
    BY <1>1, <2>1 DEF GoalFits
  <2>3. GoalFits(goal', ui.busy)
    BY <1>1, <2>1, <2>2, GoalProceeds DEF Proceed
  <2>4. UiWell(ui, fresh') /\ bound' \in Bounds
    BY <1>1, <1>2, <2>1
  <2>. QED
    BY <1>3, <2>1, <2>3, <2>4, EndsRefreshed
<1>5. CASE SelectAfterStart
  <2> DEFINE u == RefreshDashboard(ui, order, cursor)
             at == {i \in DOMAIN u.rows["runs"] : u.rows["runs"][i] = goal.run}
             index == [u.index EXCEPT !["runs"] = Least(at) - 1]
             w == [u EXCEPT !.index = index]
  <2>1. /\ goal.at = "select" /\ goal' = [goal EXCEPT !.at = goal'.at] /\ goal'.at = "execute"
        /\ bound' = bound
    BY <1>1, <1>5 DEF SelectAfterStart, Proceed, Goals
  <2>2. ui' = IF at = {} THEN u ELSE RefreshDashboard(w, order, cursor)
    BY <1>5 DEF SelectAfterStart
  <2>3. goal.run \in Ids["runs"]
    BY <1>1, <2>1 DEF GoalFits
  <2>4. GoalFits(goal', ui.busy)
    BY <1>1, <2>1, <2>3, GoalProceeds DEF Proceed
  <2>5. UiFits(u, fresh) /\ u.busy = ui.busy
    BY <1>1, Refreshed
  <2>6. CASE at = {}
    <3>1. ui' = RefreshDashboard(ui, order', cursor') /\ UiWell(ui, fresh') /\ bound' \in Bounds
      BY <1>1, <1>2, <2>1, <2>2, <2>6
    <3>. QED
      BY <1>3, <2>4, <3>1, EndsRefreshed
  <2>7. CASE at # {}
    <3>1. u \in Uis /\ u.index \in [Lists -> Nat] /\ u.rows["runs"] \in Seq(AnyRow) /\ UiWell(u, fresh)
      BY <1>1, <2>5 DEF UiFits, UiWell, Uis
    <3>2. \A i \in DOMAIN u.rows["runs"] : i \in Nat /\ i - 1 \in Nat
      <4>1. Len(u.rows["runs"]) \in Nat /\ DOMAIN u.rows["runs"] = 1..Len(u.rows["runs"])
        BY <3>1, LenProperties
      <4>2. \A n \in Nat : \A i \in 1..n : i \in Nat /\ i - 1 \in Nat
        OBVIOUS
      <4>. QED
        BY <4>1, <4>2, Zenon
    <3>. HIDE DEF u
    <3>3. at \in SUBSET Nat /\ \A i \in at : i - 1 \in Nat
      BY <3>2
    <3>. HIDE DEF at
    <3>4. Least(at) - 1 \in Nat
      BY <2>7, <3>3, LeastIsLeast
    <3>5. index \in [Lists -> Nat]
      BY <3>1, <3>4
    <3>. HIDE DEF index
    <3>6. Steered(w, u)
      BY <3>1, <3>5 DEF Steered, Uis
    <3>. HIDE DEF w
    <3>7. UiWell(w, fresh) /\ w.busy = ui.busy
      BY <2>5, <3>1, <3>6, SteeredWell
    <3>8. ui' = RefreshDashboard(w, order', cursor') /\ UiWell(w, fresh') /\ bound' \in Bounds
      BY <1>1, <1>2, <2>1, <2>2, <2>7, <3>7
    <3>9. GoalFits(goal', w.busy)
      BY <2>4, <3>7
    <3>. QED
      BY <1>3, <3>8, <3>9, EndsRefreshed
  <2>. QED
    BY <2>6, <2>7
<1>6. CASE FinishRun
  <2> DEFINE w == [ui EXCEPT !.busy = FALSE]
  <2>1. goal' = Idle /\ bound' = bound /\ ui' = RefreshDashboard(w, order', cursor')
    BY <1>2, <1>6 DEF FinishRun
  <2>2. UiWell(w, fresh') /\ w.busy = FALSE
    BY <1>1, <1>2, BusyWell
  <2>. HIDE DEF w
  <2>3. GoalFits(goal', w.busy)
    BY <2>1, <2>2 DEF GoalFits, Goals, Idle
  <2>4. bound' \in Bounds
    BY <1>1, <2>1
  <2>. QED
    BY <1>3, <2>1, <2>2, <2>3, <2>4, EndsRefreshed
<1>7. CASE SubmitGoal
  <2> DEFINE w == [ui EXCEPT !.busy = TRUE]
  <2>1. /\ goal' = [Idle EXCEPT !.at = "start"] /\ bound.goals > 0
        /\ bound' = [bound EXCEPT !.goals = @ - 1] /\ ui' = RefreshDashboard(w, order', cursor')
    BY <1>2, <1>7 DEF SubmitGoal
  <2>2. UiWell(w, fresh') /\ w.busy = TRUE
    BY <1>1, <1>2, BusyWell
  <2>. HIDE DEF w
  <2>3. goal' = [at |-> "start", run |-> Nothing]
    BY <2>1 DEF Idle
  <2>4. goal' \in Goals /\ goal'.at = "start" /\ goal' # Idle
    BY <2>3 DEF Goals, Idle
  <2>5. GoalFits(goal', w.busy)
    BY <2>2, <2>4 DEF GoalFits
  <2>6. bound' \in Bounds
    BY <1>1, <2>1 DEF Bounds
  <2>. QED
    BY <1>3, <2>1, <2>2, <2>5, <2>6, EndsRefreshed
<1>. QED
  BY <1>4, <1>5, <1>6, <1>7 DEF Callback

-----------------------------------------------------------------------------
(* The other front ends *)

LEMMA RowsOfTables ==
    ASSUME NEW F, Tabled(order, F), NEW l \in Lists, NEW x \in ToSet(order[l])
    PROVE  x \in Ids[l] \ F
<1>1. order[l] \in Seq(Ids[l] \ F)
  BY DEF Tabled
<1>2. \A i \in DOMAIN order[l] : order[l][i] \in Ids[l] \ F
  BY <1>1, LenProperties, ElementOfSeq
<1>. QED
  BY <1>2 DEF ToSet

LEMMA ElsewhereSound ==
    ASSUME ScreenSound,
           \/ \E l \in Lists : RowArrives(l) \/ RowIsWritten(l)
           \/ \E p \in Ids["plans"] : StepsAreChanged(p)
    PROVE  ScreenSound'
<1>1. /\ GoalFits(goal, ui.busy) /\ Tabled(order, fresh) /\ Numbered(steps, fresh)
      /\ cursor \in Cursors /\ live \subseteq Ids["runs"] /\ bound \in Bounds
  BY DEF ScreenSound
<1>2. Elsewhere
  BY DEF RowArrives, RowIsWritten, StepsAreChanged
<1>3. /\ ui' = ui /\ GoalFits(goal', ui.busy) /\ live' \subseteq Ids["runs"] /\ WritesNothing
      /\ bound' \in Bounds
  BY <1>1, <1>2 DEF Elsewhere, Bounds
<1>4. ASSUME NEW l \in Lists, RowArrives(l) PROVE ScreenSound'
  <2>1. steps' = steps /\ cursor' = cursor
    BY <1>4 DEF RowArrives
  <2>2. PICK x \in Ids[l] \cap fresh : order' = ToFront(l, x) /\ fresh' = fresh \ {x}
    BY <1>4 DEF RowArrives
  <2>3. fresh' \in SUBSET fresh /\ x \in Ids[l] \ fresh'
    BY <2>2
  <2>4. Tabled(order, fresh') /\ Numbered(steps, fresh')
    BY <1>1, <2>3, TablesLast, StepsLast
  <2>5. Tabled(order', fresh')
    BY <2>2, <2>3, <2>4, RowToFront
  <2>. QED
    BY <1>1, <1>3, <2>1, <2>3, <2>4, <2>5, UiKeptSound
<1>5. ASSUME NEW l \in Lists, RowIsWritten(l) PROVE ScreenSound'
  <2>1. fresh' = fresh /\ steps' = steps /\ cursor' = cursor
    BY <1>5 DEF RowIsWritten
  <2>2. PICK x \in ToSet(order[l]) :
           order' = IF l = "approvals" THEN [order EXCEPT ![l] = Without(@, x)] ELSE ToFront(l, x)
    BY <1>5 DEF RowIsWritten
  <2>3. x \in Ids[l] \ fresh
    BY <1>1, RowsOfTables
  <2>4. Tabled([order EXCEPT ![l] = Without(@, x)], fresh) /\ Tabled(ToFront(l, x), fresh)
    BY <1>1, <2>3, RowGone, RowToFront
  <2>5. Tabled(order', fresh') /\ fresh' \in SUBSET fresh
    BY <2>1, <2>2, <2>4
  <2>6. Numbered(steps', fresh') /\ cursor' \in Cursors
    BY <1>1, <2>1
  <2>. QED
    BY <1>3, <2>5, <2>6, UiKeptSound
<1>6. ASSUME NEW p \in Ids["plans"], StepsAreChanged(p) PROVE ScreenSound'
  <2>1. p \in ToSet(order["plans"]) /\ order' = ToFront("plans", p) /\ "plans" \in Lists
    BY <1>6, ListsNamed DEF StepsAreChanged
  <2>2. p \in Ids["plans"] \ fresh
    BY <1>1, <2>1, RowsOfTables
  <2>3. Tabled(order', fresh)
    BY <1>1, <2>1, <2>2, RowToFront
  <2>4. Numbered(steps', fresh') /\ cursor' \in Cursors /\ fresh' \in SUBSET fresh
    <3>1. StepNumbers(p) \in SUBSET Nat
      BY <1>1, NumbersOfSteps
    <3>2. ASSUME NEW n \in StepNumbers(p), DeleteStep(p, n)
          PROVE  Numbered(steps', fresh') /\ cursor' \in Cursors /\ fresh' \in SUBSET fresh
      <4>1. Numbered(steps', fresh') /\ cursor' \in Cursors /\ fresh' = fresh
        BY <1>1, <3>1, <3>2, StepDeleted
      <4>. QED
        BY <4>1
    <3>3. ASSUME NEW n \in StepNumbers(p) \cup {0}, NEW uid \in Steps, InsertStep(p, n, uid)
          PROVE  Numbered(steps', fresh') /\ cursor' \in Cursors /\ fresh' \in SUBSET fresh
      BY <1>1, <3>1, <3>3, StepInserted
    <3>. QED
      BY <1>6, <3>2, <3>3 DEF StepsAreChanged
  <2>5. Tabled(order', fresh')
    BY <2>3, <2>4, TablesLast
  <2>. QED
    BY <1>3, <2>4, <2>5, UiKeptSound
<1>. QED
  BY <1>4, <1>5, <1>6

-----------------------------------------------------------------------------
(* Every step *)

LEMMA InitSound == ScreenInit => ScreenSound
<1> SUFFICES ASSUME ScreenInit PROVE ScreenSound
  OBVIOUS
<1> DEFINE u == [view |-> "runs", index |-> [l \in Lists |-> 0], rows |-> order,
                 cursors |-> cursor, drawn |-> [l \in Lists |-> Nothing],
                 focus |-> "targets", diff |-> 0, help |-> FALSE, palette |-> FALSE,
                 shown |-> {"composer"}, editor |-> NoEditor, busy |-> FALSE]
<1>1. PICK s \in Scenarios :
         /\ order = s.tables /\ bound = [views |-> s.views, changes |-> s.changes, goals |-> s.goals]
         /\ fresh = s.fresh
  BY DEF ScreenInit
<1>2. /\ steps = StepsAtFirst /\ cursor = [p \in Ids["plans"] |-> 1]
      /\ ui = RefreshDashboard(u, order, cursor)
      /\ goal = Idle /\ live = {} /\ commanded = {} /\ edited = {}
  BY DEF ScreenInit
<1>3. Tabled(order, fresh)
  BY <1>1, ScreenAssumption DEF Tabled, AnyRow
<1>4. Numbered(steps, fresh)
  <2>1. steps \in [Ids["plans"] -> SUBSET StepRows]
    BY <1>2, ScreenAssumption DEF StepRows
  <2>2. ASSUME NEW p \in Ids["plans"] PROVE \E m \in Nat : \A r \in steps[p] : r.no <= m
    <3> DEFINE m == Cardinality(StepsAtFirst[p])
    <3>1. m \in Nat
      BY ScreenAssumption, FS_CardinalityType
    <3>2. \A r \in steps[p] : r.no \in 1..m
      BY <1>2, ScreenAssumption
    <3>. HIDE DEF m
    <3>. QED
      BY <3>1, <3>2
  <2>3. \A p \in Ids["plans"] : \A r \in steps[p] : r.uid \notin fresh
    BY <1>1, <1>2, ScreenAssumption
  <2>4. \A p \in Ids["plans"] : \A q, r \in steps[p] : q.no = r.no => q = r
    BY <1>2, ScreenAssumption
  <2>. QED
    BY <2>1, <2>2, <2>3, <2>4 DEF Numbered
<1>5. cursor \in Cursors
  BY <1>2 DEF Cursors
<1>6. /\ u \in Uis /\ u.rows = order /\ u.editor = NoEditor /\ u.shown = {"composer"}
      /\ u.palette = FALSE /\ u.busy = FALSE
  BY <1>3, <1>5, NoEditorFits, ListsNamed DEF Uis, Views, Widgets, Tabled
<1>. HIDE DEF u
<1>7. WidgetsFit(u)
  <2>1. ~u.palette /\ u.palette \in BOOLEAN
    BY <1>6
  <2>2. ~("palette" \in u.shown)
    BY <1>6
  <2>3. ("palette" \in u.shown) \in BOOLEAN
    OBVIOUS
  <2>4. u.palette = ("palette" \in u.shown)
    BY <2>1, <2>2, <2>3, SameTruth, Zenon
  <2>5. u.shown # {} /\ u.shown \cap {"editor", "editor-area"} = {}
    BY <1>6
  <2>. QED
    BY <1>6, <2>4, <2>5 DEF WidgetsFit
<1>8. UiWell(u, fresh)
  BY <1>3, <1>6, <1>7, NoEditorFits DEF UiWell, Tabled
<1>9. UiFits(ui, fresh) /\ ui.busy = FALSE
  BY <1>2, <1>3, <1>5, <1>6, <1>8, Refreshed
<1>10. GoalFits(goal, ui.busy)
  BY <1>2, <1>9 DEF GoalFits, Goals, Idle
<1>11. bound \in Bounds
  BY <1>1, ScreenAssumption DEF Bounds, Views
<1>. QED
  BY <1>2, <1>3, <1>4, <1>5, <1>9, <1>10, <1>11 DEF ScreenSound

LEMMA NextSound == ScreenSound /\ [ScreenNext]_screenVars => ScreenSound'
<1> SUFFICES ASSUME ScreenSound, [ScreenNext]_screenVars PROVE ScreenSound'
  OBVIOUS
<1>1. CASE UNCHANGED screenVars
  <2>1. /\ order' = order /\ fresh' = fresh /\ steps' = steps /\ cursor' = cursor /\ ui' = ui
        /\ goal' = goal /\ live' = live /\ bound' = bound /\ commanded' = commanded /\ edited' = edited
    BY <1>1 DEF screenVars, database
  <2>. QED
    BY <2>1 DEF ScreenSound
<1>2. CASE ScreenNext
  <2>1. CASE \/ Refresh \/ ToggleReviewFocus \/ ToggleHelp \/ OtherCommand
             \/ \E v \in bound.views : SwitchView(v) \/ FocusView(v)
             \/ \E forward \in BOOLEAN : MoveSelection(forward) \/ NextDiffFile(forward)
    BY <2>1, ViewsKeepSound
  <2>2. CASE TogglePalette \/ Escape
    BY <2>2, WidgetsKeepSound
  <2>3. CASE \E forward \in BOOLEAN : MovePlanStep(forward)
    BY <2>3, MovePlanStepSound
  <2>4. CASE ReviewTarget \/ ReviewFile \/ \E forward \in BOOLEAN : MoveReviewTarget(forward)
    BY <2>4, ReviewsKeepSound
  <2>5. CASE \E l \in Lists : WriteSelected(l) \/ OpenTarget(l)
    BY <2>5, WriteSelectedSound, OpenTargetSound
  <2>6. CASE \/ \E l \in Lists : RowArrives(l) \/ RowIsWritten(l)
             \/ \E p \in Ids["plans"] : StepsAreChanged(p)
    BY <2>6, ElsewhereSound
  <2>7. CASE ResolveSelected \/ AdvanceSelected
    BY <2>7, ResolveSelectedSound, AdvanceSelectedSound
  <2>8. CASE AddStep \/ DropStep \/ DropSelected
    BY <2>8, StepCommandsSound
  <2>9. CASE PickSelector \/ PressSelector
    BY <2>9, SelectorSound
  <2>10. CASE \/ OpenStepEditor \/ OpenAddEditor
              \/ \E mode \in Multiline \cup {"session-title"} : OpenSessionEditor(mode)
    BY <2>10, OpenEditorSound DEF Modes
  <2>11. CASE SaveStep \/ SaveNewStep \/ SaveUntitled \/ \E empty \in BOOLEAN : SaveSession(empty)
    BY <2>11, SavesSound
  <2>12. CASE GoalStep
    BY <2>12, GoalStepsSound
  <2>13. CASE Callback \/ SubmitGoal
    BY <2>13, CallbacksSound
  <2>. QED
    BY <1>2, <2>1, <2>2, <2>3, <2>4, <2>5, <2>6, <2>7, <2>8, <2>9, <2>10, <2>11, <2>12, <2>13, Zenon
       DEF ScreenNext
<1>. QED
  BY <1>1, <1>2

LEMMA ScreenInvariant == ScreenSpec => []ScreenSound
BY InitSound, NextSound, PTL DEF ScreenSpec

-----------------------------------------------------------------------------
(* Selections, widgets and goals fit: whatever is opened over what and     *)
(* closed in which order, and however the tables change meanwhile, the     *)
(* selection stays in the lists that were read, a widget takes input, and  *)
(* the screen is busy exactly while a goal has a thread (tui.py:2791-2830, *)
(* 3564-3583).                                                             *)
THEOREM ScreenTyped == ScreenSpec => []ScreenTypeOK
<1>1. ScreenSound => ScreenTypeOK
  <2> SUFFICES ASSUME ScreenSound PROVE ScreenTypeOK
    OBVIOUS
  <2>1. /\ order \in [Lists -> Seq(UNION {Ids[l] : l \in Lists})]
        /\ steps \in [Ids["plans"] -> SUBSET [no : Nat \ {0}, uid : Steps]]
        /\ cursor \in [Ids["plans"] -> Nat \ {0}]
    BY DEF ScreenSound, Tabled, Numbered, Cursors, AnyRow, StepRows
  <2>2. UiWell(ui, fresh) /\ SelectionFits(ui) /\ ui \in Uis
    BY DEF ScreenSound, UiFits, UiWell
  <2>3. /\ ui.view \in Lists \cup {"review", "integrations"} /\ ui.focus \in {"targets", "files"}
        /\ ui.shown \subseteq {"composer", "palette", "editor", "editor-area"}
    BY <2>2 DEF Uis, Views, Widgets
  <2>4. /\ ui.shown # {} /\ ui.palette = ("palette" \in ui.shown)
        /\ ui.shown \cap {"editor", "editor-area"} =
              IF ui.editor = NoEditor THEN {}
              ELSE IF ui.editor.mode \in Multiline THEN {"editor-area"} ELSE {"editor"}
    BY <2>2 DEF UiWell, WidgetsFit
  <2>5. /\ \A l \in Lists : ui.index[l] < Len(ui.rows[l]) \/ (ui.rows[l] = <<>> /\ ui.index[l] = 0)
        /\ ui.diff = 0 \/ ui.diff < FilesShown(ui)
    BY <2>2 DEF SelectionFits
  <2>6. goal.at \in {"none", "start", "refresh", "select", "execute", "chunk", "done", "fail"}
    BY DEF ScreenSound, GoalFits, Goals
  <2>7. ui.busy = (goal # Idle)
    <3>1. ui.busy \in BOOLEAN /\ (ui.busy <=> goal # Idle)
      BY <2>2 DEF ScreenSound, GoalFits, Uis
    <3>. QED
      BY <3>1, SameTruth, Zenon
  <2>8. live \subseteq Ids["runs"] /\ (commanded \cup edited) \cap fresh = {}
    BY DEF ScreenSound
  <2>. QED
    BY <2>1, <2>3, <2>4, <2>5, <2>6, <2>7, <2>8 DEF ScreenTypeOK
<1>. QED
  BY <1>1, ScreenInvariant, PTL

\* What a step writes: nothing, or the selected row of a list by a command, or
\* what the editor was opened with.
LEMMA WhatIsWritten ==
    ASSUME ScreenNext
    PROVE  /\ \/ commanded' = {}
              \/ \E l \in {"approvals", "jobs", "sessions", "plans"} :
                    Selected(ui, l) # Nothing /\ commanded' \subseteq {Selected(ui, l)}
           /\ \/ edited' = {} \/ SaveStep
              \/ \E empty \in BOOLEAN : SaveSession(empty)
<1>1. \A u : Handled(u) => commanded' = {} /\ edited' = {}
  BY DEF Handled, WritesNothing
<1>2. \A u : Reviewed(u) => commanded' = {} /\ edited' = {}
  BY <1>1 DEF Reviewed
<1>3. \A p, n, u : SelectStep(p, n, u) => commanded' = {} /\ edited' = {}
  BY DEF SelectStep, WritesNothing
<1>4. \A e : Show(e) => commanded' = {} /\ edited' = {}
  BY DEF Show, WritesNothing
<1>5. CASE \/ Refresh \/ ToggleReviewFocus \/ ToggleHelp \/ TogglePalette \/ Escape \/ OtherCommand
           \/ \E v \in bound.views : SwitchView(v) \/ FocusView(v)
           \/ \E forward \in BOOLEAN : MoveSelection(forward) \/ NextDiffFile(forward)
           \/ \E l \in Lists : OpenTarget(l)
  BY <1>1, <1>5, Zenon DEF Refresh, ToggleReviewFocus, ToggleHelp, TogglePalette, Escape, OtherCommand,
       SwitchView, FocusView, MoveSelection, NextDiffFile, OpenTarget, WritesNothing
<1>6. CASE ReviewTarget \/ ReviewFile \/ \E forward \in BOOLEAN : MoveReviewTarget(forward)
  BY <1>2, <1>6, Zenon DEF ReviewTarget, ReviewFile, MoveReviewTarget
<1>7. CASE PickSelector \/ PressSelector \/ \E forward \in BOOLEAN : MovePlanStep(forward)
  BY <1>1, <1>3, <1>7, Zenon DEF PickSelector, PressSelector, MovePlanStep
<1>8. CASE \/ OpenStepEditor \/ OpenAddEditor
           \/ \E mode \in Multiline \cup {"session-title"} : OpenSessionEditor(mode)
  BY <1>1, <1>4, <1>8, Zenon DEF OpenStepEditor, OpenAddEditor, OpenSessionEditor
<1>9. CASE GoalStep \/ Callback \/ SubmitGoal
  BY <1>9 DEF GoalStep, StartRun, GoalFails, StreamChunk, GoalEnds, Callback, RefreshForGoal,
       SelectAfterStart, FinishRun, SubmitGoal, WritesNothing
<1>10. CASE \/ \E l \in Lists : RowArrives(l) \/ RowIsWritten(l)
            \/ \E p \in Ids["plans"] : StepsAreChanged(p)
  BY <1>10 DEF RowArrives, RowIsWritten, StepsAreChanged, Elsewhere, WritesNothing
<1>11. CASE SaveStep \/ SaveNewStep \/ SaveUntitled \/ \E empty \in BOOLEAN : SaveSession(empty)
  BY <1>11 DEF SaveStep, SaveNewStep, SaveUntitled, SaveSession, EndSave
<1>12. CASE ResolveSelected
  BY <1>12 DEF ResolveSelected, EndCommand
<1>13. CASE AdvanceSelected \/ AddStep \/ DropStep \/ DropSelected
  BY <1>13 DEF AdvanceSelected, AddStep, DropStep, DropSelected, EndCommand
<1>14. ASSUME NEW l \in Lists, WriteSelected(l)
       PROVE  /\ Selected(ui, l) # Nothing /\ commanded' \subseteq {Selected(ui, l)} /\ edited' = {}
              /\ l \in {"approvals", "jobs", "sessions", "plans"}
  BY <1>14 DEF WriteSelected, EndCommand
<1>15. CASE \E l \in Lists : WriteSelected(l)
  BY <1>14, <1>15
<1>. QED
  BY <1>5, <1>6, <1>7, <1>8, <1>9, <1>10, <1>11, <1>12, <1>13, <1>15, Zenon DEF ScreenNext

(* A command writes the row the panes show as selected, though the tables  *)
(* have moved since it was drawn: between two refreshes nothing moves the  *)
(* index, and every refresh draws what it selects (tui.py:3564-3583,       *)
(* 4032-4153).                                                             *)
THEOREM CommandsHitWhatIsDrawn == ScreenSpec => WritesWhatIsDrawn
<1>1. ScreenSound /\ [ScreenNext]_screenVars
         => [commanded' \subseteq {ui.drawn[l] : l \in Lists}]_screenVars
  <2> SUFFICES ASSUME ScreenSound, ScreenNext PROVE commanded' \subseteq {ui.drawn[l] : l \in Lists}
    OBVIOUS
  <2>1. CASE commanded' = {}
    BY <2>1
  <2>2. CASE \E l \in {"approvals", "jobs", "sessions", "plans"} :
                Selected(ui, l) # Nothing /\ commanded' \subseteq {Selected(ui, l)}
    <3>1. PICK l \in Lists : commanded' \subseteq {Selected(ui, l)}
      BY <2>2, ListsNamed
    <3>2. ui.drawn[l] = Selected(ui, l)
      BY DEF ScreenSound, UiFits, SelectionFits
    <3>. QED
      BY <3>1, <3>2
  <2>. QED
    BY <2>1, <2>2, WhatIsWritten
<1>. QED
  BY <1>1, ScreenInvariant, PTL DEF ScreenSpec, WritesWhatIsDrawn

(* A saved text goes where it was loaded from, unless the step has not the *)
(* number any more: the editor keeps the row, and a plan has a number once *)
(* (tui.py:3257, 3283-3318).                                               *)
THEOREM SavesGoHome == ScreenSpec => SaveGoesWhereItWasOpened
<1>1. ScreenSound /\ [ScreenNext]_screenVars
         => [edited' # {} =>
                \/ edited' = {ui.editor.loaded}
                \/ /\ ui.editor.mode = "plan-edit-inline"
                   /\ [no |-> ui.editor.no, uid |-> ui.editor.loaded] \notin steps[ui.editor.item]
            ]_screenVars
  <2> SUFFICES ASSUME ScreenSound, ScreenNext, edited' # {}
               PROVE  \/ edited' = {ui.editor.loaded}
                      \/ /\ ui.editor.mode = "plan-edit-inline"
                         /\ [no |-> ui.editor.no, uid |-> ui.editor.loaded] \notin steps[ui.editor.item]
    OBVIOUS
  <2> DEFINE e == ui.editor
  <2>1. EditorFits(e, fresh) /\ Numbered(steps, fresh)
    BY DEF ScreenSound, UiFits, UiWell
  <2>2. CASE \E empty \in BOOLEAN : SaveSession(empty)
    <3>1. e.mode \in {"session-title", "session-summary"} /\ edited' = {e.item}
      BY <2>2 DEF SaveSession
    <3>2. e.loaded = e.item
      BY <2>1, <3>1 DEF EditorFits
    <3>. QED
      BY <3>1, <3>2
  <2>3. CASE SaveStep
    <3>1. e.mode = "plan-edit-inline" /\ edited' = StepAt(e.item, e.no)
      BY <2>3 DEF SaveStep
    <3> DEFINE row == [no |-> e.no, uid |-> e.loaded]
    <3>2. e.item \in Ids["plans"] /\ row.no = e.no /\ row.uid = e.loaded
      BY <2>1, <3>1 DEF EditorFits
    <3>. HIDE DEF e, row
    <3>3. row \in steps[e.item] => StepAt(e.item, e.no) = {e.loaded}
      <4> SUFFICES ASSUME row \in steps[e.item] PROVE StepAt(e.item, e.no) = {e.loaded}
        OBVIOUS
      <4>1. \A r \in steps[e.item] : r.no = e.no => r = row
        BY <2>1, <3>2 DEF Numbered
      <4>2. ASSUME NEW x PROVE x \in StepAt(e.item, e.no) <=> x = e.loaded
        BY <3>2, <4>1 DEF StepAt
      <4>. QED
        BY <4>2
    <3>. QED
      BY <3>1, <3>3 DEF e, row
  <2>. QED
    BY <2>2, <2>3, WhatIsWritten
<1>. QED
  BY <1>1, ScreenInvariant, PTL DEF ScreenSpec, SaveGoesWhereItWasOpened

===============================================================================
