------------------------------ MODULE PlansProofs ------------------------------
(***************************************************************************)
(* What TLAPS proves of plans: what holds for any number of actors that    *)
(* use any commands under each other, what holds for any number that       *)
(* renumber no step, and what holds for one session at a time that works   *)
(* behind the cursor.                                                      *)
(***************************************************************************)
EXTENDS Plans, FiniteSetTheorems, WellFoundedInduction, TLAPS

-----------------------------------------------------------------------------
(* Least and greatest of a set of numbers: induction is an argument by the *)
(* least counterexample.                                                   *)

LEMMA MinIsLeast ==
    ASSUME NEW S \in SUBSET Nat, S # {}
    PROVE  Min(S) \in S /\ \A m \in S : Min(S) <= m
<1>1. PICK k \in S : \A m \in S : <<m, k>> \notin OpToRel(<, Nat)
  BY WFMin, NatLessThanWellFounded, Zenon
<1>2. ASSUME NEW m \in S PROVE k <= m
  <2>1. m \in Nat /\ k \in Nat
    OBVIOUS
  <2>2. ~(m < k)
    BY <1>1, <1>2, <2>1, Zenon DEF OpToRel
  <2>. QED
    BY <2>1, <2>2
<1>. QED
  BY <1>2 DEF Min

LEMMA MaxIsGreatest ==
    ASSUME NEW n \in Nat, NEW S \in SUBSET (1 .. n), S # {}
    PROVE  Max(S) \in S /\ \A m \in S : m <= Max(S)
<1> DEFINE Below == {k \in Nat : n - k \in S}
<1>1. Below # {}
  <2>1. PICK s \in S : TRUE
    OBVIOUS
  <2>2. n - s \in Nat /\ n - (n - s) = s
    OBVIOUS
  <2>. QED
    BY <2>1, <2>2
<1>2. Min(Below) \in Below /\ \A k \in Below : Min(Below) <= k
  BY <1>1, MinIsLeast
<1> DEFINE r == n - Min(Below)
<1>3. r \in S
  BY <1>2
<1>4. ASSUME NEW s \in S PROVE s <= r
  <2>1. n - s \in Nat /\ n - (n - s) = s
    OBVIOUS
  <2>2. n - s \in Below
    BY <2>1
  <2>. QED
    BY <1>2, <2>1, <2>2
<1>. HIDE DEF r
<1>. QED
  BY <1>3, <1>4 DEF Max

-----------------------------------------------------------------------------
(* Any actors, any commands *)

\* The rows of the table: their keys are keys, and were handed out before.
Keyed(R) ==
    /\ R \subseteq Rows
    /\ \A q, r \in R : q.no = r.no \/ q.id = r.id \/ q.uid = r.uid => q = r
HandedOut(R, m) == \A r \in R : r.uid <= m /\ r.id[2] <= m

\* What a command has read: numbers that a row had, each id and number once.
ActSound(x) ==
    /\ x.at \in {"begin", "markBegin", "execute"} => x.uid \in Uids
    /\ x.at \in {"drop", "select", "replace"} => x.no \in Numbers
    /\ x.at = "insert" =>
          /\ x.no + 1 \in Numbers
          /\ \A s, t \in x.snap : s[1] = t[1] \/ s[2] = t[2] => s = t

PlanSound ==
    /\ TypeOK
    /\ HandedOut(rows, made)
    /\ \A a \in Actors : ActSound(act[a])

LEMMA IdleSound == Idle \in Acts /\ ActSound(Idle) /\ Idle.at = "idle"
<1>1. 0 \in 0 .. MaxNo /\ 0 \in 0 .. MaxRows
  BY PlanAssumption
<1>. QED
  BY <1>1 DEF Idle, Acts, Labels, ActSound

\* One actor goes on, whatever it does to the tables.
LEMMA ActorMoves ==
    ASSUME PlanSound, NEW a \in Actors, NEW x \in Acts, ActSound(x),
           act' = [act EXCEPT ![a] = x],
           Keyed(rows'), HandedOut(rows', made'), made' \in 0 .. MaxRows,
           plan' \in [status : PlanStatus, cursor : Numbers], executed' \subseteq Uids
    PROVE  PlanSound'
<1>1. act \in [Actors -> Acts]
  BY DEF PlanSound, TypeOK
<1>2. act' \in [Actors -> Acts]
  BY <1>1
<1>3. ASSUME NEW b \in Actors PROVE ActSound(act'[b])
  <2>1. CASE b = a
    BY <1>1, <2>1
  <2>2. CASE b # a
    BY <1>1, <2>2 DEF PlanSound
  <2>. QED
    BY <2>1, <2>2
<1>4. TypeOK'
  BY <1>2 DEF TypeOK, Keyed
<1>. QED
  BY <1>3, <1>4 DEF PlanSound

\* The same when the tables stay.
LEMMA ActorReads ==
    ASSUME PlanSound, NEW a \in Actors, NEW x \in Acts, ActSound(x),
           act' = [act EXCEPT ![a] = x], UNCHANGED <<rows, made>>,
           plan' \in [status : PlanStatus, cursor : Numbers], executed' \subseteq Uids
    PROVE  PlanSound'
<1>1. Keyed(rows) /\ HandedOut(rows, made) /\ made \in 0 .. MaxRows
  BY DEF PlanSound, TypeOK, Keyed
<1>. QED
  BY <1>1, ActorMoves

LEMMA Relabeled ==
    ASSUME PlanSound, NEW a \in Actors, NEW l \in Labels,
           l \in {"begin", "markBegin", "execute"} => act[a].uid \in Uids,
           l \notin {"drop", "select", "replace", "insert"}
    PROVE  /\ [act[a] EXCEPT !.at = l] \in Acts
           /\ ActSound([act[a] EXCEPT !.at = l])
           /\ [act EXCEPT ![a].at = l] = [act EXCEPT ![a] = [act[a] EXCEPT !.at = l]]
<1>1. act[a] \in Acts
  BY DEF PlanSound, TypeOK
<1> DEFINE x == [act[a] EXCEPT !.at = l]
<1>2. x \in Acts /\ x.at = l /\ x.uid = act[a].uid
  BY <1>1 DEF Acts
<1>3. [act EXCEPT ![a].at = l] = [act EXCEPT ![a] = x]
  OBVIOUS
<1>. HIDE DEF x
<1>4. ActSound(x)
  BY <1>2 DEF ActSound
<1>. QED
  BY <1>2, <1>3, <1>4 DEF x

\* Rows that keep their ids and their uids, and have numbers of their own.
LEMMA RowsMapped ==
    ASSUME PlanSound, NEW S \in SUBSET rows, NEW g,
           \A r \in S : g[r] \in Rows /\ g[r].id = r.id /\ g[r].uid = r.uid,
           \A q, r \in S : g[q].no = g[r].no => q = r
    PROVE  Keyed({g[r] : r \in S}) /\ HandedOut({g[r] : r \in S}, made)
BY DEF PlanSound, TypeOK, Keyed, HandedOut

\* Rows that differ in their status alone.
LEMMA RowsMarked ==
    ASSUME PlanSound, NEW n, NEW s \in StepStatus, MarkStep(n, s)
    PROVE  Keyed(rows') /\ HandedOut(rows', made)
<1> DEFINE g == [r \in rows |-> IF r.no = n THEN [r EXCEPT !.status = s] ELSE r]
<1>1. rows' = {g[r] : r \in rows}
  BY DEF MarkStep
<1>2. rows \subseteq Rows
  BY DEF PlanSound, TypeOK
<1>3. ASSUME NEW r \in rows
      PROVE  g[r] \in Rows /\ g[r].no = r.no /\ g[r].id = r.id /\ g[r].uid = r.uid
  BY <1>2 DEF Rows
<1>. HIDE DEF g
<1>4. \A q, r \in rows : g[q].no = g[r].no => q = r
  BY <1>3 DEF PlanSound, TypeOK
<1>5. Keyed({g[r] : r \in rows}) /\ HandedOut({g[r] : r \in rows}, made)
  <2>1. rows \in SUBSET rows
    OBVIOUS
  <2>2. \A r \in rows : g[r] \in Rows /\ g[r].id = r.id /\ g[r].uid = r.uid
    BY <1>3
  <2>. QED
    BY <1>4, <2>1, <2>2, RowsMapped
<1>. QED
  BY <1>1, <1>5

LEMMA RunKeepsSound ==
    ASSUME PlanSound, NEW a \in Actors, RunSteps(a)
    PROVE  PlanSound'
<1>1. /\ act \in [Actors -> Acts] /\ act[a] \in Acts
      /\ plan \in [status : PlanStatus, cursor : Numbers] /\ rows \subseteq Rows
      /\ executed \subseteq Uids /\ made \in 0 .. MaxRows
  BY DEF PlanSound, TypeOK
<1>2. \A s \in PlanStatus : MarkPlan(s)
                            => plan' \in [status : PlanStatus, cursor : Numbers]
  BY <1>1 DEF MarkPlan
<1>3. CASE StartRun(a)
  <2>1. PICK r \in StepsAt(plan.cursor) :
          act' = [act EXCEPT ![a] = [Idle EXCEPT !.at = "begin", !.no = r.no, !.uid = r.uid]]
    BY <1>3 DEF StartRun
  <2> DEFINE x == [Idle EXCEPT !.at = "begin", !.no = r.no, !.uid = r.uid]
  <2>2. r.no \in 0 .. MaxNo /\ r.uid \in Uids /\ r.uid \in 0 .. MaxRows
    BY <1>1, PlanAssumption DEF StepsAt, Rows, Numbers, Uids
  <2>3. x \in Acts /\ x.at = "begin" /\ x.uid = r.uid
    BY <2>2, IdleSound DEF Acts, Labels
  <2>4. act' = [act EXCEPT ![a] = x] /\ UNCHANGED <<rows, plan, made, executed>>
    BY <1>3, <2>1 DEF StartRun
  <2>. HIDE DEF x
  <2>5. ActSound(x)
    BY <2>2, <2>3 DEF ActSound
  <2>. QED
    BY <1>1, <2>3, <2>4, <2>5, ActorReads
<1>4. ASSUME NEW l \in Labels, Goto(a, l), UNCHANGED <<rows, made>>,
             l \in {"begin", "markBegin", "execute"} => act[a].uid \in Uids,
             l \notin {"drop", "select", "replace", "insert"},
             plan' \in [status : PlanStatus, cursor : Numbers], executed' \subseteq Uids
      PROVE  PlanSound'
  <2> DEFINE x == [act[a] EXCEPT !.at = l]
  <2>1. x \in Acts /\ ActSound(x) /\ act' = [act EXCEPT ![a] = x]
    BY <1>4, Relabeled DEF Goto
  <2>. HIDE DEF x
  <2>. QED
    BY <1>4, <2>1, ActorReads
<1>5. ASSUME Finish(a), UNCHANGED <<rows, made>>,
             plan' \in [status : PlanStatus, cursor : Numbers], executed' \subseteq Uids
      PROVE  PlanSound'
  BY <1>5, IdleSound, ActorReads DEF Finish
<1>6. ASSUME NEW l \in Labels, Goto(a, l), NEW s \in StepStatus, MarkStep(act[a].no, s),
             l \in {"begin", "markBegin", "execute"} => act[a].uid \in Uids,
             l \notin {"drop", "select", "replace", "insert"},
             UNCHANGED <<plan, made, executed>>
      PROVE  PlanSound'
  <2> DEFINE x == [act[a] EXCEPT !.at = l]
  <2>1. x \in Acts /\ ActSound(x) /\ act' = [act EXCEPT ![a] = x]
    BY <1>6, Relabeled DEF Goto
  <2>2. Keyed(rows') /\ HandedOut(rows', made)
    BY <1>6, RowsMarked
  <2>. HIDE DEF x
  <2>. QED
    BY <1>1, <1>6, <2>1, <2>2, ActorMoves
<1>7. \A l \in {"begin", "markBegin", "execute"} : At(a, l) => act[a].uid \in Uids
  BY DEF PlanSound, ActSound, At
<1>8. CASE BeginPlan(a)
  <2>1. Goto(a, "markBegin") /\ At(a, "begin") /\ UNCHANGED <<rows, made, executed>>
        /\ MarkPlan("in_progress")
    BY <1>8 DEF BeginPlan
  <2>2. "markBegin" \in Labels /\ "in_progress" \in PlanStatus
    BY DEF Labels, PlanStatus
  <2>. QED
    BY <1>1, <1>2, <1>4, <1>7, <2>1, <2>2
<1>9. CASE BeginStep(a)
  <2>1. Goto(a, "execute") /\ At(a, "markBegin") /\ UNCHANGED <<plan, made, executed>>
        /\ MarkStep(act[a].no, "in_progress")
    BY <1>9 DEF BeginStep
  <2>2. "execute" \in Labels /\ "in_progress" \in StepStatus
    BY DEF Labels, StepStatus
  <2>. QED
    BY <1>6, <1>7, <2>1, <2>2
<1>10. CASE EndRun(a)
  <2>1. At(a, "execute") /\ UNCHANGED <<rows, plan, made>>
        /\ executed' \in {executed, executed \cup {act[a].uid}}
        /\ (Finish(a) \/ Goto(a, "markDone") \/ Goto(a, "markFailed"))
    BY <1>10 DEF EndRun
  <2>2. "markDone" \in Labels /\ "markFailed" \in Labels
    BY DEF Labels
  <2>3. executed' \subseteq Uids
    BY <1>1, <1>7, <2>1
  <2>. QED
    BY <1>1, <1>4, <1>5, <2>1, <2>2, <2>3
<1>11. CASE MarkEnd(a)
  <2>1. \/ MarkStep(act[a].no, "done") /\ Goto(a, "advance")
        \/ MarkStep(act[a].no, "failed") /\ Goto(a, "block")
    BY <1>11 DEF MarkEnd
  <2>2. "advance" \in Labels /\ "block" \in Labels /\ "done" \in StepStatus
        /\ "failed" \in StepStatus /\ UNCHANGED <<plan, made, executed>>
    BY <1>11 DEF Labels, StepStatus, MarkEnd
  <2>. QED
    BY <1>6, <2>1, <2>2
<1>12. CASE BlockAfterFailure(a) \/ FinishPlan(a)
  <2>1. Finish(a) /\ UNCHANGED <<rows, made, executed>> /\ \E s \in PlanStatus : MarkPlan(s)
    BY <1>12 DEF BlockAfterFailure, FinishPlan, PlanStatus
  <2>. QED
    BY <1>1, <1>2, <1>5, <2>1
<1>13. ASSUME NEW l \in {"advanceNext", "advanceWrite"}, NEW n \in 0 .. MaxNo,
              act' = [act EXCEPT ![a].at = l, ![a].seen = n],
              UNCHANGED <<rows, plan, made, executed>>
       PROVE  PlanSound'
  <2> DEFINE x == [[act[a] EXCEPT !.at = l] EXCEPT !.seen = n]
  <2>1. x \in Acts /\ x.at = l
    BY <1>1, <1>13 DEF Acts, Labels
  <2>2. act' = [act EXCEPT ![a] = x]
    BY <1>1, <1>13
  <2>. HIDE DEF x
  <2>3. ActSound(x)
    BY <1>13, <2>1 DEF ActSound
  <2>. QED
    BY <1>1, <1>13, <2>1, <2>2, <2>3, ActorReads
<1>14. CASE AdvanceCursor(a)
  <2>1. plan.cursor \in 0 .. MaxNo
    BY <1>1 DEF Numbers
  <2>. QED
    BY <1>13, <1>14, <2>1 DEF AdvanceCursor
<1>15. CASE AdvanceNext(a)
  <2> DEFINE later == {n \in UsedNumbers : n > act[a].seen}
             next == IF later = {} THEN 0 ELSE Min(later)
  <2>1. later \subseteq 1 .. MaxNo /\ later \subseteq Nat
    BY <1>1 DEF UsedNumbers, Rows, Numbers
  <2>2. /\ act' = [act EXCEPT ![a].at = "advanceWrite", ![a].seen = next]
        /\ UNCHANGED <<rows, plan, made, executed>>
    BY <1>15 DEF AdvanceNext
  <2>. HIDE DEF later
  <2>3. later # {} => Min(later) \in later
    BY <2>1, MinIsLeast
  <2>4. next \in 0 .. MaxNo
    <3>1. CASE later = {}
      BY <3>1, PlanAssumption
    <3>2. CASE later # {}
      <4>1. next \in 1 .. MaxNo
        BY <2>1, <2>3, <3>2
      <4>. QED
        BY <4>1, PlanAssumption
    <3>. QED
      BY <3>1, <3>2
  <2>. QED
    BY <1>13, <2>2, <2>4
<1>16. CASE AdvanceWrite(a)
  <2>1. CASE act[a].seen = 0
    <3>1. MarkPlan("done") /\ (Goto(a, "finish") \/ Finish(a)) /\ UNCHANGED <<rows, made, executed>>
      BY <1>16, <2>1 DEF AdvanceWrite
    <3>2. "finish" \in Labels /\ "done" \in PlanStatus
      BY DEF Labels, PlanStatus
    <3>. QED
      BY <1>1, <1>2, <1>4, <1>5, <3>1, <3>2
  <2>2. CASE act[a].seen # 0
    <3>1. plan' = [status |-> "in_progress", cursor |-> act[a].seen] /\ Finish(a)
          /\ UNCHANGED <<rows, made, executed>>
      BY <1>16, <2>2 DEF AdvanceWrite
    <3>2. act[a].seen \in Numbers
      BY <1>1, <2>2 DEF Acts, Numbers
    <3>3. plan' \in [status : PlanStatus, cursor : Numbers]
      BY <3>1, <3>2 DEF PlanStatus
    <3>. QED
      BY <1>1, <1>5, <3>1, <3>3
  <2>. QED
    BY <2>1, <2>2
<1>. QED
  BY <1>3, <1>8, <1>9, <1>10, <1>11, <1>12, <1>14, <1>15, <1>16, Zenon DEF RunSteps

\* The UPDATEs of an insertion give each row a number of its own: they go by
\* numbers that were read together, and meet no row that has the number.
LEMMA ShiftedApart ==
    ASSUME Keyed(rows), NEW snap \in SUBSET (Ids \X Numbers),
           \A s, t \in snap : s[1] = t[1] \/ s[2] = t[2] => s = t,
           ~ShiftClashes(snap)
    PROVE  /\ \A r \in rows : Shifted(r, snap, 1) \in Nat \ {0}
           /\ \A q, r \in rows : Shifted(q, snap, 1) = Shifted(r, snap, 1) => q = r
<1> DEFINE Read(r) == \E s \in snap : s[1] = r.id
<1>1. \A s \in snap : s[2] \in Nat /\ s[2] >= 1
  BY DEF Numbers
<1>2. ASSUME NEW r \in rows, ~Read(r) PROVE \A n : Shifted(r, snap, n) = r.no
  BY <1>2 DEF Shifted
<1>3. ASSUME NEW r \in rows, NEW s \in snap, s[1] = r.id
      PROVE  Shifted(r, snap, 1) = s[2] + 1
  <2>1. \E t \in snap : t[1] = r.id /\ t[2] >= 1
    BY <1>1, <1>3
  <2>2. s = CHOOSE t \in snap : t[1] = r.id
    BY <1>3
  <2>. QED
    BY <2>1, <2>2 DEF Shifted
<1>4. \A r \in rows : r.no \in Nat \ {0}
  BY DEF Keyed, Rows, Numbers
<1>5. ASSUME NEW r \in rows PROVE Shifted(r, snap, 1) \in Nat \ {0}
  <2>1. CASE Read(r)
    <3>1. PICK s \in snap : s[1] = r.id
      BY <2>1
    <3>2. s[2] \in Nat
      BY <1>1
    <3>. QED
      BY <1>3, <3>1, <3>2
  <2>2. CASE ~Read(r)
    BY <1>2, <1>4, <2>2
  <2>. QED
    BY <2>1, <2>2
<1>6. ASSUME NEW q \in rows, NEW r \in rows, Read(q), ~Read(r),
             Shifted(q, snap, 1) = Shifted(r, snap, 1)
      PROVE  FALSE
  <2>1. PICK s \in snap : s[1] = q.id
    BY <1>6
  <2>2. Shifted(r, snap, 1) = s[2] + 1
    BY <1>3, <1>6, <2>1
  <2>3. Shifted(r, snap, s[2] + 1) = s[2] + 1
    BY <1>2, <1>6, <2>2
  <2>4. r.id # s[1]
    BY <1>6, <2>1
  <2>. QED
    BY <2>1, <2>3, <2>4 DEF ShiftClashes
<1>7. ASSUME NEW q \in rows, NEW r \in rows, Read(q), Read(r),
             Shifted(q, snap, 1) = Shifted(r, snap, 1)
      PROVE  q = r
  <2>1. PICK s \in snap : s[1] = q.id
    BY <1>7
  <2>2. PICK t \in snap : t[1] = r.id
    BY <1>7
  <2>3. s[2] + 1 = t[2] + 1 /\ s[2] \in Nat /\ t[2] \in Nat
    BY <1>1, <1>3, <1>7, <2>1, <2>2
  <2>4. s = t
    BY <2>3
  <2>. QED
    BY <2>1, <2>2, <2>4 DEF Keyed
<1>8. ASSUME NEW q \in rows, NEW r \in rows, ~Read(q), ~Read(r),
             Shifted(q, snap, 1) = Shifted(r, snap, 1)
      PROVE  q = r
  BY <1>2, <1>8 DEF Keyed
<1>9. ASSUME NEW q \in rows, NEW r \in rows, Shifted(q, snap, 1) = Shifted(r, snap, 1)
      PROVE  q = r
  <2>. HIDE DEF Read
  <2>. QED
    BY <1>6, <1>7, <1>8, <1>9
<1>. QED
  BY <1>5, <1>9

\* One row more, under keys of its own.
LEMMA RowAdded ==
    ASSUME NEW R, Keyed(R), NEW m \in Nat, HandedOut(R, m), m + 1 \in Uids,
           NEW n \in Numbers, \A r \in R : r.no # n
    PROVE  LET new == PlanStep(n, <<n, m + 1>>, m + 1)
           IN  Keyed(R \cup {new}) /\ HandedOut(R \cup {new}, m + 1)
<1> DEFINE new == PlanStep(n, <<n, m + 1>>, m + 1)
<1>1. /\ new.no = n /\ new.id = <<n, m + 1>> /\ new.uid = m + 1 /\ new.status = "pending"
      /\ new \in Rows
  BY DEF PlanStep, Rows, Ids, StepStatus, Uids
<1>2. \A r \in R : r.uid \in Nat /\ r.id[2] \in Nat
  BY DEF Keyed, Rows, Ids, Uids
<1>3. \A r \in R : r.uid # new.uid /\ r.id # new.id /\ r.no # new.no
  BY <1>1, <1>2 DEF HandedOut
<1>4. new.uid <= m + 1 /\ new.id[2] <= m + 1
  BY <1>1
<1>. HIDE DEF new
<1>5. Keyed(R \cup {new})
  BY <1>1, <1>3 DEF Keyed
<1>6. HandedOut(R \cup {new}, m + 1)
  BY <1>2, <1>4 DEF HandedOut
<1>. QED
  BY <1>5, <1>6 DEF new

LEMMA InsertKeepsSound ==
    ASSUME PlanSound, NEW a \in Actors, InsertWrite(a)
    PROVE  PlanSound'
<1> DEFINE snap == act[a].snap
           k == act[a].no + 1
           g == [r \in rows |-> [r EXCEPT !.no = Shifted(r, snap, 1)]]
           moved == {[r EXCEPT !.no = Shifted(r, snap, 1)] : r \in rows}
<1>1. /\ act[a] \in Acts /\ plan \in [status : PlanStatus, cursor : Numbers]
      /\ rows \subseteq Rows /\ executed \subseteq Uids /\ made \in 0 .. MaxRows
      /\ Keyed(rows) /\ HandedOut(rows, made)
  BY DEF PlanSound, TypeOK, Keyed
<1>2. /\ k \in Numbers /\ snap \in SUBSET (Ids \X Numbers)
      /\ \A s, t \in snap : s[1] = t[1] \/ s[2] = t[2] => s = t
  BY <1>1 DEF InsertWrite, At, PlanSound, ActSound, Acts
<1>3. CASE Refuse(a) /\ UNCHANGED executed
  <2> DEFINE x == [act[a] EXCEPT !.at = "refused"]
  <2>1. x \in Acts /\ ActSound(x) /\ act' = [act EXCEPT ![a] = x]
    BY <1>3, Relabeled DEF Refuse, Goto, Labels
  <2>. HIDE DEF x
  <2>. QED
    BY <1>1, <1>3, <2>1, ActorReads DEF Refuse
<1>4. CASE ~(ShiftClashes(snap) \/ k \in {r.no : r \in moved})
  <2>1. /\ made < MaxRows /\ \A r \in moved : r.no <= MaxNo
        /\ made' = made + 1 /\ rows' = moved \cup {PlanStep(k, <<k, made + 1>>, made + 1)}
        /\ Finish(a) /\ UNCHANGED <<plan, executed>>
    BY <1>4 DEF InsertWrite
  <2>2. /\ \A r \in rows : Shifted(r, snap, 1) \in Nat \ {0}
        /\ \A q, r \in rows : Shifted(q, snap, 1) = Shifted(r, snap, 1) => q = r
    <3>1. ~ShiftClashes(snap)
      BY <1>4
    <3>. HIDE DEF snap
    <3>. QED
      BY <1>1, <1>2, <3>1, ShiftedApart
  <2>. HIDE DEF snap
  <2>3. moved = {g[r] : r \in rows}
    OBVIOUS
  <2>4. \A r \in rows : g[r].no = Shifted(r, snap, 1) /\ g[r].id = r.id /\ g[r].uid = r.uid
    BY <1>1 DEF Rows
  <2>5. \A r \in rows : g[r].no <= MaxNo
    BY <2>1
  <2>6. \A r \in rows : Shifted(r, snap, 1) \in Numbers
    <3>. HIDE DEF g, moved
    <3>1. \A r \in rows : Shifted(r, snap, 1) <= MaxNo
      BY <2>4, <2>5, Zenon
    <3>. QED
      BY <2>2, <3>1, PlanAssumption DEF Numbers
  <2>7. \A r \in rows : g[r] \in Rows
    BY <1>1, <2>6 DEF Rows
  <2>8. \A r \in moved : r.no # k
    BY <1>4
  <2>. HIDE DEF g, moved, k
  <2>9. Keyed(moved) /\ HandedOut(moved, made)
    <3>1. \A q, r \in rows : g[q].no = g[r].no => q = r
      BY <2>2, <2>4
    <3>2. \A r \in rows : g[r] \in Rows /\ g[r].id = r.id /\ g[r].uid = r.uid
      BY <2>4, <2>7
    <3>3. rows \in SUBSET rows
      OBVIOUS
    <3>. QED
      BY <2>3, <3>1, <3>2, <3>3, RowsMapped
  <2>10. made \in Nat /\ made + 1 \in 0 .. MaxRows /\ made + 1 \in Uids
    BY <1>1, <2>1, PlanAssumption DEF Uids
  <2>11. Keyed(rows') /\ HandedOut(rows', made')
    BY <1>2, <2>1, <2>8, <2>9, <2>10, RowAdded
  <2>. QED
    BY <1>1, <2>1, <2>10, <2>11, IdleSound, ActorMoves DEF Finish
<1>. QED
  BY <1>3, <1>4 DEF InsertWrite

\* The rows that are left when one is dropped.
LEMMA ClosedRows ==
    ASSUME PlanSound, NEW k \in Numbers
    PROVE  /\ Keyed(Closed(k)) /\ HandedOut(Closed(k), made)
           /\ {r.no : r \in Closed(k)} \subseteq Numbers
<1> DEFINE S == {q \in rows : q.no # k}
           g == [r \in S |-> IF r.no > k THEN [r EXCEPT !.no = @ - 1] ELSE r]
<1>1. /\ rows \subseteq Rows /\ \A q, r \in rows : q.no = r.no => q = r
  BY DEF PlanSound, TypeOK
<1>2. Closed(k) = {g[r] : r \in S}
  BY DEF Closed
<1>3. \A r \in S : /\ g[r].id = r.id /\ g[r].uid = r.uid
                   /\ g[r].no = IF r.no > k THEN r.no - 1 ELSE r.no
  BY <1>1 DEF Rows
<1>4. \A r \in S : r.no \in Numbers /\ r.no # k /\ r.no \in Nat
  BY <1>1 DEF Rows, Numbers
<1>5. \A r \in S : g[r] \in Rows
  <2> SUFFICES ASSUME NEW r \in S PROVE g[r] \in Rows
    OBVIOUS
  <2>1. r \in Rows /\ k \in Nat /\ k >= 1
    BY <1>1 DEF Numbers
  <2>2. CASE r.no > k
    <3>1. r.no - 1 \in Numbers
      BY <1>4, <2>1, <2>2, PlanAssumption DEF Numbers
    <3>. QED
      BY <2>1, <2>2, <3>1 DEF Rows
  <2>3. CASE ~(r.no > k)
    BY <2>1, <2>3
  <2>. QED
    BY <2>2, <2>3
<1>6. S \in SUBSET rows
  OBVIOUS
<1>. HIDE DEF g
<1>7. \A q, r \in S : g[q].no = g[r].no => q = r
  <2> SUFFICES ASSUME NEW q \in S, NEW r \in S, g[q].no = g[r].no PROVE q = r
    OBVIOUS
  <2>1. q.no = r.no
    BY <1>3, <1>4 DEF Numbers
  <2>. QED
    BY <1>1, <2>1
<1>. HIDE DEF S
<1>8. \A r \in S : g[r] \in Rows /\ g[r].id = r.id /\ g[r].uid = r.uid
  BY <1>3, <1>5
<1>9. Keyed({g[r] : r \in S}) /\ HandedOut({g[r] : r \in S}, made)
  BY <1>6, <1>7, <1>8, RowsMapped
<1>10. Keyed(Closed(k)) /\ HandedOut(Closed(k), made)
  BY <1>2, <1>9
<1>. QED
  BY <1>10 DEF Keyed, Rows

\* Where the cursor lands.
LEMMA LandingIsThere ==
    ASSUME plan.cursor \in Numbers, NEW k \in Numbers, NEW left \in SUBSET Numbers
    PROVE  /\ Landing(k, left) \in Numbers
           /\ plan.cursor = k /\ (\E n \in left : n >= k) =>
                 /\ Landing(k, left) \in left /\ Landing(k, left) >= k
                 /\ \A n \in left : n >= k => Landing(k, left) <= n
           /\ plan.cursor = k /\ left # {} /\ ~(\E n \in left : n >= k) =>
                 /\ Landing(k, left) \in left /\ \A n \in left : n <= Landing(k, left)
<1> DEFINE after == {n \in left : n >= k}
<1>1. plan.cursor \in 1 .. MaxNo /\ k \in 1 .. MaxNo /\ MaxNo \in Nat \ {0}
  BY PlanAssumption DEF Numbers
<1>2. CASE plan.cursor > k
  <2>1. Landing(k, left) = plan.cursor - 1
    BY <1>2 DEF Landing
  <2>2. plan.cursor - 1 \in Numbers /\ plan.cursor # k
    BY <1>1, <1>2 DEF Numbers
  <2>. QED
    BY <2>1, <2>2
<1>3. CASE plan.cursor < k
  <2>1. Landing(k, left) = plan.cursor /\ plan.cursor # k
    BY <1>1, <1>3 DEF Landing
  <2>. QED
    BY <1>1, <2>1 DEF Numbers
<1>4. CASE plan.cursor = k /\ \E n \in left : n >= k
  <2>1. Landing(k, left) = Min(after)
    BY <1>1, <1>4 DEF Landing
  <2>2. after \in SUBSET Nat /\ after # {}
    <3>1. \A n \in Numbers : n \in Nat
      BY DEF Numbers
    <3>. QED
      BY <1>4, <3>1
  <2>3. Min(after) \in after /\ \A n \in after : Min(after) <= n
    BY <2>2, MinIsLeast
  <2>. QED
    BY <1>4, <2>1, <2>3
<1>5. CASE plan.cursor = k /\ ~(\E n \in left : n >= k) /\ left # {}
  <2>1. Landing(k, left) = Max(left)
    BY <1>1, <1>5 DEF Landing
  <2>2. Max(left) \in left /\ \A n \in left : n <= Max(left)
    BY <1>1, <1>5, MaxIsGreatest DEF Numbers
  <2>. QED
    BY <1>5, <2>1, <2>2
<1>6. CASE plan.cursor = k /\ left = {}
  <2>1. Landing(k, left) = 1
    BY <1>1, <1>6 DEF Landing
  <2>. QED
    BY <1>1, <1>6, <2>1 DEF Numbers
<1>7. plan.cursor > k \/ plan.cursor < k \/ plan.cursor = k
  BY <1>1
<1>. QED
  BY <1>2, <1>3, <1>4, <1>5, <1>6, <1>7

LEMMA DropKeepsSound ==
    ASSUME PlanSound, NEW a \in Actors, DropWrite(a)
    PROVE  PlanSound'
<1> DEFINE k == act[a].no
           left == {r.no : r \in Closed(k)}
<1>1. k \in Numbers
  BY DEF DropWrite, At, PlanSound, ActSound
<1>2. /\ plan \in [status : PlanStatus, cursor : Numbers] /\ executed \subseteq Uids
      /\ made \in 0 .. MaxRows
  BY DEF PlanSound, TypeOK
<1>3. /\ rows' = Closed(k) /\ plan' = [plan EXCEPT !.cursor = Landing(k, left)]
      /\ Finish(a) /\ UNCHANGED <<made, executed>>
  BY DEF DropWrite
<1>4. Keyed(Closed(k)) /\ HandedOut(Closed(k), made) /\ left \in SUBSET Numbers
  BY <1>1, ClosedRows
<1>. HIDE DEF k, left
<1>5. Landing(k, left) \in Numbers
  BY <1>1, <1>2, <1>4, LandingIsThere
<1>6. plan' \in [status : PlanStatus, cursor : Numbers]
  BY <1>2, <1>3, <1>5
<1>. QED
  BY <1>2, <1>3, <1>4, <1>6, IdleSound, ActorMoves DEF Finish

\* A draft that shares no id with the rows that stay.
LEMMA DraftFits ==
    ASSUME PlanSound, NEW k \in Numbers, NEW n \in DraftSizes,
           k + n - 1 <= MaxNo, made + n <= MaxRows,
           {r.id : r \in {q \in rows : q.no < k}} \cap {r.id : r \in Draft(k, n)} = {}
    PROVE  LET new == {q \in rows : q.no < k} \cup Draft(k, n)
           IN  Keyed(new) /\ HandedOut(new, made + n) /\ made + n \in 0 .. MaxRows
<1> DEFINE kept == {q \in rows : q.no < k}
<1>1. /\ n \in Nat /\ n >= 1 /\ k \in Nat /\ k >= 1 /\ made \in Nat /\ MaxNo \in Nat
      /\ MaxRows \in Nat
  BY PlanAssumption DEF Numbers, PlanSound, TypeOK
<1>2. rows \subseteq Rows /\ HandedOut(rows, made)
  BY DEF PlanSound, TypeOK
<1>3. \A q, r \in rows : q.no = r.no \/ q.id = r.id \/ q.uid = r.uid => q = r
  BY DEF PlanSound, TypeOK
<1>4. ASSUME NEW i \in 1 .. n
      PROVE  /\ k + i - 1 \in Numbers /\ k + i - 1 >= k
             /\ made + i \in Uids /\ made + i > made /\ made + i <= made + n
             /\ 0 \in 0 .. MaxRows
  BY <1>1, <1>4 DEF Numbers, Uids
<1>5. ASSUME NEW r \in Draft(k, n)
      PROVE  \E i \in 1 .. n : /\ r \in Rows /\ r.no = k + i - 1 /\ r.id = <<k + i - 1, 0>>
                               /\ r.uid = made + i
  <2>1. PICK i \in 1 .. n : r = PlanStep(k + i - 1, <<k + i - 1, 0>>, made + i)
    BY DEF Draft
  <2>. QED
    BY <1>4, <2>1 DEF PlanStep, Rows, Ids, StepStatus
<1>6. ASSUME NEW q \in Draft(k, n), NEW r \in Draft(k, n),
             q.no = r.no \/ q.id = r.id \/ q.uid = r.uid
      PROVE  q = r
  <2>1. PICK i \in 1 .. n : q = PlanStep(k + i - 1, <<k + i - 1, 0>>, made + i)
    BY DEF Draft
  <2>2. PICK j \in 1 .. n : r = PlanStep(k + j - 1, <<k + j - 1, 0>>, made + j)
    BY DEF Draft
  <2>3. k + i - 1 = k + j - 1 \/ made + i = made + j
    BY <1>6, <2>1, <2>2 DEF PlanStep
  <2>4. i = j
    BY <1>1, <2>3
  <2>. QED
    BY <2>1, <2>2, <2>4
<1>7. \A r \in kept : r \in rows /\ r.no < k /\ r.uid \in Nat /\ r.uid <= made /\ r.id[2] <= made
                      /\ r.id[2] \in Nat
  BY <1>2 DEF Rows, HandedOut, Uids, Ids
<1>8. \A r \in Draft(k, n) : r \in Rows /\ r.no \in Nat /\ r.no >= k /\ r.uid \in Nat
                             /\ r.uid > made /\ r.uid <= made + n /\ r.id[2] = 0
  <2> SUFFICES ASSUME NEW r \in Draft(k, n)
               PROVE  r \in Rows /\ r.no \in Nat /\ r.no >= k /\ r.uid \in Nat
                      /\ r.uid > made /\ r.uid <= made + n /\ r.id[2] = 0
    OBVIOUS
  <2>1. PICK i \in 1 .. n : /\ r \in Rows /\ r.no = k + i - 1 /\ r.id = <<k + i - 1, 0>>
                            /\ r.uid = made + i
    BY <1>5
  <2>2. r.id[2] = 0
    BY <2>1
  <2>. QED
    BY <1>4, <2>1, <2>2 DEF Numbers, Uids
<1>9. \A q \in kept : \A r \in Draft(k, n) : q.id # r.id
  OBVIOUS
<1>. HIDE DEF kept
<1>10. ASSUME NEW q \in kept, NEW r \in Draft(k, n)
       PROVE  q.no # r.no /\ q.id # r.id /\ q.uid # r.uid
  <2>1. q.no \in Nat /\ q.no < k
    BY <1>2, <1>7 DEF Rows, Numbers
  <2>. QED
    BY <1>1, <1>7, <1>8, <1>9, <2>1
<1>11. Keyed(kept \cup Draft(k, n))
  <2>1. kept \cup Draft(k, n) \subseteq Rows
    BY <1>2, <1>7, <1>8
  <2>2. ASSUME NEW q \in kept \cup Draft(k, n), NEW r \in kept \cup Draft(k, n),
               q.no = r.no \/ q.id = r.id \/ q.uid = r.uid
        PROVE  q = r
    <3>1. CASE q \in kept /\ r \in kept
      BY <1>3, <1>7, <2>2, <3>1
    <3>2. CASE q \in Draft(k, n) /\ r \in Draft(k, n)
      BY <1>6, <2>2, <3>2
    <3>3. CASE q \in kept /\ r \in Draft(k, n)
      BY <1>10, <2>2, <3>3
    <3>4. CASE q \in Draft(k, n) /\ r \in kept
      BY <1>10, <2>2, <3>4
    <3>. QED
      BY <3>1, <3>2, <3>3, <3>4
  <2>. QED
    BY <2>1, <2>2 DEF Keyed
<1>12. HandedOut(kept \cup Draft(k, n), made + n)
  BY <1>1, <1>7, <1>8 DEF HandedOut
<1>13. made + n \in 0 .. MaxRows
  BY <1>1
<1>. QED
  BY <1>11, <1>12, <1>13 DEF kept

LEMMA ReplaceKeepsSound ==
    ASSUME PlanSound, NEW a \in Actors, Replace(a)
    PROVE  PlanSound'
<1> DEFINE k == act[a].no
           kept == {q \in rows : q.no < k}
<1>1. k \in Numbers
  BY DEF Replace, At, PlanSound, ActSound
<1>2. /\ plan \in [status : PlanStatus, cursor : Numbers] /\ executed \subseteq Uids
  BY DEF PlanSound, TypeOK
<1>3. PICK n \in DraftSizes :
          /\ k + n - 1 <= MaxNo /\ made + n <= MaxRows
          /\ IF {r.id : r \in kept} \cap {r.id : r \in Draft(k, n)} # {}
             THEN Refuse(a)
             ELSE /\ rows' = kept \cup Draft(k, n)
                  /\ made' = made + n
                  /\ plan' = [status |-> "draft", cursor |-> k]
                  /\ Finish(a)
  BY DEF Replace
<1>4. UNCHANGED executed
  BY DEF Replace
<1>5. CASE {r.id : r \in kept} \cap {r.id : r \in Draft(k, n)} # {}
  <2>1. Refuse(a)
    BY <1>3, <1>5
  <2> DEFINE x == [act[a] EXCEPT !.at = "refused"]
  <2>2. x \in Acts /\ ActSound(x) /\ act' = [act EXCEPT ![a] = x]
    BY <2>1, Relabeled DEF Refuse, Goto, Labels
  <2>. HIDE DEF x
  <2>. QED
    BY <1>2, <1>4, <2>1, <2>2, ActorReads DEF Refuse
<1>6. CASE {r.id : r \in kept} \cap {r.id : r \in Draft(k, n)} = {}
  <2>1. /\ rows' = kept \cup Draft(k, n) /\ made' = made + n
        /\ plan' = [status |-> "draft", cursor |-> k] /\ Finish(a)
    BY <1>3, <1>6
  <2>. HIDE DEF k
  <2>2. Keyed(rows') /\ HandedOut(rows', made') /\ made' \in 0 .. MaxRows
    BY <1>1, <1>3, <1>6, <2>1, DraftFits
  <2>3. plan' \in [status : PlanStatus, cursor : Numbers]
    BY <1>1, <2>1 DEF PlanStatus
  <2>. QED
    BY <1>2, <1>4, <2>1, <2>2, <2>3, IdleSound, ActorMoves DEF Finish
<1>. QED
  BY <1>5, <1>6

\* The commands that read before they write.
LEMMA StartKeepsSound ==
    ASSUME PlanSound, NEW a \in Actors,
           StartInsert(a) \/ StartDrop(a) \/ StartSelect(a) \/ StartReplan(a)
    PROVE  PlanSound'
<1>1. /\ plan \in [status : PlanStatus, cursor : Numbers] /\ executed \subseteq Uids
      /\ rows \subseteq Rows /\ \A q, r \in rows : q.no = r.no \/ q.id = r.id => q = r
  BY DEF PlanSound, TypeOK
<1>2. CASE StartInsert(a)
  <2>1. PICK k \in 0 .. MaxNo - 1 :
          act' = [act EXCEPT ![a] =
                [Idle EXCEPT !.at = "insert", !.no = k,
                             !.snap = {<<r.id, r.no>> : r \in {q \in rows : q.no > k}}]]
    BY <1>2 DEF StartInsert
  <2> DEFINE snap == {<<r.id, r.no>> : r \in {q \in rows : q.no > k}}
             x == [Idle EXCEPT !.at = "insert", !.no = k, !.snap = snap]
  <2>2. snap \in SUBSET (Ids \X Numbers)
    BY <1>1 DEF Rows
  <2>3. \A s, t \in snap : s[1] = t[1] \/ s[2] = t[2] => s = t
    BY <1>1
  <2>4. k \in 0 .. MaxNo /\ k + 1 \in Numbers
    BY PlanAssumption DEF Numbers
  <2>5. act' = [act EXCEPT ![a] = x] /\ UNCHANGED <<rows, plan, made, executed>>
    BY <1>2, <2>1 DEF StartInsert
  <2>. HIDE DEF snap
  <2>6. x.at = "insert" /\ x.no = k /\ x.snap = snap /\ x \in Acts
    BY <2>2, <2>4, IdleSound DEF Acts, Labels
  <2>. HIDE DEF x
  <2>7. ActSound(x)
    BY <2>3, <2>4, <2>6 DEF ActSound
  <2>. QED
    BY <1>1, <2>5, <2>6, <2>7, ActorReads
<1>3. ASSUME NEW k \in UsedNumbers, NEW l \in {"drop", "select", "replace"},
             act' = [act EXCEPT ![a] = [Idle EXCEPT !.at = l, !.no = k]],
             UNCHANGED <<rows, plan, made, executed>>
      PROVE  PlanSound'
  <2> DEFINE x == [Idle EXCEPT !.at = l, !.no = k]
  <2>1. k \in Numbers /\ k \in 0 .. MaxNo
    BY <1>1, PlanAssumption DEF UsedNumbers, Rows, Numbers
  <2>2. x.at = l /\ x.no = k /\ x \in Acts
    BY <2>1, IdleSound DEF Acts, Labels
  <2>. HIDE DEF x
  <2>3. ActSound(x)
    BY <2>1, <2>2 DEF ActSound
  <2>. QED
    BY <1>1, <1>3, <2>2, <2>3, ActorReads DEF x
<1>4. CASE StartDrop(a)
  BY <1>3, <1>4 DEF StartDrop
<1>5. CASE StartSelect(a)
  BY <1>3, <1>5 DEF StartSelect
<1>6. CASE StartReplan(a)
  BY <1>3, <1>6 DEF StartReplan
<1>. QED
  BY <1>2, <1>4, <1>5, <1>6

LEMMA StepKeepsSound == PlanSound /\ [Next]_vars => PlanSound'
<1>1. ASSUME PlanSound, UNCHANGED vars PROVE PlanSound'
  BY <1>1 DEF vars, PlanSound, TypeOK, HandedOut, ActSound
<1>2. ASSUME PlanSound, NEW a \in Actors, RunSteps(a) \/ EditSteps(a) \/ ActorExit(a)
      PROVE  PlanSound'
  <2>1. /\ plan \in [status : PlanStatus, cursor : Numbers] /\ executed \subseteq Uids
        /\ act \in [Actors -> Acts]
    BY <1>2 DEF PlanSound, TypeOK
  <2>2. CASE RunSteps(a)
    BY <1>2, <2>2, RunKeepsSound
  <2>3. CASE StartInsert(a) \/ StartDrop(a) \/ StartSelect(a) \/ StartReplan(a)
    BY <1>2, <2>3, StartKeepsSound
  <2>4. CASE InsertWrite(a)
    BY <1>2, <2>4, InsertKeepsSound
  <2>5. CASE DropWrite(a)
    BY <1>2, <2>5, DropKeepsSound
  <2>6. CASE Replace(a)
    BY <1>2, <2>6, ReplaceKeepsSound
  <2>7. CASE SelectWrite(a)
    <3>1. act[a].no \in Numbers
      BY <1>2, <2>7 DEF SelectWrite, At, PlanSound, ActSound
    <3>2. /\ plan' \in [status : PlanStatus, cursor : Numbers]
          /\ Finish(a) /\ UNCHANGED <<rows, made, executed>>
      BY <2>7, <3>1 DEF SelectWrite, PlanStatus
    <3>. QED
      BY <1>2, <2>1, <3>2, IdleSound, ActorReads DEF Finish
  <2>8. CASE StartAdvance(a)
    <3> DEFINE x == [act[a] EXCEPT !.at = "advance"]
    <3>1. x \in Acts /\ ActSound(x) /\ act' = [act EXCEPT ![a] = x]
      BY <1>2, <2>8, Relabeled DEF StartAdvance, Goto, Labels
    <3>. HIDE DEF x
    <3>. QED
      BY <1>2, <2>1, <2>8, <3>1, ActorReads DEF StartAdvance
  <2>9. CASE BlockPlan(a)
    <3>1. plan' \in [status : PlanStatus, cursor : Numbers]
          /\ UNCHANGED <<rows, act, made, executed>>
      BY <2>1, <2>9 DEF BlockPlan, MarkPlan, PlanStatus
    <3>. QED
      BY <1>2, <3>1 DEF PlanSound, TypeOK, HandedOut, ActSound
  <2>10. CASE ActorExit(a)
    BY <1>2, <2>1, <2>10, IdleSound, ActorReads DEF ActorExit, Finish
  <2>. QED
    BY <1>2, <2>2, <2>3, <2>4, <2>5, <2>6, <2>7, <2>8, <2>9, <2>10, Zenon DEF EditSteps
<1>. QED
  BY <1>1, <1>2 DEF Next

LEMMA InitIsSound == Init => PlanSound
<1> SUFFICES ASSUME Init PROVE PlanSound
  OBVIOUS
<1>1. PICK n \in DraftSizes : rows = {PlanStep(i, <<i, 0>>, i) : i \in 1 .. n} /\ made = n
  BY DEF Init
<1>2. /\ n \in 1 .. MaxNo /\ n \in 1 .. MaxRows /\ n \in Nat
      /\ MaxNo \in Nat \ {0} /\ MaxRows \in Nat
  BY PlanAssumption
<1>3. /\ plan = [status |-> "draft", cursor |-> 1] /\ act = [a \in Actors |-> Idle]
      /\ executed = {}
  BY DEF Init
<1>4. ASSUME NEW i \in 1 .. n
      PROVE  LET r == PlanStep(i, <<i, 0>>, i)
             IN  /\ r \in Rows /\ r.no = i /\ r.id = <<i, 0>> /\ r.uid = i
                 /\ r.uid <= n /\ r.id[2] <= n
  <2>1. i \in Numbers /\ i \in Uids /\ 0 \in 0 .. MaxRows /\ i <= n /\ 0 <= n
    BY <1>2, <1>4 DEF Numbers, Uids
  <2>. QED
    BY <2>1 DEF PlanStep, Rows, Ids, StepStatus
<1>5. rows \subseteq Rows /\ HandedOut(rows, made)
  BY <1>1, <1>4 DEF HandedOut
<1>6. ASSUME NEW q \in rows, NEW r \in rows, q.no = r.no \/ q.id = r.id \/ q.uid = r.uid
      PROVE  q = r
  <2>1. PICK i \in 1 .. n : q = PlanStep(i, <<i, 0>>, i)
    BY <1>1
  <2>2. PICK j \in 1 .. n : r = PlanStep(j, <<j, 0>>, j)
    BY <1>1
  <2>3. i = j
    BY <1>4, <1>6, <2>1, <2>2
  <2>. QED
    BY <2>1, <2>2, <2>3
<1>7. /\ plan \in [status : PlanStatus, cursor : Numbers] /\ made \in 0 .. MaxRows
      /\ executed \subseteq Uids
  BY <1>1, <1>2, <1>3 DEF PlanStatus, Numbers
<1>8. act \in [Actors -> Acts] /\ \A a \in Actors : act[a] = Idle
  BY <1>3, IdleSound
<1>9. TypeOK
  BY <1>5, <1>6, <1>7, <1>8 DEF TypeOK
<1>. QED
  BY <1>5, <1>8, <1>9, IdleSound DEF PlanSound

\* Whoever works on a plan, with whatever commands under each other: values
\* keep their domains, and no two steps of a plan share a number or an id.
THEOREM PlansTyped == Spec => []TypeOK
<1>1. PlanSound => TypeOK
  BY DEF PlanSound
<1>. QED
  BY <1>1, InitIsSound, StepKeepsSound, PTL DEF Spec

\* The rows that have number n when step k is gone: a row that was behind k is
\* one number lower.
Becoming(k, n) ==
    {q \in rows : (q.no < k /\ q.no = n) \/ (q.no > k /\ q.no = n + 1)}

LEMMA ClosedRow ==
    ASSUME PlanSound, NEW k \in Numbers, NEW n \in Nat
    PROVE  UidAt(Closed(k), n) = {r.uid : r \in Becoming(k, n)}
<1> DEFINE S == {q \in rows : q.no # k}
           g == [r \in S |-> IF r.no > k THEN [r EXCEPT !.no = @ - 1] ELSE r]
<1>1. rows \subseteq Rows
  BY DEF PlanSound, TypeOK
<1>2. Closed(k) = {g[r] : r \in S}
  BY DEF Closed
<1>3. \A r \in S : g[r].uid = r.uid /\ g[r].no = IF r.no > k THEN r.no - 1 ELSE r.no
  BY <1>1 DEF Rows
<1>4. \A r \in rows : r.no \in Nat /\ k \in Nat
  BY <1>1 DEF Rows, Numbers
<1>. HIDE DEF g
<1>5. \A r \in S : g[r].no = n <=> (r.no < k /\ r.no = n) \/ (r.no > k /\ r.no = n + 1)
  BY <1>3, <1>4
<1>6. UidAt(Closed(k), n) = {r.uid : r \in {q \in S : g[q].no = n}}
  BY <1>2, <1>3 DEF UidAt
<1>7. \A r \in rows : (r.no < k /\ r.no = n) \/ (r.no > k /\ r.no = n + 1) => r \in S
  BY <1>4
<1>8. ASSUME NEW q PROVE q \in Becoming(k, n) <=> q \in S /\ g[q].no = n
  BY <1>5, <1>7, Zenon DEF Becoming
<1>9. {q \in S : g[q].no = n} = Becoming(k, n)
  BY <1>8
<1>. QED
  BY <1>6, <1>9

LEMMA StepKeepsCursor ==
    ASSUME PlanSound, [Next]_vars, NEW r \in rows, StepsOf(rows') = StepsOf(rows) \ {r.uid}
    PROVE  /\ r.no # plan.cursor =>
                UidAt(rows', plan'.cursor) = UidAt(rows, plan.cursor)
           /\ r.no = plan.cursor /\ rows' # {} =>
                \E q \in rows' :
                    /\ q.no = plan'.cursor
                    /\ q.no < r.no => \A p \in rows' : p.no <= q.no
<1>1. r.uid \in StepsOf(rows) /\ r.uid \notin StepsOf(rows')
  BY DEF StepsOf
<1>2. /\ rows \subseteq Rows /\ plan \in [status : PlanStatus, cursor : Numbers]
      /\ HandedOut(rows, made) /\ made \in Nat
      /\ \A p, q \in rows : p.no = q.no \/ p.uid = q.uid => p = q
  BY DEF PlanSound, TypeOK
<1>3. rows' # rows
  BY <1>1
<1>4. ASSUME NEW n, NEW s, MarkStep(n, s) PROVE FALSE
  <2>1. [r EXCEPT !.status = s].uid = r.uid
    BY <1>2 DEF Rows
  <2>2. \E q \in rows' : q.uid = r.uid
    BY <1>4, <2>1 DEF MarkStep
  <2>. QED
    BY <1>1, <2>2 DEF StepsOf
<1>5. ASSUME NEW a \in Actors, InsertWrite(a) PROVE FALSE
  <2> DEFINE q == [r EXCEPT !.no = Shifted(r, act[a].snap, 1)]
  <2>1. UNCHANGED rows \/ q \in rows'
    BY <1>5 DEF InsertWrite, Refuse
  <2>2. q.uid = r.uid
    BY <1>2 DEF Rows
  <2>. QED
    BY <1>1, <1>3, <2>1, <2>2 DEF StepsOf
<1>6. ASSUME NEW a \in Actors, Replace(a) PROVE FALSE
  <2>1. PICK n \in DraftSizes : UNCHANGED rows \/ Draft(act[a].no, n) \subseteq rows'
    BY <1>6 DEF Replace, Refuse
  <2> DEFINE q == PlanStep(act[a].no + 1 - 1, <<act[a].no + 1 - 1, 0>>, made + 1)
  <2>2. q \in Draft(act[a].no, n) /\ q.uid = made + 1
    <3>1. 1 \in 1 .. n
      BY PlanAssumption
    <3>. QED
      BY <3>1 DEF Draft, PlanStep
  <2>3. made + 1 \in StepsOf(rows')
    BY <1>3, <2>1, <2>2 DEF StepsOf
  <2>4. made + 1 \notin StepsOf(rows)
    <3>1. \A p \in rows : p.uid \in Nat /\ p.uid <= made
      BY <1>2 DEF Rows, Uids, HandedOut
    <3>. QED
      BY <1>2, <3>1 DEF StepsOf
  <2>. QED
    BY <2>3, <2>4
<1>7. ASSUME NEW a \in Actors, DropWrite(a)
      PROVE  /\ r.no # plan.cursor =>
                UidAt(rows', plan'.cursor) = UidAt(rows, plan.cursor)
             /\ r.no = plan.cursor /\ rows' # {} =>
                \E q \in rows' :
                    /\ q.no = plan'.cursor
                    /\ q.no < r.no => \A p \in rows' : p.no <= q.no
  <2> DEFINE k == act[a].no
             left == {q.no : q \in Closed(k)}
  <2>1. k \in Numbers
    BY <1>7 DEF DropWrite, At, PlanSound, ActSound
  <2>2. rows' = Closed(k) /\ plan' = [plan EXCEPT !.cursor = Landing(k, left)]
    BY <1>7 DEF DropWrite
  <2>3. plan'.cursor = Landing(k, left)
    BY <1>2, <2>2
  <2>4. left \in SUBSET Numbers
    BY <2>1, ClosedRows
  <2>. HIDE DEF k, left
  <2>5. r.no = k
    <3> SUFFICES ASSUME r.no # k PROVE FALSE
      OBVIOUS
    <3> DEFINE q == IF r.no > k THEN [r EXCEPT !.no = @ - 1] ELSE r
    <3>1. q \in Closed(k)
      BY DEF Closed
    <3>2. q.uid = r.uid
      BY <1>2 DEF Rows
    <3>. QED
      BY <1>1, <2>2, <3>1, <3>2 DEF StepsOf
  <2>6. k \in Nat /\ plan.cursor \in Nat /\ plan.cursor >= 1 /\ k >= 1
        /\ \A q \in rows : q.no \in Nat
    BY <1>2, <2>1 DEF Numbers, Rows
  <2>7. CASE plan.cursor > k
    <3>1. Landing(k, left) = plan.cursor - 1
      BY <2>7 DEF Landing
    <3>2. plan.cursor - 1 \in Nat
      BY <2>6
    <3>3. Becoming(k, plan.cursor - 1) = {q \in rows : q.no = plan.cursor}
      BY <2>6, <2>7 DEF Becoming
    <3>4. UidAt(Closed(k), plan.cursor - 1) = {q.uid : q \in Becoming(k, plan.cursor - 1)}
      BY <2>1, <3>2, ClosedRow
    <3>5. UidAt(Closed(k), plan.cursor - 1) = UidAt(rows, plan.cursor)
      BY <3>3, <3>4 DEF UidAt
    <3>. QED
      BY <2>2, <2>3, <2>5, <2>6, <2>7, <3>1, <3>5
  <2>8. CASE plan.cursor < k
    <3>1. Landing(k, left) = plan.cursor
      BY <2>6, <2>8 DEF Landing
    <3>2. Becoming(k, plan.cursor) = {q \in rows : q.no = plan.cursor}
      BY <2>6, <2>8 DEF Becoming
    <3>3. UidAt(Closed(k), plan.cursor) = {q.uid : q \in Becoming(k, plan.cursor)}
      BY <2>1, <2>6, ClosedRow
    <3>4. UidAt(Closed(k), plan.cursor) = UidAt(rows, plan.cursor)
      BY <3>2, <3>3 DEF UidAt
    <3>. QED
      BY <2>2, <2>3, <2>5, <2>6, <2>8, <3>1, <3>4
  <2>9. CASE plan.cursor = k
    <3> SUFFICES ASSUME rows' # {}
                 PROVE  \E q \in rows' :
                            /\ q.no = plan'.cursor
                            /\ q.no < r.no => \A p \in rows' : p.no <= q.no
      BY <2>5, <2>9
    <3>1. left # {} /\ \A n \in left : \E q \in rows' : q.no = n
      BY <2>2 DEF left
    <3>2. \A p \in rows' : p.no \in left
      BY <2>2 DEF left
    <3>3. plan.cursor \in Numbers
      BY <1>2
    <3>4. \A n \in left : n \in Nat
      BY <2>4 DEF Numbers
    <3>5. /\ Landing(k, left) \in left
          /\ Landing(k, left) >= k \/ \A n \in left : n <= Landing(k, left)
      BY <2>1, <2>4, <2>9, <3>1, <3>3, LandingIsThere
    <3>. QED
      BY <2>3, <2>5, <2>6, <3>1, <3>2, <3>4, <3>5
  <2>. QED
    BY <2>6, <2>7, <2>8, <2>9
<1>8. ASSUME NEW a \in Actors, RunSteps(a) PROVE FALSE
  BY <1>3, <1>4, <1>8 DEF RunSteps, StartRun, BeginPlan, BeginStep, EndRun, MarkEnd,
     BlockAfterFailure, AdvanceCursor, AdvanceNext, AdvanceWrite, FinishPlan
<1>9. CASE UNCHANGED vars
  BY <1>3, <1>9 DEF vars
<1>10. ASSUME NEW a \in Actors, ActorExit(a) PROVE FALSE
  BY <1>3, <1>10 DEF ActorExit
<1>11. ASSUME NEW a \in Actors, EditSteps(a) PROVE DropWrite(a)
  BY <1>3, <1>5, <1>6, <1>11 DEF EditSteps, StartInsert, StartDrop, StartSelect,
     SelectWrite, StartAdvance, BlockPlan, StartReplan
<1>. QED
  BY <1>7, <1>8, <1>9, <1>10, <1>11 DEF Next

\* However the actors interleave, and whatever the commands: a drop
\* (delete_plan_step, its lookup and its writes apart) leaves the cursor on the
\* step it was on, or on the one behind the step dropped, or on the last.
THEOREM DropsKeepTheCursor == Spec => DropKeepsCursor
<1>1. PlanSound /\ [Next]_vars =>
        \A r \in rows :
          StepsOf(rows') = StepsOf(rows) \ {r.uid} =>
              /\ r.no # plan.cursor =>
                    UidAt(rows', plan'.cursor) = UidAt(rows, plan.cursor)
              /\ r.no = plan.cursor /\ rows' # {} =>
                    \E q \in rows' :
                        /\ q.no = plan'.cursor
                        /\ q.no < r.no => \A p \in rows' : p.no <= q.no
  BY StepKeepsCursor
<1>. QED
  BY <1>1, InitIsSound, StepKeepsSound, PTL DEF Spec, DropKeepsCursor

-----------------------------------------------------------------------------
(* One session at a time, behind the cursor                                *)

Alone ==
    /\ \A a, b \in Actors : a = b
    /\ Commands \subseteq {"run", "insertHere", "drop", "replanHere"}

Behind(R, c) == {<<r.id, r.no>> : r \in {q \in R : q.no > c}}

\* What a command x has read of rows R, cursor c and executed steps E is still
\* so: nobody else works on the plan.
Follows(x, R, c, E) ==
    /\ x.at \in {"begin", "markBegin", "execute", "markDone", "markFailed"} =>
          x.no = c /\ \A r \in R : r.no = c => r.uid = x.uid
    /\ x.at = "markDone" => x.uid \in E
    /\ x.at \in {"advance", "advanceNext", "advanceWrite"} =>
          \A r \in R : r.no = c => r.status = "done"
    /\ x.at = "advanceNext" => x.seen = c
    /\ x.at = "advanceWrite" =>
          \/ x.seen = 0 /\ \A r \in R : r.no <= c
          \/ /\ x.seen > c
             /\ \E r \in R : r.no = x.seen
             /\ \A r \in R : r.no > c => r.no >= x.seen
    /\ x.at = "finish" => \A r \in R : r.status = "done"
    /\ x.at = "insert" => x.no = c /\ x.snap = Behind(R, c)
    /\ x.at = "replace" => x.no = c
    /\ x.at = "drop" => \E r \in R : r.no = x.no
    /\ x.at # "select"

AloneSound ==
    /\ EarlierStepsDone
    /\ DoneWasExecuted
    /\ \A a \in Actors : Follows(act[a], rows, plan.cursor, executed)

LEMMA AloneMoves ==
    ASSUME Alone, PlanSound, NEW a \in Actors, NEW x, act' = [act EXCEPT ![a] = x],
           Follows(x, rows', plan'.cursor, executed'),
           EarlierStepsDone', DoneWasExecuted'
    PROVE  AloneSound'
<1>1. \A b \in Actors : act'[b] = x
  BY DEF Alone, PlanSound, TypeOK
<1>. QED
  BY <1>1 DEF AloneSound

LEMMA IdleFollows == \A R, c, E : Follows(Idle, R, c, E)
BY DEF Follows, Idle

\* A step that leaves rows, cursor and executed steps as they are.
LEMMA AloneReads ==
    ASSUME Alone, PlanSound, AloneSound, NEW a \in Actors, NEW x,
           act' = [act EXCEPT ![a] = x], UNCHANGED <<rows, executed>>,
           plan'.cursor = plan.cursor, Follows(x, rows, plan.cursor, executed)
    PROVE  AloneSound'
<1>1. EarlierStepsDone' /\ DoneWasExecuted'
  BY DEF AloneSound, EarlierStepsDone, DoneWasExecuted
<1>2. Follows(x, rows', plan'.cursor, executed')
  OBVIOUS
<1>. QED
  BY <1>1, <1>2, AloneMoves

LEMMA MarkedRows ==
    ASSUME PlanSound, NEW n, NEW s, MarkStep(n, s)
    PROVE  /\ \A q \in rows' : \E r \in rows :
                 /\ q.no = r.no /\ q.uid = r.uid
                 /\ q.status = IF r.no = n THEN s ELSE r.status
           /\ UsedNumbers' = UsedNumbers
<1> DEFINE g == [r \in rows |-> IF r.no = n THEN [r EXCEPT !.status = s] ELSE r]
<1>1. rows' = {g[r] : r \in rows}
  BY DEF MarkStep
<1>2. \A r \in rows : g[r].no = r.no /\ g[r].uid = r.uid
                      /\ g[r].status = IF r.no = n THEN s ELSE r.status
  BY DEF PlanSound, TypeOK, Rows
<1>. HIDE DEF g
<1>. QED
  BY <1>1, <1>2 DEF UsedNumbers

LEMMA RunKeepsAlone ==
    ASSUME Alone, PlanSound, AloneSound, NEW a \in Actors, RunSteps(a)
    PROVE  AloneSound'
<1>1. /\ act[a] \in Acts /\ Follows(act[a], rows, plan.cursor, executed)
      /\ plan.cursor \in Nat /\ plan.cursor # 0 /\ \A r \in rows : r.no \in Nat
      /\ rows \subseteq Rows /\ EarlierStepsDone /\ DoneWasExecuted
      /\ act \in [Actors -> Acts]
      /\ plan \in [status : PlanStatus, cursor : Numbers]
  BY DEF PlanSound, TypeOK, AloneSound, Rows, Numbers
<1>2. ASSUME NEW s, MarkPlan(s) PROVE plan'.cursor = plan.cursor
  BY <1>1, <1>2 DEF MarkPlan
<1>3. ASSUME Finish(a), UNCHANGED <<rows, executed>>, plan'.cursor = plan.cursor
      PROVE  AloneSound'
  BY <1>3, AloneReads, IdleFollows DEF Finish
<1>4. ASSUME NEW l, Goto(a, l)
      PROVE  /\ act' = [act EXCEPT ![a] = [act[a] EXCEPT !.at = l]]
             /\ [act[a] EXCEPT !.at = l].at = l
             /\ [act[a] EXCEPT !.at = l].no = act[a].no
             /\ [act[a] EXCEPT !.at = l].uid = act[a].uid
             /\ [act[a] EXCEPT !.at = l].seen = act[a].seen
  BY <1>1, <1>4 DEF Goto, Acts
<1>5. CASE StartRun(a)
  <2>1. PICK r \in StepsAt(plan.cursor) :
          act' = [act EXCEPT ![a] = [Idle EXCEPT !.at = "begin", !.no = r.no, !.uid = r.uid]]
    BY <1>5 DEF StartRun
  <2> DEFINE x == [Idle EXCEPT !.at = "begin", !.no = r.no, !.uid = r.uid]
  <2>2. x.at = "begin" /\ x.no = r.no /\ x.uid = r.uid
    BY DEF Idle
  <2>3. r \in rows /\ r.no = plan.cursor
    BY DEF StepsAt
  <2>4. \A q \in rows : q.no = plan.cursor => q.uid = r.uid
    BY <2>3 DEF PlanSound, TypeOK
  <2>5. act' = [act EXCEPT ![a] = x] /\ UNCHANGED <<rows, plan, made, executed>>
    BY <1>5, <2>1 DEF StartRun
  <2>. HIDE DEF x
  <2>6. Follows(x, rows, plan.cursor, executed)
    BY <2>2, <2>3, <2>4 DEF Follows
  <2>. QED
    BY <2>5, <2>6, AloneReads
<1>6. CASE BeginPlan(a)
  <2> DEFINE x == [act[a] EXCEPT !.at = "markBegin"]
  <2>1. /\ act' = [act EXCEPT ![a] = x] /\ x.at = "markBegin"
        /\ x.no = act[a].no /\ x.uid = act[a].uid
    BY <1>4, <1>6 DEF BeginPlan
  <2>. HIDE DEF x
  <2>2. Follows(x, rows, plan.cursor, executed)
    BY <1>1, <1>6, <2>1 DEF Follows, BeginPlan, At
  <2>. QED
    BY <1>2, <1>6, <2>1, <2>2, AloneReads DEF BeginPlan
<1>7. CASE BeginStep(a)
  <2> DEFINE x == [act[a] EXCEPT !.at = "execute"]
  <2>1. /\ act' = [act EXCEPT ![a] = x] /\ x.at = "execute"
        /\ x.no = act[a].no /\ x.uid = act[a].uid
    BY <1>4, <1>7 DEF BeginStep
  <2>2. MarkStep(act[a].no, "in_progress") /\ UNCHANGED <<plan, executed>>
    BY <1>7 DEF BeginStep
  <2>. HIDE DEF x
  <2>3. act[a].no = plan.cursor /\ \A r \in rows : r.no = plan.cursor => r.uid = act[a].uid
    BY <1>1, <1>7 DEF BeginStep, At, Follows
  <2>4. \A q \in rows' : \E r \in rows :
            /\ q.no = r.no /\ q.uid = r.uid
            /\ q.status = IF r.no = plan.cursor THEN "in_progress" ELSE r.status
    BY <2>2, <2>3, MarkedRows
  <2>5. Follows(x, rows', plan'.cursor, executed')
    BY <2>1, <2>2, <2>3, <2>4 DEF Follows
  <2>6. EarlierStepsDone' /\ DoneWasExecuted'
    BY <1>1, <2>2, <2>4 DEF EarlierStepsDone, DoneWasExecuted
  <2>. QED
    BY <2>1, <2>5, <2>6, AloneMoves
<1>8. CASE EndRun(a)
  <2>1. act[a].no = plan.cursor /\ \A r \in rows : r.no = plan.cursor => r.uid = act[a].uid
    BY <1>1, <1>8 DEF EndRun, At, Follows
  <2>2. UNCHANGED <<rows, plan>> /\ executed \subseteq executed'
    BY <1>8 DEF EndRun
  <2>3. EarlierStepsDone' /\ DoneWasExecuted'
    BY <1>1, <2>2 DEF EarlierStepsDone, DoneWasExecuted
  <2>4. CASE Goto(a, "markDone") /\ executed' = executed \cup {act[a].uid}
    <3> DEFINE x == [act[a] EXCEPT !.at = "markDone"]
    <3>1. /\ act' = [act EXCEPT ![a] = x] /\ x.at = "markDone"
          /\ x.no = act[a].no /\ x.uid = act[a].uid
      BY <1>4, <2>4
    <3>. HIDE DEF x
    <3>2. Follows(x, rows', plan'.cursor, executed')
      BY <2>1, <2>2, <2>4, <3>1 DEF Follows
    <3>. QED
      BY <2>3, <3>1, <3>2, AloneMoves
  <2>5. CASE Goto(a, "markFailed") /\ UNCHANGED executed
    <3> DEFINE x == [act[a] EXCEPT !.at = "markFailed"]
    <3>1. /\ act' = [act EXCEPT ![a] = x] /\ x.at = "markFailed"
          /\ x.no = act[a].no /\ x.uid = act[a].uid
      BY <1>4, <2>5
    <3>. HIDE DEF x
    <3>2. Follows(x, rows, plan.cursor, executed)
      BY <2>1, <3>1 DEF Follows
    <3>. QED
      BY <2>2, <2>5, <3>1, <3>2, AloneReads
  <2>6. CASE Finish(a) /\ UNCHANGED executed
    BY <1>3, <2>2, <2>6
  <2>. QED
    BY <1>8, <2>4, <2>5, <2>6 DEF EndRun
<1>9. CASE MarkEnd(a)
  <2>1. act[a].no = plan.cursor /\ \A r \in rows : r.no = plan.cursor => r.uid = act[a].uid
    BY <1>1, <1>9 DEF MarkEnd, At, Follows
  <2>2. UNCHANGED <<plan, executed>>
    BY <1>9 DEF MarkEnd
  <2>3. ASSUME NEW s, MarkStep(act[a].no, s), s = "done" => act[a].uid \in executed
        PROVE  /\ EarlierStepsDone' /\ DoneWasExecuted'
               /\ \A q \in rows' : q.no = plan.cursor => q.status = s
    <3>1. \A q \in rows' : \E r \in rows :
            /\ q.no = r.no /\ q.uid = r.uid
            /\ q.status = IF r.no = plan.cursor THEN s ELSE r.status
      BY <2>1, <2>3, MarkedRows
    <3>. QED
      BY <1>1, <2>1, <2>2, <2>3, <3>1 DEF EarlierStepsDone, DoneWasExecuted
  <2>4. CASE At(a, "markDone") /\ MarkStep(act[a].no, "done") /\ Goto(a, "advance")
    <3> DEFINE x == [act[a] EXCEPT !.at = "advance"]
    <3>1. act' = [act EXCEPT ![a] = x] /\ x.at = "advance"
      BY <1>4, <2>4
    <3>. HIDE DEF x
    <3>2. act[a].uid \in executed
      BY <1>1, <2>4 DEF At, Follows
    <3>3. Follows(x, rows', plan'.cursor, executed')
      BY <2>2, <2>3, <2>4, <3>1, <3>2 DEF Follows
    <3>. QED
      BY <2>3, <2>4, <3>1, <3>2, <3>3, AloneMoves
  <2>5. CASE At(a, "markFailed") /\ MarkStep(act[a].no, "failed") /\ Goto(a, "block")
    <3> DEFINE x == [act[a] EXCEPT !.at = "block"]
    <3>1. act' = [act EXCEPT ![a] = x] /\ x.at = "block"
      BY <1>4, <2>5
    <3>. HIDE DEF x
    <3>2. Follows(x, rows', plan'.cursor, executed')
      BY <3>1 DEF Follows
    <3>. QED
      BY <2>3, <2>5, <3>1, <3>2, AloneMoves
  <2>. QED
    BY <1>9, <2>4, <2>5 DEF MarkEnd
<1>10. CASE BlockAfterFailure(a) \/ FinishPlan(a)
  BY <1>2, <1>3, <1>10 DEF BlockAfterFailure, FinishPlan
<1>11. CASE AdvanceCursor(a)
  <2>1. UNCHANGED <<rows, plan, executed>> /\ At(a, "advance")
    BY <1>11 DEF AdvanceCursor
  <2> DEFINE x == [[act[a] EXCEPT !.at = "advanceNext"] EXCEPT !.seen = plan.cursor]
  <2>2. act' = [act EXCEPT ![a] = x] /\ x.at = "advanceNext" /\ x.seen = plan.cursor
    BY <1>1, <1>11 DEF AdvanceCursor, Acts
  <2>. HIDE DEF x
  <2>3. Follows(x, rows, plan.cursor, executed)
    BY <1>1, <2>1, <2>2 DEF Follows, At
  <2>. QED
    BY <2>1, <2>2, <2>3, AloneReads
<1>12. CASE AdvanceNext(a)
  <2> DEFINE later == {n \in UsedNumbers : n > act[a].seen}
             next == IF later = {} THEN 0 ELSE Min(later)
  <2>1. UNCHANGED <<rows, plan, executed>> /\ At(a, "advanceNext")
        /\ act' = [act EXCEPT ![a].at = "advanceWrite", ![a].seen = next]
    BY <1>12 DEF AdvanceNext
  <2> DEFINE x == [[act[a] EXCEPT !.at = "advanceWrite"] EXCEPT !.seen = next]
  <2>2. act' = [act EXCEPT ![a] = x] /\ x.at = "advanceWrite" /\ x.seen = next
    <3>. HIDE DEF next
    <3>. QED
      BY <1>1, <2>1 DEF Acts
  <2>. HIDE DEF x
  <2>3. act[a].seen = plan.cursor /\ \A r \in rows : r.no = plan.cursor => r.status = "done"
    BY <1>1, <2>1 DEF At, Follows
  <2>4. \A r \in rows : r.no > plan.cursor <=> r.no \in later
    BY <2>3 DEF UsedNumbers
  <2>5. \A n \in later : n > plan.cursor /\ \E r \in rows : r.no = n
    BY <2>3 DEF UsedNumbers
  <2>6. later \in SUBSET Nat
    BY <1>1 DEF UsedNumbers
  <2>. HIDE DEF later
  <2>7. CASE later = {}
    <3>1. x.seen = 0 /\ \A r \in rows : r.no <= plan.cursor
      BY <1>1, <2>2, <2>4, <2>7
    <3>2. Follows(x, rows, plan.cursor, executed)
      BY <2>2, <2>3, <3>1 DEF Follows
    <3>. QED
      BY <2>1, <2>2, <3>2, AloneReads
  <2>8. CASE later # {}
    <3>1. Min(later) \in later /\ \A n \in later : Min(later) <= n
      BY <2>6, <2>8, MinIsLeast
    <3>2. Min(later) \in Nat
      BY <2>6, <3>1
    <3>3. /\ x.seen > plan.cursor /\ \E r \in rows : r.no = x.seen
          /\ \A r \in rows : r.no > plan.cursor => r.no >= x.seen
      BY <1>1, <2>2, <2>4, <2>5, <2>8, <3>1, <3>2
    <3>4. Follows(x, rows, plan.cursor, executed)
      BY <2>2, <2>3, <3>3 DEF Follows
    <3>. QED
      BY <2>1, <2>2, <3>4, AloneReads
  <2>. QED
    BY <2>7, <2>8
<1>13. CASE AdvanceWrite(a)
  <2>1. UNCHANGED <<rows, executed>> /\ \A r \in rows : r.no = plan.cursor => r.status = "done"
    BY <1>1, <1>13 DEF AdvanceWrite, At, Follows
  <2>2. \/ act[a].seen = 0 /\ \A r \in rows : r.no <= plan.cursor
        \/ /\ act[a].seen > plan.cursor
           /\ \A r \in rows : r.no > plan.cursor => r.no >= act[a].seen
    BY <1>1, <1>13 DEF AdvanceWrite, At, Follows
  <2>3. CASE act[a].seen = 0
    <3>1. MarkPlan("done") /\ (Goto(a, "finish") \/ Finish(a))
      BY <1>13, <2>3 DEF AdvanceWrite
    <3>2. \A r \in rows : r.no <= plan.cursor
      BY <1>1, <2>2, <2>3
    <3>3. \A r \in rows : r.status = "done"
      BY <1>1, <2>1, <3>2 DEF EarlierStepsDone
    <3>4. CASE Finish(a)
      BY <1>2, <1>3, <2>1, <3>1, <3>4
    <3>5. CASE Goto(a, "finish")
      <4> DEFINE x == [act[a] EXCEPT !.at = "finish"]
      <4>1. act' = [act EXCEPT ![a] = x] /\ x.at = "finish"
        BY <1>4, <3>5
      <4>. HIDE DEF x
      <4>2. Follows(x, rows, plan.cursor, executed)
        BY <3>3, <4>1 DEF Follows
      <4>. QED
        BY <1>2, <2>1, <3>1, <4>1, <4>2, AloneReads
    <3>. QED
      BY <3>1, <3>4, <3>5
  <2>4. CASE act[a].seen # 0
    <3>1. plan' = [status |-> "in_progress", cursor |-> act[a].seen] /\ Finish(a)
      BY <1>13, <2>4 DEF AdvanceWrite
    <3>2. \A r \in rows : r.no > plan.cursor => r.no >= act[a].seen
      BY <2>2, <2>4
    <3>3. act[a].seen \in Nat
      BY <1>1 DEF Acts
    <3>4. EarlierStepsDone' /\ DoneWasExecuted'
      BY <1>1, <2>1, <3>1, <3>2, <3>3 DEF EarlierStepsDone, DoneWasExecuted
    <3>. QED
      BY <3>1, <3>4, IdleFollows, AloneMoves DEF Finish
  <2>. QED
    BY <2>3, <2>4
<1>. QED
  BY <1>5, <1>6, <1>7, <1>8, <1>9, <1>10, <1>11, <1>12, <1>13, Zenon DEF RunSteps

\* Read when nobody else works on the plan, the rows behind the cursor go up by
\* one and no others.
LEMMA ShiftedBehind ==
    ASSUME PlanSound, NEW c, NEW r \in rows
    PROVE  Shifted(r, Behind(rows, c), 1) = IF r.no > c THEN r.no + 1 ELSE r.no
<1> DEFINE snap == Behind(rows, c)
<1>1. /\ \A q \in rows : q.no \in Nat /\ q.no >= 1
      /\ \A q \in rows : q.id = r.id => q = r
  BY DEF PlanSound, TypeOK, Rows, Numbers
<1>2. \A s \in snap : s[1] = r.id => s = <<r.id, r.no>> /\ r.no > c
  BY <1>1 DEF Behind
<1>3. CASE r.no > c
  <2>1. <<r.id, r.no>> \in snap
    BY <1>3 DEF Behind
  <2>. HIDE DEF snap
  <2>2. \E s \in snap : s[1] = r.id /\ s[2] >= 1
    BY <1>1, <2>1
  <2> DEFINE t == CHOOSE s \in snap : s[1] = r.id
  <2>3. t \in snap /\ t[1] = r.id
    BY <2>2, Zenon
  <2>4. Shifted(r, snap, 1) = t[2] + 1
    BY <2>2 DEF Shifted
  <2>. HIDE DEF t
  <2>5. t = <<r.id, r.no>>
    BY <1>2, <2>3
  <2>6. t[2] = r.no
    BY <2>5
  <2>7. Shifted(r, snap, 1) = r.no + 1
    BY <2>4, <2>6
  <2>. QED
    BY <1>3, <2>7 DEF snap
<1>4. CASE ~(r.no > c)
  <2>1. ~\E s \in snap : s[1] = r.id /\ s[2] >= 1
    BY <1>2, <1>4
  <2>. QED
    BY <1>4, <2>1 DEF Shifted
<1>. QED
  BY <1>3, <1>4

\* What an insertion behind the cursor leaves.
LEMMA InsertedRows ==
    ASSUME PlanSound, NEW a \in Actors, InsertWrite(a),
           Follows(act[a], rows, plan.cursor, executed)
    PROVE  \/ Refuse(a) /\ UNCHANGED executed
           \/ /\ \A q \in rows' :
                    \/ q.no = plan.cursor + 1 /\ q.status = "pending"
                    \/ \E r \in rows :
                          /\ q.uid = r.uid /\ q.status = r.status
                          /\ q.no = IF r.no > plan.cursor THEN r.no + 1 ELSE r.no
              /\ \A r \in rows : \E q \in rows' :
                    q.no = IF r.no > plan.cursor THEN r.no + 1 ELSE r.no
              /\ \E q \in rows' : q.no = plan.cursor + 1
              /\ Finish(a) /\ UNCHANGED <<plan, executed>>
<1> DEFINE moved == {[r EXCEPT !.no = Shifted(r, act[a].snap, 1)] : r \in rows}
           g == [r \in rows |-> [r EXCEPT !.no = Shifted(r, act[a].snap, 1)]]
           new == PlanStep(plan.cursor + 1, <<plan.cursor + 1, made + 1>>, made + 1)
<1>1. act[a].no = plan.cursor /\ act[a].snap = Behind(rows, plan.cursor)
  BY DEF InsertWrite, At, Follows
<1>2. \/ Refuse(a) /\ UNCHANGED executed
      \/ rows' = moved \cup {new} /\ Finish(a) /\ UNCHANGED <<plan, executed>>
  BY <1>1 DEF InsertWrite
<1>3. moved = {g[r] : r \in rows}
  OBVIOUS
<1>4. \A r \in rows : /\ g[r].uid = r.uid /\ g[r].status = r.status
                      /\ g[r].no = Shifted(r, act[a].snap, 1)
  BY DEF PlanSound, TypeOK, Rows
<1>5. \A r \in rows : Shifted(r, act[a].snap, 1)
                        = IF r.no > plan.cursor THEN r.no + 1 ELSE r.no
  BY <1>1, ShiftedBehind
<1>6. new.no = plan.cursor + 1 /\ new.status = "pending"
  BY DEF PlanStep
<1>. HIDE DEF moved, g, new
<1>7. \A r \in rows : /\ g[r].uid = r.uid /\ g[r].status = r.status
                      /\ g[r].no = IF r.no > plan.cursor THEN r.no + 1 ELSE r.no
  BY <1>4, <1>5
<1>8. CASE rows' = moved \cup {new}
  <2>1. \A q \in rows' : q = new \/ \E r \in rows : q = g[r]
    BY <1>3, <1>8
  <2>2. \A r \in rows : g[r] \in rows'
    BY <1>3, <1>8
  <2>3. new \in rows'
    BY <1>8
  <2>. QED
    BY <1>2, <1>6, <1>7, <2>1, <2>2, <2>3
<1>. QED
  BY <1>2, <1>8

LEMMA ClosedRowIs ==
    ASSUME PlanSound, NEW k
    PROVE  /\ \A q \in Closed(k) : \E r \in rows :
                 /\ r.no # k /\ q.uid = r.uid /\ q.status = r.status
                 /\ q.no = IF r.no > k THEN r.no - 1 ELSE r.no
           /\ \A r \in rows : r.no # k =>
                 \E q \in Closed(k) : q.no = IF r.no > k THEN r.no - 1 ELSE r.no
<1> DEFINE S == {q \in rows : q.no # k}
           g == [r \in S |-> IF r.no > k THEN [r EXCEPT !.no = @ - 1] ELSE r]
<1>1. Closed(k) = {g[r] : r \in S}
  BY DEF Closed
<1>2. \A r \in S : /\ g[r].uid = r.uid /\ g[r].status = r.status
                   /\ g[r].no = IF r.no > k THEN r.no - 1 ELSE r.no
  BY DEF PlanSound, TypeOK, Rows
<1>. HIDE DEF g
<1>. QED
  BY <1>1, <1>2

LEMMA EditKeepsAlone ==
    ASSUME Alone, PlanSound, AloneSound, NEW a \in Actors, EditSteps(a)
    PROVE  AloneSound'
<1>1. /\ Follows(act[a], rows, plan.cursor, executed)
      /\ plan.cursor \in Nat /\ \A r \in rows : r.no \in Nat
      /\ rows \subseteq Rows /\ EarlierStepsDone /\ DoneWasExecuted
      /\ act \in [Actors -> Acts] /\ act[a] \in Acts
      /\ plan \in [status : PlanStatus, cursor : Numbers]
  BY DEF PlanSound, TypeOK, AloneSound, Rows, Numbers
<1>2. \A c \in {"insert", "replan", "select", "advance", "block"} : ~May(a, c)
  BY DEF Alone, May
<1>3. CASE StartInsert(a)
  <2> DEFINE x == [Idle EXCEPT !.at = "insert", !.no = plan.cursor,
                               !.snap = Behind(rows, plan.cursor)]
  <2>1. act' = [act EXCEPT ![a] = x] /\ UNCHANGED <<rows, plan, executed>>
    BY <1>2, <1>3 DEF StartInsert, Behind
  <2>2. x.at = "insert" /\ x.no = plan.cursor /\ x.snap = Behind(rows, plan.cursor)
    BY DEF Idle
  <2>. HIDE DEF x
  <2>3. Follows(x, rows, plan.cursor, executed)
    BY <2>2 DEF Follows
  <2>. QED
    BY <2>1, <2>3, AloneReads
<1>4. CASE InsertWrite(a)
  <2>1. CASE Refuse(a) /\ UNCHANGED executed
    <3> DEFINE x == [act[a] EXCEPT !.at = "refused"]
    <3>1. act' = [act EXCEPT ![a] = x] /\ x.at = "refused" /\ UNCHANGED <<rows, plan>>
      BY <1>1, <2>1 DEF Refuse, Goto, Acts
    <3>. HIDE DEF x
    <3>2. Follows(x, rows, plan.cursor, executed)
      BY <3>1 DEF Follows
    <3>. QED
      BY <2>1, <3>1, <3>2, AloneReads
  <2>2. CASE ~(Refuse(a) /\ UNCHANGED executed)
    <3>1. /\ \A q \in rows' :
                    \/ q.no = plan.cursor + 1 /\ q.status = "pending"
                    \/ \E r \in rows :
                          /\ q.uid = r.uid /\ q.status = r.status
                          /\ q.no = IF r.no > plan.cursor THEN r.no + 1 ELSE r.no
          /\ Finish(a) /\ UNCHANGED <<plan, executed>>
      BY <1>1, <1>4, <2>2, InsertedRows
    <3>2. EarlierStepsDone'
      <4> SUFFICES ASSUME NEW q \in rows', q.no < plan.cursor PROVE q.status = "done"
        BY <3>1 DEF EarlierStepsDone
      <4>1. PICK r \in rows : /\ q.status = r.status
                              /\ q.no = IF r.no > plan.cursor THEN r.no + 1 ELSE r.no
        BY <1>1, <3>1
      <4>2. r.no < plan.cursor
        BY <1>1, <4>1
      <4>. QED
        BY <1>1, <4>1, <4>2 DEF EarlierStepsDone
    <3>3. DoneWasExecuted'
      BY <1>1, <3>1 DEF DoneWasExecuted
    <3>. QED
      BY <3>1, <3>2, <3>3, IdleFollows, AloneMoves DEF Finish
  <2>. QED
    BY <2>1, <2>2
<1>5. CASE StartDrop(a)
  <2>1. PICK k \in UsedNumbers : act' = [act EXCEPT ![a] = [Idle EXCEPT !.at = "drop", !.no = k]]
    BY <1>5 DEF StartDrop
  <2> DEFINE x == [Idle EXCEPT !.at = "drop", !.no = k]
  <2>2. x.at = "drop" /\ x.no = k
    BY DEF Idle
  <2>3. \E r \in rows : r.no = k
    BY DEF UsedNumbers
  <2>4. act' = [act EXCEPT ![a] = x] /\ UNCHANGED <<rows, plan, executed>>
    BY <1>5, <2>1 DEF StartDrop
  <2>. HIDE DEF x
  <2>5. Follows(x, rows, plan.cursor, executed)
    BY <2>2, <2>3 DEF Follows
  <2>. QED
    BY <2>4, <2>5, AloneReads
<1>6. CASE DropWrite(a)
  <2> DEFINE k == act[a].no
             left == {r.no : r \in Closed(k)}
  <2>1. k \in Numbers
    BY <1>6 DEF DropWrite, At, PlanSound, ActSound
  <2>2. /\ rows' = Closed(k) /\ plan' = [plan EXCEPT !.cursor = Landing(k, left)]
        /\ Finish(a) /\ UNCHANGED executed
    BY <1>6 DEF DropWrite
  <2>3. plan'.cursor = Landing(k, left)
    BY <1>1, <2>2
  <2>4. \A q \in rows' : q.no \in left
    BY <2>2
  <2>5. left \in SUBSET Numbers /\ k \in Nat /\ Landing(k, left) \in Nat
    <3>1. left \in SUBSET Numbers /\ plan.cursor \in Numbers
      BY <1>1, <2>1, ClosedRows
    <3>. HIDE DEF k, left
    <3>. QED
      BY <2>1, <3>1, LandingIsThere DEF Numbers
  <2>. HIDE DEF k, left
  <2>6. \A q \in rows' : \E r \in rows :
            /\ r.no # k /\ q.uid = r.uid /\ q.status = r.status
            /\ q.no = IF r.no > k THEN r.no - 1 ELSE r.no
    BY <2>2, ClosedRowIs
  <2>7. DoneWasExecuted'
    BY <1>1, <2>2, <2>6 DEF DoneWasExecuted
  <2>8. ASSUME NEW q \in rows', q.no < Landing(k, left) PROVE q.status = "done"
    <3>1. PICK r \in rows : /\ r.no # k /\ q.status = r.status
                            /\ q.no = IF r.no > k THEN r.no - 1 ELSE r.no
      BY <2>6
    <3>2. r.no \in Nat /\ q.no \in left /\ q.no \in Nat
      BY <1>1, <2>4, <2>5, <3>1
    <3>3. r.no < plan.cursor
      <4>1. CASE plan.cursor > k
        <5>1. Landing(k, left) = plan.cursor - 1
          BY <4>1 DEF Landing
        <5>. QED
          BY <1>1, <2>5, <2>8, <3>1, <3>2, <4>1, <5>1
      <4>2. CASE plan.cursor < k
        <5>1. Landing(k, left) = plan.cursor
          BY <1>1, <2>5, <4>2 DEF Landing
        <5>. QED
          BY <1>1, <2>5, <2>8, <3>1, <3>2, <4>2, <5>1
      <4>3. CASE plan.cursor = k
        <5>1. /\ Landing(k, left) \in Numbers
              /\ (\E n \in left : n >= k) => \A n \in left : n >= k => Landing(k, left) <= n
          BY <1>1, <2>1, <2>5, <4>3, LandingIsThere
        <5>2. q.no < k
          <6> SUFFICES ASSUME q.no >= k PROVE FALSE
            BY <2>5, <3>2
          <6>1. Landing(k, left) <= q.no
            BY <3>2, <5>1
          <6>. QED
            BY <2>5, <2>8, <3>2, <6>1
        <5>. QED
          BY <2>5, <3>1, <3>2, <4>3, <5>2
      <4>. QED
        BY <1>1, <2>5, <4>1, <4>2, <4>3
    <3>. QED
      BY <1>1, <3>1, <3>3 DEF EarlierStepsDone
  <2>9. EarlierStepsDone'
    BY <2>3, <2>8 DEF EarlierStepsDone
  <2>. QED
    BY <2>2, <2>7, <2>9, IdleFollows, AloneMoves DEF Finish
<1>7. CASE StartReplan(a)
  <2> DEFINE x == [Idle EXCEPT !.at = "replace", !.no = plan.cursor]
  <2>1. act' = [act EXCEPT ![a] = x] /\ UNCHANGED <<rows, plan, executed>>
    BY <1>2, <1>7 DEF StartReplan
  <2>2. x.at = "replace" /\ x.no = plan.cursor
    BY DEF Idle
  <2>. HIDE DEF x
  <2>3. Follows(x, rows, plan.cursor, executed)
    BY <2>2 DEF Follows
  <2>. QED
    BY <2>1, <2>3, AloneReads
<1>8. CASE Replace(a)
  <2> DEFINE k == act[a].no
             kept == {r \in rows : r.no < k}
  <2>1. k = plan.cursor
    BY <1>1, <1>8 DEF Replace, At, Follows
  <2>2. UNCHANGED executed
    BY <1>8 DEF Replace
  <2>3. PICK n \in DraftSizes :
          \/ Refuse(a)
          \/ /\ rows' = kept \cup Draft(k, n)
             /\ plan' = [status |-> "draft", cursor |-> k]
             /\ Finish(a)
    BY <1>8 DEF Replace
  <2>4. CASE Refuse(a)
    <3> DEFINE x == [act[a] EXCEPT !.at = "refused"]
    <3>1. act' = [act EXCEPT ![a] = x] /\ x.at = "refused" /\ UNCHANGED <<rows, plan>>
      BY <1>1, <2>4 DEF Refuse, Goto, Acts
    <3>. HIDE DEF x
    <3>2. Follows(x, rows, plan.cursor, executed)
      BY <3>1 DEF Follows
    <3>. QED
      BY <2>2, <3>1, <3>2, AloneReads
  <2>5. CASE /\ rows' = kept \cup Draft(k, n)
             /\ plan' = [status |-> "draft", cursor |-> k]
             /\ Finish(a)
    <3>1. n \in Nat
      BY PlanAssumption
    <3>2. \A r \in Draft(k, n) : r.status = "pending" /\ r.no >= k
      <4> SUFFICES ASSUME NEW r \in Draft(k, n) PROVE r.status = "pending" /\ r.no >= k
        OBVIOUS
      <4>1. PICK i \in 1 .. n : r = PlanStep(k + i - 1, <<k + i - 1, 0>>, made + i)
        BY DEF Draft
      <4>2. r.status = "pending" /\ r.no = k + i - 1
        BY <4>1 DEF PlanStep
      <4>. QED
        BY <1>1, <2>1, <3>1, <4>2
    <3>3. \A r \in Draft(k, n) : r.no \in Nat
      <4> SUFFICES ASSUME NEW r \in Draft(k, n) PROVE r.no \in Nat
        OBVIOUS
      <4>1. PICK i \in 1 .. n : r = PlanStep(k + i - 1, <<k + i - 1, 0>>, made + i)
        BY DEF Draft
      <4>. QED
        BY <1>1, <2>1, <3>1, <4>1 DEF PlanStep
    <3>4. plan'.cursor = k
      BY <2>5
    <3>. HIDE DEF k
    <3>5. EarlierStepsDone' /\ DoneWasExecuted'
      BY <1>1, <2>1, <2>2, <2>5, <3>2, <3>3, <3>4 DEF EarlierStepsDone, DoneWasExecuted
    <3>. QED
      BY <2>5, <3>5, IdleFollows, AloneMoves DEF Finish
  <2>. QED
    BY <2>3, <2>4, <2>5
<1>9. ~SelectWrite(a)
  BY <1>1 DEF SelectWrite, At, Follows
<1>10. ~StartSelect(a) /\ ~StartAdvance(a) /\ ~BlockPlan(a)
  BY <1>2 DEF StartSelect, StartAdvance, BlockPlan
<1>. QED
  BY <1>3, <1>4, <1>5, <1>6, <1>7, <1>8, <1>9, <1>10, Zenon DEF EditSteps

LEMMA StepKeepsAlone ==
    ASSUME Alone, PlanSound, AloneSound, [Next]_vars
    PROVE  AloneSound'
<1>1. CASE UNCHANGED vars
  BY <1>1 DEF vars, AloneSound, EarlierStepsDone, DoneWasExecuted
<1>2. ASSUME NEW a \in Actors, RunSteps(a) PROVE AloneSound'
  BY <1>2, RunKeepsAlone
<1>3. ASSUME NEW a \in Actors, EditSteps(a) PROVE AloneSound'
  BY <1>3, EditKeepsAlone
<1>4. ASSUME NEW a \in Actors, ActorExit(a) PROVE AloneSound'
  BY <1>4, AloneReads, IdleFollows DEF ActorExit, Finish
<1>. QED
  BY <1>1, <1>2, <1>3, <1>4 DEF Next

LEMMA InitIsAlone == Init => AloneSound
<1> SUFFICES ASSUME Init PROVE AloneSound
  OBVIOUS
<1>1. PICK n \in DraftSizes : rows = {PlanStep(i, <<i, 0>>, i) : i \in 1 .. n}
  BY DEF Init
<1>2. n \in Nat /\ plan.cursor = 1 /\ \A a \in Actors : act[a] = Idle
  BY PlanAssumption DEF Init
<1>3. \A r \in rows : r.status = "pending" /\ r.no \in Nat /\ r.no >= 1
  BY <1>1, <1>2 DEF PlanStep
<1>4. EarlierStepsDone /\ DoneWasExecuted
  BY <1>2, <1>3 DEF EarlierStepsDone, DoneWasExecuted
<1>. QED
  BY <1>2, <1>4, IdleFollows DEF AloneSound

\* One session at a time that runs, inserts, drops and replans at the cursor:
\* what lies before the cursor is done (EarlierStepsDone), however edits
\* renumber the steps and commands break off in the middle.
THEOREM WorkProceedsFromTheFront ==
    ASSUME Alone PROVE Spec => []EarlierStepsDone
<1>1. Init => PlanSound /\ AloneSound
  BY InitIsSound, InitIsAlone
<1>2. PlanSound /\ AloneSound /\ [Next]_vars => (PlanSound /\ AloneSound)'
  BY StepKeepsSound, StepKeepsAlone
<1>3. AloneSound => EarlierStepsDone
  BY DEF AloneSound
<1>. QED
  BY <1>1, <1>2, <1>3, PTL DEF Spec

-----------------------------------------------------------------------------
(* Any number of actors, none of which renumbers a step                    *)

Unmoved == Commands \subseteq {"run", "select", "advance", "block"}

Running == {"begin", "markBegin", "execute", "markDone", "markFailed"}

\* The step of number no is still the one that a run x executes.
RunsItsStep(x, R, E) ==
    /\ x.at \in Running => \A r \in R : r.no = x.no => r.uid = x.uid
    /\ x.at = "markDone" => x.uid \in E
    /\ x.at \notin {"insert", "drop", "replace"}

MarksSound ==
    /\ DoneWasExecuted
    /\ \A a \in Actors : RunsItsStep(act[a], rows, executed)

\* The steps keep their numbers, and executed steps were.
LEMMA MarksMove ==
    ASSUME PlanSound, MarksSound, NEW a \in Actors, NEW x, act' = [act EXCEPT ![a] = x],
           \A q \in rows' : \E r \in rows : q.no = r.no /\ q.uid = r.uid,
           executed \subseteq executed', RunsItsStep(x, rows, executed'), DoneWasExecuted'
    PROVE  MarksSound'
<1>1. ASSUME NEW y, RunsItsStep(y, rows, executed) \/ RunsItsStep(y, rows, executed')
      PROVE  RunsItsStep(y, rows', executed')
  BY <1>1 DEF RunsItsStep
<1>2. ASSUME NEW b \in Actors PROVE act'[b] = IF b = a THEN x ELSE act[b]
  BY DEF PlanSound, TypeOK
<1>. QED
  BY <1>1, <1>2 DEF MarksSound

LEMMA MarksStay ==
    ASSUME PlanSound, MarksSound, NEW a \in Actors, NEW x, act' = [act EXCEPT ![a] = x],
           rows' = rows, executed \subseteq executed', RunsItsStep(x, rows, executed')
    PROVE  MarksSound'
<1>1. DoneWasExecuted'
  BY DEF MarksSound, DoneWasExecuted
<1>. QED
  BY <1>1, MarksMove

LEMMA IdleRunsNothing == \A R, E : RunsItsStep(Idle, R, E)
BY DEF RunsItsStep, Running, Idle

LEMMA StepKeepsMarks ==
    ASSUME Unmoved, PlanSound, MarksSound, NEW a \in Actors,
           RunSteps(a) \/ EditSteps(a) \/ ActorExit(a)
    PROVE  MarksSound'
<1>1. /\ act[a] \in Acts /\ RunsItsStep(act[a], rows, executed) /\ DoneWasExecuted
      /\ \A q, r \in rows : q.no = r.no => q = r
  BY DEF PlanSound, TypeOK, MarksSound
<1>2. ASSUME NEW l, Goto(a, l)
      PROVE  \E x : /\ act' = [act EXCEPT ![a] = x] /\ x.at = l
                    /\ x.no = act[a].no /\ x.uid = act[a].uid
  <2> DEFINE x == [act[a] EXCEPT !.at = l]
  <2>1. act' = [act EXCEPT ![a] = x]
    BY <1>2 DEF Goto
  <2>2. x.at = l /\ x.no = act[a].no /\ x.uid = act[a].uid
    BY <1>1 DEF Acts
  <2>. HIDE DEF x
  <2>. QED
    BY <2>1, <2>2
<1>3. ASSUME Finish(a), rows' = rows, executed' = executed PROVE MarksSound'
  BY <1>3, IdleRunsNothing, MarksStay DEF Finish
<1>4. ASSUME NEW l, Goto(a, l), l \notin {"insert", "drop", "replace"},
             l \in Running => act[a].at \in Running,
             l = "markDone" => act[a].uid \in executed',
             rows' = rows, executed \subseteq executed'
      PROVE  MarksSound'
  <2>1. PICK x : /\ act' = [act EXCEPT ![a] = x] /\ x.at = l
                 /\ x.no = act[a].no /\ x.uid = act[a].uid
    BY <1>2, <1>4
  <2>2. RunsItsStep(x, rows, executed')
    BY <1>1, <1>4, <2>1 DEF RunsItsStep
  <2>. QED
    BY <1>4, <2>1, <2>2, MarksStay
<1>5. ASSUME NEW s, NEW l, MarkStep(act[a].no, s), Goto(a, l), executed' = executed,
             l \notin {"insert", "drop", "replace", "markDone"},
             l \in Running => act[a].at \in Running,
             s = "done" => act[a].at = "markDone"
      PROVE  MarksSound'
  <2>1. \A q \in rows' : \E r \in rows :
              /\ q.no = r.no /\ q.uid = r.uid
              /\ q.status = IF r.no = act[a].no THEN s ELSE r.status
    BY <1>5, MarkedRows
  <2>2. DoneWasExecuted'
    <3> SUFFICES ASSUME NEW q \in rows', q.status = "done" PROVE q.uid \in executed
      BY <1>5 DEF DoneWasExecuted
    <3>1. PICK r \in rows : /\ q.no = r.no /\ q.uid = r.uid
                            /\ q.status = IF r.no = act[a].no THEN s ELSE r.status
      BY <2>1
    <3>2. CASE r.no = act[a].no
      BY <1>1, <1>5, <3>1, <3>2 DEF RunsItsStep, Running
    <3>3. CASE r.no # act[a].no
      BY <1>1, <3>1, <3>3 DEF DoneWasExecuted
    <3>. QED
      BY <3>2, <3>3
  <2>3. PICK x : /\ act' = [act EXCEPT ![a] = x] /\ x.at = l
                 /\ x.no = act[a].no /\ x.uid = act[a].uid
    BY <1>2, <1>5
  <2>4. RunsItsStep(x, rows, executed')
    BY <1>1, <1>5, <2>3 DEF RunsItsStep
  <2>. QED
    BY <1>5, <2>1, <2>2, <2>3, <2>4, MarksMove
<1>6. CASE StartRun(a)
  <2>1. PICK r \in StepsAt(plan.cursor) :
              act' = [act EXCEPT ![a] = [Idle EXCEPT !.at = "begin", !.no = r.no, !.uid = r.uid]]
    BY <1>6 DEF StartRun
  <2> DEFINE x == [Idle EXCEPT !.at = "begin", !.no = r.no, !.uid = r.uid]
  <2>2. x.at = "begin" /\ x.no = r.no /\ x.uid = r.uid /\ r \in rows
    BY <2>1 DEF Idle, StepsAt
  <2>3. act' = [act EXCEPT ![a] = x] /\ rows' = rows /\ executed' = executed
    BY <1>6, <2>1 DEF StartRun
  <2>. HIDE DEF x
  <2>4. RunsItsStep(x, rows, executed')
    BY <1>1, <2>2 DEF RunsItsStep
  <2>. QED
    BY <2>3, <2>4, MarksStay
<1>7. CASE BeginPlan(a)
  BY <1>4, <1>7 DEF BeginPlan, At, Running
<1>8. CASE BeginStep(a)
  BY <1>5, <1>8 DEF BeginStep, At, Running
<1>9. CASE EndRun(a)
  BY <1>3, <1>4, <1>9 DEF EndRun, At, Running
<1>10. CASE MarkEnd(a)
  BY <1>5, <1>10 DEF MarkEnd, At, Running
<1>11. CASE BlockAfterFailure(a) \/ FinishPlan(a) \/ ActorExit(a)
  BY <1>3, <1>11 DEF BlockAfterFailure, FinishPlan, ActorExit
<1>12. CASE AdvanceCursor(a) \/ AdvanceNext(a)
  <2>1. ASSUME NEW l \in {"advanceNext", "advanceWrite"}, NEW c,
               act' = [act EXCEPT ![a].at = l, ![a].seen = c]
        PROVE  MarksSound'
    <3> DEFINE x == [act[a] EXCEPT !.at = l, !.seen = c]
    <3>1. act' = [act EXCEPT ![a] = x] /\ x.at = l
      BY <1>1, <2>1 DEF Acts
    <3>. HIDE DEF x
    <3>2. RunsItsStep(x, rows, executed)
      BY <2>1, <3>1 DEF RunsItsStep, Running
    <3>3. rows' = rows /\ executed' = executed
      BY <1>12 DEF AdvanceCursor, AdvanceNext
    <3>. QED
      BY <3>1, <3>2, <3>3, MarksStay
  <2>2. CASE AdvanceCursor(a)
    BY <2>1, <2>2 DEF AdvanceCursor
  <2>3. CASE AdvanceNext(a)
    BY <2>1, <2>3 DEF AdvanceNext
  <2>. QED
    BY <1>12, <2>2, <2>3
<1>13. CASE AdvanceWrite(a)
  BY <1>3, <1>4, <1>13 DEF AdvanceWrite, Running
<1>14. CASE StartAdvance(a)
  BY <1>4, <1>14 DEF StartAdvance, Running
<1>15. CASE StartSelect(a)
  <2>1. PICK k : act' = [act EXCEPT ![a] = [Idle EXCEPT !.at = "select", !.no = k]]
    BY <1>15 DEF StartSelect
  <2>2. RunsItsStep([Idle EXCEPT !.at = "select", !.no = k], rows, executed)
    BY DEF RunsItsStep, Running, Idle
  <2>. QED
    BY <1>15, <2>1, <2>2, MarksStay DEF StartSelect
<1>16. CASE SelectWrite(a)
  BY <1>3, <1>16 DEF SelectWrite
<1>17. CASE BlockPlan(a)
  BY <1>17 DEF BlockPlan, MarksSound, DoneWasExecuted
\* The other edits renumber steps: nobody is in one, and none is in use.
<1>18. ~ (StartInsert(a) \/ StartDrop(a) \/ StartReplan(a))
  BY DEF Unmoved, StartInsert, StartDrop, StartReplan, May
<1>19. ~ (InsertWrite(a) \/ DropWrite(a) \/ Replace(a))
  BY <1>1 DEF InsertWrite, DropWrite, Replace, At, RunsItsStep
<1>. QED
  BY <1>6, <1>7, <1>8, <1>9, <1>10, <1>11, <1>12, <1>13, <1>14, <1>15, <1>16, <1>17, <1>18, <1>19
     DEF RunSteps, EditSteps

LEMMA InitMarksNothing == Init => MarksSound
BY IdleRunsNothing DEF Init, PlanStep, MarksSound, DoneWasExecuted

\* A step marked done is one whose run ended done (DoneWasExecuted), for one
\* session at a time whatever it renumbers, and for any number of threads that
\* run, select, advance and block under each other, the same step twice at once
\* among them, as long as nobody renumbers a step: the mark goes by the number
\* (cli.py:1686-1687), so that only a renumbering during the run misplaces it.
THEOREM DoneIsExecuted ==
    ASSUME Alone \/ Unmoved PROVE Spec => []DoneWasExecuted
<1>1. CASE Alone
  <2>1. Init => PlanSound /\ AloneSound
    BY InitIsSound, InitIsAlone
  <2>2. PlanSound /\ AloneSound /\ [Next]_vars => (PlanSound /\ AloneSound)'
    BY <1>1, StepKeepsSound, StepKeepsAlone
  <2>3. AloneSound => DoneWasExecuted
    BY DEF AloneSound
  <2>. QED
    BY <2>1, <2>2, <2>3, PTL DEF Spec
<1>2. CASE Unmoved
  <2>1. Init => PlanSound /\ MarksSound
    BY InitIsSound, InitMarksNothing
  <2>2. PlanSound /\ MarksSound /\ [Next]_vars => (PlanSound /\ MarksSound)'
    <3> SUFFICES ASSUME PlanSound, MarksSound, [Next]_vars PROVE PlanSound' /\ MarksSound'
      OBVIOUS
    <3>1. CASE UNCHANGED vars
      BY <3>1, StepKeepsSound DEF vars, MarksSound, DoneWasExecuted
    <3>. QED
      BY <1>2, <3>1, StepKeepsSound, StepKeepsMarks DEF Next
  <2>3. MarksSound => DoneWasExecuted
    BY DEF MarksSound
  <2>. QED
    BY <2>1, <2>2, <2>3, PTL DEF Spec
<1>. QED
  BY <1>1, <1>2

-----------------------------------------------------------------------------
(* Once more one session at a time: the end of a plan, and its place       *)

LEMMA StepsEndPlans ==
    ASSUME Alone, PlanSound, AloneSound, [Next]_vars,
           plan.status # "done", plan'.status = "done"
    PROVE  \A r \in rows' : r.status = "done"
<1>1. plan \in [status : PlanStatus, cursor : Numbers]
      /\ \A r \in rows : r.no \in Nat /\ plan.cursor \in Nat
  BY DEF PlanSound, TypeOK, Rows, Numbers
<1>2. ~UNCHANGED plan
  OBVIOUS
<1>3. \A s : MarkPlan(s) => plan'.status = s
  BY <1>1 DEF MarkPlan
<1>4. PICK a \in Actors : RunSteps(a) \/ EditSteps(a) \/ ActorExit(a)
  BY <1>2 DEF Next, vars
<1>5. Follows(act[a], rows, plan.cursor, executed) /\ EarlierStepsDone
  BY DEF AloneSound
<1>6. AdvanceWrite(a) \/ FinishPlan(a)
  <2>1. ~ActorExit(a)
    BY <1>2 DEF ActorExit
  <2>2. ASSUME EditSteps(a) PROVE FALSE
    <3>1. ~BlockPlan(a)
      BY <1>3 DEF BlockPlan
    <3>2. ~DropWrite(a)
      <4>1. \A c : [plan EXCEPT !.cursor = c].status = plan.status
        BY <1>1
      <4>. QED
        BY <4>1 DEF DropWrite
    <3>3. ~SelectWrite(a)
      BY DEF SelectWrite
    <3>4. ~Replace(a)
      <4> SUFFICES ASSUME Replace(a) PROVE FALSE
        OBVIOUS
      <4>1. plan' = [status |-> "draft", cursor |-> act[a].no] \/ Refuse(a)
        BY DEF Replace
      <4>. QED
        BY <1>2, <4>1 DEF Refuse
    <3>5. ~InsertWrite(a)
      BY <1>2 DEF InsertWrite, Refuse
    <3>. QED
      BY <1>2, <2>2, <3>1, <3>2, <3>3, <3>4, <3>5 DEF EditSteps, StartInsert, StartDrop,
         StartSelect, StartAdvance, StartReplan
  <2>3. ASSUME RunSteps(a) PROVE AdvanceWrite(a) \/ FinishPlan(a)
    <3>1. ~BeginPlan(a) /\ ~BlockAfterFailure(a)
      BY <1>3 DEF BeginPlan, BlockAfterFailure
    <3>. QED
      BY <1>2, <2>3, <3>1 DEF RunSteps, StartRun, BeginStep, EndRun, MarkEnd,
         AdvanceCursor, AdvanceNext
  <2>. QED
    BY <1>4, <2>1, <2>2, <2>3
<1>7. CASE FinishPlan(a)
  BY <1>5, <1>7 DEF FinishPlan, At, Follows
<1>8. CASE AdvanceWrite(a)
  <2>1. act[a].seen = 0 /\ UNCHANGED rows
    BY <1>8 DEF AdvanceWrite
  <2>2. /\ \A r \in rows : r.no = plan.cursor => r.status = "done"
        /\ act[a].seen > plan.cursor \/ \A r \in rows : r.no <= plan.cursor
    BY <1>5, <1>8 DEF AdvanceWrite, At, Follows
  <2>. QED
    BY <1>1, <1>5, <2>1, <2>2 DEF EarlierStepsDone
<1>. QED
  BY <1>6, <1>7, <1>8

\* ... and the plan is declared done (advance_plan, _finalize_plan_step_run)
\* only when all of its steps are.
THEOREM PlansEndDone ==
    ASSUME Alone PROVE Spec => DoneWhenAllDone
<1>1. Init => PlanSound /\ AloneSound
  BY InitIsSound, InitIsAlone
<1>2. PlanSound /\ AloneSound /\ [Next]_vars => (PlanSound /\ AloneSound)'
  BY StepKeepsSound, StepKeepsAlone
<1>3. PlanSound /\ AloneSound /\ [Next]_vars =>
        (plan.status # "done" /\ plan'.status = "done" =>
            \A r \in rows' : r.status = "done")
  BY StepsEndPlans
<1>. QED
  BY <1>1, <1>2, <1>3, PTL DEF Spec, DoneWhenAllDone

-----------------------------------------------------------------------------
(* Numbers without a gap                                                   *)

NumbersOf(R) == {r.no : r \in R}

\* A gapless table has as many rows as its greatest number says.
LEMMA GaplessCounts ==
    ASSUME NEW R, Keyed(R)
    PROVE  NumbersOf(R) = 1 .. Cardinality(R) <=> \E n \in Nat : NumbersOf(R) = 1 .. n
<1> DEFINE S == NumbersOf(R)
           f == [r \in R |-> r.no]
<1>1. S \subseteq Numbers /\ \A q, r \in R : q.no = r.no => q = r
  BY DEF Keyed, Rows, NumbersOf
<1>2. f \in Injection(R, S) /\ f \in Surjection(R, S)
  <2>1. \A r \in R : f[r] \in S
    BY DEF NumbersOf
  <2>2. \A n \in S : \E r \in R : f[r] = n
    BY DEF NumbersOf
  <2>3. f \in [R -> S] /\ \A q, r \in R : f[q] = f[r] => q = r
    BY <1>1, <2>1
  <2>. QED
    BY <2>2, <2>3 DEF Injection, IsInjective, Surjection
<1>3. IsFiniteSet(Numbers)
  BY PlanAssumption, FS_Interval DEF Numbers
<1>4. IsFiniteSet(S)
  BY <1>1, <1>3, FS_Subset
<1>5. IsFiniteSet(R) /\ Cardinality(R) = Cardinality(S)
  <2>. HIDE DEF f, S
  <2>. QED
    BY <1>2, <1>4, FS_Injection
<1>6. Cardinality(R) \in Nat
  BY <1>5, FS_CardinalityType
<1>7. ASSUME NEW n \in Nat, S = 1 .. n PROVE Cardinality(S) = n
  <2>1. 1 \in Int /\ n \in Int
    OBVIOUS
  <2>2. Cardinality(1 .. n) = IF 1 > n THEN 0 ELSE (n - 1) + 1
    BY <2>1, FS_Interval
  <2>3. Cardinality(1 .. n) = n
    BY <2>2
  <2>. QED
    BY <1>7, <2>3
<1>. HIDE DEF S, f
<1>8. S = 1 .. Cardinality(R) <=> \E n \in Nat : S = 1 .. n
  BY <1>5, <1>6, <1>7
<1>. QED
  BY <1>8 DEF S

LEMMA PlaceIsKept ==
    ASSUME PlanSound', NEW n \in Nat, NumbersOf(rows') = 1 .. n,
           rows' # {} => plan'.cursor \in NumbersOf(rows')
    PROVE  OnStep'
<1>1. Keyed(rows')
  BY DEF PlanSound, TypeOK, Keyed
<1>2. NumbersOf(rows') = 1 .. Cardinality(rows')
  BY <1>1, GaplessCounts
<1>. QED
  BY <1>2 DEF OnStep, UsedNumbers, NumbersOf

LEMMA StepKeepsPlace ==
    ASSUME Alone, PlanSound, PlanSound', AloneSound, [Next]_vars, OnStep, rows # {}
    PROVE  OnStep'
<1> DEFINE c == plan.cursor
           U == NumbersOf(rows)
<1>1. /\ plan \in [status : PlanStatus, cursor : Numbers] /\ rows \subseteq Rows
      /\ \A r \in rows : r.no \in Nat
  BY DEF PlanSound, TypeOK, Rows, Numbers
<1>2. c \in U /\ U = UsedNumbers
  BY DEF OnStep, UsedNumbers, NumbersOf
<1>3. PICK m \in Nat : U = 1 .. m
  <2>1. Keyed(rows)
    BY DEF PlanSound, TypeOK, Keyed
  <2>2. U = 1 .. Cardinality(rows)
    BY <1>2 DEF OnStep
  <2>. QED
    BY <2>1, <2>2, GaplessCounts
<1>4. c \in 1 .. m /\ c \in Nat
  BY <1>2, <1>3
<1>5. \A r \in rows : r.no \in 1 .. m
  BY <1>3 DEF NumbersOf
<1>6. \A n \in 1 .. m : \E r \in rows : r.no = n
  BY <1>3 DEF NumbersOf
<1>7. ASSUME UsedNumbers' = UsedNumbers, plan'.cursor \in U
      PROVE  OnStep'
  <2>1. NumbersOf(rows') = U
    BY <1>2, <1>7 DEF UsedNumbers, NumbersOf
  <2>. QED
    BY <1>3, <1>7, <2>1, PlaceIsKept
<1>8. ASSUME UNCHANGED rows, plan'.cursor \in U PROVE OnStep'
  BY <1>7, <1>8 DEF UsedNumbers
<1>9. CASE UNCHANGED <<rows, plan>>
  BY <1>2, <1>8, <1>9
<1>10. ASSUME NEW a \in Actors, RunSteps(a) PROVE OnStep'
  <2>1. ASSUME NEW s, MarkPlan(s) PROVE plan'.cursor = c
    BY <1>1, <2>1 DEF MarkPlan
  <2>2. ASSUME NEW n, NEW s, MarkStep(n, s), UNCHANGED plan PROVE OnStep'
    <3>1. UsedNumbers' = UsedNumbers
      BY <2>2, MarkedRows
    <3>. QED
      BY <1>2, <1>7, <2>2, <3>1
  <2>3. CASE BeginPlan(a) \/ BlockAfterFailure(a) \/ FinishPlan(a)
    BY <1>2, <1>8, <2>1, <2>3 DEF BeginPlan, BlockAfterFailure, FinishPlan
  <2>4. CASE BeginStep(a) \/ MarkEnd(a)
    BY <2>2, <2>4 DEF BeginStep, MarkEnd
  <2>5. CASE AdvanceWrite(a)
    <3>1. UNCHANGED rows
      BY <2>5 DEF AdvanceWrite
    <3>2. CASE act[a].seen = 0
      BY <1>2, <1>8, <2>1, <2>5, <3>1, <3>2 DEF AdvanceWrite
    <3>3. CASE act[a].seen # 0
      <4>1. plan' = [status |-> "in_progress", cursor |-> act[a].seen]
        BY <2>5, <3>3 DEF AdvanceWrite
      <4>2. \E r \in rows : r.no = act[a].seen
        BY <2>5, <3>3 DEF AdvanceWrite, At, AloneSound, Follows
      <4>3. plan'.cursor \in U
        BY <4>1, <4>2 DEF NumbersOf
      <4>. QED
        BY <1>8, <3>1, <4>3
    <3>. QED
      BY <3>2, <3>3
  <2>6. CASE StartRun(a) \/ EndRun(a) \/ AdvanceCursor(a) \/ AdvanceNext(a)
    BY <1>9, <2>6 DEF StartRun, EndRun, AdvanceCursor, AdvanceNext
  <2>. QED
    BY <1>10, <2>3, <2>4, <2>5, <2>6, Zenon DEF RunSteps
<1>11. ASSUME NEW a \in Actors, InsertWrite(a) PROVE OnStep'
  <2>1. Follows(act[a], rows, plan.cursor, executed)
    BY DEF AloneSound
  <2>2. CASE Refuse(a)
    BY <1>9, <2>2 DEF Refuse
  <2>3. CASE /\ \A q \in rows' :
                    \/ q.no = c + 1 /\ q.status = "pending"
                    \/ \E r \in rows :
                          /\ q.uid = r.uid /\ q.status = r.status
                          /\ q.no = IF r.no > c THEN r.no + 1 ELSE r.no
             /\ \A r \in rows : \E q \in rows' : q.no = IF r.no > c THEN r.no + 1 ELSE r.no
             /\ \E q \in rows' : q.no = c + 1
             /\ UNCHANGED plan
    <3>. HIDE DEF c, U
    <3>1. \A q \in rows' : q.no \in 1 .. m + 1
      BY <1>4, <1>5, <2>3
    <3>2. ASSUME NEW n \in 1 .. m + 1 PROVE \E q \in rows' : q.no = n
      <4>1. CASE n <= c
        <5>1. PICK r \in rows : r.no = n
          BY <1>4, <1>6, <4>1
        <5>2. ~(r.no > c)
          BY <1>4, <4>1, <5>1
        <5>. QED
          BY <2>3, <5>1, <5>2
      <4>2. CASE n = c + 1
        BY <2>3, <4>2
      <4>3. CASE n > c + 1
        <5>1. n - 1 \in 1 .. m /\ n - 1 > c /\ (n - 1) + 1 = n
          BY <1>4, <4>3
        <5>2. PICK r \in rows : r.no = n - 1
          BY <1>6, <5>1
        <5>. QED
          BY <2>3, <5>1, <5>2
      <4>. QED
        BY <1>4, <4>1, <4>2, <4>3
    <3>3. NumbersOf(rows') = 1 .. m + 1
      BY <3>1, <3>2 DEF NumbersOf
    <3>4. plan'.cursor \in 1 .. m + 1
      BY <1>4, <2>3 DEF c
    <3>5. m + 1 \in Nat
      OBVIOUS
    <3>. QED
      BY <3>3, <3>4, <3>5, PlaceIsKept
  <2>. QED
    BY <1>11, <2>1, <2>2, <2>3, InsertedRows
<1>12. ASSUME NEW a \in Actors, DropWrite(a) PROVE OnStep'
  <2> DEFINE k == act[a].no
             left == {r.no : r \in Closed(k)}
  <2>1. k \in Numbers /\ \E r \in rows : r.no = k
    BY <1>12 DEF DropWrite, At, PlanSound, ActSound, AloneSound, Follows
  <2>2. /\ rows' = Closed(k) /\ plan' = [plan EXCEPT !.cursor = Landing(k, left)]
    BY <1>12 DEF DropWrite
  <2>3. plan'.cursor = Landing(k, left) /\ NumbersOf(rows') = left
    BY <1>1, <2>2 DEF NumbersOf
  <2>4. k \in 1 .. m /\ left \in SUBSET Numbers
    BY <1>5, <2>1, ClosedRows
  <2>. HIDE DEF k, left, c, U
  <2>5. \A q \in rows' : \E r \in rows :
            /\ r.no # k /\ q.no = IF r.no > k THEN r.no - 1 ELSE r.no
    BY <2>2, ClosedRowIs
  <2>6. \A r \in rows : r.no # k =>
            \E q \in rows' : q.no = IF r.no > k THEN r.no - 1 ELSE r.no
    BY <2>2, ClosedRowIs
  <2>7. ASSUME NEW q \in rows' PROVE q.no \in 1 .. m - 1
    <3>1. PICK r \in rows : r.no # k /\ q.no = IF r.no > k THEN r.no - 1 ELSE r.no
      BY <2>5
    <3>. QED
      BY <1>5, <2>4, <3>1
  <2>8. ASSUME NEW n \in 1 .. m - 1 PROVE \E q \in rows' : q.no = n
    <3>1. CASE n < k
      <4>1. PICK r \in rows : r.no = n
        BY <1>6
      <4>2. r.no # k /\ ~(r.no > k)
        BY <2>4, <3>1, <4>1
      <4>. QED
        BY <2>6, <4>1, <4>2
    <3>2. CASE n >= k
      <4>1. n + 1 \in 1 .. m /\ n + 1 # k /\ n + 1 > k /\ (n + 1) - 1 = n
        BY <2>4, <3>2
      <4>2. PICK r \in rows : r.no = n + 1
        BY <1>6, <4>1
      <4>. QED
        BY <2>6, <4>1, <4>2
    <3>. QED
      BY <2>4, <3>1, <3>2
  <2>9. m - 1 \in Nat
    BY <2>4
  <2>10. NumbersOf(rows') = 1 .. m - 1
    BY <2>7, <2>8 DEF NumbersOf
  <2>11. ASSUME rows' # {} PROVE plan'.cursor \in 1 .. m - 1
    <3>1. left = 1 .. m - 1 /\ left # {}
      BY <2>3, <2>10, <2>11 DEF NumbersOf
    <3>2. CASE c > k
      <4>1. Landing(k, left) = c - 1
        BY <3>2 DEF Landing, c
      <4>. QED
        BY <1>4, <2>3, <2>4, <3>2, <4>1
    <3>3. CASE c < k
      <4>1. Landing(k, left) = c
        BY <1>4, <2>4, <3>3 DEF Landing, c
      <4>. QED
        BY <1>4, <2>3, <2>4, <3>3, <4>1
    <3>4. CASE c = k
      <4>1. plan.cursor \in Numbers
        BY <1>1
      <4>2. Landing(k, left) \in left
        BY <2>1, <2>4, <3>1, <3>4, <4>1, LandingIsThere DEF c
      <4>. QED
        BY <2>3, <3>1, <4>2
    <3>. QED
      BY <1>4, <2>4, <3>2, <3>3, <3>4
  <2>. QED
    BY <2>9, <2>10, <2>11, PlaceIsKept
<1>13. ASSUME NEW a \in Actors, Replace(a) PROVE OnStep'
  <2> DEFINE k == act[a].no
             kept == {r \in rows : r.no < k}
  <2>1. k = c
    BY <1>13 DEF Replace, At, AloneSound, Follows
  <2>2. PICK n \in DraftSizes :
          \/ Refuse(a)
          \/ /\ rows' = kept \cup Draft(k, n)
             /\ plan' = [status |-> "draft", cursor |-> k]
    BY <1>13 DEF Replace
  <2>3. CASE Refuse(a)
    BY <1>9, <2>3 DEF Refuse
  <2>4. CASE /\ rows' = kept \cup Draft(k, n)
             /\ plan' = [status |-> "draft", cursor |-> k]
    <3>1. n \in Nat /\ n >= 1
      BY PlanAssumption
    <3>2. plan'.cursor = c
      BY <2>1, <2>4
    <3>3. NumbersOf(Draft(k, n)) = {k + i - 1 : i \in 1 .. n}
      <4>1. \A i \in 1 .. n : PlanStep(k + i - 1, <<k + i - 1, 0>>, made + i).no = k + i - 1
        BY DEF PlanStep
      <4>. QED
        BY <4>1 DEF NumbersOf, Draft
    <3>4. NumbersOf(rows') = NumbersOf(kept) \cup NumbersOf(Draft(k, n))
      BY <2>4 DEF NumbersOf
    <3>5. NumbersOf(kept) = {j \in 1 .. m : j < k}
      BY <1>5, <1>6 DEF NumbersOf
    <3>. HIDE DEF c, U, k, kept
    <3>6. ASSUME NEW j PROVE j \in NumbersOf(rows') <=> j \in 1 .. (c + n) - 1
      <4>1. CASE j \in NumbersOf(kept)
        BY <1>4, <2>1, <3>1, <3>4, <3>5, <4>1
      <4>2. CASE j \in NumbersOf(Draft(k, n))
        <5>1. PICK i \in 1 .. n : j = k + i - 1
          BY <3>3, <4>2
        <5>. QED
          BY <1>4, <2>1, <3>1, <3>4, <4>2, <5>1
      <4>3. ASSUME j \in 1 .. (c + n) - 1, j < c PROVE j \in NumbersOf(kept)
        BY <1>4, <2>1, <3>1, <3>5, <4>3
      <4>4. ASSUME j \in 1 .. (c + n) - 1, j >= c PROVE j \in NumbersOf(Draft(k, n))
        <5>1. (j - c) + 1 \in 1 .. n /\ j = c + ((j - c) + 1) - 1
          BY <1>4, <3>1, <4>4
        <5>. QED
          BY <2>1, <3>3, <5>1
      <4>5. j \in 1 .. (c + n) - 1 => j < c \/ j >= c
        BY <1>4
      <4>. QED
        BY <3>4, <4>1, <4>2, <4>3, <4>4, <4>5
    <3>7. NumbersOf(rows') = 1 .. (c + n) - 1
      BY <3>6
    <3>8. (c + n) - 1 \in Nat /\ c \in 1 .. (c + n) - 1
      BY <1>4, <3>1
    <3>. QED
      BY <3>2, <3>7, <3>8, PlaceIsKept
  <2>. QED
    BY <2>2, <2>3, <2>4
<1>14. ASSUME NEW a \in Actors, EditSteps(a) PROVE OnStep'
  <2>1. ~SelectWrite(a)
    BY DEF SelectWrite, At, AloneSound, Follows
  <2>2. ~BlockPlan(a)
    BY DEF Alone, BlockPlan, May
  <2>. QED
    BY <1>9, <1>11, <1>12, <1>13, <1>14, <2>1, <2>2 DEF EditSteps, StartInsert, StartDrop,
       StartSelect, StartAdvance, StartReplan
<1>15. ASSUME NEW a \in Actors, ActorExit(a) PROVE OnStep'
  BY <1>9, <1>15 DEF ActorExit
<1>16. CASE UNCHANGED vars
  BY <1>9, <1>16 DEF vars
<1>. QED
  BY <1>10, <1>14, <1>15, <1>16 DEF Next

\* ... and edits leave the steps numbered from 1 on without a gap and the
\* cursor on one of them (insert_plan_step_after, delete_plan_step,
\* replace_plan_steps_from, advance_plan): the plan can be resumed.
THEOREM PlansCanBeResumed ==
    ASSUME Alone PROVE Spec => KeepsItsPlace
<1>1. Init => PlanSound /\ AloneSound
  BY InitIsSound, InitIsAlone
<1>2. PlanSound /\ AloneSound /\ [Next]_vars => (PlanSound /\ AloneSound)'
  BY StepKeepsSound, StepKeepsAlone
<1>3. PlanSound /\ AloneSound /\ PlanSound' /\ [Next]_vars =>
        (OnStep /\ rows # {} => OnStep')
  BY StepKeepsPlace
<1>. QED
  BY <1>1, <1>2, <1>3, PTL DEF Spec, KeepsItsPlace

=============================================================================
