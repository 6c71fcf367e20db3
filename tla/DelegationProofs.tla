-------------------------- MODULE DelegationProofs --------------------------
(***************************************************************************)
(* The safety invariants of Delegation, proved for every number of runs    *)
(* and of steps, every depth and every budget.  They rest on TreeInv: one  *)
(* thread executes the tree, so that a run that waits has at most one      *)
(* child that is not gone, and a child that is not gone has a waiting      *)
(* caller.                                                                 *)
(***************************************************************************)
EXTENDS Delegation, TLAPS

-----------------------------------------------------------------------------
(* The inductive invariant *)

\* Where a run works, where it has a frame, and where it has a place in the
\* tree: that of a child that is due is taken.
Working == {"step", "call", "spawn", "wait", "tool", "attempt", "complete"}
OnStack == Working \cup {"returned", "raise"}
Present == OnStack \cup {"due"}

\* The status of a run goes with the place where its frame stands.
StatusFollowsFrame ==
    \A r \in RunIds :
        /\ tree[r].at \in {"none", "due"} => tree[r].status = "absent"
        /\ tree[r].at \in Working => tree[r].status = "running"
        /\ tree[r].at = "returned" => tree[r].status \in Ended
        /\ tree[r].at = "raise" => tree[r].status \in Ended \cup {"running"}
        /\ tree[r].at = "none" => tree[r].caller = 0

\* A spawned run works at nothing but its attempt.
SpawnedIsDirect ==
    \A r \in RunIds : tree[r].spawned =>
        tree[r].at \in {"attempt", "returned", "raise", "gone"}

\* What a caller has done for a child when it goes on.
IsSettled(status, isSpawned, task) ==
    /\ task \notin {"created", "assigned"}
    /\ status = "running" => isSpawned /\ task # "completed"

\* The caller of a run that is present stands where it waits for such a run.
CallerWaits ==
    \A c \in RunIds : tree[c].at \in Present /\ tree[c].caller # 0 =>
        tree[tree[c].caller].at =
            IF tree[c].at = "due" \/ tree[c].spawned THEN "tool" ELSE "wait"

\* Nobody waits for two runs.
OneChildPresent ==
    \A c, d \in RunIds :
        /\ tree[c].at \in Present /\ tree[d].at \in Present
        /\ tree[c].caller # 0 /\ tree[c].caller = tree[d].caller
        => c = d

\* A task is settled when its child is gone, and not before.
TaskFollowsChild ==
    \A c \in RunIds :
        /\ tree[c].at \in {"none", "due"} => tasks[c] \in {"none", "created"}
        /\ tree[c].at \in OnStack =>
               tasks[c] \in {"none", IF tree[c].spawned THEN "created" ELSE "assigned"}

\* A child that is gone was settled by its caller, unless the caller's frame
\* was left by an exception; then the caller will never be done.
GoneIsSettled ==
    \A c \in RunIds : tree[c].at = "gone" /\ Exists(c) /\ tree[c].caller # 0 =>
        \/ IsSettled(tree[c].status, tree[c].spawned, tasks[c])
        \/ /\ tree[tree[c].caller].at \in {"raise", "gone"}
           /\ tree[tree[c].caller].status # "done"

TreeInv ==
    /\ DelegationTypeOK
    /\ StatusFollowsFrame /\ SpawnedIsDirect /\ CallerWaits /\ OneChildPresent
    /\ TaskFollowsChild /\ GoneIsSettled

\* A call is in progress only while the budget lasts.
BudgetHolds ==
    \A r \in RunIds : tree[r].at \in {"call", "tool"} =>
        tree[r].calls <= MaxToolCalls /\ tree[r].bash <= MaxBashCalls

-----------------------------------------------------------------------------
(* One lemma per way in which the tree changes. *)

\* A caller is a run, unless there is none.
LEMMA CallerIsARun ==
    ASSUME DelegationTypeOK
    PROVE  /\ 0 \notin RunIds
           /\ \A c \in RunIds : tree[c].caller # 0 => tree[c].caller \in RunIds
<1>1. \A c \in RunIds : tree[c].caller \in 0..MaxRuns
  BY DEF DelegationTypeOK, TreeRuns
<1> QED BY <1>1, DelegationAssumption DEF RunIds

\* A frame that works goes on to another place where it works.
LEMMA FrameMoves ==
    ASSUME TreeInv, NEW r \in RunIds, NEW x \in TreeRuns,
           tree[r].at \in {"step", "call"}, x.at \in {"step", "call", "spawn", "complete"},
           x.status = tree[r].status, x.caller = tree[r].caller,
           x.spawned = tree[r].spawned,
           tree' = [tree EXCEPT ![r] = x],
           \A c \in RunIds : tasks'[c] # tasks[c] => tree[c].at = "none" /\ tasks'[c] = "created",
           tasks' \in [RunIds -> TaskStates], UNCHANGED <<asked, passedTests>>
    PROVE  TreeInv'
<1> USE CallerIsARun DEF TreeInv, DelegationTypeOK, Working, OnStack, Present
<1>1. DelegationTypeOK'
  OBVIOUS
<1>2. /\ tree'[r] = x
      /\ \A c \in RunIds : c # r => tree'[c] = tree[c]
  OBVIOUS
<1>3. StatusFollowsFrame' /\ SpawnedIsDirect'
  BY <1>2 DEF StatusFollowsFrame, SpawnedIsDirect
<1>4. CallerWaits'
  BY <1>2 DEF CallerWaits, StatusFollowsFrame
<1>5. OneChildPresent'
  BY <1>2 DEF OneChildPresent
<1>6. TaskFollowsChild'
  BY <1>2 DEF TaskFollowsChild, SpawnedIsDirect
<1>7. GoneIsSettled'
  BY <1>2 DEF GoneIsSettled, Exists
<1> QED BY <1>1, <1>3, <1>4, <1>5, <1>6, <1>7

\* A frame that has no child at work is left, by a return or by an exception.
LEMMA FrameLeft ==
    ASSUME TreeInv, NEW r \in RunIds, NEW s, NEW l,
           tree[r].at \in {"step", "call", "spawn", "attempt", "complete"},
           \/ l = "returned" /\ s \in Ended
           \/ l = "raise" /\ s \in Ended \cup {"running"},
           tree' = Leave(r, s, l), UNCHANGED <<tasks, asked, passedTests>>
    PROVE  TreeInv'
<1> USE CallerIsARun DEF TreeInv, DelegationTypeOK, Working, OnStack, Present
<1> DEFINE x == Run(s, tree[r].caller, tree[r].spawned, 0, FALSE, l)
<1>1. /\ x.status = s /\ x.at = l
      /\ x.caller = tree[r].caller /\ x.spawned = tree[r].spawned
  BY DEF Run
<1>2. x \in TreeRuns
  <2>1. tree[r].caller \in 0..MaxRuns /\ tree[r].spawned \in BOOLEAN
    BY DEF TreeRuns
  <2>2. 0 \in 0..LoopSteps
    BY DelegationAssumption
  <2> QED BY <2>1, <2>2 DEF TreeRuns, Ended, Run
<1>3. /\ tree'[r] = x
      /\ \A c \in RunIds : c # r => tree'[c] = tree[c]
  BY DEF Leave
<1>4. DelegationTypeOK'
  BY <1>2 DEF Leave
<1> HIDE DEF x
<1>5. StatusFollowsFrame' /\ SpawnedIsDirect'
  BY <1>1, <1>3 DEF StatusFollowsFrame, SpawnedIsDirect
<1>6. CallerWaits'
  BY <1>1, <1>3 DEF CallerWaits, StatusFollowsFrame
<1>7. OneChildPresent'
  BY <1>1, <1>3 DEF OneChildPresent
<1>8. TaskFollowsChild'
  BY <1>1, <1>3 DEF TaskFollowsChild
<1>9. GoneIsSettled'
  BY <1>1, <1>3 DEF GoneIsSettled, Exists
<1> QED BY <1>4, <1>5, <1>6, <1>7, <1>8, <1>9

\* A free place is taken by a child, for which the caller waits from now on.
LEMMA ChildEnters ==
    ASSUME TreeInv, NEW r \in RunIds, NEW c \in RunIds, NEW x \in TreeRuns, NEW y \in TreeRuns,
           \/ /\ tree[r].at \in {"call", "spawn"} /\ tree[c].at = "none"
              /\ \/ x.at = "wait" /\ ~y.spawned /\ y.at \in {"step", "attempt"}
                 \/ x.at = "tool" /\ ~y.spawned /\ y.at = "due"
           \/ /\ tree[r].at = "tool" /\ tree[c].at = "due" /\ tree[c].caller = r
              /\ x = tree[r] /\ y.spawned /\ y.at = "attempt",
           x.status = tree[r].status, x.caller = tree[r].caller, ~x.spawned, ~tree[r].spawned,
           y.caller = r, y.status = IF y.at = "due" THEN "absent" ELSE "running",
           tree' = [tree EXCEPT ![r] = x, ![c] = y],
           tasks' \in [RunIds -> TaskStates],
           \A d \in RunIds : d # c => tasks'[d] = tasks[d],
           tasks'[c] \in {"none", IF y.at = "due" \/ y.spawned THEN "created" ELSE "assigned"},
           UNCHANGED <<asked, passedTests>>
    PROVE  TreeInv'
<1> USE CallerIsARun DEF TreeInv, DelegationTypeOK, Working, OnStack, Present
<1>1. DelegationTypeOK'
  OBVIOUS
<1>2. /\ r # c /\ tree'[r] = x /\ tree'[c] = y
      /\ \A d \in RunIds \ {r, c} : tree'[d] = tree[d]
  OBVIOUS
<1>3. \A d \in RunIds \ {c} : tree[d].at \in Present => tree[d].caller # r
  BY DEF CallerWaits, OneChildPresent
<1>4. \A d \in RunIds \ {c} : tree[d].at \in Present => tree[d].caller # c
  BY DEF CallerWaits
<1>5. StatusFollowsFrame' /\ SpawnedIsDirect'
  BY <1>2 DEF StatusFollowsFrame, SpawnedIsDirect
<1>6. CallerWaits'
  BY <1>2, <1>3, <1>4 DEF CallerWaits, StatusFollowsFrame
<1>7. OneChildPresent'
  BY <1>2, <1>3, <1>4 DEF OneChildPresent
<1>8. TaskFollowsChild'
  BY <1>2 DEF TaskFollowsChild
<1>9. GoneIsSettled'
  BY <1>2 DEF GoneIsSettled, Exists, StatusFollowsFrame
<1> QED BY <1>1, <1>5, <1>6, <1>7, <1>8, <1>9

\* A child leaves the tree settled, and its caller goes on.
LEMMA ChildLeaves ==
    ASSUME TreeInv, NEW r \in RunIds, NEW c \in RunIds, NEW x \in TreeRuns, NEW y \in TreeRuns,
           tree[r].at \in {"wait", "tool"}, tree[c].at \in {"returned", "raise", "due"},
           tree[c].caller = r,
           x.at = "step", x.status = tree[r].status, x.caller = tree[r].caller,
           x.spawned = tree[r].spawned,
           y.at = "gone", y.status = tree[c].status, y.caller = tree[c].caller,
           y.spawned = tree[c].spawned,
           tree' = [tree EXCEPT ![r] = x, ![c] = y],
           DelegationTypeOK',
           \A d \in RunIds : d # c => tasks'[d] = tasks[d],
           y.status # "absent" => IsSettled(y.status, y.spawned, tasks'[c])
    PROVE  TreeInv'
<1> USE CallerIsARun DEF TreeInv, DelegationTypeOK, Working, OnStack, Present
<1>2. /\ r # c /\ tree'[r] = x /\ tree'[c] = y
      /\ \A d \in RunIds \ {r, c} : tree'[d] = tree[d]
  OBVIOUS
<1>3. \A d \in RunIds \ {c} : tree[d].at \in Present => tree[d].caller # r
  BY DEF OneChildPresent
<1>4. \A d \in RunIds \ {c} : tree[d].at \in Present => tree[d].caller # c
  BY DEF CallerWaits
<1>5. StatusFollowsFrame' /\ SpawnedIsDirect'
  BY <1>2 DEF StatusFollowsFrame, SpawnedIsDirect
<1>6. CallerWaits'
  BY <1>2, <1>3, <1>4 DEF CallerWaits
<1>7. OneChildPresent'
  BY <1>2 DEF OneChildPresent
<1>8. TaskFollowsChild'
  BY <1>2 DEF TaskFollowsChild
<1>9. GoneIsSettled'
  BY <1>2 DEF GoneIsSettled, Exists
<1> QED BY <1>5, <1>6, <1>7, <1>8, <1>9

\* An exception passes from a run to its caller, which was waiting.
LEMMA UnwindKeeps ==
    ASSUME TreeInv, NEW r \in RunIds, Unwind(r)
    PROVE  TreeInv'
<1> USE CallerIsARun DEF TreeInv, DelegationTypeOK, Working, OnStack, Present
<1> DEFINE p == tree[r].caller
           y == [tree[r] EXCEPT !.at = "gone"]
           x == [tree[p] EXCEPT !.at = "raise"]
<1>1. /\ tree[r].at = "raise" /\ ~tree[r].spawned
      /\ UNCHANGED <<tasks, asked, passedTests>>
  BY DEF Unwind, Stands
<1>2. /\ y \in TreeRuns /\ y.at = "gone" /\ y.status = tree[r].status
      /\ y.caller = p /\ y.spawned = tree[r].spawned
  BY DEF TreeRuns
<1>3. CASE p = 0
  <2>1. tree' = [tree EXCEPT ![r] = y]
    BY <1>3 DEF Unwind, Set
  <2> HIDE DEF y, x
  <2>2. /\ tree'[r] = y
        /\ \A d \in RunIds \ {r} : tree'[d] = tree[d]
    BY <2>1
  <2>3. StatusFollowsFrame' /\ SpawnedIsDirect'
    BY <1>1, <1>2, <2>2 DEF StatusFollowsFrame, SpawnedIsDirect
  <2>4. CallerWaits' /\ OneChildPresent'
    BY <1>1, <1>2, <2>2 DEF CallerWaits, OneChildPresent
  <2>5. TaskFollowsChild' /\ GoneIsSettled'
    BY <1>1, <1>2, <1>3, <2>2 DEF TaskFollowsChild, GoneIsSettled, Exists
  <2>6. DelegationTypeOK'
    BY <1>1, <1>2, <2>1
  <2> QED BY <2>3, <2>4, <2>5, <2>6
<1>4. CASE p # 0
  <2>1. p \in RunIds /\ tree[p].at = "wait" /\ p # r
    BY <1>1, <1>4 DEF CallerWaits
  <2>2. /\ x \in TreeRuns /\ x.at = "raise" /\ x.status = tree[p].status
        /\ x.caller = tree[p].caller /\ x.spawned = tree[p].spawned
    BY <2>1 DEF TreeRuns
  <2>3. tree' = [tree EXCEPT ![r] = y, ![p] = x]
    BY <1>4, <2>1 DEF Unwind
  <2>4. x.status = "running" /\ ~x.spawned
    BY <2>1, <2>2 DEF StatusFollowsFrame, SpawnedIsDirect
  <2> HIDE DEF y, x
  <2>5. /\ tree'[r] = y /\ tree'[p] = x
        /\ \A d \in RunIds \ {r, p} : tree'[d] = tree[d]
    BY <2>1, <2>3
  <2>6. \A d \in RunIds \ {r} : tree[d].at \in Present => tree[d].caller # p
    BY <1>1, <1>4 DEF OneChildPresent
  <2>7. \A d \in RunIds : tree[d].at \in Present => tree[d].caller # r
    BY <1>1 DEF CallerWaits
  <2>8. StatusFollowsFrame' /\ SpawnedIsDirect'
    BY <1>1, <1>2, <2>2, <2>4, <2>5 DEF StatusFollowsFrame, SpawnedIsDirect
  <2>9. CallerWaits'
    BY <1>1, <1>2, <2>1, <2>2, <2>4, <2>5, <2>6, <2>7 DEF CallerWaits
  <2>10. OneChildPresent'
    BY <1>1, <1>2, <2>1, <2>2, <2>5 DEF OneChildPresent
  <2>11. TaskFollowsChild'
    BY <1>1, <1>2, <2>1, <2>2, <2>4, <2>5 DEF TaskFollowsChild
  <2>12. GoneIsSettled'
    BY <1>1, <1>2, <2>1, <2>2, <2>4, <2>5 DEF GoneIsSettled, Exists
  <2>13. DelegationTypeOK'
    BY <1>1, <1>2, <2>2, <2>3
  <2> QED BY <2>8, <2>9, <2>10, <2>11, <2>12, <2>13
<1> QED BY <1>3, <1>4

-----------------------------------------------------------------------------
(* Every action is one of these. *)

\* The loop goes on within its frame.
LEMMA LoopMoves ==
    ASSUME TreeInv, NEW r \in RunIds,
           \/ StopLoop(r) \/ CallModel(r) \/ FinalAnswer(r) \/ Refuse(r)
           \/ \E bash \in BOOLEAN : RunTool(r, bash)
           \/ \E c \in RunIds : CreateTask(r, c)
    PROVE  TreeInv'
<1>1. tree[r] \in TreeRuns /\ tasks \in [RunIds -> TaskStates]
  BY DEF TreeInv, DelegationTypeOK
<1> DEFINE Moved(x) ==
      /\ x \in TreeRuns /\ x.at \in {"step", "call", "spawn", "complete"}
      /\ x.status = tree[r].status /\ x.caller = tree[r].caller
      /\ x.spawned = tree[r].spawned
      /\ tree' = [tree EXCEPT ![r] = x]
<1>2. CASE StopLoop(r) \/ FinalAnswer(r) \/ Refuse(r)
  <2>1. PICK l \in {"complete", "step"} : tree' = Set(r, "at", l)
    BY <1>2 DEF StopLoop, FinalAnswer, Refuse
  <2>2. Moved([tree[r] EXCEPT !.at = l])
    BY <1>1, <2>1 DEF TreeRuns, Set
  <2> QED BY <1>1, <1>2, <2>2, FrameMoves DEF StopLoop, FinalAnswer, Refuse, Stands
<1>3. CASE CallModel(r)
  <2>1. tree[r].step + 1 \in 0..LoopSteps
    BY <1>1, <1>3, DelegationAssumption DEF CallModel, Through, TreeRuns
  <2>2. Moved([tree[r] EXCEPT !.at = "call", !.step = @ + 1])
    BY <1>1, <1>3, <2>1 DEF TreeRuns, CallModel
  <2> QED BY <1>1, <1>3, <2>2, FrameMoves DEF CallModel, Stands
<1>4. ASSUME NEW bash \in BOOLEAN, RunTool(r, bash)
      PROVE  TreeInv'
  <2> DEFINE b == IF bash THEN tree[r].bash + 1 ELSE tree[r].bash
             x == [tree[r] EXCEPT !.at = "step", !.calls = @ + 1, !.bash = b]
  <2>1. tree[r].calls + 1 \in Nat /\ b \in Nat
    BY <1>1 DEF TreeRuns
  <2>2. tree' = [tree EXCEPT ![r] = x]
    BY <1>1, <1>4 DEF RunTool
  <2> HIDE DEF b
  <2>3. Moved(x)
    BY <1>1, <2>1, <2>2 DEF TreeRuns
  <2> HIDE DEF x
  <2> QED BY <1>1, <1>4, <2>3, FrameMoves DEF RunTool, Stands
<1>5. ASSUME NEW c \in RunIds, CreateTask(r, c)
      PROVE  TreeInv'
  <2> DEFINE x == [tree[r] EXCEPT !.at = "spawn"]
  <2>1. Moved(x)
    BY <1>1, <1>5 DEF TreeRuns, CreateTask, Set
  <2>2. /\ tasks' \in [RunIds -> TaskStates]
        /\ \A d \in RunIds :
              tasks'[d] # tasks[d] => tree[d].at = "none" /\ tasks'[d] = "created"
    BY <1>1, <1>5 DEF CreateTask, TaskStates, Free
  <2>3. tree[r].at = "call" /\ UNCHANGED <<asked, passedTests>>
    BY <1>5 DEF CreateTask, Stands
  <2> HIDE DEF x
  <2> QED BY <2>1, <2>2, <2>3, FrameMoves
<1> QED BY <1>2, <1>3, <1>4, <1>5

\* A run ends, or an exception ends it.
LEMMA LoopLeaves ==
    ASSUME TreeInv, NEW r \in RunIds,
           \/ CancelLoop(r) \/ CancelModelCall(r) \/ FailModelCall(r) \/ SpawnFails(r)
           \/ EndAttempt(r) \/ EndSpawned(r) \/ CompleteLoop(r)
    PROVE  TreeInv'
<1>1. CASE CancelLoop(r) \/ CancelModelCall(r)
  BY <1>1, FrameLeft DEF CancelLoop, CancelModelCall, Stands, Ended
<1>2. CASE FailModelCall(r) \/ SpawnFails(r)
  BY <1>2, FrameLeft DEF FailModelCall, SpawnFails, MaySpawn, Stands
<1>3. CASE EndAttempt(r)
  BY <1>3, FrameLeft DEF EndAttempt, Stands, Ended
<1>4. CASE EndSpawned(r)
  BY <1>4, FrameLeft DEF EndSpawned, Stands, Ended
<1>5. CASE CompleteLoop(r)
  BY <1>5, FrameLeft DEF CompleteLoop, Stands, Ended
<1> QED BY <1>1, <1>2, <1>3, <1>4, <1>5

\* A start that breaks off leaves the row of a child without a frame, and the
\* frame of its caller by an exception.
LEMMA SpawnBreaksKeeps ==
    ASSUME TreeInv, NEW r \in RunIds, NEW c \in RunIds, SpawnBreaks(r, c)
    PROVE  TreeInv'
<1> USE CallerIsARun DEF TreeInv, DelegationTypeOK, Working, OnStack, Present
<1> DEFINE x == Run("running", tree[r].caller, tree[r].spawned, 0, FALSE, "raise")
           y == Run("running", r, FALSE, 0, FALSE, "gone")
<1>1. /\ tree[r].at \in {"call", "spawn"} /\ tree[c].at = "none" /\ r # c
      /\ UNCHANGED <<tasks, asked, passedTests>>
  BY DEF SpawnBreaks, MaySpawn, Stands, Free
<1>2. /\ x.status = "running" /\ x.at = "raise"
      /\ x.caller = tree[r].caller /\ x.spawned = tree[r].spawned
      /\ y.status = "running" /\ y.at = "gone" /\ y.caller = r /\ ~y.spawned
  BY DEF Run
<1>3. x \in TreeRuns /\ y \in TreeRuns
  <2>1. tree[r].caller \in 0..MaxRuns /\ tree[r].spawned \in BOOLEAN
    BY DEF TreeRuns
  <2>2. r \in 0..MaxRuns /\ 0 \in 0..LoopSteps
    BY DelegationAssumption DEF RunIds
  <2> QED BY <2>1, <2>2 DEF TreeRuns, Run
<1>4. /\ tree'[r] = x /\ tree'[c] = y
      /\ \A d \in RunIds \ {r, c} : tree'[d] = tree[d]
  BY <1>1 DEF SpawnBreaks, Leave
<1>5. DelegationTypeOK'
  BY <1>1, <1>3 DEF SpawnBreaks, Leave
<1> HIDE DEF x, y
<1>6. \A d \in RunIds : tree[d].at \in Present => tree[d].caller # r /\ tree[d].caller # c
  BY <1>1 DEF CallerWaits
<1>7. StatusFollowsFrame' /\ SpawnedIsDirect'
  BY <1>1, <1>2, <1>4 DEF StatusFollowsFrame, SpawnedIsDirect
<1>8. CallerWaits' /\ OneChildPresent'
  BY <1>1, <1>2, <1>4, <1>6 DEF CallerWaits, OneChildPresent
<1>9. TaskFollowsChild'
  BY <1>1, <1>2, <1>4 DEF TaskFollowsChild
<1>10. GoneIsSettled'
  <2>1. tree[r].at \notin {"raise", "gone"} /\ tree[c].at \notin {"raise", "gone"}
    BY <1>1
  <2>2. \A d \in RunIds : Exists(d)' /\ d \notin {r, c} => Exists(d)
    BY <1>4 DEF Exists
  <2> QED BY <1>1, <1>2, <1>4, <2>1, <2>2 DEF GoneIsSettled
<1> QED BY <1>5, <1>7, <1>8, <1>9, <1>10

\* A child is begun by a delegation, or by the tool in its two steps.
LEMMA LoopBegins ==
    ASSUME TreeInv, NEW r \in RunIds, NEW c \in RunIds,
           \/ \E isLoop \in BOOLEAN : Spawn(r, c, isLoop)
           \/ SpawnTask(r, c) \/ SpawnDirect(r, c)
    PROVE  TreeInv'
<1>1. /\ tree \in [RunIds -> TreeRuns] /\ tree[r] \in TreeRuns /\ tree[c] \in TreeRuns
      /\ tasks \in [RunIds -> TaskStates]
  BY DEF TreeInv, DelegationTypeOK
<1>2. r \in 0..MaxRuns /\ r \in Nat /\ 0 \in 0..LoopSteps /\ 0 \in Nat
  BY DelegationAssumption DEF RunIds
<1>3. ASSUME NEW isLoop \in BOOLEAN, Spawn(r, c, isLoop)
      PROVE  TreeInv'
  <2> DEFINE x == [tree[r] EXCEPT !.at = "wait"]
             y == NewRun(r, tree[r].depth + 1, isLoop)
  <2>1. /\ tree[r].at \in {"call", "spawn"} /\ tree[c].at = "none"
        /\ tree' = [tree EXCEPT ![r] = x, ![c] = y] /\ UNCHANGED <<asked, passedTests>>
    BY <1>1, <1>3 DEF Spawn, MaySpawn, Stands, Free
  <2>2. ~tree[r].spawned /\ tasks[c] \in {"none", "created"}
    BY <2>1 DEF TreeInv, SpawnedIsDirect, TaskFollowsChild
  <2>3. /\ x \in TreeRuns /\ x.at = "wait" /\ x.status = tree[r].status
        /\ x.caller = tree[r].caller /\ ~x.spawned
    BY <1>1, <2>2 DEF TreeRuns
  <2>4. /\ y \in TreeRuns /\ ~y.spawned /\ y.at \in {"step", "attempt"}
        /\ y.caller = r /\ y.status = "running"
    BY <1>1, <1>2 DEF TreeRuns, NewRun, Run
  <2>5. /\ tasks' \in [RunIds -> TaskStates] /\ tasks'[c] \in {"none", "assigned"}
        /\ \A d \in RunIds : d # c => tasks'[d] = tasks[d]
    BY <1>1, <1>3, <2>2 DEF Spawn, TaskStates
  <2> HIDE DEF x, y
  <2> QED BY <2>1, <2>2, <2>3, <2>4, <2>5, ChildEnters
<1>4. CASE SpawnTask(r, c)
  <2> DEFINE x == [tree[r] EXCEPT !.at = "tool"]
             y == [tree[c] EXCEPT !.at = "due", !.caller = r]
  <2>1. /\ tree[r].at = "call" /\ tree[c].at = "none" /\ r # c
        /\ tree' = [tree EXCEPT ![r] = x, ![c] = y] /\ UNCHANGED <<asked, passedTests>>
    BY <1>1, <1>4 DEF SpawnTask, Stands, Free
  <2>2. /\ ~tree[r].spawned /\ ~tree[c].spawned /\ tree[c].status = "absent"
        /\ tasks[c] \in {"none", "created"}
    BY <2>1 DEF TreeInv, SpawnedIsDirect, TaskFollowsChild, StatusFollowsFrame
  <2>3. /\ x \in TreeRuns /\ x.at = "tool" /\ x.status = tree[r].status
        /\ x.caller = tree[r].caller /\ ~x.spawned
    BY <1>1, <2>2 DEF TreeRuns
  <2>4. /\ y \in TreeRuns /\ ~y.spawned /\ y.at = "due" /\ y.caller = r
        /\ y.status = "absent"
    BY <1>1, <1>2, <2>2 DEF TreeRuns
  <2>5. /\ tasks' \in [RunIds -> TaskStates] /\ tasks'[c] \in {"none", "created"}
        /\ \A d \in RunIds : d # c => tasks'[d] = tasks[d]
    BY <1>1, <1>4, <2>2 DEF SpawnTask, TaskStates
  <2> HIDE DEF x, y
  <2> QED BY <2>1, <2>2, <2>3, <2>4, <2>5, ChildEnters
<1>5. CASE SpawnDirect(r, c)
  <2> DEFINE y == NewSpawned(r)
  <2>1. /\ tree[r].at = "tool" /\ tree[c].at = "due" /\ tree[c].caller = r
        /\ tree' = [tree EXCEPT ![r] = tree[r], ![c] = y]
        /\ UNCHANGED <<tasks, asked, passedTests>>
    BY <1>1, <1>5 DEF SpawnDirect, Stands
  <2>2. ~tree[r].spawned /\ tasks[c] \in {"none", "created"}
    BY <2>1 DEF TreeInv, SpawnedIsDirect, TaskFollowsChild
  <2>3. /\ y \in TreeRuns /\ y.spawned /\ y.at = "attempt" /\ y.caller = r
        /\ y.status = "running"
    BY <1>1, <1>2 DEF TreeRuns, NewSpawned, Run
  <2> HIDE DEF y
  <2> QED BY <1>1, <2>1, <2>2, <2>3, ChildEnters
<1> QED BY <1>3, <1>4, <1>5

\* The caller takes up the child's end, or the end of a child that never began.
LEMMA LoopSettles ==
    ASSUME TreeInv, NEW r \in RunIds, NEW c \in RunIds,
           Accept(r, c) \/ SettleSpawned(r, c) \/ SpawnNothing(r, c)
    PROVE  TreeInv'
<1>1. /\ tree \in [RunIds -> TreeRuns] /\ tree[r] \in TreeRuns /\ tree[c] \in TreeRuns
      /\ tasks \in [RunIds -> TaskStates] /\ passedTests \subseteq RunIds
  BY DEF TreeInv, DelegationTypeOK
<1> DEFINE y == [tree[c] EXCEPT !.at = "gone"]
<1>2. /\ y \in TreeRuns /\ y.at = "gone" /\ y.status = tree[c].status
      /\ y.caller = tree[c].caller /\ y.spawned = tree[c].spawned
  BY <1>1 DEF TreeRuns
<1> HIDE DEF y
<1>3. CASE Accept(r, c)
  <2> DEFINE x == [tree[r] EXCEPT !.at = "step"]
  <2>1. /\ tree[r].at = "wait" /\ tree[c].at = "returned" /\ tree[c].caller = r
        /\ ~tree[c].spawned /\ r # c /\ UNCHANGED asked
    BY <1>3 DEF Accept, Stands, ChildrenOf
  <2>2. tree' = [tree EXCEPT ![r] = x, ![c] = y]
    BY <1>1, <1>3, <2>1 DEF Accept, y
  <2>3. /\ x \in TreeRuns /\ x.at = "step" /\ x.status = tree[r].status
        /\ x.caller = tree[r].caller /\ x.spawned = tree[r].spawned
    BY <1>1 DEF TreeRuns
  <2>4. tree[c].status \in Ended /\ tasks[c] \in {"none", "assigned"}
    BY <2>1 DEF TreeInv, StatusFollowsFrame, TaskFollowsChild, OnStack
  <2>5. /\ tasks' \in [RunIds -> TaskStates] /\ passedTests' \subseteq RunIds
        /\ tasks'[c] \notin {"created", "assigned"}
        /\ \A d \in RunIds : d # c => tasks'[d] = tasks[d]
    BY <1>1, <1>3, <2>4 DEF Accept, TaskStates
  <2>6. IsSettled(y.status, y.spawned, tasks'[c])
    BY <1>2, <2>4, <2>5 DEF Ended, IsSettled
  <2>7. DelegationTypeOK'
    BY <1>1, <1>2, <2>1, <2>2, <2>3, <2>5 DEF TreeInv, DelegationTypeOK
  <2> HIDE DEF x
  <2> QED BY <1>2, <2>1, <2>2, <2>3, <2>5, <2>6, <2>7, ChildLeaves
<1>4. CASE SettleSpawned(r, c) \/ SpawnNothing(r, c)
  <2> DEFINE x == [tree[r] EXCEPT !.at = "step", !.calls = @ + 1]
  <2>1. /\ tree[r].at = "tool" /\ tree[c].at \in {"returned", "raise", "due"}
        /\ tree[c].caller = r /\ r # c /\ UNCHANGED <<asked, passedTests>>
        /\ tree' = ToolAnswers(r, c)
    BY <1>4 DEF SettleSpawned, SpawnNothing, Stands
  <2>2. tree' = [tree EXCEPT ![r] = x, ![c] = y]
    BY <1>1, <2>1 DEF ToolAnswers, y
  <2>3. /\ x \in TreeRuns /\ x.at = "step" /\ x.status = tree[r].status
        /\ x.caller = tree[r].caller /\ x.spawned = tree[r].spawned
    <3>1. tree[r].calls + 1 \in Nat
      BY <1>1 DEF TreeRuns
    <3> QED BY <1>1, <3>1 DEF TreeRuns
  <2>4. r # 0
    BY DelegationAssumption DEF RunIds
  <2>5. tree[c].at = "due" \/ tree[c].spawned
    BY <2>1, <2>4 DEF TreeInv, CallerWaits, Present, OnStack
  <2>6. tree[c].status = "running" => tree[c].at = "raise" /\ tree[c].spawned
    BY <2>1, <2>5 DEF TreeInv, StatusFollowsFrame, Ended
  <2>7. tasks[c] \in {"none", "created"}
    BY <2>1, <2>5 DEF TreeInv, TaskFollowsChild, OnStack
  <2>8. tree[c].at = "due" => tree[c].status = "absent"
    BY DEF TreeInv, StatusFollowsFrame
  <2>9. /\ tasks' \in [RunIds -> TaskStates]
        /\ \A d \in RunIds : d # c => tasks'[d] = tasks[d]
        /\ tree[c].at # "due" => tasks'[c] \notin {"created", "assigned"}
        /\ tree[c].at = "raise" => tasks'[c] # "completed"
    <3>1. CASE SettleSpawned(r, c)
      BY <1>1, <2>7, <3>1 DEF SettleSpawned, Settled, TaskStates, Stands
    <3>2. CASE SpawnNothing(r, c)
      BY <1>1, <2>7, <3>2 DEF SpawnNothing, Stands
    <3> QED BY <1>4, <3>1, <3>2
  <2> HIDE DEF x
  <2>10. DelegationTypeOK'
    BY <1>1, <1>2, <2>1, <2>2, <2>3, <2>9 DEF TreeInv, DelegationTypeOK
  <2>11. y.status # "absent" => IsSettled(y.status, y.spawned, tasks'[c])
    BY <1>2, <2>6, <2>8, <2>9 DEF IsSettled
  <2> QED BY <1>2, <2>1, <2>2, <2>3, <2>9, <2>10, <2>11, ChildLeaves
<1> QED BY <1>3, <1>4

\* The tree is as TreeInv says, whatever the loops and the operator do.
LEMMA TreeInvHolds == DelegationSpec => []TreeInv
<1>1. DelegationInit => TreeInv
  <2> SUFFICES ASSUME DelegationInit PROVE TreeInv
    OBVIOUS
  <2>1. 1 \in RunIds /\ 0 \in 0..MaxRuns /\ 0 \in 0..LoopSteps /\ 0 \in Nat
    BY DelegationAssumption DEF RunIds
  <2>2. NoRun \in TreeRuns /\ NewRun(0, 0, TRUE) \in TreeRuns
    BY <2>1 DEF NoRun, NewRun, Run, TreeRuns
  <2>3. DelegationTypeOK
    BY <2>2 DEF DelegationInit, DelegationTypeOK, TaskStates
  <2>4. \A r \in RunIds :
           /\ tree[r].at \in {"none", "step"} /\ tree[r].caller = 0 /\ ~tree[r].spawned
           /\ tree[r].status = IF tree[r].at = "none" THEN "absent" ELSE "running"
    BY DEF DelegationInit, NoRun, NewRun, Run
  <2> QED BY <2>3, <2>4 DEF TreeInv, StatusFollowsFrame, SpawnedIsDirect, CallerWaits,
             OneChildPresent, TaskFollowsChild, GoneIsSettled, Working, OnStack, Present,
             DelegationInit
<1>2. TreeInv /\ [DelegationNext]_delegationVars => TreeInv'
  <2> SUFFICES ASSUME TreeInv, [DelegationNext]_delegationVars PROVE TreeInv'
    OBVIOUS
  <2>1. ASSUME NEW r \in RunIds, LoopStep(r) PROVE TreeInv'
    BY <2>1, LoopMoves, LoopLeaves, LoopBegins, LoopSettles, UnwindKeeps, SpawnBreaksKeeps
       DEF LoopStep
  <2>2. CASE AskToCancel \/ PauseOrResume \/ UNCHANGED delegationVars
    <3>1. UNCHANGED <<tree, tasks, passedTests>> /\ asked' \in [cancel : BOOLEAN, pause : BOOLEAN]
      BY <2>2 DEF AskToCancel, PauseOrResume, delegationVars, TreeInv, DelegationTypeOK
    <3> QED BY <3>1 DEF TreeInv, DelegationTypeOK, StatusFollowsFrame, SpawnedIsDirect,
               CallerWaits, OneChildPresent, TaskFollowsChild, GoneIsSettled, Exists
  <2> QED BY <2>1, <2>2 DEF DelegationNext
<1> QED BY <1>1, <1>2, PTL DEF DelegationSpec

-----------------------------------------------------------------------------
(* The theorems *)

\* The rows, the frames, the tasks and the operator's wishes keep their domains:
\* no loop takes more than LoopSteps steps (orchestrator.py:705-1256).
THEOREM DelegationTyped == DelegationSpec => []DelegationTypeOK
<1>1. TreeInv => DelegationTypeOK
  BY DEF TreeInv
<1> QED BY <1>1, TreeInvHolds, PTL

\* A run that is done has children that are out of their frames, whose tasks are
\* closed and whose rows have ended, but for a child of spawn_subagent that
\* raised: whatever else raises in the middle of a delegation takes the caller's
\* frame with it, so that the caller never gets to its end (orchestrator.py:
\* 1096-1190, tools.py:602-681).
THEOREM NothingIsLeft == DelegationSpec => []DoneLeavesNothing
<1>1. TreeInv => DoneLeavesNothing
  <2> SUFFICES ASSUME TreeInv, NEW r \in RunIds, tree[r].status = "done", NEW c \in ChildrenOf(r)
               PROVE  tree[c].at = "gone" /\ IsSettled(tree[c].status, tree[c].spawned, tasks[c])
    BY DEF DoneLeavesNothing, IsSettled
  <2>1. c \in RunIds /\ Exists(c) /\ tree[c].caller = r /\ r # 0
    BY CallerIsARun DEF ChildrenOf, TreeInv
  <2>2. tree[r].at \notin Working
    BY DEF TreeInv, StatusFollowsFrame
  <2>3. tree[c].at \notin Present
    BY <2>1, <2>2 DEF TreeInv, CallerWaits, Working
  <2>4. tree[c].at = "gone"
    BY <2>1, <2>3 DEF TreeInv, DelegationTypeOK, TreeRuns, StatusFollowsFrame, Present, OnStack,
                      Working, Exists
  <2> QED BY <2>1, <2>4 DEF TreeInv, GoneIsSettled
<1> QED BY <1>1, TreeInvHolds, PTL

\* A run that is gone is written by nobody.
LEMMA GoneStays ==
    ASSUME TreeInv, NEW r \in RunIds, LoopStep(r), NEW c \in RunIds, tree[c].at = "gone"
    PROVE  tree'[c] = tree[c]
<1>1. tree \in [RunIds -> TreeRuns]
  BY DEF TreeInv, DelegationTypeOK
<1>2. CASE \/ StopLoop(r) \/ CallModel(r) \/ FinalAnswer(r) \/ Refuse(r)
           \/ (\E bash \in BOOLEAN : RunTool(r, bash)) \/ (\E d \in RunIds : CreateTask(r, d))
  BY <1>1, <1>2 DEF StopLoop, CallModel, FinalAnswer, Refuse, RunTool, CreateTask, Stands, Set
<1>3. CASE \/ CancelLoop(r) \/ CancelModelCall(r) \/ FailModelCall(r) \/ SpawnFails(r)
           \/ EndAttempt(r) \/ EndSpawned(r) \/ CompleteLoop(r)
  BY <1>1, <1>3 DEF CancelLoop, CancelModelCall, FailModelCall, SpawnFails, MaySpawn, EndAttempt,
     EndSpawned, CompleteLoop, Stands, Leave
<1>4. ASSUME NEW d \in RunIds,
             \/ \E isLoop \in BOOLEAN : Spawn(r, d, isLoop)
             \/ SpawnTask(r, d) \/ SpawnDirect(r, d) \/ SpawnBreaks(r, d)
             \/ Accept(r, d) \/ SettleSpawned(r, d) \/ SpawnNothing(r, d)
      PROVE  tree'[c] = tree[c]
  <2>1. c # r /\ c # d
    BY <1>4 DEF Spawn, SpawnTask, SpawnDirect, SpawnBreaks, MaySpawn, Accept, SettleSpawned,
       SpawnNothing, Stands, Free
  <2> QED BY <1>1, <1>4, <2>1 DEF Spawn, SpawnTask, SpawnDirect, SpawnBreaks, Leave, Accept,
             SettleSpawned, SpawnNothing, ToolAnswers
<1>5. CASE Unwind(r)
  <2>1. c # r /\ c # tree[r].caller
    BY <1>5, CallerIsARun DEF Unwind, Stands, TreeInv, CallerWaits, Present, OnStack
  <2> QED BY <1>1, <1>5, <2>1 DEF Unwind, Set
<1> QED BY <1>2, <1>3, <1>4, <1>5 DEF LoopStep

\* A completed task stands for a child that is done and, unless the tool
\* spawn_subagent created it, whose acceptance tests passed.
THEOREM CompletedTasksWereAccepted == DelegationSpec => []CompletedWasAccepted
<1>1. DelegationInit => CompletedWasAccepted
  BY DEF DelegationInit, CompletedWasAccepted
<1>2. TreeInv /\ CompletedWasAccepted /\ [DelegationNext]_delegationVars => CompletedWasAccepted'
  <2> SUFFICES ASSUME TreeInv, CompletedWasAccepted, [DelegationNext]_delegationVars,
                      NEW c \in RunIds, tasks'[c] = "completed"
               PROVE  tree'[c].status = "done" /\ (tree'[c].spawned \/ c \in passedTests')
    BY DEF CompletedWasAccepted
  <2>1. /\ tree \in [RunIds -> TreeRuns] /\ tasks \in [RunIds -> TaskStates]
    BY DEF TreeInv, DelegationTypeOK
  <2>2. tasks[c] = "completed" => tree[c].at = "gone"
    BY <2>1 DEF TreeInv, TaskFollowsChild, TreeRuns, OnStack, Working, DelegationTypeOK
  <2>3. ASSUME NEW r \in RunIds, LoopStep(r)
        PROVE  tree'[c].status = "done" /\ (tree'[c].spawned \/ c \in passedTests')
    <3>1. CASE tasks[c] = "completed"
      <4>1. tree'[c] = tree[c]
        BY <2>2, <2>3, <3>1, GoneStays
      <4>2. passedTests \subseteq passedTests'
        BY <2>3 DEF LoopStep, StopLoop, CallModel, FinalAnswer, Refuse, RunTool, CreateTask,
           CancelLoop, CancelModelCall, FailModelCall, SpawnFails, EndAttempt, EndSpawned,
           CompleteLoop, Spawn, SpawnBreaks, SpawnTask, SpawnDirect, Accept, SettleSpawned, SpawnNothing,
           Unwind
      <4> QED BY <3>1, <4>1, <4>2 DEF CompletedWasAccepted
    <3>2. CASE tasks[c] # "completed"
      <4>1. PICK d \in RunIds : Accept(r, d) \/ SettleSpawned(r, d)
        BY <2>1, <2>3, <3>2 DEF LoopStep, StopLoop, CallModel, FinalAnswer, Refuse, RunTool,
           CreateTask, CancelLoop, CancelModelCall, FailModelCall, SpawnFails, EndAttempt,
           EndSpawned, CompleteLoop, Spawn, SpawnBreaks, SpawnTask, SpawnDirect, SpawnNothing, Unwind
      <4>2. d = c /\ r # c /\ tree[c].caller = r /\ tree[c].status = "done"
        BY <2>1, <3>2, <4>1 DEF Accept, SettleSpawned, Settled, Stands, ChildrenOf
      <4>3. tree'[c].status = "done" /\ tree'[c].spawned = tree[c].spawned
        <5>1. tree'[c] = [tree[c] EXCEPT !.at = "gone"]
          BY <2>1, <4>1, <4>2 DEF Accept, SettleSpawned, ToolAnswers
        <5> QED BY <2>1, <4>2, <5>1 DEF TreeRuns
      <4>4. CASE Accept(r, d)
        BY <2>1, <3>2, <4>2, <4>3, <4>4 DEF Accept
      <4>5. CASE SettleSpawned(r, d)
        <5>1. tree[c].spawned
          BY <4>2, <4>5, CallerIsARun DEF SettleSpawned, Stands, TreeInv, CallerWaits,
             StatusFollowsFrame, Present, OnStack
        <5> QED BY <4>3, <5>1
      <4> QED BY <4>1, <4>4, <4>5
    <3> QED BY <3>1, <3>2
  <2>4. CASE AskToCancel \/ PauseOrResume \/ UNCHANGED delegationVars
    BY <2>4 DEF AskToCancel, PauseOrResume, delegationVars, CompletedWasAccepted
  <2> QED BY <2>3, <2>4 DEF DelegationNext
<1> QED BY <1>1, <1>2, TreeInvHolds, PTL DEF DelegationSpec

\* A loop overruns each limit of its budget by one call at most: no way of the
\* loop begins a call without having looked at the budget since the last one.
THEOREM BudgetsHold == DelegationSpec => []BudgetOverrunByOne
<1>1. DelegationInit => BudgetHolds /\ BudgetOverrunByOne
  BY DelegationAssumption DEF DelegationInit, NoRun, NewRun, Run, BudgetHolds, BudgetOverrunByOne
<1>2. TreeInv /\ BudgetHolds /\ BudgetOverrunByOne /\ [DelegationNext]_delegationVars
      => BudgetHolds' /\ BudgetOverrunByOne'
  <2> SUFFICES ASSUME TreeInv, BudgetHolds, BudgetOverrunByOne,
                      [DelegationNext]_delegationVars
               PROVE  BudgetHolds' /\ BudgetOverrunByOne'
    OBVIOUS
  <2>1. /\ tree \in [RunIds -> TreeRuns]
        /\ \A r \in RunIds : tree[r].calls \in Nat /\ tree[r].bash \in Nat
    BY DEF TreeInv, DelegationTypeOK, TreeRuns
  <2>2. ASSUME NEW r \in RunIds, LoopStep(r), NEW q \in RunIds
        PROVE  /\ tree'[q].at \in {"call", "tool"} =>
                      tree'[q].calls <= MaxToolCalls /\ tree'[q].bash <= MaxBashCalls
               /\ tree'[q].calls <= MaxToolCalls + 1 /\ tree'[q].bash <= MaxBashCalls + 1
    <3>1. /\ tree[q] \in TreeRuns /\ tree[q].calls \in Nat /\ tree[q].bash \in Nat
          /\ MaxToolCalls \in Nat /\ MaxBashCalls \in Nat
          /\ tree[q].calls <= MaxToolCalls + 1 /\ tree[q].bash <= MaxBashCalls + 1
          /\ tree[q].at \in {"call", "tool"} =>
                 tree[q].calls <= MaxToolCalls /\ tree[q].bash <= MaxBashCalls
      BY <2>1, DelegationAssumption DEF BudgetHolds, BudgetOverrunByOne
    <3> USE <2>1, <3>1 DEF Stands, Set, TreeRuns
    <3>2. CASE tree'[q] = tree[q]
      BY <3>2
    <3>3. CASE StopLoop(r) \/ FinalAnswer(r) \/ Refuse(r)
      BY <3>3 DEF StopLoop, FinalAnswer, Refuse
    <3>4. CASE CallModel(r)
      BY <3>4 DEF CallModel, Through, OverBudget
    <3>5. ASSUME NEW bash \in BOOLEAN, RunTool(r, bash)
          PROVE  \/ tree'[q] = tree[q]
                 \/ /\ tree'[q].at = "step"
                    /\ tree'[q].calls <= MaxToolCalls + 1 /\ tree'[q].bash <= MaxBashCalls + 1
      BY <3>5 DEF RunTool
    <3>6. CASE \/ CancelLoop(r) \/ CancelModelCall(r) \/ FailModelCall(r) \/ SpawnFails(r)
               \/ EndAttempt(r) \/ EndSpawned(r) \/ CompleteLoop(r)
      <4>1. PICK s \in {"running"} \cup Ended, l \in {"raise", "returned"} : tree' = Leave(r, s, l)
        BY <3>6 DEF CancelLoop, CancelModelCall, FailModelCall, SpawnFails, EndAttempt,
           EndSpawned, CompleteLoop, Ended
      <4> QED BY <4>1 DEF Leave, Run
    <3>7. CASE Unwind(r)
      BY <3>7 DEF Unwind
    <3>8. ASSUME NEW c \in RunIds, CreateTask(r, c)
          PROVE  tree'[q] = tree[q] \/
                 (tree'[q].at = "spawn" /\ tree'[q].calls = tree[q].calls /\ tree'[q].bash = tree[q].bash)
      BY <3>8 DEF CreateTask
    <3>9. ASSUME NEW c \in RunIds,
                 Accept(r, c) \/ (\E isLoop \in BOOLEAN : Spawn(r, c, isLoop)) \/ SpawnDirect(r, c)
          PROVE  \/ tree'[q] = tree[q]
                 \/ /\ tree'[q].at \notin {"call", "tool"}
                    /\ tree'[q].calls \in {0, tree[q].calls} /\ tree'[q].bash \in {0, tree[q].bash}
      BY <3>9 DEF Accept, Spawn, SpawnDirect, NewRun, NewSpawned, Run, Free
    <3>10. ASSUME NEW c \in RunIds, SpawnTask(r, c)
          PROVE  \/ tree'[q] = tree[q]
                 \/ /\ tree'[q].calls = tree[q].calls /\ tree'[q].bash = tree[q].bash
                    /\ tree'[q].at # "due" => tree[q].at = "call"
      BY <3>10 DEF SpawnTask, Free
    <3>11. ASSUME NEW c \in RunIds, SettleSpawned(r, c) \/ SpawnNothing(r, c)
          PROVE  \/ tree'[q] = tree[q]
                 \/ /\ tree'[q].at \in {"step", "gone"}
                    /\ tree'[q].calls <= MaxToolCalls + 1 /\ tree'[q].bash = tree[q].bash
      BY <3>11 DEF SettleSpawned, SpawnNothing, ToolAnswers
    <3>12. ASSUME NEW c \in RunIds, SpawnBreaks(r, c)
          PROVE  \/ tree'[q] = tree[q]
                 \/ tree'[q].at \in {"raise", "gone"} /\ tree'[q].calls = 0 /\ tree'[q].bash = 0
      BY <3>12 DEF SpawnBreaks, Leave, Run
    <3> QED BY <2>2, <3>2, <3>3, <3>4, <3>5, <3>6, <3>7, <3>8, <3>9, <3>10, <3>11, <3>12
            DEF LoopStep
  <2>3. CASE AskToCancel \/ PauseOrResume \/ UNCHANGED delegationVars
    BY <2>3 DEF AskToCancel, PauseOrResume, delegationVars, BudgetHolds, BudgetOverrunByOne
  <2> QED BY <2>2, <2>3 DEF DelegationNext, BudgetHolds, BudgetOverrunByOne
<1> QED BY <1>1, <1>2, TreeInvHolds, PTL DEF DelegationSpec
=============================================================================
