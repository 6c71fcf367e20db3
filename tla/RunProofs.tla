------------------------------ MODULE RunProofs ------------------------------
(***************************************************************************)
(* What TLAPS proves of RunRecovery and Strategies, and of their sum with  *)
(* Delegation in MCRunKinds.                                               *)
(*                                                                         *)
(* RunRecovery: the runs meet in the cooldowns alone, which restrict the   *)
(* choice of a backend and nothing else.  Every fact is therefore about    *)
(* the locals x of one thread and the row y of its run (Sound), and a step *)
(* of a run keeps those of all others.  The bound on the attempts follows  *)
(* from what a run leaves behind: each rerouting adds a backend to         *)
(* skipped, and a recovery needs one of the first two attempts, because no *)
(* recipe has a retrying step beyond its second.                           *)
(***************************************************************************)
EXTENDS MCRunKinds, DelegationProofs, FiniteSetTheorems, SequenceTheorems,
        WellFoundedInduction, TLAPS

Choosing == {"read", "pop", "pick"}

\* The row counts the attempts before the one that is made.
RowCountsAttempts(x, y) ==
    y.recoveries = IF x.attempt = 0 THEN 0 ELSE x.attempt - 1

\* What a label says of the attempt, its backend and the purpose of a choice.
LabelFitsAttempt(x) ==
    /\ x.at \in {"new", "create"} => x.attempt = 0
    /\ x.at \in {"call", "failed"} => x.attempt > 0
    /\ x.attempt = 0 => x.purpose = "start"
    /\ x.at \in Choosing /\ x.attempt > 0 => x.purpose # "start"
    /\ x.at \in Choosing /\ x.purpose = "recover" => x.attempt <= 2 /\ x.reflect
    /\ x.attempt > 0 /\ x.at # "ended" => x.backend \in Backends
    /\ x.at = "create" => x.backend \in Backends
    /\ x.at = "ended" <=> x.ended # "no"

\* A thread under way has a running row once it created one, and none before.
RowFitsLabel(x, y) ==
    /\ x.attempt = 0 /\ x.ended = "no" => y.status = "absent"
    /\ x.attempt > 0 /\ x.ended = "no" => y.status = "running"

\* Attempts are paid for by skipped backends, but for the three of a recipe.
AttemptsArePaidFor(x) ==
    /\ x.attempt > 0 /\ x.at # "ended"
        => x.attempt <= Cardinality(x.skipped) + (IF x.backend \in x.skipped THEN 2 ELSE 3)
    /\ x.attempt <= Cardinality(Backends) + 2

\* What the row says when the thread with locals x ends the way how.
MayEnd(how, x, y) ==
    /\ how = "returned" => y.status \in RunEnds
    /\ how = "raised" /\ x.attempt > 0 =>
           y.status \in RunEnds \/ (y.status = "running" /\ (x.auto \/ x.reflect))
    /\ how = "raised" /\ x.attempt = 0 => y.status \in {"absent", "running"}

EndFitsRow(x, y) == MayEnd(x.ended, x, y)

Sound(x, y) ==
    /\ RowCountsAttempts(x, y)
    /\ LabelFitsAttempt(x)
    /\ RowFitsLabel(x, y)
    /\ AttemptsArePaidFor(x)
    /\ EndFitsRow(x, y)

RunsSound == \A r \in Runs : Sound(loop[r], row[r])

-----------------------------------------------------------------------------
(* Skipped backends and recipes *)

LEMMA SkippedCounted ==
    ASSUME NEW S \in SUBSET Backends
    PROVE  /\ Cardinality(S) \in Nat /\ Cardinality(Backends) \in Nat
           /\ Cardinality(S) <= Cardinality(Backends)
           /\ \A b \in Backends \ S :
                 /\ Cardinality(S \cup {b}) = Cardinality(S) + 1
                 /\ Cardinality(S) < Cardinality(Backends)
           /\ \A b \in S : Cardinality(S) >= 1 /\ S \cup {b} = S
<1>1. IsFiniteSet(Backends)
  BY RecoveryAssumption
<1>2. IsFiniteSet(S) /\ Cardinality(S) <= Cardinality(Backends)
  BY <1>1, FS_Subset
<1>3. Cardinality(S) \in Nat /\ Cardinality(Backends) \in Nat
  BY <1>1, <1>2, FS_CardinalityType
<1>4. ASSUME NEW b \in Backends \ S
      PROVE  Cardinality(S \cup {b}) = Cardinality(S) + 1 /\ Cardinality(S) < Cardinality(Backends)
  <2>1. Cardinality(S \cup {b}) = Cardinality(S) + 1
    BY <1>2, FS_AddElement
  <2>2. Cardinality(S \cup {b}) <= Cardinality(Backends)
    BY <1>1, FS_Subset
  <2>. QED
    BY <2>1, <2>2, <1>3
<1>5. ASSUME NEW b \in S
      PROVE  Cardinality(S) >= 1 /\ S \cup {b} = S
  <2>1. Cardinality(S) # 0
    BY <1>2, FS_EmptySet
  <2>. QED
    BY <2>1, <1>3
<1>. QED
  BY <1>2, <1>3, <1>4, <1>5

\* No recipe has a retrying step beyond its second.
LEMMA RetriesComeEarly ==
    ASSUME NEW category \in Categories, NEW index \in Nat,
           StepForFailure(category, index) \in Retries
    PROVE  index <= 1
<1>1. category \in DOMAIN Recipes
  BY RecoveryAssumption
<1>. QED
  BY <1>1 DEF StepForFailure, Recipes, Retries

-----------------------------------------------------------------------------
(* One thread takes a step *)

LEMMA ThreadMoves ==
    ASSUME RecoveryTypeOK, RunsSound, NEW r \in Runs,
           NEW x \in Locals, NEW y \in Rows, Sound(x, y),
           loop' = [loop EXCEPT ![r] = x], row' = [row EXCEPT ![r] = y],
           cooldown' \in [Backends -> {"absent", "cooling", "over"}]
    PROVE  RecoveryTypeOK' /\ RunsSound'
<1>1. RecoveryTypeOK'
  BY DEF RecoveryTypeOK
<1>2. \A q \in Runs : loop'[q] = (IF q = r THEN x ELSE loop[q])
                      /\ row'[q] = (IF q = r THEN y ELSE row[q])
  BY DEF RecoveryTypeOK
<1>3. \A q \in Runs : Sound(loop'[q], row'[q])
  BY <1>2 DEF RunsSound
<1>. QED
  BY <1>1, <1>3 DEF RunsSound

LEMMA ThreadAndRow ==
    ASSUME RecoveryTypeOK, RunsSound, NEW r \in Runs
    PROVE  /\ loop[r] \in Locals /\ row[r] \in Rows /\ Sound(loop[r], row[r])
           /\ row = [row EXCEPT ![r] = row[r]]
BY DEF RecoveryTypeOK, RunsSound

LEMMA ThreadEnds ==
    ASSUME RecoveryTypeOK, RunsSound, NEW r \in Runs, loop[r].at # "ended",
           NEW how \in {"returned", "raised"}, End(r, how),
           NEW y \in Rows, row' = [row EXCEPT ![r] = y], cooldown' = cooldown,
           RowCountsAttempts(loop[r], y),
           MayEnd(how, loop[r], y)
    PROVE  RecoveryTypeOK' /\ RunsSound'
<1> DEFINE x == [Fresh EXCEPT !.at = "ended", !.ended = how, !.attempt = loop[r].attempt,
                              !.auto = loop[r].auto, !.reflect = loop[r].reflect]
<1>1. loop[r] \in Locals /\ row[r] \in Rows /\ Sound(loop[r], row[r])
  BY ThreadAndRow
<1>2. Fresh \in Locals /\ Fresh.purpose = "start"
  BY DEF Fresh, Locals, Purposes
<1>3. /\ x \in Locals
      /\ x.at = "ended" /\ x.ended = how /\ x.attempt = loop[r].attempt /\ x.purpose = "start"
      /\ x.auto = loop[r].auto /\ x.reflect = loop[r].reflect
  BY <1>1, <1>2 DEF Locals
<1>4. loop' = [loop EXCEPT ![r] = x]
  BY DEF End
<1>. HIDE DEF x
<1>5. RowCountsAttempts(x, y) /\ LabelFitsAttempt(x) /\ AttemptsArePaidFor(x)
  BY <1>1, <1>3 DEF Sound, RowCountsAttempts, LabelFitsAttempt, AttemptsArePaidFor, Choosing
<1>6. loop[r].ended = "no"
  BY <1>1 DEF Sound, LabelFitsAttempt
<1>7. RowFitsLabel(x, y) /\ EndFitsRow(x, y)
  BY <1>1, <1>3, <1>6 DEF Sound, RowFitsLabel, EndFitsRow, MayEnd, Locals
<1>8. Sound(x, y)
  BY <1>5, <1>7 DEF Sound
<1>9. cooldown' \in [Backends -> {"absent", "cooling", "over"}]
  BY DEF RecoveryTypeOK
<1>. QED
  BY <1>3, <1>4, <1>8, <1>9, ThreadMoves

\* A thread moves and leaves its row alone.
LEMMA ThreadMovesAlone ==
    ASSUME RecoveryTypeOK, RunsSound, NEW r \in Runs,
           NEW x \in Locals, Sound(x, row[r]),
           loop' = [loop EXCEPT ![r] = x], UNCHANGED row,
           cooldown' \in [Backends -> {"absent", "cooling", "over"}]
    PROVE  RecoveryTypeOK' /\ RunsSound'
<1>1. row[r] \in Rows /\ row' = [row EXCEPT ![r] = row[r]]
  BY ThreadAndRow
<1>. QED
  BY <1>1, ThreadMoves

-----------------------------------------------------------------------------
(* The actions *)

LEMMA ChoiceKeepsRuns ==
    ASSUME RecoveryTypeOK, RunsSound, NEW r \in Runs,
           Submit(r) \/ ReadCooldowns(r) \/ PopExpired(r) \/ PickFirst(r)
    PROVE  RecoveryTypeOK' /\ RunsSound'
<1>1. loop[r] \in Locals /\ row[r] \in Rows /\ Sound(loop[r], row[r])
  BY ThreadAndRow
<1> USE DEF Sound, RowCountsAttempts, LabelFitsAttempt, RowFitsLabel, AttemptsArePaidFor,
            EndFitsRow, MayEnd, Choosing, At, Locals, Purposes
<1>2. CASE Submit(r)
  <2>1. cooldown' \in [Backends -> {"absent", "cooling", "over"}] /\ UNCHANGED row
    BY <1>2 DEF Submit, RecoveryTypeOK
  <2>2. PICK reflect \in {FALSE, (r \in Reflecting)} :
          \/ loop' = [loop EXCEPT ![r].at = "read", ![r].auto = TRUE, ![r].reflect = reflect]
          \/ \E b \in Backends :
                loop' = [loop EXCEPT ![r].at = "create", ![r].backend = b,
                                     ![r].reflect = reflect]
    BY <1>2 DEF Submit
  <2>5. reflect \in BOOLEAN
    <3>1. (r \in Reflecting) = TRUE \/ (r \in Reflecting) = FALSE
      OBVIOUS
    <3>2. reflect = FALSE \/ reflect = (r \in Reflecting)
      BY Zenon
    <3>3. reflect = FALSE \/ reflect = TRUE
      BY <3>1, <3>2, Zenon
    <3>. QED
      BY <3>3, Zenon
  <2>3. CASE loop' = [loop EXCEPT ![r].at = "read", ![r].auto = TRUE, ![r].reflect = reflect]
    <3> DEFINE x == [loop[r] EXCEPT !.at = "read", !.auto = TRUE, !.reflect = reflect]
    <3>1. x \in Locals /\ Sound(x, row[r])
      BY <1>1, <1>2, <2>5 DEF Submit
    <3>2. loop' = [loop EXCEPT ![r] = x]
      BY <1>1, <2>3 DEF RecoveryTypeOK
    <3>. HIDE DEF x
    <3>. QED
      BY <2>1, <3>1, <3>2, ThreadMovesAlone
  <2>4. ASSUME NEW b \in Backends,
               loop' = [loop EXCEPT ![r].at = "create", ![r].backend = b, ![r].reflect = reflect]
        PROVE  RecoveryTypeOK' /\ RunsSound'
    <3> DEFINE x == [loop[r] EXCEPT !.at = "create", !.backend = b, !.reflect = reflect]
    <3>1. x \in Locals /\ Sound(x, row[r])
      BY <1>1, <1>2, <2>5 DEF Submit
    <3>2. loop' = [loop EXCEPT ![r] = x]
      BY <1>1, <2>4 DEF RecoveryTypeOK
    <3>. HIDE DEF x
    <3>. QED
      BY <2>1, <3>1, <3>2, ThreadMovesAlone
  <2>. QED
    BY <2>2, <2>3, <2>4
<1>3. CASE ReadCooldowns(r)
  <2> DEFINE x == [loop[r] EXCEPT !.at = "pop",
                      !.over = {b \in Backends : cooldown[b] = "over"},
                      !.seen = {b \in Backends : cooldown[b] # "cooling"}]
  <2>1. x \in Locals /\ Sound(x, row[r])
    BY <1>1, <1>3 DEF ReadCooldowns
  <2>2. loop' = [loop EXCEPT ![r] = x]
    BY <1>1, <1>3 DEF ReadCooldowns, RecoveryTypeOK
  <2>3. cooldown' \in [Backends -> {"absent", "cooling", "over"}] /\ UNCHANGED row
    BY <1>3 DEF ReadCooldowns, RecoveryTypeOK
  <2>. HIDE DEF x
  <2>. QED
    BY <2>1, <2>2, <2>3, ThreadMovesAlone
<1>4. CASE PopExpired(r)
  <2>1. PICK healthy \in SUBSET (loop[r].seen \ Local) :
          loop' = [loop EXCEPT ![r].at = "pick", ![r].over = {},
                               ![r].seen = (loop[r].seen \cap Local) \cup healthy]
    BY <1>4 DEF PopExpired
  <2> DEFINE x == [loop[r] EXCEPT !.at = "pick", !.over = {},
                                  !.seen = (loop[r].seen \cap Local) \cup healthy]
  <2>2. x \in Locals /\ Sound(x, row[r])
    BY <1>1, <1>4 DEF PopExpired
  <2>3. loop' = [loop EXCEPT ![r] = x]
    BY <1>1, <2>1 DEF RecoveryTypeOK
  <2>4. cooldown' \in [Backends -> {"absent", "cooling", "over"}] /\ UNCHANGED row
    BY <1>4 DEF PopExpired, RecoveryTypeOK
  <2>. HIDE DEF x
  <2>. QED
    BY <2>2, <2>3, <2>4, ThreadMovesAlone
<1>5. CASE PickFirst(r)
  <2>1. cooldown' \in [Backends -> {"absent", "cooling", "over"}] /\ UNCHANGED row
    BY <1>5 DEF PickFirst, RecoveryTypeOK
  <2>2. loop[r].attempt = 0
    <3>1. loop[r].at = "pick" /\ loop[r].purpose = "start"
      BY <1>5 DEF PickFirst
    <3>. QED
      BY <1>1, <3>1
  <2>3. ASSUME NEW b \in Candidates(r),
               loop' = [loop EXCEPT ![r].at = "create", ![r].backend = b, ![r].seen = {}]
        PROVE  RecoveryTypeOK' /\ RunsSound'
    <3> DEFINE x == [loop[r] EXCEPT !.at = "create", !.backend = b, !.seen = {}]
    <3>1. b \in Backends
      BY <1>1, <1>5 DEF PickFirst, Candidates
    <3>2. x \in Locals /\ Sound(x, row[r])
      BY <1>1, <1>5, <2>2, <3>1 DEF PickFirst
    <3>3. loop' = [loop EXCEPT ![r] = x]
      BY <1>1, <2>3 DEF RecoveryTypeOK
    <3>. HIDE DEF x
    <3>. QED
      BY <2>1, <3>2, <3>3, ThreadMovesAlone
  <2>4. ASSUME End(r, "raised")
        PROVE  RecoveryTypeOK' /\ RunsSound'
    <3>1. row' = [row EXCEPT ![r] = row[r]] /\ cooldown' = cooldown
      BY <1>5, ThreadAndRow DEF PickFirst
    <3>2. loop[r].at # "ended" /\ RowCountsAttempts(loop[r], row[r]) /\ row[r].status = "absent"
      BY <1>1, <1>5, <2>2 DEF PickFirst
    <3>3. MayEnd("raised", loop[r], row[r])
      BY <2>2, <3>2 DEF MayEnd
    <3>. QED
      BY <1>1, <2>4, <3>1, <3>2, <3>3, ThreadEnds
  <2>. QED
    BY <1>5, <2>3, <2>4 DEF PickFirst
<1>. QED
  BY <1>2, <1>3, <1>4, <1>5

\* What the attempt of a run under way says of its backend and its row.
LEMMA UnderWay ==
    ASSUME RecoveryTypeOK, RunsSound, NEW r \in Runs, loop[r].attempt > 0, loop[r].at # "ended"
    PROVE  /\ loop[r].backend \in Backends /\ loop[r].attempt \in Nat
           /\ loop[r].skipped \in SUBSET Backends
           /\ loop[r].ended = "no" /\ row[r].status = "running"
           /\ row[r].recoveries = loop[r].attempt - 1
           /\ loop[r].attempt <= Cardinality(loop[r].skipped)
                 + (IF loop[r].backend \in loop[r].skipped THEN 2 ELSE 3)
<1>1. loop[r] \in Locals /\ Sound(loop[r], row[r])
  BY ThreadAndRow
<1>2. loop[r].attempt \in Nat /\ loop[r].skipped \in SUBSET Backends
  BY <1>1 DEF Locals
<1>3. loop[r].backend \in Backends /\ loop[r].ended = "no"
  BY <1>1 DEF Sound, LabelFitsAttempt
<1>4. row[r].status = "running"
  BY <1>1, <1>3 DEF Sound, RowFitsLabel
<1>5. row[r].recoveries = loop[r].attempt - 1
  BY <1>1, <1>2 DEF Sound, RowCountsAttempts
<1>. QED
  BY <1>1, <1>2, <1>3, <1>4, <1>5 DEF Sound, AttemptsArePaidFor

LEMMA CreateKeepsRuns ==
    ASSUME RecoveryTypeOK, RunsSound, NEW r \in Runs, CreateRow(r)
    PROVE  RecoveryTypeOK' /\ RunsSound'
<1>1. loop[r] \in Locals /\ row[r] \in Rows /\ Sound(loop[r], row[r])
  BY ThreadAndRow
<1>2. loop[r].at = "create" /\ loop[r].attempt = 0 /\ row[r].recoveries = 0
  BY <1>1 DEF CreateRow, At, Sound, LabelFitsAttempt, RowCountsAttempts
<1>3. CASE Mark(r, "running") /\ loop' = [loop EXCEPT ![r].at = "call", ![r].attempt = 1]
  <2> DEFINE x == [loop[r] EXCEPT !.at = "call", !.attempt = 1]
             y == [row[r] EXCEPT !.status = "running"]
  <2>1. x \in Locals /\ y \in Rows
    BY <1>1 DEF Locals, Rows
  <2>2. /\ x.at = "call" /\ x.attempt = 1 /\ x.backend = loop[r].backend
        /\ x.skipped = loop[r].skipped /\ x.purpose = loop[r].purpose /\ x.ended = loop[r].ended
        /\ y.status = "running" /\ y.recoveries = 0
    BY <1>1, <1>2 DEF Locals, Rows
  <2>3. loop' = [loop EXCEPT ![r] = x] /\ row' = [row EXCEPT ![r] = y]
    BY <1>1, <1>3 DEF Mark, RecoveryTypeOK, Locals, Rows
  <2>. HIDE DEF x, y
  <2>4. loop[r].skipped \in SUBSET Backends
    BY <1>1 DEF Locals
  <2>5. /\ Cardinality(loop[r].skipped) \in Nat /\ Cardinality(Backends) \in Nat
        /\ loop[r].backend \in loop[r].skipped => Cardinality(loop[r].skipped) >= 1
    BY <2>4, SkippedCounted
  <2>6. loop[r].backend \in Backends /\ loop[r].ended = "no"
    BY <1>1, <1>2 DEF Sound, LabelFitsAttempt
  <2>7. Sound(x, y)
    BY <2>2, <2>5, <2>6 DEF Sound, RowCountsAttempts, LabelFitsAttempt, RowFitsLabel,
                            AttemptsArePaidFor, EndFitsRow, MayEnd, Choosing
  <2>8. cooldown' \in [Backends -> {"absent", "cooling", "over"}]
    BY DEF CreateRow, RecoveryTypeOK
  <2>. QED
    BY <2>1, <2>3, <2>7, <2>8, ThreadMoves
<1>4. CASE Mark(r, "failed") /\ End(r, "returned")
  <2> DEFINE y == [row[r] EXCEPT !.status = "failed"]
  <2>1. y \in Rows /\ y.status = "failed" /\ y.recoveries = row[r].recoveries
    BY <1>1 DEF Rows, RunEnds
  <2>2. row' = [row EXCEPT ![r] = y]
    BY <1>1, <1>4 DEF Mark, RecoveryTypeOK, Rows
  <2>. HIDE DEF y
  <2>3. RowCountsAttempts(loop[r], y) /\ MayEnd("returned", loop[r], y)
    BY <1>1, <2>1 DEF Sound, RowCountsAttempts, RunEnds, MayEnd
  <2>. QED
    BY <1>2, <1>4, <2>1, <2>2, <2>3, ThreadEnds DEF CreateRow
<1>5. CASE UNCHANGED row /\ End(r, "raised")
  <2>1. row' = [row EXCEPT ![r] = row[r]] /\ cooldown' = cooldown
    BY <1>5, ThreadAndRow DEF CreateRow
  <2>2. RowCountsAttempts(loop[r], row[r]) /\ row[r].status = "absent"
    BY <1>1, <1>2 DEF Sound, LabelFitsAttempt, RowFitsLabel
  <2>3. MayEnd("raised", loop[r], row[r])
    BY <1>2, <2>2 DEF MayEnd
  <2>. QED
    BY <1>1, <1>2, <1>5, <2>1, <2>2, <2>3, ThreadEnds
<1>6. CASE Mark(r, "running") /\ End(r, "raised")
  <2> DEFINE y == [row[r] EXCEPT !.status = "running"]
  <2>1. y \in Rows /\ y.status = "running" /\ y.recoveries = row[r].recoveries
    BY <1>1 DEF Rows
  <2>2. row' = [row EXCEPT ![r] = y] /\ cooldown' = cooldown
    BY <1>1, <1>6 DEF CreateRow, Mark, RecoveryTypeOK, Rows
  <2>. HIDE DEF y
  <2>3. RowCountsAttempts(loop[r], y)
    BY <1>1, <2>1 DEF Sound, RowCountsAttempts
  <2>4. MayEnd("raised", loop[r], y)
    BY <1>2, <2>1 DEF MayEnd
  <2>. QED
    BY <1>2, <1>6, <2>1, <2>2, <2>3, <2>4, ThreadEnds
<1>. QED
  BY <1>3, <1>4, <1>5, <1>6 DEF CreateRow

LEMMA CallKeepsRuns ==
    ASSUME RecoveryTypeOK, RunsSound, NEW r \in Runs,
           Answer(r) \/ CancelAttempt(r) \/ OtherError(r) \/ RunOutOfQuota(r)
    PROVE  RecoveryTypeOK' /\ RunsSound'
<1>1. loop[r] \in Locals /\ row[r] \in Rows /\ Sound(loop[r], row[r])
  BY ThreadAndRow
<1>2. loop[r].at = "call" /\ loop[r].attempt > 0
  BY <1>1 DEF Answer, CancelAttempt, OtherError, RunOutOfQuota, At, Sound, LabelFitsAttempt
<1>3. ASSUME NEW s \in RunEnds, NEW how \in {"returned", "raised"},
             Mark(r, s), End(r, how), UNCHANGED cooldown
      PROVE  RecoveryTypeOK' /\ RunsSound'
  <2> DEFINE y == [row[r] EXCEPT !.status = s]
  <2>1. y \in Rows /\ y.status = s /\ y.recoveries = row[r].recoveries
    BY <1>1 DEF Rows
  <2>2. row' = [row EXCEPT ![r] = y]
    BY <1>1, <1>3 DEF Mark, RecoveryTypeOK, Rows
  <2>. HIDE DEF y
  <2>3. RowCountsAttempts(loop[r], y)
    BY <1>1, <2>1 DEF Sound, RowCountsAttempts
  <2>4. MayEnd(how, loop[r], y) /\ loop[r].at # "ended"
    BY <1>2, <2>1 DEF MayEnd
  <2>5. cooldown' = cooldown
    BY <1>3
  <2>. QED
    BY <1>3, <2>1, <2>2, <2>3, <2>4, <2>5, ThreadEnds
<1>4. CASE Answer(r) \/ CancelAttempt(r)
  BY <1>3, <1>4 DEF Answer, CancelAttempt, EndWithSnapshot, RunEnds
<1>5. CASE OtherError(r)
  <2> DEFINE x == [loop[r] EXCEPT !.at = "failed"]
  <2>1. x \in Locals /\ Sound(x, row[r])
    BY <1>1, <1>2 DEF Locals, Sound, RowCountsAttempts, LabelFitsAttempt, RowFitsLabel,
                      AttemptsArePaidFor, EndFitsRow, MayEnd, Choosing
  <2>2. loop' = [loop EXCEPT ![r] = x]
    BY <1>1, <1>5 DEF OtherError, Goto, RecoveryTypeOK, Locals
  <2>3. cooldown' \in [Backends -> {"absent", "cooling", "over"}] /\ UNCHANGED row
    BY <1>5 DEF OtherError, RecoveryTypeOK
  <2>. HIDE DEF x
  <2>. QED
    BY <2>1, <2>2, <2>3, ThreadMovesAlone
<1>6. CASE /\ RunOutOfQuota(r)
           /\ loop' = [loop EXCEPT ![r].at = "read", ![r].purpose = "reroute"]
           /\ cooldown' = [cooldown EXCEPT ![loop[r].backend] = "cooling"]
  <2> DEFINE x == [loop[r] EXCEPT !.at = "read", !.purpose = "reroute"]
  <2>1. x \in Locals /\ Sound(x, row[r])
    BY <1>1, <1>2 DEF Locals, Purposes, Sound, RowCountsAttempts, LabelFitsAttempt, RowFitsLabel,
                      AttemptsArePaidFor, EndFitsRow, MayEnd, Choosing
  <2>2. loop' = [loop EXCEPT ![r] = x]
    BY <1>1, <1>6 DEF RunOutOfQuota, RecoveryTypeOK, Locals
  <2>3. cooldown' \in [Backends -> {"absent", "cooling", "over"}] /\ UNCHANGED row
    BY <1>6 DEF RunOutOfQuota, RecoveryTypeOK
  <2>. HIDE DEF x
  <2>. QED
    BY <2>1, <2>2, <2>3, ThreadMovesAlone
<1>7. CASE RunOutOfQuota(r) /\ UNCHANGED cooldown /\ End(r, "raised")
  <2>1. row' = [row EXCEPT ![r] = row[r]] /\ loop[r].auto
    BY <1>7, ThreadAndRow DEF RunOutOfQuota
  <2>2. row[r].status = "running"
    BY <1>2, UnderWay
  <2>3. RowCountsAttempts(loop[r], row[r])
    BY <1>1 DEF Sound
  <2>4. MayEnd("raised", loop[r], row[r])
    BY <1>2, <2>1, <2>2 DEF MayEnd
  <2>. QED
    BY <1>1, <1>2, <1>7, <2>1, <2>3, <2>4, ThreadEnds
<1>. QED
  BY <1>4, <1>5, <1>6, <1>7 DEF RunOutOfQuota

LEMMA RetryKeepsRuns ==
    ASSUME RecoveryTypeOK, RunsSound, NEW r \in Runs, loop[r].at \in {"pick", "failed"},
           loop[r].attempt > 0, loop[r].attempt <= 2,
           NEW b \in Backends, RetryOn(r, b), UNCHANGED cooldown
    PROVE  RecoveryTypeOK' /\ RunsSound'
<1>1. loop[r] \in Locals /\ row[r] \in Rows /\ Sound(loop[r], row[r])
  BY ThreadAndRow
<1>2. /\ loop[r].skipped \in SUBSET Backends /\ loop[r].attempt \in Nat
      /\ loop[r].ended = "no" /\ row[r].status = "running"
  BY UnderWay
<1> DEFINE n == loop[r].attempt + 1
           x == [loop[r] EXCEPT !.at = "call", !.backend = b, !.seen = {}, !.attempt = n]
           y == [row[r] EXCEPT !.recoveries = loop[r].attempt]
<1>3. n \in Nat /\ n > 1 /\ n <= 3 /\ n - 1 = loop[r].attempt
  BY <1>2
<1>4. row' = [row EXCEPT ![r] = y] /\ loop' = [loop EXCEPT ![r] = x]
  BY <1>1 DEF RetryOn, RecoveryTypeOK, Rows, Locals
<1>. HIDE DEF n
<1>5. x \in Locals /\ y \in Rows
  BY <1>1, <1>2, <1>3 DEF Locals, Rows
<1>6. /\ x.at = "call" /\ x.attempt = n /\ x.backend = b /\ x.skipped = loop[r].skipped
      /\ x.ended = "no" /\ y.recoveries = n - 1 /\ y.status = "running"
  BY <1>1, <1>2, <1>3 DEF Locals, Rows
<1>. HIDE DEF x, y
<1>7. /\ Cardinality(x.skipped) \in Nat /\ Cardinality(Backends) \in Nat
      /\ b \in x.skipped => Cardinality(x.skipped) >= 1
      /\ Cardinality(Backends) >= 1
  BY <1>2, <1>6, SkippedCounted
<1>8. AttemptsArePaidFor(x)
  BY <1>3, <1>6, <1>7 DEF AttemptsArePaidFor
<1>9. Sound(x, y)
  BY <1>3, <1>6, <1>8 DEF Sound, RowCountsAttempts, LabelFitsAttempt, RowFitsLabel, EndFitsRow,
                          MayEnd, Choosing
<1>10. cooldown' \in [Backends -> {"absent", "cooling", "over"}]
  BY DEF RecoveryTypeOK
<1>. QED
  BY <1>4, <1>5, <1>9, <1>10, ThreadMoves

LEMMA GiveUpKeepsRuns ==
    ASSUME RecoveryTypeOK, RunsSound, NEW r \in Runs, loop[r].at \in {"pick", "failed"},
           loop[r].attempt > 0, GiveUp(r), UNCHANGED cooldown
    PROVE  RecoveryTypeOK' /\ RunsSound'
<1>1. loop[r].attempt \in Nat
  BY UnderWay
<1> DEFINE y == [status |-> "failed", recoveries |-> loop[r].attempt - 1]
<1>2. y \in Rows /\ y.status = "failed" /\ RowCountsAttempts(loop[r], y)
  BY <1>1 DEF Rows, RunEnds, RowCountsAttempts
<1>3. row' = [row EXCEPT ![r] = y] /\ End(r, "raised")
  BY DEF GiveUp
<1>. HIDE DEF y
<1>4. loop[r].at # "ended" /\ cooldown' = cooldown
  BY <1>1
<1>5. MayEnd("raised", loop[r], y)
  BY <1>2 DEF MayEnd, RunEnds
<1>. QED
  BY <1>2, <1>3, <1>4, <1>5, ThreadEnds

LEMMA RerouteKeepsRuns ==
    ASSUME RecoveryTypeOK, RunsSound, NEW r \in Runs, Reroute(r) \/ StayAndRecover(r)
    PROVE  RecoveryTypeOK' /\ RunsSound'
<1>1. loop[r] \in Locals /\ row[r] \in Rows /\ Sound(loop[r], row[r])
  BY ThreadAndRow
<1>2. loop[r].at = "pick" /\ loop[r].purpose = "reroute" /\ loop[r].attempt > 0
  <2>1. loop[r].at = "pick" /\ loop[r].purpose = "reroute"
    BY DEF Reroute, StayAndRecover, At
  <2>. QED
    BY <1>1, <2>1 DEF Sound, LabelFitsAttempt, Locals
<1>3. cooldown' \in [Backends -> {"absent", "cooling", "over"}]
  BY DEF Reroute, StayAndRecover, RecoveryTypeOK
<1>4. /\ loop[r].backend \in Backends /\ loop[r].attempt \in Nat
      /\ loop[r].skipped \in SUBSET Backends
      /\ loop[r].ended = "no" /\ row[r].status = "running"
      /\ loop[r].attempt <= Cardinality(loop[r].skipped)
            + (IF loop[r].backend \in loop[r].skipped THEN 2 ELSE 3)
  BY <1>2, UnderWay
<1>5. CASE Reroute(r)
  <2>1. PICK b \in Candidates(r) :
          loop' = [loop EXCEPT ![r].at = "call", ![r].backend = b, ![r].seen = {},
                      ![r].skipped = @ \cup {loop[r].backend},
                      ![r].attempt = @ + 1]
    BY <1>5 DEF Reroute
  <2> DEFINE n == loop[r].attempt + 1
             S == loop[r].skipped \cup {loop[r].backend}
             x == [loop[r] EXCEPT !.at = "call", !.backend = b, !.seen = {}, !.skipped = S,
                                  !.attempt = n]
             y == [row[r] EXCEPT !.recoveries = loop[r].attempt]
  <2>2. b \in Backends /\ b \notin S
    BY <1>1, <1>2 DEF Candidates, Locals
  <2>3. n \in Nat /\ n - 1 = loop[r].attempt /\ S \in SUBSET Backends
    BY <1>4
  <2>4. n <= Cardinality(S) + 3
    <3>1. CASE loop[r].backend \in loop[r].skipped
      <4>1. S = loop[r].skipped /\ Cardinality(loop[r].skipped) \in Nat
        BY <3>1, <1>4, SkippedCounted
      <4>2. loop[r].attempt <= Cardinality(loop[r].skipped) + 2
        BY <3>1, <1>4
      <4>. HIDE DEF S
      <4>. QED
        BY <4>1, <4>2, <1>4
    <3>2. CASE loop[r].backend \notin loop[r].skipped
      <4>1. Cardinality(S) = Cardinality(loop[r].skipped) + 1 /\ Cardinality(loop[r].skipped) \in Nat
        BY <3>2, <1>4, SkippedCounted
      <4>. QED
        BY <4>1, <3>2, <1>4
    <3>. QED
      BY <3>1, <3>2
  <2>5. row' = [row EXCEPT ![r] = y] /\ loop' = [loop EXCEPT ![r] = x]
    BY <1>1, <1>5, <2>1 DEF Reroute, RecoveryTypeOK, Rows, Locals
  <2>6. n > 1
    BY <1>2, <1>4
  <2>. HIDE DEF n, S
  <2>7. x \in Locals /\ y \in Rows
    BY <1>1, <1>4, <2>2, <2>3 DEF Locals, Rows
  <2>8. /\ x.at = "call" /\ x.attempt = n /\ x.backend = b /\ x.skipped = S
        /\ x.ended = "no" /\ y.recoveries = n - 1 /\ y.status = "running"
    BY <1>1, <1>4, <2>3 DEF Locals, Rows
  <2>. HIDE DEF x, y
  <2>9. /\ Cardinality(S) \in Nat /\ Cardinality(Backends) \in Nat
        /\ Cardinality(S) < Cardinality(Backends)
    BY <2>2, <2>3, SkippedCounted
  <2>10. AttemptsArePaidFor(x)
    BY <2>2, <2>3, <2>4, <2>8, <2>9 DEF AttemptsArePaidFor
  <2>11. Sound(x, y)
    BY <2>2, <2>3, <2>6, <2>8, <2>10 DEF Sound, RowCountsAttempts, LabelFitsAttempt, RowFitsLabel,
                                         EndFitsRow, MayEnd, Choosing
  <2>. QED
    BY <1>3, <2>5, <2>7, <2>11, ThreadMoves
<1>6. CASE StayAndRecover(r)
  <2> DEFINE x == [loop[r] EXCEPT !.at = "failed", !.seen = {}]
  <2>1. x \in Locals /\ Sound(x, row[r])
    BY <1>1, <1>2 DEF Locals, Sound, RowCountsAttempts, LabelFitsAttempt, RowFitsLabel,
                      AttemptsArePaidFor, EndFitsRow, MayEnd, Choosing
  <2>2. loop' = [loop EXCEPT ![r] = x] /\ UNCHANGED row
    BY <1>1, <1>6 DEF StayAndRecover, RecoveryTypeOK, Locals
  <2>. HIDE DEF x
  <2>. QED
    BY <1>3, <2>1, <2>2, ThreadMovesAlone
<1>. QED
  BY <1>5, <1>6

LEMMA RecoverKeepsRuns ==
    ASSUME RecoveryTypeOK, RunsSound, NEW r \in Runs, Recover(r) \/ RecoverElsewhere(r)
    PROVE  RecoveryTypeOK' /\ RunsSound'
<1>1. loop[r] \in Locals /\ row[r] \in Rows /\ Sound(loop[r], row[r])
  BY ThreadAndRow
<1>2. /\ loop[r].at \in {"pick", "failed"} /\ loop[r].attempt > 0
      /\ loop[r].at = "pick" => loop[r].purpose = "recover" /\ loop[r].attempt <= 2
  <2>1. loop[r].at = "failed" \/ (loop[r].at = "pick" /\ loop[r].purpose = "recover")
    BY DEF Recover, RecoverElsewhere, At
  <2>. QED
    BY <1>1, <2>1 DEF Sound, LabelFitsAttempt, Locals, Choosing
<1>3. UNCHANGED cooldown
  BY DEF Recover, RecoverElsewhere
<1>4. /\ loop[r].backend \in Backends /\ loop[r].attempt \in Nat
      /\ row[r].recoveries = loop[r].attempt - 1
  BY <1>2, UnderWay
<1>5. CASE Recover(r)
  <2> DEFINE Step(category) == IF loop[r].reflect THEN StepForFailure(category, loop[r].attempt - 1)
                               ELSE "abandon"
  <2>1. PICK category \in Categories :
           \/ /\ Step(category) = "retry_different_backend"
              /\ row' = [row EXCEPT ![r].recoveries = loop[r].attempt - 1]
              /\ loop' = [loop EXCEPT ![r].at = "read", ![r].purpose = "recover"]
           \/ /\ Step(category) \in Retries \ {"retry_different_backend"}
              /\ RetryOn(r, loop[r].backend)
           \/ Step(category) \notin Retries /\ GiveUp(r)
    BY <1>5, Zenon DEF Recover
  <2>2. Step(category) \in Retries => loop[r].attempt <= 2
    <3>1. loop[r].attempt - 1 \in Nat
      BY <1>2, <1>4
    <3>2. Step(category) \in Retries => StepForFailure(category, loop[r].attempt - 1) \in Retries
      BY DEF Retries
    <3>3. Step(category) \in Retries => loop[r].attempt - 1 <= 1
      BY <3>1, <3>2, RetriesComeEarly
    <3>. QED
      BY <3>3, <1>4
  <2>. HIDE DEF Step
  <2>3. CASE /\ Step(category) = "retry_different_backend"
             /\ row' = [row EXCEPT ![r].recoveries = loop[r].attempt - 1]
             /\ loop' = [loop EXCEPT ![r].at = "read", ![r].purpose = "recover"]
    <3> DEFINE x == [loop[r] EXCEPT !.at = "read", !.purpose = "recover"]
    <3>1. loop[r].attempt <= 2 /\ loop[r].reflect
      BY <2>2, <2>3 DEF Retries, Step
    <3>2. x \in Locals /\ Sound(x, row[r])
      BY <1>1, <1>2, <3>1 DEF Locals, Purposes, Sound, RowCountsAttempts, LabelFitsAttempt,
                              RowFitsLabel, AttemptsArePaidFor, EndFitsRow, MayEnd, Choosing
    <3>3. loop' = [loop EXCEPT ![r] = x]
      BY <1>1, <2>3 DEF RecoveryTypeOK, Locals
    <3>4. row' = row
      BY <1>1, <1>4, <2>3 DEF RecoveryTypeOK, Rows
    <3>5. cooldown' \in [Backends -> {"absent", "cooling", "over"}]
      BY <1>3 DEF RecoveryTypeOK
    <3>. HIDE DEF x
    <3>. QED
      BY <3>2, <3>3, <3>4, <3>5, ThreadMovesAlone
  <2>4. CASE Step(category) \in Retries /\ RetryOn(r, loop[r].backend)
    BY <1>2, <1>3, <1>4, <2>2, <2>4, RetryKeepsRuns
  <2>5. CASE GiveUp(r)
    BY <1>2, <1>3, <2>5, GiveUpKeepsRuns
  <2>. QED
    BY <2>1, <2>3, <2>4, <2>5
<1>6. CASE RecoverElsewhere(r)
  <2>1. loop[r].at = "pick" /\ loop[r].purpose = "recover" /\ loop[r].attempt <= 2
    BY <1>2, <1>6 DEF RecoverElsewhere, At
  <2>2. ASSUME NEW b \in Candidates(r), RetryOn(r, b)
        PROVE  RecoveryTypeOK' /\ RunsSound'
    <3>1. b \in Backends
      BY <1>1, <2>1 DEF Candidates, Locals
    <3>. QED
      BY <1>2, <1>3, <2>1, <2>2, <3>1, RetryKeepsRuns
  <2>3. CASE GiveUp(r)
    BY <1>2, <1>3, <2>3, GiveUpKeepsRuns
  <2>4. ASSUME End(r, "raised"), UNCHANGED row
        PROVE  RecoveryTypeOK' /\ RunsSound'
    <3>1. row' = [row EXCEPT ![r] = row[r]]
      BY <2>4, ThreadAndRow
    <3>2. loop[r].at # "ended" /\ RowCountsAttempts(loop[r], row[r])
      BY <1>1, <2>1 DEF Sound
    <3>3. loop[r].reflect /\ row[r].status = "running"
      BY <1>1, <1>2, <2>1, UnderWay DEF Sound, LabelFitsAttempt, Choosing
    <3>4. MayEnd("raised", loop[r], row[r])
      BY <1>2, <3>3 DEF MayEnd
    <3>. QED
      BY <1>1, <1>3, <2>4, <3>1, <3>2, <3>4, ThreadEnds
  <2>. QED
    BY <1>6, <2>2, <2>3, <2>4 DEF RecoverElsewhere
<1>. QED
  BY <1>5, <1>6

-----------------------------------------------------------------------------
(* The theorems of RunRecovery *)

LEMMA RunsStaySound == RecoverySpec => [](RecoveryTypeOK /\ RunsSound)
<1>1. RecoveryInit => RecoveryTypeOK /\ RunsSound
  <2> SUFFICES ASSUME RecoveryInit PROVE RecoveryTypeOK /\ RunsSound
    OBVIOUS
  <2>1. [status |-> "absent", recoveries |-> 0] \in Rows /\ Fresh \in Locals
    BY DEF Rows, Locals, Fresh, Purposes
  <2>2. RecoveryTypeOK
    BY <2>1 DEF RecoveryInit, RecoveryTypeOK
  <2>3. Cardinality(Backends) \in Nat
    BY SkippedCounted
  <2>4. \A r \in Runs : Sound(loop[r], row[r])
    BY <2>3 DEF RecoveryInit, Fresh, Sound, RowCountsAttempts, LabelFitsAttempt, RowFitsLabel,
                AttemptsArePaidFor, EndFitsRow, MayEnd, Choosing
  <2>. QED
    BY <2>2, <2>4 DEF RunsSound
<1>2. RecoveryTypeOK /\ RunsSound /\ [RecoveryNext]_recoveryVars => (RecoveryTypeOK /\ RunsSound)'
  <2> SUFFICES ASSUME RecoveryTypeOK, RunsSound, [RecoveryNext]_recoveryVars
               PROVE  RecoveryTypeOK' /\ RunsSound'
    OBVIOUS
  <2>1. ASSUME NEW r \in Runs, Submit(r) \/ RunStep(r)
        PROVE  RecoveryTypeOK' /\ RunsSound'
    BY <2>1, ChoiceKeepsRuns, CreateKeepsRuns, CallKeepsRuns, RerouteKeepsRuns, RecoverKeepsRuns
       DEF RunStep
  <2>2. ASSUME NEW b \in Backends, TimeGoesBy(b)
        PROVE  RecoveryTypeOK' /\ RunsSound'
    BY <2>2 DEF TimeGoesBy, RecoveryTypeOK, RunsSound
  <2>3. CASE UNCHANGED recoveryVars
    BY <2>3 DEF recoveryVars, RecoveryTypeOK, RunsSound
  <2>. QED
    BY <2>1, <2>2, <2>3 DEF RecoveryNext
<1>. QED
  BY <1>1, <1>2, PTL DEF RecoverySpec

\* The rows and the locals of the attempt loop keep their domains, whatever
\* fails (execute_prepared_run).
THEOREM RecoveryTyped == RecoverySpec => []RecoveryTypeOK
BY RunsStaySound, PTL

\* For every set of backends and whatever chain of failures, quotas and
\* recoveries, a run makes at most two attempts more than there are backends,
\* and its row counts the attempts before the last (execute_prepared_run,
\* recovery.py).
THEOREM AttemptsAreBounded == RecoverySpec => []AttemptsBounded
<1>1. RecoveryTypeOK /\ RunsSound => AttemptsBounded
  BY DEF RecoveryTypeOK, Locals, RunsSound, Sound, AttemptsArePaidFor, RowCountsAttempts,
         AttemptsBounded
<1>. QED
  BY <1>1, RunsStaySound, PTL

\* A thread that is through leaves its run ended, but for what raises within the
\* handler of a failed attempt: the date of a quota in an automatically routed
\* run and the choice of another backend in a reflecting one; and for what
\* raises while the run is started (start_run, execute_prepared_run).
THEOREM EndsAreSettled == RecoverySpec => []EndsSettled
<1>1. RunsSound => EndsSettled
  BY DEF RunsSound, Sound, EndFitsRow, MayEnd, EndsSettled
<1>. QED
  BY <1>1, RunsStaySound, PTL

-----------------------------------------------------------------------------
(* The answers of samples *)

\* A finite sequence of numbers has a first greatest one: the least length
\* without one would be one more than a length that has one.
LEMMA FirstGreatest ==
    ASSUME NEW n \in Nat, n >= 1, NEW g \in [1..n -> Nat]
    PROVE  \E i \in 1..n : \A j \in 1..n : g[i] > g[j] \/ (g[i] = g[j] /\ i <= j)
<1> DEFINE Greatest(k, i) == \A j \in 1..k : g[i] > g[j] \/ (g[i] = g[j] /\ i <= j)
           Without == {k \in 1..n : ~ \E i \in 1..k : Greatest(k, i)}
<1>1. SUFFICES ASSUME Without # {} PROVE FALSE
  <2>1. ASSUME Without = {} PROVE \E i \in 1..n : Greatest(n, i)
    <3>1. n \in 1..n
      OBVIOUS
    <3>2. n \notin Without
      BY <2>1, Zenon
    <3>. QED
      BY <3>1, <3>2, Zenon
  <2>. QED
    BY <2>1, Zenon
<1>2. PICK k \in Without : \A m \in Without : <<m, k>> \notin OpToRel(<, Nat)
  <2>1. Without \subseteq Nat
    OBVIOUS
  <2>. QED
    BY <1>1, <2>1, WFMin, NatLessThanWellFounded, Zenon
<1>3. ASSUME NEW m \in Without PROVE ~(m < k)
  <2>1. m \in Nat /\ k \in Nat
    OBVIOUS
  <2>2. <<m, k>> \notin OpToRel(<, Nat)
    BY <1>2, Zenon
  <2>. QED
    BY <2>1, <2>2, Zenon DEF OpToRel
<1>4. k \in 1..n /\ k # 1
  <2>1. 1 \in 1..1 /\ Greatest(1, 1)
    OBVIOUS
  <2>. QED
    BY <2>1
<1>5. k - 1 \in 1..n /\ k - 1 < k
  BY <1>4
<1>6. PICK i \in 1..(k - 1) : Greatest(k - 1, i)
  <2>1. k - 1 \notin Without
    BY <1>3, <1>5
  <2>. HIDE DEF Greatest
  <2>. QED
    BY <1>5, <2>1
<1>7. CASE g[k] > g[i]
  <2>1. Greatest(k, k)
    BY <1>4, <1>6, <1>7
  <2>. QED
    BY <1>4, <2>1
<1>8. CASE ~(g[k] > g[i])
  <2>1. Greatest(k, i)
    BY <1>4, <1>6, <1>8
  <2>. QED
    BY <1>4, <2>1
<1>. QED
  BY <1>7, <1>8

LEMMA OccursCounts ==
    ASSUME NEW n \in Nat, NEW f, DOMAIN f = 1..n, NEW i \in 1..n
    PROVE  /\ IsFiniteSet({j \in DOMAIN f : f[j] = f[i]})
           /\ Occurs(f, i) \in Nat /\ Occurs(f, i) >= 1
           /\ Cardinality(1..n) = n /\ IsFiniteSet(1..n)
<1> DEFINE Same == {j \in DOMAIN f : f[j] = f[i]}
<1>1. IsFiniteSet(1..n) /\ Cardinality(1..n) = n
  BY FS_Interval
<1>2. IsFiniteSet(Same)
  BY <1>1, FS_Subset
<1>3. Cardinality(Same) \in Nat
  BY <1>2, FS_CardinalityType
<1>4. Cardinality(Same) # 0
  BY <1>2, FS_EmptySet
<1>. QED
  BY <1>1, <1>2, <1>3, <1>4 DEF Occurs

LEMMA CoarserOccursMore ==
    ASSUME NEW n \in Nat, NEW f, DOMAIN f = 1..n, NEW g, DOMAIN g = 1..n, NEW i \in 1..n,
           \A j \in 1..n : f[j] = f[i] => g[j] = g[i]
    PROVE  Occurs(f, i) <= Occurs(g, i)
<1>1. {j \in DOMAIN f : f[j] = f[i]} \subseteq {j \in DOMAIN g : g[j] = g[i]}
  OBVIOUS
<1>2. IsFiniteSet({j \in DOMAIN g : g[j] = g[i]})
  BY OccursCounts
<1>. QED
  BY <1>1, <1>2, FS_Subset DEF Occurs

LEMMA MostCommonIsGreatest ==
    ASSUME NEW n \in Nat, n >= 1, NEW f, DOMAIN f = 1..n
    PROVE  /\ MostCommon(f) \in 1..n
           /\ \A j \in 1..n : Occurs(f, MostCommon(f)) >= Occurs(f, j)
<1> DEFINE g == [i \in 1..n |-> Occurs(f, i)]
<1>1. \A i \in 1..n : Occurs(f, i) \in Nat
  BY OccursCounts
<1>2. g \in [1..n -> Nat]
  BY <1>1
<1>3. \E i \in 1..n : \A j \in 1..n : g[i] > g[j] \/ (g[i] = g[j] /\ i <= j)
  <2>. HIDE DEF g
  <2>. QED
    BY <1>2, FirstGreatest
<1>4. \E i \in DOMAIN f : \A j \in DOMAIN f :
         Occurs(f, i) > Occurs(f, j) \/ (Occurs(f, i) = Occurs(f, j) /\ i <= j)
  BY <1>3
<1>5. /\ MostCommon(f) \in DOMAIN f
      /\ \A j \in DOMAIN f :
            \/ Occurs(f, MostCommon(f)) > Occurs(f, j)
            \/ Occurs(f, MostCommon(f)) = Occurs(f, j) /\ MostCommon(f) <= j
  BY <1>4, Zenon DEF MostCommon
<1>. QED
  BY <1>1, <1>5

LEMMA LongestIsAnAnswer ==
    ASSUME NEW n \in Nat, n >= 1, NEW f \in [1..n -> Texts]
    PROVE  Longest(f) \in 1..n
<1> DEFINE g == [i \in 1..n |-> Length[f[i]]]
<1>1. g \in [1..n -> Nat]
  BY StrategyAssumption
<1>2. \E i \in 1..n : \A j \in 1..n : g[i] > g[j] \/ (g[i] = g[j] /\ i <= j)
  <2>. HIDE DEF g
  <2>. QED
    BY <1>1, FirstGreatest
<1>3. \E i \in DOMAIN f : \A j \in DOMAIN f :
         Length[f[i]] > Length[f[j]] \/ (Length[f[i]] = Length[f[j]] /\ i <= j)
  BY <1>2
<1>. QED
  BY <1>3, Zenon DEF Longest

NormalOf(f) == [i \in DOMAIN f |-> Normal[f[i]]]

\* The answer that is selected is one of the samples; when two samples or more
\* agree up to case and blanks, it agrees with another one itself.
LEMMA MajorityAnswer ==
    ASSUME NEW n \in Nat, n >= 1, NEW f \in [1..n -> Texts]
    PROVE  /\ PickMajorityAnswer(f) \in 1..n
           /\ (\E i \in 1..n : Occurs(NormalOf(f), i) > 1) => Occurs(NormalOf(f), PickMajorityAnswer(f)) > 1
<1>1. DOMAIN f = 1..n /\ DOMAIN NormalOf(f) = 1..n
  BY DEF NormalOf
<1>2. PickMajorityAnswer(f) =
         IF Occurs(f, MostCommon(f)) > 1 THEN MostCommon(f)
         ELSE IF Occurs(NormalOf(f), MostCommon(NormalOf(f))) > 1 THEN MostCommon(NormalOf(f))
         ELSE Longest(f)
  BY DEF PickMajorityAnswer, NormalOf
<1>3. /\ MostCommon(f) \in 1..n /\ MostCommon(NormalOf(f)) \in 1..n /\ Longest(f) \in 1..n
      /\ \A i \in 1..n : Occurs(NormalOf(f), MostCommon(NormalOf(f))) >= Occurs(NormalOf(f), i)
  BY <1>1, MostCommonIsGreatest, LongestIsAnAnswer
<1>4. \A i \in 1..n : Occurs(f, i) \in Nat /\ Occurs(NormalOf(f), i) \in Nat
  BY <1>1, OccursCounts
<1>5. \A i \in 1..n : Occurs(f, i) <= Occurs(NormalOf(f), i)
  <2>1. \A i, j \in 1..n : f[j] = f[i] => NormalOf(f)[j] = NormalOf(f)[i]
    BY <1>1 DEF NormalOf
  <2>. QED
    BY <1>1, <2>1, CoarserOccursMore
<1>6. PickMajorityAnswer(f) \in 1..n
  BY <1>2, <1>3
<1>7. ASSUME NEW i \in 1..n, Occurs(NormalOf(f), i) > 1
      PROVE  Occurs(NormalOf(f), PickMajorityAnswer(f)) > 1
  <2>1. CASE Occurs(f, MostCommon(f)) > 1
    BY <1>2, <1>3, <1>4, <1>5, <2>1
  <2>2. CASE ~(Occurs(f, MostCommon(f)) > 1)
    <3>1. Occurs(NormalOf(f), MostCommon(NormalOf(f))) > 1
      BY <1>3, <1>4, <1>7
    <3>. QED
      BY <1>2, <2>2, <3>1
  <2>. QED
    BY <2>1, <2>2
<1>. QED
  BY <1>6, <1>7

\* Two groups that together are more than the whole overlap.
LEMMA GroupsOverlap ==
    ASSUME NEW n \in Nat, NEW g, DOMAIN g = 1..n, NEW i \in 1..n, NEW p \in 1..n,
           Occurs(g, i) + Occurs(g, p) > n
    PROVE  g[p] = g[i]
<1> DEFINE A == {j \in DOMAIN g : g[j] = g[i]}
           B == {j \in DOMAIN g : g[j] = g[p]}
<1>1. /\ IsFiniteSet(A) /\ IsFiniteSet(B) /\ IsFiniteSet(1..n) /\ Cardinality(1..n) = n
      /\ Occurs(g, i) \in Nat /\ Occurs(g, p) \in Nat
  BY OccursCounts
<1>2. Cardinality(A) = Occurs(g, i) /\ Cardinality(B) = Occurs(g, p)
  BY DEF Occurs
<1>3. A \cup B \subseteq 1..n
  OBVIOUS
<1>. HIDE DEF A, B
<1>4. Cardinality(A \cup B) = Cardinality(A) + Cardinality(B) - Cardinality(A \cap B)
  BY <1>1, FS_Union
<1>5. Cardinality(A \cup B) <= n
  BY <1>1, <1>3, FS_Subset
<1>6. Cardinality(A \cap B) \in Nat
  BY <1>1, FS_Intersection, FS_CardinalityType
<1>7. Cardinality(A \cap B) # 0
  BY <1>1, <1>2, <1>4, <1>5, <1>6
<1>8. A \cap B # {}
  BY <1>7, FS_EmptySet
<1>. QED
  BY <1>8 DEF A, B

\* Of at most three samples, the answer of a majority is selected.
LEMMA MajorityIsSelected ==
    ASSUME NEW n \in 1..3, NEW f \in [1..n -> Texts],
           NEW i \in 1..n, 2 * Occurs(NormalOf(f), i) > n
    PROVE  NormalOf(f)[PickMajorityAnswer(f)] = NormalOf(f)[i]
<1> DEFINE p == PickMajorityAnswer(f)
<1>1. n \in Nat /\ n >= 1 /\ DOMAIN NormalOf(f) = 1..n
  BY DEF NormalOf
<1>2. p \in 1..n /\ (Occurs(NormalOf(f), i) > 1 => Occurs(NormalOf(f), p) > 1)
  <2>1. /\ PickMajorityAnswer(f) \in 1..n
        /\ (\E k \in 1..n : Occurs(NormalOf(f), k) > 1) => Occurs(NormalOf(f), PickMajorityAnswer(f)) > 1
    BY <1>1, MajorityAnswer
  <2>. QED
    BY <2>1
<1>. HIDE DEF p
<1>3. /\ Occurs(NormalOf(f), i) \in Nat /\ Occurs(NormalOf(f), i) >= 1
      /\ Occurs(NormalOf(f), p) \in Nat /\ Occurs(NormalOf(f), p) >= 1
  BY <1>1, <1>2, OccursCounts
<1>4. Occurs(NormalOf(f), i) + Occurs(NormalOf(f), p) > n
  BY <1>2, <1>3
<1>5. NormalOf(f)[p] = NormalOf(f)[i]
  BY <1>1, <1>2, <1>4, GroupsOverlap
<1>. QED
  BY <1>5 DEF p

-----------------------------------------------------------------------------
(* The locals of a strategy *)

\* Which response comes next is a question for plan-execute alone.
CallFitsKind(w) ==
    /\ w.kind = "plan-execute" <=> w.call # "first"
    /\ w.at = "new" => w.kind = "none"
    /\ w.call = "plan" => w.got = <<>>

\* The results so far fit the plan, and the plan fits the budget.
PlanFits(w) ==
    w.kind = "plan-execute" =>
        /\ Len(w.got) <= w.plan \/ w.call = "plan"
        /\ w.plan <= PlanSteps
        /\ w.call = "step" /\ w.at \in {"check", "call"} => Len(w.got) < w.plan

\* A selection is made once, of as many samples as were asked for.
SampleFits(w) ==
    w.kind = "self-consistency" =>
        /\ w.got \in Seq(Texts)
        /\ Len(w.got) <= Samples
        /\ w.at \in {"check", "call"} => w.best = 0 /\ Len(w.got) < Samples
        /\ w.best # 0 => Len(w.got) > 0 /\ w.best = PickMajorityAnswer(w.got)

FirstFewest(w) ==
    \A i \in 1..Len(w.errors) :
        \/ w.errors[w.best] < w.errors[i]
        \/ w.errors[w.best] = w.errors[i] /\ w.best <= i

\* The attempt that is kept is one of those made: the one that passed, or the
\* first with the fewest errors so far.
AttemptFits(w) ==
    w.kind = "verified" =>
        /\ Len(w.errors) = Len(w.got)
        /\ w.best \in 0..Len(w.got) /\ (w.best = 0 <=> Len(w.got) = 0)
        /\ w.at \in {"check", "call"} => ~w.passed
        /\ w.passed => w.best = Len(w.got)
        /\ ~w.passed /\ w.best # 0 => FirstFewest(w)

Fits(w) == CallFitsKind(w) /\ PlanFits(w) /\ SampleFits(w) /\ AttemptFits(w)
WorkFits == Fits(work)

\* A run is canceled only by what ends its strategy.
CanceledIsOver == srow.status = "canceled" => work.at = "raised"

LEMMA LevelsKnown ==
    /\ {QualityLevels[i] : i \in DOMAIN QualityLevels}
          = {"unverified", "self-checked", "tool-verified", "operator-reviewed"}
    /\ \A kind : QualityOf(kind) \in {"unverified", "self-checked", "tool-verified"}
    /\ \A current, new : PromoteQuality(current, new) \in {current, new}
<1>1. {QualityLevels[i] : i \in DOMAIN QualityLevels}
          = {"unverified", "self-checked", "tool-verified", "operator-reviewed"}
  <2>1. DOMAIN QualityLevels = 1..4
    BY DEF QualityLevels
  <2>2. \A i \in 1..4 : i = 1 \/ i = 2 \/ i = 3 \/ i = 4
    OBVIOUS
  <2>. QED
    BY <2>1, <2>2 DEF QualityLevels
<1>2. \A kind : QualityOf(kind) \in {"unverified", "self-checked", "tool-verified"}
  BY DEF QualityOf
<1>3. \A current, new : PromoteQuality(current, new) \in {current, new}
  BY DEF PromoteQuality
<1>. QED
  BY <1>1, <1>2, <1>3

LEMMA StrategyMoves ==
    ASSUME NEW x \in Works, Fits(x), work' = x,
           srow' \in [status : {"running", "done", "canceled"},
                      quality : {QualityLevels[i] : i \in DOMAIN QualityLevels}],
           usage' \in Nat, wanted' \in BOOLEAN,
           srow'.status = "canceled" => x.at = "raised"
    PROVE  StrategyTypeOK' /\ WorkFits' /\ CanceledIsOver'
BY DEF StrategyTypeOK, WorkFits, CanceledIsOver

\* Only the label changes, and not to one where the next response comes.
LEMMA LabelMoves ==
    ASSUME NEW w \in Works, Fits(w),
           NEW l \in {"check", "call", "complete", "level", "returned", "raised"},
           l \in {"check", "call"} => w.at \in {"check", "call"}
    PROVE  /\ [w EXCEPT !.at = l] \in Works /\ Fits([w EXCEPT !.at = l])
           /\ [w EXCEPT !.at = l].at = l
<1> DEFINE x == [w EXCEPT !.at = l]
<1>1. x \in Works
  BY DEF Works
<1>2. /\ x.at = l /\ x.kind = w.kind /\ x.call = w.call /\ x.got = w.got /\ x.plan = w.plan
      /\ x.errors = w.errors /\ x.best = w.best /\ x.passed = w.passed
  BY DEF Works
<1>. HIDE DEF x
<1>3. CallFitsKind(x) /\ PlanFits(x)
  BY <1>2 DEF Fits, CallFitsKind, PlanFits
<1>4. SampleFits(x)
  BY <1>2 DEF Fits, SampleFits
<1>5. AttemptFits(x)
  BY <1>2 DEF Fits, AttemptFits, FirstFewest
<1>6. Fits(x) /\ x.at = l
  BY <1>2, <1>3, <1>4, <1>5 DEF Fits
<1>. QED
  BY <1>1, <1>6 DEF x

LEMMA LabelStepsFit ==
    ASSUME StrategyTypeOK, WorkFits, CanceledIsOver,
           NoticeCancel \/ PassCheck \/ CancelCall \/ FailCall \/ Complete \/ WriteLevel
               \/ \E text \in Texts : AnswerSynthesis(text)
    PROVE  StrategyTypeOK' /\ WorkFits' /\ CanceledIsOver'
<1>1. work \in Works /\ Fits(work)
  BY DEF StrategyTypeOK, WorkFits
<1>2. srow.status = "canceled" => work.at = "raised"
  BY DEF CanceledIsOver
<1>3. PICK l \in {"check", "call", "complete", "level", "returned", "raised"} :
         /\ work' = [work EXCEPT !.at = l]
         /\ l \in {"check", "call"} => work.at \in {"check", "call"}
         /\ work.at # "raised"
         /\ srow'.status = "canceled" => l = "raised" \/ srow.status = "canceled"
  <2>1. CASE NoticeCancel \/ CancelCall \/ FailCall
    BY <2>1 DEF NoticeCancel, CancelCall, FailCall, Raise, WorkAt
  <2>2. CASE PassCheck
    BY <2>2 DEF PassCheck, WorkAt
  <2>3. CASE Complete
    BY <2>3, <1>1 DEF Complete, WorkAt, StrategyTypeOK
  <2>4. CASE WriteLevel
    BY <2>4, <1>1 DEF WriteLevel, WorkAt, StrategyTypeOK
  <2>5. CASE \E text \in Texts : AnswerSynthesis(text)
    BY <2>5 DEF AnswerSynthesis, Responded, WorkAt
  <2>. QED
    BY <2>1, <2>2, <2>3, <2>4, <2>5
<1>4. srow' \in [status : {"running", "done", "canceled"},
                 quality : {QualityLevels[i] : i \in DOMAIN QualityLevels}]
  <2>1. CASE WriteLevel
    <3>1. PICK quality \in {"unverified", "self-checked", "tool-verified"} :
             srow' = IF quality = "unverified" THEN srow ELSE [srow EXCEPT !.quality = quality]
      <4> DEFINE verdict == IF work.passed THEN "tool-verified" ELSE "unverified"
                 quality == IF work.kind = "verified"
                            THEN PromoteQuality(QualityOf(work.kind), verdict)
                            ELSE QualityOf(work.kind)
      <4>1. quality \in {"unverified", "self-checked", "tool-verified"}
        BY LevelsKnown
      <4>2. srow' = IF quality = "unverified" THEN srow ELSE [srow EXCEPT !.quality = quality]
        BY <2>1, Zenon DEF WriteLevel
      <4>. HIDE DEF quality
      <4>. QED
        BY <4>1, <4>2
    <3>. QED
      BY <3>1, LevelsKnown DEF StrategyTypeOK
  <2>2. CASE ~WriteLevel
    BY <2>2, <1>1 DEF StrategyTypeOK, NoticeCancel, PassCheck, CancelCall, FailCall, Complete,
                      AnswerSynthesis, Responded, Raise
  <2>. QED
    BY <2>1, <2>2
<1>5. usage' \in Nat /\ wanted' \in BOOLEAN
  BY DEF StrategyTypeOK, NoticeCancel, PassCheck, CancelCall, FailCall, Complete, WriteLevel,
         AnswerSynthesis, Responded, Raise
<1>6. work' \in Works /\ Fits(work') /\ work'.at = l
  BY <1>1, <1>3, LabelMoves
<1>. QED
  BY <1>2, <1>3, <1>4, <1>5, <1>6, StrategyMoves

LEMMA BeginFits ==
    ASSUME StrategyTypeOK, WorkFits, CanceledIsOver, NEW kind \in Kinds, Begin(kind)
    PROVE  StrategyTypeOK' /\ WorkFits' /\ CanceledIsOver'
<1>1. NoWork \in Works
  <2>1. <<>> \in Seq(Texts \cup {"FAILED"}) /\ <<>> \in Seq(0..MaxErrors)
    BY EmptySeq
  <2>. QED
    BY <2>1 DEF NoWork, Works
<1>2. NoWork.got = <<>> /\ NoWork.plan = 0 /\ NoWork.errors = <<>> /\ NoWork.best = 0 /\ ~NoWork.passed
  BY DEF NoWork
<1> DEFINE l == IF kind \in {"self-consistency", "verified"} THEN "check" ELSE "call"
           c == IF kind = "plan-execute" THEN "plan" ELSE "first"
           x == [NoWork EXCEPT !.kind = kind, !.at = l, !.call = c]
<1>3. work' = x /\ UNCHANGED <<srow, usage, wanted>> /\ work.at = "new"
  BY DEF Begin, WorkAt
<1>4. l \in {"check", "call"} /\ c \in {"plan", "first"} /\ (c = "plan" <=> kind = "plan-execute")
  OBVIOUS
<1>. HIDE DEF l, c
<1>5. /\ x \in Works /\ x.at = l /\ x.kind = kind /\ x.call = c /\ x.got = <<>> /\ x.plan = 0
      /\ x.errors = <<>> /\ x.best = 0 /\ ~x.passed
  BY <1>1, <1>2, <1>4 DEF Works
<1>. HIDE DEF x
<1>6. CallFitsKind(x) /\ PlanFits(x)
  BY <1>4, <1>5, StrategyAssumption DEF CallFitsKind, PlanFits
<1>7. SampleFits(x)
  <2>1. <<>> \in Seq(Texts) /\ Len(<<>>) = 0
    BY EmptySeq
  <2>. QED
    BY <1>5, <2>1, StrategyAssumption DEF SampleFits
<1>8. AttemptFits(x)
  BY <1>5 DEF AttemptFits
<1>. QED
  BY <1>3, <1>5, <1>6, <1>7, <1>8, StrategyMoves DEF StrategyTypeOK, CanceledIsOver, Fits

\* An answer is a step at label "call", where no run is canceled.
LEMMA AnswersComeWhileRunning ==
    ASSUME StrategyTypeOK, WorkFits, CanceledIsOver, WorkAt("call"), UNCHANGED <<srow, wanted>>
    PROVE  /\ work \in Works /\ Fits(work)
           /\ srow' \in [status : {"running", "done", "canceled"},
                          quality : {QualityLevels[i] : i \in DOMAIN QualityLevels}]
           /\ srow'.status # "canceled" /\ wanted' \in BOOLEAN
BY DEF StrategyTypeOK, WorkFits, CanceledIsOver, WorkAt

LEMMA NextStepFits ==
    ASSUME NEW w \in Works, w.kind = "plan-execute",
           Len(w.got) <= w.plan, w.plan <= PlanSteps
    PROVE  NextStep(w) \in Works /\ Fits(NextStep(w))
<1> DEFINE l == IF Len(w.got) < w.plan THEN "check" ELSE "call"
           c == IF Len(w.got) < w.plan THEN "step" ELSE "synthesis"
           x == [w EXCEPT !.at = l, !.call = c]
<1>1. NextStep(w) = x
  BY DEF NextStep
<1>2. l \in {"check", "call"} /\ c \in {"step", "synthesis"} /\ (c = "step" => Len(w.got) < w.plan)
  OBVIOUS
<1>. HIDE DEF l, c
<1>3. /\ x \in Works /\ x.at = l /\ x.kind = w.kind /\ x.call = c /\ x.got = w.got
      /\ x.plan = w.plan
  BY <1>2 DEF Works
<1>. HIDE DEF x
<1>. QED
  BY <1>1, <1>2, <1>3 DEF Fits, CallFitsKind, PlanFits, SampleFits, AttemptFits

LEMMA PlanStepsFit ==
    ASSUME StrategyTypeOK, WorkFits, CanceledIsOver,
           \/ \E n \in Nat : AnswerPlan(n) \/ AnswerReplan(n)
           \/ \E text \in Texts : AnswerStep(text)
           \/ FailStep
    PROVE  StrategyTypeOK' /\ WorkFits' /\ CanceledIsOver'
<1>1. WorkAt("call") /\ UNCHANGED <<srow, wanted>>
  BY DEF AnswerPlan, AnswerReplan, AnswerStep, FailStep, Responded
<1>2. /\ work \in Works /\ Fits(work)
      /\ srow' \in [status : {"running", "done", "canceled"},
                     quality : {QualityLevels[i] : i \in DOMAIN QualityLevels}]
      /\ srow'.status # "canceled" /\ wanted' \in BOOLEAN
  BY <1>1, AnswersComeWhileRunning
<1>3. usage' \in Nat
  <2>1. usage' = usage + 1 \/ usage' = usage
    BY Zenon DEF AnswerPlan, AnswerReplan, AnswerStep, FailStep
  <2>2. usage \in Nat
    BY DEF StrategyTypeOK
  <2>. QED
    BY <2>1, <2>2
<1>4. /\ work.kind = "plan-execute" /\ work.got \in Seq(Texts \cup {"FAILED"})
      /\ Len(work.got) \in Nat /\ work.plan \in Nat /\ work.plan <= PlanSteps
      /\ work.call # "plan" => Len(work.got) <= work.plan
      /\ work.call = "plan" => work.got = <<>>
      /\ work.call = "step" => Len(work.got) < work.plan
  <2>1. work.call # "first"
    BY DEF AnswerPlan, AnswerReplan, AnswerStep, FailStep
  <2>2. work.kind = "plan-execute"
    BY <1>2, <2>1 DEF Fits, CallFitsKind
  <2>3. work.got \in Seq(Texts \cup {"FAILED"}) /\ work.plan \in Nat
    BY <1>2 DEF Works
  <2>4. Len(work.got) \in Nat
    BY <2>3, LenProperties
  <2>. QED
    BY <1>1, <1>2, <2>2, <2>3, <2>4 DEF Fits, CallFitsKind, PlanFits, WorkAt
<1>5. ASSUME NEW text \in Texts \cup {"FAILED"}, work.call = "step"
      PROVE  /\ Append(work.got, text) \in Seq(Texts \cup {"FAILED"})
             /\ Len(Append(work.got, text)) = Len(work.got) + 1
             /\ Len(Append(work.got, text)) <= work.plan
  <2>1. /\ Append(work.got, text) \in Seq(Texts \cup {"FAILED"})
        /\ Len(Append(work.got, text)) = Len(work.got) + 1
    BY <1>4, AppendProperties
  <2>. QED
    BY <1>4, <1>5, <2>1
<1>6. ASSUME NEW n \in Nat, AnswerPlan(n)
      PROVE  work' \in Works /\ Fits(work')
  <2> DEFINE m == IF n = 0 THEN 1 ELSE IF n > PlanSteps THEN PlanSteps ELSE n
             w == [work EXCEPT !.plan = m]
  <2>1. m \in Nat /\ m <= PlanSteps
    BY StrategyAssumption
  <2>2. work' = NextStep(w)
    BY <1>6 DEF AnswerPlan
  <2>. HIDE DEF m
  <2>3. w \in Works /\ w.kind = work.kind /\ w.got = work.got /\ w.plan = m
    BY <1>2, <2>1 DEF Works
  <2>. HIDE DEF w
  <2>4. Len(w.got) <= w.plan
    BY <1>4, <1>6, <2>1, <2>3, EmptySeq DEF AnswerPlan
  <2>. QED
    BY <1>4, <2>1, <2>2, <2>3, <2>4, NextStepFits
<1>7. ASSUME NEW n \in Nat, AnswerReplan(n)
      PROVE  work' \in Works /\ Fits(work')
  <2> DEFINE done == Len(work.got)
             revised == done + (IF n > PlanSteps - done THEN PlanSteps - done ELSE n)
             m == IF n = 0 THEN work.plan ELSE revised
             w == [work EXCEPT !.plan = m]
  <2>1. work.call = "replan"
    BY <1>7 DEF AnswerReplan
  <2>2. m \in Nat /\ m <= PlanSteps /\ Len(work.got) <= m
    <3>1. /\ done \in Nat /\ PlanSteps \in Nat /\ done <= PlanSteps /\ done <= work.plan
          /\ work.plan \in Nat /\ work.plan <= PlanSteps
      BY <1>4, <2>1, StrategyAssumption
    <3>. HIDE DEF done
    <3>2. revised \in Nat /\ revised <= PlanSteps /\ done <= revised
      BY <3>1
    <3>. HIDE DEF revised
    <3>3. m \in Nat /\ m <= PlanSteps /\ done <= m
      BY <3>1, <3>2
    <3>. QED
      BY <3>3 DEF done
  <2>3. work' = NextStep(w)
    BY <1>2, <1>7 DEF AnswerReplan, Works
  <2>. HIDE DEF m
  <2>4. w \in Works /\ w.kind = work.kind /\ w.got = work.got /\ w.plan = m
    BY <1>2, <2>2 DEF Works
  <2>. HIDE DEF w
  <2>. QED
    BY <1>4, <2>2, <2>3, <2>4, NextStepFits
<1>8. ASSUME NEW text \in Texts, AnswerStep(text)
      PROVE  work' \in Works /\ Fits(work')
  <2> DEFINE got == Append(work.got, text)
             w == [work EXCEPT !.got = got]
  <2>1. got \in Seq(Texts \cup {"FAILED"}) /\ Len(got) <= work.plan
    BY <1>5, <1>8 DEF AnswerStep
  <2>2. work' = NextStep(w)
    BY <1>2, <1>8 DEF AnswerStep, Works
  <2>. HIDE DEF got
  <2>3. w \in Works /\ w.kind = work.kind /\ w.got = got /\ w.plan = work.plan
    BY <1>2, <2>1 DEF Works
  <2>. HIDE DEF w
  <2>. QED
    BY <1>4, <2>1, <2>2, <2>3, NextStepFits
<1>9. ASSUME FailStep
      PROVE  work' \in Works /\ Fits(work')
  <2> DEFINE got == Append(work.got, "FAILED")
             x == [work EXCEPT !.got = got, !.call = "replan"]
  <2>1. got \in Seq(Texts \cup {"FAILED"}) /\ Len(got) <= work.plan
    BY <1>5, <1>9 DEF FailStep
  <2>2. work' = x
    BY <1>2, <1>9 DEF FailStep, Works
  <2>. HIDE DEF got
  <2>3. /\ x \in Works /\ x.kind = work.kind /\ x.got = got /\ x.plan = work.plan
        /\ x.call = "replan" /\ x.at = work.at
    BY <1>2, <2>1 DEF Works
  <2>. HIDE DEF x
  <2>. QED
    BY <1>1, <1>4, <2>1, <2>2, <2>3 DEF Fits, CallFitsKind, PlanFits, SampleFits, AttemptFits, WorkAt
<1>10. work' \in Works /\ Fits(work')
  BY <1>6, <1>7, <1>8, <1>9
<1>. QED
  BY <1>2, <1>3, <1>10, StrategyMoves

LEMMA SelectedIsASample ==
    ASSUME NEW s \in Seq(Texts), Len(s) > 0
    PROVE  PickMajorityAnswer(s) \in 1..Len(s)
<1>1. Len(s) \in Nat /\ Len(s) >= 1 /\ s \in [1..Len(s) -> Texts]
  BY LenProperties
<1>. QED
  BY <1>1, MajorityAnswer

LEMMA SampleStepsFit ==
    ASSUME StrategyTypeOK, WorkFits, CanceledIsOver, NEW text \in Texts, AnswerSample(text)
    PROVE  StrategyTypeOK' /\ WorkFits' /\ CanceledIsOver'
<1>1. WorkAt("call") /\ UNCHANGED <<srow, wanted>> /\ work.kind = "self-consistency"
  BY DEF AnswerSample, Responded
<1>2. /\ work \in Works /\ Fits(work)
      /\ srow' \in [status : {"running", "done", "canceled"},
                     quality : {QualityLevels[i] : i \in DOMAIN QualityLevels}]
      /\ srow'.status # "canceled" /\ wanted' \in BOOLEAN
  BY <1>1, AnswersComeWhileRunning
<1>3. usage' \in Nat
  <2>1. usage' = usage + 1
    BY Zenon DEF AnswerSample
  <2>. QED
    BY <2>1 DEF StrategyTypeOK
<1>4. work.got \in Seq(Texts) /\ Len(work.got) < Samples /\ work.best = 0 /\ work.call = "first"
  BY <1>1, <1>2 DEF Fits, SampleFits, CallFitsKind, WorkAt, Works
<1> DEFINE got == Append(work.got, text)
<1>5. /\ got \in Seq(Texts) /\ Len(got) = Len(work.got) + 1 /\ Len(work.got) \in Nat
      /\ got \in Seq(Texts \cup {"FAILED"})
  <2>1. work.got \in Seq(Texts \cup {"FAILED"})
    BY <1>2 DEF Works
  <2>. QED
    BY <1>4, <2>1, AppendProperties, LenProperties
<1>6. /\ Len(got) < Samples => work' = [work EXCEPT !.at = "check", !.got = got]
      /\ ~(Len(got) < Samples)
            => work' = [work EXCEPT !.at = "complete", !.got = got,
                                    !.best = PickMajorityAnswer(got)]
  BY Zenon DEF AnswerSample
<1>. HIDE DEF got
<1>7. Len(got) \in Nat /\ Len(got) > 0 /\ Len(got) <= Samples
  BY <1>4, <1>5, StrategyAssumption
<1>8. CASE Len(got) < Samples
  <2> DEFINE x == [work EXCEPT !.at = "check", !.got = got]
  <2>1. work' = x
    BY <1>6, <1>8
  <2>2. /\ x \in Works /\ x.at = "check" /\ x.kind = work.kind /\ x.call = "first"
        /\ x.got = got /\ x.best = 0
    BY <1>2, <1>4, <1>5 DEF Works
  <2>. HIDE DEF x
  <2>3. Fits(x)
    BY <1>1, <1>5, <1>7, <1>8, <2>2 DEF Fits, CallFitsKind, PlanFits, SampleFits, AttemptFits
  <2>. QED
    BY <1>2, <1>3, <2>1, <2>2, <2>3, StrategyMoves
<1>9. CASE ~(Len(got) < Samples)
  <2> DEFINE best == PickMajorityAnswer(got)
             x == [work EXCEPT !.at = "complete", !.got = got, !.best = best]
  <2>1. work' = x
    BY <1>6, <1>9
  <2>2. best \in Nat
    <3>1. best \in 1..Len(got)
      BY <1>5, <1>7, SelectedIsASample
    <3>. HIDE DEF best
    <3>. QED
      BY <3>1
  <2>3. best = PickMajorityAnswer(got)
    OBVIOUS
  <2>. HIDE DEF best
  <2>4. /\ x \in Works /\ x.at = "complete" /\ x.kind = work.kind /\ x.call = "first"
        /\ x.got = got /\ x.best = best
    BY <1>2, <1>4, <1>5, <2>2 DEF Works
  <2>. HIDE DEF x
  <2>5. Fits(x)
    BY <1>1, <1>5, <1>7, <2>3, <2>4 DEF Fits, CallFitsKind, PlanFits, SampleFits, AttemptFits
  <2>. QED
    BY <1>2, <1>3, <2>1, <2>4, <2>5, StrategyMoves
<1>. QED
  BY <1>8, <1>9

LEMMA PassStepsFit ==
    ASSUME StrategyTypeOK, WorkFits, CanceledIsOver, NEW text \in Texts, AnswerPass(text)
    PROVE  StrategyTypeOK' /\ WorkFits' /\ CanceledIsOver'
<1>1. WorkAt("call") /\ UNCHANGED <<srow, wanted>> /\ work.kind \in {"critique-revise", "debate"}
  BY DEF AnswerPass, Responded
<1>2. /\ work \in Works /\ Fits(work)
      /\ srow' \in [status : {"running", "done", "canceled"},
                     quality : {QualityLevels[i] : i \in DOMAIN QualityLevels}]
      /\ srow'.status # "canceled" /\ wanted' \in BOOLEAN
  BY <1>1, AnswersComeWhileRunning
<1>3. usage' \in Nat
  <2>1. usage' = usage + 1
    BY Zenon DEF AnswerPass
  <2>. QED
    BY <2>1 DEF StrategyTypeOK
<1> DEFINE got == Append(work.got, text)
           best == Len(work.got) + 1
           l == IF Len(work.got) = 2 THEN "complete"
                ELSE IF work.kind = "debate" THEN "check" ELSE "call"
           x == [work EXCEPT !.got = got, !.best = best, !.at = l]
<1>4. got \in Seq(Texts \cup {"FAILED"}) /\ best \in Nat /\ l \in {"complete", "check", "call"}
  <2>1. work.got \in Seq(Texts \cup {"FAILED"})
    BY <1>2 DEF Works
  <2>. QED
    BY <2>1, AppendProperties, LenProperties
<1>5. work' = x
  BY <1>2 DEF AnswerPass, Works
<1>. HIDE DEF got, best, l
<1>6. x \in Works /\ x.at = l /\ x.kind = work.kind /\ x.call = work.call
  BY <1>2, <1>4 DEF Works
<1>. HIDE DEF x
<1>7. Fits(x)
  BY <1>1, <1>2, <1>4, <1>6 DEF Fits, CallFitsKind, PlanFits, SampleFits, AttemptFits
<1>. QED
  BY <1>2, <1>3, <1>5, <1>6, <1>7, StrategyMoves

LEMMA AttemptStepsFit ==
    ASSUME StrategyTypeOK, WorkFits, CanceledIsOver, NEW text \in Texts, AnswerAttempt(text)
    PROVE  StrategyTypeOK' /\ WorkFits' /\ CanceledIsOver'
<1>1. WorkAt("call") /\ UNCHANGED <<srow, wanted>> /\ work.kind = "verified"
  BY DEF AnswerAttempt, Responded
<1>2. /\ work \in Works /\ Fits(work)
      /\ srow' \in [status : {"running", "done", "canceled"},
                     quality : {QualityLevels[i] : i \in DOMAIN QualityLevels}]
      /\ srow'.status # "canceled" /\ wanted' \in BOOLEAN
  BY <1>1, AnswersComeWhileRunning
<1>3. usage' \in Nat
  <2>1. usage' = usage + 1
    BY Zenon DEF AnswerAttempt
  <2>. QED
    BY <2>1 DEF StrategyTypeOK
<1>4. /\ work.got \in Seq(Texts \cup {"FAILED"}) /\ work.errors \in Seq(0..MaxErrors)
      /\ Len(work.got) \in Nat /\ Len(work.errors) = Len(work.got) /\ work.best \in 0..Len(work.got)
      /\ (work.best = 0 <=> Len(work.got) = 0) /\ ~work.passed /\ work.call = "first"
      /\ work.best # 0 => FirstFewest(work)
  <2>1. work.got \in Seq(Texts \cup {"FAILED"}) /\ work.errors \in Seq(0..MaxErrors)
    BY <1>2 DEF Works
  <2>2. Len(work.got) \in Nat
    BY <2>1, LenProperties
  <2>. QED
    BY <1>1, <1>2, <2>1, <2>2 DEF Fits, AttemptFits, CallFitsKind, WorkAt
<1>5. PICK passed \in BOOLEAN, errors \in 0..MaxErrors :
         LET n == Len(work.got) + 1
             better == work.best = 0 \/ errors < work.errors[work.best]
         IN  work' = [work EXCEPT !.got = Append(@, text), !.errors = Append(@, errors),
                         !.passed = passed,
                         !.best = IF better \/ passed THEN n ELSE @,
                         !.at = IF passed \/ n = MaxAttempts THEN "complete" ELSE "check"]
  BY Zenon DEF AnswerAttempt
<1> DEFINE n == Len(work.got) + 1
           got == Append(work.got, text)
           errs == Append(work.errors, errors)
           better == work.best = 0 \/ errors < work.errors[work.best]
           best == IF better \/ passed THEN n ELSE work.best
           l == IF passed \/ n = MaxAttempts THEN "complete" ELSE "check"
           x == [work EXCEPT !.got = got, !.errors = errs, !.passed = passed, !.best = best, !.at = l]
<1>6. work' = x
  BY <1>2, <1>5 DEF Works
<1>7. /\ got \in Seq(Texts \cup {"FAILED"}) /\ Len(got) = n
      /\ errs \in Seq(0..MaxErrors) /\ Len(errs) = n /\ errs[n] = errors
      /\ \A i \in 1..Len(work.got) : errs[i] = work.errors[i]
  BY <1>4, AppendProperties
<1>8. \A i \in 1..Len(work.got) : work.errors[i] \in Nat
  BY <1>4, ElementOfSeq, StrategyAssumption
<1>9. errors \in Nat /\ n \in Nat /\ n > 0
  BY <1>4, StrategyAssumption
<1>10. best \in 1..n /\ (passed => best = n)
  BY <1>4, <1>9
<1>11. ASSUME NEW i \in 1..n, ~passed
       PROVE  errs[best] < errs[i] \/ (errs[best] = errs[i] /\ best <= i)
  <2>1. CASE work.best = 0
    <3>1. n = 1 /\ best = 1 /\ i = 1
      BY <1>4, <2>1
    <3>. QED
      BY <1>7, <1>9, <3>1
  <2>2. CASE work.best # 0
    <3>1. /\ work.best \in 1..Len(work.got)
          /\ \A k \in 1..Len(work.got) :
                \/ work.errors[work.best] < work.errors[k]
                \/ work.errors[work.best] = work.errors[k] /\ work.best <= k
      BY <1>4, <2>2 DEF FirstFewest
    <3>2. work.errors[work.best] \in Nat
      BY <1>8, <3>1
    <3>3. CASE errors < work.errors[work.best]
      <4>1. best = n
        BY <3>3
      <4>2. CASE i = n
        BY <1>7, <1>9, <4>1, <4>2
      <4>3. CASE i # n
        <5>1. i \in 1..Len(work.got)
          BY <1>4, <4>3
        <5>. HIDE DEF errs, best, n
        <5>2. errs[best] = errors /\ errs[i] = work.errors[i]
          BY <1>7, <4>1, <5>1
        <5>. QED
          BY <1>8, <1>9, <3>1, <3>2, <3>3, <5>1, <5>2
      <4>. QED
        BY <4>2, <4>3
    <3>4. CASE ~(errors < work.errors[work.best])
      <4>1. best = work.best /\ errs[best] = work.errors[work.best]
        BY <1>7, <1>11, <2>2, <3>1, <3>4
      <4>2. CASE i = n
        BY <1>4, <1>7, <1>9, <3>1, <3>2, <3>4, <4>1, <4>2
      <4>3. CASE i # n
        <5>1. i \in 1..Len(work.got)
          BY <1>4, <4>3
        <5>. HIDE DEF errs, best, n
        <5>. QED
          BY <1>7, <3>1, <4>1, <5>1
      <4>. QED
        BY <4>2, <4>3
    <3>. QED
      BY <3>3, <3>4
  <2>. QED
    BY <2>1, <2>2
<1>12. l \in {"complete", "check"} /\ (l = "check" => ~passed)
  OBVIOUS
<1>. HIDE DEF got, errs, best, l, n
<1>13. best \in Nat
  BY <1>9, <1>10
<1>14. /\ x \in Works /\ x.at = l /\ x.kind = work.kind /\ x.call = "first" /\ x.got = got
       /\ x.errors = errs /\ x.best = best /\ x.passed = passed
  BY <1>2, <1>4, <1>7, <1>12, <1>13 DEF Works
<1>. HIDE DEF x
<1>15. AttemptFits(x)
  <2>1. /\ Len(x.errors) = n /\ Len(x.got) = n /\ x.best \in 1..n
        /\ x.at \in {"check", "call"} => ~x.passed
        /\ x.passed => x.best = n
    BY <1>7, <1>10, <1>12, <1>14
  <2>2. ~x.passed => FirstFewest(x)
    BY <1>7, <1>11, <1>14 DEF FirstFewest
  <2>. QED
    BY <1>9, <2>1, <2>2 DEF AttemptFits
<1>16. Fits(x)
  BY <1>1, <1>12, <1>14, <1>15 DEF Fits, CallFitsKind, PlanFits, SampleFits
<1>. QED
  BY <1>2, <1>3, <1>6, <1>14, <1>16, StrategyMoves

-----------------------------------------------------------------------------
(* The theorems of Strategies *)

LEMMA WorkStaysFit == StrategySpec => [](StrategyTypeOK /\ WorkFits /\ CanceledIsOver)
<1>1. StrategyInit => StrategyTypeOK /\ WorkFits /\ CanceledIsOver
  <2> SUFFICES ASSUME StrategyInit PROVE StrategyTypeOK /\ WorkFits /\ CanceledIsOver
    OBVIOUS
  <2>1. <<>> \in Seq(Texts \cup {"FAILED"}) /\ <<>> \in Seq(0..MaxErrors)
    BY EmptySeq
  <2>2. work \in Works /\ work.at = "new" /\ work.kind = "none" /\ work.call = "first"
    BY <2>1 DEF StrategyInit, NoWork, Works
  <2>3. Fits(work)
    BY <2>2 DEF Fits, CallFitsKind, PlanFits, SampleFits, AttemptFits
  <2>. QED
    BY <2>2, <2>3, LevelsKnown DEF StrategyInit, StrategyTypeOK, WorkFits, CanceledIsOver
<1>2. StrategyTypeOK /\ WorkFits /\ CanceledIsOver /\ [StrategyNext]_strategyVars
         => (StrategyTypeOK /\ WorkFits /\ CanceledIsOver)'
  <2> SUFFICES ASSUME StrategyTypeOK, WorkFits, CanceledIsOver, [StrategyNext]_strategyVars
               PROVE  StrategyTypeOK' /\ WorkFits' /\ CanceledIsOver'
    OBVIOUS
  <2>1. CASE StrategyStep
    <3>1. ASSUME NEW n \in 0..PlanSteps + 1, AnswerPlan(n) \/ AnswerReplan(n)
          PROVE  StrategyTypeOK' /\ WorkFits' /\ CanceledIsOver'
      <4>1. n \in Nat
        BY StrategyAssumption
      <4>. QED
        BY <3>1, <4>1, PlanStepsFit
    <3>2. ASSUME NEW text \in Texts,
                 AnswerSample(text) \/ AnswerPass(text) \/ AnswerAttempt(text)
                     \/ AnswerStep(text) \/ AnswerSynthesis(text)
          PROVE  StrategyTypeOK' /\ WorkFits' /\ CanceledIsOver'
      BY <3>2, SampleStepsFit, PassStepsFit, AttemptStepsFit, PlanStepsFit, LabelStepsFit, Zenon
    <3>. QED
      BY <2>1, <3>1, <3>2, BeginFits, LabelStepsFit, PlanStepsFit, Zenon DEF StrategyStep
  <2>2. CASE AskCancel
    BY <2>2 DEF AskCancel, StrategyTypeOK, WorkFits, CanceledIsOver
  <2>3. CASE RateGood
    <3>1. /\ srow' \in [status : {"running", "done", "canceled"},
                         quality : {QualityLevels[i] : i \in DOMAIN QualityLevels}]
          /\ srow'.status = srow.status
      <4> DEFINE quality == PromoteQuality(srow.quality, "operator-reviewed")
      <4>1. srow' = [srow EXCEPT !.quality = quality]
        BY <2>3 DEF RateGood, StrategyTypeOK
      <4>2. quality \in {QualityLevels[i] : i \in DOMAIN QualityLevels}
        <5>1. quality \in {srow.quality, "operator-reviewed"}
          BY LevelsKnown
        <5>. HIDE DEF quality
        <5>. QED
          BY <5>1, LevelsKnown DEF StrategyTypeOK
      <4>. HIDE DEF quality
      <4>. QED
        BY <4>1, <4>2 DEF StrategyTypeOK
    <3>2. UNCHANGED <<usage, work, wanted>>
      BY <2>3 DEF RateGood
    <3>. QED
      BY <3>1, <3>2 DEF StrategyTypeOK, WorkFits, CanceledIsOver
  <2>4. CASE UNCHANGED strategyVars
    BY <2>4 DEF strategyVars, StrategyTypeOK, WorkFits, CanceledIsOver
  <2>. QED
    BY <2>1, <2>2, <2>3, <2>4 DEF StrategyNext
<1>. QED
  BY <1>1, <1>2, PTL DEF StrategySpec

\* The row and the locals of a strategy keep their domains; in particular the
\* answer a majority or a length selects exists (_execute_self_consistency).
THEOREM StrategyTyped == StrategySpec => []StrategyTypeOK
BY WorkStaysFit, PTL

\* For every max_steps and whatever fails and is planned again, a plan-execute
\* run executes at most max_steps steps (_execute_plan_execute).
THEOREM PlansKeepToTheirBudget == StrategySpec => []PlanKeepsToItsBudget
<1>1. StrategyTypeOK /\ WorkFits => PlanKeepsToItsBudget
  <2> SUFFICES ASSUME StrategyTypeOK, WorkFits, work.kind = "plan-execute"
               PROVE  Len(work.got) <= PlanSteps
    BY DEF PlanKeepsToItsBudget
  <2>1. work.got \in Seq(Texts \cup {"FAILED"}) /\ work.plan \in Nat
    BY DEF StrategyTypeOK, Works
  <2>2. Len(work.got) \in Nat
    BY <2>1, LenProperties
  <2>3. /\ Len(work.got) <= work.plan \/ work.got = <<>>
        /\ work.plan <= PlanSteps
    BY DEF WorkFits, Fits, PlanFits, CallFitsKind
  <2>. QED
    BY <2>1, <2>2, <2>3, EmptySeq, StrategyAssumption
<1>. QED
  BY <1>1, WorkStaysFit, PTL

\* A verified run returns the response that passed, or the first of those with
\* the fewest errors (_execute_verified).
THEOREM TheBestAttemptIsKept == StrategySpec => []BestAttemptIsKept
<1>1. StrategyTypeOK /\ WorkFits => BestAttemptIsKept
  <2> SUFFICES ASSUME StrategyTypeOK, WorkFits, work.kind = "verified",
                      ~work.passed, NEW i \in DOMAIN work.errors
               PROVE  \/ work.errors[work.best] < work.errors[i]
                      \/ work.errors[work.best] = work.errors[i] /\ work.best <= i
    BY DEF BestAttemptIsKept, WorkFits, Fits, AttemptFits
  <2>1. work.errors \in Seq(0..MaxErrors)
    BY DEF StrategyTypeOK, Works
  <2>2. i \in 1..Len(work.errors) /\ Len(work.errors) \in Nat
    BY <2>1, LenProperties
  <2>3. work.best # 0
    BY <2>2 DEF WorkFits, Fits, AttemptFits
  <2>. QED
    BY <2>2, <2>3 DEF WorkFits, Fits, AttemptFits, FirstFewest
<1>. QED
  BY <1>1, WorkStaysFit, PTL

\* Of one, two or three samples an answer that more than half of them give, up
\* to case and blanks, is selected (_pick_majority_answer).  Of five it need
\* not be: two answers alike to the letter win over three that differ in case.
THEOREM MajoritiesWin ==
    ASSUME Samples <= 3
    PROVE  StrategySpec => []MajorityWins
<1>1. StrategyTypeOK /\ WorkFits => MajorityWins
  <2> SUFFICES ASSUME WorkFits, work.kind = "self-consistency", work.best # 0,
                      NEW i \in DOMAIN work.got,
                      2 * Cardinality({j \in DOMAIN work.got :
                                          Normal[work.got[j]] = Normal[work.got[i]]})
                          > Len(work.got)
               PROVE  Normal[work.got[work.best]] = Normal[work.got[i]]
    BY DEF MajorityWins
  <2> DEFINE n == Len(work.got)
             f == work.got
  <2>1. f \in Seq(Texts) /\ n <= Samples /\ n > 0 /\ work.best = PickMajorityAnswer(f)
    BY DEF WorkFits, Fits, SampleFits
  <2>2. n \in 1..3 /\ f \in [1..n -> Texts] /\ DOMAIN f = 1..n /\ i \in 1..n
    <3>1. n \in Nat /\ f \in [1..n -> Texts] /\ DOMAIN f = 1..n
      BY <2>1, LenProperties
    <3>. HIDE DEF n
    <3>2. n \in 1..3
      BY <2>1, <3>1, StrategyAssumption
    <3>. QED
      BY <3>1, <3>2 DEF f
  <2>3. {j \in DOMAIN f : Normal[f[j]] = Normal[f[i]]}
           = {j \in DOMAIN NormalOf(f) : NormalOf(f)[j] = NormalOf(f)[i]}
    BY DEF NormalOf
  <2>4. 2 * Occurs(NormalOf(f), i) > n
    BY <2>3, Zenon DEF Occurs
  <2>5. work.best \in 1..n
    BY <2>1, SelectedIsASample
  <2>6. NormalOf(f)[PickMajorityAnswer(f)] = NormalOf(f)[i]
    <3>. HIDE DEF f, n
    <3>. QED
      BY <2>2, <2>4, MajorityIsSelected
  <2>. QED
    BY <2>1, <2>2, <2>5, <2>6 DEF NormalOf
<1>. QED
  BY <1>1, WorkStaysFit, PTL

\* A run that was canceled while its strategy was under way is never completed
\* (execute_prepared_run).
THEOREM CanceledForGood == StrategySpec => CanceledStaysCanceled
<1>1. StrategyTypeOK /\ CanceledIsOver /\ [StrategyNext]_strategyVars
         => (srow.status = "canceled" => srow'.status = "canceled")
  <2> SUFFICES ASSUME StrategyTypeOK, CanceledIsOver, [StrategyNext]_strategyVars,
                      srow.status = "canceled"
               PROVE  srow'.status = "canceled"
    OBVIOUS
  <2>1. work.at = "raised"
    BY DEF CanceledIsOver
  <2>2. ~StrategyStep
    BY <2>1, Zenon
       DEF StrategyStep, Begin, NoticeCancel, PassCheck, AnswerSample, AnswerPass, AnswerAttempt,
           AnswerStep, AnswerSynthesis, AnswerPlan, AnswerReplan, FailStep, CancelCall, FailCall,
           Complete, WriteLevel, Responded, WorkAt
  <2>3. CASE RateGood
    BY <2>3 DEF RateGood, StrategyTypeOK
  <2>. QED
    BY <2>2, <2>3 DEF StrategyNext, AskCancel, strategyVars
<1>. QED
  BY <1>1, WorkStaysFit, PTL DEF StrategySpec, CanceledStaysCanceled

-----------------------------------------------------------------------------
(* The sum of the three *)

\* A step of the sum is a step of one of the three, in which the other two
\* stand still.
LEMMA SumStepsAreSteps ==
    [Next]_vars => [RecoveryNext]_recoveryVars /\ [StrategyNext]_strategyVars
                       /\ [DelegationNext]_delegationVars
<1>1. NextRecovery => RecoveryNext /\ UNCHANGED <<strategyVars, delegationVars>>
  BY Zenon DEF NextRecovery, InRecovery, RecoveryNext, RunStep
<1>2. NextStrategy => StrategyNext /\ UNCHANGED <<recoveryVars, delegationVars>>
  BY Zenon DEF NextStrategy, InStrategy, StrategyNext, StrategyStep
<1>3. NextTree => DelegationNext /\ UNCHANGED <<recoveryVars, strategyVars>>
  BY Zenon DEF NextTree, InTree, DelegationNext, LoopStep
<1>4. UNCHANGED vars => UNCHANGED <<recoveryVars, strategyVars, delegationVars>>
  BY DEF vars
<1>. QED
  BY <1>1, <1>2, <1>3, <1>4 DEF Next

\* What the run RunKinds explores is a behaviour of each of the three, so that
\* it keeps the domains of all, for every value of the constants.
THEOREM KindsTyped == Spec => []KindsTypeOK
<1>1. Init => RecoveryInit /\ StrategyInit /\ DelegationInit
  BY DEF Init
<1>2. RecoveryTypeOK /\ StrategyTypeOK /\ DelegationTypeOK => KindsTypeOK
  BY DEF KindsTypeOK
<1>3. Spec => RecoverySpec /\ StrategySpec /\ DelegationSpec
  BY <1>1, SumStepsAreSteps, PTL DEF Spec, RecoverySpec, StrategySpec, DelegationSpec
<1>. QED
  BY <1>2, <1>3, RecoveryTyped, StrategyTyped, DelegationTyped, PTL

=============================================================================
