----------------------------- MODULE Strategies -----------------------------
(***************************************************************************)
(* The strategies of one run that call the backend several times:          *)
(* self-consistency, critique-revise, debate, plan-execute and verified,   *)
(* from the branch of execute_prepared_run that calls them to the quality  *)
(* level it writes after completing the run, and the operator who asks for *)
(* a cancel or rates the run meanwhile.                                    *)
(*                                                                         *)
(* A response is one of a few texts; a verifier's verdict is a number of   *)
(* errors.  Prompts, previews and events are left out, except that the     *)
(* token usage of a response is one row per response.                      *)
(***************************************************************************)
EXTENDS Naturals, Sequences, FiniteSets

CONSTANTS
    Kinds,       \* strategies that are asked for
    Texts,       \* outputs a backend gives
    Normal,      \* of an output: itself, stripped and in lower case
    Length,      \* of an output: its length
    Samples,     \* consistency_samples
    PlanSteps,   \* max_steps of plan-execute (8 in the code)
    MaxErrors    \* errors a verification reports at most

ASSUME StrategyAssumption ==
    /\ Kinds \subseteq {"self-consistency", "critique-revise", "debate",
                        "plan-execute", "verified"}
    /\ Texts \subseteq DOMAIN Normal /\ Texts \subseteq DOMAIN Length
    /\ \A text \in Texts : Length[text] \in Nat
    /\ Samples \in Nat \ {0} /\ PlanSteps \in Nat \ {0} /\ MaxErrors \in Nat

VARIABLES
    srow,        \* runs: status and quality_level
    usage,       \* rows of token usage
    work,        \* locals of the strategy
    wanted       \* the operator asked for a cancel

strategyVars == <<srow, usage, work, wanted>>

MaxAttempts == 3
QualityLevels == <<"unverified", "self-checked", "tool-verified", "operator-reviewed">>
Rank(level) == CHOOSE i \in DOMAIN QualityLevels : QualityLevels[i] = level

\* Mutant: a level that is none of the levels.
QualityOfCritique(kind) ==
    CASE kind = "critique-revise" -> "critiqued"
      [] kind = "verified"        -> "tool-verified"
      [] OTHER                    -> "unverified"

\* quality_from_strategy goes by the name of the strategy alone.
QualityOf(kind) ==
    CASE kind = "critique-revise" -> "self-checked"
      [] kind = "verified"        -> "tool-verified"
      [] OTHER                    -> "unverified"

PromoteQuality(current, new) == IF Rank(new) > Rank(current) THEN new ELSE current

\* call: which response comes next; got: responses so far (for plan-execute,
\* the results of its steps); plan: steps planned; errors: of each attempt;
\* best: the attempt whose response is kept.
Works ==
    [at : {"new", "check", "call", "complete", "level", "returned", "raised"},
     kind : Kinds \cup {"none"}, call : {"first", "plan", "step", "replan", "synthesis"},
     got : Seq(Texts \cup {"FAILED"}), plan : Nat, errors : Seq(0..MaxErrors),
     best : Nat, passed : BOOLEAN]
NoWork == [at |-> "new", kind |-> "none", call |-> "first", got |-> <<>>,
           plan |-> 0, errors |-> <<>>, best |-> 0, passed |-> FALSE]

WorkAt(l) == work.at = l
Raise == work' = [work EXCEPT !.at = "raised"]

StrategyInit ==
    /\ srow = [status |-> "running", quality |-> "unverified"]
    /\ usage = 0 /\ work = NoWork /\ wanted = FALSE

\* The first index whose answer is given most often, when one is given twice;
\* then the same of the normalised answers; else the longest answer.
Occurs(f, i) == Cardinality({j \in DOMAIN f : f[j] = f[i]})
MostCommon(f) == CHOOSE i \in DOMAIN f :
    \A j \in DOMAIN f : Occurs(f, i) > Occurs(f, j) \/ (Occurs(f, i) = Occurs(f, j) /\ i <= j)
Longest(f) == CHOOSE i \in DOMAIN f :
    \A j \in DOMAIN f : Length[f[i]] > Length[f[j]] \/ (Length[f[i]] = Length[f[j]] /\ i <= j)

\* Mutant: answers that differ in case or blanks are not brought together.
PickExactAnswer(samples) ==
    IF Occurs(samples, MostCommon(samples)) > 1 THEN MostCommon(samples) ELSE Longest(samples)

PickMajorityAnswer(samples) ==
    LET normalized == [i \in DOMAIN samples |-> Normal[samples[i]]]
    IN  IF Occurs(samples, MostCommon(samples)) > 1 THEN MostCommon(samples)
        ELSE IF Occurs(normalized, MostCommon(normalized)) > 1 THEN MostCommon(normalized)
        ELSE Longest(samples)

-----------------------------------------------------------------------------
Begin(kind) ==
    /\ WorkAt("new")
    /\ work' = [NoWork EXCEPT !.kind = kind,
                   !.at = IF kind \in {"self-consistency", "verified"} THEN "check" ELSE "call",
                   !.call = IF kind = "plan-execute" THEN "plan" ELSE "first"]
    /\ UNCHANGED <<srow, usage, wanted>>

\* cancel_requested before a sample, an attempt, a step or a perspective.
NoticeCancel ==
    /\ WorkAt("check") /\ wanted
    /\ srow' = [srow EXCEPT !.status = "canceled"]
    /\ Raise
    /\ UNCHANGED <<usage, wanted>>

PassCheck ==
    /\ WorkAt("check") /\ ~wanted
    /\ work' = [work EXCEPT !.at = "call"]
    /\ UNCHANGED <<srow, usage, wanted>>

Responded == WorkAt("call") /\ UNCHANGED <<srow, wanted>>

AnswerSample(text) ==
    /\ Responded /\ work.kind = "self-consistency"
    /\ usage' = usage + 1
    /\ LET got == Append(work.got, text)
       IN  work' = IF Len(got) < Samples
                   THEN [work EXCEPT !.at = "check", !.got = got]
                   ELSE [work EXCEPT !.at = "complete", !.got = got,
                                     !.best = PickMajorityAnswer(got)]

\* Draft, critique, revision: no cancel is looked for.  Perspective A, B,
\* synthesis: one is, before the second and the third.
AnswerPass(text) ==
    /\ Responded /\ work.kind \in {"critique-revise", "debate"}
    /\ usage' = usage + 1
    /\ work' = [work EXCEPT !.got = Append(@, text), !.best = Len(work.got) + 1,
                            !.at = IF Len(work.got) = 2 THEN "complete"
                                   ELSE IF work.kind = "debate" THEN "check" ELSE "call"]

\* Mutant: an attempt with as many errors replaces the one before it.
AnswerAttemptLast(text) ==
    /\ Responded /\ work.kind = "verified"
    /\ usage' = usage + 1
    /\ \E passed \in BOOLEAN, errors \in 0..MaxErrors :
          /\ passed <=> errors = 0
          /\ LET n == Len(work.got) + 1
                 better == work.best = 0 \/ errors <= work.errors[work.best]
             IN  work' = [work EXCEPT !.got = Append(@, text), !.errors = Append(@, errors),
                             !.passed = passed,
                             !.best = IF better \/ passed THEN n ELSE @,
                             !.at = IF passed \/ n = MaxAttempts THEN "complete" ELSE "check"]

\* The response is verified at once: it passes when no verifier names an
\* error, and a verifier that is not known names one.
AnswerAttempt(text) ==
    /\ Responded /\ work.kind = "verified"
    /\ usage' = usage + 1
    /\ \E passed \in BOOLEAN, errors \in 0..MaxErrors :
          /\ passed <=> errors = 0
          /\ LET n == Len(work.got) + 1
                 better == work.best = 0 \/ errors < work.errors[work.best]
             IN  work' = [work EXCEPT !.got = Append(@, text), !.errors = Append(@, errors),
                             !.passed = passed,
                             !.best = IF better \/ passed THEN n ELSE @,
                             !.at = IF passed \/ n = MaxAttempts THEN "complete" ELSE "check"]

\* Before a step, or before the synthesis once the steps are through.
NextStep(w) ==
    IF Len(w.got) < w.plan THEN [w EXCEPT !.at = "check", !.call = "step"]
    ELSE [w EXCEPT !.at = "call", !.call = "synthesis"]

\* parse_numbered_steps finds n steps; without any the goal is the step.
AnswerPlan(n) ==
    /\ Responded /\ work.call = "plan"
    /\ usage' = usage + 1
    /\ work' = NextStep([work EXCEPT !.plan = IF n = 0 THEN 1 ELSE IF n > PlanSteps THEN PlanSteps ELSE n])

AnswerStep(text) ==
    /\ Responded /\ work.call = "step"
    /\ usage' = usage + 1
    /\ work' = NextStep([work EXCEPT !.got = Append(@, text)])

\* An exception that is no RuntimeError: the step counts as FAILED, and the
\* rest is planned again.
FailStep ==
    /\ WorkAt("call") /\ work.call = "step"
    /\ work' = [work EXCEPT !.got = Append(@, "FAILED"), !.call = "replan"]
    /\ UNCHANGED <<srow, usage, wanted>>

\* Mutant: each revised plan may have max_steps of its own.
AnswerReplanAnew(n) ==
    /\ Responded /\ work.call = "replan"
    /\ usage' = usage + 1
    /\ work' = NextStep([work EXCEPT !.plan = IF n = 0 THEN @ ELSE Len(work.got) + n])

\* The steps after this one are replaced, within what is left of max_steps;
\* a revision without steps leaves them.
AnswerReplan(n) ==
    /\ Responded /\ work.call = "replan"
    /\ usage' = usage + 1
    /\ LET done == Len(work.got)
           revised == done + (IF n > PlanSteps - done THEN PlanSteps - done ELSE n)
       IN  work' = NextStep([work EXCEPT !.plan = IF n = 0 THEN @ ELSE revised])

AnswerSynthesis(text) ==
    /\ Responded /\ work.call = "synthesis"
    /\ usage' = usage + 1
    /\ work' = [work EXCEPT !.at = "complete"]

\* Mutant: the RuntimeError of a cancel is one more failed step.
CancelCallAsFailure ==
    /\ WorkAt("call") /\ wanted
    /\ srow' = [srow EXCEPT !.status = "canceled"]
    /\ work' = IF work.call = "step"
               THEN [work EXCEPT !.got = Append(@, "FAILED"), !.call = "replan"]
               ELSE [work EXCEPT !.at = "raised"]
    /\ UNCHANGED <<usage, wanted>>

\* The process of the backend is terminated; the strategy raises RuntimeError.
CancelCall ==
    /\ WorkAt("call") /\ wanted
    /\ srow' = [srow EXCEPT !.status = "canceled"]
    /\ Raise
    /\ UNCHANGED <<usage, wanted>>

\* An error no branch handles leaves the run running.
FailCall ==
    /\ WorkAt("call")
    /\ Raise
    /\ UNCHANGED <<srow, usage, wanted>>

Complete ==
    /\ WorkAt("complete")
    /\ srow' = [srow EXCEPT !.status = "done"]
    /\ work' = [work EXCEPT !.at = "level"]
    /\ UNCHANGED <<usage, wanted>>

\* The level of the strategy, raised by the verdict, replaces what the row says
\* unless it is "unverified".
WriteLevel ==
    /\ WorkAt("level")
    /\ LET verdict == IF work.passed THEN "tool-verified" ELSE "unverified"
           quality == IF work.kind = "verified" THEN PromoteQuality(QualityOf(work.kind), verdict)
                      ELSE QualityOf(work.kind)
       IN  srow' = IF quality = "unverified" THEN srow ELSE [srow EXCEPT !.quality = quality]
    /\ work' = [work EXCEPT !.at = "returned"]
    /\ UNCHANGED <<usage, wanted>>

-----------------------------------------------------------------------------
AskCancel ==
    /\ ~wanted /\ work.at \notin {"returned", "raised"}
    /\ wanted' = TRUE
    /\ UNCHANGED <<srow, usage, work>>

\* rate: quality_from_rating of a good rating.
RateGood ==
    /\ work.at # "new"
    /\ srow' = [srow EXCEPT !.quality = PromoteQuality(@, "operator-reviewed")]
    /\ UNCHANGED <<usage, work, wanted>>

StrategyStep ==
    \/ \E kind \in Kinds : Begin(kind)
    \/ NoticeCancel \/ PassCheck
    \/ \E text \in Texts : AnswerSample(text) \/ AnswerPass(text) \/ AnswerAttempt(text)
                           \/ AnswerStep(text) \/ AnswerSynthesis(text)
    \/ \E n \in 0..PlanSteps + 1 : AnswerPlan(n) \/ AnswerReplan(n)
    \/ FailStep \/ CancelCall \/ FailCall \/ Complete \/ WriteLevel

StrategyNext == StrategyStep \/ AskCancel \/ RateGood

StrategySpec == StrategyInit /\ [][StrategyNext]_strategyVars

-----------------------------------------------------------------------------
StrategyTypeOK ==
    /\ srow \in [status : {"running", "done", "canceled"},
                 quality : {QualityLevels[i] : i \in DOMAIN QualityLevels}]
    /\ usage \in Nat /\ wanted \in BOOLEAN
    /\ work \in Works

\* Whatever fails and however often the rest is planned again, a plan-execute
\* run executes at most max_steps steps (remaining_budget, orchestrator.py:1783).
PlanKeepsToItsBudget == Len(work.got) <= PlanSteps \/ work.kind # "plan-execute"

\* A run that was canceled while its strategy was under way is not completed
\* afterwards (the RuntimeError passes the handler of failed steps).
CanceledStaysCanceled ==
    [][srow.status = "canceled" => srow'.status = "canceled"]_strategyVars

\* With three samples, an answer that two of them give, up to case and blanks,
\* is the one that is selected (_pick_majority_answer).
MajorityWins ==
    work.kind = "self-consistency" /\ work.best # 0 =>
        \A i \in DOMAIN work.got :
            2 * Cardinality({j \in DOMAIN work.got : Normal[work.got[j]] = Normal[work.got[i]]})
                > Len(work.got)
            => Normal[work.got[work.best]] = Normal[work.got[i]]

\* A verified run that never passed returns the first of the responses with
\* the fewest errors; one that passed returns the one that did.
BestAttemptIsKept ==
    work.kind = "verified" /\ WorkAt("complete") =>
        IF work.passed THEN work.best = Len(work.got)
        ELSE \A i \in DOMAIN work.errors :
                \/ work.errors[work.best] < work.errors[i]
                \/ work.errors[work.best] = work.errors[i] /\ work.best <= i

=============================================================================
