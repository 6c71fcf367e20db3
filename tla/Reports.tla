------------------------------ MODULE Reports ------------------------------
(***************************************************************************)
(* Figures made of what the store holds: the rating a verified response    *)
(* sends to the mesh, benchmarks and their comparison, the examples that   *)
(* are exported for training, and the channel an escalation is sent on.    *)
(***************************************************************************)
EXTENDS Integers, Sequences, SequencesExt, FiniteSets

Sum(s) == FoldLeft(LAMBDA n, x : n + x, 0, s)

-----------------------------------------------------------------------------
(* Mesh feedback, in tenths.  A result is [verifier, passed, warnings]. *)

ScoreOne(result) ==
    IF ~result.passed THEN 0
    ELSE IF result.warnings >= 4 THEN 6
    ELSE 10 - result.warnings

\* A fraction: scores times weights over weights, or one half.
RatingFromResults(results, weights) ==
    LET weight(r) == IF r.verifier \in DOMAIN weights THEN weights[r.verifier] ELSE 1
        counted == SelectSeq(results, LAMBDA r : weight(r) > 0)
        total == Sum([i \in DOMAIN counted |-> weight(counted[i])])
    IN  IF counted = <<>> THEN [score |-> 5, of |-> 10]
        ELSE [score |-> Sum([i \in DOMAIN counted |-> ScoreOne(counted[i]) * weight(counted[i])]),
              of |-> 10 * total]

Results == [verifier : {"sql", "json"}, passed : BOOLEAN, warnings : {0, 3, 9}]
ResultLists == UNION {[1..n -> Results] : n \in 0..2}
Weights == {<<>>} \cup [{"sql"} -> {0, 1, 3}]
Worse(r) == [r EXCEPT !.passed = FALSE]

\* The rating stays between 0 and 1, and a verifier that fails instead of
\* passing never raises it, whatever the weights (rating_from_results).
ASSUME RatingIsMonotone ==
    \A results \in ResultLists, weights \in Weights :
        LET rating == RatingFromResults(results, weights)
        IN  /\ 0 <= rating.score /\ rating.score <= rating.of
            /\ \A i \in DOMAIN results :
                  LET worse == RatingFromResults([results EXCEPT ![i] = Worse(@)], weights)
                  IN  worse.of = rating.of /\ worse.score <= rating.score

-----------------------------------------------------------------------------
(* Benchmarks.  A case that was left out asks for "". *)

EvaluateCase(case, run, seen, matches) ==
    /\ case.status = "" \/ (run.exists /\ run.status = case.status)
    /\ case.backend = "" \/ (run.exists /\ run.backend = case.backend)
    /\ case.events \subseteq seen
    /\ case.failure = "" \/ (run.exists /\ run.failure = case.failure)
    /\ case.recoveries < 0 \/ (run.exists /\ run.recoveries >= case.recoveries)
    /\ IF case.match = "not_contains" THEN ~matches ELSE matches

\* Of one case in two runs: "absent", "passed" or "failed".
CaseOutcome(left, right) ==
    IF "absent" \notin {left, right} /\ left = right THEN "unchanged"
    ELSE IF left # "passed" /\ right = "passed" THEN "improved"
    ELSE IF left = "passed" /\ right # "passed" THEN "regressed"
    ELSE "changed"

Direction(left, right, lowerIsBetter) ==
    IF left = right THEN "unchanged"
    ELSE IF (right < left) = lowerIsBetter THEN "improved" ELSE "regressed"

\* The events of a run, counted; ok is of a tool_result.
CollectRunMetrics(events) ==
    LET of(type) == Len(SelectSeq(events, LAMBDA e : e.type = type))
    IN  [calls |-> of("tool_called"), recoveries |-> of("recovery_attempted"),
         errors |-> Len(SelectSeq(events, LAMBDA e : e.type = "tool_result" /\ ~e.ok)),
         attempts |-> of("verification_attempted"), passes |-> of("verification_passed"),
         compactions |-> of("context_compacted"),
         steps |-> of("step_completed") + of("plan_execute_step_completed")]

\* Of all runs: sums, and the cases that failed.
CollectSuiteMetrics(passed, runs) ==
    LET total(f) == Sum([i \in DOMAIN runs |-> runs[i][f]])
    IN  [cases |-> Len(passed), failed |-> Len(passed) - Len(SelectSeq(passed, LAMBDA p : p)),
         calls |-> total("calls"), errors |-> total("errors"), attempts |-> total("attempts"),
         passes |-> total("passes"), recoveries |-> total("recoveries")]

\* The operator of a benchmark case, who has a note to inject, perhaps only
\* once a tool has asked for approval, and a pattern of calls to approve.
NoControls == [queued |-> FALSE, consumed |-> FALSE, asked |-> FALSE]

ApproveTool(case, s) ==
    IF case.pattern THEN [s EXCEPT !.asked = TRUE, !.queued = @ \/ (case.note /\ case.afterApproval)] ELSE s

Consumes(case, s) == case.note /\ ~s.consumed /\ (case.afterApproval => s.asked)
ConsumeOperatorNotes(case, s) ==
    IF Consumes(case, s) THEN [s EXCEPT !.queued = TRUE, !.consumed = TRUE] ELSE s

Marks == {"absent", "passed", "failed"}
Reverse2(outcome) ==
    CASE outcome = "improved" -> "regressed" [] outcome = "regressed" -> "improved" [] OTHER -> outcome

\* Compared the other way round, what improved has regressed and the rest is
\* as it was; a case or figure that is the same in both never counts as either
\* (compare_benchmark_summaries, _compute_metric_deltas).
ASSUME ComparisonIsSymmetric ==
    /\ \A l, r \in Marks : CaseOutcome(r, l) = Reverse2(CaseOutcome(l, r))
    /\ \A l \in Marks : CaseOutcome(l, l) \notin {"improved", "regressed"}
    /\ \A l, r \in 0..2, lower \in BOOLEAN : Direction(r, l, lower) = Reverse2(Direction(l, r, lower))

Missing == [exists |-> FALSE, status |-> "", backend |-> "", failure |-> "", recoveries |-> 0]

\* A run that is missing passes no case that asks anything of it, and one that
\* forbids a text alone it does pass (evaluate_case).
ASSUME MissingRunFails ==
    \A status, backend, failure \in {"", "x"}, n \in -1..1, events \in SUBSET {"e"} :
        LET case == [status |-> status, backend |-> backend, failure |-> failure,
                     recoveries |-> n, events |-> events, match |-> "not_contains"]
        IN  EvaluateCase(case, Missing, {}, FALSE)
                <=> status = "" /\ backend = "" /\ failure = "" /\ n = -1 /\ events = {}

Asked(case, calls) ==
    FoldLeft(LAMBDA s, c : IF c = "approve" THEN ApproveTool(case, s) ELSE ConsumeOperatorNotes(case, s),
             NoControls, calls)

\* In whatever order a run asks for approval and for notes, the note is handed
\* over once at most, never before the approval it waits for, and always by
\* the first look behind that (_BenchmarkControls).
ASSUME NoteIsHandedOverOnce ==
    \A case \in [note : BOOLEAN, afterApproval : BOOLEAN, pattern : BOOLEAN],
       calls \in UNION {[1..n -> {"approve", "notes"}] : n \in 0..4} :
        LET handed == {i \in DOMAIN calls : /\ calls[i] = "notes"
                                            /\ Consumes(case, Asked(case, SubSeq(calls, 1, i - 1)))}
            ready == {i \in DOMAIN calls : /\ calls[i] = "notes"
                                           /\ case.afterApproval =>
                                                 case.pattern /\ \E j \in 1..i : calls[j] = "approve"}
        IN  handed = IF ~case.note THEN {} ELSE {i \in ready : \A j \in ready : i <= j}

Events == [type : {"tool_called", "tool_result", "step_completed", "plan_execute_step_completed", "run_created"},
           ok : BOOLEAN]

\* Each event is counted in at most one figure, and the figures of a suite are
\* the sums over its runs (collect_run_metrics, collect_suite_metrics).
ASSUME FiguresAddUp ==
    \A a, b \in Events :
        LET figures(r) == r.calls + r.errors + r.steps + r.attempts + r.passes + r.recoveries
            both == CollectRunMetrics(<<a, b>>)
            one == CollectRunMetrics(<<a>>)
            two == CollectRunMetrics(<<b>>)
            suite == CollectSuiteMetrics(<<TRUE, FALSE>>, <<one, two>>)
        IN  /\ figures(one) <= 1 /\ figures(both) = figures(one) + figures(two)
            /\ suite.calls = both.calls /\ suite.errors = both.errors /\ suite.failed = 1

-----------------------------------------------------------------------------
(* Training examples *)

RatingRank == [good |-> 2, edit |-> 1, skip |-> 0, bad |-> -1]
RankOf(rating) == IF rating \in DOMAIN RatingRank THEN RatingRank[rating] ELSE -2

\* An interaction is [query, response, rating, domain]; one without a rating,
\* or of another domain, is left out.  A goal with answers on both sides of
\* the threshold gives every pair, one with good answers alone gives those,
\* one with bad answers alone gives nothing.  Corrections, which come as pairs,
\* are added behind, and a limit cuts the list.
CollectPreferencePairs(interactions, minRating, domain) ==
    LET threshold == IF minRating \in DOMAIN RatingRank THEN RatingRank[minRating] ELSE 2
        used == {x \in ToSet(interactions) : x.rating # "" /\ (domain = "" \/ x.domain = domain)}
        above(q) == {x \in used : x.query = q /\ RankOf(x.rating) >= threshold}
        below(q) == {x \in used : x.query = q /\ RankOf(x.rating) < threshold}
        nobody == [response |-> "", rating |-> ""]
    IN  UNION {{[query |-> q, chosen |-> x.response, rejected |-> y.response,
                 above |-> x.rating, below |-> y.rating] :
                    x \in above(q), y \in IF below(q) = {} THEN {nobody} ELSE below(q)} :
                q \in {x.query : x \in used}}

Told == [query : {"q", "r"}, response : {"x", "y"}, rating : {"", "good", "edit", "bad", "odd"}, domain : {"d"}]

\* A chosen answer never has a worse rating than one it is preferred to, and
\* every rated answer that is good enough is chosen (collect_preference_pairs).
ASSUME PairsAreOrdered ==
    \A a, b \in Told, minRating \in {"good", "edit", "bad"} :
        LET pairs == CollectPreferencePairs(<<a, b>>, minRating, "")
        IN  /\ \A p \in pairs : /\ RankOf(p.above) >= RatingRank[minRating]
                                /\ p.below # "" => RankOf(p.below) < RankOf(p.above)
            /\ RankOf(a.rating) >= RatingRank[minRating] =>
                   \E p \in pairs : p.query = a.query /\ p.chosen = a.response

-----------------------------------------------------------------------------
(* Escalation *)

\* A channel of the file that lacks what its type needs is left out.
BuildChannel(spec) ==
    IF spec.type \in {"shell", "file"} \/ (spec.type \in {"webhook", "command"} /\ spec.given)
    THEN spec.type ELSE "none"

\* There is always a default, which is the shell unless the file names another.
LoadEscalationConfig(specs, default) ==
    LET built == {n \in DOMAIN specs : BuildChannel(specs[n]) # "none"}
        channels == [n \in built \cup {"default"} |->
                        IF n \in built THEN BuildChannel(specs[n]) ELSE "shell"]
    IN  IF default \in DOMAIN channels THEN [channels EXCEPT !["default"] = channels[default]]
        ELSE IF default = "shell" THEN [channels EXCEPT !["default"] = "shell"]
        ELSE channels

Channel(channels, name) ==
    IF name \in DOMAIN channels THEN channels[name] ELSE channels["default"]

Specs == [type : {"shell", "webhook", "odd"}, given : BOOLEAN]

\* Whatever the file says and whichever channel is asked for, there is one to
\* send on, and one that was built is used under its name
\* (load_escalation_config, escalate).
ASSUME AlwaysSomeChannel ==
    \A specs \in [{"a", "b"} -> Specs], default \in {"a", "b", "c", "shell"}, name \in {"a", "b", "c"} :
        LET channels == LoadEscalationConfig(specs, default)
        IN  /\ Channel(channels, name) \in {"shell", "webhook"}
            /\ (name \in {"a", "b"} /\ specs[name].type = "shell") => Channel(channels, name) = "shell"
            /\ (default \in {"a", "b"} /\ BuildChannel(specs[default]) = "webhook")
                  => Channel(channels, "c") = "webhook"
=============================================================================
