------------------------------ MODULE Routing ------------------------------
(***************************************************************************)
(* Which backend is suggested for a goal: statistics of the runs there     *)
(* were, and hints on what a backend is good at.  Rates and means are kept *)
(* as fractions.                                                           *)
(***************************************************************************)
EXTENDS Integers, Sequences, SequencesExt, FiniteSets

MinRuns == 5

-----------------------------------------------------------------------------
(* A run is [backend, status, domain, tokens], a rating [run, good]. *)

Where(runs, domain) == {r \in DOMAIN runs : domain = "" \/ runs[r].domain = domain}
Of(runs, rows, backend) == {r \in rows : runs[r].backend = backend}
CountOf(runs, rows, status) == Cardinality({r \in rows : runs[r].status = status})

\* The ratings are those of every domain.
StatsOf(runs, ratings, domain, backend) ==
    LET rows == Of(runs, Where(runs, domain), backend)
        rated(good) == {i \in DOMAIN ratings : /\ runs[ratings[i].run].backend = backend
                                               /\ ratings[i].good = good}
    IN  [backend |-> backend, total |-> Cardinality(rows),
         ok |-> CountOf(runs, rows, "done"), fail |-> CountOf(runs, rows, "failed"),
         tokens |-> FoldLeft(LAMBDA n, r : n + runs[r].tokens, 0, SetToSeq(rows)),
         positive |-> Cardinality(rated(TRUE)), negative |-> Cardinality(rated(FALSE))]

\* Backends with few runs have no statistics.
CollectRoutingStats(runs, ratings, domain, names, minRuns) ==
    SelectSeq([i \in DOMAIN names |-> StatsOf(runs, ratings, domain, names[i])],
              LAMBDA s : s.total > 0 /\ s.total >= minRuns)

-----------------------------------------------------------------------------
(* Suggestion *)

\* The backends that are hinted at: those of the table of hints, in its order,
\* then those that offer a model whose name says so, in no order of their own.
TaskPreferred(hints, task, available, offering) ==
    LET table == SelectSeq(hints, LAMBDA h : h.backend \in available /\ task \in h.tasks)
        named == [i \in DOMAIN table |-> table[i].backend]
    IN  named \o SetToSeq((offering \cap available) \ ToSet(named))

HigherRate(a, b) == a.ok * b.total > b.ok * a.total
SameRate(a, b) == a.ok * b.total = b.ok * a.total
FewerTokens(a, b) == a.tokens * b.total < b.tokens * a.total

Preferred(hinted, a, b) ==
    LET A == a.backend \in hinted
        B == b.backend \in hinted
    IN  \/ A /\ ~B
        \/ A = B /\ (HigherRate(a, b) \/ (SameRate(a, b) /\ FewerTokens(a, b)))

\* The sort is stable: of equals the one that comes first in the statistics.
SuggestBackend(stats, available, preferred) ==
    LET candidates == SelectSeq(stats, LAMBDA s : s.backend \in available)
        hinted == ToSet(preferred)
        first(i) == \A j \in DOMAIN candidates :
                       /\ ~Preferred(hinted, candidates[j], candidates[i])
                       /\ Preferred(hinted, candidates[i], candidates[j]) \/ i <= j
        best == candidates[CHOOSE i \in DOMAIN candidates : first(i)]
    IN  IF candidates = <<>>
        THEN IF preferred = <<>> THEN "none" ELSE preferred[1]
        ELSE IF 2 * best.ok <= best.total THEN "none" ELSE best.backend

-----------------------------------------------------------------------------
Backends == {"a", "b"}
Figures == {[ok |-> 0, total |-> 2, tokens |-> 2], [ok |-> 1, total |-> 2, tokens |-> 2],
            [ok |-> 2, total |-> 2, tokens |-> 4], [ok |-> 2, total |-> 2, tokens |-> 2],
            [ok |-> 2, total |-> 3, tokens |-> 2]}
Stats(f, g) ==
    <<[backend |-> "a", ok |-> f.ok, total |-> f.total, tokens |-> f.tokens],
      [backend |-> "b", ok |-> g.ok, total |-> g.total, tokens |-> g.tokens]>>

Hints == <<[backend |-> "a", tasks |-> {"code", "search"}], [backend |-> "b", tasks |-> {"code"}]>>

\* The suggestion is available, and without a history hinted at.  With one it
\* succeeds more often than not, it is no worse than another that is hinted at
\* as much, and it is not passed over for one that nothing hints at
\* (suggest_backend).
ASSUME SuggestionIsGood ==
    \A f, g \in Figures, available, offering \in SUBSET Backends, task \in {"code", "search", "chat"}, known \in BOOLEAN :
        LET stats == IF known THEN Stats(f, g) ELSE <<>>
            preferred == TaskPreferred(Hints, task, available, offering)
            suggested == SuggestBackend(stats, available, preferred)
        IN  /\ suggested \in available \cup {"none"}
            /\ ~known => (suggested = "none" \/ suggested \in ToSet(preferred))
            /\ \A s, t \in ToSet(stats) :
                  s.backend = suggested /\ t.backend \in available =>
                      /\ 2 * s.ok > s.total
                      /\ t.backend \in ToSet(preferred) => s.backend \in ToSet(preferred)
                      /\ (t.backend \in ToSet(preferred)) = (s.backend \in ToSet(preferred)) => ~HigherRate(t, s)

\* A hint outweighs the history: when every backend that is hinted at fails as
\* often as not, nothing is suggested, whatever the others achieve.
ASSUME HintsComeFirst ==
    \A f, g \in Figures :
        2 * f.ok <= f.total => SuggestBackend(Stats(f, g), Backends, <<"a">>) = "none"

Rows == [backend : Backends, status : {"done", "failed", "canceled"}, domain : {"", "x"}, tokens : {1}]

\* Every run of a backend that reaches the minimum is counted once, in its
\* domain, a canceled one as neither success nor failure (collect_routing_stats).
ASSUME StatsAddUp ==
    \A r, s, t \in Rows, domain \in {"", "x"} :
        LET runs == <<r, s, t>>
            stats == CollectRoutingStats(runs, <<[run |-> 1, good |-> TRUE]>>, domain, <<"a", "b">>, 2)
        IN  /\ \A i \in DOMAIN stats :
                  /\ stats[i].ok + stats[i].fail + CountOf(runs, Of(runs, Where(runs, domain), stats[i].backend), "canceled")
                        = stats[i].total
                  /\ stats[i].total \in 2..3 /\ stats[i].tokens = stats[i].total
            /\ Len(stats) <= 1
=============================================================================
