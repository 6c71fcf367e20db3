----------------------------- MODULE Verifiers -----------------------------
(***************************************************************************)
(* What a verified run is judged by: the SQL checks, character by          *)
(* character as far as quotes and parentheses go, and the sums of the      *)
(* bookkeeping check, line by line.                                        *)
(***************************************************************************)
EXTENDS Integers, Sequences, SequencesExt

-----------------------------------------------------------------------------
(* Quotes and parentheses: "s" and "d" are the quotes, "(" and ")" the *)
(* parentheses, "x" is anything else. *)

Scan(text) ==
    FoldLeft(LAMBDA s, ch :
                IF s.error THEN s
                ELSE IF ch = "s" /\ ~s.double THEN [s EXCEPT !.single = ~@]
                ELSE IF ch = "d" /\ ~s.single THEN [s EXCEPT !.double = ~@]
                ELSE IF s.single \/ s.double THEN s
                ELSE IF ch = "(" THEN [s EXCEPT !.depth = @ + 1]
                ELSE IF ch = ")" THEN [s EXCEPT !.depth = @ - 1, !.error = s.depth = 0]
                ELSE s,
             [depth |-> 0, single |-> FALSE, double |-> FALSE, error |-> FALSE], text)

CheckBalancedParens(text) == ~Scan(text).error /\ Scan(text).depth = 0

CheckUnclosedQuotes(text) ==
    LET quotes == Scan(SelectSeq(text, LAMBDA ch : ch \notin {"(", ")"}))
    IN  ~quotes.single /\ ~quotes.double

\* A block passes without errors; wrong order of clauses is one more of them.
SqlPasses(blocks) ==
    \A i \in DOMAIN blocks :
        CheckUnclosedQuotes(blocks[i].text) /\ CheckBalancedParens(blocks[i].text) /\ ~blocks[i].misplaced

-----------------------------------------------------------------------------
(* Bookkeeping.  A line is the words it has and its amounts, in cents. *)

IsSumTotalLine(l) == l.amounts # <<>> /\ l.words \cap {"total", "subtotal", "net"} # {}
Ledger(para) == \A w \in {"debit", "credit"} : \E i \in DOMAIN para : w \in para[i].words
OfLedger(l) == l.words \cap {"debit", "credit"} # {}
NonLedgerAmounts(para) == \E i \in DOMAIN para : ~OfLedger(para[i]) /\ para[i].amounts # <<>>

\* A net or a balance in a ledger is no total of the lines before it.
SkipSumLine(l, para) ==
    /\ Ledger(para) /\ l.words \cap {"total", "subtotal"} = {}
    /\ l.words \cap {"balance", "net"} # {}

Total(amounts) == FoldLeft(LAMBDA n, a : n + a, 0, amounts)
Differ(a, b) == a - b > 1 \/ b - a > 1

\* What the lines from..to add, behind a total line at last, or 0 if there is none.
SumBetween(para, last, to) ==
    LET carried == IF last > 0 /\ "subtotal" \in para[last].words THEN Last(para[last].amounts) ELSE 0
        counts(l) == /\ ~IsSumTotalLine(l) /\ ~SkipSumLine(l, para)
                     /\ ~(Ledger(para) /\ NonLedgerAmounts(para) /\ OfLedger(l))
    IN  carried + Total([i \in 1..to - last - 1 |->
                            IF counts(para[last + i]) THEN Total(para[last + i].amounts) ELSE 0])

\* The total lines that are looked at.
Declares(para, i) ==
    /\ IsSumTotalLine(para[i]) /\ ~SkipSumLine(para[i], para)
    /\ ~(Ledger(para) /\ ~NonLedgerAmounts(para))

SumErrors(para) ==
    LET before(i) == {j \in 1..i - 1 : Declares(para, j)}
        last(i) == IF before(i) = {} THEN 0 ELSE CHOOSE j \in before(i) : \A k \in before(i) : k <= j
    IN  {i \in {j \in DOMAIN para : Declares(para, j)} :
            /\ last(i) < i - 1 \/ SumBetween(para, last(i), i) # 0
            /\ Differ(SumBetween(para, last(i), i), Last(para[i].amounts))}

\* Debits less credits against the last balance.
BalanceFails(para) ==
    LET only(w, o) == Total([i \in DOMAIN para |->
                                IF w \in para[i].words /\ o \notin para[i].words THEN Total(para[i].amounts) ELSE 0])
        balances == {i \in DOMAIN para : /\ para[i].amounts # <<>> /\ ~OfLedger(para[i])
                                         /\ para[i].words \cap {"balance", "net"} # {}}
        debits == only("debit", "credit")
        credits == only("credit", "debit")
    IN  /\ debits # 0 /\ credits # 0 /\ balances # {}
        /\ Differ(debits - credits, Last(para[CHOOSE i \in balances : \A j \in balances : j <= i].amounts))

BookkeepingPasses(paras) ==
    \A i \in DOMAIN paras : SumErrors(paras[i]) = {} /\ ~BalanceFails(paras[i])

\* Every verifier that is named gives a result; one nobody knows fails.
VerifyOutput(names, known, passes) == [i \in DOMAIN names |-> names[i] \in known /\ names[i] \in passes]

-----------------------------------------------------------------------------
Texts == UNION {[1..n -> {"s", "d", "(", ")", "x"}] : n \in 0..4}

\* The text without what is quoted: the first quote from k on goes up to the
\* next of its kind, or to the end.
Outside(text) ==
    LET from[k \in 1..Len(text) + 1] ==
            LET quotes == {i \in k..Len(text) : text[i] \in {"s", "d"}}
                first == CHOOSE i \in quotes : \A j \in quotes : i <= j
                same == {i \in quotes : i > first /\ text[i] = text[first]}
                close == CHOOSE i \in same : \A j \in same : i <= j
            IN  IF quotes = {} THEN SubSeq(text, k, Len(text))
                ELSE SubSeq(text, k, first - 1) \o (IF same = {} THEN <<>> ELSE from[close + 1])
    IN  from[1]

\* Parentheses balance just when each that is outside quotes has its partner,
\* and quotes are closed just when none runs to the end
\* (_check_balanced_parens, _check_unclosed_quotes).
ASSUME QuotesHideParens ==
    \A text \in Texts :
        LET plain == SelectSeq(Outside(text), LAMBDA ch : ch # "x")
            open(k) == Len(SelectSeq(SubSeq(plain, 1, k), LAMBDA ch : ch = "("))
        IN  /\ CheckBalancedParens(text) <=>
                  /\ \A k \in DOMAIN plain : 2 * open(k) >= k
                  /\ 2 * open(Len(plain)) = Len(plain)
            /\ CheckUnclosedQuotes(text) <=> Outside(text \o <<"x">>) # Outside(text)

Line(w, n) == [words |-> {w}, amounts |-> <<n>>]
Paragraphs == UNION {[1..n -> {Line("item", 5), Line("item", 7), Line("subtotal", 5), Line("subtotal", 12),
                               Line("total", 5), Line("total", 12)}] : n \in 0..4}

\* The items since the last total that is not a subtotal.
Running(para, i) ==
    LET ends == {j \in 1..i - 1 : "total" \in para[j].words}
        from == IF ends = {} THEN 0 ELSE CHOOSE j \in ends : \A k \in ends : k <= j
    IN  Total([k \in 1..i - 1 |-> IF k > from /\ "item" \in para[k].words THEN para[k].amounts[1] ELSE 0])

\* A paragraph whose first line and the lines behind its totals are items
\* passes just when every subtotal and total is the sum of the items so far:
\* subtotals run on, a total begins anew (BookkeepingVerifier.verify).
ASSUME TotalsAreRunningSums ==
    \A para \in Paragraphs :
        LET sums == {i \in DOMAIN para : "item" \notin para[i].words}
        IN  (\A i \in sums : i > 1 /\ "total" \notin para[i - 1].words) =>
                (SumErrors(para) = {} <=> \A i \in sums : para[i].amounts[1] = Running(para, i))

\* In a ledger the balance is what decides, and its lines are no items of a
\* total beside them (BookkeepingVerifier.verify).
ASSUME BalanceDecides ==
    \A d, c \in {3, 5}, b \in {-2, 0, 2}, t \in {4, 9} :
        LET ledger == <<Line("debit", 10 * d), Line("credit", 10 * c), Line("balance", 10 * b)>>
            mixed == <<Line("item", 4), Line("total", t)>>
        IN  /\ BookkeepingPasses(<<ledger>>) <=> d - c = b
            /\ BookkeepingPasses(<<mixed>> \o <<ledger>>) <=> d - c = b /\ t = 4
            /\ SqlPasses(<<>>) /\ VerifyOutput(<<"bookkeeping", "odd">>, {"bookkeeping"}, {"bookkeeping", "odd"}) = <<TRUE, FALSE>>
=============================================================================
