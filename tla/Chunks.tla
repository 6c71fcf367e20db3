------------------------------- MODULE Chunks -------------------------------
(***************************************************************************)
(* Texts cut into pieces: the chunks of a collection, and the state of a   *)
(* tool loop when it is compacted.  A text is the sequence of its parts,   *)
(* each with its length.                                                   *)
(***************************************************************************)
EXTENDS Integers, Sequences, SequencesExt

Small == 100
Cap == 2000
Gap == 2    \* the blank line between parts that are merged

\* A part joins the chunk before it while that is small.
Merge(parts, small) ==
    FoldLeft(LAMBDA chunks, p :
                IF chunks # <<>> /\ Last(chunks).len < small
                THEN Front(chunks) \o <<[Last(chunks) EXCEPT !.len = @ + Gap + p.len, !.of = @ \o p.of]>>
                ELSE Append(chunks, p),
             <<>>, parts)

Nonempty(parts) == SelectSeq(parts, LAMBDA p : p.len > 0)

\* ParagraphChunker: what is beyond the cap is not kept.
ParagraphChunks(paragraphs, small, cap) ==
    LET chunks == Merge(Nonempty(paragraphs), small)
    IN  [i \in DOMAIN chunks |-> [chunks[i] EXCEPT !.len = IF @ > cap THEN cap ELSE @]]

\* MarkdownChunker: a heading names what follows it up to the next, and is in
\* no chunk itself.  tokens are bodies [len, of], headings [heading].
Sections(tokens) ==
    FoldLeft(LAMBDA s, t :
                IF "heading" \in DOMAIN t THEN [s EXCEPT !.ref = t.heading]
                ELSE IF t.len = 0 THEN s
                ELSE [s EXCEPT !.out = Append(@, [len |-> t.len, of |-> t.of, ref |-> s.ref])],
             [ref |-> "file", out |-> <<>>], tokens).out

\* A merged section keeps the name of the first.
MarkdownChunks(tokens, small) == Merge(Sections(tokens), small)

-----------------------------------------------------------------------------
(* Compaction.  An entry is [len, tools, errors, finding]. *)

PreserveRecent == 3
MaxContextChars == 24000
MaxShown == 5

ShouldCompact(state, max) == FoldLeft(LAMBDA n, e : n + e.len, 0, state) > max

AppendNew(s, x) == IF x \in ToSet(s) THEN s ELSE Append(s, x)
Shown(s) == SubSeq(s, 1, IF Len(s) <= MaxShown THEN Len(s) ELSE MaxShown)

\* One entry stands for all but the last ones.  A preserve of 0 would preserve
\* all, as state[-0:] is the whole list.
CompactToolState(state, preserve, summaryLen) ==
    LET n == IF preserve = 0 THEN 0 ELSE Len(state) - preserve
        old == SubSeq(state, 1, n)
        summary == [len |-> summaryLen,
                    tools |-> FoldLeft(AppendNew, <<>>, FlattenSeq([i \in 1..n |-> old[i].tools])),
                    errors |-> Shown(FlattenSeq([i \in 1..n |-> old[i].errors])),
                    findings |-> Shown(FlattenSeq([i \in 1..n |-> old[i].findings]))]
    IN  IF Len(state) <= preserve THEN [state |-> state, compacted |-> 0, preserved |-> Len(state)]
        ELSE [state |-> <<summary>> \o SubSeq(state, n + 1, Len(state)),
              compacted |-> n, preserved |-> preserve]

\* The facts and corrections kept for the memory, each once, in order.
MemoryCandidates(facts) == FoldLeft(AppendNew, <<>>, facts)

-----------------------------------------------------------------------------
\* A document of n parts, numbered.
Numbered(lens) == [i \in DOMAIN lens |-> [len |-> lens[i], of |-> IF lens[i] = 0 THEN <<>> ELSE <<i>>]]
Documents == UNION {[1..n -> {0, 1, 3, 9}] : n \in 0..4}
PartsOf(chunks) == FlattenSeq([i \in DOMAIN chunks |-> chunks[i].of])

\* Every part that is not empty is in one chunk, in its place; only the last
\* chunk is small; and no part joins a chunk that was large enough without it
\* (ParagraphChunker.chunk).
ASSUME MergingLosesNothing ==
    \A lens \in Documents :
        LET parts == Numbered(lens)
            chunks == ParagraphChunks(parts, 4, 100)
        IN  /\ PartsOf(chunks) = PartsOf(parts)
            /\ \A i \in DOMAIN chunks :
                  /\ i < Len(chunks) => chunks[i].len >= 4
                  /\ Len(chunks[i].of) > 1 => chunks[i].len - lens[Last(chunks[i].of)] - Gap < 4

\* What a chunk loses to the cap was in its last part, as the parts before
\* it were small together (ParagraphChunker.chunk).
ASSUME OnlyTheLastPartIsCut ==
    \A lens \in Documents :
        LET whole == ParagraphChunks(Numbered(lens), 4, 100)
            cut == ParagraphChunks(Numbered(lens), 4, 6)
        IN  \A i \in DOMAIN cut :
               /\ cut[i].of = whole[i].of /\ cut[i].len <= 6
               /\ cut[i].len < whole[i].len => whole[i].len - lens[Last(whole[i].of)] < 6

\* A section that is large by itself is under its own heading
\* (MarkdownChunker.chunk).
ASSUME LargeSectionsKeepTheirName ==
    \A a, b \in {0, 1, 5} :
        LET tokens == <<[len |-> a, of |-> <<1>>], [heading |-> "first"], [len |-> b, of |-> <<2>>],
                        [heading |-> "second"], [len |-> 5, of |-> <<3>>]>>
            chunks == MarkdownChunks(tokens, 4)
        IN  /\ PartsOf(chunks) = PartsOf(Sections(tokens))
            /\ (a = 5 /\ b = 5) => chunks[2].ref = "first" /\ chunks[3].ref = "second"
            /\ (a = 0 /\ b = 0) => chunks[1].ref = "second"

Entries == {[len |-> 2, tools |-> <<t>>, errors |-> e, findings |-> <<>>] : t \in {"ls", "bash"}, e \in {<<>>, <<"x">>}}

\* The last entries stay as they are, every tool that was used before them is
\* named once, and compacting leaves so few entries that the summary takes in
\* at most itself and what came since (compact_tool_state).
ASSUME CompactionKeepsTheRecent ==
    \A n \in 0..4 : \A state \in [1..n -> Entries], preserve \in 1..2 :
        LET result == CompactToolState(state, preserve, 1)
            kept == SubSeq(state, Len(state) - result.preserved + 1, Len(state))
        IN  /\ result.compacted + result.preserved = n
            /\ IsSuffix(kept, result.state) /\ Len(result.state) <= preserve + 1
            /\ result.compacted > 0 =>
                  /\ ToSet(result.state[1].tools) = UNION {ToSet(state[i].tools) : i \in 1..result.compacted}
                  /\ MemoryCandidates(result.state[1].tools) = result.state[1].tools
            /\ ShouldCompact(result.state, 2 * preserve + 1) = FALSE
=============================================================================
