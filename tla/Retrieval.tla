----------------------------- MODULE Retrieval -----------------------------
(***************************************************************************)
(* What of the local memory goes into a prompt: the providers that are     *)
(* asked, and the hits that are kept.  A hit is its source, its domain and *)
(* its title, which stands for its normalised words.                       *)
(***************************************************************************)
EXTENDS Integers, Sequences, SequencesExt, FiniteSets

Providers == {"lexical", "semantic", "corrections", "interactions", "postmortems", "collections"}

\* Without any the default, which are all.
ProviderSet(providers) == IF providers = {} THEN Providers ELSE providers

SearchKind(providers) ==
    IF {"interactions", "corrections"} \subseteq providers THEN "all"
    ELSE IF "interactions" \in providers THEN "interactions"
    ELSE IF "corrections" \in providers THEN "corrections"
    ELSE "none"

\* What is searched: the two searches of the documents need a kind.
Searches(providers, vectors) ==
    LET asked == ProviderSet(providers)
        documents == SearchKind(asked) # "none"
    IN  {s \in asked : \/ s \in {"postmortems", "collections"}
                       \/ s = "lexical" /\ documents
                       \/ s = "semantic" /\ documents /\ vectors}

Key(hit) == <<hit.type, hit.id>>
Shape(hit) == <<hit.domain, hit.title>>
Interactions(hits) == SelectSeq(hits, LAMBDA h : h.type = "interaction")

\* In order, without a source that was seen, and without an interaction that
\* reads like one that was kept.
DedupeHits(hits) ==
    FoldLeft(LAMBDA kept, hit :
                IF \/ \E k \in ToSet(kept) : Key(k) = Key(hit)
                   \/ /\ hit.type = "interaction"
                      /\ \E k \in ToSet(Interactions(kept)) : Shape(k) = Shape(hit)
                THEN kept ELSE Append(kept, hit),
             <<>>, hits)

FirstOf(hits, n) == SubSeq(hits, 1, IF Len(hits) <= n THEN Len(hits) ELSE n)

\* The sections of the context: three of each type, four of the collections.
\* No context at all when nothing was found.
Context(hits, collections) ==
    LET of(type) == FirstOf(SelectSeq(DedupeHits(hits), LAMBDA h : h.type = type), 3)
    IN  IF DedupeHits(hits) = <<>> /\ collections = <<>> THEN <<>>
        ELSE of("correction") \o of("interaction") \o of("postmortem") \o FirstOf(collections, 4)

-----------------------------------------------------------------------------
SomeHits == [type : {"correction", "interaction"}, id : {1, 2}, domain : {"d"}, title : {"t", "u"}]
HitLists == UNION {[1..n -> SomeHits] : n \in 0..3}
Reads(a, b) == Key(a) = Key(b) \/ (a.type = "interaction" /\ b.type = "interaction" /\ Shape(a) = Shape(b))

\* A hit is left out just when one before it that is kept is the same source
\* or reads the same, and what is kept keeps its order (_dedupe_hits).
ASSUME FirstOfEachIsKept ==
    \A hits \in HitLists :
        LET kept == DedupeHits(hits)
            place(h) == CHOOSE i \in DOMAIN hits : hits[i] = h /\ \A j \in DOMAIN hits : hits[j] = h => i <= j
        IN  /\ \A i, j \in DOMAIN kept : i < j => /\ ~Reads(kept[i], kept[j])
                                                  /\ place(kept[i]) < place(kept[j])
            /\ \A i \in DOMAIN hits : hits[i] \notin ToSet(kept) =>
                  \E j \in 1..i - 1 : hits[j] \in ToSet(kept) /\ Reads(hits[j], hits[i])

\* A correction is never left out for what it says: only for being in the
\* list before (_dedupe_hits).
ASSUME CorrectionsAreKept ==
    \A hits \in HitLists : \A h \in ToSet(hits) :
        h.type = "correction" => \E k \in ToSet(DedupeHits(hits)) : Key(k) = Key(h)

\* The providers that search the documents search nothing unless a kind of
\* document is named with them (build).
ASSUME DocumentsNeedAKind ==
    \A providers \in SUBSET Providers, vectors \in BOOLEAN :
        LET asked == ProviderSet(providers)
            searched == Searches(providers, vectors)
        IN  /\ searched \cap {"interactions", "corrections"} = {}
            /\ "lexical" \in searched <=> "lexical" \in asked /\ asked \cap {"interactions", "corrections"} # {}
            /\ searched # {} \/ asked \cap {"postmortems", "collections"} = {}

\* A context is built of something, and of no more of a kind than fits.
ASSUME ContextIsBounded ==
    \A hits \in HitLists, n \in 0..5 :
        LET built == Context(hits, [i \in 1..n |-> [type |-> "collection", id |-> i]])
        IN  /\ built = <<>> <=> hits = <<>> /\ n = 0
            /\ \A type \in {h.type : h \in ToSet(built)} :
                  Len(SelectSeq(built, LAMBDA h : h.type = type)) <= IF type = "collection" THEN 4 ELSE 3
=============================================================================
