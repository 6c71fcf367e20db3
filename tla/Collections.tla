---------------------------- MODULE Collections ----------------------------
(***************************************************************************)
(* Collections of text chunks and their full-text index.  The index is an  *)
(* FTS5 table without content of its own: it holds postings of rowids, and *)
(* a search reads the chunk that has the rowid now.  Chunks are added by   *)
(* an ingest, each in a transaction of its own; collections are deleted    *)
(* meanwhile.  A text is the set of its words.                             *)
(***************************************************************************)
EXTENDS Integers, FiniteSets, Sequences

CONSTANTS
    Names,       \* collection ids (a fresh one for each collection)
    ChunkTexts,  \* contents of chunks: sets of words
    Ingesters,   \* threads that ingest
    MaxRows,     \* rowids that are explored
    MaxFile,     \* chunks of a file that are explored
    NoName       \* no collection

ASSUME CollectionsAssumption == NoName \notin Names /\ MaxRows \in Nat /\ MaxFile \in Nat

VARIABLES
    shelf,       \* collections: whether they exist, and their chunk_count
    chunks,      \* collection_chunks
    postings,    \* collection_chunks_fts
    ingest       \* locals of each ingest

collectionVars == <<shelf, chunks, postings, ingest>>

Words == UNION ChunkTexts
ChunksOf(name) == {c \in chunks : c.collection = name}
Rowids == {c.row : c \in chunks}
\* SQLite gives a new row the largest rowid in the table, plus 1.
NextRowid == IF chunks = {} THEN 1 ELSE 1 + CHOOSE r \in Rowids : \A s \in Rowids : s <= r

NoIngest == [at |-> "idle", into |-> NoName, left |-> <<>>, counted |-> 0]
Ingesting(i, l) == ingest[i].at = l

CollectionsInit ==
    /\ shelf = [n \in Names |-> [state |-> "new", count |-> 0]]
    /\ chunks = {}
    /\ postings = {}
    /\ ingest = [i \in Ingesters |-> NoIngest]

CreateCollection(name) ==
    /\ shelf[name].state = "new"
    /\ shelf' = [shelf EXCEPT ![name].state = "there"]
    /\ UNCHANGED <<chunks, postings, ingest>>

\* get_collection, then the file is read and cut into chunks.
StartIngest(i, name) ==
    /\ Ingesting(i, "idle") /\ shelf[name].state = "there"
    /\ \E n \in 0..MaxFile : \E file \in [1..n -> ChunkTexts] :
          ingest' = [ingest EXCEPT ![i] = [NoIngest EXCEPT !.at = "add", !.into = name,
                                                           !.left = file]]
    /\ UNCHANGED <<shelf, chunks, postings>>

\* The next file of a directory; nobody looks for the collection again.
NextFile(i) ==
    /\ Ingesting(i, "between")
    /\ \E n \in 0..MaxFile : \E file \in [1..n -> ChunkTexts] :
          ingest' = [ingest EXCEPT ![i].at = "add", ![i].left = file]
    /\ UNCHANGED <<shelf, chunks, postings>>

\* Mutant: a rowid the index knows is not indexed again.
AddChunkIfNew(i) ==
    /\ Ingesting(i, "add") /\ ingest[i].left # <<>>
    /\ shelf[ingest[i].into].state = "there" /\ NextRowid <= MaxRows
    /\ LET text == Head(ingest[i].left) IN
          /\ chunks' = chunks \cup {[row |-> NextRowid, collection |-> ingest[i].into,
                                     text |-> text]}
          /\ postings' = IF \E p \in postings : p.row = NextRowid THEN postings
                         ELSE postings \cup {[row |-> NextRowid, word |-> w] : w \in text}
    /\ ingest' = [ingest EXCEPT ![i].left = Tail(@)]
    /\ UNCHANGED shelf

\* add_collection_chunk: the row and its postings in one transaction.
AddChunk(i) ==
    /\ Ingesting(i, "add") /\ ingest[i].left # <<>>
    /\ shelf[ingest[i].into].state = "there" /\ NextRowid <= MaxRows
    /\ LET text == Head(ingest[i].left) IN
          /\ chunks' = chunks \cup {[row |-> NextRowid, collection |-> ingest[i].into,
                                     text |-> text]}
          /\ postings' = postings \cup {[row |-> NextRowid, word |-> w] : w \in text}
    /\ ingest' = [ingest EXCEPT ![i].left = Tail(@)]
    /\ UNCHANGED shelf

\* The foreign key refuses a chunk of a deleted collection; so may the lock,
\* or the next file cannot be read.  What was added stays, uncounted.
IngestFails(i) ==
    /\ ingest[i].at # "idle"
    /\ ingest' = [ingest EXCEPT ![i] = NoIngest]
    /\ UNCHANGED <<shelf, chunks, postings>>

\* update_collection_stats counts before its transaction begins, ...
CountChunks(i) ==
    /\ Ingesting(i, "add") /\ ingest[i].left = <<>>
    /\ ingest' = [ingest EXCEPT ![i].at = "counted",
                                ![i].counted = Cardinality(ChunksOf(ingest[i].into))]
    /\ UNCHANGED <<shelf, chunks, postings>>

\* ... and updates no row when the collection is gone.
WriteCount(i) ==
    /\ Ingesting(i, "counted")
    /\ shelf' = IF shelf[ingest[i].into].state = "there"
                THEN [shelf EXCEPT ![ingest[i].into].count = ingest[i].counted] ELSE shelf
    /\ \E next \in {"idle", "between"} :
          ingest' = [ingest EXCEPT ![i] = IF next = "idle" THEN NoIngest
                                          ELSE [@ EXCEPT !.at = next, !.counted = 0]]
    /\ UNCHANGED <<chunks, postings>>

\* delete_collection tells the index to delete rowids of contents '' - and so
\* none of their postings - before it deletes the rows.
DeleteCollection(name) ==
    /\ shelf[name].state = "there"
    /\ shelf' = [shelf EXCEPT ![name] = [state |-> "gone", count |-> 0]]
    /\ chunks' = chunks \ ChunksOf(name)
    /\ UNCHANGED <<postings, ingest>>

\* search_collections: the rows of the index that match, joined by rowid.
Hits(word) == {c \in chunks : [row |-> c.row, word |-> word] \in postings}

CollectionsNext ==
    \/ \E name \in Names : \/ CreateCollection(name) \/ DeleteCollection(name)
                           \/ \E i \in Ingesters : StartIngest(i, name)
    \/ \E i \in Ingesters : \/ NextFile(i) \/ AddChunk(i) \/ IngestFails(i)
                            \/ CountChunks(i) \/ WriteCount(i)

CollectionsSpec == CollectionsInit /\ [][CollectionsNext]_collectionVars

-----------------------------------------------------------------------------
CollectionsTypeOK ==
    /\ shelf \in [Names -> [state : {"new", "there", "gone"}, count : 0..MaxRows]]
    /\ chunks \subseteq [row : 1..MaxRows, collection : Names, text : ChunkTexts]
    /\ postings \subseteq [row : 1..MaxRows, word : Words]
    /\ ingest \in [Ingesters -> [at : {"idle", "add", "counted", "between"},
                                 into : Names \cup {NoName},
                                 left : UNION {[1..n -> ChunkTexts] : n \in 0..MaxFile},
                                 counted : 0..MaxRows]]

\* Through every reuse of a rowid and every deletion that meets an ingest, a
\* chunk belongs to a collection that exists, has a rowid of its own, and is
\* found by each of its words (db.py:3193-3286).
EveryChunkIsFound ==
    \A c \in chunks :
        /\ shelf[c.collection].state = "there"
        /\ \A d \in chunks : d.row = c.row => d = c
        /\ \A word \in c.text : c \in Hits(word)

\* docs/collections.md, of searching by keyword: "phrase and token matching
\* matter".  So a hit has the word that was searched for.
SearchFindsOnlyWhatMatches == \A word \in Words : \A c \in Hits(word) : word \in c.text
=============================================================================
