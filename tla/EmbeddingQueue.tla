--------------------------- MODULE EmbeddingQueue ---------------------------
(***************************************************************************)
(* The queue of embedding jobs.  Completing a run or recording a           *)
(* correction queues a job for the default model; an operator may queue    *)
(* all sources for another model.  Jobs are drained in batches by a thread *)
(* of the API server, by a thread of the shell, and by commands, which     *)
(* know nothing of each other: each writes the vector it computed and then *)
(* the job's status.  A worker's process may name a provider of embeddings *)
(* that there is none of, for as long as it runs.                          *)
(*                                                                         *)
(* A source never changes once it is written, so that a content hash never *)
(* does.  Vectors are kept by source, with the model that computed them.   *)
(***************************************************************************)
EXTENDS Naturals, Sequences, SequencesExt

CONSTANTS
    Sources,      \* interactions and corrections
    Models,       \* models that jobs are queued for
    DefaultModel, \* debug-hash-256
    Workers,      \* EmbeddingWorker threads
    Commands,     \* calls of _index_embedding_jobs
    Batch,        \* jobs of a batch (50 in the code)
    MaxLocks      \* times that a statement finds the database locked

ASSUME EmbeddingAssumption ==
    DefaultModel \in Models /\ Batch \in Nat \ {0} /\ MaxLocks \in Nat

VARIABLES
    queued,       \* jobs in the order of their rows: updated_at while pending
    jobStatus,    \* embedding_jobs: status of each job
    vectors,      \* sources in interaction_embeddings, correction_embeddings
    drain,        \* locals of each drain
    locks         \* times that the database was locked

embeddingVars == <<queued, jobStatus, vectors, drain, locks>>

Drains == Workers \cup Commands
Jobs == Sources \X Models
NoDrain == [at |-> "idle", batch |-> <<>>]
NoProvider == [at |-> "skipping", batch |-> <<>>]
Draining(d, l) == drain[d].at = l
Current(d) == Head(drain[d].batch)
Statused(job, s) == jobStatus' = [jobStatus EXCEPT ![job] = s]
LockBudget == locks < MaxLocks /\ locks' = locks + 1

\* The jobs of a sequence that are in a set, in their order.
Among(jobs, set) ==
    LET kept[n \in 0..Len(jobs)] ==
            IF n = 0 THEN <<>>
            ELSE IF jobs[n] \in set THEN Append(kept[n - 1], jobs[n]) ELSE kept[n - 1]
    IN  kept[Len(jobs)]

\* The next job of the batch, or the end of it.
Advanced(d) ==
    [drain EXCEPT ![d] = IF Len(@.batch) > 1 THEN [at |-> "read", batch |-> Tail(@.batch)]
                         ELSE NoDrain]

EmbeddingInit ==
    /\ queued = <<>>
    /\ jobStatus = [job \in Jobs |-> "none"]
    /\ vectors = {}
    /\ \E unprovided \in SUBSET Workers :
          drain = [d \in Drains |-> IF d \in unprovided THEN NoProvider ELSE NoDrain]
    /\ locks = 0

\* Mutant: a job that is there is queued once more.
QueueAgain(new) ==
    /\ queued' = queued \o new
    /\ jobStatus' = [job \in Jobs |-> IF job \in ToSet(new) THEN "pending" ELSE jobStatus[job]]

\* _upsert_embedding_job for each of new: a job that is there stays as it is.
Queue(new) ==
    LET fresh == Among(new, {job \in Jobs : jobStatus[job] = "none"})
    IN  /\ queued' = queued \o fresh
        /\ jobStatus' = [job \in Jobs |-> IF job \in ToSet(fresh) THEN "pending"
                                          ELSE jobStatus[job]]

\* complete_run and add_correction, in the transaction that writes the source.
AddSource(s) ==
    /\ jobStatus[<<s, DefaultModel>>] = "none"
    /\ Queue(<< <<s, DefaultModel>> >>)
    /\ UNCHANGED <<vectors, drain, locks>>

QueueForModel(m) ==
    LET old == Among(queued, Sources \X {DefaultModel})
    IN  /\ Queue([i \in DOMAIN old |-> <<old[i][1], m>>])
        /\ UNCHANGED <<vectors, drain, locks>>

\* get_pending_embedding_jobs: ORDER BY updated_at ASC LIMIT batch.
Pending(filter) ==
    LET pending == Among(queued, {job \in Sources \X filter : jobStatus[job] = "pending"})
    IN  SubSeq(pending, 1, IF Len(pending) < Batch THEN Len(pending) ELSE Batch)

\* build_embedding_provider raises, as it does at every tick of this worker: the
\* tick is left, and the thread waits for the next.
SkipTick(d) == Draining(d, "skipping") /\ UNCHANGED embeddingVars

\* A worker takes jobs of every model, a command possibly those of one.
TakeBatch(d) ==
    /\ Draining(d, "idle")
    /\ \E filter \in {Models} \cup (IF d \in Commands THEN {{m} : m \in Models} ELSE {}) :
          /\ Pending(filter) # <<>>
          /\ drain' = [drain EXCEPT ![d] = [at |-> "read", batch |-> Pending(filter)]]
    /\ UNCHANGED <<queued, jobStatus, vectors, locks>>

\* The select of a tick fails: nothing catches it, and the worker's thread ends.
TickDies(d) ==
    /\ d \in Workers /\ Draining(d, "idle") /\ LockBudget
    /\ drain' = [drain EXCEPT ![d].at = "dead"]
    /\ UNCHANGED <<queued, jobStatus, vectors>>

\* The text is read and embedded; a provider may refuse it.
Embed(d) ==
    /\ Draining(d, "read")
    /\ \E next \in {"store", "failing"} : drain' = [drain EXCEPT ![d].at = next]
    /\ UNCHANGED <<queued, jobStatus, vectors, locks>>

\* A statement of the try block finds the database locked.
StatementFails(d) ==
    /\ drain[d].at \in {"read", "store", "mark"} /\ LockBudget
    /\ drain' = [drain EXCEPT ![d].at = "failing"]
    /\ UNCHANGED <<queued, jobStatus, vectors>>

\* Mutant: the job is marked before its vector is stored.
StoreVectorLate(d) ==
    /\ Draining(d, "store")
    /\ Statused(Current(d), "indexed")
    /\ drain' = [drain EXCEPT ![d].at = "mark"]
    /\ UNCHANGED <<queued, vectors, locks>>

\* The vector replaces whatever vector the source had, under the model of the
\* drain's provider, which need not be that of the job.
StoreVector(d) ==
    /\ Draining(d, "store")
    /\ vectors' = vectors \cup {Current(d)[1]}
    /\ drain' = [drain EXCEPT ![d].at = "mark"]
    /\ UNCHANGED <<queued, jobStatus, locks>>

MarkIndexed(d) ==
    /\ Draining(d, "mark")
    /\ Statused(Current(d), "indexed")
    /\ drain' = Advanced(d)
    /\ UNCHANGED <<queued, vectors, locks>>

\* Mutant: a job that failed is tried again.
MarkForRetry(d) ==
    /\ Draining(d, "failing")
    /\ Statused(Current(d), "pending")
    /\ drain' = Advanced(d)
    /\ UNCHANGED <<queued, vectors, locks>>

MarkFailed(d) ==
    /\ Draining(d, "failing")
    /\ Statused(Current(d), "failed")
    /\ drain' = Advanced(d)
    /\ UNCHANGED <<queued, vectors, locks>>

\* That statement fails as well: a worker goes on with the next job, a command
\* ends.
MarkFailedFails(d) ==
    /\ Draining(d, "failing") /\ LockBudget
    /\ drain' = IF d \in Workers THEN Advanced(d) ELSE [drain EXCEPT ![d] = NoDrain]
    /\ UNCHANGED <<queued, jobStatus, vectors>>

\* The process of the drain is killed, and started again some time.
KillDrain(d) ==
    /\ drain[d] # NoDrain
    /\ drain' = [drain EXCEPT ![d] = NoDrain]
    /\ UNCHANGED <<queued, jobStatus, vectors, locks>>

WorkerStep(d) ==
    \/ TakeBatch(d) \/ Embed(d) \/ StoreVector(d) \/ MarkIndexed(d) \/ MarkFailed(d)

EmbeddingNext ==
    \/ \E s \in Sources : AddSource(s)
    \/ \E m \in Models : QueueForModel(m)
    \/ \E d \in Drains : \/ WorkerStep(d) \/ SkipTick(d) \/ TickDies(d) \/ StatementFails(d)
                         \/ MarkFailedFails(d)
    \/ \E d \in Commands : KillDrain(d)

EmbeddingSpec == EmbeddingInit /\ [][EmbeddingNext]_embeddingVars

\* A worker's thread is scheduled, ticks again after each interval, and an
\* embedding call answers, fails or times out.
EmbeddingFairSpec == EmbeddingSpec /\ \A d \in Workers : WF_embeddingVars(WorkerStep(d))

-----------------------------------------------------------------------------
EmbeddingTypeOK ==
    /\ jobStatus \in [Jobs -> {"none", "pending", "indexed", "failed"}]
    /\ ToSet(queued) = {job \in Jobs : jobStatus[job] # "none"} /\ IsInjective(queued)
    /\ vectors \subseteq Sources
    /\ \A d \in Drains :
          /\ drain[d].at \in {"idle", "skipping", "read", "store", "mark", "failing", "dead"}
          /\ drain[d].at \in {"idle", "skipping", "dead"} <=> drain[d].batch = <<>>
          /\ ToSet(drain[d].batch) \subseteq Jobs

\* A job that reads indexed has a vector of its source, wherever a drain was
\* killed, refused or overtaken by another (scheduler.py:207-241).  The vector
\* may be that of a drain of another model, which replaces it (db.py:3036).
IndexedHasVector ==
    \A job \in Jobs : jobStatus[job] = "indexed" => job[1] \in vectors

\* However jobs before it fail, whatever other drains do and however long the
\* queue is, every job is settled, as long as there is a worker whose thread has
\* not ended and which can build its provider: with an unknown name of one
\* every tick is skipped, and the jobs stay pending (scheduler.py:195-199).
EveryJobSettles ==
    \A job \in Jobs : jobStatus[job] = "pending" ~>
        jobStatus[job] # "pending" \/ \A d \in Workers : drain[d].at \in {"dead", "skipping"}
=============================================================================
