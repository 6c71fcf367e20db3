------------------------------ MODULE EventLog ------------------------------
(***************************************************************************)
(* The events of runs: writers in several threads and processes append     *)
(* them through connections of their own to one SQLite file, and an        *)
(* operator rates events by their place in a listing.  The events of shell *)
(* jobs are kept the same way (append_shell_job_event).                    *)
(***************************************************************************)
EXTENDS Naturals, Sequences, FiniteSets

CONSTANTS
    Writers,    \* threads that append events
    Logs,       \* runs that have events
    MaxEvents,  \* events of a run that are explored
    Nobody      \* no writer, no log

ASSUME EventLogAssumption == Nobody \notin Writers \cup Logs /\ MaxEvents \in Nat

VARIABLES
    events,     \* run_events: of each run, a set of [no, by] rows
    fileLock,   \* the writer that holds the write lock of the file
    append,     \* the statement each writer stands in
    shown,      \* the listing the operator looks at
    rated       \* the place that was typed, with the event it was taken for

eventLogVars == <<events, fileLock, append, shown, rated>>

Idle == [at |-> "idle", log |-> Nobody, no |-> 0]
NothingShown == [log |-> Nobody, rows |-> <<>>]
NothingRated == [place |-> 0, event |-> [no |-> 0, by |-> Nobody]]

Numbers(log) == {e.no : e \in events[log]}
\* COALESCE(MAX(sequence_no), 0) + 1
NextNumber(log) == CHOOSE n \in 1..MaxEvents + 1 :
    /\ \A m \in Numbers(log) : m < n
    /\ n = 1 \/ n - 1 \in Numbers(log)

EventLogInit ==
    /\ events = [log \in Logs |-> {}]
    /\ fileLock = Nobody
    /\ append = [w \in Writers |-> Idle]
    /\ shown = NothingShown
    /\ rated = NothingRated

\* Mutant: a deferred transaction takes no lock before its first write.
BeginDeferred(w, log) ==
    /\ append[w].at = "idle" /\ Cardinality(events[log]) < MaxEvents
    /\ append' = [append EXCEPT ![w] = [Idle EXCEPT !.at = "begun", !.log = log]]
    /\ UNCHANGED <<events, fileLock, shown, rated>>

\* connect and BEGIN IMMEDIATE, which waits for the lock.
BeginImmediate(w, log) ==
    /\ append[w].at = "idle" /\ fileLock = Nobody /\ Cardinality(events[log]) < MaxEvents
    /\ fileLock' = w
    /\ append' = [append EXCEPT ![w] = [Idle EXCEPT !.at = "begun", !.log = log]]
    /\ UNCHANGED <<events, shown, rated>>

\* Another has held the lock for five seconds: OperationalError.
LockTimesOut(w) ==
    /\ append[w].at = "idle" /\ fileLock \notin {Nobody, w}
    /\ append' = [append EXCEPT ![w].at = "refused"]
    /\ UNCHANGED <<events, fileLock, shown, rated>>

SelectNext(w) ==
    /\ append[w].at = "begun"
    /\ append' = [append EXCEPT ![w].at = "insert", ![w].no = NextNumber(append[w].log)]
    /\ UNCHANGED <<events, fileLock, shown, rated>>

\* UNIQUE(run_id, sequence_no) makes a second row of a number an IntegrityError.
InsertRow(w) ==
    /\ append[w].at = "insert" /\ fileLock \in {Nobody, w}
    /\ IF append[w].no \in Numbers(append[w].log)
       THEN /\ append' = [append EXCEPT ![w].at = "collided"]
            /\ fileLock' = Nobody
       ELSE /\ append' = [append EXCEPT ![w].at = "commit"]
            /\ fileLock' = w
    /\ UNCHANGED <<events, shown, rated>>

\* The run's updated_at is written in the same transaction.
CommitAppend(w) ==
    /\ append[w].at = "commit"
    /\ events' = [events EXCEPT ![append[w].log] = @ \cup {[no |-> append[w].no, by |-> w]}]
    /\ fileLock' = Nobody
    /\ append' = [append EXCEPT ![w] = Idle]
    /\ UNCHANGED <<shown, rated>>

\* The connection is closed without a commit: an exception, or the end of the
\* process.  A thread that was refused, or of a new process, appends again.
RollBack(w) ==
    /\ append[w].at # "idle"
    /\ append' = [append EXCEPT ![w] = Idle]
    /\ fileLock' = IF fileLock = w THEN Nobody ELSE fileLock
    /\ UNCHANGED <<events, shown, rated>>

\* ORDER BY sequence_no ASC
Listing(log) == [i \in 1..Cardinality(events[log]) |->
                    CHOOSE e \in events[log] :
                        Cardinality({d \in events[log] : d.no < e.no}) = i - 1]

ListEvents(log) ==
    /\ shown' = [log |-> log, rows |-> Listing(log)]
    /\ rated' = NothingRated
    /\ UNCHANGED <<events, fileLock, append>>

\* The operator types a place in the listing; the command lists anew.
RateEvent(place) ==
    /\ place \in DOMAIN shown.rows /\ place \in DOMAIN Listing(shown.log)
    /\ rated' = [place |-> place, event |-> Listing(shown.log)[place]]
    /\ UNCHANGED <<events, fileLock, append, shown>>

EventLogNext ==
    \/ \E w \in Writers : \/ LockTimesOut(w) \/ SelectNext(w) \/ InsertRow(w)
                          \/ CommitAppend(w) \/ RollBack(w)
                          \/ \E log \in Logs : BeginImmediate(w, log)
    \/ \E log \in Logs : ListEvents(log)
    \/ \E place \in 1..MaxEvents : RateEvent(place)

EventLogSpec == EventLogInit /\ [][EventLogNext]_eventLogVars

-----------------------------------------------------------------------------
EventRows == [no : 1..MaxEvents + 1, by : Writers]

EventLogTypeOK ==
    /\ events \in [Logs -> SUBSET EventRows]
    /\ fileLock \in Writers \cup {Nobody}
    /\ append \in [Writers -> [at : {"idle", "begun", "insert", "commit", "collided", "refused"},
                               log : Logs \cup {Nobody}, no : 0..MaxEvents + 1]]
    /\ shown.log \in Logs \cup {Nobody}
    /\ \A i \in DOMAIN shown.rows : shown.rows[i] \in EventRows
    /\ rated.place \in 0..MaxEvents

\* However the statements of writers interleave, fail and are rolled back, the
\* numbers of a run have no gap and no writer takes one that another took - only
\* a wait for the lock can make an append fail - and an event keeps its place:
\* the one that is rated is the one the operator saw there, whatever was
\* appended meanwhile (db.py:813-847, cli.py:2166-2205).
EventsKeepTheirPlaces ==
    /\ \A log \in Logs : Numbers(log) = 1..Cardinality(events[log])
    /\ \A w \in Writers : append[w].at # "collided"
    /\ rated.place # 0 => rated.event = shown.rows[rated.place]
=============================================================================
