----------------------------- MODULE MCServices -----------------------------
(***************************************************************************)
(* The services around the runs in one run of TLC.  They share no state:   *)
(* part says which one a behaviour explores, and the others stand still.   *)
(***************************************************************************)
EXTENDS EventLog, EmbeddingQueue, Collections, McpServers, BackendProcess,
        ToolPolicy, Schedules, Routing, Retrieval, Reports, Chunks, Verifiers

VARIABLE part

Parts == {"log", "embed", "shelf", "mcp", "process"}
vars == <<part, eventLogVars, embeddingVars, collectionVars, mcpVars, processVars>>

InLog(A) == /\ part = "log" /\ A
            /\ UNCHANGED <<part, embeddingVars, collectionVars, mcpVars, processVars>>
InQueue(A) == /\ part = "embed" /\ A
              /\ UNCHANGED <<part, eventLogVars, collectionVars, mcpVars, processVars>>
InShelf(A) == /\ part = "shelf" /\ A
              /\ UNCHANGED <<part, eventLogVars, embeddingVars, mcpVars, processVars>>
InMcp(A) == /\ part = "mcp" /\ A
            /\ UNCHANGED <<part, eventLogVars, embeddingVars, collectionVars, processVars>>
InProcess(A) == /\ part = "process" /\ A
                /\ UNCHANGED <<part, eventLogVars, embeddingVars, collectionVars, mcpVars>>

\* The other parts stand in one initial state.
Init ==
    /\ part \in Parts
    /\ EventLogInit /\ EmbeddingInit /\ CollectionsInit /\ McpInit /\ ProcessInit
    /\ part # "process" => child.left = 0 /\ child.stubborn = FALSE
    /\ part # "embed" => \A w \in Workers : Draining(w, "idle")

NextLog ==
    \/ \E w \in Writers : \/ InLog(LockTimesOut(w)) \/ InLog(SelectNext(w)) \/ InLog(InsertRow(w))
                          \/ InLog(CommitAppend(w)) \/ InLog(RollBack(w))
                          \/ \E log \in Logs : InLog(BeginImmediate(w, log))
    \/ \E log \in Logs : InLog(ListEvents(log))
    \/ \E place \in 1..MaxEvents : InLog(RateEvent(place))

NextQueue ==
    \/ \E s \in Sources : InQueue(AddSource(s))
    \/ \E m \in Models : InQueue(QueueForModel(m))
    \/ \E d \in Drains : \/ InQueue(TakeBatch(d)) \/ InQueue(SkipTick(d)) \/ InQueue(Embed(d))
                         \/ InQueue(StoreVector(d)) \/ InQueue(MarkIndexed(d)) \/ InQueue(MarkFailed(d))
                         \/ InQueue(TickDies(d)) \/ InQueue(StatementFails(d))
                         \/ InQueue(MarkFailedFails(d))
    \/ \E d \in Commands : InQueue(KillDrain(d))

NextShelf ==
    \/ \E name \in Names : \/ InShelf(CreateCollection(name)) \/ InShelf(DeleteCollection(name))
                           \/ \E i \in Ingesters : InShelf(StartIngest(i, name))
    \/ \E i \in Ingesters : \/ InShelf(NextFile(i)) \/ InShelf(AddChunk(i))
                            \/ InShelf(IngestFails(i)) \/ InShelf(CountChunks(i))
                            \/ InShelf(WriteCount(i))

NextMcp ==
    \/ InMcp(BeginStatus) \/ InMcp(StopAll)
    \/ \E s \in McpServerIds : \/ InMcp(StartServer(s)) \/ InMcp(ReadAnswer(s))
                               \/ InMcp(NoAnswer(s)) \/ InMcp(ServerAnswers(s))
                               \/ InMcp(ServerNotifies(s)) \/ InMcp(ServerExits(s))

NextProcess ==
    \/ InProcess(ChildWrites) \/ InProcess(ChildForks) \/ InProcess(ChildExits)
    \/ InProcess(ChildIsTerminated) \/ InProcess(HelperEnds)
    \/ InProcess(Poll) \/ InProcess(LookForCancel) \/ InProcess(LookForControl)
    \/ InProcess(Terminate) \/ InProcess(Reap) \/ InProcess(Kill) \/ InProcess(Communicate)
    \/ InProcess(AskCancelProcess) \/ InProcess(AskPauseResume)

Next == NextLog \/ NextQueue \/ NextShelf \/ NextMcp \/ NextProcess

WorkerAlone(d) == InQueue(WorkerStep(d))
ThreadAlone == InProcess(WatchStep)

Spec ==
    /\ Init /\ [][Next]_vars
    /\ \A d \in Workers : WF_vars(WorkerAlone(d))
    /\ WF_vars(ThreadAlone)

\* The states of the five services.
ServicesTypeOK ==
    /\ part \in Parts
    /\ EventLogTypeOK /\ EmbeddingTypeOK /\ CollectionsTypeOK /\ McpTypeOK /\ ProcessTypeOK

\* No process is left behind, but for an MCP server whose start failed: through
\* the thread of a run (subprocess_command.py:29-47) or after a status request
\* (mcp_client.py:153-187).
NoProcessIsLeft == CommandEndsFirst /\ OnlyFailedStartsStay
=============================================================================
