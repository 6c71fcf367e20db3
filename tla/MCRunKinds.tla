----------------------------- MODULE MCRunKinds -----------------------------
(***************************************************************************)
(* RunRecovery, Strategies and Delegation in one run of TLC.  They share   *)
(* no state: part says which one a behaviour explores, and the others      *)
(* stand still.                                                            *)
(***************************************************************************)
EXTENDS RunRecovery, Strategies, Delegation

CONSTANTS yes, YES, no, r1, r2, mock, vllm, agent

MCNormal == [t \in Texts |-> IF t = YES THEN yes ELSE t]
MCLength == [t \in Texts |-> IF t = no THEN 4 ELSE 3]

VARIABLE part

vars == <<part, recoveryVars, strategyVars, delegationVars>>

InRecovery(A) == part = "recovery" /\ A /\ UNCHANGED <<part, strategyVars, delegationVars>>
InStrategy(A) == part = "strategy" /\ A /\ UNCHANGED <<part, recoveryVars, delegationVars>>
InTree(A) == part = "tree" /\ A /\ UNCHANGED <<part, recoveryVars, strategyVars>>

Init ==
    /\ part \in {"recovery", "strategy", "tree"}
    /\ RecoveryInit /\ StrategyInit /\ DelegationInit

RunStepAlone(r) == InRecovery(RunStep(r))
LoopStepAlone == InTree(\E r \in RunIds : LoopStep(r))

NextRecovery ==
    \/ \E r \in Runs :
          \/ InRecovery(Submit(r)) \/ InRecovery(ReadCooldowns(r)) \/ InRecovery(PopExpired(r))
          \/ InRecovery(PickFirst(r)) \/ InRecovery(CreateRow(r)) \/ InRecovery(Answer(r))
          \/ InRecovery(CancelAttempt(r)) \/ InRecovery(RunOutOfQuota(r))
          \/ InRecovery(Reroute(r)) \/ InRecovery(StayAndRecover(r))
          \/ InRecovery(OtherError(r)) \/ InRecovery(Recover(r)) \/ InRecovery(RecoverElsewhere(r))
    \/ \E b \in Backends : InRecovery(TimeGoesBy(b))

NextStrategy ==
    \/ \E kind \in Kinds : InStrategy(Begin(kind))
    \/ InStrategy(NoticeCancel) \/ InStrategy(PassCheck)
    \/ \E text \in Texts : \/ InStrategy(AnswerSample(text)) \/ InStrategy(AnswerPass(text))
                           \/ InStrategy(AnswerAttempt(text)) \/ InStrategy(AnswerStep(text))
                           \/ InStrategy(AnswerSynthesis(text))
    \/ \E n \in 0..PlanSteps + 1 : InStrategy(AnswerPlan(n)) \/ InStrategy(AnswerReplan(n))
    \/ InStrategy(FailStep) \/ InStrategy(CancelCall) \/ InStrategy(FailCall)
    \/ InStrategy(Complete) \/ InStrategy(WriteLevel)
    \/ InStrategy(AskCancel) \/ InStrategy(RateGood)

NextTree ==
    \/ \E r \in RunIds :
          \/ InTree(StopLoop(r)) \/ InTree(CancelLoop(r)) \/ InTree(CallModel(r))
          \/ InTree(CancelModelCall(r)) \/ InTree(FailModelCall(r)) \/ InTree(FinalAnswer(r))
          \/ InTree(Refuse(r)) \/ InTree(SpawnFails(r)) \/ InTree(EndAttempt(r))
          \/ InTree(CompleteLoop(r)) \/ InTree(Unwind(r)) \/ InTree(EndSpawned(r))
          \/ \E c \in RunIds :
                \/ InTree(SpawnTask(r, c)) \/ InTree(SpawnNothing(r, c))
                \/ InTree(SpawnDirect(r, c)) \/ InTree(SettleSpawned(r, c))
                \/ InTree(SpawnBreaks(r, c))
          \/ \E bash \in BOOLEAN : InTree(RunTool(r, bash))
          \/ \E c \in RunIds : \/ InTree(CreateTask(r, c)) \/ InTree(Accept(r, c))
                               \/ \E isLoop \in BOOLEAN : InTree(Spawn(r, c, isLoop))
    \/ InTree(AskToCancel) \/ InTree(PauseOrResume)

Next == NextRecovery \/ NextStrategy \/ NextTree

Spec ==
    /\ Init /\ [][Next]_vars
    /\ \A r \in Runs : WF_vars(RunStepAlone(r))
    /\ WF_vars(LoopStepAlone)

\* The states of the three.
KindsTypeOK == RecoveryTypeOK /\ StrategyTypeOK /\ DelegationTypeOK
=============================================================================
