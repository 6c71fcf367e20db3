SPECIFICATION Spec
CONSTANTS
    r1 = r1
    r2 = r2
    mock = mock
    vllm = vllm
    agent = agent
    NoBackend = NoBackend
    Runs = {r1, r2}
    Reflecting = {r1}
    Backends = {vllm, agent}
    Fallbacks = {vllm}
    Local = {agent}
    Categories = {"backend_timeout", "backend_unreachable"}
    yes = yes
    YES = YES
    no = no
    Texts = {yes, YES, no}
    Normal <- MCNormal
    Length <- MCLength
    Kinds = {"self-consistency", "critique-revise", "debate", "plan-execute", "verified"}
    Samples = 3
    PlanSteps = 3
    MaxErrors = 2
    MaxRuns = 3
    LoopSteps = 3
    MaxDepth = 2
    MaxToolCalls = 1
    MaxBashCalls = 0
INVARIANT KindsTypeOK AttemptsBounded EndsSettled PlanKeepsToItsBudget MajorityWins BestAttemptIsKept
INVARIANT DoneLeavesNothing CompletedWasAccepted BudgetOverrunByOne
PROPERTY RunComesToAnEnd CanceledStaysCanceled CancelEndsTree
CHECK_DEADLOCK FALSE
