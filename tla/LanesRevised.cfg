SPECIFICATION Spec
CONSTANTS
    Cases <- MCCases
    Capabilities = {"unit", "lint", "benchmark", "telemetry", "compose_evaluation"}
    Intent <- MCIntent
    ReplyTokens <- MCReplyTokens
    ApprovalPolicy = {"unwired", "deny", "allow"}
    Recipes <- MCRecipes
    Proposal = {"none", "unit"}
    Exit = {0, 1}
    Rounds <- MCRounds
    Attempts <- MCAttempts
    Observations <- MCObservations
    FindingReply <- MCFindingReply
    Verdict = {"accept", "reject", "invalid"}
    StrategyReply <- MCStrategyReply
    CallTokens = 1000
    ReadPolicy = {TRUE, FALSE}
    IntakePolicy = {"allow", "deny", "require_approval"}
    MaxResumes = 1
    MaxRestarts = 1
    CrashPoints <- MCCrashPoints
    LossPoints <- MCLossPoints
    MaxCommits = 1
    MaxTokens = 11000
INVARIANT
    PassedPortfolioConverges
