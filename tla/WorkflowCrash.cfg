SPECIFICATION Spec
CONSTANTS
    Portfolio <- MCPortfolio
    Criterion <- MCCriterion
    Weight <- MCWeight
    Commands <- MCCommandsLint
    Draft <- MCDraftTwoPhases
    MaxS02Revisions = 1
    BaselineMean <- MCBaselineMean
    MetricKind <- MCMetricKind
    MinSamples <- MCMinSamples
    Value <- MCValue
    MaxRounds = 2
    Direction <- MCDirection
    Target <- MCTarget
    Guardrail <- MCGuardrail
    MaxPhaseRepairAttempts = 2
    MaxCrashes = 1
    MaxLeaks = 1
    MaxLosses = 1
    Decision = {"approve", "reject"}
INVARIANTS
    KeepIsEarned
    BranchWasKept
    NoRefConflict
    CompletedIsVerified
    OneWorkspace
    ReportIsComplete
