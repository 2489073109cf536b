SPECIFICATION Spec
CONSTANTS
    Portfolio <- MCPortfolio
    Criterion <- MCCriterion
    Weight <- MCWeight
    Commands <- MCCommands
    Draft <- MCDraft
    MaxS02Revisions = 1
    BaselineMean <- MCBaselineMean
    MetricKind <- MCMetricKind
    MinSamples <- MCMinSamples
    Value <- MCValue
    MaxRounds = 2
    Direction <- MCDirection
    Target <- MCTarget
    Guardrail <- MCGuardrail
    MaxPhaseRepairAttempts = 3
    MaxCrashes = 0
    MaxLeaks = 0
    MaxLosses = 0
    Decision = {"approve", "reject"}
INVARIANTS
    TypeOK
    LoopsBounded
    KeepIsEarned
    BranchWasKept
    ApplyResultIsTrue
    NoRefConflict
    CompletedIsVerified
    PatchIsClean
    PendingApplyHalts
    ReportIsComplete
PROPERTIES
    Terminates
