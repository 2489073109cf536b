SPECIFICATION Spec
CONSTANTS
    Job <- MCJob
    JobName <- MCJobName
    Supported <- MCSupported
    MaxWorkers = 1
    MaxRuns = 3
    MaxRetries = 1
INVARIANT RunsOncePerEntry
PROPERTY ImplementsJobService
\* Every caller may have its answer and every run may have ended.
CHECK_DEADLOCK FALSE
