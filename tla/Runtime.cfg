SPECIFICATION Spec
CONSTANTS
    e1 = e1  e2 = e2  e3 = e3
    k1 = k1  k2 = k2
    o1 = o1  o2 = o2  bad = bad
    NoOutput = NoOutput
    NoKey = NoKey
    Output <- MCOutput
    Undeclared <- MCUndeclared
    Executor <- MCExecutor
    Key <- MCKey
    Shared <- MCShared
    MaxCalls = 4
SYMMETRY Symmetry
INVARIANTS
    TypeOK
    CompletedReadable
    IntentPrecedesEffect
    CommittedIsCompleted
    UnknownFindsPending
PROPERTIES
    NeverDowngraded
    NoEffectAfterCompletion
    ImplementsOnceOnly
CHECK_DEADLOCK FALSE
