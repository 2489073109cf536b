SPECIFICATION HistorySpec
CONSTANTS
    n1 = n1  n2 = n2
    Continue = Continue  approval = approval  revision = revision  rejected = rejected
    NoRoute = NoRoute
    Node <- MCNode
    Route <- MCRoute
    MaxSlots = 3
INVARIANTS
    RouteForIsLast
    NeverConflicts
PROPERTY
    HistoryKept
