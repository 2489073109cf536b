SPECIFICATION Spec
CONSTANTS
    Event = {0, 1}
    Dispatcher = {"d1", "d2"}
    AvailableAt <- MCAvailableAt
    Limit = 2
    MaxTime = 1
    MaxAttempts = 1
    MaxCrashes = 1
INVARIANT HandoffStartsOnce
PROPERTY EventuallyDelivered
