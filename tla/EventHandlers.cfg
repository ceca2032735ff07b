SPECIFICATION Spec
CONSTANTS
    Counts = {0, 2}
    Seconds = {1, 2}
    MaxEvents = 2
    TriggerSets <- MCTriggerSets
INVARIANTS FiledIsWhole StoredBeforeRisk IsolationIsRecorded CompleteIsHandled
INVARIANTS NothingLeftBehind PerSecondCount HeaderUuidStored
PROPERTIES HandlerReturns
CHECK_DEADLOCK FALSE
