CONSTANTS
    Sockets = {3, 4}
    Scenarios <- ReuseScenarios
SPECIFICATION Spec
INVARIANT QueuedIsOwn
CHECK_DEADLOCK FALSE
