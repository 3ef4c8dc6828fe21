CONSTANTS
    a = a
    b = b
    t1 = t1
    t2 = t2
    None = None
    Clients = {a, b}
    Apps = {t1, t2}
    MaxConns = 4
    Scenarios <- CallbackScenarios
SPECIFICATION Spec
INVARIANT PostsLiveSemaphore
CHECK_DEADLOCK FALSE
