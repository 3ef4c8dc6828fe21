SPECIFICATION Spec
CONSTANTS
    a = a
    b = b
    t1 = t1
    t2 = t2
    p0 = p0
    p1 = p1
    p2 = p2
    s1 = s1
    c1 = c1
    c2 = c2
    d1 = d1
    None = None
    MaxMsgId = 4
    SeqnoLimit = 8
    Clients = {a, b}
    Threads = {t1, t2}
    Pubs0 = {p0}
    Pubs1 = {p1, p2}
    Subs = {s1}
    Conns = {c1, c2}
    Discs = {d1}
    Scenarios <- SafetyScenarios
CHECK_DEADLOCK FALSE
INVARIANT TypeOK
INVARIANT BufferedCountIsTrue
INVARIANT NoneForgotten
INVARIANT SuccessIsTrue
INVARIANT InOrder
INVARIANT TokensDistinct
INVARIANT QueueIsStored
INVARIANT ReportedOnce
