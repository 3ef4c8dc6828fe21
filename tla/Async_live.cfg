SPECIFICATION FairSpec
CONSTANTS
    a = a
    b = b
    t1 = t1
    t2 = t2
    p0 = p0
    p1 = p1
    p2 = p2
    s1 = s1
    c1 = c1
    c2 = c2
    d1 = d1
    None = None
    MaxMsgId = 4
    SeqnoLimit = 8
    Clients = {a}
    Threads = {t1}
    Pubs0 = {p0}
    Pubs1 = {p1}
    Subs = {}
    Conns = {c1, c2}
    Discs = {d1}
    Scenarios <- LiveScenarios
CHECK_DEADLOCK FALSE
PROPERTY ConnectIsAnswered
PROPERTY AutoReconnects
PROPERTY PublishIsAnswered
