SPECIFICATION Spec
CONSTANTS
    m1 = m1
    m2 = m2
    m3 = m3
    m4 = m4
    m5 = m5
    m6 = m6
    None = None
    MaxMsgId = 3
    MaxInflight = 2
    SrvMaxMsgId = 1
    Msgs1 = {m1, m4}
    Msgs2 = {m2, m3}
    SrvMsgs1 = {}
    SrvMsgs2 = {}
    Scenarios <- QueueScenarios
CHECK_DEADLOCK FALSE
INVARIANT AlwaysOnce
