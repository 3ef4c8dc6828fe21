SPECIFICATION Spec
CONSTANTS
    m1 = m1
    m2 = m2
    m3 = m3
    m4 = m4
    m5 = m5
    m6 = m6
    None = None
    MaxMsgId = 3
    MaxInflight = 2
    SrvMaxMsgId = 2
    Msgs1 = {m1}
    Msgs2 = {m2, m3}
    SrvMsgs1 = {m4}
    SrvMsgs2 = {m5, m6}
    Scenarios <- FaultScenarios
CHECK_DEADLOCK FALSE
INVARIANT UniqueIds
INVARIANT NeverOutOfIds
INVARIANT KeptUntilAnswered
INVARIANT StoreHasNoStaleSent
INVARIANT ExactlyOnceIn
