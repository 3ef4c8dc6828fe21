CONSTANTS
    Sockets = {3, 4}
    Scenarios <- ReaderScenarios
SPECIFICATION FairSpec
INVARIANT TypeOK
INVARIANT PacketsIntact
INVARIANT ServedInTurn
PROPERTY PacketsComeThrough
CHECK_DEADLOCK FALSE
