SPECIFICATION Spec
CONSTANT MaxMsgId = 5
INVARIANT TypeOK
PROPERTY ReturnsFirstFree
PROPERTY LastIdNotReusedAtOnce
PROPERTY SearchEndsIfSomeFree
