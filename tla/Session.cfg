SPECIFICATION Spec
CONSTANT MaxSessions = 3
INVARIANTS TypeOK NoStaleKey InTouch PinOwned
PROPERTY OldGeneratorsEnd
CHECK_DEADLOCK FALSE
