SPECIFICATION Spec
CONSTANT MaxSessions = 2
PROPERTY UnkeyedAfterStop
CHECK_DEADLOCK FALSE
