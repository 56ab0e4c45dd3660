SPECIFICATION Spec
CONSTANT Timeout = 12
INVARIANTS TypeOK WillUnkey Held RunsWhileTicking
PROPERTY ReleasedInTime
