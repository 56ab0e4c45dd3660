SPECIFICATION Spec
CONSTANT Timeout = 4
PROPERTY Released
