SPECIFICATION Spec
CONSTANTS
    Stations = {"dx", "fan"}
    MaxHeard = 1
PROPERTY EveryQsoEnds
