SPECIFICATION Spec
CONSTANTS
    Stations = {"dx", "fan"}
    MaxHeard = 2
INVARIANTS TypeOK OneWaiting SpeaksToPartner CallsBounded
PROPERTIES ImplementsContact SilenceEndsQso
