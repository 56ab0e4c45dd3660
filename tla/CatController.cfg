SPECIFICATION Spec
CONSTANTS
    Bands = {"low", "high"}
    loFreq <- MCLo
    hiFreq <- MCHi
    Step = 1
    StartFreqs = {105, 310}
    Frames <- MCFrames
    Modes = {"usb", "lsb"}
INVARIANTS TypeOK PttAgreed VfoAgreed Announced StatusTruthful
PROPERTIES CommandsObeyed ImplementsRadio
