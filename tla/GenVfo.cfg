SPECIFICATION Spec
CONSTANTS
    Bands = {"low", "high"}
    loFreq <- MCLo
    hiFreq <- MCHi
    Step = 400
    Freqs = {999, 1000, 1300, 3000, 3801}
    Steps = {400, 900}
INVARIANTS TypeOK FreqInBand HomeVfo
