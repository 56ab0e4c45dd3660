------------------------------- MODULE VfoOps -------------------------------
(***************************************************************************)
(* The methods of class genVFO (lib/genVFO.h) as operators on the state of *)
(* one object.  A genVFO holds two VFOs, each tuned to a frequency inside  *)
(* a band, and the FT817 status byte the CAT emulation shows to clients.   *)
(*                                                                         *)
(* Frequencies are integers: genVFO keeps them in a 32 bit float, exact up *)
(* to 2^24 Hz.  The callbacks a method makes at its end belong to whoever  *)
(* owns the object and are added there.                                    *)
(***************************************************************************)
EXTENDS Integers

CONSTANTS
    Bands,               \* indices of the band tables loFreq, hiFreq
    loFreq,              \* lower edge of each band
    hiFreq,              \* upper edge of each band
    Step                 \* VFO_STEP_100Hz, the initial step and the RIT step

VFOs == {"A", "B"}

\* The bits of the status byte FT817 that genVFO uses; VFO set means VFO B.
Bits == {"PTT", "SPLIT", "RIT", "LOCK", "VFO"}

ASSUME BandAssumption ==
    /\ loFreq \in [Bands -> Nat]
    /\ hiFreq \in [Bands -> Nat]
    /\ \A b \in Bands : loFreq[b] <= hiFreq[b]
ASSUME StepAssumption == Step \in Nat

Other(v) == IF v = "A" THEN "B" ELSE "A"

\* setWord(): one bit of a status byte.
SetBit(word, bit, on) == IF on THEN word \cup {bit} ELSE word \ {bit}

InBand(b, freq) == loFreq[b] <= freq /\ freq <= hiFreq[b]

\* The state of a genVFO object.
VfoState == [vfo : VFOs, ft : SUBSET Bits, f : [VFOs -> Int],
             band : [VFOs -> Bands], step : [VFOs -> Nat], rit : [VFOs -> Int]]

\* The object once both VFOs are tuned to freq, reception on VFO A.
TunedTo(freq, b) ==
    [vfo |-> "A", ft |-> {}, f |-> [v \in VFOs |-> freq],
     band |-> [v \in VFOs |-> b], step |-> [v \in VFOs |-> Step],
     rit |-> [v \in VFOs |-> 0]]

Keyed(g) == "PTT" \in g.ft

\* get(): the frequency of the VFO in use.
Get(g) == g.f[g.vfo]

\* set(v,freq): refused outside the VFO's band.
Accepts(g, v, freq) == InBand(g.band[v], freq)
Set(g, v, freq) == IF Accepts(g, v, freq) THEN [g EXCEPT !.f[v] = freq] ELSE g

\* setBand(v,band): moves the VFO to the bottom of the band.
SetBand(g, v, b) == Set([g EXCEPT !.band[v] = b], v, loFreq[b])

\* Mutant: one step without the clamp to the band.
UpdateUnclamped(g, v, dir) == [g EXCEPT !.f[v] = @ + dir * g.step[v]]

\* update(v,dir): one step up or down, clamped to the band.
Update(g, v, dir) ==
    LET moved   == g.f[v] + dir * g.step[v]
        capped  == IF moved > hiFreq[g.band[v]] THEN hiFreq[g.band[v]] ELSE moved
        clamped == IF capped < loFreq[g.band[v]] THEN loFreq[g.band[v]] ELSE capped
    IN  [g EXCEPT !.f[v] = clamped]

\* The VFO that setPTT() switches to: the other one when SPLIT is on.
PttVfo(g) == IF "SPLIT" \in g.ft THEN Other(g.vfo) ELSE g.vfo

\* Mutant: the other VFO is selected for the transmission and kept after it.
SetPTTOneWay(g, b) ==
    [g EXCEPT !.vfo = IF b THEN PttVfo(g) ELSE @, !.ft = SetBit(@, "PTT", b)]

\* setPTT(b): both edges select PttVfo; the VFO bit is left as it was.
SetPTT(g, b) == [g EXCEPT !.vfo = PttVfo(g), !.ft = SetBit(@, "PTT", b)]

\* setVFO(v): selects a VFO and records it in the VFO bit.
SetVFO(g, v) == [g EXCEPT !.vfo = v, !.ft = SetBit(@, "VFO", v = "B")]

\* swapVFO(): selects the other VFO, without recording it.
SwapVFO(g) == [g EXCEPT !.vfo = Other(g.vfo)]

\* setSplit(b), setRIT(v,b) and setLock(b): the status bit only.
SetSplit(g, b) == [g EXCEPT !.ft = SetBit(@, "SPLIT", b)]
SetRIT(g, b) == [g EXCEPT !.ft = SetBit(@, "RIT", b)]
SetLock(g, b) == [g EXCEPT !.ft = SetBit(@, "LOCK", b)]

\* Mutant: the direction of the dial is kept as the sign of the step.
SetVFOStepSigned(g, v, s) == [g EXCEPT !.step[v] = IF g.step[v] > 0 THEN -s ELSE s]

\* setVFOStep(v,s): any step.
SetVFOStep(g, v, s) == [g EXCEPT !.step[v] = s]

\* updateRIT(v,dir): one step of the receiver offset, refused beyond 999 Hz.
UpdateRIT(g, v, dir) ==
    LET r == g.rit[v] + dir * Step
    IN  IF r > 999 \/ -r > 999 THEN g ELSE [g EXCEPT !.rit[v] = r]
=============================================================================
