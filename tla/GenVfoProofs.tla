---------------------------- MODULE GenVfoProofs ----------------------------
(***************************************************************************)
(* Proofs about genVFO, for any band tables, steps and order of calls.     *)
(***************************************************************************)
EXTENDS GenVfo, TLAPS

USE BandAssumption, StepAssumption, FreqsAssumption, StepsAssumption

\* set(v,freq) keeps the object's type, whatever frequency it is asked for.
LEMMA SetType ==
    ASSUME NEW o \in VfoState, NEW v \in VFOs, NEW freq \in Int
    PROVE  Set(o, v, freq) \in VfoState
BY DEF Set, VfoState, VFOs, Bits, Accepts, InBand

\* update(v,dir) keeps the object's type.
LEMMA UpdateType ==
    ASSUME NEW o \in VfoState, NEW v \in VFOs, NEW dir \in {-1, 1}
    PROVE  Update(o, v, dir) \in VfoState
<1> DEFINE b     == o.band[v]
           moved == o.f[v] + dir * o.step[v]
<1>1. moved \in Int /\ b \in Bands /\ loFreq[b] \in Int /\ hiFreq[b] \in Int
  BY DEF VfoState, VFOs
<1>2. QED
  BY <1>1 DEF Update, VfoState, VFOs, Bits

\* setPTT(b) keeps the object's type.
LEMMA SetPTTType ==
    ASSUME NEW o \in VfoState, NEW on \in BOOLEAN
    PROVE  SetPTT(o, on) \in VfoState
<1>1. PttVfo(o) \in VFOs
  BY DEF PttVfo, Other, VfoState, VFOs
<1>2. SetBit(o.ft, "PTT", on) \in SUBSET Bits
  BY DEF SetBit, VfoState, Bits
<1>3. QED
  BY <1>1, <1>2 DEF SetPTT, VfoState

\* Every call of the owner keeps the type of the object.
THEOREM TypeCorrect == Spec => []TypeOK
<1>1. Init => TypeOK
  <2>1. Init => g \in VfoState
    BY DEF Init, TunedTo, VfoState, VFOs, Bits
  <2>2. Init => strayed \in BOOLEAN
    BY DEF Init
  <2>3. QED
    BY <2>1, <2>2 DEF TypeOK
<1>2. TypeOK /\ [Next]_vars => TypeOK'
  <2> SUFFICES ASSUME TypeOK, [Next]_vars PROVE TypeOK'
    OBVIOUS
  <2> USE DEF TypeOK
  <2>0. strayed' \in BOOLEAN
    BY DEF Next, Adjust, Key, Split, Select, Swap, InSplit, Keyed, vars
  <2>1. ASSUME NEW v \in VFOs, Tune(v) PROVE g' \in VfoState
    BY <2>1, SetType DEF Tune
  <2>2. ASSUME NEW v \in VFOs, ChangeBand(v) PROVE g' \in VfoState
    <3>1. PICK b \in Bands : g' = SetBand(g, v, b)
      BY <2>2 DEF ChangeBand
    <3>2. [g EXCEPT !.band[v] = b] \in VfoState
      BY DEF VfoState
    <3>3. QED
      BY <3>1, <3>2, SetType DEF SetBand
  <2>3. ASSUME NEW v \in VFOs, Dial(v) PROVE g' \in VfoState
    BY <2>3, UpdateType DEF Dial
  <2>4. ASSUME NEW v \in VFOs, ChangeStep(v) PROVE g' \in VfoState
    BY <2>4 DEF ChangeStep, SetVFOStep, VfoState
  <2>5. ASSUME NEW v \in VFOs, Clarify(v) PROVE g' \in VfoState
    BY <2>5 DEF Clarify, UpdateRIT, VfoState
  <2>6. ASSUME NEW v \in VFOs, Select(v) PROVE g' \in VfoState
    BY <2>6 DEF Select, SetVFO, SetBit, VfoState, Bits
  <2>7. ASSUME SwitchRIT PROVE g' \in VfoState
    BY <2>7 DEF SwitchRIT, SetRIT, SetBit, VfoState, Bits
  <2>8. ASSUME Lock PROVE g' \in VfoState
    BY <2>8 DEF Lock, SetLock, SetBit, VfoState, Bits
  <2>9. ASSUME NEW on \in BOOLEAN, Key(on) PROVE g' \in VfoState
    BY <2>9, SetPTTType DEF Key
  <2>10. ASSUME NEW on \in BOOLEAN, Split(on) PROVE g' \in VfoState
    BY <2>10 DEF Split, SetSplit, SetBit, VfoState, Bits
  <2>11. ASSUME Swap PROVE g' \in VfoState
    BY <2>11 DEF Swap, SwapVFO, Other, VfoState, VFOs
  <2>12. ASSUME UNCHANGED vars PROVE g' \in VfoState
    BY <2>12 DEF vars
  <2>13. QED
    BY <2>0, <2>1, <2>2, <2>3, <2>4, <2>5, <2>6, <2>7, <2>8, <2>9, <2>10, <2>11,
       <2>12 DEF Next, Adjust
<1>3. QED
  BY <1>1, <1>2, PTL DEF Spec

-----------------------------------------------------------------------------

\* set(v,freq) leaves both VFOs inside their bands.
LEMMA SetInBand ==
    ASSUME NEW o \in VfoState, NEW v \in VFOs, NEW freq \in Int, NEW w \in VFOs,
           w # v => InBand(o.band[w], o.f[w]),
           InBand(o.band[v], o.f[v]) \/ InBand(o.band[v], freq)
    PROVE  InBand(Set(o, v, freq).band[w], Set(o, v, freq).f[w])
BY DEF Set, VfoState, VFOs, Accepts

\* update(v,dir) clamps v into its band and leaves the other VFO alone.
LEMMA UpdateInBand ==
    ASSUME NEW o \in VfoState, NEW v \in VFOs, NEW dir \in {-1, 1},
           NEW w \in VFOs, InBand(o.band[w], o.f[w])
    PROVE  InBand(Update(o, v, dir).band[w], Update(o, v, dir).f[w])
<1> DEFINE b     == o.band[v]
           moved == o.f[v] + dir * o.step[v]
<1>1. /\ moved \in Int /\ b \in Bands
      /\ loFreq[b] \in Int /\ hiFreq[b] \in Int /\ loFreq[b] <= hiFreq[b]
  BY DEF VfoState, VFOs
<1>2. CASE w = v
  BY <1>1, <1>2 DEF Update, InBand, VfoState, VFOs
<1>3. CASE w # v
  BY <1>3 DEF Update, InBand, VfoState, VFOs
<1>4. QED
  BY <1>2, <1>3

\* Both VFOs stay inside their bands under any sequence of calls.
THEOREM FreqInBandHolds == Spec => []FreqInBand
<1>1. Init => FreqInBand
  BY DEF Init, FreqInBand, TunedTo, InBand, VFOs
<1>2. TypeOK /\ FreqInBand /\ [Next]_vars => FreqInBand'
  <2> SUFFICES ASSUME TypeOK, FreqInBand, [Next]_vars, NEW w \in VFOs
               PROVE  InBand(g'.band[w], g'.f[w])
    BY DEF FreqInBand
  <2> USE DEF TypeOK, FreqInBand
  <2>1. ASSUME NEW v \in VFOs, Tune(v) PROVE InBand(g'.band[w], g'.f[w])
    BY <2>1, SetInBand DEF Tune
  <2>2. ASSUME NEW v \in VFOs, ChangeBand(v) PROVE InBand(g'.band[w], g'.f[w])
    <3>1. PICK b \in Bands : g' = SetBand(g, v, b)
      BY <2>2 DEF ChangeBand
    <3> DEFINE moved == [g EXCEPT !.band[v] = b]
    <3>2. moved \in VfoState /\ moved.band[v] = b
      BY DEF VfoState
    <3>3. loFreq[b] \in Int /\ InBand(b, loFreq[b])
      BY DEF InBand
    <3>4. w # v => InBand(moved.band[w], moved.f[w])
      BY DEF VfoState
    <3>5. g' = Set(moved, v, loFreq[b])
      BY <3>1 DEF SetBand
    <3> HIDE DEF moved
    <3>6. QED
      BY <3>2, <3>3, <3>4, <3>5, SetInBand
  <2>3. ASSUME NEW v \in VFOs, Dial(v) PROVE InBand(g'.band[w], g'.f[w])
    BY <2>3, UpdateInBand DEF Dial
  <2>4. ASSUME NEW v \in VFOs, ChangeStep(v) \/ Clarify(v) \/ Select(v)
        PROVE  g'.f = g.f /\ g'.band = g.band
    <3>1. CASE ChangeStep(v)
      BY <3>1 DEF ChangeStep, SetVFOStep, VfoState
    <3>2. CASE Clarify(v)
      BY <3>2 DEF Clarify, UpdateRIT, VfoState
    <3>3. CASE Select(v)
      BY <3>3 DEF Select, SetVFO, VfoState
    <3>4. QED
      BY <2>4, <3>1, <3>2, <3>3
  <2>5. ASSUME SwitchRIT \/ Lock \/ Swap \/ \E on \in BOOLEAN : Key(on) \/ Split(on)
        PROVE  g'.f = g.f /\ g'.band = g.band
    BY <2>5 DEF SwitchRIT, SetRIT, Lock, SetLock, Key, SetPTT, Split, SetSplit,
       Swap, SwapVFO, VfoState
  <2>6. CASE UNCHANGED vars
    BY <2>6 DEF vars
  <2>7. QED
    BY <2>1, <2>2, <2>3, <2>4, <2>5, <2>6 DEF Next, Adjust
<1>3. QED
  BY <1>1, <1>2, TypeCorrect, PTL DEF Spec

-----------------------------------------------------------------------------

\* Whatever is called, the VFO in use is the one its record and SPLIT call for,
\* unless the caller has made one of the calls that part them since the last
\* selection outside a SPLIT transmission.
THEOREM HomeVfoHolds == Spec => []HomeVfo
<1> USE DEF Recorded, Keyed, HomeVfo, InSplit, Other, VFOs
<1>1. Init => HomeVfo
  BY DEF Init, TunedTo
<1>2. TypeOK /\ HomeVfo /\ [Next]_vars => HomeVfo'
  <2> SUFFICES ASSUME TypeOK, HomeVfo, [Next]_vars PROVE HomeVfo'
    OBVIOUS
  <2> USE DEF TypeOK, VfoState
  <2>1. ASSUME NEW v \in VFOs,
               Tune(v) \/ ChangeBand(v) \/ Dial(v) \/ ChangeStep(v) \/ Clarify(v)
        PROVE  g'.ft = g.ft /\ g'.vfo = g.vfo
    <3>1. CASE Tune(v) \/ ChangeBand(v)
      BY <3>1 DEF Tune, ChangeBand, SetBand, Set
    <3>2. CASE Dial(v)
      BY <3>2 DEF Dial, Update
    <3>3. CASE ChangeStep(v) \/ Clarify(v)
      BY <3>3 DEF ChangeStep, SetVFOStep, Clarify, UpdateRIT
    <3>4. QED
      BY <2>1, <3>1, <3>2, <3>3
  <2>2. CASE Adjust
    <3>1. CASE SwitchRIT
      BY <2>2, <3>1 DEF Adjust, SwitchRIT, SetRIT, SetBit
    <3>2. CASE Lock
      BY <2>2, <3>2 DEF Adjust, Lock, SetLock, SetBit
    <3>3. QED
      BY <2>1, <2>2, <3>1, <3>2 DEF Adjust
  <2>3. ASSUME NEW on \in BOOLEAN, Key(on) PROVE HomeVfo'
    <3>1. CASE on = Keyed(g)
      BY <2>3, <3>1 DEF Key, SetPTT, PttVfo, SetBit
    <3>2. CASE Keyed(g) /\ ~on
      BY <2>3, <3>2 DEF Key, SetPTT, PttVfo, SetBit
    <3>3. CASE ~Keyed(g) /\ on
      BY <2>3, <3>3 DEF Key, SetPTT, PttVfo, SetBit
    <3>4. QED
      BY <3>1, <3>2, <3>3
  <2>4. ASSUME NEW on \in BOOLEAN, Split(on) PROVE HomeVfo'
    <3>1. CASE on
      BY <2>4, <3>1 DEF Split, SetSplit, SetBit
    <3>2. CASE ~on
      BY <2>4, <3>2 DEF Split, SetSplit, SetBit
    <3>3. QED
      BY <3>1, <3>2
  <2>5. ASSUME NEW v \in VFOs, Select(v) PROVE HomeVfo'
    BY <2>5 DEF Select, SetVFO, SetBit
  <2>6. CASE Swap
    BY <2>6 DEF Swap
  <2>7. CASE UNCHANGED vars
    BY <2>7 DEF vars
  <2>8. QED
    BY <2>2, <2>3, <2>4, <2>5, <2>6, <2>7 DEF Next
<1>3. QED
  BY <1>1, <1>2, TypeCorrect, PTL DEF Spec
=============================================================================
