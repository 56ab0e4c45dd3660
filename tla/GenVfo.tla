------------------------------- MODULE GenVfo -------------------------------
(***************************************************************************)
(* One genVFO object (lib/genVFO.h) under the calls of its owner.  The     *)
(* class does not constrain the order of calls, and neither does this      *)
(* module: any call is made at any time, keyed or not.  What the VFO in    *)
(* use owes to its record depends on the calls made, so a history variable *)
(* notes those after which the two part; OT4D makes none of them, it never *)
(* turns SPLIT on in the object (see CatController).                       *)
(***************************************************************************)
EXTENDS VfoOps

CONSTANTS
    Freqs,               \* bound: the frequencies the owner asks for
    Steps                \* bound: the steps the owner chooses

ASSUME FreqsAssumption == Freqs \subseteq Int
ASSUME StepsAssumption == Steps \subseteq Nat

VARIABLES
    g,                   \* the object
    strayed              \* history: the VFO in use has parted from its record
vars == <<g, strayed>>

\* The constructor and main()'s setup tune both VFOs to one frequency.
Init ==
    /\ \E b \in Bands, freq \in Freqs : InBand(b, freq) /\ g = TunedTo(freq, b)
    /\ strayed = FALSE

\* Transmitting on the other VFO.
InSplit == Keyed(g) /\ "SPLIT" \in g.ft

\* Calls that leave the VFO in use and what is recorded of it alone:
\* set(v,freq), setBand(v,b), up() and down(), setVFOStep(v,s), updateRIT(v,dir).
Tune(v) == \E freq \in Freqs : g' = Set(g, v, freq)
ChangeBand(v) == \E b \in Bands : g' = SetBand(g, v, b)
Dial(v) == \E dir \in {-1, 1} : g' = Update(g, v, dir)
ChangeStep(v) == \E s \in Steps : g' = SetVFOStep(g, v, s)
Clarify(v) == \E dir \in {-1, 1} : g' = UpdateRIT(g, v, dir)

\* setRIT(v,b) and setLock(b).
SwitchRIT == \E on \in BOOLEAN : g' = SetRIT(g, on)
Lock == \E on \in BOOLEAN : g' = SetLock(g, on)

Adjust ==
    /\ \/ \E v \in VFOs :
             Tune(v) \/ ChangeBand(v) \/ Dial(v) \/ ChangeStep(v) \/ Clarify(v)
       \/ SwitchRIT
       \/ Lock
    /\ UNCHANGED strayed

\* setPTT(b): in SPLIT each call swaps, one that changes nothing too.
Key(on) ==
    /\ g' = SetPTT(g, on)
    /\ strayed' = (strayed \/ ("SPLIT" \in g.ft /\ (on <=> Keyed(g))))

\* setSplit(b): in a transmission it changes which VFO is the right one.
Split(on) ==
    /\ g' = SetSplit(g, on)
    /\ strayed' = (strayed \/ (Keyed(g) /\ (on <=> "SPLIT" \notin g.ft)))

\* setVFO(v): puts the VFO and its record right, except that in a SPLIT
\* transmission it selects the VFO meant for reception.
Select(v) ==
    /\ g' = SetVFO(g, v)
    /\ strayed' = InSplit

\* swapVFO(): recorded nowhere.
Swap ==
    /\ g' = SwapVFO(g)
    /\ strayed' = TRUE

Next ==
    \/ Adjust
    \/ \E on \in BOOLEAN : Key(on) \/ Split(on)
    \/ \E v \in VFOs : Select(v)
    \/ Swap

Spec == Init /\ [][Next]_vars

-----------------------------------------------------------------------------

\* Every field of the object has its type.
TypeOK == g \in VfoState /\ strayed \in BOOLEAN

\* Whatever the owner calls, in whatever order, each VFO is tuned inside the
\* band it is set to: set() refuses, setBand() retunes, update() clamps.
FreqInBand == \A v \in VFOs : InBand(g.band[v], g.f[v])

\* The VFO that the status byte names.
Recorded == IF "VFO" \in g.ft THEN "B" ELSE "A"

\* setPTT() swaps the VFOs in SPLIT at both edges and records neither swap,
\* so the two have to cancel: after any number of transmissions, and VFO
\* selections in between and in those without SPLIT, the object receives on
\* the VFO the status byte names and transmits in SPLIT on the other one.  It
\* is owed unless the caller has keyed what is keyed or unkeyed what is not
\* with SPLIT on, has changed SPLIT or selected a VFO in the middle of a
\* (SPLIT) transmission, or has swapped the VFOs with swapVFO(); and it is
\* owed again from the next selection outside a SPLIT transmission on.
HomeVfo == ~strayed => g.vfo = IF InSplit THEN Other(Recorded) ELSE Recorded
=============================================================================
