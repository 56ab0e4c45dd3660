------------------------------ MODULE CatRadio ------------------------------
(***************************************************************************)
(* The radio that a client of the CAT interface may take the controller    *)
(* OT4D for: two VFOs, each in a band, one of them in use, and a           *)
(* transmitter.  A command changes at once and for good what it is meant   *)
(* to change and nothing else, however many copies of it the program keeps *)
(* and whatever its callbacks do to them.                                  *)
(***************************************************************************)
EXTENDS Integers

CONSTANTS
    Bands,               \* indices of the band tables loFreq, hiFreq
    loFreq,              \* lower edge of each band
    hiFreq,              \* upper edge of each band
    Requests             \* the frequencies that clients ask for

VARIABLES
    vfo,                 \* the VFO in use, "A" or "B"
    freq,                \* the frequency of each
    band,                \* and its band
    tx,                  \* whether the generator transmits
    ready,               \* whether the self-test of the PTT is over
    last,                \* the command obeyed last
    says                 \* what it answered

vars == <<vfo, freq, band, tx, ready, last, says>>

VFOs == {"A", "B"}

InBand(b, n) == loFreq[b] <= n /\ n <= hiFreq[b]

Init ==
    /\ \E b \in Bands : \E n \in loFreq[b] .. hiFreq[b] :
          /\ freq = [v \in VFOs |-> n]
          /\ band = [v \in VFOs |-> b]
    /\ vfo = "A"
    /\ tx = FALSE
    /\ ready = FALSE
    /\ last = "none"
    /\ says = "nothing"

\* The transmitter is switched on and off once before any command.
SelfTest ==
    /\ ~ready
    /\ tx' = ~tx
    /\ ready' = tx
    /\ UNCHANGED <<vfo, freq, band, last, says>>

Answered(cmd, answers) ==
    /\ ready
    /\ last' = cmd
    /\ says' \in answers
    /\ UNCHANGED <<band, ready>>

\* The VFO in use is tuned, in reception and inside its band only.
Tune(n) ==
    /\ Answered("tune", {"ok"})
    /\ freq' = IF ~tx /\ InBand(band[vfo], n) THEN [freq EXCEPT ![vfo] = n] ELSE freq
    /\ UNCHANGED <<vfo, tx>>

Swap ==
    /\ Answered("swap", {"ok"})
    /\ vfo' = IF vfo = "A" THEN "B" ELSE "A"
    /\ UNCHANGED <<freq, tx>>

\* The transmitter goes on or off, and the client learns what it was before.
Key(on) ==
    /\ Answered(IF on THEN "ptt on" ELSE "ptt off",
                {IF tx = on THEN "was so already" ELSE "done"})
    /\ tx' = on
    /\ UNCHANGED <<vfo, freq>>

\* The client is told whether the generator transmits.
AskTransmitter ==
    /\ \E cmd \in {"tx status", "tx metering"} :
          Answered(cmd, {IF tx THEN "transmitting" ELSE "receiving"})
    /\ UNCHANGED <<vfo, freq, tx>>

\* Or, of all the EEPROM, which VFO is in use.
AskEeprom ==
    /\ Answered("eeprom", {vfo, "zero", "nothing"})
    /\ UNCHANGED <<vfo, freq, tx>>

\* Nothing else can be heard on the air or seen on the dial.
Others ==
    /\ \/ \E cmd \in {"lock on", "lock off", "split", "split off", "rit", "rit off"} :
             Answered(cmd, {"was so already", "done"})
       \/ Answered("mode", {"ok", "nothing"})
       \/ Answered("clarifier", {"ok"})
       \/ Answered("get frequency", {"frequency"})
       \/ Answered("rx status", {"meter"})
    /\ UNCHANGED <<vfo, freq, tx>>

Next ==
    \/ SelfTest
    \/ \E n \in Requests : Tune(n)
    \/ Swap
    \/ \E on \in BOOLEAN : Key(on)
    \/ AskTransmitter
    \/ AskEeprom
    \/ Others

Spec == Init /\ [][Next]_vars
=============================================================================
