---------------------------- MODULE CatController ----------------------------
(***************************************************************************)
(* The controller OT4D (OT4D/OT4D.h): the CAT emulation (lib/CAT817.h) and *)
(* the VFO object (lib/genVFO.h) bound to each other by callbacks.  Each   *)
(* holds its own FT817 status byte and its own frequency; a CAT command    *)
(* changes the CAT's copy and calls CATchangeXxx(), which acts on the VFO  *)
(* object, whose vfoChangeXxx() callback writes the CAT's copy again while *)
(* CATchangeXxx() is still reading it.  Keying also reaches the PTT bit of *)
(* the master status word and the SSB generator.                           *)
(*                                                                         *)
(* The main loop runs one command to its end before it looks at the next,  *)
(* so a command with all its nested callbacks is one action.  The master   *)
(* status word is the one thing it shares: the keyboard thread sets a bit  *)
(* in it by a load and a store of the whole word.                          *)
(***************************************************************************)
EXTENDS VfoOps

CONSTANTS
    StartFreqs,          \* bound: the frequencies OT4D is started with
    Frames,              \* bound: the digits clients send to tune, four bytes
    Modes                \* the operating modes a client may ask for

USB == "usb"             \* MUSB, the only mode the transceiver has
ASSUME ControllerAssumption == StartFreqs \subseteq Nat /\ USB \in Modes
ASSUME FramesAssumption == Frames \subseteq [1 .. 4 -> 0 .. 255]

VARIABLES
    w,                   \* the controller's objects: the VFO object (vfo),
                         \* the CAT's copies (cat.ft, cat.f, cat.mode), PTT of
                         \* the master status word (msw) and usb->statePTT (usb)
    phase,               \* "boot", "test" while main() cycles the PTT, "run"
    last,                \* the command processed last
    reply,               \* what it answered: the number of bytes, their meaning
                         \* and, for "Get Frequency", the digits
    kbd,                 \* PTT in the status word that the keyboard thread has
                         \* loaded and not stored yet: "set", "clear" or "none"
    undone               \* history: the keyboard thread has stored an older PTT
                         \* over the present one

vars == <<w, phase, last, reply, kbd, undone>>

Reply(len, says) == [len |-> len, says |-> says, f |-> <<>>]
NoReply == Reply(0, "nothing")
Ack == Reply(1, "ok")

\* The status replies 0x00 and 0xF0 of the commands that set or clear a bit.
Acked(already) == Reply(1, IF already THEN "was so already" ELSE "done")

-----------------------------------------------------------------------------
(* Frequencies on the line: tens of Hz, two decimal digits in each byte.   *)

\* bcdToDec() and decToBcd(): the value of a byte and back.  Nothing checks
\* that the halves of a byte are digits, 0x0B is 11 like 0x11.
BcdToDec(v) == 10 * (v \div 16) + (v % 16)
DecToBcd(v) == 16 * (v \div 10) + (v % 10)

BCD2Dec(b) ==
    10 * (1000000 * BcdToDec(b[1]) + 10000 * BcdToDec(b[2])
          + 100 * BcdToDec(b[3]) + BcdToDec(b[4]))

\* The first byte is cut to 8 bits, the others are below 100 anyhow.
Dec2BCD(f) ==
    LET fz == f \div 10
    IN  <<DecToBcd(fz \div 1000000) % 256, DecToBcd((fz % 1000000) \div 10000),
          DecToBcd((fz % 10000) \div 100), DecToBcd(fz % 100)>>

-----------------------------------------------------------------------------
(* The callbacks.                                                          *)

\* vfoChangeFreq(): the CAT's copy follows the VFO in use.
VfoChangeFreq(u) == [u EXCEPT !.cat.f = Get(u.vfo)]

\* Mutant: the generator is not told about a change of the PTT.
VfoChangeStatusNoUsb(u, bit) ==
    [u EXCEPT !.msw = IF bit = "PTT" THEN Keyed(u.vfo) ELSE @,
              !.cat.ft = u.vfo.ft]

\* vfoChangeStatus(S): a PTT change goes to the status word and to the
\* generator; the CAT's status byte is replaced as a whole, at every change.
VfoChangeStatus(u, bit) ==
    LET keyed == Keyed(u.vfo)
    IN  [u EXCEPT !.msw = IF bit = "PTT" THEN keyed ELSE @,
                  !.usb = IF bit = "PTT" THEN keyed ELSE @,
                  !.cat.ft = u.vfo.ft]

\* vfo->setPTT(b) and vfo->setVFO(v) with the callbacks they end in.
VfoSetPTT(u, on) == VfoChangeStatus([u EXCEPT !.vfo = SetPTT(@, on)], "PTT")

\* Mutant: the VFO is swapped, which the status byte does not record.
VfoSwapVFO(u, v) == VfoChangeStatus([u EXCEPT !.vfo = SwapVFO(@)], "VFO")

VfoSetVFO(u, v) == VfoChangeStatus([u EXCEPT !.vfo = SetVFO(@, v)], "VFO")

\* Mutant: a tuning request is obeyed while transmitting.
CatChangeFreqAlways(u) ==
    IF InBand(u.vfo.band[u.vfo.vfo], u.cat.f)
    THEN VfoChangeFreq([u EXCEPT !.vfo = Set(@, @.vfo, u.cat.f)])
    ELSE VfoChangeFreq(u)

\* Mutant: a refused request is left in the CAT's copy.
CatChangeFreqKeepsRefused(u) ==
    IF ~Keyed(u.vfo) /\ InBand(u.vfo.band[u.vfo.vfo], u.cat.f)
    THEN VfoChangeFreq([u EXCEPT !.vfo = Set(@, @.vfo, u.cat.f)])
    ELSE u

\* CATchangeFreq(): the request is in the CAT's copy.  It is refused while
\* transmitting and outside the band, and the copy is then put back.
CatChangeFreq(u) ==
    IF ~Keyed(u.vfo) /\ InBand(u.vfo.band[u.vfo.vfo], u.cat.f)
    THEN VfoChangeFreq([u EXCEPT !.vfo = Set(@, @.vfo, u.cat.f)])
    ELSE [u EXCEPT !.cat.f = Get(u.vfo)]

\* CATchangeMode(): the mode is not changed, the CAT's copy is put back.
CatChangeMode(u) == [u EXCEPT !.cat.mode = USB]

CatVFO(u) == IF "VFO" \in u.cat.ft THEN "B" ELSE "A"

\* The first half of CATchangeStatus(): a PTT change the CAT asks for.
ApplyPTT(u) ==
    LET on == "PTT" \in u.cat.ft
    IN  IF on <=> Keyed(u.vfo) THEN u
        ELSE LET keyed == VfoSetPTT(u, on)
             IN  [keyed EXCEPT !.msw = "PTT" \in keyed.cat.ft]

\* Its second half: a VFO change.  It reads the copy the first half's
\* callbacks have written.
ApplyVFO(u) == IF CatVFO(u) = u.vfo.vfo THEN u ELSE VfoSetVFO(u, CatVFO(u))

\* Mutant: a change of LOCK, RIT or SPLIT is taken for the change asked for.
CatChangeStatusFirstOnly(u) ==
    IF u.cat.ft \cap {"RIT", "LOCK", "SPLIT"} # u.vfo.ft \cap {"RIT", "LOCK", "SPLIT"}
    THEN u
    ELSE ApplyVFO(ApplyPTT(u))

\* CATchangeStatus(): changes of RIT, LOCK and SPLIT are ignored, and stay in
\* the CAT's copy until a status callback replaces it.
CatChangeStatus(u) == ApplyVFO(ApplyPTT(u))

-----------------------------------------------------------------------------
(* Start up.                                                               *)

\* main() tunes both VFOs to one frequency and copies the state to the CAT.
\* (Which frequency is not checked: getBand() of one outside every band
\* gives -1, used as an index.)
Init ==
    /\ \E b \in Bands, freq \in StartFreqs :
          /\ InBand(b, freq)
          /\ w = [vfo |-> TunedTo(freq, b),
                  cat |-> [ft |-> {}, f |-> freq, mode |-> USB],
                  msw |-> FALSE, usb |-> FALSE]
    /\ phase = "boot"
    /\ last = "none"
    /\ reply = NoReply
    /\ kbd = "none"
    /\ undone = FALSE

\* main() keys the generator for a second to check the interface; the VFO
\* object and the CAT are not told.
TestKey ==
    /\ phase = "boot"
    /\ phase' = "test"
    /\ w' = [w EXCEPT !.usb = TRUE]
    /\ UNCHANGED <<last, reply, kbd, undone>>

\* Mutant: the test ends without unkeying the generator.
TestUnkeyForgotten ==
    /\ phase = "test"
    /\ phase' = "run"
    /\ w' = [w EXCEPT !.msw = FALSE]
    /\ undone' = FALSE
    /\ UNCHANGED <<last, reply, kbd>>

TestUnkey ==
    /\ phase = "test"
    /\ phase' = "run"
    /\ w' = [w EXCEPT !.usb = FALSE, !.msw = FALSE]
    /\ undone' = FALSE
    /\ UNCHANGED <<last, reply, kbd>>

-----------------------------------------------------------------------------
(* processCAT(): one action per command.                                   *)

\* A command that changes the PTT writes it to the status word once more.
Process(cmd, after, answer) ==
    /\ phase = "run"
    /\ w' = after
    /\ last' = cmd
    /\ reply' = answer
    /\ undone' = (undone /\ (Keyed(after.vfo) <=> Keyed(w.vfo)))
    /\ UNCHANGED <<phase, kbd>>

\* 0x01, Set Frequency.
SetFrequency ==
    \E digits \in Frames :
        LET asked == [w EXCEPT !.cat.f = BCD2Dec(digits)]
        IN  Process("tune", CatChangeStatus(CatChangeFreq(asked)), Ack)

\* 0x03, Get Frequency and Mode.
GetFrequency == 
    Process("get frequency", w,
            [len |-> 5, says |-> "frequency", f |-> Dec2BCD(w.cat.f)])

\* A command that gives one bit of the CAT's copy the value on.
StatusCommand(cmd, bit, on, answer) ==
    Process(cmd, CatChangeStatus([w EXCEPT !.cat.ft = SetBit(@, bit, on)]), answer)

Has(bit) == bit \in w.cat.ft

\* 0x00 and 0x80.
LockOn == StatusCommand("lock on", "LOCK", TRUE, Acked(Has("LOCK")))
LockOff == StatusCommand("lock off", "LOCK", FALSE, Acked(~Has("LOCK")))

\* 0x02 and 0x05 flip, 0x82 and 0x85 clear.
SplitFlip == StatusCommand("split", "SPLIT", ~Has("SPLIT"), Acked(Has("SPLIT")))
SplitOff == StatusCommand("split off", "SPLIT", FALSE, Acked(~Has("SPLIT")))
RitFlip == StatusCommand("rit", "RIT", ~Has("RIT"), Acked(Has("RIT")))
RitOff == StatusCommand("rit off", "RIT", FALSE, Acked(~Has("RIT")))

\* 0x08 and 0x88.
PttOn == StatusCommand("ptt on", "PTT", TRUE, Acked(Has("PTT")))
PttOff == StatusCommand("ptt off", "PTT", FALSE, Acked(~Has("PTT")))

\* 0x81.
SwapVfo == StatusCommand("swap", "VFO", ~Has("VFO"), Ack)

\* 0xF5: the clarifier offset is stored (RITOFS) and never used.
SetClarifier == Process("clarifier", CatChangeStatus(w), Ack)

\* Mutant: an unknown mode is stored before it is refused.
SetModeStoredFirst ==
    \/ \E m \in Modes :
           Process("mode", CatChangeMode([w EXCEPT !.cat.mode = m]), Ack)
    \/ Process("mode", [w EXCEPT !.cat.mode = "unknown"], NoReply)

\* 0x07: an unknown mode is dropped without an answer.
SetMode ==
    \/ \E m \in Modes :
           Process("mode", CatChangeMode([w EXCEPT !.cat.mode = m]), Ack)
    \/ Process("mode", w, NoReply)

\* 0xBB: two EEPROM addresses are answered.
ReadEeprom ==
    \E address \in {"0x55", "0x64", "other"} :
        Process("eeprom", w,
                CASE address = "0x55"  -> Reply(2, CatVFO(w))
                  [] address = "0x64"  -> Reply(2, "zero")
                  [] address = "other" -> NoReply)

\* 0xE7: the meter; 0xF7 and 0xBD: whether the transmitter is on.
ReceiverStatus == Process("rx status", w, Reply(1, "meter"))
TransmitterStatus ==
    Process("tx status", w,
            Reply(1, IF Has("PTT") THEN "transmitting" ELSE "receiving"))
TxMetering ==
    Process("tx metering", w,
            IF Has("PTT") THEN Reply(2, "transmitting") ELSE Reply(1, "receiving"))

Command ==
    \/ SetFrequency \/ GetFrequency \/ SetMode \/ SwapVfo \/ SetClarifier
    \/ LockOn \/ LockOff \/ SplitFlip \/ SplitOff \/ RitFlip \/ RitOff
    \/ PttOn \/ PttOff
    \/ ReadEeprom \/ ReceiverStatus \/ TransmitterStatus \/ TxMetering

-----------------------------------------------------------------------------
(* read_stdin(): setWord(&MSW,GUI,true) for each key pressed.  What of it    *)
(* falls into a command comes to the same as before or after that command: *)
(* of the PTT bit, the thread stores what was there at its load.           *)

KeyLoad ==
    /\ kbd = "none"
    /\ kbd' = IF w.msw THEN "set" ELSE "clear"
    /\ UNCHANGED <<w, phase, last, reply, undone>>

KeyStore ==
    /\ kbd # "none"
    /\ w' = [w EXCEPT !.msw = (kbd = "set")]
    /\ undone' = (undone \/ ((kbd = "set") # w.msw))
    /\ kbd' = "none"
    /\ UNCHANGED <<phase, last, reply>>

Next == TestKey \/ TestUnkey \/ Command \/ KeyLoad \/ KeyStore

Spec == Init /\ [][Next]_vars

-----------------------------------------------------------------------------
(* What the controller promises its clients.                               *)

World == [vfo : VfoState, cat : [ft : SUBSET Bits, f : Int, mode : Modes],
          msw : BOOLEAN, usb : BOOLEAN]

TypeOK ==
    /\ w \in World
    /\ phase \in {"boot", "test", "run"}
    /\ kbd \in {"none", "set", "clear"}
    /\ undone \in BOOLEAN

\* Between two commands the CAT's status byte, the VFO object's and the
\* generator agree about the PTT, whatever the keyboard thread does.  So does
\* the master status word, which it writes too, until it stores an older PTT
\* over the present one; and again from the next change of the PTT on.
PttAgreed ==
    phase = "run" =>
        /\ Keyed(w.vfo) <=> "PTT" \in w.cat.ft
        /\ Keyed(w.vfo) <=> w.usb
        /\ undone \/ (Keyed(w.vfo) <=> w.msw)

\* So do the three records of the VFO in use.
VfoAgreed ==
    /\ w.vfo.vfo = "B" <=> "VFO" \in w.cat.ft
    /\ w.vfo.vfo = "B" <=> "VFO" \in w.vfo.ft

\* The CAT announces the mode the transceiver is in, and a frequency one of
\* the VFOs is tuned to, inside its band: what was refused is never visible
\* after the command that asked for it.
Announced ==
    /\ w.cat.mode = USB
    /\ \E v \in VFOs :
          /\ w.cat.f = w.vfo.f[v]
          /\ InBand(w.vfo.band[v], w.cat.f)

\* Every command of a client is obeyed when it has been answered, although
\* the callbacks it starts replace the status byte it was written to.  (The
\* steps that leave kbd alone are those of the main loop.)
CommandsObeyed ==
    [][UNCHANGED kbd =>
          /\ last' = "ptt on" => Keyed(w'.vfo)
          /\ last' = "ptt off" => ~Keyed(w'.vfo)
          /\ last' = "swap" => w'.vfo.vfo = Other(w.vfo.vfo)
          /\ last' \notin {"ptt on", "ptt off"} => (Keyed(w'.vfo) <=> Keyed(w.vfo))
          /\ last' # "swap" => w'.vfo.vfo = w.vfo.vfo]_vars

\* A client is told that the transmitter is on exactly when the generator
\* has been told to transmit.
StatusTruthful ==
    /\ reply.says = "transmitting" => w.usb
    /\ reply.says = "receiving" => ~w.usb

\* The radio that the controller's objects amount to: the VFO object's
\* frequencies and the generator's transmitter.
Radio == INSTANCE CatRadio WITH
    Requests <- {BCD2Dec(digits) : digits \in Frames},
    vfo      <- w.vfo.vfo,
    freq     <- w.vfo.f,
    band     <- w.vfo.band,
    tx       <- w.usb,
    ready    <- (phase = "run"),
    says     <- reply.says

\* Seen by a client the four copies of the PTT, the three of the VFO in use
\* and the two of the frequency are one radio: every command changes what it
\* is meant to change, tells the truth about the transmitter and the VFO, and
\* leaves the rest alone.
ImplementsRadio == Radio!Spec

-----------------------------------------------------------------------------
(* What the source says and the code does not do.                           *)

\* What of a frequency a client can be told.
InTens(freq) == 10 * (freq \div 10)

\* "Get Frequency and Mode" answers the frequency of the VFO in use.
FrequencyTruthful ==
    reply.says = "frequency" => BCD2Dec(reply.f) = InTens(Get(w.vfo))
=============================================================================
