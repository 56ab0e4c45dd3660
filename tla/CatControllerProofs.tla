------------------------ MODULE CatControllerProofs ------------------------
(***************************************************************************)
(* Proofs about the controller, for any bands, frequencies and modes.      *)
(***************************************************************************)
EXTENDS CatController, TLAPS

USE BandAssumption, StepAssumption, ControllerAssumption

\* The VFO object's own half of the agreement: it knows which VFO it uses, and
\* SPLIT is off.
ObjectSettled(u) ==
    /\ "SPLIT" \notin u.vfo.ft
    /\ u.vfo.vfo = "B" <=> "VFO" \in u.vfo.ft

\* The CAT's copy names the same PTT and the same VFO.
PttCopied(u) == Keyed(u.vfo) <=> "PTT" \in u.cat.ft
VfoCopied(u) == u.vfo.vfo = "B" <=> "VFO" \in u.cat.ft

GeneratorTold(u) == Keyed(u.vfo) <=> u.usb

\* From u to n the PTT is written to the status word if it has changed, and
\* the word is left alone if it has not.
WordWritten(u, n) ==
    /\ (Keyed(n.vfo) <=> Keyed(u.vfo)) => n.msw = u.msw
    /\ ~(Keyed(n.vfo) <=> Keyed(u.vfo)) => (n.msw <=> Keyed(n.vfo))

\* The inductive invariant.  Until the self-test is over the generator may
\* be keyed without the VFO object, and nothing else is.
IInv ==
    /\ TypeOK
    /\ ObjectSettled(w)
    /\ PttCopied(w)
    /\ VfoCopied(w)
    /\ undone \/ (Keyed(w.vfo) <=> w.msw)
    /\ phase = "run" => GeneratorTold(w)
    /\ phase # "run" => ~Keyed(w.vfo) /\ last = "none"

-----------------------------------------------------------------------------
(* Frequencies on the line.                                                *)

\* Two decimal digits survive their byte.
LEMMA PairKept ==
    ASSUME NEW v \in 0 .. 99
    PROVE  /\ DecToBcd(v) \in 0 .. 153
           /\ BcdToDec(DecToBcd(v)) = v
BY SMT DEF BcdToDec, DecToBcd

\* The frequency with these pairs of digits, and the units of Hz.
Hz(a, b, c, d, units) == 10 * (1000000 * a + 10000 * b + 100 * c + d) + units

\* Whatever frequency of up to nine digits the controller has, the five
\* bytes of processCAT() tell it to the client in tens of Hz: dec2BCD() and
\* BCD2Dec() are inverse to each other but for the units.
THEOREM FrequencyKept ==
    ASSUME NEW a \in 0 .. 99, NEW b \in 0 .. 99, NEW c \in 0 .. 99, NEW d \in 0 .. 99,
           NEW units \in 0 .. 9
    PROVE  BCD2Dec(Dec2BCD(Hz(a, b, c, d, units))) = InTens(Hz(a, b, c, d, units))
<1> DEFINE n == 1000000 * a + 10000 * b + 100 * c + d
           f == Hz(a, b, c, d, units)
<1>1. n \in Nat /\ f = 10 * n + units
  BY SMT DEF Hz
<1>2. f \div 10 = n
  BY <1>1, SMT
<1>3. n \div 1000000 = a /\ n % 1000000 = 10000 * b + 100 * c + d
  BY SMT
<1>4. (n % 1000000) \div 10000 = b
  BY <1>3, SMT
<1>5. n % 10000 = 100 * c + d
  BY SMT
<1>6. (n % 10000) \div 100 = c /\ n % 100 = d
  BY <1>5, SMT
<1> HIDE DEF n, f
<1>7. /\ DecToBcd(a) \in 0 .. 153 /\ BcdToDec(DecToBcd(a)) = a
      /\ BcdToDec(DecToBcd(b)) = b
      /\ BcdToDec(DecToBcd(c)) = c
      /\ BcdToDec(DecToBcd(d)) = d
  BY PairKept, Zenon
<1>8. DecToBcd(a) % 256 = DecToBcd(a)
  BY <1>7, SMT
<1>9. Dec2BCD(f) = <<DecToBcd(a), DecToBcd(b), DecToBcd(c), DecToBcd(d)>>
  BY <1>2, <1>3, <1>4, <1>6, <1>8, SMT DEF Dec2BCD
<1>10. BCD2Dec(Dec2BCD(f)) = 10 * (1000000 * a + 10000 * b + 100 * c + d)
  BY <1>7, <1>9, SMT DEF BCD2Dec
<1>11. QED
  BY <1>2, <1>10, SMT DEF InTens, n, f

\* Whatever bytes a client sends, they say a whole number.
LEMMA RequestIsNumber ==
    ASSUME NEW digits \in Frames
    PROVE  BCD2Dec(digits) \in Int
<1>1. \A i \in 1 .. 4 : digits[i] \in 0 .. 255
  BY FramesAssumption
<1>2. \A v \in 0 .. 255 : BcdToDec(v) \in Nat
  BY SMT DEF BcdToDec
<1>3. /\ BcdToDec(digits[1]) \in Nat /\ BcdToDec(digits[2]) \in Nat
      /\ BcdToDec(digits[3]) \in Nat /\ BcdToDec(digits[4]) \in Nat
  BY <1>1, <1>2
<1>4. QED
  BY <1>3, SMT DEF BCD2Dec

-----------------------------------------------------------------------------
(* The callbacks, on any state of the objects.                             *)

\* What the status callback writes has the right type.
LEMMA StatusType ==
    ASSUME NEW u \in World, NEW o \in VfoState, NEW m \in BOOLEAN, NEW s \in BOOLEAN
    PROVE  [u EXCEPT !.vfo = o, !.msw = m, !.usb = s, !.cat.ft = o.ft] \in World
BY DEF World, VfoState

\* What the frequency callback writes has the right type.
LEMMA TuneType ==
    ASSUME NEW u \in World, NEW o \in VfoState, NEW freq \in Int
    PROVE  [u EXCEPT !.vfo = o, !.cat.f = freq] \in World
BY DEF World

\* set(f) changes neither the status byte nor the VFO in use.
LEMMA SetKeeps ==
    ASSUME NEW o \in VfoState, NEW v \in VFOs, NEW freq \in Int
    PROVE  /\ Set(o, v, freq) \in VfoState
           /\ Set(o, v, freq).ft = o.ft
           /\ Set(o, v, freq).vfo = o.vfo
           /\ Set(o, v, freq).band = o.band
           /\ Set(o, v, freq).f =
                 IF InBand(o.band[v], freq) THEN [o.f EXCEPT ![v] = freq] ELSE o.f
BY DEF Set, VfoState, VFOs, Bits, Accepts, InBand

\* The frequencies after a tuning request: the one in use changes, in
\* reception and inside its band.
TunedByRequest(u, freq) ==
    IF ~Keyed(u.vfo) /\ InBand(u.vfo.band[u.vfo.vfo], freq)
    THEN [u.vfo.f EXCEPT ![u.vfo.vfo] = freq]
    ELSE u.vfo.f

\* A tuning request ends with the status untouched and no other frequency
\* changed.
LEMMA ChangeFreqKeeps ==
    ASSUME NEW u \in World
    PROVE  /\ CatChangeFreq(u) \in World
           /\ CatChangeFreq(u).vfo.ft = u.vfo.ft
           /\ CatChangeFreq(u).vfo.vfo = u.vfo.vfo
           /\ CatChangeFreq(u).cat.ft = u.cat.ft
           /\ CatChangeFreq(u).msw = u.msw
           /\ CatChangeFreq(u).usb = u.usb
           /\ CatChangeFreq(u).vfo.band = u.vfo.band
           /\ CatChangeFreq(u).vfo.f = TunedByRequest(u, u.cat.f)
<1> DEFINE o == Set(u.vfo, u.vfo.vfo, u.cat.f)
<1>1. /\ u.vfo \in VfoState /\ u.vfo.vfo \in VFOs /\ u.cat.f \in Int
      /\ u.vfo.f[u.vfo.vfo] \in Int
  BY DEF World, VfoState
<1>2. /\ o \in VfoState /\ o.ft = u.vfo.ft /\ o.vfo = u.vfo.vfo
      /\ o.band = u.vfo.band
      /\ InBand(u.vfo.band[u.vfo.vfo], u.cat.f)
            => o.f = [u.vfo.f EXCEPT ![u.vfo.vfo] = u.cat.f]
  BY <1>1, SetKeeps
<1>3. o.f[o.vfo] \in Int
  BY <1>2 DEF VfoState
<1>4. CASE ~(~Keyed(u.vfo) /\ InBand(u.vfo.band[u.vfo.vfo], u.cat.f))
  <2>1. CatChangeFreq(u) = [u EXCEPT !.cat.f = Get(u.vfo)]
    BY <1>4 DEF CatChangeFreq
  <2>2. QED
    BY <1>1, <1>4, <2>1 DEF World, Get, TunedByRequest
<1>5. CASE ~Keyed(u.vfo) /\ InBand(u.vfo.band[u.vfo.vfo], u.cat.f)
  <2> DEFINE n == [u EXCEPT !.vfo = o, !.cat.f = o.f[o.vfo]]
  <2> HIDE DEF o
  <2>1. CatChangeFreq(u) = n
    BY <1>5 DEF World, VfoChangeFreq, Get, CatChangeFreq, o
  <2>2. n \in World
    BY <1>2, <1>3, TuneType
  <2>3. /\ n.vfo = o /\ n.cat.ft = u.cat.ft
        /\ n.msw = u.msw /\ n.usb = u.usb
    BY DEF World
  <2>4. o.f = TunedByRequest(u, u.cat.f)
    BY <1>2, <1>5 DEF TunedByRequest
  <2>5. QED
    BY <1>2, <2>1, <2>2, <2>3, <2>4
<1>6. QED
  BY <1>4, <1>5

\* vfo->setPTT(b): everybody is told, and the CAT's copy becomes the VFO
\* object's byte.
LEMMA SetPTTSettles ==
    ASSUME NEW u \in World, "SPLIT" \notin u.vfo.ft, NEW on \in BOOLEAN
    PROVE  LET n == VfoSetPTT(u, on)
           IN  /\ n \in World
               /\ n.vfo.vfo = u.vfo.vfo
               /\ n.vfo.f = u.vfo.f /\ n.vfo.band = u.vfo.band
               /\ n.vfo.ft = SetBit(u.vfo.ft, "PTT", on)
               /\ n.cat.ft = n.vfo.ft
               /\ (n.msw <=> Keyed(n.vfo))
               /\ (n.usb <=> Keyed(n.vfo))
<1> DEFINE o == SetPTT(u.vfo, on)
<1>1. SetBit(u.vfo.ft, "PTT", on) \in SUBSET Bits
  BY DEF SetBit, World, VfoState, Bits
<1>2. /\ o \in VfoState /\ o.vfo = u.vfo.vfo /\ o.f = u.vfo.f
      /\ o.band = u.vfo.band
      /\ o.ft = SetBit(u.vfo.ft, "PTT", on)
  BY <1>1 DEF SetPTT, PttVfo, World, VfoState
<1>3. VfoSetPTT(u, on) = [u EXCEPT !.vfo = o, !.msw = Keyed(o), !.usb = Keyed(o),
                                   !.cat.ft = o.ft]
  BY <1>2 DEF VfoSetPTT, VfoChangeStatus, World
<1>4. Keyed(o) \in BOOLEAN
  BY DEF Keyed
<1> HIDE DEF o
<1> DEFINE n == VfoSetPTT(u, on)
<1>5. n \in World
  <2>1. [u EXCEPT !.vfo = o, !.msw = Keyed(o), !.usb = Keyed(o), !.cat.ft = o.ft] \in World
    BY <1>2, <1>4, StatusType
  <2>2. QED
    BY <1>3, <2>1
<1>6. n.vfo = o /\ n.cat.ft = o.ft
  BY <1>2, <1>3 DEF World, VfoState
<1>7. (n.msw <=> Keyed(o)) /\ (n.usb <=> Keyed(o))
  BY <1>3 DEF World
<1>8. QED
  BY <1>2, <1>5, <1>6, <1>7

\* vfo->setVFO(v): the status word and the generator are not concerned.
LEMMA SetVFOSettles ==
    ASSUME NEW u \in World, NEW v \in VFOs
    PROVE  LET n == VfoSetVFO(u, v)
           IN  /\ n \in World
               /\ n.vfo.vfo = v
               /\ n.vfo.f = u.vfo.f /\ n.vfo.band = u.vfo.band
               /\ n.vfo.ft = SetBit(u.vfo.ft, "VFO", v = "B")
               /\ n.cat.ft = n.vfo.ft
               /\ n.msw = u.msw
               /\ n.usb = u.usb
<1> DEFINE o == SetVFO(u.vfo, v)
<1>1. SetBit(u.vfo.ft, "VFO", v = "B") \in SUBSET Bits
  BY DEF SetBit, World, VfoState, Bits
<1>2. /\ o \in VfoState /\ o.vfo = v /\ o.f = u.vfo.f /\ o.band = u.vfo.band
      /\ o.ft = SetBit(u.vfo.ft, "VFO", v = "B")
  BY <1>1 DEF SetVFO, World, VfoState
<1>3. VfoSetVFO(u, v) = [u EXCEPT !.vfo = o, !.cat.ft = o.ft]
  BY <1>2 DEF VfoSetVFO, VfoChangeStatus, World
<1> HIDE DEF o
<1>4. QED
  BY <1>2, <1>3 DEF World, VfoState

\* CATchangeStatus(), when the CAT's copy asks for at most one change, of the
\* PTT or of the VFO: the change is made, and everything agrees afterwards.
LEMMA ChangeStatusSettles ==
    ASSUME NEW u \in World, ObjectSettled(u), GeneratorTold(u),
           PttCopied(u) \/ VfoCopied(u)
    PROVE  LET n == CatChangeStatus(u)
           IN  /\ n \in World
               /\ ObjectSettled(n) /\ GeneratorTold(n)
               /\ PttCopied(n) /\ VfoCopied(n)
               /\ WordWritten(u, n)
               /\ n.vfo.f = u.vfo.f /\ n.vfo.band = u.vfo.band
               /\ Keyed(n.vfo) <=> "PTT" \in u.cat.ft
               /\ n.vfo.vfo = CatVFO(u)
<1> DEFINE on == "PTT" \in u.cat.ft
<1> USE DEF ObjectSettled, GeneratorTold, PttCopied, VfoCopied, Keyed, CatVFO,
        SetBit, VFOs, WordWritten
<1>1. u.vfo.vfo \in VFOs /\ CatVFO(u) \in VFOs /\ on \in BOOLEAN
  BY DEF World, VfoState
<1>2. CASE PttCopied(u)
  <2>1. ApplyPTT(u) = u
    BY <1>2 DEF ApplyPTT
  <2>2. CASE CatVFO(u) = u.vfo.vfo
    BY <1>1, <1>2, <2>1, <2>2 DEF CatChangeStatus, ApplyVFO
  <2>3. CASE CatVFO(u) # u.vfo.vfo
    <3> DEFINE n == VfoSetVFO(u, CatVFO(u))
    <3>1. CatChangeStatus(u) = n
      BY <2>1, <2>3 DEF CatChangeStatus, ApplyVFO
    <3>2. /\ n \in World
          /\ n.vfo.vfo = CatVFO(u)
          /\ n.vfo.f = u.vfo.f /\ n.vfo.band = u.vfo.band
          /\ n.vfo.ft = SetBit(u.vfo.ft, "VFO", CatVFO(u) = "B")
          /\ n.cat.ft = n.vfo.ft
          /\ n.msw = u.msw
          /\ n.usb = u.usb
      BY <1>1, SetVFOSettles
    <3> HIDE DEF n
    <3>3. QED
      BY <1>2, <3>1, <3>2
  <2>4. QED
    BY <2>2, <2>3
<1>3. CASE ~PttCopied(u)
  <2> DEFINE n == VfoSetPTT(u, on)
  <2>1. /\ n \in World
        /\ n.vfo.vfo = u.vfo.vfo
        /\ n.vfo.f = u.vfo.f /\ n.vfo.band = u.vfo.band
        /\ n.vfo.ft = SetBit(u.vfo.ft, "PTT", on)
        /\ n.cat.ft = n.vfo.ft
        /\ (n.msw <=> Keyed(n.vfo))
        /\ (n.usb <=> Keyed(n.vfo))
    BY <1>1, SetPTTSettles
  <2> HIDE DEF n
  <2>2. ApplyPTT(u) = [n EXCEPT !.msw = "PTT" \in n.cat.ft]
    BY <1>3 DEF ApplyPTT, n
  <2>3. [n EXCEPT !.msw = "PTT" \in n.cat.ft] = n
    BY <2>1 DEF World
  <2>4. CatVFO(n) = n.vfo.vfo
    BY <1>1, <1>3, <2>1
  <2>5. CatChangeStatus(u) = n
    BY <2>2, <2>3, <2>4 DEF CatChangeStatus, ApplyVFO
  <2>6. QED
    BY <1>1, <1>3, <2>1, <2>5
<1>4. QED
  BY <1>2, <1>3

-----------------------------------------------------------------------------
(* The commands.                                                           *)

\* What a command does to the objects, whatever it is: it changes at most one
\* of the PTT and the VFO in the CAT's copy, and everything agrees at its end.
Commanded(u, n) ==
    /\ n \in World
    /\ ObjectSettled(n) /\ GeneratorTold(n) /\ PttCopied(n) /\ VfoCopied(n)
    /\ WordWritten(u, n)
    /\ n.vfo.band = u.vfo.band
    /\ Keyed(u.vfo) => n.vfo.f = u.vfo.f

\* A command that writes one bit of the CAT's copy is obeyed.
LEMMA StatusCommandObeyed ==
    ASSUME IInv, phase = "run", NEW cmd, NEW bit \in Bits, NEW on \in BOOLEAN,
           NEW answer, StatusCommand(cmd, bit, on, answer)
    PROVE  /\ Commanded(w, w')
           /\ Keyed(w'.vfo) <=> IF bit = "PTT" THEN on ELSE Keyed(w.vfo)
           /\ w'.vfo.vfo = IF bit = "VFO" THEN IF on THEN "B" ELSE "A" ELSE w.vfo.vfo
           /\ w'.vfo.f = w.vfo.f
           /\ last' = cmd /\ phase' = phase /\ reply' = answer
<1> DEFINE u == [w EXCEPT !.cat.ft = SetBit(@, bit, on)]
<1> USE DEF IInv, TypeOK
<1>1. /\ u \in World /\ u.vfo = w.vfo /\ u.msw = w.msw /\ u.usb = w.usb
      /\ u.cat.ft = SetBit(w.cat.ft, bit, on)
  BY DEF World, SetBit, Bits
<1>2. w' = CatChangeStatus(u) /\ last' = cmd /\ phase' = phase /\ reply' = answer
  BY DEF StatusCommand, Process
<1> HIDE DEF u
<1>3. ObjectSettled(u) /\ GeneratorTold(u)
  BY <1>1 DEF ObjectSettled, GeneratorTold, Keyed
<1>4. PttCopied(u) \/ VfoCopied(u)
  BY <1>1 DEF PttCopied, VfoCopied, SetBit, Keyed
<1>5. /\ w' \in World /\ ObjectSettled(w') /\ GeneratorTold(w')
      /\ PttCopied(w') /\ VfoCopied(w') /\ WordWritten(u, w')
      /\ w'.vfo.f = w.vfo.f /\ w'.vfo.band = w.vfo.band
      /\ Keyed(w'.vfo) <=> "PTT" \in u.cat.ft
      /\ w'.vfo.vfo = CatVFO(u)
  BY <1>1, <1>2, <1>3, <1>4, ChangeStatusSettles
<1>6. Keyed(w'.vfo) <=> IF bit = "PTT" THEN on ELSE Keyed(w.vfo)
  BY <1>1, <1>5 DEF PttCopied, SetBit
<1>7. w'.vfo.vfo = IF bit = "VFO" THEN IF on THEN "B" ELSE "A" ELSE w.vfo.vfo
  BY <1>1, <1>5 DEF VfoCopied, SetBit, CatVFO, World, VfoState, VFOs
<1>8. WordWritten(w, w')
  BY <1>1, <1>5 DEF WordWritten
<1>9. QED
  BY <1>2, <1>5, <1>6, <1>7, <1>8 DEF Commanded

\* A tuning request, answered or refused, leaves PTT and VFO alone.
LEMMA SetFrequencyKeeps ==
    ASSUME IInv, phase = "run", SetFrequency
    PROVE  /\ Commanded(w, w')
           /\ Keyed(w'.vfo) <=> Keyed(w.vfo)
           /\ w'.vfo.vfo = w.vfo.vfo
           /\ \E digits \in Frames : w'.vfo.f = TunedByRequest(w, BCD2Dec(digits))
           /\ last' = "tune" /\ phase' = phase /\ reply' = Ack
<1> USE DEF IInv, TypeOK
<1>1. PICK digits \in Frames :
         Process("tune",
                 CatChangeStatus(CatChangeFreq([w EXCEPT !.cat.f = BCD2Dec(digits)])),
                 Ack)
  BY DEF SetFrequency
<1> DEFINE freq == BCD2Dec(digits)
           u == [w EXCEPT !.cat.f = freq]
           c == CatChangeFreq(u)
<1>0. freq \in Int
  BY RequestIsNumber
<1> HIDE DEF freq
<1>2. /\ u \in World /\ u.vfo = w.vfo /\ u.msw = w.msw /\ u.usb = w.usb
      /\ u.cat.ft = w.cat.ft /\ u.cat.f = freq
  BY <1>0 DEF World
<1>3. w' = CatChangeStatus(c) /\ last' = "tune" /\ phase' = phase /\ reply' = Ack
  BY <1>1 DEF Process, freq
<1> HIDE DEF u
<1>4. /\ c \in World /\ c.vfo.ft = w.vfo.ft /\ c.vfo.vfo = w.vfo.vfo
      /\ c.cat.ft = w.cat.ft /\ c.msw = w.msw /\ c.usb = w.usb
      /\ c.vfo.band = w.vfo.band
      /\ c.vfo.f = TunedByRequest(w, freq)
  BY <1>2, ChangeFreqKeeps DEF TunedByRequest
<1> HIDE DEF c
<1>5. ObjectSettled(c) /\ GeneratorTold(c) /\ PttCopied(c)
  BY <1>4 DEF ObjectSettled, GeneratorTold, PttCopied, Keyed
<1>6. /\ w' \in World /\ ObjectSettled(w') /\ GeneratorTold(w')
      /\ PttCopied(w') /\ VfoCopied(w') /\ WordWritten(c, w')
      /\ w'.vfo.f = c.vfo.f /\ w'.vfo.band = c.vfo.band
      /\ Keyed(w'.vfo) <=> "PTT" \in c.cat.ft
      /\ w'.vfo.vfo = CatVFO(c)
  BY <1>3, <1>4, <1>5, ChangeStatusSettles
<1>7. Keyed(w'.vfo) <=> Keyed(w.vfo)
  BY <1>4, <1>6 DEF PttCopied
<1>8. w'.vfo.vfo = w.vfo.vfo
  BY <1>4, <1>6 DEF VfoCopied, CatVFO, World, VfoState, VFOs
<1>9. Commanded(w, w')
  <2>1. WordWritten(w, w')
    BY <1>4, <1>6 DEF WordWritten, Keyed
  <2>2. QED
    BY <1>4, <1>6, <2>1 DEF Commanded, TunedByRequest
<1>10. \E d \in Frames : w'.vfo.f = TunedByRequest(w, BCD2Dec(d))
  BY <1>4, <1>6 DEF freq
<1>11. QED
  BY <1>3, <1>7, <1>8, <1>9, <1>10

\* The clarifier command calls CATchangeStatus() with nothing to change.
LEMMA SetClarifierKeeps ==
    ASSUME IInv, phase = "run", SetClarifier
    PROVE  /\ Commanded(w, w')
           /\ Keyed(w'.vfo) <=> Keyed(w.vfo)
           /\ w'.vfo.vfo = w.vfo.vfo
           /\ w'.vfo.f = w.vfo.f
           /\ last' = "clarifier" /\ phase' = phase /\ reply' = Ack
<1> USE DEF IInv, TypeOK
<1>1. w' = CatChangeStatus(w) /\ last' = "clarifier" /\ phase' = phase /\ reply' = Ack
  BY DEF SetClarifier, Process
<1>2. /\ w' \in World /\ ObjectSettled(w') /\ GeneratorTold(w')
      /\ PttCopied(w') /\ VfoCopied(w') /\ WordWritten(w, w')
      /\ w'.vfo.f = w.vfo.f /\ w'.vfo.band = w.vfo.band
      /\ Keyed(w'.vfo) <=> "PTT" \in w.cat.ft
      /\ w'.vfo.vfo = CatVFO(w)
  BY <1>1, ChangeStatusSettles
<1>3. w'.vfo.vfo = w.vfo.vfo
  BY <1>2 DEF VfoCopied, CatVFO, World, VfoState, VFOs
<1>4. QED
  BY <1>1, <1>2, <1>3 DEF Commanded, PttCopied

\* The commands that only ask, and a mode change, leave the VFO object alone.
LEMMA OthersKeep ==
    ASSUME IInv, phase = "run",
           \/ GetFrequency \/ SetMode
           \/ ReadEeprom \/ ReceiverStatus \/ TransmitterStatus \/ TxMetering
    PROVE  /\ Commanded(w, w')
           /\ w'.vfo = w.vfo
           /\ last' \notin {"ptt on", "ptt off", "swap"} /\ phase' = phase
<1> USE DEF IInv, TypeOK
<1>1. CASE SetMode
  <2>1. PICK m \in Modes : w' \in {w, CatChangeMode([w EXCEPT !.cat.mode = m])}
    BY <1>1 DEF SetMode, Process
  <2>2. /\ w' \in World /\ w'.vfo = w.vfo /\ w'.msw = w.msw
        /\ w'.usb = w.usb /\ w'.cat.ft = w.cat.ft
    <3>1. CASE w' = w
      BY <3>1
    <3>2. CASE w' = [[w EXCEPT !.cat.mode = m] EXCEPT !.cat.mode = USB]
      BY <3>2 DEF World
    <3>3. QED
      BY <2>1, <3>1, <3>2 DEF CatChangeMode
  <2>3. last' = "mode" /\ phase' = phase
    BY <1>1 DEF SetMode, Process
  <2>4. QED
    BY <2>2, <2>3 DEF Commanded, ObjectSettled, GeneratorTold, PttCopied, VfoCopied,
       WordWritten, Keyed
<1>2. CASE GetFrequency \/ ReadEeprom \/ ReceiverStatus \/ TransmitterStatus \/ TxMetering
  <2>1. w' = w /\ phase' = phase /\ last' \notin {"ptt on", "ptt off", "swap"}
    BY <1>2 DEF GetFrequency, ReadEeprom, ReceiverStatus, TransmitterStatus,
       TxMetering, Process
  <2>2. QED
    BY <2>1 DEF Commanded, WordWritten
<1>3. QED
  BY <1>1, <1>2

-----------------------------------------------------------------------------
(* The theorems.                                                           *)

\* Every command, in one statement.
LEMMA CommandKeeps ==
    ASSUME IInv, phase = "run", Command
    PROVE  /\ Commanded(w, w') /\ phase' = phase
           /\ last' = "ptt on" => Keyed(w'.vfo)
           /\ last' = "ptt off" => ~Keyed(w'.vfo)
           /\ last' = "swap" => w'.vfo.vfo = Other(w.vfo.vfo)
           /\ last' \notin {"ptt on", "ptt off"} => (Keyed(w'.vfo) <=> Keyed(w.vfo))
           /\ last' # "swap" => w'.vfo.vfo = w.vfo.vfo
<1> DEFINE Goal == /\ Commanded(w, w') /\ phase' = phase
                   /\ last' = "ptt on" => Keyed(w'.vfo)
                   /\ last' = "ptt off" => ~Keyed(w'.vfo)
                   /\ last' = "swap" => w'.vfo.vfo = Other(w.vfo.vfo)
                   /\ last' \notin {"ptt on", "ptt off"}
                         => (Keyed(w'.vfo) <=> Keyed(w.vfo))
                   /\ last' # "swap" => w'.vfo.vfo = w.vfo.vfo
<1>1. CASE SetFrequency
  BY <1>1, SetFrequencyKeeps
<1>2. CASE SetClarifier
  BY <1>2, SetClarifierKeeps
<1>3. CASE \/ GetFrequency \/ SetMode
           \/ ReadEeprom \/ ReceiverStatus \/ TransmitterStatus \/ TxMetering
  BY <1>3, OthersKeep
<1>4. ASSUME NEW cmd \in {"lock on", "lock off", "split", "split off", "rit", "rit off"},
             NEW bit \in {"LOCK", "SPLIT", "RIT"}, NEW on \in BOOLEAN,
             NEW answer, StatusCommand(cmd, bit, on, answer)
      PROVE  Goal
  <2>1. bit \in Bits /\ bit # "PTT" /\ bit # "VFO"
    BY DEF Bits
  <2>2. QED
    BY <1>4, <2>1, StatusCommandObeyed
<1>5. /\ (~Has("SPLIT")) \in BOOLEAN /\ (~Has("RIT")) \in BOOLEAN
      /\ (~Has("VFO")) \in BOOLEAN
  OBVIOUS
<1>6. CASE LockOn \/ LockOff
  BY <1>4, <1>5, <1>6 DEF LockOn, LockOff
<1>7. CASE SplitFlip \/ SplitOff
  BY <1>4, <1>5, <1>7 DEF SplitFlip, SplitOff, Bits
<1>8. CASE RitFlip \/ RitOff
  BY <1>4, <1>5, <1>8 DEF RitFlip, RitOff, Bits
<1>9. CASE PttOn
  <2>1. PICK answer : StatusCommand("ptt on", "PTT", TRUE, answer)
    BY <1>9 DEF PttOn
  <2>2. /\ Commanded(w, w') /\ last' = "ptt on" /\ phase' = phase
        /\ Keyed(w'.vfo) /\ w'.vfo.vfo = w.vfo.vfo
    BY <2>1, StatusCommandObeyed DEF Bits
  <2>3. QED
    BY <2>2
<1>10. CASE PttOff
  <2>1. PICK answer : StatusCommand("ptt off", "PTT", FALSE, answer)
    BY <1>10 DEF PttOff
  <2>2. /\ Commanded(w, w') /\ last' = "ptt off" /\ phase' = phase
        /\ ~Keyed(w'.vfo) /\ w'.vfo.vfo = w.vfo.vfo
    BY <2>1, StatusCommandObeyed DEF Bits
  <2>3. QED
    BY <2>2
<1>11. CASE SwapVfo
  <2>1. /\ Commanded(w, w')
        /\ Keyed(w'.vfo) <=> Keyed(w.vfo)
        /\ w'.vfo.vfo = IF ~Has("VFO") THEN "B" ELSE "A"
        /\ last' = "swap" /\ phase' = phase
    BY <1>5, <1>11, StatusCommandObeyed DEF SwapVfo, Bits
  <2>2. w'.vfo.vfo = Other(w.vfo.vfo)
    BY <2>1 DEF IInv, TypeOK, VfoCopied, Has, Other, World, VfoState, VFOs
  <2>3. QED
    BY <2>1, <2>2
<1>12. QED
  BY <1>1, <1>2, <1>3, <1>6, <1>7, <1>8, <1>9, <1>10, <1>11 DEF Command

\* Commands are processed once the self-test is over.
LEMMA CommandInRun == Command => phase = "run"
BY DEF Command, SetFrequency, GetFrequency, SetMode, SwapVfo, SetClarifier,
   LockOn, LockOff, SplitFlip, SplitOff, RitFlip, RitOff, PttOn, PttOff,
   ReadEeprom, ReceiverStatus, TransmitterStatus, TxMetering, StatusCommand,
   Process

\* And they note whether they have written the PTT to the status word.
LEMMA CommandNotes ==
    Command => kbd' = kbd /\ undone' = (undone /\ (Keyed(w'.vfo) <=> Keyed(w.vfo)))
BY DEF Command, SetFrequency, GetFrequency, SetMode, SwapVfo, SetClarifier,
   LockOn, LockOff, SplitFlip, SplitOff, RitFlip, RitOff, PttOn, PttOff,
   ReadEeprom, ReceiverStatus, TransmitterStatus, TxMetering, StatusCommand,
   Process

\* The keyboard thread reaches the PTT bit of the status word and nothing else.
LEMMA KeyboardReaches ==
    ASSUME w \in World, KeyLoad \/ KeyStore
    PROVE  /\ w' \in World /\ w'.vfo = w.vfo /\ w'.cat = w.cat /\ w'.usb = w.usb
           /\ UNCHANGED <<phase, last, reply>>
BY DEF KeyLoad, KeyStore, World

\* Every step keeps the inductive invariant.
LEMMA InductiveStep == IInv /\ [Next]_vars => IInv'
<1> SUFFICES ASSUME IInv, [Next]_vars PROVE IInv'
  OBVIOUS
<1> USE DEF IInv, TypeOK
<1>1. CASE TestKey
  BY <1>1 DEF TestKey, World, ObjectSettled, PttCopied, VfoCopied, Keyed
<1>2. CASE TestUnkey
  BY <1>2 DEF TestUnkey, World, ObjectSettled, PttCopied, VfoCopied,
     GeneratorTold, Keyed
<1>3. CASE Command
  <2>1. Commanded(w, w') /\ phase = "run" /\ phase' = phase
    BY <1>3, CommandInRun, CommandKeeps
  <2>2. kbd' = kbd /\ undone' = (undone /\ (Keyed(w'.vfo) <=> Keyed(w.vfo)))
    BY <1>3, CommandNotes
  <2>3. undone' \/ (Keyed(w'.vfo) <=> w'.msw)
    BY <2>1, <2>2 DEF Commanded, WordWritten
  <2>4. QED
    BY <2>1, <2>2, <2>3 DEF Commanded
<1>4. CASE KeyLoad \/ KeyStore
  <2>1. /\ w' \in World /\ w'.vfo = w.vfo /\ w'.cat = w.cat /\ w'.usb = w.usb
        /\ phase' = phase /\ last' = last
    BY <1>4, KeyboardReaches
  <2>2. kbd' \in {"none", "set", "clear"} /\ undone' \in BOOLEAN
    BY <1>4 DEF KeyLoad, KeyStore
  <2>3. undone' \/ (Keyed(w'.vfo) <=> w'.msw)
    <3>1. CASE KeyLoad
      BY <3>1 DEF KeyLoad
    <3>2. CASE KeyStore
      <4>1. w'.msw = (kbd = "set") /\ undone' = (undone \/ ((kbd = "set") # w.msw))
        BY <3>2 DEF KeyStore, World
      <4>2. w'.msw = w.msw \/ undone'
        BY <4>1
      <4>3. QED
        BY <2>1, <4>1, <4>2
    <3>3. QED
      BY <1>4, <3>1, <3>2
  <2>4. QED
    BY <2>1, <2>2, <2>3 DEF ObjectSettled, PttCopied, VfoCopied, GeneratorTold
<1>5. CASE UNCHANGED vars
  BY <1>5 DEF vars, ObjectSettled, PttCopied, VfoCopied, GeneratorTold, Keyed
<1>6. QED
  BY <1>1, <1>2, <1>3, <1>4, <1>5 DEF Next

THEOREM Inductive == Spec => []IInv
<1>1. Init => IInv
  <2> SUFFICES ASSUME Init PROVE IInv
    OBVIOUS
  <2>1. PICK b \in Bands, freq \in StartFreqs :
           /\ InBand(b, freq)
           /\ w = [vfo |-> TunedTo(freq, b),
                   cat |-> [ft |-> {}, f |-> freq, mode |-> USB],
                   msw |-> FALSE, usb |-> FALSE]
    BY DEF Init
  <2>2. TunedTo(freq, b) \in VfoState
    BY DEF TunedTo, VfoState, VFOs, Bits
  <2>3. w \in World
    BY <2>1, <2>2 DEF World
  <2>4. w.vfo.ft = {} /\ w.vfo.vfo = "A" /\ w.cat.ft = {} /\ ~w.msw
    BY <2>1 DEF TunedTo
  <2>5. QED
    BY <2>3, <2>4 DEF Init, IInv, TypeOK, ObjectSettled, PttCopied, VfoCopied, Keyed
<1>2. QED
  BY <1>1, InductiveStep, PTL DEF Spec

\* The state of the controller is well formed whatever clients send.
THEOREM TypeCorrect == Spec => []TypeOK
BY Inductive, PTL DEF IInv

\* The records of the PTT agree between any two commands, the status word that
\* the keyboard thread also writes unless that thread has just undone it.
THEOREM PttAgreedHolds == Spec => []PttAgreed
<1>1. IInv => PttAgreed
  BY DEF IInv, PttAgreed, ObjectSettled, PttCopied, GeneratorTold
<1>2. QED
  BY <1>1, Inductive, PTL

\* So do the three records of the VFO in use.
THEOREM VfoAgreedHolds == Spec => []VfoAgreed
<1>1. IInv => VfoAgreed
  BY DEF IInv, VfoAgreed, ObjectSettled, VfoCopied
<1>2. QED
  BY <1>1, Inductive, PTL

\* Every command is obeyed although its callbacks overwrite it.
THEOREM CommandsObeyedHolds == Spec => CommandsObeyed
<1> DEFINE Obeyed ==
           UNCHANGED kbd =>
              /\ last' = "ptt on" => Keyed(w'.vfo)
              /\ last' = "ptt off" => ~Keyed(w'.vfo)
              /\ last' = "swap" => w'.vfo.vfo = Other(w.vfo.vfo)
              /\ last' \notin {"ptt on", "ptt off"} => (Keyed(w'.vfo) <=> Keyed(w.vfo))
              /\ last' # "swap" => w'.vfo.vfo = w.vfo.vfo
<1>1. IInv /\ [Next]_vars => [Obeyed]_vars
  <2> SUFFICES ASSUME IInv, Next PROVE Obeyed
    OBVIOUS
  <2>1. CASE TestKey \/ TestUnkey
    <3>1. last' = "none" /\ w'.vfo = w.vfo
      BY <2>1 DEF TestKey, TestUnkey, IInv, TypeOK, World
    <3>2. QED
      BY <3>1
  <2>2. CASE Command
    BY <2>2, CommandInRun, CommandKeeps
  <2>3. CASE KeyLoad \/ KeyStore
    BY <2>3 DEF KeyLoad, KeyStore
  <2>4. QED
    BY <2>1, <2>2, <2>3 DEF Next
<1>2. QED
  BY <1>1, Inductive, PTL DEF Spec, CommandsObeyed

\* No VFO is retuned while the transceiver transmits.
NoTuneWhileKeyed == [][Keyed(w.vfo) /\ Keyed(w'.vfo) => w'.vfo.f = w.vfo.f]_vars

\* While the transceiver transmits, before and after a step, no VFO moves.
THEOREM NoTuneWhileKeyedHolds == Spec => NoTuneWhileKeyed
<1>1. IInv /\ [Next]_vars => [Keyed(w.vfo) /\ Keyed(w'.vfo) => w'.vfo.f = w.vfo.f]_vars
  <2> SUFFICES ASSUME IInv, Next, Keyed(w.vfo) PROVE w'.vfo.f = w.vfo.f
    OBVIOUS
  <2>1. CASE TestKey \/ TestUnkey
    BY <2>1 DEF TestKey, TestUnkey, IInv, TypeOK, World
  <2>2. CASE Command
    BY <2>2, CommandInRun, CommandKeeps DEF Commanded
  <2>3. CASE KeyLoad \/ KeyStore
    BY <2>3, KeyboardReaches DEF IInv, TypeOK
  <2>4. QED
    BY <2>1, <2>2, <2>3 DEF Next
<1>2. QED
  BY <1>1, Inductive, PTL DEF Spec, NoTuneWhileKeyed

-----------------------------------------------------------------------------
(* What clients are told.                                                  *)

\* The status commands tell the truth: the answer is worked out from the
\* CAT's copy of the PTT, and nothing is answered before the self-test ends.
THEOREM StatusTruthfulHolds == Spec => []StatusTruthful
<1> DEFINE Told == StatusTruthful /\ (phase # "run" => reply = NoReply)
<1>1. Init => Told
  BY DEF Init, StatusTruthful, NoReply, Reply
<1>2. IInv /\ Told /\ [Next]_vars => Told'
  <2> SUFFICES ASSUME IInv, Told, [Next]_vars PROVE Told'
    OBVIOUS
  <2>1. CASE TestKey \/ TestUnkey
    BY <2>1 DEF TestKey, TestUnkey, StatusTruthful, NoReply, Reply
  <2>2. CASE TransmitterStatus \/ TxMetering
    <3>1. Has("PTT") <=> w.usb
      BY <2>2 DEF IInv, PttCopied, GeneratorTold, TransmitterStatus, TxMetering,
         Process, Has
    <3>2. w' = w /\ phase' = "run"
      BY <2>2 DEF TransmitterStatus, TxMetering, Process
    <3>3. \E len \in {1, 2} :
             reply' = Reply(len, IF Has("PTT") THEN "transmitting" ELSE "receiving")
      <4>1. CASE TransmitterStatus
        BY <4>1 DEF TransmitterStatus, Process
      <4>2. CASE TxMetering /\ Has("PTT")
        BY <4>2 DEF TxMetering, Process
      <4>3. CASE TxMetering /\ ~Has("PTT")
        BY <4>3 DEF TxMetering, Process
      <4>4. QED
        BY <2>2, <4>1, <4>2, <4>3
    <3>4. reply'.says = IF Has("PTT") THEN "transmitting" ELSE "receiving"
      BY <3>3 DEF Reply
    <3>5. QED
      BY <3>1, <3>2, <3>4 DEF StatusTruthful
  <2>3. ASSUME NEW cmd, NEW after, NEW answer, Process(cmd, after, answer),
               answer.says \notin {"transmitting", "receiving"}
        PROVE  Told'
    BY <2>3 DEF Process, StatusTruthful
  <2>4. ASSUME NEW cmd, NEW bit, NEW on, NEW already, StatusCommand(cmd, bit, on, Acked(already))
        PROVE  Told'
    <3>1. Acked(already).says \in {"was so already", "done"}
      BY DEF Acked, Reply
    <3>2. QED
      BY <2>3, <2>4, <3>1 DEF StatusCommand
  <2>5. CASE LockOn \/ LockOff \/ SplitFlip \/ SplitOff
    BY <2>4, <2>5 DEF LockOn, LockOff, SplitFlip, SplitOff
  <2>6. CASE RitFlip \/ RitOff \/ PttOn \/ PttOff
    BY <2>4, <2>6 DEF RitFlip, RitOff, PttOn, PttOff
  <2>7. CASE SetFrequency \/ SetMode \/ SwapVfo \/ SetClarifier
    <3>1. Ack.says = "ok" /\ NoReply.says = "nothing"
      BY DEF Ack, NoReply, Reply
    <3>2. QED
      BY <2>3, <2>7, <3>1 DEF SetFrequency, SetMode, SwapVfo, SetClarifier, StatusCommand
  <2>8. CASE GetFrequency \/ ReadEeprom \/ ReceiverStatus
    <3>1. CASE GetFrequency
      BY <2>3, <3>1 DEF GetFrequency
    <3>2. CASE ReadEeprom
      <4>1. PICK answer \in {Reply(2, CatVFO(w)), Reply(2, "zero"), NoReply} :
               Process("eeprom", w, answer)
        BY <3>2 DEF ReadEeprom
      <4>2. answer.says \in {"A", "B", "zero", "nothing"}
        BY DEF CatVFO, NoReply, Reply
      <4>3. QED
        BY <2>3, <4>1, <4>2
    <3>3. CASE ReceiverStatus
      BY <2>3, <3>3 DEF ReceiverStatus, Reply
    <3>4. QED
      BY <2>8, <3>1, <3>2, <3>3
  <2>9. CASE UNCHANGED vars
    BY <2>9 DEF vars, StatusTruthful
  <2>10. CASE KeyLoad \/ KeyStore
    BY <2>10, KeyboardReaches DEF IInv, TypeOK, StatusTruthful
  <2>11. QED
    BY <2>1, <2>2, <2>5, <2>6, <2>7, <2>8, <2>9, <2>10 DEF Next, Command
<1>3. QED
  BY <1>1, <1>2, Inductive, PTL DEF Spec

-----------------------------------------------------------------------------

\* Both VFOs are inside their bands, and the CAT's copy is in tune.
AllInBand(u) == \A v \in VFOs : InBand(u.vfo.band[v], u.vfo.f[v])
Tuned(u) ==
    /\ u.cat.mode = USB
    /\ AllInBand(u)
    /\ \E v \in VFOs : u.cat.f = u.vfo.f[v]

\* Whatever was asked for, a tuning request leaves everything in tune.
LEMMA ChangeFreqTunes ==
    ASSUME NEW u \in World, u.cat.mode = USB, AllInBand(u)
    PROVE  Tuned(CatChangeFreq(u))
<1> DEFINE o == Set(u.vfo, u.vfo.vfo, u.cat.f)
<1>1. /\ u.vfo \in VfoState /\ u.vfo.vfo \in VFOs /\ u.cat.f \in Int
  BY DEF World, VfoState
<1>2. /\ o \in VfoState /\ o.vfo \in VFOs
      /\ \A v \in VFOs : InBand(o.band[v], o.f[v])
  BY <1>1 DEF Set, Accepts, AllInBand, VfoState
<1>3. CASE CatChangeFreq(u) = [u EXCEPT !.cat.f = Get(u.vfo)]
  BY <1>1, <1>3 DEF World, Get, Tuned, AllInBand
<1>4. CASE CatChangeFreq(u) = VfoChangeFreq([u EXCEPT !.vfo = o])
  <2> DEFINE n == [u EXCEPT !.vfo = o, !.cat.f = o.f[o.vfo]]
  <2> HIDE DEF o
  <2>1. CatChangeFreq(u) = n
    BY <1>4 DEF World, VfoChangeFreq, Get
  <2>2. n.vfo = o /\ n.cat.f = o.f[o.vfo] /\ n.cat.mode = USB
    BY DEF World
  <2>3. QED
    BY <1>2, <2>1, <2>2 DEF Tuned, AllInBand
<1>5. QED
  BY <1>3, <1>4 DEF CatChangeFreq

\* The two operations CATchangeStatus() is made of retune nothing.
LEMMA KeyingKeepsTune ==
    ASSUME NEW u \in World, Tuned(u), NEW on \in BOOLEAN
    PROVE  Tuned(VfoSetPTT(u, on)) /\ VfoSetPTT(u, on) \in World
<1> DEFINE o == SetPTT(u.vfo, on)
<1>1. SetBit(u.vfo.ft, "PTT", on) \in SUBSET Bits /\ PttVfo(u.vfo) \in VFOs
  BY DEF SetBit, World, VfoState, Bits, PttVfo, Other, VFOs
<1>2. /\ o \in VfoState /\ o.f = u.vfo.f /\ o.band = u.vfo.band
  BY <1>1 DEF SetPTT, World, VfoState
<1>3. VfoSetPTT(u, on) = [u EXCEPT !.vfo = o, !.msw = Keyed(o), !.usb = Keyed(o),
                                   !.cat.ft = o.ft]
  BY <1>2 DEF VfoSetPTT, VfoChangeStatus, World
<1>4. Keyed(o) \in BOOLEAN
  BY DEF Keyed
<1> HIDE DEF o
<1> DEFINE n == [u EXCEPT !.vfo = o, !.msw = Keyed(o), !.usb = Keyed(o), !.cat.ft = o.ft]
<1>5. n \in World
  BY <1>2, <1>4, StatusType
<1>6. n.vfo = o /\ n.cat.f = u.cat.f /\ n.cat.mode = u.cat.mode
  BY DEF World
<1>7. QED
  BY <1>2, <1>3, <1>5, <1>6 DEF Tuned, AllInBand

LEMMA SelectionKeepsTune ==
    ASSUME NEW u \in World, Tuned(u), NEW v \in VFOs
    PROVE  Tuned(VfoSetVFO(u, v)) /\ VfoSetVFO(u, v) \in World
<1> DEFINE o == SetVFO(u.vfo, v)
<1>1. SetBit(u.vfo.ft, "VFO", v = "B") \in SUBSET Bits
  BY DEF SetBit, World, VfoState, Bits
<1>2. /\ o \in VfoState /\ o.f = u.vfo.f /\ o.band = u.vfo.band
  BY <1>1 DEF SetVFO, World, VfoState
<1>3. VfoSetVFO(u, v) = [u EXCEPT !.vfo = o, !.cat.ft = o.ft]
  BY <1>2 DEF VfoSetVFO, VfoChangeStatus, World
<1> HIDE DEF o
<1> DEFINE n == [u EXCEPT !.vfo = o, !.cat.ft = o.ft]
<1>4. VfoSetVFO(u, v) \in World
  BY SetVFOSettles
<1>5. n.vfo = o /\ n.cat.f = u.cat.f /\ n.cat.mode = u.cat.mode
  BY DEF World
<1>6. QED
  BY <1>2, <1>3, <1>4, <1>5 DEF Tuned, AllInBand

LEMMA ChangeStatusKeepsTune ==
    ASSUME NEW u \in World, Tuned(u)
    PROVE  Tuned(CatChangeStatus(u))
<1> DEFINE p == ApplyPTT(u)
<1>1. p \in World /\ Tuned(p)
  <2> DEFINE on == "PTT" \in u.cat.ft
             n == VfoSetPTT(u, on)
  <2>0. on \in BOOLEAN
    OBVIOUS
  <2>1. n \in World /\ Tuned(n)
    <3> HIDE DEF on
    <3>1. QED
      BY <2>0, KeyingKeepsTune
  <2>2. ("PTT" \in n.cat.ft) \in BOOLEAN
    OBVIOUS
  <2>3. p = u \/ p = [n EXCEPT !.msw = "PTT" \in n.cat.ft]
    BY DEF ApplyPTT
  <2> HIDE DEF n, p
  <2>4. CASE p = u
    BY <2>4
  <2>5. CASE p = [n EXCEPT !.msw = "PTT" \in n.cat.ft]
    <3>1. p \in World /\ p.vfo = n.vfo /\ p.cat = n.cat
      BY <2>1, <2>2, <2>5 DEF World
    <3>2. QED
      BY <2>1, <3>1 DEF Tuned, AllInBand
  <2>6. QED
    BY <2>3, <2>4, <2>5
<1> HIDE DEF p
<1>2. CatVFO(p) \in VFOs
  BY DEF CatVFO, VFOs
<1>3. CatChangeStatus(u) \in {p, VfoSetVFO(p, CatVFO(p))}
  BY DEF CatChangeStatus, ApplyVFO, p
<1>4. QED
  BY <1>1, <1>2, <1>3, SelectionKeepsTune

\* Nothing a client asks for in vain stays visible: the CAT announces the
\* mode of the transceiver and the frequency of one of its VFOs.
THEOREM AnnouncedHolds == Spec => []Announced
<1>1. IInv /\ Tuned(w) => Announced
  BY DEF Tuned, AllInBand, Announced
<1>2. Init => Tuned(w)
  <2> SUFFICES ASSUME Init PROVE Tuned(w)
    OBVIOUS
  <2>1. PICK b \in Bands, freq \in StartFreqs :
           /\ InBand(b, freq)
           /\ w.vfo = TunedTo(freq, b) /\ w.cat.f = freq /\ w.cat.mode = USB
    BY DEF Init
  <2>2. QED
    BY <2>1 DEF Tuned, AllInBand, TunedTo, VFOs
<1>3. IInv /\ Tuned(w) /\ [Next]_vars => Tuned(w)'
  <2> SUFFICES ASSUME IInv, Tuned(w), [Next]_vars PROVE Tuned(w')
    OBVIOUS
  <2> USE DEF IInv, TypeOK
  <2>1. CASE TestKey \/ TestUnkey
    <3>1. w'.vfo = w.vfo /\ w'.cat = w.cat
      BY <2>1 DEF TestKey, TestUnkey, World
    <3>2. QED
      BY <3>1 DEF Tuned, AllInBand
  <2>2. CASE SetFrequency
    <3>1. PICK digits \in Frames :
             w' = CatChangeStatus(CatChangeFreq([w EXCEPT !.cat.f = BCD2Dec(digits)]))
      BY <2>2 DEF SetFrequency, Process
    <3> DEFINE freq == BCD2Dec(digits)
               u == [w EXCEPT !.cat.f = freq]
    <3>2. freq \in Int
      BY RequestIsNumber
    <3> HIDE DEF freq
    <3>3. u \in World /\ u.vfo = w.vfo /\ u.cat.mode = w.cat.mode
      BY <3>2 DEF World
    <3>4. w' = CatChangeStatus(CatChangeFreq(u))
      BY <3>1 DEF freq
    <3> HIDE DEF u
    <3>5. Tuned(CatChangeFreq(u)) /\ CatChangeFreq(u) \in World
      BY <3>3, ChangeFreqTunes, ChangeFreqKeeps DEF Tuned, AllInBand
    <3>6. QED
      BY <3>4, <3>5, ChangeStatusKeepsTune
  <2>3. ASSUME NEW cmd, NEW bit \in Bits, NEW on \in BOOLEAN, NEW answer,
               StatusCommand(cmd, bit, on, answer)
        PROVE  Tuned(w')
    <3> DEFINE u == [w EXCEPT !.cat.ft = SetBit(@, bit, on)]
    <3>1. /\ u \in World /\ u.vfo = w.vfo
          /\ u.cat.f = w.cat.f /\ u.cat.mode = w.cat.mode
      BY DEF World, SetBit, Bits
    <3>2. w' = CatChangeStatus(u)
      BY <2>3 DEF StatusCommand, Process
    <3> HIDE DEF u
    <3>3. Tuned(u)
      BY <3>1 DEF Tuned, AllInBand
    <3>4. QED
      BY <3>1, <3>2, <3>3, ChangeStatusKeepsTune
  <2>4. /\ (~Has("SPLIT")) \in BOOLEAN /\ (~Has("RIT")) \in BOOLEAN
        /\ (~Has("VFO")) \in BOOLEAN
    OBVIOUS
  <2>5. CASE LockOn \/ LockOff \/ SplitFlip \/ SplitOff
    BY <2>3, <2>4, <2>5 DEF LockOn, LockOff, SplitFlip, SplitOff, Bits
  <2>6. CASE RitFlip \/ RitOff \/ PttOn \/ PttOff \/ SwapVfo
    BY <2>3, <2>4, <2>6 DEF RitFlip, RitOff, PttOn, PttOff, SwapVfo, Bits
  <2>7. CASE SetClarifier
    BY <2>7, ChangeStatusKeepsTune DEF SetClarifier, Process
  <2>8. CASE SetMode
    <3>1. PICK m \in Modes : w' \in {w, [[w EXCEPT !.cat.mode = m] EXCEPT !.cat.mode = USB]}
      BY <2>8 DEF SetMode, Process, CatChangeMode
    <3> DEFINE n == [[w EXCEPT !.cat.mode = m] EXCEPT !.cat.mode = USB]
    <3>2. n.vfo = w.vfo /\ n.cat.f = w.cat.f /\ n.cat.mode = USB
      BY DEF World
    <3>3. w.cat.mode = USB
      BY DEF Tuned
    <3> HIDE DEF n
    <3>4. w'.vfo = w.vfo /\ w'.cat.f = w.cat.f /\ w'.cat.mode = USB
      BY <3>2, <3>3, <3>1 DEF n
    <3>5. QED
      BY <3>4 DEF Tuned, AllInBand
  <2>9. CASE GetFrequency \/ ReadEeprom \/ ReceiverStatus \/ TransmitterStatus \/ TxMetering
    <3>1. w' = w
      BY <2>9 DEF GetFrequency, ReadEeprom, ReceiverStatus, TransmitterStatus,
         TxMetering, Process
    <3>2. QED
      BY <3>1
  <2>10. CASE UNCHANGED vars
    BY <2>10 DEF vars
  <2>11. CASE KeyLoad \/ KeyStore
    BY <2>11, KeyboardReaches DEF Tuned, AllInBand
  <2>12. QED
    BY <2>1, <2>2, <2>5, <2>6, <2>7, <2>8, <2>9, <2>10, <2>11 DEF Next, Command
<1>4. QED
  BY <1>1, <1>2, <1>3, Inductive, PTL DEF Spec

-----------------------------------------------------------------------------
(* The controller implements the radio its clients see.                    *)

\* Until the self-test is over, the generator is keyed by the test alone.
TestPhase == phase # "run" => (w.usb <=> phase = "test")

LEMMA TestPhaseInit == Init => TestPhase
BY DEF Init, TestPhase

LEMMA TestPhaseStep == IInv /\ TestPhase /\ [Next]_vars => TestPhase'
<1> SUFFICES ASSUME IInv, TestPhase, [Next]_vars PROVE TestPhase'
  OBVIOUS
<1>1. CASE TestKey
  BY <1>1 DEF TestKey, TestPhase, IInv, TypeOK, World
<1>2. CASE TestUnkey
  BY <1>2 DEF TestUnkey, TestPhase
<1>3. CASE Command
  BY <1>3, CommandInRun, CommandKeeps DEF TestPhase
<1>4. CASE UNCHANGED vars
  BY <1>4 DEF vars, TestPhase
<1>5. CASE KeyLoad \/ KeyStore
  BY <1>5, KeyboardReaches DEF TestPhase, IInv, TypeOK
<1>6. QED
  BY <1>1, <1>2, <1>3, <1>4, <1>5 DEF Next

LEMMA RadioInit == Init => Radio!Init
<1> SUFFICES ASSUME Init PROVE Radio!Init
  OBVIOUS
<1>1. PICK b \in Bands, f \in StartFreqs :
         /\ InBand(b, f)
         /\ w.vfo = TunedTo(f, b) /\ w.usb = FALSE
  BY DEF Init
<1>2. f \in Int /\ loFreq[b] \in Int /\ hiFreq[b] \in Int
  OBVIOUS
<1>3. f \in loFreq[b] .. hiFreq[b]
  BY <1>1, <1>2 DEF InBand
<1>4. /\ w.vfo.f = [v \in VFOs |-> f]
      /\ w.vfo.band = [v \in VFOs |-> b]
      /\ w.vfo.vfo = "A"
  BY <1>1 DEF TunedTo
<1>5. reply.says = "nothing" /\ last = "none" /\ phase = "boot"
  BY DEF Init, NoReply, Reply
<1>6. QED
  BY <1>1, <1>3, <1>4, <1>5 DEF Radio!Init, Radio!VFOs, VFOs

\* The generator is where the radio's transmitter is looked for.
LEMMA Transmitting ==
    ASSUME IInv, phase = "run", Commanded(w, w')
    PROVE  /\ w.usb = Keyed(w.vfo) /\ w'.usb = Keyed(w'.vfo)
           /\ w.usb = Has("PTT")
           /\ w.usb \in BOOLEAN /\ w'.usb \in BOOLEAN
           /\ Has("PTT") \in BOOLEAN
<1>1. w.usb \in BOOLEAN /\ w'.usb \in BOOLEAN
  BY DEF IInv, TypeOK, World, Commanded
<1>2. /\ Keyed(w.vfo) \in BOOLEAN /\ Keyed(w'.vfo) \in BOOLEAN
      /\ Has("PTT") \in BOOLEAN
  BY DEF Keyed, Has
<1>3. /\ w.usb <=> Keyed(w.vfo)
      /\ w'.usb <=> Keyed(w'.vfo)
      /\ w.usb <=> Has("PTT")
  BY DEF IInv, Commanded, GeneratorTold, PttCopied, Has
<1>4. QED
  BY <1>1, <1>2, <1>3

\* A command that changes neither frequencies nor band, and is answered in one
\* of the ways the radio answers.
LEMMA AnsweredAs ==
    ASSUME IInv, phase = "run", phase' = phase, Commanded(w, w'),
           NEW cmd, NEW answers, last' = cmd, reply'.says \in answers
    PROVE  Radio!Answered(cmd, answers)
BY DEF Commanded, Radio!Answered

\* And changes nothing that the radio has.
Unheard == w'.vfo.vfo = w.vfo.vfo /\ w'.vfo.f = w.vfo.f /\ w'.usb = w.usb

\* LOCK, SPLIT and RIT.
LEMMA SwitchIsUnheard ==
    ASSUME IInv, phase = "run",
           NEW cmd \in {"lock on", "lock off", "split", "split off", "rit", "rit off"},
           NEW bit \in {"LOCK", "SPLIT", "RIT"}, NEW on \in BOOLEAN, NEW already,
           StatusCommand(cmd, bit, on, Acked(already))
    PROVE  Radio!Others
<1>1. bit \in Bits /\ bit # "PTT" /\ bit # "VFO"
  BY DEF Bits
<1>2. /\ Commanded(w, w') /\ phase' = phase /\ last' = cmd
      /\ Keyed(w'.vfo) <=> Keyed(w.vfo)
      /\ w'.vfo.vfo = w.vfo.vfo /\ w'.vfo.f = w.vfo.f
      /\ reply' = Acked(already)
  BY <1>1, StatusCommandObeyed
<1>3. reply'.says \in {"was so already", "done"}
  BY <1>2 DEF Acked, Reply
<1>4. w'.usb = w.usb
  <2>1. w'.usb <=> w.usb
    BY <1>2, Transmitting
  <2>2. QED
    BY <1>2, <2>1, Transmitting
<1>5. Radio!Answered(cmd, {"was so already", "done"})
  BY <1>2, <1>3, AnsweredAs
<1>6. QED
  BY <1>2, <1>4, <1>5 DEF Radio!Others

LEMMA SwitchesAreUnheard ==
    ASSUME IInv, phase = "run",
           \/ LockOn \/ LockOff \/ SplitFlip \/ SplitOff \/ RitFlip \/ RitOff
    PROVE  Radio!Others
<1>1. /\ (~Has("SPLIT")) \in BOOLEAN /\ (~Has("RIT")) \in BOOLEAN
  OBVIOUS
<1>2. CASE LockOn \/ LockOff
  BY <1>2, SwitchIsUnheard DEF LockOn, LockOff
<1>3. CASE SplitFlip \/ SplitOff
  BY <1>1, <1>3, SwitchIsUnheard DEF SplitFlip, SplitOff
<1>4. CASE RitFlip \/ RitOff
  BY <1>1, <1>4, SwitchIsUnheard DEF RitFlip, RitOff
<1>5. QED
  BY <1>2, <1>3, <1>4

\* Keying, with the answer that tells what was before.
LEMMA KeyIsKey ==
    ASSUME IInv, phase = "run", NEW on \in BOOLEAN,
           StatusCommand(IF on THEN "ptt on" ELSE "ptt off", "PTT", on,
                         Acked(IF on THEN Has("PTT") ELSE ~Has("PTT")))
    PROVE  Radio!Key(on)
<1> DEFINE cmd == IF on THEN "ptt on" ELSE "ptt off"
           already == IF on THEN Has("PTT") ELSE ~Has("PTT")
<1>1. /\ Commanded(w, w') /\ phase' = phase /\ last' = cmd
      /\ Keyed(w'.vfo) <=> on
      /\ w'.vfo.vfo = w.vfo.vfo /\ w'.vfo.f = w.vfo.f
      /\ reply' = Acked(already)
  BY StatusCommandObeyed DEF Bits
<1>2. /\ w.usb \in BOOLEAN /\ w'.usb \in BOOLEAN
      /\ w.usb = Has("PTT")
      /\ w'.usb <=> Keyed(w'.vfo)
  BY <1>1, Transmitting
<1>3. w'.usb = on
  BY <1>1, <1>2
<1>4. already <=> (w.usb = on)
  BY <1>2
<1>5. reply'.says = IF already THEN "was so already" ELSE "done"
  BY <1>1 DEF Acked, Reply
<1>6. reply'.says \in {IF w.usb = on THEN "was so already" ELSE "done"}
  BY <1>4, <1>5
<1>7. Radio!Answered(cmd, {IF w.usb = on THEN "was so already" ELSE "done"})
  BY <1>1, <1>6, AnsweredAs
<1>8. QED
  BY <1>1, <1>3, <1>7 DEF Radio!Key

\* The questions and the mode, of which nothing is heard on the air.
LEMMA QuestionIsAnswered ==
    ASSUME IInv, phase = "run",
           \/ GetFrequency \/ SetMode
           \/ ReadEeprom \/ ReceiverStatus \/ TransmitterStatus \/ TxMetering
    PROVE  Radio!AskTransmitter \/ Radio!AskEeprom \/ Radio!Others
<1>1. /\ Commanded(w, w') /\ w'.vfo = w.vfo /\ phase' = phase
  BY OthersKeep
<1>2. w'.usb = w.usb
  BY <1>1, Transmitting
<1>3. Unheard
  BY <1>1, <1>2 DEF Unheard
<1>4. CASE GetFrequency
  <2>1. last' = "get frequency" /\ reply'.says \in {"frequency"}
    BY <1>4 DEF GetFrequency, Process
  <2>2. Radio!Answered("get frequency", {"frequency"})
    BY <1>1, <2>1, AnsweredAs
  <2>3. QED
    BY <1>3, <2>2 DEF Radio!Others, Unheard
<1>5. CASE SetMode
  <2>1. last' = "mode" /\ reply' \in {Ack, NoReply}
    BY <1>5 DEF SetMode, Process
  <2>2. reply'.says \in {"ok", "nothing"}
    BY <2>1 DEF Ack, NoReply, Reply
  <2>3. Radio!Answered("mode", {"ok", "nothing"})
    BY <1>1, <2>1, <2>2, AnsweredAs
  <2>4. QED
    BY <1>3, <2>3 DEF Radio!Others, Unheard
<1>6. CASE ReadEeprom
  <2>1. last' = "eeprom" /\ reply' \in {Reply(2, CatVFO(w)), Reply(2, "zero"), NoReply}
    BY <1>6 DEF ReadEeprom, Process
  <2>2. CatVFO(w) = w.vfo.vfo
    BY DEF CatVFO, IInv, TypeOK, VfoCopied, World, VfoState, VFOs
  <2>3. reply'.says \in {w.vfo.vfo, "zero", "nothing"}
    BY <2>1, <2>2 DEF NoReply, Reply
  <2>4. Radio!Answered("eeprom", {w.vfo.vfo, "zero", "nothing"})
    BY <1>1, <2>1, <2>3, AnsweredAs
  <2>5. QED
    BY <1>3, <2>4 DEF Radio!AskEeprom, Unheard
<1>7. CASE ReceiverStatus
  <2>1. last' = "rx status" /\ reply'.says \in {"meter"}
    BY <1>7 DEF ReceiverStatus, Process, Reply
  <2>2. Radio!Answered("rx status", {"meter"})
    BY <1>1, <2>1, AnsweredAs
  <2>3. QED
    BY <1>3, <2>2 DEF Radio!Others, Unheard
<1>8. CASE TransmitterStatus \/ TxMetering
  <2> DEFINE answer == IF Has("PTT") THEN "transmitting" ELSE "receiving"
  <2>1. PICK cmd \in {"tx status", "tx metering"}, len \in {1, 2} :
           last' = cmd /\ reply' = Reply(len, answer)
    <3>1. CASE TransmitterStatus
      BY <3>1 DEF TransmitterStatus, Process
    <3>2. CASE TxMetering /\ Has("PTT")
      BY <3>2 DEF TxMetering, Process
    <3>3. CASE TxMetering /\ ~Has("PTT")
      BY <3>3 DEF TxMetering, Process
    <3>4. QED
      BY <1>8, <3>1, <3>2, <3>3
  <2>2. reply'.says = answer
    <3> HIDE DEF answer
    <3>1. QED
      BY <2>1 DEF Reply
  <2>3. reply'.says \in {IF w.usb THEN "transmitting" ELSE "receiving"}
    BY <1>1, <2>2, Transmitting
  <2>4. Radio!Answered(cmd, {IF w.usb THEN "transmitting" ELSE "receiving"})
    BY <1>1, <2>1, <2>3, AnsweredAs
  <2>5. QED
    BY <1>3, <2>1, <2>4 DEF Radio!AskTransmitter, Unheard
<1>9. QED
  BY <1>4, <1>5, <1>6, <1>7, <1>8

\* A tuning request, obeyed or refused, is the radio's.
LEMMA TuneIsTune ==
    ASSUME IInv, phase = "run", SetFrequency
    PROVE  \E n \in {BCD2Dec(digits) : digits \in Frames} : Radio!Tune(n)
<1>1. /\ Commanded(w, w')
      /\ Keyed(w'.vfo) <=> Keyed(w.vfo)
      /\ w'.vfo.vfo = w.vfo.vfo
      /\ last' = "tune" /\ phase' = phase /\ reply' = Ack
  BY SetFrequencyKeeps
<1>2. PICK digits \in Frames : w'.vfo.f = TunedByRequest(w, BCD2Dec(digits))
  BY SetFrequencyKeeps
<1> DEFINE n == BCD2Dec(digits)
<1>3. reply'.says \in {"ok"}
  BY <1>1 DEF Ack, Reply
<1>4. Radio!Answered("tune", {"ok"})
  BY <1>1, <1>3, AnsweredAs
<1>5. w'.usb = w.usb /\ (w.usb <=> Keyed(w.vfo))
  <2>1. w'.usb <=> w.usb
    BY <1>1, Transmitting
  <2>2. QED
    BY <1>1, <2>1, Transmitting
<1>6. Radio!Tune(n)
  BY <1>1, <1>2, <1>4, <1>5 DEF Radio!Tune, Radio!InBand, InBand, TunedByRequest
<1>7. QED
  BY <1>6

LEMMA SwapIsSwap ==
    ASSUME IInv, phase = "run", SwapVfo
    PROVE  Radio!Swap
<1>1. (~Has("VFO")) \in BOOLEAN
  OBVIOUS
<1>2. /\ Commanded(w, w') /\ phase' = phase
      /\ Keyed(w'.vfo) <=> Keyed(w.vfo)
      /\ w'.vfo.vfo = IF ~Has("VFO") THEN "B" ELSE "A"
      /\ w'.vfo.f = w.vfo.f
      /\ last' = "swap" /\ reply' = Ack
  BY <1>1, StatusCommandObeyed DEF SwapVfo, Bits
<1>3. w'.vfo.vfo = IF w.vfo.vfo = "A" THEN "B" ELSE "A"
  BY <1>2 DEF IInv, TypeOK, VfoCopied, Has, World, VfoState, VFOs
<1>4. reply'.says \in {"ok"}
  BY <1>2 DEF Ack, Reply
<1>5. Radio!Answered("swap", {"ok"})
  BY <1>2, <1>4, AnsweredAs
<1>6. w'.usb = w.usb
  <2>1. w'.usb <=> w.usb
    BY <1>2, Transmitting
  <2>2. QED
    BY <1>2, <2>1, Transmitting
<1>7. QED
  BY <1>2, <1>3, <1>5, <1>6 DEF Radio!Swap

LEMMA ClarifierIsUnheard ==
    ASSUME IInv, phase = "run", SetClarifier
    PROVE  Radio!Others
<1>1. /\ Commanded(w, w') /\ phase' = phase
      /\ Keyed(w'.vfo) <=> Keyed(w.vfo)
      /\ w'.vfo.vfo = w.vfo.vfo /\ w'.vfo.f = w.vfo.f
      /\ last' = "clarifier" /\ reply' = Ack
  BY SetClarifierKeeps
<1>2. reply'.says \in {"ok"}
  BY <1>1 DEF Ack, Reply
<1>3. Radio!Answered("clarifier", {"ok"})
  BY <1>1, <1>2, AnsweredAs
<1>4. w'.usb = w.usb
  <2>1. w'.usb <=> w.usb
    BY <1>1, Transmitting
  <2>2. QED
    BY <1>1, <2>1, Transmitting
<1>5. QED
  BY <1>1, <1>3, <1>4 DEF Radio!Others

\* Each step of the controller is a step of the radio, or nothing to it.
LEMMA RadioStep == IInv /\ TestPhase /\ [Next]_vars => [Radio!Next]_(Radio!vars)
<1> SUFFICES ASSUME IInv, TestPhase, [Next]_vars
             PROVE  Radio!Next \/ UNCHANGED Radio!vars
  OBVIOUS
<1>1. CASE TestKey \/ TestUnkey
  <2>1. /\ w'.vfo = w.vfo /\ last' = last /\ reply' = reply /\ phase # "run"
        /\ w.usb \in BOOLEAN /\ w'.usb \in BOOLEAN
        /\ w'.usb <=> phase = "boot"
        /\ (phase' = "run") <=> phase = "test"
    BY <1>1 DEF TestKey, TestUnkey, IInv, TypeOK, World
  <2>2. w.usb <=> phase = "test"
    BY <2>1 DEF TestPhase
  <2>3. phase = "boot" \/ phase = "test"
    BY <1>1 DEF TestKey, TestUnkey
  <2>4. w'.usb = ~w.usb /\ (phase' = "run") = w.usb
    BY <2>1, <2>2, <2>3
  <2>5. Radio!SelfTest
    BY <2>1, <2>4 DEF Radio!SelfTest
  <2>6. QED
    BY <2>5 DEF Radio!Next
<1>2. CASE Command
  <2>1. phase = "run"
    BY <1>2, CommandInRun
  <2>2. CASE SetFrequency
    BY <2>1, <2>2, TuneIsTune DEF Radio!Next
  <2>3. CASE SwapVfo
    BY <2>1, <2>3, SwapIsSwap DEF Radio!Next
  <2>4. CASE PttOn
    BY <2>1, <2>4, KeyIsKey DEF PttOn, Radio!Next
  <2>5. CASE PttOff
    BY <2>1, <2>5, KeyIsKey DEF PttOff, Radio!Next
  <2>6. CASE LockOn \/ LockOff \/ SplitFlip \/ SplitOff \/ RitFlip \/ RitOff
    BY <2>1, <2>6, SwitchesAreUnheard DEF Radio!Next
  <2>7. CASE SetClarifier
    BY <2>1, <2>7, ClarifierIsUnheard DEF Radio!Next
  <2>8. CASE \/ GetFrequency \/ SetMode
             \/ ReadEeprom \/ ReceiverStatus \/ TransmitterStatus \/ TxMetering
    BY <2>1, <2>8, QuestionIsAnswered DEF Radio!Next
  <2>9. QED
    BY <1>2, <2>2, <2>3, <2>4, <2>5, <2>6, <2>7, <2>8 DEF Command
<1>3. CASE UNCHANGED vars
  BY <1>3 DEF vars, Radio!vars
<1>4. CASE KeyLoad \/ KeyStore
  BY <1>4, KeyboardReaches DEF Radio!vars, IInv, TypeOK
<1>5. QED
  BY <1>1, <1>2, <1>3, <1>4 DEF Next

\* With all its copies, callbacks and refusals the controller is the radio it
\* passes itself off as, for any bands, frequencies and modes.
THEOREM ImplementsRadioHolds == Spec => ImplementsRadio
<1>1. Spec => []TestPhase
  BY TestPhaseInit, TestPhaseStep, Inductive, PTL DEF Spec
<1>2. QED
  BY <1>1, RadioInit, RadioStep, Inductive, PTL DEF Spec, ImplementsRadio, Radio!Spec
=============================================================================
