------------------------------ MODULE SsbChain ------------------------------
(***************************************************************************)
(* The transmit chain: the generator process (lib/genSSB.cpp) keys the     *)
(* transmitter, turns audio into I/Q samples and writes them to a pipe;    *)
(* the sender process (lib/sendRF.cpp) reads the pipe in bursts and hands  *)
(* them to the DMA engine.  Mode changes travel in the same pipe, as a     *)
(* sample of a reserved value: 1111 switches the sender to I/Q, 2222 to    *)
(* frequency and amplitude, in which it radiates the carrier of a DDS.     *)
(* With the option -i the sender is the external sendiq instead, assumed   *)
(* to work as sendRF does except that its mode changes come through a      *)
(* shared memory segment: at once, past the samples in the pipe.           *)
(***************************************************************************)
EXTENDS Sequences, Naturals

CONSTANTS
    BlockLen,            \* samples a block of audio gives
    Burst,               \* samples the sender reads at once (IQBURST)
    PipeSize             \* bound: samples the pipe holds

ASSUME SizesAssumption ==
    /\ BlockLen \in Nat \ {0} /\ Burst \in Nat \ {0}
    /\ PipeSize \in Nat /\ PipeSize >= Burst + BlockLen - 1

VARIABLES
    fdds,                \* both: the option -d
    ipc,                 \* genSSB: the option -i was given, iqsend_token # 0
    keyed,               \* genSSB: MSW.PTT
    command,             \* genSSB: the command setPTT() is about to give, or none
    order,               \* iqsendmem: the command with updated set, or none
    gpio,                \* the PTT pin, 0 or 1
    running,             \* genSSB: not yet ended
    forced,              \* genSSB: ended by the exit of terminate()
    pipe,                \* the samples written and not yet read
    mode,                \* sendRF: ModeIQ
    aired                \* the last burst on the air: samples and their mode

vars == <<fdds, ipc, keyed, command, order, gpio, running, forced, pipe, mode, aired>>

Modes == {"IQ", "FREQ_A"}
Commands == {"1111", "2222"}
Samples == Commands \cup {"voice", "zero"}
OnAir == Samples \cup {"carrier"}

TypeOK ==
    /\ fdds \in BOOLEAN /\ ipc \in BOOLEAN
    /\ keyed \in BOOLEAN
    /\ command \in Commands \cup {"none"}
    /\ order \in Commands \cup {"none"}
    /\ gpio \in {0, 1}
    /\ running \in BOOLEAN /\ forced \in BOOLEAN
    /\ pipe \in Seq(Samples) /\ Len(pipe) <= PipeSize
    /\ mode \in Modes
    /\ aired \in [samples : Seq(OnAir), mode : Modes]

Init ==
    /\ fdds \in BOOLEAN /\ ipc \in BOOLEAN
    /\ keyed = FALSE
    /\ command = "none" /\ order = "none"
    /\ gpio = 0
    /\ running = TRUE /\ forced = FALSE
    /\ pipe = <<>>
    /\ mode = IF fdds THEN "FREQ_A" ELSE "IQ"
    /\ aired = [samples |-> <<>>, mode |-> IF fdds THEN "FREQ_A" ELSE "IQ"]

-----------------------------------------------------------------------------
(* The generator.                                                          *)

\* fwrite() of samples: it waits while the pipe is full.
Write(samples) ==
    /\ Len(pipe) + Len(samples) <= PipeSize
    /\ pipe' = pipe \o samples

\* Mutant: the PTT bit is set before it is looked at.
KeyOnSetsFirst ==
    /\ running /\ command = "none"
    /\ gpio' = 1
    /\ keyed' = TRUE
    /\ UNCHANGED <<fdds, ipc, command, order, running, forced, pipe, mode, aired>>

\* setPTT(true), from the mailbox or from the VOX: the pin is raised before
\* the sender is told.
KeyOn ==
    /\ running /\ command = "none"
    /\ IF keyed THEN UNCHANGED <<command, gpio>> ELSE command' = "1111" /\ gpio' = 1
    /\ UNCHANGED <<fdds, ipc, keyed, order, running, forced, pipe, mode, aired>>

\* Mutant: the PTT bit is cleared before it is looked at.
KeyOffClearsFirst ==
    /\ running /\ command = "none"
    /\ gpio' = 0
    /\ keyed' = FALSE
    /\ UNCHANGED <<fdds, ipc, command, order, running, forced, pipe, mode, aired>>

\* Mutant: the command is sent without DDS too.
KeyOffAlwaysSends ==
    /\ running /\ command = "none"
    /\ gpio' = 0
    /\ command' = IF keyed THEN "2222" ELSE "none"
    /\ UNCHANGED <<fdds, ipc, keyed, order, running, forced, pipe, mode, aired>>

\* setPTT(false): the pin drops at once, the samples in the pipe remain, and
\* the sender is told if it has a carrier to go back to.
KeyOff ==
    /\ running /\ command = "none"
    /\ gpio' = 0
    /\ IF keyed /\ fdds THEN command' = "2222" /\ UNCHANGED keyed
                       ELSE keyed' = FALSE /\ UNCHANGED command
    /\ UNCHANGED <<fdds, ipc, order, running, forced, pipe, mode, aired>>

\* Mutant: two samples are written whether a command was put into them or not.
TellAnyway ==
    /\ running
    /\ IF ipc THEN order' = command /\ UNCHANGED pipe
              ELSE Write(<<command>>) /\ UNCHANGED order
    /\ keyed' = (command = "1111")
    /\ command' = "none"
    /\ UNCHANGED <<fdds, ipc, gpio, running, forced, mode, aired>>

\* The end of setPTT(): the command is left in the segment of sendiq, in the
\* place of one not yet heeded, or written to the pipe, and then the PTT bit
\* is set.
Tell ==
    /\ running /\ command # "none"
    /\ IF ipc THEN order' = command /\ UNCHANGED pipe
              ELSE Write(<<command>>) /\ UNCHANGED order
    /\ keyed' = (command = "1111")
    /\ command' = "none"
    /\ UNCHANGED <<fdds, ipc, gpio, running, forced, mode, aired>>

\* A block of audio: its samples, or as many zeros while receiving.
Block ==
    /\ running /\ command = "none"
    /\ Write([i \in 1 .. BlockLen |-> IF keyed THEN "voice" ELSE "zero"])
    /\ UNCHANGED <<fdds, ipc, keyed, command, order, gpio, running, forced, mode, aired>>

\* Mutant: the pin is left as it is.
QuitKeyed ==
    /\ running /\ command = "none"
    /\ running' = FALSE
    /\ UNCHANGED <<fdds, ipc, keyed, command, order, gpio, forced, pipe, mode, aired>>

\* The end of the audio, or a signal: the main loop ends and the pin drops.
Quit ==
    /\ running /\ command = "none"
    /\ running' = FALSE
    /\ gpio' = 0
    /\ UNCHANGED <<fdds, ipc, keyed, command, order, forced, pipe, mode, aired>>

\* A second signal, wherever the program is: terminate() exits at once and
\* leaves everything as it is, the pin included.
Abort ==
    /\ running
    /\ running' = FALSE
    /\ forced' = TRUE
    /\ UNCHANGED <<fdds, ipc, keyed, command, order, gpio, pipe, mode, aired>>

-----------------------------------------------------------------------------
(* The sender.                                                             *)

\* The mode a command asks for.
ModeAsked(sample) == IF sample = "1111" THEN "IQ" ELSE "FREQ_A"

\* The mode in which the sample at place n of a burst is looked at: the one
\* the last command up to it asks for.
ModeAt(samples, n) ==
    LET asked == {i \in 1 .. n : \/ samples[i] = "1111"
                                 \/ fdds /\ samples[i] = "2222"}
    IN  IF asked = {} THEN mode
        ELSE LET final == CHOOSE i \in asked : \A j \in asked : j <= i
             IN  ModeAsked(samples[final])

\* What is sent for it: commands are blanked, and in frequency and amplitude
\* mode every sample is replaced by the carrier.
Converted(samples, n) ==
    IF ModeAt(samples, n) = "FREQ_A" THEN "carrier"
    ELSE IF samples[n] = "1111" THEN "zero" ELSE samples[n]

\* Mutant: the end of the file is taken for the end of the work.
SendFullBursts ==
    /\ Len(pipe) >= Burst
    /\ aired' = [samples |-> [i \in 1 .. Burst |-> Converted(pipe, i)],
                 mode    |-> ModeAt(pipe, Burst)]
    /\ mode' = ModeAt(pipe, Burst)
    /\ pipe' = SubSeq(pipe, Burst + 1, Len(pipe))
    /\ UNCHANGED <<fdds, ipc, keyed, command, order, gpio, running, forced>>

\* One turn of the sender's loop.  fread() returns less than a burst at the
\* end of the file only; SetIQSamples() sends the burst in one mode, the one
\* its last sample left.
Send ==
    LET n == IF Len(pipe) >= Burst THEN Burst ELSE Len(pipe)
    IN  /\ n = Burst \/ (~running /\ n > 0)
        /\ aired' = [samples |-> [i \in 1 .. n |-> Converted(pipe, i)],
                     mode    |-> ModeAt(pipe, n)]
        /\ mode' = ModeAt(pipe, n)
        /\ pipe' = SubSeq(pipe, n + 1, Len(pipe))
        /\ UNCHANGED <<fdds, ipc, keyed, command, order, gpio, running, forced>>

\* sendiq obeys the command in its segment, whatever is in the pipe.
Heed ==
    /\ order # "none"
    /\ mode' = ModeAsked(order)
    /\ order' = "none"
    /\ UNCHANGED <<fdds, ipc, keyed, command, gpio, running, forced, pipe, aired>>

Next == KeyOn \/ KeyOff \/ Tell \/ Block \/ Quit \/ Abort \/ Send \/ Heed

-----------------------------------------------------------------------------

\* Mode of the sender that goes with a state of the PTT.
ModeFor(transmit) == IF transmit \/ ~fdds THEN "IQ" ELSE "FREQ_A"

\* The mode the sender is in once it has read the pipe and its segment.
Settled == IF order # "none" THEN ModeAsked(order) ELSE ModeAt(pipe, Len(pipe))

\* Once the pipe is drained, and an order of the segment heeded, the sender is
\* in the mode the generator's PTT asks for: no edge of the PTT is lost on
\* either way.  A generator that was forced to end has no PTT any more.
ModeFollowsKey == ~forced => Settled = ModeFor(keyed)

\* Each sample in the pipe will be looked at in the mode of the keying under
\* which it was written: no voice is replaced by the carrier, and with a DDS
\* nothing else is sent for the silence of reception.  It is so where mode
\* changes wait in the pipe for their turn; with both -d and -i they overtake
\* the samples, and this is not promised.
EachInItsMode ==
    ~(fdds /\ ipc) =>
        \A i \in 1 .. Len(pipe) :
            pipe[i] \notin Commands => ModeAt(pipe, i) = ModeFor(pipe[i] = "voice")

\* A command never reaches the air as a sample.
NoCommandOnAir ==
    \A i \in 1 .. Len(aired.samples) : aired.samples[i] \notin Commands

\* While the generator runs the pin is up exactly when it is keyed or, in
\* setPTT(), about to be, and an orderly end leaves it down.  After a forced
\* end it stays as it was.
PinFollowsKey ==
    IF running
    THEN gpio = IF command # "2222" /\ (keyed \/ command = "1111") THEN 1 ELSE 0
    ELSE ~forced => gpio = 0

\* When the generator has ended everything it wrote is sent, whatever is left
\* in the pipe.
Drained == ~running ~> pipe = <<>>
=============================================================================
