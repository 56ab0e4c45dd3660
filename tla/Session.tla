------------------------------ MODULE Session ------------------------------
(***************************************************************************)
(* Sessions of the transceiver on one machine: what each of them leaves    *)
(* behind for the next.  The script OT4D.sh kills the audio source of any  *)
(* earlier session and runs OT4D.  The controller creates or reuses the    *)
(* shared segment of the PTT, then forks a shell that runs the pipeline    *)
(* arecord | genSSB | sender.  When the controller ends, it removes the    *)
(* segment and kills the shell, and nothing else: the generator lives as   *)
(* long as there is audio.  A crash of the controller does not even remove *)
(* the segment.                                                            *)
(*                                                                         *)
(* The shared memory and the pins are the kernel's and pigpio's: a segment *)
(* found by its key outlives its creator until it is removed, a removed    *)
(* one is kept by those attached, and one process at a time has the pins.  *)
(***************************************************************************)
EXTENDS Integers

CONSTANT MaxSessions         \* bound: starts of the script

ASSUME SessionsAssumption == MaxSessions \in Nat

VARIABLES
    session,             \* the session that runs, or ran last
    ctl,                 \* its controller: "constructed", "running", "crashed",
                         \* or "off" before the first and after a normal end
    mine,                \* the segment the controller is attached to
    named,               \* the segment that the key finds; None: there is none
    seg,                 \* the segments: ptt_flag and ptt_signal
    gen,                 \* the generators, one of each session
    pin                  \* the PTT pin

vars == <<session, ctl, mine, named, seg, gen, pin>>

None == 0
Sessions == 1 .. MaxSessions

\* A segment is known by its creator: the controller of session n, or its
\* generator, -n.
Segments == Sessions \cup {-n : n \in Sessions}

\* A request is to transmit, with the session that asks, or to receive.
Receive == 0
Request == {Receive} \cup Sessions

Zeroed == [flag |-> 0, signal |-> Receive]

\* A generator: how far it has come, the segment it is attached to, the
\* request it obeys, and whether its audio source lives.
Phases == {"none", "forked", "attached", "poll", "read", "gone"}
Generator == [phase : Phases, seg : Segments \cup {None}, obeys : Request, audio : BOOLEAN]

Unborn == [phase |-> "none", seg |-> None, obeys |-> Receive, audio |-> FALSE]
Gone == [Unborn EXCEPT !.phase = "gone"]

Init ==
    /\ session = 0
    /\ ctl = "off"
    /\ mine = None
    /\ named = None
    /\ seg = [s \in Segments |-> Zeroed]
    /\ gen = [n \in Sessions |-> Unborn]
    /\ pin = 0

-----------------------------------------------------------------------------
(* The controller, and the script that runs it.                            *)

\* shmget(key, IPC_CREAT): the segment of that key, or a new one.
Found(new) == IF named = None THEN new ELSE named

Silenced == [n \in Sessions |-> [gen[n] EXCEPT !.audio = FALSE]]

\* Mutant: the audio of the earlier session is left alone.
ConstructBeside ==
    /\ ctl \in {"off", "crashed"}
    /\ session < MaxSessions
    /\ session' = session + 1
    /\ ctl' = "constructed"
    /\ named' = Found(session')
    /\ mine' = named'
    /\ seg' = [seg EXCEPT ![named'] = Zeroed]
    /\ UNCHANGED <<gen, pin>>

\* Mutant: the mailbox is taken over as it is.
ConstructUncleared ==
    /\ ctl \in {"off", "crashed"}
    /\ session < MaxSessions
    /\ session' = session + 1
    /\ ctl' = "constructed"
    /\ gen' = Silenced
    /\ named' = Found(session')
    /\ mine' = named'
    /\ UNCHANGED <<seg, pin>>

\* The script kills the audio sources, and OT4D constructs the generator's
\* object, which clears the mailbox.
Construct ==
    /\ ctl \in {"off", "crashed"}
    /\ session < MaxSessions
    /\ session' = session + 1
    /\ ctl' = "constructed"
    /\ gen' = Silenced
    /\ named' = Found(session')
    /\ mine' = named'
    /\ seg' = [seg EXCEPT ![named'] = Zeroed]
    /\ UNCHANGED pin

\* start(): the pipeline is forked.
Launch ==
    /\ ctl = "constructed"
    /\ ctl' = "running"
    /\ gen' = [gen EXCEPT ![session] = [@ EXCEPT !.phase = "forked", !.audio = TRUE]]
    /\ UNCHANGED <<session, mine, named, seg, pin>>

\* Mutant: the flag counts the requests.
AskCounts(transmit) ==
    /\ ctl = "running"
    /\ seg' = [seg EXCEPT ![mine] =
                  [flag |-> @.flag + 1, signal |-> IF transmit THEN session ELSE Receive]]
    /\ UNCHANGED <<session, ctl, mine, named, gen, pin>>

\* setPTT()
Ask(transmit) ==
    /\ ctl = "running"
    /\ seg' = [seg EXCEPT ![mine] =
                  [flag |-> 1, signal |-> IF transmit THEN session ELSE Receive]]
    /\ UNCHANGED <<session, ctl, mine, named, gen, pin>>

\* The key X and a signal to the controller end nothing else; Ctrl-C reaches
\* the audio source too.
Signalled(interrupted) ==
    IF interrupted THEN [gen EXCEPT ![session].audio = FALSE] ELSE gen

\* stop(): the segment is removed and the shell is killed.
Stop(interrupted) ==
    /\ ctl = "running"
    /\ ctl' = "off"
    /\ mine' = None
    /\ named' = None
    /\ gen' = Signalled(interrupted)
    /\ UNCHANGED <<session, seg, pin>>

\* The controller ends by a signal it does not survive, or by exit(16), as on
\* the second Ctrl-C.
Crash(interrupted) ==
    /\ ctl \in {"constructed", "running"}
    /\ ctl' = "crashed"
    /\ mine' = None
    /\ gen' = Signalled(interrupted)
    /\ UNCHANGED <<session, named, seg, pin>>

-----------------------------------------------------------------------------
(* The generator of session n.                                             *)

\* It attaches to the segment of the key, which it creates if there is none.
Attach(n) ==
    /\ gen[n].phase = "forked"
    /\ named' = Found(-n)
    /\ seg' = IF named = None THEN [seg EXCEPT ![-n] = Zeroed] ELSE seg
    /\ gen' = [gen EXCEPT ![n] = [@ EXCEPT !.phase = "attached", !.seg = named']]
    /\ UNCHANGED <<session, ctl, mine, pin>>

HoldsPins(n) == gen[n].phase \in {"poll", "read"}

\* Mutant: the pin is taken over as it is.
TakePinsAsIs(n) ==
    /\ gen[n].phase = "attached"
    /\ \/ /\ \E m \in Sessions : HoldsPins(m)
          /\ gen' = [gen EXCEPT ![n] = Gone]
       \/ /\ ~\E m \in Sessions : HoldsPins(m)
          /\ gen' = [gen EXCEPT ![n].phase = "poll"]
    /\ UNCHANGED <<session, ctl, mine, named, seg, pin>>

\* gpioInitialise(): it ends when another process has the pins.
TakePins(n) ==
    /\ gen[n].phase = "attached"
    /\ \/ /\ \E m \in Sessions : HoldsPins(m)
          /\ gen' = [gen EXCEPT ![n] = Gone]
          /\ UNCHANGED pin
       \/ /\ ~\E m \in Sessions : HoldsPins(m)
          /\ gen' = [gen EXCEPT ![n].phase = "poll"]
          /\ pin' = 0
    /\ UNCHANGED <<session, ctl, mine, named, seg>>

\* The main loop looks into the mailbox.
Poll(n) ==
    LET s == gen[n].seg
    IN  /\ gen[n].phase = "poll"
        /\ \/ /\ seg[s].flag = 0
              /\ gen' = [gen EXCEPT ![n].phase = "read"]
              /\ UNCHANGED <<seg, pin>>
           \/ /\ seg[s].flag = 1
              /\ gen' = [gen EXCEPT ![n] =
                            [@ EXCEPT !.phase = "read", !.obeys = seg[s].signal]]
              /\ seg' = [seg EXCEPT ![s].flag = 0]
              /\ pin' = IF seg[s].signal = Receive THEN 0 ELSE 1
        /\ UNCHANGED <<session, ctl, mine, named>>

\* Mutant: the generator removes the segment at its end, as the lines that
\* are commented out in its source did.
ReadRemoves(n) ==
    /\ gen[n].phase = "read"
    /\ \/ /\ gen[n].audio
          /\ gen' = [gen EXCEPT ![n].phase = "poll"]
          /\ UNCHANGED <<named, pin>>
       \/ /\ ~gen[n].audio
          /\ gen' = [gen EXCEPT ![n] = Gone]
          /\ named' = IF named = gen[n].seg THEN None ELSE named
          /\ pin' = 0
    /\ UNCHANGED <<session, ctl, mine, seg>>

\* It reads a block of audio; at the end of the audio it ends.
Read(n) ==
    /\ gen[n].phase = "read"
    /\ \/ /\ gen[n].audio
          /\ gen' = [gen EXCEPT ![n].phase = "poll"]
          /\ UNCHANGED pin
       \/ /\ ~gen[n].audio
          /\ gen' = [gen EXCEPT ![n] = Gone]
          /\ pin' = 0
    /\ UNCHANGED <<session, ctl, mine, named, seg>>

\* A second signal, the first having ended its audio too: exit(16) from the
\* handler, and the pin stays as it is.
Abort(n) ==
    /\ HoldsPins(n) /\ ~gen[n].audio
    /\ gen' = [gen EXCEPT ![n] = Gone]
    /\ UNCHANGED <<session, ctl, mine, named, seg, pin>>

GeneratorStep(n) == Attach(n) \/ TakePins(n) \/ Poll(n) \/ Read(n)

Next ==
    \/ Construct
    \/ Launch
    \/ \E transmit \in BOOLEAN : Ask(transmit)
    \/ \E interrupted \in BOOLEAN : Stop(interrupted) \/ Crash(interrupted)
    \/ \E n \in Sessions : GeneratorStep(n) \/ Abort(n)

\* Processes that can run do, and live audio sources keep delivering.  The
\* operator need not start, ask or stop anything.
Fairness == \A n \in Sessions : WF_vars(GeneratorStep(n))

Spec == Init /\ [][Next]_vars /\ Fairness

-----------------------------------------------------------------------------

\* Every variable has its type.
TypeOK ==
    /\ session \in {0} \cup Sessions
    /\ ctl \in {"off", "constructed", "running", "crashed"}
    /\ mine \in Segments \cup {None}
    /\ named \in Segments \cup {None}
    /\ seg \in [Segments -> [flag : {0, 1}, signal : Request]]
    /\ gen \in [Sessions -> Generator]
    /\ pin \in {0, 1}

\* Whatever an earlier session has left in the segment or in the kernel, a
\* generator transmits only because its own session, or a later one that
\* found the same segment, has asked for it.
NoStaleKey == \A n \in Sessions : gen[n].obeys # Receive => gen[n].obeys >= n

\* A generator that works for the session that runs looks into the segment
\* its controller writes to, whichever processes of earlier sessions still
\* attach, create or leave segments of the same key meanwhile.
InTouch ==
    ctl = "running" /\ HoldsPins(session) => gen[session].seg = mine

\* The generator that has the pins decides on the PTT, in whatever state a
\* forced end of an earlier one has left it.
PinOwned ==
    \A n \in Sessions : HoldsPins(n) => (pin = 1 <=> gen[n].obeys # Receive)

\* What an earlier session has left keyed ends when the next one begins.
OldGeneratorsEnd ==
    \A n \in Sessions : session > n ~> gen[n].phase \in {"none", "gone"}

-----------------------------------------------------------------------------
(* What the source says and the code does not do.                           *)

\* "Stop all threads and child processes": when the controller has come
\* to its normal end the transmitter is not left keyed.
UnkeyedAfterStop == ctl = "off" ~> pin = 0 \/ ctl # "off"
=============================================================================
