------------------------------ MODULE PttPath ------------------------------
(***************************************************************************)
(* The way of a push-to-talk request: from the controller (class genSSB)   *)
(* through the mailbox to the main loop of the generator (lib/genSSB.cpp), *)
(* which obeys it with setPTT() between two blocks of audio, and on        *)
(* through the pipe of samples to the sender (lib/sendRF.cpp).  The        *)
(* generator waits in setPTT() and in a block while the pipe is full, and  *)
(* the sender while it holds less than a burst.                            *)
(***************************************************************************)
EXTENDS PttMailbox, SsbChain

CONSTANT Transmit        \* the numbers of the requests that ask to transmit

ASSUME TransmitAssumption == Transmit \subseteq 1 .. MaxPosts

VARIABLES
    turn,                \* what the generator's loop does next
    served               \* the request its pin was last set for

pathVars == <<mailboxVars, vars, turn, served>>

PathTypeOK ==
    /\ MailboxTypeOK
    /\ TypeOK
    /\ turn \in {"poll", "setPTT", "block"}
    /\ served \in 0 .. MaxPosts

PathInit == MailboxInit /\ Init /\ turn = "poll" /\ served = 0

-----------------------------------------------------------------------------
(* The main loop of the generator, without -x, which ignores requests.     *)

\* No request: on to the audio.
PollNone ==
    /\ running /\ command = "none" /\ turn = "poll"
    /\ PollEmpty
    /\ turn' = "block"
    /\ UNCHANGED <<vars, served>>

\* A request is seen, the flag lowered ...
PollFlag ==
    /\ running /\ command = "none" /\ turn = "poll"
    /\ TakeFlag
    /\ UNCHANGED <<vars, turn, served>>

\* ... and the signal loaded, the argument of setPTT().
PollSignal ==
    /\ running
    /\ LoadSignal
    /\ turn' = "setPTT"
    /\ UNCHANGED <<vars, served>>

\* setPTT() sets the pin; what is left of it is Tell.
Obey ==
    /\ turn = "setPTT"
    /\ IF applied \in Transmit THEN KeyOn ELSE KeyOff
    /\ served' = applied
    /\ turn' = "block"
    /\ UNCHANGED mailboxVars

ObeyTells == Tell /\ UNCHANGED <<mailboxVars, turn, served>>

\* The rest of a turn.
Sound ==
    /\ turn = "block"
    /\ Block
    /\ turn' = "poll"
    /\ UNCHANGED <<mailboxVars, served>>

\* The loop ends at its head, or where it finds the audio ended.
End ==
    /\ turn \in {"poll", "block"} /\ poll = "idle"
    /\ Quit
    /\ UNCHANGED <<mailboxVars, turn, served>>

\* terminate() ends the program between any two of these steps.
ForcedEnd == Abort /\ UNCHANGED <<mailboxVars, turn, served>>

MainLoop == PollNone \/ PollFlag \/ PollSignal \/ Obey \/ ObeyTells \/ Sound

-----------------------------------------------------------------------------
(* The others.                                                             *)

Post == SetPTT /\ UNCHANGED <<vars, turn, served>>

\* A store becomes visible.
Visible ==
    /\ SignalVisible \/ FlagVisible \/ ClearVisible
    /\ UNCHANGED <<vars, turn, served>>

Air == Send /\ UNCHANGED <<mailboxVars, turn, served>>

\* sendiq looks at its segment.
AirHeeds == Heed /\ UNCHANGED <<mailboxVars, turn, served>>

PathNext == Post \/ Visible \/ MainLoop \/ End \/ ForcedEnd \/ Air \/ AirHeeds

\* Stores become visible, audio keeps coming (a block every 21 ms), and the
\* sender's loop runs as long as it can read and, with -i, looks at its
\* segment again and again.  Nobody has to press PTT.
PathFairness ==
    /\ WF_pathVars(Visible) /\ WF_pathVars(MainLoop)
    /\ WF_pathVars(Air) /\ WF_pathVars(AirHeeds)

PathSpec == PathInit /\ [][PathNext]_pathVars /\ PathFairness

-----------------------------------------------------------------------------

\* The generator has nothing of a request left to do.
AtRest == Quiescent /\ turn # "setPTT" /\ running

\* End to end: when no request is on its way, the pin that switches the
\* amplifier is as the newest one asks, and so will the sender be, once it has
\* read the pipe and its segment, when setPTT() has nothing left to tell it.
NewestObeyed ==
    AtRest =>
        /\ gpio = 1 <=> posted \in Transmit
        /\ command = "none" => Settled = ModeFor(posted \in Transmit)

\* The link behaves as a register: the store to ptt_signal is the moment at
\* which a request is made, and the write to the pin that at which it is
\* obeyed.
Register == INSTANCE PttRegister WITH
    posted <- signal, applied <- served, pin <- gpio, open <- running

ImplementsRegister == Register!RegSpec

\* A request is on the air.
OnAirAs(request) ==
    /\ gpio = 1 <=> request \in Transmit
    /\ mode = ModeFor(request \in Transmit)

\* A request that is not replaced reaches the pin and the sender, however
\* full the pipe, unless the generator ends.
RequestServed ==
    \A request \in 1 .. MaxPosts :
        posted = request ~> posted > request \/ ~running \/ OnAirAs(request)
=============================================================================
