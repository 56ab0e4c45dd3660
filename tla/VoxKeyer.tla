------------------------------ MODULE VoxKeyer ------------------------------
(***************************************************************************)
(* The voice operated keying of genSSB (lib/genSSB.cpp).  The main loop    *)
(* restarts the countdown TVOX on every loud block of audio and keys the   *)
(* transmitter; a timer thread (lib/CallBackTimer.h) counts TVOX down once *)
(* a millisecond and raises fVOX when it gets to zero; the main loop then  *)
(* lowers fVOX and unkeys.  Both are plain variables of two threads.       *)
(*                                                                         *)
(* The generator is as genSSB.h starts it with VOX: autoPTT set and no     *)
(* shared memory, so no command and no upcall takes part.                  *)
(***************************************************************************)
EXTENDS Naturals

CONSTANT
    Timeout              \* vox_timeout in ticks

ASSUME TimeoutAssumption == Timeout \in Nat /\ Timeout >= 2

VARIABLES
    TVOX,                \* the countdown, 0 when idle
    fVOX,                \* 1 when it has expired, until that is handled
    ptt,                 \* MSW.PTT and the pin, 0 or 1
    tick,                \* where the timer thread is
    loaded,              \* the value of TVOX it has in a register
    main,                \* where the main loop is
    loud,                \* whether the current block is loud, 0 or 1
    quiet,               \* ticks since the last restart of TVOX, at most Timeout
    undone               \* whether a tick has ever undone a restart

vars == <<TVOX, fVOX, ptt, tick, loaded, main, loud, quiet, undone>>

TypeOK ==
    /\ TVOX \in 0 .. Timeout
    /\ fVOX \in {0, 1}
    /\ ptt \in {0, 1}
    /\ tick \in {"sleep", "load", "store", "test", "raise"}
    /\ loaded \in 0 .. Timeout
    /\ main \in {"read", "refresh", "clear", "key", "check", "unkey"}
    /\ loud \in {0, 1}
    /\ quiet \in 0 .. Timeout
    /\ undone \in BOOLEAN

Init ==
    /\ TVOX = 0
    /\ fVOX = 0
    /\ ptt = 0
    /\ tick = "sleep"
    /\ loaded = 0
    /\ main = "read"
    /\ loud = 0
    /\ quiet = Timeout
    /\ undone = FALSE

-----------------------------------------------------------------------------
(* The timer thread: timer_exec(), once a millisecond, access by access.   *)
(* TVOX is not volatile: what a tick has loaded once may be kept in a      *)
(* register or loaded again, as the build has it.                          *)

\* A millisecond, as far as quiet tells it.
Elapses == quiet' = IF quiet < Timeout THEN quiet + 1 ELSE quiet

\* The main loop is never held up for the whole timeout between the two
\* adjacent assignments that restart the countdown.
MainInTime == ~(main = "clear" /\ TVOX = 1)

\* if (TVOX!=0), ...
TickTest ==
    /\ tick = "sleep" /\ MainInTime
    /\ loaded' = TVOX
    /\ tick' = IF TVOX # 0 THEN "load" ELSE "sleep"
    /\ Elapses
    /\ UNCHANGED <<TVOX, fVOX, ptt, main, loud, undone>>

\* ... the load of TVOX--, ...
TickLoad ==
    /\ tick = "load"
    /\ loaded' \in {loaded, TVOX}
    /\ tick' = "store"
    /\ UNCHANGED <<TVOX, fVOX, ptt, main, loud, quiet, undone>>

\* ... its store, which undoes a restart since the load, ...
TickStore ==
    /\ tick = "store"
    /\ TVOX' = loaded - 1
    /\ undone' = (undone \/ TVOX # loaded)
    /\ tick' = "test"
    /\ UNCHANGED <<fVOX, ptt, loaded, main, loud, quiet>>

\* Mutant: the count before the decrement is compared with zero.
RetestBefore ==
    /\ tick = "test"
    /\ tick' = IF loaded = 0 THEN "raise" ELSE "sleep"
    /\ UNCHANGED <<TVOX, fVOX, ptt, loaded, main, loud, quiet, undone>>

\* ... if (TVOX==0), of the register or of the variable, ...
TickRetest ==
    /\ tick = "test"
    /\ \E left \in {loaded - 1, TVOX} : tick' = IF left = 0 THEN "raise" ELSE "sleep"
    /\ UNCHANGED <<TVOX, fVOX, ptt, loaded, main, loud, quiet, undone>>

\* ... and fVOX=1, which overtakes a restart since the test.
TickRaise ==
    /\ tick = "raise"
    /\ fVOX' = 1
    /\ undone' = (undone \/ TVOX # 0)
    /\ tick' = "sleep"
    /\ UNCHANGED <<TVOX, ptt, loaded, main, loud, quiet>>

Timer == TickTest \/ TickLoad \/ TickStore \/ TickRetest \/ TickRaise

-----------------------------------------------------------------------------
(* The main loop, after a block of audio has been read.                    *)

\* A block arrives, and its gain is compared with the threshold.
Read(l) ==
    /\ main = "read"
    /\ loud' = l
    /\ main' = IF l = 1 THEN "refresh" ELSE "check"
    /\ UNCHANGED <<TVOX, fVOX, ptt, tick, loaded, quiet, undone>>

\* TVOX=vox_timeout
Refresh ==
    /\ main = "refresh"
    /\ TVOX' = Timeout
    /\ quiet' = 0
    /\ main' = "clear"
    /\ UNCHANGED <<fVOX, ptt, tick, loaded, loud, undone>>

\* Mutant: an expiry that has not been handled survives the restart.
ClearForgotten ==
    /\ main = "clear"
    /\ main' = "key"
    /\ UNCHANGED <<TVOX, fVOX, ptt, tick, loaded, loud, quiet, undone>>

\* fVOX=0
Clear ==
    /\ main = "clear"
    /\ fVOX' = 0
    /\ main' = "key"
    /\ UNCHANGED <<TVOX, ptt, tick, loaded, loud, quiet, undone>>

\* if (autoPTT && PTT==false) setPTT(true)
KeyOn ==
    /\ main = "key"
    /\ ptt' = 1
    /\ main' = "check"
    /\ UNCHANGED <<TVOX, fVOX, tick, loaded, loud, quiet, undone>>

\* Mutant: the countdown is reset whenever the expiry is handled.
CheckResets ==
    /\ main = "check"
    /\ fVOX' = 0
    /\ TVOX' = 0
    /\ main' = IF fVOX = 1 THEN "unkey" ELSE "read"
    /\ UNCHANGED <<ptt, tick, loaded, loud, quiet, undone>>

\* Mutant: an expiry that is found under a loud block is dropped.
CheckDropsLoud ==
    /\ main = "check"
    /\ fVOX' = 0
    /\ main' = IF fVOX = 1 /\ loud = 0 THEN "unkey" ELSE "read"
    /\ UNCHANGED <<TVOX, ptt, tick, loaded, loud, quiet, undone>>

\* if (fVOX==1) { fVOX=0; ...
Check ==
    /\ main = "check"
    /\ fVOX' = 0
    /\ main' = IF fVOX = 1 THEN "unkey" ELSE "read"
    /\ UNCHANGED <<TVOX, ptt, tick, loaded, loud, quiet, undone>>

\* ... if (autoPTT && PTT==true) setPTT(false); }
KeyOff ==
    /\ main = "unkey"
    /\ ptt' = 0
    /\ main' = "read"
    /\ UNCHANGED <<TVOX, fVOX, tick, loaded, loud, quiet, undone>>

MainStep == (\E l \in {0, 1} : Read(l)) \/ Refresh \/ Clear \/ KeyOn \/ Check \/ KeyOff

Next == Timer \/ MainStep

\* Both threads are scheduled, and audio keeps coming.
Spec == Init /\ [][Next]_vars /\ WF_vars(Timer) /\ WF_vars(MainStep)

-----------------------------------------------------------------------------

\* An expiry that the timer thread has found and not yet raised.
Expiring == tick \in {"test", "raise"} /\ TVOX = 0

\* However the two threads interleave, as long as no tick has undone a
\* restart the transmitter is never keyed without something that will unkey
\* it: the countdown is running, or its expiry is about to be raised or
\* handled.
WillUnkey ==
    ~undone /\ ptt = 1 =>
        TVOX > 0 \/ Expiring \/ fVOX = 1 \/ main \in {"clear", "key", "unkey"}

\* Nor is speech cut: the transmitter is unkeyed only after a whole timeout
\* without voice, counting the tick that was under way when it began.
Held == ~undone /\ main = "unkey" => quiet >= Timeout - 1

\* When no voice comes any more, the transmitter is unkeyed.
Released == <>[](loud = 0) => <>[](ptt = 0)

\* It is, unless a tick undoes a restart.
ReleasedInTime == <>undone \/ Released

\* While the tick is between its accesses the countdown is running, whatever
\* the main loop does meanwhile: it never stores a number below zero, which
\* would take a lifetime to come back to zero.
RunsWhileTicking == tick \in {"load", "store"} => TVOX > 0
=============================================================================
