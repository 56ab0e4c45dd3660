--------------------------- MODULE VoxKeyerProofs ---------------------------
(***************************************************************************)
(* What the keying by voice promises for every timeout and however the     *)
(* accesses of the timer thread and of the main loop interleave, as long   *)
(* as no tick has undone a restart of the countdown; and what holds even   *)
(* then.                                                                   *)
(***************************************************************************)
EXTENDS VoxKeyer, TLAPS

USE TimeoutAssumption

\* What the accesses of a tick may rely on whatever the main loop does.
TickSound ==
    /\ TypeOK
    /\ RunsWhileTicking
    /\ tick # "sleep" => loaded > 0

LEMMA TickSoundInit == Init => TickSound
<1> SUFFICES ASSUME Init PROVE TickSound
    OBVIOUS
<1>1. undone \in BOOLEAN
    BY DEF Init
<1> QED
    BY <1>1 DEF Init, TickSound, TypeOK, RunsWhileTicking

LEMMA TickSoundStep == TickSound /\ [Next]_vars => TickSound'
<1> SUFFICES ASSUME TickSound, [Next]_vars PROVE TickSound'
    OBVIOUS
<1> USE DEF TickSound, TypeOK, RunsWhileTicking
<1>1. CASE TickTest BY <1>1 DEF TickTest, Elapses
<1>2. CASE TickLoad BY <1>2 DEF TickLoad
<1>3. CASE TickStore BY <1>3 DEF TickStore
<1>4. CASE TickRetest BY <1>4 DEF TickRetest
<1>5. CASE TickRaise BY <1>5 DEF TickRaise
<1>6. CASE \E l \in {0, 1} : Read(l) BY <1>6 DEF Read
<1>7. CASE Refresh BY <1>7 DEF Refresh
<1>8. CASE Clear BY <1>8 DEF Clear
<1>9. CASE KeyOn BY <1>9 DEF KeyOn
<1>10. CASE Check BY <1>10 DEF Check
<1>11. CASE KeyOff BY <1>11 DEF KeyOff
<1>12. CASE UNCHANGED vars BY <1>12 DEF vars
<1> QED
    BY <1>1, <1>2, <1>3, <1>4, <1>5, <1>6, <1>7, <1>8, <1>9, <1>10, <1>11, <1>12
    DEF Next, Timer, MainStep

\* timer_exec() never decrements a countdown that the main loop has stopped
\* meanwhile: whatever interleaving, it never wraps.
THEOREM RunsWhileTickingHolds == Spec => []RunsWhileTicking
<1>1. TickSound => RunsWhileTicking
    BY DEF TickSound
<1> QED
    BY <1>1, TickSoundInit, TickSoundStep, PTL DEF Spec

\* The countdown stays between zero and the timeout, however the threads
\* interleave.
THEOREM TypeHolds == Spec => []TypeOK
<1>1. TickSound => TypeOK
    BY DEF TickSound
<1> QED
    BY <1>1, TickSoundInit, TickSoundStep, PTL DEF Spec

-----------------------------------------------------------------------------

\* The countdown and the time since its restart add up to the timeout, but for
\* the tick in whose middle the restart fell, and for the one that is between
\* counting the time and counting down.
Balance ==
    IF tick \in {"load", "store"}
    THEN TVOX + quiet \in {Timeout, Timeout + 1}
    ELSE TVOX + quiet \in {Timeout - 1, Timeout}

\* An expiry, raised or about to be, belongs to a countdown that has run out,
\* and a countdown that has run out has one until it is handled.
Expiry ==
    /\ fVOX = 1 => TVOX = 0 \/ main = "clear"
    /\ tick = "test" /\ TVOX = 0 => loaded = 1
    /\ main = "unkey" => TVOX = 0
    /\ main = "key" => TVOX > 0 \/ Expiring \/ fVOX = 1
    /\ main = "clear" => TVOX > 0
    /\ main = "clear" /\ tick \in {"load", "store"} => TVOX > 1

\* The inductive invariant.
VoxInv ==
    /\ TickSound
    /\ ~undone => Balance /\ Expiry /\ WillUnkey

LEMMA VoxInvInit == Init => VoxInv
BY TickSoundInit DEF Init, VoxInv, Balance, Expiry, Expiring, TypeOK, WillUnkey

\* A tick counts a millisecond when it begins and counts down in its store.
LEMMA TimerKeepsVoxInv ==
    ASSUME VoxInv, Timer, ~undone'
    PROVE  Balance' /\ Expiry' /\ WillUnkey'
<1>0. ~undone
    BY Zenon DEF Timer, TickTest, TickLoad, TickStore, TickRetest, TickRaise
<1>1. /\ TypeOK /\ RunsWhileTicking /\ (tick # "sleep" => loaded > 0)
      /\ Balance /\ Expiry /\ WillUnkey
    BY <1>0 DEF VoxInv, TickSound
<1> USE <1>0, <1>1 DEF Balance, Expiry, Expiring, WillUnkey, TypeOK, RunsWhileTicking
<1>2. CASE TickTest BY <1>2 DEF TickTest, Elapses, MainInTime
<1>3. CASE TickLoad BY <1>3 DEF TickLoad
<1>4. CASE TickStore
    <2>1. TVOX = loaded
        BY <1>4, Zenon DEF TickStore
    <2> QED
        BY <1>4, <2>1 DEF TickStore
<1>5. CASE TickRetest BY <1>5 DEF TickRetest
<1>6. CASE TickRaise BY <1>6 DEF TickRaise
<1> QED
    BY <1>2, <1>3, <1>4, <1>5, <1>6 DEF Timer

\* The main loop restarts the countdown before it drops an expiry, and unkeys
\* for one that it has found.
LEMMA MainKeepsVoxInv ==
    ASSUME VoxInv, MainStep, ~undone'
    PROVE  Balance' /\ Expiry' /\ WillUnkey'
<1>0. ~undone
    BY DEF MainStep, Read, Refresh, Clear, KeyOn, Check, KeyOff
<1>1. TypeOK /\ RunsWhileTicking /\ Balance /\ Expiry /\ WillUnkey
    BY <1>0 DEF VoxInv, TickSound
<1> USE <1>0, <1>1 DEF Balance, Expiry, Expiring, WillUnkey, TypeOK, RunsWhileTicking
<1>2. CASE \E l \in {0, 1} : Read(l) BY <1>2 DEF Read
<1>3. CASE Refresh BY <1>3 DEF Refresh
<1>4. CASE Clear BY <1>4 DEF Clear
<1>5. CASE KeyOn BY <1>5 DEF KeyOn
<1>6. CASE Check BY <1>6 DEF Check
<1>7. CASE KeyOff BY <1>7 DEF KeyOff
<1> QED
    BY <1>2, <1>3, <1>4, <1>5, <1>6, <1>7 DEF MainStep

LEMMA VoxInvStep == VoxInv /\ [Next]_vars => VoxInv'
<1> SUFFICES ASSUME VoxInv, [Next]_vars PROVE VoxInv'
    OBVIOUS
<1>1. TickSound'
    BY TickSoundStep DEF VoxInv
<1>2. CASE UNCHANGED vars
    BY <1>1, <1>2 DEF vars, VoxInv, Balance, Expiry, Expiring, WillUnkey
<1> QED
    BY <1>1, <1>2, TimerKeepsVoxInv, MainKeepsVoxInv DEF VoxInv, Next

\* Until a tick undoes a restart, a transmitter keyed by voice always has a
\* running countdown, or an expiry to come or to be handled, that will unkey
\* it.
THEOREM WillUnkeyHolds == Spec => []WillUnkey
<1>1. VoxInv => WillUnkey
    BY DEF VoxInv, WillUnkey
<1> QED
    BY <1>1, VoxInvInit, VoxInvStep, PTL DEF Spec

\* Until a tick undoes a restart, speech is never cut: the transmitter is
\* unkeyed only a whole timeout after the last loud block.
THEOREM HeldHolds == Spec => []Held
<1>1. VoxInv => Held
    BY DEF VoxInv, TickSound, TypeOK, RunsWhileTicking, Balance, Expiry, Held
<1> QED
    BY <1>1, VoxInvInit, VoxInvStep, PTL DEF Spec

\* The expiry is not late either: between two ticks, with a whole timeout gone
\* since the last loud block, it has been raised for the main loop to handle.
ExpiryInTime ==
    ~undone /\ ptt = 1 /\ quiet = Timeout /\ tick = "sleep" =>
        fVOX = 1 \/ main \in {"key", "unkey"}

\* Until a tick undoes a restart, the timer thread raises the expiry of a keyed
\* transmitter no later than the tick that completes the timeout.
THEOREM ExpiryInTimeHolds == Spec => []ExpiryInTime
<1>1. VoxInv => ExpiryInTime
    BY DEF VoxInv, TickSound, TypeOK, Balance, Expiry, Expiring, WillUnkey, ExpiryInTime
<1> QED
    BY <1>1, VoxInvInit, VoxInvStep, PTL DEF Spec
=============================================================================
