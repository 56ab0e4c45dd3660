----------------------------- MODULE PttMailbox -----------------------------
(***************************************************************************)
(* The push-to-talk mailbox of genSSB: two fields of a SysV shared memory  *)
(* segment, ptt_signal and ptt_flag.  The controller process (class genSSB *)
(* in lib/genSSB.h) stores the signal and then raises the flag; the        *)
(* generator process (lib/genSSB.cpp) polls the flag between two blocks of *)
(* audio, lowers it and then loads the signal.  There is no lock, no       *)
(* atomic and no volatile: the two stores of a post, and the generator's   *)
(* store to the flag and its load of the signal, are ordinary accesses to  *)
(* different addresses.  The VOX mailbox (vox_flag, vox_signal) runs the   *)
(* same protocol in the opposite direction.                                *)
(*                                                                         *)
(* A request is identified by its number, so that a stale value can be     *)
(* told from a fresh one even when both say "transmit".                    *)
(***************************************************************************)
EXTENDS Naturals

CONSTANTS
    MaxPosts,            \* bound: requests the controller makes
    Relaxed              \* TRUE: stores may become visible late, as the
                         \* compiler and the processor allow for plain
                         \* variables; FALSE: in program order

ASSUME MaxPostsAssumption == MaxPosts \in Nat
ASSUME RelaxedAssumption == Relaxed \in BOOLEAN

VARIABLES
    flag,                \* sharedmem->ptt_flag
    signal,              \* sharedmem->ptt_signal, as a request number
    posted,              \* the controller's last request
    pending,             \* the controller's stores not yet visible
    poll,                \* "load" once the generator saw the flag, until it
                         \* has loaded the signal; "idle" otherwise
    clearing,            \* the generator's stores (of ptt_flag) not yet visible
    applied              \* the request the generator last handed to setPTT()

mailboxVars == <<flag, signal, posted, pending, poll, clearing, applied>>

MailboxInit ==
    /\ flag = 0
    /\ signal = 0
    /\ posted = 0
    /\ pending = {}
    /\ poll = "idle"
    /\ clearing = {}
    /\ applied = 0

-----------------------------------------------------------------------------
(* The controller: genSSB::setPTT().                                       *)

\* setPTT() issues its two stores.  Calls are at least one main loop apart,
\* so the stores of the previous call are visible before the next.
SetPTT ==
    /\ pending = {}
    /\ posted < MaxPosts
    /\ posted' = posted + 1
    /\ pending' = {"signal", "flag"}
    /\ UNCHANGED <<flag, signal, poll, clearing, applied>>

\* ptt_signal=v reaches the memory.
SignalVisible ==
    /\ "signal" \in pending
    /\ signal' = posted
    /\ pending' = pending \ {"signal"}
    /\ UNCHANGED <<flag, posted, poll, clearing, applied>>

\* Mutant: the flag is raised before the signal is stored.
FlagFirst ==
    /\ "flag" \in pending
    /\ flag' = 1
    /\ pending' = pending \ {"flag"}
    /\ UNCHANGED <<signal, posted, poll, clearing, applied>>

\* ptt_flag=1 reaches the memory, after the signal unless reordered.
FlagVisible ==
    /\ "flag" \in pending
    /\ Relaxed \/ "signal" \notin pending
    /\ flag' = 1
    /\ pending' = pending \ {"flag"}
    /\ UNCHANGED <<signal, posted, poll, clearing, applied>>

-----------------------------------------------------------------------------
(* The generator: the mailbox poll of main().                              *)

\* ptt_flag is seen down: straight on to the audio block.
PollEmpty == poll = "idle" /\ (flag = 0 \/ clearing # {}) /\ UNCHANGED mailboxVars

\* ptt_flag is seen set and ptt_flag=0 is issued.  The generator sees its
\* own pending store, so it does not take the same flag twice.
TakeFlag ==
    /\ poll = "idle" /\ clearing = {}
    /\ flag = 1
    /\ poll' = "load"
    /\ clearing' = {"flag"}
    /\ UNCHANGED <<flag, signal, posted, pending, applied>>

\* ptt_flag=0 reaches the memory.
ClearVisible ==
    /\ "flag" \in clearing
    /\ flag' = 0
    /\ clearing' = {}
    /\ UNCHANGED <<signal, posted, pending, poll, applied>>

\* Mutant: the signal is used first and the flag lowered afterwards.
LoadBeforeClear ==
    /\ poll = "load"
    /\ applied' = signal
    /\ poll' = "idle"
    /\ UNCHANGED <<flag, signal, posted, pending, clearing>>

\* ptt_signal is loaded and handed to setPTT(), after the store to the flag
\* unless the load overtakes it.
LoadSignal ==
    /\ poll = "load"
    /\ Relaxed \/ clearing = {}
    /\ applied' = signal
    /\ poll' = "idle"
    /\ UNCHANGED <<flag, signal, posted, pending, clearing>>

-----------------------------------------------------------------------------
Controller == SetPTT \/ SignalVisible \/ FlagVisible

Generator == PollEmpty \/ TakeFlag \/ ClearVisible \/ LoadSignal

MailboxNext == Controller \/ Generator

\* A store becomes visible eventually and both processes keep running their
\* loops (the generator's fread() of the sound card returns every 21 ms).
\* The operator need not press PTT: SetPTT is not fair.
MailboxFairness ==
    /\ WF_mailboxVars(SignalVisible)
    /\ WF_mailboxVars(FlagVisible)
    /\ WF_mailboxVars(Generator)

MailboxSpec == MailboxInit /\ [][MailboxNext]_mailboxVars /\ MailboxFairness

-----------------------------------------------------------------------------
MailboxTypeOK ==
    /\ flag \in {0, 1}
    /\ signal \in 0..MaxPosts
    /\ posted \in 0..MaxPosts
    /\ pending \in SUBSET {"signal", "flag"}
    /\ poll \in {"idle", "load"}
    /\ clearing \in SUBSET {"flag"}
    /\ applied \in 0..MaxPosts

\* Nothing in flight: the controller's stores are visible, the flag is down
\* and the generator is outside the poll.
Quiescent == pending = {} /\ flag = 0 /\ poll = "idle"

\* A request is never lost: once nothing is in flight the generator obeys
\* the newest request.  The flag raised by setPTT() (genSSB.h) while the
\* generator is between lowering it and loading the signal must survive, or
\* the transmitter stays keyed after the operator releases PTT.
NoLostRequest == Quiescent => applied = posted

-----------------------------------------------------------------------------
(* The inductive invariant behind NoLostRequest, for program order.        *)

\* The signal is the newest request once its store is visible.
SignalFresh == "signal" \notin pending => signal = posted

\* The flag follows the signal into memory.
FlagFollows == "signal" \in pending => "flag" \in pending

\* Only the generator lowers the flag, so it is still up when the store
\* that lowers it becomes visible, and that store precedes the load.
ClearInOrder == clearing # {} => flag = 1 /\ poll = "load"

MailboxInv ==
    /\ MailboxTypeOK
    /\ SignalFresh
    /\ FlagFollows
    /\ ClearInOrder
    /\ NoLostRequest
=============================================================================
