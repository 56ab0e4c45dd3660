-------------------------- MODULE PttMailboxProofs --------------------------
(***************************************************************************)
(* What the mailbox preserves, step by step, and what that means for it    *)
(* alone.  Facts that need the stores in program order say so in their     *)
(* hypothesis; the others hold in either memory model.                     *)
(***************************************************************************)
EXTENDS PttMailbox, TLAPS

USE MaxPostsAssumption

\* What both memory models preserve: the mailbox holds a request that was
\* made, and the generator has not run ahead of it.
OrderInv == MailboxTypeOK /\ applied <= signal /\ signal <= posted

LEMMA OrderInit == MailboxInit => OrderInv
BY DEF MailboxInit, OrderInv, MailboxTypeOK

LEMMA OrderStep == OrderInv /\ [MailboxNext]_mailboxVars => OrderInv'
<1> SUFFICES ASSUME OrderInv, [MailboxNext]_mailboxVars
             PROVE  OrderInv'
  OBVIOUS
<1> USE DEF OrderInv, MailboxTypeOK
<1>1. CASE SetPTT
  BY <1>1 DEF SetPTT
<1>2. CASE SignalVisible
  BY <1>2 DEF SignalVisible
<1>3. CASE FlagVisible
  BY <1>3 DEF FlagVisible
<1>4. CASE PollEmpty
  BY <1>4 DEF PollEmpty, mailboxVars
<1>5. CASE TakeFlag
  BY <1>5 DEF TakeFlag
<1>6. CASE ClearVisible
  BY <1>6 DEF ClearVisible
<1>7. CASE LoadSignal
  BY <1>7 DEF LoadSignal
<1>8. CASE UNCHANGED mailboxVars
  BY <1>8 DEF mailboxVars
<1> QED
  BY <1>1, <1>2, <1>3, <1>4, <1>5, <1>6, <1>7, <1>8
  DEF MailboxNext, Controller, Generator

\* The generator never turns to an older request nor to one never made.
LEMMA NeverOlderStep ==
  OrderInv /\ [MailboxNext]_mailboxVars
    => [applied' >= applied /\ applied' <= posted]_applied
<1> SUFFICES ASSUME OrderInv, [MailboxNext]_mailboxVars, applied' # applied
             PROVE  applied' >= applied /\ applied' <= posted
  OBVIOUS
<1>1. LoadSignal
  BY DEF MailboxNext, Controller, Generator, SetPTT, SignalVisible, FlagVisible,
         PollEmpty, TakeFlag, ClearVisible, mailboxVars
<1> QED
  BY <1>1 DEF LoadSignal, OrderInv, MailboxTypeOK

(***************************************************************************)
(* With stores in program order MailboxInv is inductive.  NoLostRequest    *)
(* alone is not: it says nothing of the states in which a request is being *)
(* posted or taken.                                                        *)
(***************************************************************************)
LEMMA MailboxInvInit == MailboxInit => MailboxInv
BY DEF MailboxInit, MailboxInv, MailboxTypeOK, SignalFresh, FlagFollows, ClearInOrder,
       NoLostRequest, Quiescent

LEMMA MailboxInvStep ==
  ASSUME Relaxed = FALSE
  PROVE  MailboxInv /\ [MailboxNext]_mailboxVars => MailboxInv'
<1> USE DEF MailboxInv, MailboxTypeOK, SignalFresh, FlagFollows, ClearInOrder,
            NoLostRequest, Quiescent
<1> SUFFICES ASSUME MailboxInv, [MailboxNext]_mailboxVars
             PROVE  MailboxInv'
  OBVIOUS
<1>1. CASE SetPTT
  BY <1>1 DEF SetPTT
<1>2. CASE SignalVisible
  BY <1>2 DEF SignalVisible
<1>3. CASE FlagVisible
  BY <1>3 DEF FlagVisible
<1>4. CASE PollEmpty
  BY <1>4 DEF PollEmpty, mailboxVars
<1>5. CASE TakeFlag
  BY <1>5 DEF TakeFlag
<1>6. CASE ClearVisible
  BY <1>6 DEF ClearVisible
<1>7. CASE LoadSignal
  BY <1>7 DEF LoadSignal
<1>8. CASE UNCHANGED mailboxVars
  BY <1>8 DEF mailboxVars
<1> QED
  BY <1>1, <1>2, <1>3, <1>4, <1>5, <1>6, <1>7, <1>8
  DEF MailboxNext, Controller, Generator

\* No PTT request is lost when the stores of genSSB::setPTT() and of the poll
\* in genSSB.cpp take effect in program order.
THEOREM NoRequestLost ==
  ASSUME Relaxed = FALSE
  PROVE  MailboxSpec => []NoLostRequest
<1>1. MailboxInv => NoLostRequest
  BY DEF MailboxInv
<1> QED
  BY <1>1, MailboxInvInit, MailboxInvStep, PTL DEF MailboxSpec
=============================================================================
