------------------------------- MODULE FT8Qso -------------------------------
(***************************************************************************)
(* The FT8 contact (QSO) automaton of lib/demo_decodeFT8.cpp.  The decoder *)
(* reports a slot of 15 s in three kinds of lines: a header when the slot  *)
(* begins, a line for each message heard in it, and an end marker.  A      *)
(* header starts the transmission that waits for its slot; the end marker  *)
(* runs the handler of the automaton's state on the messages heard.  The   *)
(* operator's keys are looked at only while there is no QSO.               *)
(*                                                                         *)
(* Lines get lost: main() cuts what it has read at the newlines with       *)
(* strtok(), and the parsing of the first line uses strtok() too, so that  *)
(* the rest of what was read is forgotten.  Headers, messages and end      *)
(* markers therefore come in any order here, any of them missing, and a    *)
(* header may be cut short where what was read ends.                       *)
(***************************************************************************)
EXTENDS Naturals, Sequences

CONSTANTS
    Stations,            \* the calls of the others
    MaxHeard             \* bound: messages kept of a slot

ASSUME StationsAssumption == "CQ" \notin Stations /\ "me" \notin Stations
ASSUME MaxHeardAssumption == MaxHeard \in Nat

VARIABLES
    fsm,                 \* ft8_qso->FSM
    hiscall,             \* ft8_qso->hiscall
    myslot,              \* ft8_qso->myslot
    cnt,                 \* ft8_qso->cnt
    lastsent,            \* ft8_qso->lastsent
    queue,               \* queueFT8, from nextPop to nextPush
    sending,             \* whom the message that fthread sends is for
    slot,                \* ft8_header->slot
    newheader,           \* ft8_header->newheader
    heard,               \* ft8_msg, the first nmsg
    sent                 \* transmissions started since the QSO began

qso == <<fsm, hiscall, myslot, cnt, lastsent>>
slots == <<slot, newheader, heard>>
vars == <<fsm, hiscall, myslot, cnt, lastsent, queue, sending, slot, newheader,
          heard, sent>>

None == ""
Slots == {0, 1}

\* t1, t2 and t3 of a message: to whom, from whom, and what.
Calls == [to : {"CQ"}, from : Stations, says : {"grid"}]
Answers == [to : {"me"}, from : Stations, says : {"report", "RRR"}]
Others == {c \in [to : Stations, from : Stations, says : {"report"}] : c.to # c.from}
Heard == [slot : Slots, msg : Calls \cup Answers \cup Others]

Sayings == {"grid", "report", "RR73"}
Frames == [to : Stations \cup {"CQ", None}, says : Sayings \cup {None}]

Tries == 4

Init ==
    /\ fsm = 0
    /\ hiscall = None
    /\ myslot = 0
    /\ cnt = 0
    /\ lastsent = [to |-> None, says |-> None]
    /\ queue = <<>>
    /\ sending = None
    /\ slot = 0
    /\ newheader = FALSE
    /\ heard = <<>>
    /\ sent = 0

-----------------------------------------------------------------------------
(* The queue, and the transmitter thread.                                  *)

\* clearQueue(), where the handler does it, and pushQueue().
Say(waiting, frame, s) ==
    /\ lastsent' = frame
    /\ queue' = Append(waiting, [slot |-> s, frame |-> frame])

\* sendFT8(), at every header: the waiting message goes out in its slot,
\* unless the thread still sends the one before.
Send(s) ==
    IF sending = None /\ queue # <<>> /\ Head(queue).slot = s
    THEN /\ queue' = Tail(queue)
         /\ sending' = Head(queue).frame.to
         /\ sent' = sent + 1
    ELSE UNCHANGED <<queue, sending, sent>>

\* startProcess(): the transmission, or its failure, ends the thread.
Sent ==
    /\ sending # None
    /\ sending' = None
    /\ UNCHANGED <<qso, queue, slots, sent>>

-----------------------------------------------------------------------------
(* The handlers.                                                           *)

\* Mutant: a message is retried although one is waiting already.
RetryAlways ==
    /\ cnt' = cnt - 1
    /\ fsm' = IF cnt = 1 THEN 0 ELSE fsm
    /\ Say(IF cnt = 1 THEN <<>> ELSE queue, lastsent, myslot)
    /\ UNCHANGED <<hiscall, myslot>>

\* Mutant: the tries are compared before they are counted down.
RetryLate ==
    \/ queue # <<>> /\ UNCHANGED <<qso, queue>>
    \/ /\ queue = <<>>
       /\ cnt' = cnt - 1
       /\ fsm' = IF cnt = 0 THEN 0 ELSE fsm
       /\ Say(queue, lastsent, myslot)
       /\ UNCHANGED <<hiscall, myslot>>

\* Mutant: a retry is not counted.
RetryUncounted ==
    \/ queue # <<>> /\ UNCHANGED <<qso, queue>>
    \/ /\ queue = <<>>
       /\ Say(<<>>, lastsent, myslot)
       /\ UNCHANGED <<fsm, cnt, hiscall, myslot>>

\* retryFT8(): when nothing waits the last message is sent again; it is so
\* once more after the last try, when the QSO is already given up.
Retry ==
    \/ queue # <<>> /\ UNCHANGED <<qso, queue>>
    \/ /\ queue = <<>>
       /\ cnt' = cnt - 1
       /\ fsm' = IF cnt = 1 THEN 0 ELSE fsm
       /\ Say(queue, lastsent, myslot)
       /\ UNCHANGED <<hiscall, myslot>>

Abandon ==
    /\ fsm' = 0
    /\ queue' = <<>>
    /\ UNCHANGED <<hiscall, myslot, cnt, lastsent>>

\* The partner's message is answered and the QSO goes on in state next.
Advance(next, says) ==
    /\ fsm' = next
    /\ Say(<<>>, [to |-> hiscall, says |-> says], myslot)
    /\ UNCHANGED <<hiscall, myslot, cnt>>

\* handleStartQSO(): a CQ of the list is answered in the other slot.
StartQSO(call) ==
    /\ fsm' = 1
    /\ hiscall' = call.msg.from
    /\ myslot' = 1 - call.slot
    /\ cnt' = Tries
    /\ Say(<<>>, [to |-> call.msg.from, says |-> "grid"], 1 - call.slot)

\* handleCQ(): a call to everybody, in the slot of the header.
CallCQ ==
    /\ fsm' = 4
    /\ hiscall' = None
    /\ myslot' = slot
    /\ cnt' = Tries
    /\ Say(<<>>, [to |-> "CQ", says |-> "grid"], slot)

\* The list the handlers see: the first line after a header empties it.
List == IF newheader THEN <<>> ELSE heard

\* The message that decides is the first of those the handler looks for.
IsFirst(i, hits) == i \in hits /\ \A j \in hits : i <= j

FromHim == {i \in DOMAIN List : List[i].msg.from = hiscall}
ToMe == {i \in DOMAIN List : List[i].msg.to = "me"}
Acknowledged == {i \in FromHim \cap ToMe : List[i].msg.says = "RRR"}

\* Mutant: his silence is waited out.
HandleReplyWaits ==
    \/ FromHim = {} /\ UNCHANGED <<qso, queue>>
    \/ \E i \in FromHim :
          /\ IsFirst(i, FromHim)
          /\ \/ List[i].msg.to = "CQ" /\ Retry
             \/ List[i].msg.to = "me" /\ Advance(2, "report")
             \/ List[i].msg.to \in Stations /\ Abandon

\* handleReply(), after the answer to his CQ.
HandleReply ==
    \/ FromHim = {} /\ Retry
    \/ \E i \in FromHim :
          /\ IsFirst(i, FromHim)
          /\ \/ List[i].msg.to = "CQ" /\ Retry
             \/ List[i].msg.to = "me" /\ Advance(2, "report")
             \/ List[i].msg.to \in Stations /\ Abandon

\* handleRRR(), after the report.  A repeated report of his is neither
\* answered nor counted.
HandleRRR ==
    \/ FromHim = {} /\ Retry
    \/ \E i \in FromHim :
          /\ IsFirst(i, FromHim)
          /\ \/ i \in Acknowledged /\ Advance(0, "RR73")
             \/ i \in ToMe \ Acknowledged /\ UNCHANGED <<qso, queue>>
             \/ i \notin ToMe /\ Abandon

\* handleExch(), after a CQ of ours: whoever answers first is the partner.
HandleExch ==
    \/ ToMe = {} /\ Retry
    \/ \E i \in ToMe :
          /\ IsFirst(i, ToMe)
          /\ fsm' = 5
          /\ hiscall' = List[i].msg.from
          /\ Say(<<>>, [to |-> List[i].msg.from, says |-> "report"], myslot)
          /\ UNCHANGED <<myslot, cnt>>

\* Mutant: whoever writes to me is taken for the partner.
Handle73Anybody ==
    \/ ToMe = {} /\ Retry
    \/ \E i \in ToMe :
          /\ IsFirst(i, ToMe)
          /\ fsm' = 6
          /\ Say(<<>>, [to |-> List[i].msg.from, says |-> "RR73"], myslot)
          /\ UNCHANGED <<hiscall, myslot, cnt>>

\* handle73(), after the report that answers him.
Handle73 ==
    \/ FromHim \cap ToMe = {} /\ Retry
    \/ FromHim \cap ToMe # {} /\ Advance(6, "RR73")

\* handleTU(), after our RR73.
HandleTU ==
    \/ Acknowledged = {} /\ Retry
    \/ Acknowledged # {} /\ Abandon

\* qsoMachine()
Handle ==
    \/ fsm = 0 /\ UNCHANGED <<qso, queue>>
    \/ fsm = 1 /\ HandleReply
    \/ fsm = 2 /\ HandleRRR
    \/ fsm = 4 /\ HandleExch
    \/ fsm = 5 /\ Handle73
    \/ fsm = 6 /\ HandleTU

-----------------------------------------------------------------------------
(* The lines of the decoder, and the keys.                                 *)

\* Mutant: the slot is not looked at.
HeaderAnySlot(s) ==
    /\ slot' = s
    /\ newheader' = TRUE
    /\ Send(IF queue = <<>> THEN s ELSE Head(queue).slot)
    /\ UNCHANGED <<qso, heard>>

Header(s) ==
    /\ slot' = s
    /\ newheader' = TRUE
    /\ Send(s)
    /\ UNCHANGED <<qso, heard>>

\* A header cut short, by the end of what was read, is a header to
\* processFrame(), but parseHeader() returns before sendFT8(), perhaps before
\* it has the slot.
HeaderCut(s) ==
    /\ slot' = s
    /\ newheader' = TRUE
    /\ UNCHANGED <<qso, queue, sending, heard, sent>>

\* A message is listed, with the slot of the last header.
Message(m) ==
    /\ Len(List) < MaxHeard
    /\ newheader' = FALSE
    /\ heard' = Append(List, [slot |-> slot, msg |-> m])
    /\ UNCHANGED <<qso, queue, sending, slot, sent>>

\* A line that is not listed: it is corrupted, or its sender is me.
Ignored ==
    /\ newheader
    /\ newheader' = FALSE
    /\ heard' = <<>>
    /\ UNCHANGED <<qso, queue, sending, slot, sent>>

\* The end marker.
End ==
    /\ newheader' = FALSE
    /\ heard' = List
    /\ Handle
    /\ UNCHANGED <<sending, slot, sent>>

\* selectQSO() and findQSO(): the lines that the operator can choose.
Offered == {i \in DOMAIN heard : heard[i].msg.to = "CQ"}

\* main() looks at the key pressed last, during a QSO perhaps, when there is
\* none: C calls CQ, and a digit answers a call of the list as it is now.
\* (Z would cancel a QSO: it finds none.)
TakeKey ==
    /\ fsm = 0
    /\ \/ CallCQ
       \/ \E i \in Offered : StartQSO(heard[i])
    /\ sent' = 0
    /\ UNCHANGED <<sending, slots>>

Next ==
    \/ \E s \in Slots : Header(s) \/ HeaderCut(s)
    \/ \E m \in Calls \cup Answers \cup Others : Message(m)
    \/ Ignored
    \/ End
    \/ Sent
    \/ TakeKey

\* The decoder keeps writing headers for slots of both kinds, and a
\* transmission takes a finite time.  Nobody has to transmit, the operator need
\* not press a key, and there need not be an end marker: the decoder writes one
\* only after a slot in which it has decoded something.
Fairness ==
    /\ \A s \in Slots : WF_vars(Header(s))
    /\ WF_vars(Sent)

Spec == Init /\ [][Next]_vars /\ Fairness

-----------------------------------------------------------------------------

\* Every variable has its type, no matter which lines are lost.
TypeOK ==
    /\ fsm \in {0, 1, 2, 4, 5, 6}
    /\ hiscall \in Stations \cup {None}
    /\ myslot \in Slots
    /\ cnt \in 0 .. Tries
    /\ lastsent \in Frames
    /\ queue \in Seq([slot : Slots, frame : Frames])
    /\ sending \in Stations \cup {"CQ", None}
    /\ slot \in Slots
    /\ newheader \in BOOLEAN
    /\ heard \in Seq(Heard) /\ Len(heard) <= MaxHeard
    /\ sent \in Nat

\* One message waits at most, and it is the last one composed, for the slot
\* that is ours in this QSO: nothing of an earlier QSO or of an earlier stage
\* is left in the queue, and its ring never wraps.
OneWaiting ==
    \/ queue = <<>>
    \/ queue = <<[slot |-> myslot, frame |-> lastsent]>>

\* In a QSO what is sent, and sent again, is addressed to the partner, or to
\* everybody while there is none.
SpeaksToPartner ==
    /\ fsm \in {1, 2, 5, 6} => hiscall \in Stations /\ lastsent.to = hiscall
    /\ fsm = 4 => lastsent.to = "CQ"

\* A QSO that goes on has tries left, so that the count, which is compared
\* with zero only, cannot miss it.
TriesLeft == fsm # 0 => cnt \in 1 .. Tries

\* Whatever is heard, and whatever lines are lost, a QSO costs at most three
\* messages and four retries.
CallsBounded == sent <= 3 + Tries

\* The automaton implements the contacts that FT8Contact describes: whatever
\* lines are lost and whoever writes, each transmission is for the partner of
\* the contact, in the slot that is ours, within what a contact may cost.
Contact == INSTANCE FT8Contact
    WITH Most <- 3 + Tries, busy <- fsm # 0, partner <- lastsent.to, mine <- myslot,
         due <- queue # <<>>, now <- slot, air <- sending, calls <- sent
ImplementsContact == Contact!Spec

\* Somebody is heard again and again, so that end markers come: one that would
\* change something is not missing for ever.
BandAlive == WF_vars(End)

\* The partner is silent.
Quiet == \A i \in DOMAIN heard : heard[i].msg.to # "me"

\* A QSO whose partner falls silent is given up, as long as the band is not
\* silent altogether: then no end marker comes and no try is counted.
SilenceEndsQso == BandAlive /\ <>[]Quiet => []<>(fsm = 0)

-----------------------------------------------------------------------------
(* What the source says and the code does not do.                          *)

\* "mycall hiscall *, retry": a partner who repeats himself gets the last
\* message again, until the tries are used up.
EveryQsoEnds == BandAlive => []<>(fsm = 0)
=============================================================================
