---------------------------- MODULE FT8QsoProofs ----------------------------
(***************************************************************************)
(* What the FT8 automaton promises for every set of stations and every     *)
(* list of messages: no message of another QSO is left in the queue, only  *)
(* the partner is spoken to, and a QSO costs a bounded number of calls.    *)
(***************************************************************************)
EXTENDS FT8Qso, TLAPS

USE StationsAssumption, MaxHeardAssumption

\* The calls that the QSO has cost or may still cost: those sent, the one
\* that waits, and the tries that are left.  Each stage reached adds one.
Waiting == IF queue = <<>> THEN 0 ELSE 1
Left == IF fsm = 0 THEN 0 ELSE cnt
Stage == CASE fsm \in {1, 4} -> 1 [] fsm \in {2, 5} -> 2 [] OTHER -> 3
Budget == sent + Waiting + Left <= Tries + Stage

Addressed == [to : Stations \cup {"CQ"}, says : Sayings]

\* The part of the state that the handlers change, and what it keeps.
QsoOK ==
    /\ fsm \in {0, 1, 2, 4, 5, 6}
    /\ hiscall \in Stations \cup {None}
    /\ myslot \in Slots
    /\ cnt \in 0 .. Tries
    /\ lastsent \in Frames
    /\ sent \in Nat
    /\ OneWaiting
    /\ SpeaksToPartner
    /\ TriesLeft
    /\ Budget

\* The part that the decoder and the operator change.
LinesOK ==
    /\ sending \in Stations \cup {"CQ", None}
    /\ slot \in Slots
    /\ newheader \in BOOLEAN
    /\ heard \in Seq(Heard) /\ Len(heard) <= MaxHeard

IInv == QsoOK /\ LinesOK

LEMMA InitOK == Init => IInv
<1> SUFFICES ASSUME Init PROVE IInv
    OBVIOUS
<1>1. lastsent \in Frames
    BY DEF Init, Frames
<1>2. heard \in Seq(Heard) /\ Len(heard) <= MaxHeard
    BY DEF Init
<1>3. LinesOK
    BY <1>2 DEF Init, LinesOK, Slots
<1>4. Budget
    BY DEF Init, Budget, Waiting, Left, Stage, Tries
<1>5. OneWaiting /\ SpeaksToPartner /\ TriesLeft
    BY DEF Init, OneWaiting, SpeaksToPartner, TriesLeft
<1>6. QsoOK
    BY <1>1, <1>4, <1>5 DEF Init, QsoOK, Slots, Tries
<1> QED
    BY <1>3, <1>6 DEF IInv

\* The list the handlers see is a list of messages.
LEMMA ListType == LinesOK => List \in Seq(Heard) /\ Len(List) <= MaxHeard
BY DEF LinesOK, List

-----------------------------------------------------------------------------
(* What the handlers do to the QSO.                                        *)

\* A message said to the partner, or to all, at the start of the next stage.
LEMMA SayOK ==
    ASSUME QsoOK, NEW frame \in Addressed, NEW s \in Slots,
           Say(<<>>, frame, s), myslot' = s,
           fsm' \in {0, 1, 2, 4, 5, 6}, sent' \in Nat, cnt' \in 1 .. Tries,
           hiscall' \in Stations \cup {None},
           fsm' \in {1, 2, 5, 6} => hiscall' \in Stations /\ frame.to = hiscall',
           fsm' = 4 => frame.to = "CQ",
           sent' + 1 + Left' <= Tries + Stage'
    PROVE  QsoOK'
<1>1. lastsent' = frame /\ queue' = <<[slot |-> s, frame |-> frame]>>
    BY DEF Say
<1>2. lastsent' \in Frames
    BY <1>1 DEF Frames, Addressed
<1>3. Waiting' = 1
    BY <1>1 DEF Waiting
<1>4. OneWaiting'
    BY <1>1 DEF OneWaiting
<1>5. SpeaksToPartner'
    BY <1>1 DEF SpeaksToPartner
<1>6. TriesLeft'
    BY DEF TriesLeft
<1>7. Budget'
    BY <1>3 DEF Budget
<1> QED
    BY <1>2, <1>4, <1>5, <1>6, <1>7 DEF QsoOK, Tries

LEMMA RetryOK ==
    ASSUME QsoOK, fsm # 0, Retry, UNCHANGED sent
    PROVE  QsoOK'
<1>1. CASE queue # <<>>
    BY <1>1 DEF Retry, QsoOK, qso, OneWaiting, SpeaksToPartner, TriesLeft,
                Budget, Waiting, Left, Stage
<1>2. CASE queue = <<>>
    <2>1. /\ cnt' = cnt - 1 /\ fsm' = (IF cnt = 1 THEN 0 ELSE fsm)
          /\ lastsent' = lastsent
          /\ queue' = <<[slot |-> myslot, frame |-> lastsent]>>
          /\ UNCHANGED <<hiscall, myslot>>
        BY <1>2 DEF Retry, Say
    <2>2. cnt \in 1 .. Tries /\ sent + cnt <= Tries + Stage
        BY <1>2 DEF QsoOK, TriesLeft, Budget, Waiting, Left
    <2>3. OneWaiting'
        BY <2>1 DEF OneWaiting
    <2>4. SpeaksToPartner'
        BY <2>1 DEF QsoOK, SpeaksToPartner
    <2>5. TriesLeft'
        BY <2>1, <2>2 DEF TriesLeft, Tries
    <2>6. Budget'
        <3>1. Waiting' = 1
            BY <2>1 DEF Waiting
        <3>2. CASE cnt = 1
            <4>1. Left' = 0 /\ Stage' = 3
                BY <3>2, <2>1 DEF Left, Stage
            <4>2. Stage \in {1, 2, 3}
                BY DEF Stage
            <4> QED
                BY <3>1, <3>2, <4>1, <4>2, <2>2 DEF Budget, QsoOK, Tries
        <3>3. CASE cnt # 1
            <4>1. Left' = cnt - 1 /\ Stage' = Stage
                BY <3>3, <2>1 DEF Left, Stage
            <4>2. Stage \in {1, 2, 3}
                BY DEF Stage
            <4> QED
                BY <3>1, <4>1, <4>2, <2>2 DEF Budget, QsoOK, Tries
        <3> QED
            BY <3>2, <3>3
    <2> QED
        BY <2>1, <2>2, <2>3, <2>4, <2>5, <2>6 DEF QsoOK, Tries
<1> QED
    BY <1>1, <1>2

LEMMA AbandonOK ==
    ASSUME QsoOK, Abandon, UNCHANGED sent
    PROVE  QsoOK'
BY DEF QsoOK, Abandon, OneWaiting, SpeaksToPartner, TriesLeft, Budget, Waiting,
       Left, Stage, Tries

\* The next stage of a QSO with a partner.
LEMMA AdvanceOK ==
    ASSUME QsoOK, NEW next \in {0, 2, 6}, NEW says \in Sayings,
           Advance(next, says), UNCHANGED sent,
           \/ fsm = 1 /\ next = 2
           \/ fsm = 2 /\ next = 0
           \/ fsm = 5 /\ next = 6
    PROVE  QsoOK'
<1> DEFINE frame == [to |-> hiscall, says |-> says]
<1>1. hiscall \in Stations
    BY DEF QsoOK, SpeaksToPartner
<1>2. frame \in Addressed /\ frame.to = hiscall
    BY <1>1 DEF Addressed
<1>3. cnt \in 1 .. Tries
    BY DEF QsoOK, TriesLeft
<1>4. Say(<<>>, frame, myslot) /\ fsm' = next /\ UNCHANGED <<hiscall, myslot, cnt>>
    BY DEF Advance
<1>5. sent + cnt <= Tries + Stage
    <2>1. Waiting \in {0, 1} /\ Stage \in {1, 2, 3} /\ Left = cnt
        BY DEF Waiting, Stage, Left
    <2> QED
        BY <2>1, <1>3 DEF QsoOK, Budget, Tries
<1>6. sent' + 1 + Left' <= Tries + Stage'
    BY <1>3, <1>4, <1>5 DEF Left, Stage, QsoOK, Tries
<1> HIDE DEF frame
<1> QED
    BY <1>1, <1>2, <1>3, <1>4, <1>6, SayOK DEF QsoOK

-----------------------------------------------------------------------------
(* The handlers, and what starts a QSO.                                    *)

LEMMA HandleOK ==
    ASSUME IInv, Handle, UNCHANGED sent
    PROVE  QsoOK'
<1> USE DEF IInv
<1>1. \A i \in DOMAIN List : List[i] \in Heard
    BY ListType
<1>2. CASE fsm = 0 /\ UNCHANGED <<qso, queue>>
    BY <1>2 DEF QsoOK, qso, OneWaiting, SpeaksToPartner, TriesLeft, Budget,
                Waiting, Left, Stage
<1>3. CASE fsm = 1 /\ HandleReply
    BY <1>3, RetryOK, AbandonOK, AdvanceOK DEF HandleReply, Sayings
<1>4. CASE fsm = 2 /\ HandleRRR
    <2>1. CASE UNCHANGED <<qso, queue>>
        BY <2>1 DEF QsoOK, qso, OneWaiting, SpeaksToPartner, TriesLeft, Budget,
                    Waiting, Left, Stage
    <2> QED
        BY <1>4, <2>1, RetryOK, AbandonOK, AdvanceOK DEF HandleRRR, Sayings
<1>5. CASE fsm = 4 /\ HandleExch
    <2>1. CASE Retry
        BY <1>5, <2>1, RetryOK
    <2>2. ASSUME NEW i \in DOMAIN List, fsm' = 5, hiscall' = List[i].msg.from,
                 Say(<<>>, [to |-> List[i].msg.from, says |-> "report"], myslot),
                 UNCHANGED <<myslot, cnt>>
          PROVE  QsoOK'
        <3> DEFINE frame == [to |-> List[i].msg.from, says |-> "report"]
        <3>1. List[i].msg.from \in Stations
            BY <1>1 DEF Heard, Calls, Answers, Others
        <3>2. frame \in Addressed /\ frame.to = hiscall'
            BY <2>2, <3>1 DEF Addressed, Sayings
        <3>3. cnt \in 1 .. Tries /\ sent + cnt <= Tries + 1
            <4>1. Waiting \in {0, 1} /\ Stage = 1 /\ Left = cnt
                BY <1>5 DEF Waiting, Stage, Left
            <4> QED
                BY <1>5, <4>1 DEF QsoOK, Budget, TriesLeft, Tries
        <3>4. sent' + 1 + Left' <= Tries + Stage'
            BY <2>2, <3>3 DEF Left, Stage, QsoOK, Tries
        <3>5. Say(<<>>, frame, myslot)
            BY <2>2
        <3> HIDE DEF frame
        <3> QED
            BY <2>2, <3>1, <3>2, <3>3, <3>4, <3>5, SayOK DEF QsoOK
    <2> QED
        BY <1>5, <2>1, <2>2 DEF HandleExch, ToMe
<1>6. CASE fsm = 5 /\ Handle73
    BY <1>6, RetryOK, AdvanceOK DEF Handle73, Sayings
<1>7. CASE fsm = 6 /\ HandleTU
    BY <1>7, RetryOK, AbandonOK DEF HandleTU
<1> QED
    BY <1>2, <1>3, <1>4, <1>5, <1>6, <1>7 DEF Handle

\* A transmission moves the waiting message from the queue to the air.
LEMMA SendOK ==
    ASSUME IInv, NEW s \in Slots, Send(s), UNCHANGED qso
    PROVE  QsoOK' /\ sending' \in Stations \cup {"CQ", None}
<1> USE DEF IInv
<1>1. CASE UNCHANGED <<queue, sending, sent>>
    BY <1>1 DEF QsoOK, LinesOK, qso, OneWaiting, SpeaksToPartner, TriesLeft,
                Budget, Waiting, Left, Stage
<1>2. CASE /\ queue # <<>> /\ queue' = Tail(queue)
           /\ sending' = Head(queue).frame.to /\ sent' = sent + 1
    <2>1. queue = <<[slot |-> myslot, frame |-> lastsent]>>
        BY <1>2 DEF QsoOK, OneWaiting
    <2>2. queue' = <<>> /\ sending' = lastsent.to
        BY <1>2, <2>1
    <2>3. Waiting = 1 /\ Waiting' = 0 /\ Left' = Left /\ Stage' = Stage
        BY <1>2, <2>2 DEF Waiting, Left, Stage, qso
    <2>4. Stage \in {1, 2, 3} /\ Left \in Nat
        BY DEF Stage, Left, QsoOK, Tries
    <2>5. Budget'
        BY <1>2, <2>3, <2>4 DEF Budget, QsoOK, Tries
    <2>6. sending' \in Stations \cup {"CQ", None}
        BY <2>2 DEF QsoOK, Frames
    <2> QED
        BY <1>2, <2>2, <2>5, <2>6
        DEF QsoOK, qso, OneWaiting, SpeaksToPartner, TriesLeft
<1> QED
    BY <1>1, <1>2 DEF Send

LEMMA StartOK ==
    ASSUME IInv, NEW call \in Heard, call.msg.to = "CQ", StartQSO(call), sent' = 0
    PROVE  QsoOK'
<1> DEFINE frame == [to |-> call.msg.from, says |-> "grid"]
<1>1. call.msg.from \in Stations /\ call.slot \in Slots
    BY DEF Heard, Calls, Answers, Others
<1>2. frame \in Addressed /\ frame.to = call.msg.from
    BY <1>1 DEF Addressed, Sayings
<1>3. 1 - call.slot \in Slots
    BY <1>1 DEF Slots
<1>4. /\ fsm' = 1 /\ hiscall' = call.msg.from /\ myslot' = 1 - call.slot
      /\ cnt' = Tries /\ Say(<<>>, frame, 1 - call.slot)
    BY DEF StartQSO
<1>5. sent' + 1 + Left' <= Tries + Stage'
    BY <1>4 DEF Left, Stage, Tries
<1> HIDE DEF frame
<1>6. cnt' \in 1 .. Tries /\ sent' \in Nat
    BY <1>4 DEF Tries
<1> QED
    BY <1>1, <1>2, <1>3, <1>4, <1>5, <1>6, SayOK DEF IInv

LEMMA CallOK ==
    ASSUME IInv, CallCQ, sent' = 0
    PROVE  QsoOK'
<1> DEFINE frame == [to |-> "CQ", says |-> "grid"]
<1>1. frame \in Addressed /\ frame.to = "CQ"
    BY DEF Addressed, Sayings
<1>2. /\ fsm' = 4 /\ hiscall' = None /\ myslot' = slot
      /\ cnt' = Tries /\ Say(<<>>, frame, slot)
    BY DEF CallCQ
<1>3. slot \in Slots
    BY DEF IInv, LinesOK
<1>4. sent' + 1 + Left' <= Tries + Stage'
    BY <1>2 DEF Left, Stage, Tries
<1> HIDE DEF frame
<1>5. cnt' \in 1 .. Tries /\ sent' \in Nat
    BY <1>2 DEF Tries
<1> QED
    BY <1>1, <1>2, <1>3, <1>4, <1>5, SayOK DEF IInv

-----------------------------------------------------------------------------

LEMMA StepOK == IInv /\ [Next]_vars => IInv'
<1> SUFFICES ASSUME IInv, [Next]_vars PROVE IInv'
    OBVIOUS
<1> USE DEF IInv
<1>1. ASSUME UNCHANGED <<qso, queue, sent>> PROVE QsoOK'
    BY <1>1 DEF QsoOK, qso, OneWaiting, SpeaksToPartner, TriesLeft, Budget,
                Waiting, Left, Stage
<1>2. ASSUME NEW s \in Slots, Header(s) PROVE IInv'
    <2>1. QsoOK' /\ sending' \in Stations \cup {"CQ", None}
        BY <1>2, SendOK DEF Header
    <2> QED
        BY <1>2, <2>1 DEF Header, LinesOK
<1>2a. ASSUME NEW s \in Slots, HeaderCut(s) PROVE IInv'
    BY <1>1, <1>2a DEF HeaderCut, LinesOK
<1>3. ASSUME NEW m \in Calls \cup Answers \cup Others, Message(m) PROVE IInv'
    <2>1. [slot |-> slot, msg |-> m] \in Heard
        BY <1>3 DEF Heard, LinesOK
    <2>2. heard' \in Seq(Heard) /\ Len(heard') <= MaxHeard
        BY <1>3, <2>1, ListType DEF Message
    <2> QED
        BY <1>1, <1>3, <2>2 DEF Message, LinesOK
<1>4. CASE Ignored
    <2>1. <<>> \in Seq(Heard) /\ Len(<<>>) <= MaxHeard
        OBVIOUS
    <2> QED
        BY <1>1, <1>4, <2>1 DEF Ignored, LinesOK
<1>5. CASE End
    BY <1>5, HandleOK, ListType DEF End, LinesOK
<1>6. CASE Sent
    BY <1>1, <1>6 DEF Sent, LinesOK, slots
<1>7. CASE TakeKey
    <2>1. CASE CallCQ /\ sent' = 0
        BY <1>7, <2>1, CallOK DEF TakeKey, LinesOK, slots
    <2>2. ASSUME NEW i \in Offered, StartQSO(heard[i]), sent' = 0
          PROVE  IInv'
        <3>1. heard[i] \in Heard /\ heard[i].msg.to = "CQ"
            BY <2>2 DEF LinesOK, Offered
        <3> QED
            BY <1>7, <2>2, <3>1, StartOK DEF TakeKey, LinesOK, slots
    <2> QED
        BY <1>7, <2>1, <2>2 DEF TakeKey
<1>8. CASE UNCHANGED vars
    <2>1. UNCHANGED <<qso, queue, sent>> /\ UNCHANGED <<sending, slot, newheader, heard>>
        BY <1>8 DEF vars, qso
    <2> QED
        BY <1>1, <2>1 DEF LinesOK
<1> QED
    BY <1>2, <1>2a, <1>3, <1>4, <1>5, <1>6, <1>7, <1>8 DEF Next

LEMMA Invariance == Spec => []IInv
BY InitOK, StepOK, PTL DEF Spec

\* At most one message waits, the last one composed and for our own slot:
\* whatever lines are lost, nothing of an earlier QSO is sent in a later one.
THEOREM OneWaitingHolds == Spec => []OneWaiting
<1>1. IInv => OneWaiting
    BY DEF IInv, QsoOK
<1> QED
    BY <1>1, Invariance, PTL

\* Only the partner is spoken to, whoever else writes to us.
THEOREM SpeaksToPartnerHolds == Spec => []SpeaksToPartner
<1>1. IInv => SpeaksToPartner
    BY DEF IInv, QsoOK
<1> QED
    BY <1>1, Invariance, PTL

\* A QSO that goes on has tries left.
THEOREM TriesLeftHolds == Spec => []TriesLeft
<1>1. IInv => TriesLeft
    BY DEF IInv, QsoOK
<1> QED
    BY <1>1, Invariance, PTL

\* A QSO costs at most three messages and four retries.
THEOREM CallsBoundedHolds == Spec => []CallsBounded
<1>1. IInv => CallsBounded
    <2> SUFFICES ASSUME IInv PROVE CallsBounded
        OBVIOUS
    <2>1. Waiting \in {0, 1} /\ Stage \in {1, 2, 3} /\ Left \in Nat
        BY DEF Waiting, Stage, Left, IInv, QsoOK, Tries
    <2> QED
        BY <2>1 DEF IInv, QsoOK, Budget, CallsBounded, Tries
<1> QED
    BY <1>1, Invariance, PTL

\* Every variable has its type.
THEOREM TypeHolds == Spec => []TypeOK
<1>1. IInv => TypeOK
    <2> SUFFICES ASSUME IInv PROVE TypeOK
        OBVIOUS
    <2>1. queue \in Seq([slot : Slots, frame : Frames])
        <3>1. [slot |-> myslot, frame |-> lastsent] \in [slot : Slots, frame : Frames]
            BY DEF IInv, QsoOK
        <3>2. <<[slot |-> myslot, frame |-> lastsent]>> \in Seq([slot : Slots, frame : Frames])
            BY <3>1
        <3> DEFINE one == <<[slot |-> myslot, frame |-> lastsent]>>
                   typed == Seq([slot : Slots, frame : Frames])
        <3>3. <<>> \in typed
            OBVIOUS
        <3>4. queue = <<>> \/ queue = one
            BY DEF IInv, QsoOK, OneWaiting
        <3>5. one \in typed
            BY <3>2
        <3> HIDE DEF one, typed
        <3>6. queue \in typed
            BY <3>3, <3>4, <3>5
        <3> QED
            BY <3>6 DEF typed
    <2> QED
        BY <2>1 DEF IInv, QsoOK, LinesOK, TypeOK
<1> QED
    BY <1>1, Invariance, PTL

\* A transmission starts in the slot that is ours in this QSO only, also when
\* it is the last one of a QSO already given up.
OwnSlot == [][sent' > sent => slot' = myslot]_vars

\* A transmission starts only in the slot that is ours.
THEOREM OwnSlotHolds == Spec => OwnSlot
<1>1. IInv /\ [Next]_vars => [sent' > sent => slot' = myslot]_vars
    <2> SUFFICES ASSUME IInv, [Next]_vars, sent' > sent PROVE slot' = myslot
        OBVIOUS
    <2> USE DEF IInv, QsoOK
    <2>1. PICK s \in Slots : Header(s)
        <3>1. CASE UNCHANGED sent BY <3>1
        <3>2. CASE sent' = 0 BY <3>2
        <3> QED
            BY <3>1, <3>2 DEF Next, HeaderCut, Message, Ignored, End, Sent, TakeKey, vars
    <2>2. queue # <<>> /\ Head(queue).slot = s /\ slot' = s
        BY <2>1 DEF Header, Send
    <2> QED
        BY <2>2 DEF OneWaiting
<1> QED
    BY <1>1, Invariance, PTL DEF Spec, OwnSlot

-----------------------------------------------------------------------------
(* Every step of the automaton is a step of the contacts of FT8Contact, or *)
(* cannot be heard on the air.                                             *)

\* A contact that has not begun.
LEMMA ContactInit == Init => Contact!Init
<1> SUFFICES ASSUME Init PROVE Contact!Init
    OBVIOUS
<1>1. (fsm # 0) = FALSE /\ (queue # <<>>) = FALSE
    BY DEF Init
<1> QED
    BY <1>1 DEF Init, Contact!Init, None, Contact!Nobody

\* What the decoder's lines and the transmitter leave alone.
OnAir == <<slot, sending, sent>>

\* Whoever has composed a message can afford to send it.
LEMMA CanAfford == QsoOK' /\ queue' # <<>> => sent' < 3 + Tries
<1> SUFFICES ASSUME QsoOK', queue' # <<>> PROVE sent' < 3 + Tries
    OBVIOUS
<1>1. Waiting' = 1 /\ Stage' <= 3 /\ Stage' \in Nat /\ Left' \in Nat
    BY DEF Waiting, Stage, Left, QsoOK, Tries
<1>2. sent' \in Nat /\ sent' + 1 + Left' <= Tries + Stage'
    BY <1>1 DEF QsoOK, Budget
<1>3. \A a, l, g \in Nat : a + 1 + l <= 4 + g /\ g <= 3 => a < 7
    OBVIOUS
<1>4. sent' < 7
    BY <1>1, <1>2, <1>3 DEF Tries
<1> QED
    BY <1>4 DEF Tries

\* A message composed in a contact, for its partner.
LEMMA SaysIt ==
    ASSUME QsoOK, fsm # 0, QsoOK', UNCHANGED <<myslot, OnAir>>,
           queue' # <<>>, lastsent'.to = lastsent.to
    PROVE  Contact!Speak
<1>1. sent < 3 + Tries
    <2>1. sent' < 3 + Tries
        BY CanAfford
    <2> QED
        BY <2>1 DEF OnAir
<1>2. (queue' # <<>>) = TRUE /\ (fsm' # 0) \in BOOLEAN
    OBVIOUS
<1> QED
    BY <1>1, <1>2 DEF Contact!Speak, Contact!Compose, OnAir

\* What changes none of this is not heard on the air.
LEMMA Unheard ==
    ASSUME UNCHANGED <<qso, queue, OnAir>>
    PROVE  UNCHANGED Contact!vars
BY DEF qso, OnAir, Contact!vars

\* A retry says the last message again, to the same partner.
LEMMA RetrySpeaks ==
    ASSUME QsoOK, fsm # 0, Retry, QsoOK', UNCHANGED OnAir
    PROVE  Contact!Speak \/ UNCHANGED Contact!vars
<1>1. CASE UNCHANGED <<qso, queue>>
    BY <1>1, Unheard
<1>2. CASE UNCHANGED myslot /\ Say(queue, lastsent, myslot)
    <2>1. lastsent' = lastsent /\ queue' = Append(queue, [slot |-> myslot, frame |-> lastsent])
        BY <1>2 DEF Say
    <2>2. queue' # <<>>
        BY <2>1 DEF QsoOK, OneWaiting
    <2> QED
        BY <1>2, <2>1, <2>2, SaysIt
<1> QED
    BY <1>1, <1>2 DEF Retry

\* A contact that is abandoned has nothing more to send.
LEMMA AbandonLeaves ==
    ASSUME fsm # 0, Abandon, UNCHANGED OnAir
    PROVE  Contact!Leave
BY DEF Abandon, OnAir, Contact!Leave

\* The answer to the partner goes to him.
LEMMA AdvanceSpeaks ==
    ASSUME QsoOK, fsm \in {1, 2, 5}, NEW next, NEW says, Advance(next, says),
           QsoOK', UNCHANGED OnAir
    PROVE  Contact!Speak
<1>1. lastsent.to = hiscall
    BY DEF QsoOK, SpeaksToPartner
<1>2. lastsent' = [to |-> hiscall, says |-> says] /\ queue' # <<>> /\ UNCHANGED myslot
    BY DEF Advance, Say
<1> QED
    BY <1>1, <1>2, SaysIt

\* The first who answers the call to everybody becomes the partner.
LEMMA ExchMeets ==
    ASSUME IInv, fsm = 4, HandleExch, QsoOK', UNCHANGED OnAir
    PROVE  Contact!Meet \/ Contact!Speak \/ UNCHANGED Contact!vars
<1> USE DEF IInv
<1>1. CASE Retry
    BY <1>1, RetrySpeaks
<1>2. ASSUME NEW i \in DOMAIN List, fsm' = 5, UNCHANGED myslot,
             Say(<<>>, [to |-> List[i].msg.from, says |-> "report"], myslot)
      PROVE  Contact!Meet
    <2>1. List[i].msg.from \in Stations
        <3>1. List[i] \in Heard
            BY ListType
        <3> QED
            BY <3>1 DEF Heard, Calls, Answers, Others
    <2>2. lastsent'.to = List[i].msg.from /\ queue' # <<>>
        BY <1>2 DEF Say
    <2>3. sent' < 3 + Tries
        BY <2>2, CanAfford
    <2>4. lastsent.to = "CQ"
        BY DEF QsoOK, SpeaksToPartner
    <2>5. (queue' # <<>>) = TRUE /\ (fsm' # 0) = (fsm # 0)
        BY <1>2, <2>2
    <2> QED
        BY <1>2, <2>1, <2>2, <2>3, <2>4, <2>5 DEF Contact!Meet, Contact!Compose, OnAir
<1> QED
    BY <1>1, <1>2 DEF HandleExch, ToMe

\* Whatever the end marker finds in the list of messages.
LEMMA EndIsHeard ==
    ASSUME IInv, Handle, QsoOK', UNCHANGED OnAir
    PROVE  Contact!Speak \/ Contact!Meet \/ Contact!Leave \/ UNCHANGED Contact!vars
<1> USE DEF IInv
<1>1. CASE UNCHANGED <<qso, queue>>
    BY <1>1, Unheard
<1>2. CASE fsm = 1 /\ HandleReply
    BY <1>2, RetrySpeaks, AbandonLeaves, AdvanceSpeaks DEF HandleReply
<1>3. CASE fsm = 2 /\ HandleRRR
    BY <1>1, <1>3, RetrySpeaks, AbandonLeaves, AdvanceSpeaks DEF HandleRRR
<1>4. CASE fsm = 4 /\ HandleExch
    BY <1>4, ExchMeets
<1>5. CASE fsm = 5 /\ Handle73
    BY <1>5, RetrySpeaks, AdvanceSpeaks DEF Handle73
<1>6. CASE fsm = 6 /\ HandleTU
    BY <1>6, RetrySpeaks, AbandonLeaves DEF HandleTU
<1> QED
    BY <1>1, <1>2, <1>3, <1>4, <1>5, <1>6 DEF Handle

\* A message of the queue is on its way to the partner, in the slot it is for.
LEMMA HeaderIsSlot ==
    ASSUME IInv, NEW s \in Slots, Header(s)
    PROVE  Contact!Slot(s)
<1> USE DEF IInv
<1>1. CASE /\ sending = None /\ queue # <<>> /\ Head(queue).slot = s
    <2>1. queue = <<[slot |-> myslot, frame |-> lastsent]>>
        BY <1>1 DEF QsoOK, OneWaiting
    <2>2. s = myslot /\ sending' = lastsent.to /\ queue' = <<>> /\ sent' = sent + 1
        BY <1>1, <2>1 DEF Header, Send
    <2> QED
        BY <1>1, <2>2 DEF Header, qso, None, Contact!Slot, Contact!Nobody
<1>2. CASE ~(sending = None /\ queue # <<>> /\ Head(queue).slot = s)
    <2>1. ~(queue # <<>> /\ s = myslot /\ sending = None)
        BY <1>2 DEF QsoOK, OneWaiting
    <2>2. UNCHANGED <<queue, sending, sent>>
        BY <1>2 DEF Header, Send
    <2> QED
        BY <2>1, <2>2 DEF Header, qso, None, Contact!Slot, Contact!Nobody
<1> QED
    BY <1>1, <1>2

\* A key drops what the last contact had left to send.
LEMMA KeyBegins ==
    ASSUME IInv, TakeKey
    PROVE  Contact!Begin
<1> USE DEF IInv
<1>1. /\ fsm = 0 /\ fsm' # 0 /\ queue' # <<>> /\ sent' = 0
      /\ lastsent'.to \in Stations \cup {"CQ"} /\ myslot' \in Slots
      /\ UNCHANGED <<slot, sending>>
    <2>1. CASE CallCQ
        BY <2>1 DEF TakeKey, CallCQ, Say, slots, LinesOK
    <2>2. ASSUME NEW i \in Offered, StartQSO(heard[i])
          PROVE  fsm' # 0 /\ queue' # <<>> /\ lastsent'.to \in Stations /\ myslot' \in Slots
        <3>1. heard[i] \in Heard
            BY DEF LinesOK, Offered
        <3>2. heard[i].msg.from \in Stations /\ 1 - heard[i].slot \in Slots
            BY <3>1 DEF Heard, Calls, Answers, Others, Slots
        <3> QED
            BY <2>2, <3>2 DEF StartQSO, Say
    <2> QED
        BY <2>1, <2>2 DEF TakeKey, slots
<1>2. (fsm' # 0) = TRUE /\ (queue' # <<>>) = TRUE
    BY <1>1
<1> QED
    BY <1>1, <1>2 DEF Contact!Begin, Slots, Contact!Slots

\* Every step of the automaton is a step of a contact or a stutter.
LEMMA ContactStep ==
    ASSUME IInv, IInv', [Next]_vars
    PROVE  [Contact!Next]_(Contact!vars)
<1> USE DEF IInv
<1>1. ASSUME NEW s \in Slots, Header(s) PROVE Contact!Next
    BY <1>1, HeaderIsSlot DEF Contact!Next, Slots, Contact!Slots
<1>1a. ASSUME NEW s \in Slots, HeaderCut(s) PROVE Contact!Next
    BY <1>1a, Unheard DEF HeaderCut, qso, Contact!Next, Contact!Unnoticed, Slots,
                          Contact!Slots
<1>2. CASE (\E m \in Calls \cup Answers \cup Others : Message(m)) \/ Ignored
    BY <1>2, Unheard DEF Message, Ignored, OnAir
<1>3. CASE End
    BY <1>3, EndIsHeard DEF End, OnAir, Contact!Next
<1>4. CASE Sent
    BY <1>4 DEF Sent, qso, slots, None, Contact!Next, Contact!Finish, Contact!Nobody
<1>5. CASE TakeKey
    BY <1>5, KeyBegins DEF Contact!Next
<1>6. CASE UNCHANGED vars
    BY <1>6, Unheard DEF vars, qso, OnAir
<1> QED
    BY <1>1, <1>1a, <1>2, <1>3, <1>4, <1>5, <1>6 DEF Next

\* Whatever lines of the decoder are lost and whoever writes to us, what goes
\* on the air are contacts as FT8Contact describes them: for the partner, in
\* our slot, and never more than a contact may cost.
THEOREM ImplementsContactHolds == Spec => ImplementsContact
<1>1. IInv /\ IInv' /\ [Next]_vars => [Contact!Next]_(Contact!vars)
    BY ContactStep
<1> QED
    BY <1>1, ContactInit, Invariance, PTL DEF Spec, ImplementsContact, Contact!Spec
=============================================================================
