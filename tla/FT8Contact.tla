----------------------------- MODULE FT8Contact -----------------------------
(***************************************************************************)
(* What the FT8 automaton looks like from the air: contacts with one       *)
(* partner each, called in one of the two slots, for a bounded number of   *)
(* transmissions.  A message goes out in its slot and to the partner of    *)
(* the contact that goes on or was the last; nothing that was due in one   *)
(* contact is sent in the next.                                            *)
(***************************************************************************)
EXTENDS Naturals

CONSTANTS
    Stations,            \* the calls of the others
    Most                 \* the transmissions a contact may cost

VARIABLES
    busy,                \* whether a contact goes on
    partner,             \* its partner, or that of the last one
    mine,                \* the slot in which it is called
    due,                 \* whether a message waits for that slot
    now,                 \* the present slot
    air,                 \* whom the message on the air is for
    calls                \* the transmissions the contact has cost

vars == <<busy, partner, mine, due, now, air, calls>>

Nobody == ""
Slots == {0, 1}

Init ==
    /\ busy = FALSE
    /\ partner = Nobody
    /\ mine = 0
    /\ due = FALSE
    /\ now = 0
    /\ air = Nobody
    /\ calls = 0

\* A contact begins with the answer to a call, or with a call to everybody.
\* What was due in the last one is dropped.
Begin ==
    /\ ~busy
    /\ busy' = TRUE
    /\ partner' \in Stations \cup {"CQ"}
    /\ mine' \in Slots
    /\ due' = TRUE
    /\ calls' = 0
    /\ UNCHANGED <<now, air>>

\* A message is composed while the contact can still afford it, perhaps the
\* last of the contact.
Compose ==
    /\ busy
    /\ calls < Most
    /\ due' = TRUE
    /\ UNCHANGED <<mine, now, air, calls>>

\* It goes to the partner, for a next step of the contact or once more ...
Speak == Compose /\ busy' \in BOOLEAN /\ UNCHANGED partner

\* ... or to the first who answers the call to everybody.
Meet ==
    /\ Compose
    /\ partner = "CQ"
    /\ partner' \in Stations
    /\ UNCHANGED busy

\* The partner speaks to somebody else, or has confirmed the end.
Leave ==
    /\ busy
    /\ busy' = FALSE
    /\ due' = FALSE
    /\ UNCHANGED <<partner, mine, now, air, calls>>

\* A slot begins.  A message that is due in it goes out, unless the
\* transmitter has not finished the one before.
Slot(s) ==
    /\ now' = s
    /\ IF due /\ s = mine /\ air = Nobody
       THEN air' = partner /\ due' = FALSE /\ calls' = calls + 1
       ELSE UNCHANGED <<air, due, calls>>
    /\ UNCHANGED <<busy, partner, mine>>

\* A slot begins and the transmitter is not told of it.
Unnoticed(s) == now' = s /\ UNCHANGED <<busy, partner, mine, due, air, calls>>

\* The transmission is over.
Finish ==
    /\ air # Nobody
    /\ air' = Nobody
    /\ UNCHANGED <<busy, partner, mine, due, now, calls>>

Next ==
    \/ Begin
    \/ Speak
    \/ Meet
    \/ Leave
    \/ \E s \in Slots : Slot(s) \/ Unnoticed(s)
    \/ Finish

Spec == Init /\ [][Next]_vars
=============================================================================
