---------------------------- MODULE PttRegister ----------------------------
(***************************************************************************)
(* What the push-to-talk link between the transceiver controller and the   *)
(* SSB generator process promises: the pin that switches the amplifier     *)
(* follows the controller's requests.  A request replaces those before it, *)
(* the generator never returns to an older one, and it is brought up to    *)
(* date whenever it lags behind, until it ends: in order, and then it      *)
(* drops the pin, or by force, and then the pin stays as it was.           *)
(***************************************************************************)
EXTENDS Naturals

CONSTANTS
    MaxPosts,            \* bound: requests the controller makes
    Transmit             \* the numbers of those that ask to transmit

VARIABLES posted,        \* number of the controller's last request
          applied,       \* number of the request the generator obeys
          pin,           \* the PTT pin, 0 or 1
          open           \* the generator is there

regVars == <<posted, applied, pin, open>>

\* Request number 0 is the initial "receive" of both sides.
RegInit == posted = 0 /\ applied = 0 /\ pin = 0 /\ open = TRUE

\* The controller asks for a new PTT state.
Request == posted < MaxPosts /\ posted' = posted + 1 /\ UNCHANGED <<applied, pin, open>>

\* The generator takes over a request, unless it has obeyed a newer one.
Obey(request) ==
    /\ open
    /\ request \in applied .. posted
    /\ applied' = request
    /\ pin' = IF request \in Transmit THEN 1 ELSE 0
    /\ UNCHANGED <<posted, open>>

\* The generator ends in order, ...
Close == open /\ open' = FALSE /\ pin' = 0 /\ UNCHANGED <<posted, applied>>

\* ... or by force.
Break == open /\ open' = FALSE /\ UNCHANGED <<posted, applied, pin>>

RegNext == Request \/ (\E request \in 0 .. MaxPosts : Obey(request)) \/ Close \/ Break

RegSpec == RegInit /\ [][RegNext]_regVars /\ WF_regVars(Obey(posted))
=============================================================================
