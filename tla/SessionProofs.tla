--------------------------- MODULE SessionProofs ---------------------------
(***************************************************************************)
(* Whatever earlier sessions have left behind, for any number of them: a   *)
(* generator never transmits at the request of a session before its own,   *)
(* and it works on the segment of its controller.                          *)
(***************************************************************************)
EXTENDS Session, TLAPS

USE SessionsAssumption

\* The request in the segment is none of a session before n.
Fresh(s, n) == seg[s].signal # Receive => seg[s].signal >= n

\* What generator n may find in a segment it is or will be attached to.
GeneratorOK(n) ==
    /\ gen[n].phase = "none" => gen[n].seg = None /\ gen[n].obeys = Receive
    /\ gen[n].phase # "none" => n <= session
    /\ gen[n].phase \in {"attached", "poll", "read"} => gen[n].seg # None
    /\ gen[n].phase = "forked" => gen[n].seg = None /\ (named # None => Fresh(named, n))
    /\ gen[n].seg # None => Fresh(gen[n].seg, n)
    /\ gen[n].obeys # Receive => gen[n].obeys >= n

\* What the controller relies on from its construction to its end.
ControllerOK ==
    /\ ctl \in {"constructed", "running"} =>
          session \in Sessions /\ mine = named /\ mine # None
    /\ ctl = "constructed" =>
          gen[session].phase = "none" /\ seg[mine].signal = Receive
    /\ ctl = "running" => gen[session].seg \in {None, mine}

IInv ==
    /\ TypeOK
    /\ \A n \in Sessions : GeneratorOK(n)
    /\ ControllerOK

LEMMA NamesDiffer == None \notin Segments /\ Receive \notin Sessions
BY DEF None, Receive, Segments, Sessions

LEMMA GoneGenerator ==
    /\ Gone \in Generator /\ Gone.phase = "gone"
    /\ Gone.seg = None /\ Gone.obeys = Receive
BY DEF Gone, Unborn, Generator, Phases, Request

LEMMA InitOK == Init => IInv
<1> SUFFICES ASSUME Init PROVE IInv
    OBVIOUS
<1>1. TypeOK
    BY DEF Init, TypeOK, Zeroed, Request, Generator, Phases, Unborn
<1>2. \A n \in Sessions : GeneratorOK(n)
    BY DEF Init, GeneratorOK, Unborn
<1>3. ControllerOK
    BY DEF Init, ControllerOK
<1> QED
    BY <1>1, <1>2, <1>3 DEF IInv

-----------------------------------------------------------------------------

LEMMA ConstructOK == IInv /\ Construct => IInv'
<1> SUFFICES ASSUME IInv, Construct PROVE IInv'
    OBVIOUS
<1> USE NamesDiffer DEF IInv
<1>1. session' = session + 1 /\ session' \in Sessions /\ session \in Nat
    BY DEF Construct, TypeOK, Sessions
<1>2. named' \in Segments /\ mine' = named' /\ named' # None
    BY <1>1 DEF Construct, Found, TypeOK, Segments
<1>3. /\ seg' = [seg EXCEPT ![named'] = Zeroed]
      /\ seg' \in [Segments -> [flag : {0, 1}, signal : Request]]
      /\ seg'[named'].signal = Receive
    BY <1>2 DEF Construct, TypeOK, Zeroed, Request
<1>4. gen' \in [Sessions -> Generator]
    BY DEF Construct, Silenced, TypeOK, Generator
<1>5. \A n \in Sessions : /\ gen'[n].phase = gen[n].phase
                          /\ gen'[n].seg = gen[n].seg
                          /\ gen'[n].obeys = gen[n].obeys
    BY DEF Construct, Silenced, TypeOK, Generator
<1>6. TypeOK'
    BY <1>1, <1>2, <1>3, <1>4 DEF Construct, TypeOK
<1>7. ASSUME NEW n \in Sessions PROVE GeneratorOK(n)'
    <2>1. GeneratorOK(n)
        OBVIOUS
    <2>2. Fresh(named, n)'
        BY <1>3 DEF Fresh
    <2>3. gen[n].seg # None => gen[n].seg \in Segments
        BY DEF TypeOK, Generator
    <2>4. ASSUME NEW s \in Segments, Fresh(s, n) PROVE Fresh(s, n)'
        BY <2>4, <1>3, <1>2 DEF Fresh, TypeOK
    <2>5. n <= session => n <= session'
        BY <1>1 DEF Sessions
    <2>6. (gen[n].seg # None => Fresh(gen[n].seg, n))'
        BY <2>1, <2>3, <2>4, <1>5 DEF GeneratorOK, Fresh
    <2> QED
        BY <2>1, <2>2, <2>5, <2>6, <1>5 DEF GeneratorOK
<1>8. ControllerOK'
    <2>1. ctl' = "constructed"
        BY DEF Construct
    <2>2. gen[session'].phase = "none"
        BY <1>1 DEF GeneratorOK, Sessions
    <2> QED
        BY <2>1, <2>2, <1>1, <1>2, <1>3, <1>5 DEF ControllerOK
<1> QED
    BY <1>6, <1>7, <1>8

LEMMA LaunchOK == IInv /\ Launch => IInv'
<1> SUFFICES ASSUME IInv, Launch PROVE IInv'
    OBVIOUS
<1> USE NamesDiffer DEF IInv
<1>1. /\ ctl = "constructed" /\ ctl' = "running" /\ session \in Sessions
      /\ mine = named /\ mine # None /\ mine \in Segments
      /\ gen[session].phase = "none" /\ seg[mine].signal = Receive
      /\ UNCHANGED <<session, mine, named, seg, pin>>
    BY DEF Launch, ControllerOK, TypeOK
<1>2. gen' \in [Sessions -> Generator]
    BY <1>1 DEF Launch, TypeOK, Generator, Phases
<1>3. \A n \in Sessions : n # session => gen'[n] = gen[n]
    BY <1>1 DEF Launch, TypeOK
<1>4. /\ gen'[session].phase = "forked"
      /\ gen'[session].seg = gen[session].seg
      /\ gen'[session].obeys = gen[session].obeys
    BY <1>1 DEF Launch, TypeOK, Generator
<1>5. TypeOK'
    BY <1>1, <1>2 DEF TypeOK
<1>6. ASSUME NEW n \in Sessions PROVE GeneratorOK(n)'
    BY <1>1, <1>3, <1>4 DEF GeneratorOK, Fresh, Sessions
<1>7. ControllerOK'
    BY <1>1, <1>4 DEF ControllerOK, GeneratorOK
<1> QED
    BY <1>5, <1>6, <1>7

LEMMA AskOK == ASSUME IInv, NEW transmit \in BOOLEAN, Ask(transmit) PROVE IInv'
<1> USE NamesDiffer DEF IInv
<1>1. /\ ctl = "running" /\ session \in Sessions /\ mine = named /\ mine \in Segments
      /\ UNCHANGED <<session, ctl, mine, named, gen, pin>>
    BY DEF Ask, ControllerOK, TypeOK
<1>2. seg' \in [Segments -> [flag : {0, 1}, signal : Request]]
    BY <1>1 DEF Ask, TypeOK, Request
<1>3. \A s \in Segments : s # mine => seg'[s] = seg[s]
    BY <1>1 DEF Ask, TypeOK
<1>4. seg'[mine].signal \in {Receive, session}
    BY <1>1 DEF Ask, TypeOK
<1>5. TypeOK'
    BY <1>1, <1>2 DEF TypeOK
<1>6. ASSUME NEW n \in Sessions PROVE GeneratorOK(n)'
    <2>1. GeneratorOK(n)
        OBVIOUS
    <2>2. ASSUME NEW s \in Segments, Fresh(s, n), n <= session PROVE Fresh(s, n)'
        BY <2>2, <1>3, <1>4 DEF Fresh
    <2>3. named \in Segments
        BY <1>1
    <2>4. gen[n].seg # None => gen[n].seg \in Segments /\ n <= session
        BY <2>1 DEF GeneratorOK, TypeOK, Generator
    <2> QED
        BY <2>1, <2>2, <2>3, <2>4, <1>1 DEF GeneratorOK, Fresh
<1>7. ControllerOK'
    BY <1>1 DEF ControllerOK
<1> QED
    BY <1>5, <1>6, <1>7

LEMMA StopOK == ASSUME IInv, NEW interrupted \in BOOLEAN, Stop(interrupted) PROVE IInv'
<1> USE NamesDiffer DEF IInv
<1>1. session \in Sessions /\ ctl' = "off" /\ mine' = None /\ named' = None
    BY DEF Stop, ControllerOK
<1>2. gen' \in [Sessions -> Generator]
    BY <1>1 DEF Stop, Signalled, TypeOK, Generator
<1>3. \A n \in Sessions : /\ gen'[n].phase = gen[n].phase
                          /\ gen'[n].seg = gen[n].seg
                          /\ gen'[n].obeys = gen[n].obeys
    BY <1>1 DEF Stop, Signalled, TypeOK, Generator
<1>4. TypeOK'
    BY <1>1, <1>2 DEF Stop, TypeOK
<1>5. ASSUME NEW n \in Sessions PROVE GeneratorOK(n)'
    BY <1>1, <1>3 DEF Stop, GeneratorOK, Fresh
<1>6. ControllerOK'
    BY <1>1 DEF ControllerOK
<1> QED
    BY <1>4, <1>5, <1>6

LEMMA CrashOK == ASSUME IInv, NEW interrupted \in BOOLEAN, Crash(interrupted) PROVE IInv'
<1> USE NamesDiffer DEF IInv
<1>1. session \in Sessions /\ ctl' = "crashed" /\ mine' = None
      /\ UNCHANGED <<session, named, seg, pin>>
    BY DEF Crash, ControllerOK
<1>2. gen' \in [Sessions -> Generator]
    BY <1>1 DEF Crash, Signalled, TypeOK, Generator
<1>3. \A n \in Sessions : /\ gen'[n].phase = gen[n].phase
                          /\ gen'[n].seg = gen[n].seg
                          /\ gen'[n].obeys = gen[n].obeys
    BY <1>1 DEF Crash, Signalled, TypeOK, Generator
<1>4. TypeOK'
    BY <1>1, <1>2 DEF TypeOK
<1>5. ASSUME NEW n \in Sessions PROVE GeneratorOK(n)'
    BY <1>1, <1>3 DEF GeneratorOK, Fresh
<1>6. ControllerOK'
    BY <1>1 DEF ControllerOK
<1> QED
    BY <1>4, <1>5, <1>6

-----------------------------------------------------------------------------

LEMMA AttachOK == ASSUME IInv, NEW n \in Sessions, Attach(n) PROVE IInv'
<1> USE NamesDiffer DEF IInv
<1>1. /\ gen[n].phase = "forked" /\ gen[n].seg = None /\ n <= session
      /\ UNCHANGED <<session, ctl, mine, pin>>
    BY DEF Attach, GeneratorOK
<1>2. /\ named' \in Segments /\ named' # None
      /\ named # None => named' = named
      /\ named = None => named' = -n
    BY DEF Attach, Found, TypeOK, Segments, None, Sessions
<1>3. seg' \in [Segments -> [flag : {0, 1}, signal : Request]]
    BY <1>2 DEF Attach, TypeOK, Zeroed, Request
<1>4. /\ gen' \in [Sessions -> Generator]
      /\ gen'[n].phase = "attached" /\ gen'[n].seg = named'
      /\ gen'[n].obeys = gen[n].obeys
    BY <1>2 DEF Attach, TypeOK, Generator, Phases
<1>5. \A m \in Sessions : m # n => gen'[m] = gen[m]
    BY DEF Attach, TypeOK
<1>6. TypeOK'
    BY <1>1, <1>2, <1>3, <1>4 DEF TypeOK
<1>7. \A s \in Segments : seg'[s].signal \in {Receive, seg[s].signal}
    <2>1. CASE named = None
        BY <2>1, <1>2 DEF Attach, TypeOK, Zeroed
    <2>2. CASE named # None
        BY <2>2 DEF Attach
    <2> QED
        BY <2>1, <2>2
<1>8. named = None => seg'[named'].signal = Receive
    BY <1>2 DEF Attach, TypeOK, Zeroed
<1>9. ASSUME NEW m \in Sessions PROVE GeneratorOK(m)'
    <2>1. GeneratorOK(m)
        OBVIOUS
    <2>2. ASSUME NEW s \in Segments, Fresh(s, m) PROVE Fresh(s, m)'
        BY <2>2, <1>7 DEF Fresh
    <2>3. gen[m].seg # None => gen[m].seg \in Segments
        BY DEF TypeOK, Generator
    <2>4. gen[m].phase = "forked" => Fresh(named, m)'
        <3>1. CASE named = None
            BY <3>1, <1>8 DEF Fresh
        <3>2. CASE named # None
            BY <3>2, <2>1, <2>2, <1>2 DEF GeneratorOK, Fresh
        <3> QED
            BY <3>1, <3>2
    <2>5. (gen[m].seg # None => Fresh(gen[m].seg, m))'
        <3>1. CASE m = n
            BY <3>1, <2>4, <1>1, <1>4 DEF Fresh
        <3>2. CASE m # n
            BY <3>2, <2>1, <2>2, <2>3, <1>5 DEF GeneratorOK, Fresh
        <3> QED
            BY <3>1, <3>2
    <2>6. CASE m = n
        BY <2>1, <2>5, <2>6, <1>1, <1>2, <1>4 DEF GeneratorOK
    <2>7. CASE m # n
        BY <2>1, <2>4, <2>5, <2>7, <1>1, <1>5 DEF GeneratorOK
    <2> QED
        BY <2>6, <2>7
<1>10. ControllerOK'
    <2>1. ctl = "constructed" => session # n
        BY <1>1 DEF ControllerOK
    <2>2. ctl \in {"constructed", "running"} => named' = mine /\ mine \in Segments
        BY <1>2 DEF ControllerOK, TypeOK
    <2> QED
        BY <2>1, <2>2, <1>1, <1>4, <1>5, <1>7 DEF ControllerOK
<1> QED
    BY <1>6, <1>9, <1>10

LEMMA TakePinsOK == ASSUME IInv, NEW n \in Sessions, TakePins(n) PROVE IInv'
<1> USE NamesDiffer DEF IInv
<1>1. /\ gen[n].phase = "attached"
      /\ UNCHANGED <<session, ctl, mine, named, seg>>
    BY DEF TakePins
<1>2. /\ gen' \in [Sessions -> Generator] /\ pin' \in {0, 1}
      /\ \/ /\ gen'[n].phase = "poll"
            /\ gen'[n].seg = gen[n].seg /\ gen'[n].obeys = gen[n].obeys
         \/ gen'[n] = Gone
    BY GoneGenerator DEF TakePins, TypeOK, Generator, Phases
<1>3. \A m \in Sessions : m # n => gen'[m] = gen[m]
    BY DEF TakePins, TypeOK
<1>4. TypeOK'
    BY <1>1, <1>2 DEF TypeOK
<1>5. ASSUME NEW m \in Sessions PROVE GeneratorOK(m)'
    BY <1>1, <1>2, <1>3, GoneGenerator DEF GeneratorOK, Fresh
<1>6. ControllerOK'
    BY <1>1, <1>2, <1>3, GoneGenerator DEF ControllerOK
<1> QED
    BY <1>4, <1>5, <1>6

LEMMA PollOK == ASSUME IInv, NEW n \in Sessions, Poll(n) PROVE IInv'
<1> USE NamesDiffer DEF IInv
<1> DEFINE s == gen[n].seg
<1>1. /\ gen[n].phase = "poll" /\ s \in Segments /\ s # None /\ Fresh(s, n)
      /\ UNCHANGED <<session, ctl, mine, named>>
    BY DEF Poll, GeneratorOK, TypeOK, Generator
<1>2. seg[s] \in [flag : {0, 1}, signal : Request]
    BY <1>1 DEF TypeOK
<1> DEFINE Looked(request) == [gen[n] EXCEPT !.phase = "read", !.obeys = request]
<1>3. \/ gen' = [gen EXCEPT ![n] = Looked(gen[n].obeys)] /\ UNCHANGED <<seg, pin>>
      \/ /\ gen' = [gen EXCEPT ![n] = Looked(seg[s].signal)] /\ pin' \in {0, 1}
         /\ seg' = [seg EXCEPT ![s].flag = 0]
    BY DEF Poll, TypeOK, Generator
<1>4. /\ gen' \in [Sessions -> Generator] /\ pin' \in {0, 1}
      /\ gen'[n].phase = "read" /\ gen'[n].seg = gen[n].seg
      /\ gen'[n].obeys \in {gen[n].obeys, seg[s].signal}
    <2>1. ASSUME NEW r \in Request
          PROVE  /\ Looked(r) \in Generator /\ Looked(r).phase = "read"
                 /\ Looked(r).seg = gen[n].seg /\ Looked(r).obeys = r
        BY DEF TypeOK, Generator, Phases
    <2>2. gen[n].obeys \in Request /\ seg[s].signal \in Request
        BY <1>2 DEF TypeOK, Generator
    <2>3. gen \in [Sessions -> Generator] /\ pin \in {0, 1}
        BY DEF TypeOK
    <2> HIDE DEF Looked, IInv
    <2> QED
        BY <1>3, <2>1, <2>2, <2>3
<1>10. seg' \in [Segments -> [flag : {0, 1}, signal : Request]]
    BY <1>1, <1>2, <1>3 DEF TypeOK
<1>5. \A m \in Sessions : m # n => gen'[m] = gen[m]
    BY DEF Poll, TypeOK
<1>6. \A t \in Segments : seg'[t].signal = seg[t].signal
    BY <1>1 DEF Poll, TypeOK
<1>7. TypeOK'
    BY <1>1, <1>4, <1>10 DEF TypeOK
<1>8. ASSUME NEW m \in Sessions PROVE GeneratorOK(m)'
    <2>1. named # None => named \in Segments
        BY DEF TypeOK
    <2>2. gen[m].seg # None => gen[m].seg \in Segments
        BY DEF TypeOK, Generator
    <2>3. CASE m = n
        BY <2>1, <2>2, <2>3, <1>1, <1>4, <1>6 DEF GeneratorOK, Fresh
    <2>4. CASE m # n
        BY <2>1, <2>2, <2>4, <1>1, <1>5, <1>6 DEF GeneratorOK, Fresh
    <2> QED
        BY <2>3, <2>4
<1>9. ControllerOK'
    BY <1>1, <1>4, <1>5, <1>6 DEF ControllerOK, TypeOK
<1> QED
    BY <1>7, <1>8, <1>9

LEMMA ReadOK == ASSUME IInv, NEW n \in Sessions, Read(n) PROVE IInv'
<1> USE NamesDiffer DEF IInv
<1>1. /\ gen[n].phase = "read"
      /\ UNCHANGED <<session, ctl, mine, named, seg>>
    BY DEF Read
<1>2. /\ gen' \in [Sessions -> Generator] /\ pin' \in {0, 1}
      /\ \/ /\ gen'[n].phase = "poll"
            /\ gen'[n].seg = gen[n].seg /\ gen'[n].obeys = gen[n].obeys
         \/ gen'[n] = Gone
    BY GoneGenerator DEF Read, TypeOK, Generator, Phases
<1>3. \A m \in Sessions : m # n => gen'[m] = gen[m]
    BY DEF Read, TypeOK
<1>4. TypeOK'
    BY <1>1, <1>2 DEF TypeOK
<1>5. ASSUME NEW m \in Sessions PROVE GeneratorOK(m)'
    BY <1>1, <1>2, <1>3, GoneGenerator DEF GeneratorOK, Fresh
<1>6. ControllerOK'
    BY <1>1, <1>2, <1>3, GoneGenerator DEF ControllerOK
<1> QED
    BY <1>4, <1>5, <1>6

LEMMA AbortOK == ASSUME IInv, NEW n \in Sessions, Abort(n) PROVE IInv'
<1> USE NamesDiffer, GoneGenerator DEF IInv
<1>1. /\ gen[n].phase \in {"poll", "read"}
      /\ gen' = [gen EXCEPT ![n] = Gone]
      /\ UNCHANGED <<session, ctl, mine, named, seg, pin>>
    BY DEF Abort, HoldsPins
<1>2. gen' \in [Sessions -> Generator] /\ gen'[n] = Gone
    BY <1>1 DEF TypeOK
<1>3. \A m \in Sessions : m # n => gen'[m] = gen[m]
    BY <1>1 DEF TypeOK
<1>4. TypeOK'
    BY <1>1, <1>2 DEF TypeOK
<1>5. ASSUME NEW m \in Sessions PROVE GeneratorOK(m)'
    BY <1>1, <1>2, <1>3 DEF GeneratorOK, Fresh
<1>6. ControllerOK'
    BY <1>1, <1>2, <1>3 DEF ControllerOK
<1> QED
    BY <1>4, <1>5, <1>6

-----------------------------------------------------------------------------

LEMMA StutterOK == IInv /\ UNCHANGED vars => IInv'
BY DEF IInv, vars, TypeOK, GeneratorOK, ControllerOK, Fresh

\* The invariant is inductive, one step per action of the specification.
THEOREM Invariance == Spec => []IInv
<1>1. IInv /\ [Next]_vars => IInv'
    <2> SUFFICES ASSUME IInv, [Next]_vars PROVE IInv'
        OBVIOUS
    <2>1. CASE Construct
        BY <2>1, ConstructOK
    <2>2. CASE Launch
        BY <2>2, LaunchOK
    <2>3. CASE \E transmit \in BOOLEAN : Ask(transmit)
        BY <2>3, AskOK
    <2>4. CASE \E interrupted \in BOOLEAN : Stop(interrupted)
        BY <2>4, StopOK
    <2>5. CASE \E interrupted \in BOOLEAN : Crash(interrupted)
        BY <2>5, CrashOK
    <2>6. CASE \E n \in Sessions : GeneratorStep(n) \/ Abort(n)
        BY <2>6, AttachOK, TakePinsOK, PollOK, ReadOK, AbortOK DEF GeneratorStep
    <2>7. CASE UNCHANGED vars
        BY <2>7, StutterOK
    <2> QED
        BY <2>1, <2>2, <2>3, <2>4, <2>5, <2>6, <2>7 DEF Next
<1> QED
    BY <1>1, InitOK, PTL DEF Spec

\* Every variable keeps its type, however many sessions there are.
THEOREM TypeHolds == Spec => []TypeOK
<1>1. IInv => TypeOK
    BY DEF IInv
<1> QED
    BY <1>1, Invariance, PTL

\* However sessions end and whatever they leave behind, no generator obeys
\* a request that is older than its own session.
THEOREM NoStaleKeyHolds == Spec => []NoStaleKey
<1>1. IInv => NoStaleKey
    BY DEF IInv, GeneratorOK, NoStaleKey
<1> QED
    BY <1>1, Invariance, PTL

\* A generator that works for the running session is attached to the segment
\* its controller writes to.
THEOREM InTouchHolds == Spec => []InTouch
<1>1. IInv => InTouch
    <2> SUFFICES ASSUME IInv, ctl = "running", HoldsPins(session)
                 PROVE  gen[session].seg = mine
        BY DEF InTouch
    <2>1. session \in Sessions /\ gen[session].seg \in {None, mine}
        BY DEF IInv, ControllerOK
    <2>2. gen[session].seg # None
        BY <2>1 DEF IInv, GeneratorOK, HoldsPins
    <2> QED
        BY <2>1, <2>2
<1> QED
    BY <1>1, Invariance, PTL

-----------------------------------------------------------------------------
(* Who decides on the pin.                                                 *)

\* No two generators have the pins, and none has heard of a request before it
\* has them.
PinInv ==
    /\ \A m, n \in Sessions : HoldsPins(m) /\ HoldsPins(n) => m = n
    /\ \A n \in Sessions :
          gen[n].phase \in {"none", "forked", "attached"} => gen[n].obeys = Receive
    /\ PinOwned

\* A step that leaves the pin and the generators' standing alone keeps PinInv.
LEMMA PinKept ==
    ASSUME PinInv, pin' = pin,
           \A n \in Sessions :
               /\ HoldsPins(n)' => HoldsPins(n)
               /\ gen'[n].obeys = gen[n].obeys \/ gen'[n].phase = "gone"
               /\ gen'[n].phase \in {"none", "forked", "attached"} =>
                      gen[n].phase \in {"none", "forked", "attached"}
    PROVE  PinInv'
BY DEF PinInv, PinOwned, HoldsPins

LEMMA PinStep == IInv /\ PinInv /\ [Next]_vars => PinInv'
<1> SUFFICES ASSUME IInv, PinInv, [Next]_vars PROVE PinInv'
    OBVIOUS
<1>0. gen \in [Sessions -> Generator]
    BY DEF IInv, TypeOK
<1>1. CASE Construct \/ (\E transmit \in BOOLEAN : Ask(transmit)) \/ UNCHANGED vars
           \/ \E interrupted \in BOOLEAN : Stop(interrupted) \/ Crash(interrupted)
    <2>1. pin' = pin
          /\ \A n \in Sessions : gen'[n].obeys = gen[n].obeys /\ gen'[n].phase = gen[n].phase
        BY <1>0, <1>1 DEF Construct, Silenced, Ask, Stop, Crash, Signalled, vars, Generator
    <2> QED
        BY <2>1, PinKept DEF HoldsPins
<1>2. CASE Launch
    <2>1. /\ pin' = pin /\ session \in Sessions /\ gen[session].phase = "none"
          /\ gen' = [gen EXCEPT ![session] = [@ EXCEPT !.phase = "forked", !.audio = TRUE]]
        BY <1>2 DEF Launch, IInv, ControllerOK
    <2>2. \A n \in Sessions : /\ gen'[n].obeys = gen[n].obeys
                              /\ n # session => gen'[n].phase = gen[n].phase
                              /\ n = session => gen'[n].phase = "forked"
        BY <1>0, <2>1 DEF Generator
    <2> QED
        BY <2>1, <2>2, PinKept DEF HoldsPins
<1>3. ASSUME NEW n \in Sessions, Attach(n) PROVE PinInv'
    <2>1. /\ pin' = pin /\ gen[n].phase = "forked"
          /\ gen' = [gen EXCEPT ![n] = [@ EXCEPT !.phase = "attached", !.seg = named']]
        BY <1>3 DEF Attach
    <2>2. \A m \in Sessions : /\ gen'[m].obeys = gen[m].obeys
                              /\ m # n => gen'[m].phase = gen[m].phase
                              /\ m = n => gen'[m].phase = "attached"
        BY <1>0, <2>1 DEF Generator
    <2> QED
        BY <2>1, <2>2, PinKept DEF HoldsPins
<1>4. ASSUME NEW n \in Sessions, TakePins(n) PROVE PinInv'
    <2>1. CASE pin' = pin /\ gen' = [gen EXCEPT ![n] = Gone]
        BY <1>0, <2>1, GoneGenerator, PinKept DEF HoldsPins
    <2>2. CASE pin' = 0 /\ (~\E m \in Sessions : HoldsPins(m))
               /\ gen' = [gen EXCEPT ![n].phase = "poll"]
        <3>1. gen[n].obeys = Receive
            BY <1>4 DEF TakePins, PinInv
        <3>2. \A m \in Sessions : /\ gen'[m].obeys = gen[m].obeys
                                  /\ m # n => gen'[m].phase = gen[m].phase
                                  /\ m = n => gen'[m].phase = "poll"
            BY <1>0, <2>2 DEF Generator
        <3> QED
            BY <2>2, <3>1, <3>2 DEF PinInv, PinOwned, HoldsPins
    <2> QED
        BY <1>4, <2>1, <2>2 DEF TakePins
<1>5. ASSUME NEW n \in Sessions, Poll(n) PROVE PinInv'
    <2>1. gen[n].phase = "poll" /\ HoldsPins(n)
        BY <1>5 DEF Poll, HoldsPins
    <2>2. CASE pin' = pin /\ gen' = [gen EXCEPT ![n].phase = "read"]
        <3>1. \A m \in Sessions : /\ gen'[m].obeys = gen[m].obeys
                                  /\ m # n => gen'[m].phase = gen[m].phase
                                  /\ m = n => gen'[m].phase = "read"
            BY <1>0, <2>2 DEF Generator
        <3> QED
            BY <2>1, <2>2, <3>1, PinKept DEF HoldsPins
    <2>3. ASSUME NEW request,
                 gen' = [gen EXCEPT ![n] = [@ EXCEPT !.phase = "read", !.obeys = request]],
                 pin' = IF request = Receive THEN 0 ELSE 1
          PROVE  PinInv'
        <3>1. \A m \in Sessions : /\ m # n => gen'[m] = gen[m]
                                  /\ m = n => gen'[m].phase = "read"
                                              /\ gen'[m].obeys = request
            BY <1>0, <2>3 DEF Generator
        <3>2. \A m \in Sessions : HoldsPins(m) => m = n
            BY <2>1 DEF PinInv
        <3> QED
            BY <2>1, <2>3, <3>1, <3>2 DEF PinInv, PinOwned, HoldsPins
    <2> QED
        BY <1>5, <2>2, <2>3 DEF Poll
<1>6. ASSUME NEW n \in Sessions, Read(n) PROVE PinInv'
    <2>1. gen[n].phase = "read" /\ HoldsPins(n)
        BY <1>6 DEF Read, HoldsPins
    <2>2. CASE pin' = pin /\ gen' = [gen EXCEPT ![n].phase = "poll"]
        <3>1. \A m \in Sessions : /\ gen'[m].obeys = gen[m].obeys
                                  /\ m # n => gen'[m].phase = gen[m].phase
                                  /\ m = n => gen'[m].phase = "poll"
            BY <1>0, <2>2 DEF Generator
        <3> QED
            BY <2>1, <2>2, <3>1, PinKept DEF HoldsPins
    <2>3. CASE pin' = 0 /\ gen' = [gen EXCEPT ![n] = Gone]
        <3>1. \A m \in Sessions : HoldsPins(m) => m = n
            BY <2>1 DEF PinInv
        <3>2. \A m \in Sessions : /\ m # n => gen'[m] = gen[m]
                                  /\ m = n => gen'[m] = Gone
            BY <1>0, <2>3
        <3> QED
            BY <3>1, <3>2, GoneGenerator DEF PinInv, PinOwned, HoldsPins
    <2> QED
        BY <1>6, <2>2, <2>3 DEF Read
<1>7. ASSUME NEW n \in Sessions, Abort(n) PROVE PinInv'
    <2>1. pin' = pin /\ gen' = [gen EXCEPT ![n] = Gone]
        BY <1>7 DEF Abort
    <2> QED
        BY <1>0, <2>1, GoneGenerator, PinKept DEF HoldsPins
<1> QED
    BY <1>1, <1>2, <1>3, <1>4, <1>5, <1>6, <1>7 DEF Next, GeneratorStep

\* Whichever generators were forced to an end before it, and however they left
\* the pin: the one that has the pins now, and it alone, keys as it was asked.
THEOREM PinOwnedHolds == Spec => []PinOwned
<1>1. Init => PinInv
    BY DEF Init, Unborn, PinInv, PinOwned, HoldsPins
<1>2. PinInv => PinOwned
    BY DEF PinInv
<1> QED
    BY <1>1, <1>2, PinStep, Invariance, PTL DEF Spec
=============================================================================
