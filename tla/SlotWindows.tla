---------------------------- MODULE SlotWindows ----------------------------
(***************************************************************************)
(* The reception windows of the slot decoder (lib/decodeFT8.cpp).  The     *)
(* main loop opens a window at the start of each quarter of a minute, by   *)
(* the clock, and collects samples in signalDSP until a timer thread has   *)
(* counted FT8listen_counter down; then it decodes until it is done or     *)
(* FT8process_counter has been counted down.  The two threads share the    *)
(* status word FT8 and both counters, plain variables that each of them    *)
(* loads, changes and stores: what one stores between the other's load and *)
(* store is lost.                                                          *)
(*                                                                         *)
(* The unit of time is a tick of the timer thread.  Samples are counted in *)
(* blocks of one fread(), of which no more than one arrives in a tick.     *)
(***************************************************************************)
EXTENDS Integers

CONSTANTS
    Slots,               \* slots in a minute, 4
    Slot,                \* ticks of a slot
    Opening,             \* ticks of its first second, in which a window opens
    Listen,              \* LISTEN: ticks a window stays open
    Process,             \* PROCESS: ticks decoding may take
    PipeSize,            \* blocks the pipe of stdin holds
    MinSample,           \* MINSAMPLE, in blocks
    MaxSample,           \* MAXSAMPLE, in blocks
    BufferSize,          \* blocks signalDSP holds
    MaxLag,              \* bound: ticks for which the main loop is held up
                         \* between two places where it waits
    MaxMissed,           \* bound: slots without a window that are counted
    FollowLost           \* bound: whether time goes on after a lost update

ASSUME TimesAssumption ==
    /\ Slots \in Nat \ {0} /\ Slot \in Nat \ {0} /\ Opening \in Nat \ {0}
    /\ Listen \in Nat \ {0} /\ Process \in Nat \ {0}
    /\ Opening < Slot /\ Opening < Listen
    /\ MaxLag \in Nat \ {0} /\ MaxMissed \in Nat /\ FollowLost \in BOOLEAN

\* The buffer holds what a window and a full pipe bring, with the block in hand
\* when it opens and the one that is waited for when it closes.
ASSUME SizesAssumption ==
    /\ PipeSize \in Nat /\ MinSample \in Nat /\ MaxSample \in Nat
    /\ BufferSize \in Nat
    /\ Listen + PipeSize + 2 <= BufferSize

VARIABLES
    running,             \* MSW.RUN
    source,              \* TRUE while rtl_fm is there to write to the pipe
    clock,               \* time(NULL), as ticks of the current minute
    pipe,                \* blocks waiting in stdin
    word,                \* FT8: the set of its bits that are set
    counter,             \* FT8listen_counter, FT8process_counter
    num_samples,         \* blocks in signalDSP since the window opened
    prevslot,            \* the slot of the last window
    main,                \* where the main loop is
    lag,                 \* ticks since it last went on from a place of waiting
    nbread,              \* blocks its last fread() returned, 0 or 1
    timer,               \* where the timer thread is, and with which bit
    reg,                 \* word as each thread has loaded it to change it
    count,               \* the counter as the timer thread has loaded it
    lost,                \* history: a store has undone the other thread's
    away,                \* history: slots begun since that of the last window,
                         \* -1 as long as there was none
    gap                  \* history: slots from the last window to the one that
                         \* is being opened, 1 for the first; 0 when none is

world == <<running, source>>
time == <<clock, away>>
audio == <<num_samples, prevslot, nbread>>
timerVars == <<timer, count>>
vars == <<world, time, audio, timerVars, pipe, word, counter, main, lag, reg, lost,
          gap>>

Bits == {"LISTEN", "PROC", "WINDOW", "GIVEUP", "SKIP", "FIRST"}
Counted == {"LISTEN", "PROC"}
Free == {"free"}         \* no word is loaded

\* The places where the main loop calls setWord(): the bit, the value it gets
\* and where the main loop goes on.
SetWord ==
    [listen_on  |-> [bit |-> "LISTEN", val |-> TRUE,  then |-> "listen"],
     skip_on    |-> [bit |-> "SKIP",   val |-> TRUE,  then |-> "first_off"],
     skip_off   |-> [bit |-> "SKIP",   val |-> FALSE, then |-> "first_off"],
     first_off  |-> [bit |-> "FIRST",  val |-> FALSE, then |-> "window_on"],
     window_on  |-> [bit |-> "WINDOW", val |-> TRUE,  then |-> "count"],
     giveup_off |-> [bit |-> "GIVEUP", val |-> FALSE, then |-> "copy"],
     proc_on    |-> [bit |-> "PROC",   val |-> TRUE,  then |-> "proc"],
     giveup_on  |-> [bit |-> "GIVEUP", val |-> TRUE,  then |-> "proc_off"],
     proc_off   |-> [bit |-> "PROC",   val |-> FALSE, then |-> "proc"],
     window_off |-> [bit |-> "WINDOW", val |-> FALSE, then |-> "loop"]]

Places == DOMAIN SetWord \cup
    {"loop", "listen", "read", "window", "count", "header", "copy", "process",
     "proc", "decode", "done"}

Asleep == [at |-> "sleep", bit |-> "LISTEN"]
Ticking == [at : {"test", "store", "zero", "clear"}, bit : Counted]

TypeOK ==
    /\ running \in BOOLEAN /\ source \in BOOLEAN /\ lost \in BOOLEAN
    /\ clock \in 0 .. Slots * Slot - 1
    /\ pipe \in 0 .. PipeSize
    /\ word \in SUBSET Bits
    /\ counter \in [Counted -> -1 .. Listen + Process]
    /\ num_samples \in 0 .. BufferSize + 1
    /\ prevslot \in 0 .. Slots - 1
    /\ main \in Places
    /\ lag \in 0 .. MaxLag
    /\ nbread \in {0, 1}
    /\ timer \in Ticking \cup {Asleep}
    /\ reg \in [{"main", "timer"} -> (SUBSET Bits) \cup {Free}]
    /\ count \in -1 .. Listen + Process
    /\ away \in -1 .. MaxMissed + 1
    /\ gap \in 0 .. MaxMissed + 1

Init ==
    /\ running = TRUE
    /\ source = TRUE
    /\ clock \in 0 .. Slots * Slot - 1
    /\ pipe = 0
    /\ word = {"FIRST"}
    /\ counter = [b \in Counted |-> 0]
    /\ num_samples = 0
    /\ prevslot = 0
    /\ main = "loop"
    /\ lag = 0
    /\ nbread = 0
    /\ timer = Asleep
    /\ reg = [t \in {"main", "timer"} |-> Free]
    /\ count = 0
    /\ lost = FALSE
    /\ away = -1
    /\ gap = 0

-----------------------------------------------------------------------------
(* setWord(): a thread loads the word, changes a bit and stores it.        *)

LoadWord(t) == reg' = [reg EXCEPT ![t] = word]

StoreWord(t, bit, val) ==
    /\ word' = IF val THEN reg[t] \cup {bit} ELSE reg[t] \ {bit}
    /\ lost' = (lost \/ word # reg[t])
    /\ reg' = [reg EXCEPT ![t] = Free]

-----------------------------------------------------------------------------
(* The timer thread: FT8ISR(), once a tick, for LISTEN and then for PROC.  *)

mainVars == <<audio, main, gap>>

\* The main loop waits for audio or decodes.
Waiting == main = "decode" \/ (main = "read" /\ pipe = 0 /\ source)

\* A step of the timer thread that ends at the given place of the same bit.
TimerAt(place) == timer' = [timer EXCEPT !.at = place]

NextBit ==
    timer' = IF timer.bit = "LISTEN" THEN [at |-> "test", bit |-> "PROC"] ELSE Asleep

\* The pipe after a tick; rtl_fm waits while it is full.
Deliver(arrives) ==
    IF source /\ arrives /\ pipe < PipeSize THEN pipe + 1 ELSE pipe

\* Time passes, a block may arrive, and the timer thread wakes up.
Tick(arrives) ==
    /\ timer.at = "sleep" /\ main # "done"
    /\ FollowLost \/ ~lost
    /\ Waiting \/ lag < MaxLag
    /\ lag' = IF Waiting THEN lag ELSE lag + 1
    /\ clock' = (clock + 1) % (Slots * Slot)
    /\ away' = IF clock' % Slot = 0 /\ away \in 0 .. MaxMissed THEN away + 1 ELSE away
    /\ pipe' = Deliver(arrives)
    /\ TimerAt("test")
    /\ UNCHANGED <<world, word, counter, reg, count, lost, mainVars>>

\* if (getWord(FT8,bit)==true), its counter is loaded to be decremented.
TestBit ==
    /\ timer.at = "test"
    /\ IF timer.bit \in word THEN count' = counter[timer.bit] /\ TimerAt("store")
                             ELSE UNCHANGED count /\ NextBit
    /\ UNCHANGED <<world, time, pipe, word, counter, reg, lost, lag, mainVars>>

\* Mutant: the countdown stops at one.
DecrementedToOne(n) == IF n > 1 THEN n - 1 ELSE n

\* Below zero a counter never comes back, so that all such values are one.
Decremented(n) == IF n < 0 THEN -1 ELSE n - 1

\* counter--
StoreCount ==
    /\ timer.at = "store"
    /\ counter' = [counter EXCEPT ![timer.bit] = Decremented(count)]
    /\ count' = Decremented(count)
    /\ lost' = (lost \/ counter[timer.bit] # count)
    /\ TimerAt("zero")
    /\ UNCHANGED <<world, time, pipe, word, reg, lag, mainVars>>

\* if (counter==0), by the value stored or the variable loaded again, as the
\* compiler likes it: then setWord(&FT8,bit,false), which loads the word, ...
TestZero ==
    /\ timer.at = "zero"
    /\ \E value \in {counter[timer.bit], count} :
           IF value = 0 THEN LoadWord("timer") /\ TimerAt("clear")
                        ELSE UNCHANGED reg /\ NextBit
    /\ count' = 0
    /\ UNCHANGED <<world, time, pipe, word, counter, lost, lag, mainVars>>

\* ... and stores it.
ClearBit ==
    /\ timer.at = "clear"
    /\ StoreWord("timer", timer.bit, FALSE)
    /\ NextBit
    /\ UNCHANGED <<world, time, pipe, counter, count, lag, mainVars>>

TimerStep == TestBit \/ StoreCount \/ TestZero \/ ClearBit

-----------------------------------------------------------------------------
(* The main loop.                                                          *)

Goto(place) == main' = place

\* A setWord() of the main loop.
LoadBit ==
    /\ main \in DOMAIN SetWord /\ reg["main"] = Free
    /\ LoadWord("main")
    /\ UNCHANGED <<world, time, audio, timerVars, pipe, word, counter, main, lag,
                   lost, gap>>

StoreBit ==
    /\ main \in DOMAIN SetWord /\ reg["main"] # Free
    /\ StoreWord("main", SetWord[main].bit, SetWord[main].val)
    /\ Goto(SetWord[main].then)
    /\ UNCHANGED <<world, time, audio, timerVars, pipe, counter, lag, gap>>

\* while (getWord(MSW,RUN)), and num_samples=0 before the reading.
Loop ==
    /\ main = "loop"
    /\ Goto(IF running THEN "listen_on" ELSE "done")
    /\ num_samples' = 0
    /\ UNCHANGED <<world, time, timerVars, pipe, word, counter, prevslot, nbread, lag,
                   reg, lost, gap>>

\* while (getWord(FT8,FT8LISTEN) && getWord(MSW,RUN))
TestListen ==
    /\ main = "listen"
    /\ Goto(IF "LISTEN" \in word /\ running THEN "read" ELSE "process")
    /\ UNCHANGED <<world, time, audio, timerVars, pipe, word, counter, lag, reg, lost,
                   gap>>

\* fread(): a block, or nothing once rtl_fm has gone or a signal came.
Read ==
    /\ main = "read" /\ Goto("window")
    /\ \/ pipe > 0 /\ pipe' = pipe - 1 /\ nbread' = 1
       \/ pipe = 0 /\ (~source \/ ~running) /\ nbread' = 0 /\ UNCHANGED pipe
    /\ lag' = 0
    /\ UNCHANGED <<world, time, timerVars, word, counter, num_samples, prevslot, reg,
                   lost, gap>>

\* Mutant: a slot is compared with the one before, missed or not.
SkippedSinceLast(slot) == slot # prevslot /\ "FIRST" \notin word

\* (prevslot+1)%4 != slot, but for the first window.
Skipped(slot) == (prevslot + 1) % Slots # slot /\ "FIRST" \notin word

\* Mutant: every poll in the first second opens a window.
OpensAgain == clock % Slot < Opening

\* getWord(FT8,FT8WINDOW)==false, and the first second of a slot.
Opens == "WINDOW" \notin word /\ clock % Slot < Opening

\* Mutant: the slot to come is kept, to save adding one when it is compared.
TestWindowNext ==
    /\ main = "window"
    /\ IF Opens
       THEN LET slot == clock \div Slot
            IN  /\ Goto(IF Skipped(slot) THEN "skip_on" ELSE "skip_off")
                /\ prevslot' = slot + 1
                /\ away' = 0
                /\ gap' = IF away = -1 THEN 1 ELSE away
       ELSE Goto("copy") /\ UNCHANGED <<prevslot, away, gap>>
    /\ UNCHANGED <<world, clock, timerVars, pipe, word, counter, num_samples, nbread,
                   lag, reg, lost>>

TestWindow ==
    /\ main = "window"
    /\ IF Opens
       THEN LET slot == clock \div Slot
            IN  /\ Goto(IF Skipped(slot) THEN "skip_on" ELSE "skip_off")
                /\ prevslot' = slot
                /\ away' = 0
                /\ gap' = IF away = -1 THEN 1 ELSE away
       ELSE Goto("copy") /\ UNCHANGED <<prevslot, away, gap>>
    /\ UNCHANGED <<world, clock, timerVars, pipe, word, counter, num_samples, nbread,
                   lag, reg, lost>>

\* FT8listen_counter=LISTEN, num_samples=0
StartListen ==
    /\ main = "count" /\ Goto("header")
    /\ counter' = [counter EXCEPT !["LISTEN"] = Listen]
    /\ num_samples' = 0
    /\ UNCHANGED <<world, time, timerVars, pipe, word, prevslot, nbread, lag, reg, lost,
                   gap>>

\* The line HDR, with "--" when SKIP is set and "OK" otherwise.
PrintHeader ==
    /\ main = "header" /\ Goto("giveup_off")
    /\ gap' = 0
    /\ UNCHANGED <<world, time, audio, timerVars, pipe, word, counter, lag, reg, lost>>

\* signalDSP[num_samples++] for what was read, while the window is open.
Copy ==
    /\ main = "copy" /\ Goto("listen")
    /\ num_samples' = IF "WINDOW" \in word /\ num_samples <= BufferSize
                      THEN num_samples + nbread ELSE num_samples
    /\ nbread' = 0       \* not looked at again
    /\ UNCHANGED <<world, time, timerVars, pipe, word, counter, prevslot, lag, reg,
                   lost, gap>>

\* FT8process_counter=PROCESS
StartProcess ==
    /\ main = "process" /\ Goto("proc_on")
    /\ counter' = [counter EXCEPT !["PROC"] = Process]
    /\ UNCHANGED <<world, time, audio, timerVars, pipe, word, lag, reg, lost, gap>>

\* while (getWord(FT8,FT8PROC) && getWord(MSW,RUN)): too few samples leave the
\* loop with PROC set, too many are ignored.
TestProc ==
    /\ main = "proc"
    /\ Goto(IF "PROC" \notin word \/ ~running \/ num_samples < MinSample
            THEN "window_off"
            ELSE IF num_samples <= MaxSample THEN "decode" ELSE "proc_off")
    /\ UNCHANGED <<world, time, audio, timerVars, pipe, word, counter, lag, reg, lost,
                   gap>>

\* FT8_process(): before a candidate it looks whether time is up; it may also
\* come to the end of the candidates, after any number of ticks.
Decode ==
    /\ main = "decode"
    /\ Goto("proc_off") \/ ("PROC" \notin word /\ Goto("giveup_on"))
    /\ lag' = 0
    /\ UNCHANGED <<world, time, audio, timerVars, pipe, word, counter, reg, lost, gap>>

MainStep == LoadBit \/ StoreBit \/ Loop \/ TestListen \/ Read \/ TestWindow
            \/ StartListen \/ PrintHeader \/ Copy \/ StartProcess \/ TestProc \/ Decode

-----------------------------------------------------------------------------

\* sighandler() asks for the end.  RUN is tested in four places; a signal in
\* any other is as one in the next of them.  A second signal is exit(16), and
\* nothing is left to be said.
Signal ==
    /\ main \in {"loop", "listen", "read", "proc"}
    /\ running /\ running' = FALSE
    /\ UNCHANGED <<source, time, audio, timerVars, pipe, word, counter, main, lag, reg,
                   lost, gap>>

\* rtl_fm ends: what is in the pipe can still be read.  Until the next read
\* it is as if no block arrived.
SourceEnds ==
    /\ main = "read"
    /\ source /\ source' = FALSE
    /\ UNCHANGED <<running, time, audio, timerVars, pipe, word, counter, main, lag, reg,
                   lost, gap>>

Next == (\E arrives \in BOOLEAN : Tick(arrives)) \/ TimerStep \/ MainStep
        \/ Signal \/ SourceEnds

\* Both threads are scheduled, and audio keeps coming while there is a source.
Fairness == WF_vars(MainStep) /\ WF_vars(TimerStep) /\ SF_vars(Tick(TRUE))

Spec == Init /\ [][Next]_vars /\ Fairness

-----------------------------------------------------------------------------

\* Unless an update was lost, no window runs past signalDSP, although the
\* index of the copy is checked against nothing.
SamplesFit == ~lost => num_samples <= BufferSize

\* Unless an update was lost, a header says "--" exactly when slots have gone
\* by without a window; but slots are counted modulo those of a minute, and a
\* whole minute missed goes unnoticed.
HeaderTruthful ==
    ~lost /\ main = "header" /\ gap <= MaxMissed =>
        ("SKIP" \in word <=> gap % Slots # 1 % Slots)

\* Unless an update was lost, no slot gets a second header.
OneHeaderPerSlot == ~lost /\ main = "header" => gap > 0

\* Unless an update was lost, a window that opens is closed again.
WindowCloses == "WINDOW" \in word ~> lost \/ main = "done" \/ "WINDOW" \notin word
=============================================================================
