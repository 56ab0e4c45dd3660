------------------------- MODULE SlotWindowsProofs -------------------------
(***************************************************************************)
(* The safety of the slot decoder's windows, for every length of slot,     *)
(* window, pipe and buffer that fit, unless one of the two threads undoes  *)
(* an update of the other: the buffer holds whatever is read in a window,  *)
(* no slot gets a second header, and a header says whether slots went by   *)
(* without a window.  The types hold with updates undone as well.          *)
(***************************************************************************)
EXTENDS SlotWindows, TLAPS

-----------------------------------------------------------------------------
(* Division, for the clock and the numbers of the slots.                   *)

\* Quotient and remainder of naturals.
LEMMA Division ==
    ASSUME NEW n \in Nat \ {0}, NEW a \in Nat
    PROVE  /\ a \div n \in Nat /\ a % n \in 0 .. n - 1
           /\ a = n * (a \div n) + (a % n)
OBVIOUS

\* A larger factor makes a product larger by one step at least.
LEMMA Less ==
    ASSUME NEW n \in Nat \ {0}, NEW p \in Int, NEW q \in Int, p < q
    PROVE  n * p + n <= n * q
<1>1. PICK d \in Nat : q = p + 1 + d
    <2>1. q - p - 1 \in Nat /\ q = p + 1 + (q - p - 1)
        OBVIOUS
    <2> QED
        BY <2>1
<1>2. n * q = n * p + n + n * d
    BY <1>1
<1>3. n * d >= 0
    OBVIOUS
<1> QED
    BY <1>2, <1>3

\* a is q times n with the remainder r, ...
Splits(a, n, q, r) == q \in Int /\ r \in 0 .. n - 1 /\ a = n * q + r

\* ... which it is for one q and r only.
LEMMA Unique ==
    ASSUME NEW n \in Nat \ {0}, NEW a \in Nat, NEW q, NEW r, Splits(a, n, q, r)
    PROVE  q = a \div n /\ r = a % n
<1> DEFINE p == a \div n
<1>0. q \in Int /\ r \in 0 .. n - 1 /\ a = n * q + r
    BY DEF Splits
<1>1. p \in Nat /\ a % n \in 0 .. n - 1 /\ a = n * p + (a % n)
    BY Division
<1>2. ~(p < q)
    <2>1. p < q => n * p + n <= n * q
        BY <1>0, <1>1, Less
    <2> QED
        BY <1>0, <1>1, <2>1
<1>3. ~(q < p)
    <2>1. q < p => n * q + n <= n * p
        BY <1>0, <1>1, Less
    <2> QED
        BY <1>0, <1>1, <2>1
<1> QED
    BY <1>0, <1>1, <1>2, <1>3
\* A tick after c the clock of s slots of l ticks shows d: in the same slot or at
\* the start of the next.
Follows(s, l, c, d) ==
    /\ d \in 0 .. s * l - 1
    /\ \/ d % l = 0 /\ d \div l = ((c \div l) + 1) % s
       \/ d % l = (c % l) + 1 /\ d \div l = c \div l
    /\ c \div l \in 0 .. s - 1 /\ d \div l \in 0 .. s - 1

\* The clock of a minute goes on as its slots do.
LEMMA ClockTick ==
    ASSUME NEW s \in Nat \ {0}, NEW l \in Nat \ {0}, NEW c \in 0 .. s * l - 1,
           NEW d, d = (c + 1) % (s * l)
    PROVE  Follows(s, l, c, d)
<1> DEFINE q == c \div l
           r == c % l
           m == s * l
<1>0. c \in Nat
    OBVIOUS
<1>1. q \in Nat /\ r \in 0 .. l - 1 /\ c = l * q + r
    BY <1>0, Division
<1>2. m \in Nat \ {0} /\ m = l * s
    OBVIOUS
<1>3. q < s
    <2>1. s < q => l * s + l <= l * q
        BY <1>1, Less
    <2>2. c < l * s
        BY <1>2
    <2> QED
        BY <1>1, <1>2, <2>1, <2>2
<1>4. CASE c + 1 = m
    <2>1. d = 0
        <3>1. Splits(m, m, 1, 0)
            BY <1>2 DEF Splits
        <3> QED
            BY <1>2, <1>4, <3>1, Unique
    <2>2. 0 % l = 0 /\ 0 \div l = 0
        <3>1. Splits(0, l, 0, 0)
            BY DEF Splits
        <3> QED
            BY <3>1, Unique
    <2>3. q = s - 1
        <3>1. Splits(c, l, s - 1, l - 1)
            BY <1>0, <1>2, <1>4 DEF Splits
        <3> QED
            BY <1>0, <3>1, Unique
    <2>4. s % s = 0
        <3>1. Splits(s, s, 1, 0)
            BY DEF Splits
        <3> QED
            BY <3>1, Unique
    <2> QED
        BY <1>1, <1>2, <1>3, <2>1, <2>2, <2>3, <2>4 DEF Follows
<1>5. CASE c + 1 < m
    <2>1. d = c + 1
        <3>1. Splits(c + 1, m, 0, c + 1) /\ c + 1 \in Nat
            BY <1>0, <1>2, <1>5 DEF Splits
        <3> QED
            BY <1>2, <3>1, Unique
    <2>2. CASE r + 1 < l
        <3>1. Splits(d, l, q, r + 1) /\ d \in Nat
            BY <1>0, <1>1, <2>1, <2>2 DEF Splits
        <3>2. d % l = r + 1 /\ d \div l = q
            BY <3>1, Unique
        <3> QED
            BY <1>1, <1>3, <1>5, <2>1, <3>2 DEF Follows
    <2>3. CASE r + 1 = l
        <3>1. Splits(d, l, q + 1, 0) /\ d \in Nat /\ d = l * (q + 1)
            BY <1>0, <1>1, <2>1, <2>3 DEF Splits
        <3>2. d % l = 0 /\ d \div l = q + 1
            BY <3>1, Unique
        <3>3. q + 1 < s
            <4>1. ~(s < q + 1)
                BY <1>1, <1>3
            <4>2. q + 1 # s
                BY <1>2, <1>5, <2>1, <3>1
            <4> QED
                BY <1>1, <4>1, <4>2
        <3>4. (q + 1) % s = q + 1
            <4>1. Splits(q + 1, s, 0, q + 1) /\ q + 1 \in Nat
                BY <1>1, <3>3 DEF Splits
            <4> QED
                BY <4>1, Unique
        <3> QED
            BY <1>1, <1>3, <1>5, <2>1, <3>2, <3>3, <3>4 DEF Follows
    <2> QED
        BY <1>1, <2>2, <2>3
<1> QED
    BY <1>2, <1>4, <1>5

\* Remainders are the same when the difference is a multiple.
LEMMA Congruent ==
    ASSUME NEW n \in Nat \ {0}, NEW x \in Nat, NEW y \in Nat
    PROVE  x % n = y % n <=> \E k \in Int : x = y + n * k
<1> DEFINE p == x \div n
           q == y \div n
<1>1. p \in Nat /\ x % n \in 0 .. n - 1 /\ x = n * p + (x % n)
    BY Division
<1>2. q \in Nat /\ y % n \in 0 .. n - 1 /\ y = n * q + (y % n)
    BY Division
<1>3. ASSUME x % n = y % n PROVE \E k \in Int : x = y + n * k
    <2>1. n * (p - q) = n * p - n * q
        BY <1>1, <1>2
    <2>2. x = y + n * (p - q) /\ p - q \in Int
        BY <1>1, <1>2, <1>3, <2>1
    <2> QED
        BY <2>2
<1>4. ASSUME NEW k \in Int, x = y + n * k PROVE x % n = y % n
    <2>1. n * (q + k) = n * q + n * k
        BY <1>2
    <2>2. x = n * (q + k) + (y % n)
        BY <1>2, <1>4, <2>1
    <2>3. Splits(x, n, q + k, y % n)
        BY <1>2, <1>4, <2>2 DEF Splits
    <2> QED
        BY <2>3, Unique
<1> QED
    BY <1>3, <1>4

\* A remainder may be taken before one is added.
LEMMA NextModulo ==
    ASSUME NEW n \in Nat \ {0}, NEW x \in Nat
    PROVE  ((x % n) + 1) % n = (x + 1) % n
<1>1. x \div n \in Nat /\ x % n \in 0 .. n - 1 /\ x = n * (x \div n) + (x % n)
    BY Division
<1>2. PICK y \in Nat : y = (x % n) + 1
    BY <1>1
<1>3. PICK k \in Nat : k = x \div n
    BY <1>1
<1>4. PICK z \in Nat : z = x + 1
    OBVIOUS
<1>5. z = y + n * k /\ k \in Int
    BY <1>1, <1>2, <1>3, <1>4
<1>6. \E j \in Int : z = y + n * j
    BY <1>5
<1>7. z % n = y % n
    BY <1>6, Congruent
<1> QED
    BY <1>2, <1>4, <1>7

\* What is below n is its own remainder.
LEMMA SmallModulo ==
    ASSUME NEW n \in Nat \ {0}, NEW x \in 0 .. n - 1
    PROVE  x % n = x
<1>1. x \in Nat /\ x = n * 0 + x
    OBVIOUS
<1>2. Splits(x, n, 0, x)
    BY <1>1 DEF Splits
<1> QED
    BY <1>1, <1>2, Unique

\* x and y are told apart by their remainders after p has been added.
Moved(n, p, x, y) == (p + x) % n = (p + y) % n <=> x % n = y % n

\* Nothing added to both makes remainders differ or agree.
LEMMA SameModulo ==
    ASSUME NEW n \in Nat \ {0}, NEW p \in Nat, NEW x \in Nat, NEW y \in Nat
    PROVE  Moved(n, p, x, y)
<1>1. \A k \in Int : p + x = (p + y) + n * k <=> x = y + n * k
    OBVIOUS
<1>2. (p + x) % n = (p + y) % n <=> \E k \in Int : p + x = (p + y) + n * k
    <2>1. p + x \in Nat /\ p + y \in Nat
        OBVIOUS
    <2> QED
        BY <2>1, Congruent
<1>3. x % n = y % n <=> \E k \in Int : x = y + n * k
    BY Congruent
<1> QED
    BY <1>1, <1>2, <1>3 DEF Moved

-----------------------------------------------------------------------------
(* The buffer of samples.                                                 *)

USE TimesAssumption, SizesAssumption

\* The places at which the main loop holds a block it has not copied yet.
Holding == {"window", "skip_on", "skip_off", "first_off", "window_on", "count",
            "header", "giveup_off", "copy"}

\* The places before a window, at which WINDOW is off ...
Before == {"loop", "listen_on", "skip_on", "skip_off", "first_off", "window_on"}

\* ... and those at which the counter of an open window has been started.
During == {"header", "giveup_off", "copy", "listen", "read", "window"}

Types ==
    /\ pipe \in 0 .. PipeSize
    /\ nbread \in {0, 1}
    /\ num_samples \in Nat
    /\ counter \in [Counted -> Int]
    /\ count \in Int
    /\ timer \in Ticking \cup {Asleep}
    /\ main \in Places
    /\ lost \in BOOLEAN
    /\ DOMAIN reg = {"main", "timer"}

\* A block in hand.
InHand == nbread = 1 => main \in Holding

\* The window is off until it is opened, and on when its counter is started.
WindowInPlace ==
    /\ main \in Before => "WINDOW" \notin word
    /\ main = "count" => "WINDOW" \in word

Open == "WINDOW" \in word /\ main \in During

\* In this tick the listening counter has still to be decremented.
Due == timer.bit = "LISTEN" /\ timer.at \in {"test", "store"}

\* The ticks that are left to a window; a block may arrive in each of them.
Left == IF Due THEN counter["LISTEN"] - 1 ELSE counter["LISTEN"]

\* The countdown of an open window runs, or its end is being handled.
Counting ==
    Open /\ "LISTEN" \in word =>
        \/ counter["LISTEN"] >= 1
        \/ /\ counter["LISTEN"] = 0
           /\ \/ timer = [at |-> "zero", bit |-> "LISTEN"] /\ count = 0
              \/ timer = [at |-> "clear", bit |-> "LISTEN"]

\* What was collected, is at hand, waits and may still come while listening.
BudgetOpen ==
    Open /\ "LISTEN" \in word =>
        num_samples + nbread + pipe + Left <= Listen + PipeSize + 1

\* After that, only a read that has begun already brings one more.
BudgetClosed ==
    Open /\ "LISTEN" \notin word =>
        num_samples + nbread + (IF main = "read" THEN 1 ELSE 0)
            <= Listen + PipeSize + 2

Bounded == num_samples <= Listen + PipeSize + 2

Sound ==
    /\ InHand
    /\ WindowInPlace
    /\ Counting
    /\ BudgetOpen
    /\ BudgetClosed
    /\ Bounded

WindowInv == Types /\ (~lost => Sound)

-----------------------------------------------------------------------------

\* Both threads start with no window open.
LEMMA WindowInit == Init => WindowInv
<1> SUFFICES ASSUME Init PROVE WindowInv
    OBVIOUS
<1>1. Types
    <2>1. counter \in [Counted -> Int] /\ DOMAIN reg = {"main", "timer"}
        BY DEF Init
    <2>2. main \in Places /\ timer \in Ticking \cup {Asleep}
        BY DEF Init, Places
    <2>3. pipe = 0 /\ nbread = 0 /\ num_samples = 0 /\ count = 0
        BY DEF Init
    <2>4. lost \in BOOLEAN
        BY DEF Init
    <2> QED
        BY <2>1, <2>2, <2>3, <2>4 DEF Types
<1>2. Sound
    BY DEF Init, Sound, InHand, WindowInPlace, Counting, BudgetOpen, BudgetClosed,
           Bounded, Open, During, Before
<1> QED
    BY <1>1, <1>2 DEF WindowInv

\* A store that undoes nothing changes one bit of the word.
LEMMA StoredWord ==
    ASSUME NEW t, NEW bit, NEW val \in BOOLEAN, StoreWord(t, bit, val), ~lost'
    PROVE  ~lost /\ word' = IF val THEN word \cup {bit} ELSE word \ {bit}
BY DEF StoreWord

\* Every action keeps the types.
LEMMA TypesStep ==
    ASSUME Types, [Next]_vars
    PROVE  Types'
<1> USE DEF Types, Counted
<1>1. ASSUME NEW arrives \in BOOLEAN, Tick(arrives) PROVE Types'
    BY <1>1 DEF Tick, Deliver, TimerAt, mainVars, audio, Ticking, Asleep
<1>2. CASE TestBit
    BY <1>2 DEF TestBit, TimerAt, NextBit, mainVars, audio, Ticking, Asleep
<1>3. CASE StoreCount
    BY <1>3 DEF StoreCount, TimerAt, Decremented, mainVars, audio, Ticking, Asleep
<1>4. CASE TestZero
    BY <1>4 DEF TestZero, TimerAt, NextBit, LoadWord, mainVars, audio, Ticking, Asleep
<1>5. CASE ClearBit
    BY <1>5 DEF ClearBit, StoreWord, NextBit, mainVars, audio, Ticking, Asleep
<1>6. CASE LoadBit
    BY <1>6 DEF LoadBit, LoadWord, audio, timerVars
<1>7. CASE StoreBit
    BY <1>7 DEF StoreBit, StoreWord, Goto, SetWord, Places, audio, timerVars
<1>8. CASE Loop \/ TestListen \/ Read \/ TestWindow \/ StartListen \/ PrintHeader
           \/ Copy \/ StartProcess \/ TestProc \/ Decode
    BY <1>8 DEF Loop, TestListen, Read, TestWindow, StartListen, PrintHeader, Copy,
                StartProcess, TestProc, Decode, Goto, Places, SetWord, audio, timerVars
<1>9. CASE Signal \/ SourceEnds \/ UNCHANGED vars
    BY <1>9 DEF Signal, SourceEnds, vars, audio, timerVars
<1> QED
    BY <1>1, <1>2, <1>3, <1>4, <1>5, <1>6, <1>7, <1>8, <1>9
    DEF Next, TimerStep, MainStep

-----------------------------------------------------------------------------

\* The timer thread keeps what is sound, unless it undoes an update.
LEMMA TimerSound ==
    ASSUME Types, Sound, ~lost, ~lost',
           (\E arrives \in BOOLEAN : Tick(arrives)) \/ TimerStep
    PROVE  Sound'
<1> USE DEF Types, Sound
<1>0. UNCHANGED <<num_samples, nbread, main>>
    BY DEF Tick, TimerStep, TestBit, StoreCount, TestZero, ClearBit, mainVars, audio
<1>1. InHand' /\ Bounded'
    BY <1>0 DEF InHand, Bounded
<1>2. ASSUME NEW arrives \in BOOLEAN, Tick(arrives) PROVE Sound'
    <2>1. /\ UNCHANGED <<word, counter>> /\ timer.at = "sleep"
          /\ timer = Asleep /\ timer' = [at |-> "test", bit |-> "LISTEN"]
          /\ pipe' \in {pipe, pipe + 1}
        BY <1>2 DEF Tick, Deliver, TimerAt, Asleep, Ticking
    <2>2. WindowInPlace' /\ BudgetClosed'
        BY <1>0, <2>1 DEF WindowInPlace, BudgetClosed, Open
    <2>3. Open /\ "LISTEN" \in word => counter["LISTEN"] >= 1
        BY <2>1 DEF Counting, Asleep
    <2>4. Left' = Left - 1
        BY <2>1 DEF Left, Due, Asleep, Counted
    <2>5. Counting' /\ BudgetOpen'
        BY <1>0, <2>1, <2>3, <2>4 DEF Counting, BudgetOpen, Open, Left, Counted
    <2> QED
        BY <1>1, <2>2, <2>5
<1>3. CASE TestBit
    <2>1. UNCHANGED <<word, counter, pipe>> /\ timer.at = "test"
        BY <1>3 DEF TestBit
    <2>2. WindowInPlace' /\ BudgetClosed'
        BY <1>0, <2>1 DEF WindowInPlace, BudgetClosed, Open
    <2>3. ASSUME Open, "LISTEN" \in word PROVE counter["LISTEN"] >= 1 /\ Left' = Left
        BY <1>3, <2>1, <2>3 DEF Counting, Left, Due, TestBit, TimerAt, NextBit, Ticking,
                                Asleep, Counted
    <2>4. Counting' /\ BudgetOpen'
        BY <1>0, <2>1, <2>3 DEF Counting, BudgetOpen, Open
    <2> QED
        BY <1>1, <2>2, <2>4
<1>4. CASE StoreCount
    <2>1. /\ UNCHANGED <<word, pipe>> /\ timer.at = "store"
          /\ counter[timer.bit] = count
          /\ timer' = [timer EXCEPT !.at = "zero"]
          /\ count' = Decremented(count)
          /\ counter' = [counter EXCEPT ![timer.bit] = count']
        BY <1>4 DEF StoreCount, TimerAt
    <2>2. WindowInPlace' /\ BudgetClosed'
        BY <1>0, <2>1 DEF WindowInPlace, BudgetClosed, Open
    <2>3. timer \in Ticking
        BY <2>1 DEF Asleep
    <2>4. CASE timer.bit = "LISTEN"
        <3>1. /\ timer' = [at |-> "zero", bit |-> "LISTEN"]
              /\ counter'["LISTEN"] = count' /\ Due /\ ~Due'
            BY <2>1, <2>3, <2>4 DEF Ticking, Due, Counted
        <3>2. ASSUME Open, "LISTEN" \in word
              PROVE  /\ count \in Int /\ count >= 1 /\ count' = count - 1
                     /\ counter["LISTEN"] = count
            BY <2>1, <2>4, <3>2 DEF Counting, Decremented
        <3>3. ASSUME Open, "LISTEN" \in word
              PROVE  \/ counter'["LISTEN"] >= 1
                     \/ counter'["LISTEN"] = 0 /\ count' = 0
            BY <3>1, <3>2, <3>3
        <3>4. (Open' <=> Open) /\ ("LISTEN" \in word' <=> "LISTEN" \in word)
            BY <1>0, <2>1 DEF Open
        <3>5. Counting'
            BY <3>1, <3>3, <3>4 DEF Counting
        <3>6. ASSUME Open, "LISTEN" \in word PROVE Left' = Left
            BY <3>1, <3>2, <3>6 DEF Left
        <3>7. BudgetOpen'
            BY <1>0, <2>1, <3>6 DEF BudgetOpen, Open
        <3> QED
            BY <1>1, <2>2, <3>5, <3>7
    <2>5. CASE timer.bit = "PROC"
        <3>1. counter'["LISTEN"] = counter["LISTEN"] /\ ~Due /\ ~Due'
            BY <2>1, <2>3, <2>5 DEF Ticking, Due, Counted
        <3>2. Counting' /\ BudgetOpen'
            BY <1>0, <2>1, <2>5, <3>1 DEF Counting, BudgetOpen, Open, Left
        <3> QED
            BY <1>1, <2>2, <3>2
    <2> QED
        BY <2>3, <2>4, <2>5 DEF Ticking, Counted
<1>5. CASE TestZero
    <2>1. UNCHANGED <<word, counter, pipe>> /\ timer.at = "zero"
        BY <1>5 DEF TestZero
    <2>2. WindowInPlace' /\ BudgetClosed'
        BY <1>0, <2>1 DEF WindowInPlace, BudgetClosed, Open
    <2>3. timer \in Ticking
        BY <2>1 DEF Asleep
    <2>4. \E value \in {counter[timer.bit], count} :
              IF value = 0 THEN timer' = [timer EXCEPT !.at = "clear"] ELSE NextBit
        BY <1>5 DEF TestZero, TimerAt
    <2>5. ~Due /\ ~Due'
        BY <2>1, <2>3, <2>4 DEF Due, NextBit, Ticking, Asleep
    <2>6. BudgetOpen'
        BY <1>0, <2>1, <2>5 DEF BudgetOpen, Open, Left
    <2>7. Counting'
        <3> SUFFICES ASSUME Open, "LISTEN" \in word, ~(counter["LISTEN"] >= 1)
                     PROVE  timer' = [at |-> "clear", bit |-> "LISTEN"]
                            /\ counter["LISTEN"] = 0
            BY <1>0, <2>1 DEF Counting, Open
        <3>1. /\ counter["LISTEN"] = 0 /\ count = 0
              /\ timer = [at |-> "zero", bit |-> "LISTEN"]
            BY <2>1 DEF Counting
        <3> QED
            BY <2>4, <3>1
    <2> QED
        BY <1>1, <2>2, <2>6, <2>7
<1>6. CASE ClearBit
    <2>1. /\ UNCHANGED <<counter, pipe, count>> /\ timer.at = "clear"
          /\ word' = word \ {timer.bit} /\ NextBit
        BY <1>6 DEF ClearBit, StoreWord
    <2>2. timer \in Ticking
        BY <2>1 DEF Asleep
    <2>3. timer.bit \in Counted /\ ("WINDOW" \in word <=> "WINDOW" \in word')
        BY <2>1, <2>2 DEF Ticking, Counted
    <2>4. WindowInPlace' /\ (Open <=> Open')
        BY <1>0, <2>3 DEF WindowInPlace, Open
    <2>5. CASE timer.bit = "LISTEN"
        <3>1. "LISTEN" \notin word' /\ ~Due
            BY <2>1, <2>5 DEF Due
        <3>2. ASSUME Open, "LISTEN" \in word
              PROVE  num_samples + nbread <= Listen + PipeSize + 1
            BY <3>1, <3>2 DEF BudgetOpen, Counting, Left, Counted
        <3>3. BudgetClosed'
            BY <1>0, <2>4, <3>2 DEF BudgetClosed
        <3> QED
            BY <1>1, <2>4, <3>1, <3>3 DEF Counting, BudgetOpen
    <2>6. CASE timer.bit = "PROC"
        <3>1. /\ "LISTEN" \in word' <=> "LISTEN" \in word
              /\ ~Due /\ ~Due' /\ timer # [at |-> "clear", bit |-> "LISTEN"]
              /\ timer # [at |-> "zero", bit |-> "LISTEN"]
            BY <2>1, <2>6 DEF Due, NextBit, Asleep
        <3>2. Counting' /\ BudgetOpen' /\ BudgetClosed'
            BY <1>0, <2>1, <2>4, <3>1 DEF Counting, BudgetOpen, BudgetClosed, Left
        <3> QED
            BY <1>1, <2>4, <3>2
    <2> QED
        BY <2>3, <2>5, <2>6 DEF Counted
<1> QED
    BY <1>2, <1>3, <1>4, <1>5, <1>6 DEF TimerStep

-----------------------------------------------------------------------------

\* So does the main loop.
LEMMA MainSound ==
    ASSUME Types, Sound, ~lost, ~lost', MainStep
    PROVE  Sound'
<1> USE DEF Types, Sound
<1> USE DEF InHand, WindowInPlace, Counting, BudgetOpen, BudgetClosed, Bounded, Open,
            Before, During, Holding
<1>0. UNCHANGED <<timer, count>>
    BY DEF MainStep, LoadBit, StoreBit, Loop, TestListen, Read, TestWindow, StartListen,
           PrintHeader, Copy, StartProcess, TestProc, Decode, timerVars
<1>1. Due' <=> Due
    BY <1>0 DEF Due
<1>2. CASE LoadBit
    <2>1. UNCHANGED <<num_samples, nbread, main, word, counter, pipe>>
        BY <1>2 DEF LoadBit, audio
    <2> QED
        BY <1>0, <1>1, <2>1 DEF Left
<1>3. CASE StoreBit
    <2>1. /\ UNCHANGED <<num_samples, nbread, counter, pipe>>
          /\ main \in DOMAIN SetWord
          /\ main' = SetWord[main].then
          /\ word' = IF SetWord[main].val THEN word \cup {SetWord[main].bit}
                                          ELSE word \ {SetWord[main].bit}
        BY <1>3 DEF StoreBit, StoreWord, Goto, audio
    <2>2. Left' = Left
        BY <1>1, <2>1 DEF Left
    <2> HIDE DEF Left
    <2>3. CASE main = "listen_on"
        BY <1>0, <2>1, <2>2, <2>3 DEF SetWord
    <2>4. CASE main \in {"skip_on", "skip_off", "first_off"}
        BY <1>0, <2>1, <2>2, <2>4 DEF SetWord
    <2>5. CASE main = "window_on"
        BY <1>0, <2>1, <2>2, <2>5 DEF SetWord
    <2>6. CASE main = "giveup_off"
        BY <1>0, <2>1, <2>2, <2>6 DEF SetWord
    <2>7. CASE main \in {"proc_on", "giveup_on", "proc_off"}
        BY <1>0, <2>1, <2>2, <2>7 DEF SetWord
    <2>8. CASE main = "window_off"
        BY <1>0, <2>1, <2>2, <2>8 DEF SetWord
    <2> QED
        BY <2>1, <2>3, <2>4, <2>5, <2>6, <2>7, <2>8 DEF SetWord
<1>4. CASE Loop
    BY <1>0, <1>4 DEF Loop, Goto
<1>5. CASE TestListen
    <2>1. UNCHANGED <<num_samples, nbread, counter, pipe, word>> /\ main = "listen"
          /\ main' = IF "LISTEN" \in word /\ running THEN "read" ELSE "process"
        BY <1>5 DEF TestListen, Goto, audio
    <2>2. Left' = Left
        BY <1>1, <2>1 DEF Left
    <2> QED
        BY <1>0, <2>1, <2>2
<1>6. CASE Read
    <2>1. /\ UNCHANGED <<num_samples, counter, word>>
          /\ main = "read" /\ main' = "window" /\ nbread = 0
          /\ \/ pipe' = pipe - 1 /\ nbread' = 1
             \/ pipe' = pipe /\ nbread' = 0
        BY <1>6 DEF Read, Goto
    <2>2. Left' = Left
        BY <1>1, <2>1 DEF Left
    <2> QED
        BY <1>0, <2>1, <2>2
<1>7. CASE TestWindow
    <2>1. /\ UNCHANGED <<num_samples, nbread, counter, pipe, word>> /\ main = "window"
          /\ main' \in {"skip_on", "skip_off", "copy"}
          /\ main' # "copy" => "WINDOW" \notin word
        BY <1>7 DEF TestWindow, Goto, Opens
    <2>2. Left' = Left
        BY <1>1, <2>1 DEF Left
    <2> QED
        BY <1>0, <2>1, <2>2
<1>8. CASE StartListen
    <2>1. /\ UNCHANGED <<nbread, pipe, word>> /\ num_samples' = 0
          /\ main = "count" /\ main' = "header"
          /\ counter'["LISTEN"] = Listen
        BY <1>8 DEF StartListen, Goto, Counted
    <2>2. nbread \in {0, 1} /\ pipe \in 0 .. PipeSize
        OBVIOUS
    <2>3. Left' = IF Due' THEN counter'["LISTEN"] - 1 ELSE counter'["LISTEN"]
        BY DEF Left
    <2> HIDE DEF Left, Types, Sound
    <2>4. InHand' /\ WindowInPlace' /\ Counting'
        BY <2>1 DEF Sound
    <2>5. Left' = Listen \/ Left' = Listen - 1
        BY <2>1, <2>3
    <2>6. /\ num_samples' + nbread' + pipe' + Left' <= Listen + PipeSize + 1
          /\ num_samples' + nbread' <= Listen + PipeSize + 1
          /\ num_samples' <= Listen + PipeSize + 2
        <3>1. CASE Left' = Listen
            BY <2>1, <2>2, <3>1
        <3>2. CASE Left' = Listen - 1
            BY <2>1, <2>2, <3>2
        <3> QED
            BY <2>5, <3>1, <3>2
    <2>7. BudgetOpen'
        BY <2>6
    <2>8. BudgetClosed'
        BY <2>1, <2>2
    <2>9. Bounded'
        BY <2>6
    <2> QED
        BY <2>4, <2>7, <2>8, <2>9 DEF Sound
<1>9. CASE PrintHeader
    <2>1. UNCHANGED <<num_samples, nbread, counter, pipe, word>> /\ main = "header"
          /\ main' = "giveup_off"
        BY <1>9 DEF PrintHeader, Goto, audio
    <2>2. Left' = Left
        BY <1>1, <2>1 DEF Left
    <2> HIDE DEF Left
    <2> QED
        BY <1>0, <2>1, <2>2
<1>10. CASE Copy
    <2>1. /\ UNCHANGED <<counter, pipe, word>>
          /\ main = "copy" /\ main' = "listen" /\ nbread' = 0
          /\ num_samples' = num_samples \/ num_samples' = num_samples + nbread
          /\ "WINDOW" \notin word => num_samples' = num_samples
        BY <1>10 DEF Copy, Goto
    <2>2. /\ num_samples \in Nat /\ nbread \in {0, 1} /\ pipe \in Nat
          /\ counter["LISTEN"] \in Int
        BY DEF Counted
    <2>3. Left \in Int /\ Left' = Left /\ (Open /\ "LISTEN" \in word => Left >= 0)
        BY <1>1, <2>1, <2>2 DEF Left, Due
    <2>4. InHand' /\ WindowInPlace' /\ Counting'
        BY <1>0, <2>1
    <2>5. BudgetOpen /\ BudgetClosed /\ Bounded
        OBVIOUS
    <2> HIDE DEF Left, Types, Sound
    <2>6. (Open' <=> Open) /\ main' # "read" /\ ("LISTEN" \in word' <=> "LISTEN" \in word)
        BY <2>1
    <2>7. CASE num_samples' = num_samples
        <3>1. BudgetOpen'
            BY <2>1, <2>2, <2>3, <2>5, <2>6, <2>7
        <3>2. BudgetClosed' /\ Bounded'
            BY <2>1, <2>2, <2>5, <2>6, <2>7
        <3> QED
            BY <2>4, <3>1, <3>2 DEF Sound
    <2>8. CASE Open /\ num_samples' = num_samples + nbread
        <3>1. BudgetOpen'
            BY <2>1, <2>2, <2>3, <2>5, <2>6, <2>8
        <3>2. BudgetClosed'
            BY <2>1, <2>2, <2>5, <2>6, <2>8
        <3>3. CASE "LISTEN" \in word
            <4>1. num_samples + nbread <= Listen + PipeSize + 1
                BY <2>2, <2>3, <2>5, <2>8, <3>3
            <4> QED
                BY <2>2, <2>4, <2>8, <3>1, <3>2, <4>1 DEF Sound
        <3>4. CASE "LISTEN" \notin word
            <4>1. num_samples + nbread <= Listen + PipeSize + 2
                BY <2>1, <2>2, <2>5, <2>8, <3>4
            <4> QED
                BY <2>4, <2>8, <3>1, <3>2, <4>1 DEF Sound
        <3> QED
            BY <3>3, <3>4
    <2> QED
        BY <2>1, <2>7, <2>8
<1>11. CASE StartProcess \/ TestProc \/ Decode
    BY <1>0, <1>11 DEF StartProcess, TestProc, Decode, Goto, audio
<1> QED
    BY <1>2, <1>3, <1>4, <1>5, <1>6, <1>7, <1>8, <1>9, <1>10, <1>11 DEF MainStep

\* What was lost stays lost.
LEMMA LostForGood == [Next]_vars /\ ~lost' => ~lost
    BY DEF Next, Tick, TimerStep, TestBit, StoreCount, TestZero, ClearBit, MainStep, LoadBit,
           StoreBit, StoreWord, Loop, TestListen, Read, TestWindow, StartListen,
           PrintHeader, Copy, StartProcess, TestProc, Decode, Signal, SourceEnds, vars

\* No step of either thread, nor a signal, breaks the invariant of the buffer.
LEMMA WindowStep == WindowInv /\ [Next]_vars => WindowInv'
<1> SUFFICES ASSUME WindowInv, [Next]_vars PROVE WindowInv'
    OBVIOUS
<1>1. Types /\ Types'
    BY TypesStep DEF WindowInv
<1>2. SUFFICES ASSUME ~lost' PROVE Sound'
    BY <1>1 DEF WindowInv
<1>3. ~lost
    BY <1>2, LostForGood
<1>4. Sound
    BY <1>3 DEF WindowInv
<1>5. CASE (\E arrives \in BOOLEAN : Tick(arrives)) \/ TimerStep
    BY <1>1, <1>2, <1>3, <1>4, <1>5, TimerSound
<1>6. CASE MainStep
    BY <1>1, <1>2, <1>3, <1>4, <1>6, MainSound
<1>7. CASE Signal \/ SourceEnds \/ UNCHANGED vars
    <2>1. UNCHANGED <<num_samples, nbread, main, word, counter, pipe, timer, count>>
        BY <1>7 DEF Signal, SourceEnds, vars, audio, timerVars
    <2> QED
        BY <1>4, <2>1 DEF Sound, InHand, WindowInPlace, Counting, BudgetOpen,
                          BudgetClosed, Bounded, Open, Left, Due
<1> QED
    BY <1>5, <1>6, <1>7 DEF Next

\* What main() of decodeFT8.cpp copies into signalDSP, an index it checks against
\* nothing, stays inside the array as long as neither thread undoes an update of
\* the other: however long the slots, however slow the main loop.
THEOREM SamplesFitHolds == Spec => []SamplesFit
<1>1. WindowInv => SamplesFit
    BY DEF WindowInv, Types, Sound, Bounded, SamplesFit
<1> QED
    BY <1>1, WindowInit, WindowStep, PTL DEF Spec

-----------------------------------------------------------------------------
(* Slots and their headers: when a window is opened, the first second of   *)
(* its slot must be over before the next can be.                           *)

\* The places at which a window is being opened, ...
Starting == {"skip_on", "skip_off", "first_off", "window_on", "count"}

\* ... those at which audio is read, ...
Polling == {"listen", "read", "window", "copy"}

\* ... and those from the end of the reading to the next.
Ending == {"process", "proc_on", "proc", "decode", "giveup_on", "proc_off",
           "window_off", "loop", "listen_on"}

\* The timer thread is at one of the places for LISTEN.
TimerIn(places) == timer.bit = "LISTEN" /\ timer.at \in places

\* The countdown of a window has not been started, or it has been.
Unstarted == main \in Starting \/ (main \in Polling /\ "WINDOW" \notin word)
Started == main \in During /\ "WINDOW" \in word

SlotTypes ==
    /\ running \in BOOLEAN
    /\ clock \in 0 .. Slots * Slot - 1
    /\ away \in Int /\ away >= -1
    /\ gap \in Int
    /\ prevslot \in 0 .. Slots - 1

\* LISTEN is cleared by its countdown alone, ...
Stopped ==
    "LISTEN" \notin word =>
        ~TimerIn({"store", "zero", "clear"}) /\ counter["LISTEN"] <= 0

\* ... and by nothing else does the reading end, but a signal.
EndedByCount ==
    /\ main \in Ending /\ running => "LISTEN" \notin word
    /\ main = "listen_on" => running

WindowOn == main \in {"count", "header", "giveup_off"} => "WINDOW" \in word

\* Before it is started a countdown is past zero and clears nothing.
NotCounting ==
    Unstarted =>
        /\ "LISTEN" \in word
        /\ counter["LISTEN"] <= 0
        /\ ~TimerIn({"clear"})
        /\ TimerIn({"zero"}) => counter["LISTEN"] < 0 /\ count < 0

\* The two readings of the counter that TestZero may use agree on zero.
ZeroIsZero ==
    /\ TimerIn({"clear"}) => counter["LISTEN"] = 0
    /\ TimerIn({"zero"}) => (count = 0 <=> counter["LISTEN"] = 0)

\* The first second of the slot of the last window is over.
Late == away = 0 => clock % Slot >= Opening

\* A window that is over, or has still to be opened, was of an earlier slot or
\* second; ...
LateWhenOver ==
    /\ main \in Ending /\ running => Late
    /\ main \in Polling /\ "WINDOW" \notin word => Late
    /\ Started /\ "LISTEN" \notin word => Late

\* ... and an open one has lasted for what its countdown has counted.
Elapsed ==
    Started /\ "LISTEN" \in word /\ away = 0 => clock % Slot >= Listen - 1 - Left

\* A window is opened slots after the last one.
GapCounted == main \in Starting \cup {"header"} => gap > 0

SlotSound ==
    /\ Stopped
    /\ EndedByCount
    /\ WindowOn
    /\ NotCounting
    /\ ZeroIsZero
    /\ LateWhenOver
    /\ Elapsed
    /\ GapCounted

SlotInv == SlotTypes /\ (~lost => SlotSound)

-----------------------------------------------------------------------------

\* The first window may open in the second the decoder is started in.
LEMMA SlotInit == Init => SlotInv
<1> SUFFICES ASSUME Init PROVE SlotInv
    OBVIOUS
<1>1. SlotTypes
    BY DEF Init, SlotTypes
<1>2. /\ main = "loop" /\ running /\ away = -1
      /\ counter["LISTEN"] = 0 /\ timer.at = "sleep" /\ word = {"FIRST"}
    BY DEF Init, Counted, Asleep
<1>3. SlotSound
    BY <1>2 DEF SlotSound, Stopped, EndedByCount, WindowOn, NotCounting, ZeroIsZero,
                LateWhenOver, Late, Elapsed, GapCounted, TimerIn, Unstarted, Started,
                Starting, Polling, During, Ending
<1> QED
    BY <1>1, <1>3 DEF SlotInv

\* Time goes on in the slot of the last window, or to another slot.
LEMMA TickTime ==
    ASSUME SlotTypes, NEW arrives \in BOOLEAN, Tick(arrives)
    PROVE  /\ clock' \in 0 .. Slots * Slot - 1
           /\ away' \in Int /\ away' >= -1
           /\ away' = 0 => away = 0 /\ clock' % Slot = (clock % Slot) + 1
<1>1. /\ clock' = (clock + 1) % (Slots * Slot)
      /\ away' = IF clock' % Slot = 0 /\ away \in 0 .. MaxMissed THEN away + 1 ELSE away
    BY DEF Tick
<1>2. Slots \in Nat \ {0} /\ Slot \in Nat \ {0} /\ clock \in 0 .. Slots * Slot - 1
    BY DEF SlotTypes
<1>3. clock' = (clock + 1) % (Slots * Slot)
    BY <1>1
<1>4. Follows(Slots, Slot, clock, clock')
    BY <1>2, <1>3, ClockTick
<1>5. clock % Slot \in Nat
    BY <1>2, Division
<1>6. /\ clock' \in 0 .. Slots * Slot - 1
      /\ clock' % Slot = 0 \/ clock' % Slot = (clock % Slot) + 1
    BY <1>4 DEF Follows
<1> QED
    BY <1>1, <1>5, <1>6 DEF SlotTypes

\* The clock and the counts of slots stay what they are.
LEMMA SlotTypesStep ==
    ASSUME SlotTypes, [Next]_vars
    PROVE  SlotTypes'
<1> USE DEF SlotTypes
<1>1. ASSUME NEW arrives \in BOOLEAN, Tick(arrives) PROVE SlotTypes'
    BY <1>1, TickTime DEF Tick, world, mainVars, audio
<1>2. CASE TimerStep
    BY <1>2 DEF TimerStep, TestBit, StoreCount, TestZero, ClearBit, world, time, mainVars,
                audio
<1>3. CASE TestWindow
    <2>1. clock \div Slot \in 0 .. Slots - 1
        BY ClockTick DEF Follows
    <2> QED
        BY <1>3, <2>1 DEF TestWindow, world
<1>4. CASE LoadBit \/ StoreBit \/ Loop \/ TestListen \/ Read
           \/ StartListen \/ PrintHeader \/ Copy \/ StartProcess \/ TestProc \/ Decode
    BY <1>4 DEF LoadBit, StoreBit, Loop, TestListen, Read, StartListen, PrintHeader, Copy,
                StartProcess, TestProc, Decode, world, time, audio
<1>5. CASE Signal \/ SourceEnds \/ UNCHANGED vars
    BY <1>5 DEF Signal, SourceEnds, vars, world, time, audio
<1> QED
    BY <1>1, <1>2, <1>3, <1>4, <1>5 DEF Next, MainStep

\* The timer thread closes a window only when the countdown has covered the first
\* second of its slot.
LEMMA TimerKeepsSlots ==
    ASSUME Types, Sound, SlotTypes, SlotSound, ~lost, ~lost',
           (\E arrives \in BOOLEAN : Tick(arrives)) \/ TimerStep
    PROVE  SlotSound'
<1> USE DEF Types
<1>0. UNCHANGED <<main, gap, running>>
    BY DEF Tick, TimerStep, TestBit, StoreCount, TestZero, ClearBit, mainVars, audio, world
<1>1. GapCounted'
    BY <1>0 DEF SlotSound, GapCounted
<1>2. ASSUME NEW arrives \in BOOLEAN, Tick(arrives) PROVE SlotSound'
    <2>1. /\ UNCHANGED <<word, counter, count>> /\ timer.at = "sleep"
          /\ timer = Asleep /\ timer' = [at |-> "test", bit |-> "LISTEN"]
        BY <1>2 DEF Tick, TimerAt, Asleep, Ticking
    <2>2. away' = 0 => away = 0 /\ clock' % Slot = (clock % Slot) + 1
        BY <1>2, TickTime
    <2>3. clock % Slot \in Nat
        BY Division DEF SlotTypes
    <2>4. Left' = Left - 1 /\ Left \in Int
        BY <2>1 DEF Left, Due, Asleep, Counted
    <2>5. (Started' <=> Started) /\ (Unstarted' <=> Unstarted)
        BY <1>0, <2>1 DEF Started, Unstarted
    <2>6. Late => Late'
        BY <2>2, <2>3 DEF Late
    <2>7. ~TimerIn({"store", "zero", "clear"})' /\ ~TimerIn({"clear"})' /\ ~TimerIn({"zero"})'
        BY <2>1 DEF TimerIn
    <2>8. Stopped' /\ EndedByCount' /\ WindowOn'
        BY <1>0, <2>1, <2>7 DEF SlotSound, Stopped, EndedByCount, WindowOn
    <2>9. NotCounting' /\ ZeroIsZero'
        BY <2>1, <2>5, <2>7 DEF SlotSound, NotCounting, ZeroIsZero
    <2>10. LateWhenOver'
        BY <1>0, <2>1, <2>5, <2>6 DEF SlotSound, LateWhenOver
    <2>11. Elapsed'
        BY <2>1, <2>2, <2>3, <2>4, <2>5 DEF SlotSound, Elapsed
    <2> QED
        BY <1>1, <2>8, <2>9, <2>10, <2>11 DEF SlotSound
<1>3. ASSUME TimerStep PROVE UNCHANGED <<clock, away>>
    BY <1>3 DEF TimerStep, TestBit, StoreCount, TestZero, ClearBit, time
<1>4. CASE TestBit
    <2>1. /\ UNCHANGED <<word, counter>> /\ timer.at = "test" /\ timer \in Ticking
          /\ IF timer.bit \in word
             THEN count' = counter[timer.bit] /\ timer' = [timer EXCEPT !.at = "store"]
             ELSE UNCHANGED count /\ NextBit
        BY <1>4 DEF TestBit, TimerAt, Asleep
    <2>2. TimerIn({"store", "zero", "clear"})' => "LISTEN" \in word
        BY <2>1 DEF TimerIn, NextBit, Asleep, Ticking
    <2>3. ~TimerIn({"clear"})' /\ ~TimerIn({"zero"})'
        BY <2>1 DEF TimerIn, NextBit, Asleep, Ticking
    <2>4. (Started' <=> Started) /\ (Unstarted' <=> Unstarted)
        BY <1>0, <2>1 DEF Started, Unstarted
    <2>5. Stopped' /\ EndedByCount' /\ WindowOn'
        BY <1>0, <2>1, <2>2 DEF SlotSound, Stopped, EndedByCount, WindowOn
    <2>6. NotCounting' /\ ZeroIsZero'
        BY <2>1, <2>3, <2>4 DEF SlotSound, NotCounting, ZeroIsZero
    <2>7. LateWhenOver'
        BY <1>0, <1>3, <1>4, <2>1, <2>4 DEF SlotSound, LateWhenOver, Late, TimerStep
    <2>8. Started /\ "LISTEN" \in word => Left' = Left
        BY <2>1 DEF Left, Due, NextBit, Asleep, Ticking, Counted
    <2>9. Elapsed'
        BY <1>3, <1>4, <2>1, <2>4, <2>8 DEF SlotSound, Elapsed, TimerStep
    <2> QED
        BY <1>1, <2>5, <2>6, <2>7, <2>9 DEF SlotSound
<1>5. CASE StoreCount
    <2>0. timer.at = "store" /\ timer # Asleep
        BY <1>5 DEF StoreCount, Asleep
    <2>1. /\ UNCHANGED word /\ timer.at = "store" /\ timer \in Ticking
          /\ counter[timer.bit] = count
          /\ timer' = [timer EXCEPT !.at = "zero"]
          /\ count' = Decremented(count)
          /\ counter' = [counter EXCEPT ![timer.bit] = count']
        BY <1>5, <2>0 DEF StoreCount, TimerAt
    <2>2. (Started' <=> Started) /\ (Unstarted' <=> Unstarted)
        BY <1>0, <2>1 DEF Started, Unstarted
    <2>3. EndedByCount' /\ WindowOn'
        BY <1>0, <2>1 DEF SlotSound, EndedByCount, WindowOn
    <2>4. LateWhenOver'
        BY <1>0, <1>3, <1>5, <2>1, <2>2 DEF SlotSound, LateWhenOver, Late, TimerStep
    <2>5. CASE timer.bit = "LISTEN"
        <3>1. /\ timer' = [at |-> "zero", bit |-> "LISTEN"]
              /\ counter'["LISTEN"] = count' /\ counter["LISTEN"] = count
              /\ Due /\ ~Due' /\ TimerIn({"store", "zero", "clear"})
            BY <2>1, <2>5 DEF Ticking, Due, Counted, TimerIn
        <3>2. "LISTEN" \in word
            BY <3>1 DEF SlotSound, Stopped
        <3>3. Stopped'
            BY <2>1, <3>2 DEF Stopped
        <3>4. count <= 0 => count' < 0
            BY <2>1 DEF Decremented
        <3>5. NotCounting'
            <4>0. UNCHANGED word
                BY <2>1
            <4>1. Unstarted => count <= 0
                BY <3>1 DEF SlotSound, NotCounting
            <4>2. ~TimerIn({"clear"})'
                BY <3>1 DEF TimerIn
            <4>3. Unstarted => count' \in Int /\ count' < 0 /\ counter'["LISTEN"] = count'
                BY <2>1, <3>1, <3>4, <4>1 DEF Decremented
            <4> QED
                BY <2>2, <3>2, <4>0, <4>2, <4>3 DEF NotCounting
        <3>6. ZeroIsZero'
            BY <3>1 DEF ZeroIsZero, TimerIn
        <3>7. Started => count >= 1
            BY <2>1, <2>5, <3>1, <3>2 DEF Sound, Counting, Started, Open
        <3>8. Started => Left' = Left
            BY <2>1, <3>1, <3>7 DEF Left, Decremented
        <3>9. Elapsed'
            BY <1>3, <1>5, <2>1, <2>2, <3>8 DEF SlotSound, Elapsed, TimerStep
        <3> QED
            BY <1>1, <2>3, <2>4, <3>3, <3>5, <3>6, <3>9 DEF SlotSound
    <2>6. CASE timer.bit = "PROC"
        <3>1. /\ counter'["LISTEN"] = counter["LISTEN"] /\ timer'.bit = "PROC"
              /\ ~Due /\ ~Due'
            BY <2>1, <2>6 DEF Ticking, Due, Counted
        <3>2. Stopped' /\ NotCounting' /\ ZeroIsZero'
            BY <2>1, <2>2, <3>1 DEF SlotSound, Stopped, NotCounting, ZeroIsZero, TimerIn
        <3>3. Elapsed'
            BY <1>3, <1>5, <2>1, <2>2, <3>1 DEF SlotSound, Elapsed, Left, TimerStep
        <3> QED
            BY <1>1, <2>3, <2>4, <3>2, <3>3 DEF SlotSound
    <2> QED
        BY <2>1, <2>5, <2>6 DEF Ticking, Counted
<1>6. CASE TestZero
    <2>1. /\ UNCHANGED <<word, counter>> /\ timer.at = "zero" /\ timer \in Ticking
          /\ \E value \in {counter[timer.bit], count} :
                 IF value = 0 THEN timer' = [timer EXCEPT !.at = "clear"] ELSE NextBit
        BY <1>6 DEF TestZero, TimerAt, Asleep
    <2>2. (Started' <=> Started) /\ (Unstarted' <=> Unstarted)
        BY <1>0, <2>1 DEF Started, Unstarted
    <2>3. EndedByCount' /\ WindowOn'
        BY <1>0, <2>1 DEF SlotSound, EndedByCount, WindowOn
    <2>4. LateWhenOver'
        BY <1>0, <1>3, <1>6, <2>1, <2>2 DEF SlotSound, LateWhenOver, Late, TimerStep
    <2>5. ~Due /\ ~Due'
        BY <2>1 DEF Due, NextBit, Ticking, Asleep
    <2>6. Elapsed'
        BY <1>3, <1>6, <2>1, <2>2, <2>5 DEF SlotSound, Elapsed, Left, TimerStep
    <2>7. /\ ~TimerIn({"zero"})'
          /\ TimerIn({"store", "zero", "clear"})' => TimerIn({"zero"})
          /\ TimerIn({"clear"})' =>
                 TimerIn({"zero"}) /\ (counter["LISTEN"] = 0 \/ count = 0)
        BY <2>1 DEF TimerIn, NextBit, Ticking, Asleep
    <2>8. TimerIn({"zero"}) => TimerIn({"store", "zero", "clear"})
        BY DEF TimerIn
    <2>9. Stopped'
        BY <2>1, <2>7, <2>8 DEF SlotSound, Stopped
    <2>10. NotCounting'
        BY <2>1, <2>2, <2>7 DEF SlotSound, NotCounting, Counted
    <2>11. ZeroIsZero'
        BY <2>1, <2>2, <2>7 DEF SlotSound, ZeroIsZero
    <2> QED
        BY <1>1, <2>3, <2>4, <2>6, <2>9, <2>10, <2>11 DEF SlotSound
<1>7. CASE ClearBit
    <2>0. timer.at = "clear" /\ timer # Asleep
        BY <1>7 DEF ClearBit, Asleep
    <2>1. /\ UNCHANGED <<counter, count>> /\ timer.at = "clear" /\ timer \in Ticking
          /\ word' = word \ {timer.bit} /\ NextBit
        BY <1>7, <2>0 DEF ClearBit, StoreWord
    <2>2. timer.bit \in Counted /\ ("WINDOW" \in word <=> "WINDOW" \in word')
        BY <2>1 DEF Ticking, Counted
    <2>3. (Started' <=> Started) /\ (Unstarted' <=> Unstarted)
        BY <1>0, <2>2 DEF Started, Unstarted
    <2>4. ~TimerIn({"store", "zero", "clear"})' /\ ~TimerIn({"clear"})' /\ ~TimerIn({"zero"})'
        BY <2>1 DEF TimerIn, NextBit, Asleep
    <2>5. NotCounting' /\ ZeroIsZero'
        <3>1. Unstarted => "LISTEN" \in word'
            BY <2>1 DEF SlotSound, NotCounting, TimerIn
        <3> QED
            BY <2>1, <2>3, <2>4, <3>1 DEF SlotSound, NotCounting, ZeroIsZero
    <2>6. EndedByCount' /\ WindowOn'
        BY <1>0, <2>1, <2>2 DEF SlotSound, EndedByCount, WindowOn
    <2>7. CASE timer.bit = "LISTEN"
        <3>1. TimerIn({"clear"}) /\ TimerIn({"store", "zero", "clear"}) /\ ~Due
            BY <2>1, <2>7 DEF TimerIn, Due
        <3>2. "LISTEN" \in word /\ "LISTEN" \notin word'
            BY <2>1, <2>7, <3>1 DEF SlotSound, Stopped
        <3>3. Left = 0
            BY <3>1 DEF SlotSound, ZeroIsZero, Left
        <3>4. clock % Slot \in Nat
            BY Division DEF SlotTypes
        <3>5. Started => Late
            BY <3>2, <3>3, <3>4 DEF SlotSound, Elapsed, Late
        <3>6. LateWhenOver'
            BY <1>0, <1>3, <1>7, <2>2, <2>3, <3>5 DEF SlotSound, LateWhenOver, Late, TimerStep
        <3>8. counter["LISTEN"] = 0
            BY <3>1 DEF SlotSound, ZeroIsZero
        <3>9. Elapsed'
            BY <3>2 DEF Elapsed
        <3>10. Stopped'
            BY <2>1, <2>4, <3>8 DEF Stopped
        <3> QED
            BY <1>1, <2>5, <2>6, <3>6, <3>9, <3>10 DEF SlotSound
    <2>8. CASE timer.bit = "PROC"
        <3>1. /\ "LISTEN" \in word' <=> "LISTEN" \in word
              /\ ~Due /\ ~Due'
            BY <2>1, <2>8 DEF Due, NextBit, Asleep
        <3>2. Stopped'
            BY <2>1, <2>4, <3>1 DEF SlotSound, Stopped
        <3>3. LateWhenOver'
            BY <1>0, <1>3, <1>7, <2>2, <2>3, <3>1 DEF SlotSound, LateWhenOver, Late, TimerStep
        <3>4. Elapsed'
            BY <1>3, <1>7, <2>1, <2>3, <3>1 DEF SlotSound, Elapsed, Left, TimerStep
        <3> QED
            BY <1>1, <2>5, <2>6, <3>2, <3>3, <3>4 DEF SlotSound
    <2> QED
        BY <2>2, <2>7, <2>8 DEF Counted
<1> QED
    BY <1>2, <1>4, <1>5, <1>6, <1>7 DEF TimerStep

-----------------------------------------------------------------------------

\* The main loop opens one only when that second is over.
LEMMA MainKeepsSlots ==
    ASSUME Types, Sound, SlotTypes, SlotSound, ~lost, ~lost', MainStep
    PROVE  SlotSound'
<1> USE DEF Types, SlotSound, TimerIn
<1> USE DEF Stopped, EndedByCount, WindowOn, NotCounting, ZeroIsZero, LateWhenOver, Elapsed,
            GapCounted, Unstarted, Started, During, Starting, Polling, Ending
<1>0. UNCHANGED <<timer, count, clock>>
    BY DEF MainStep, LoadBit, StoreBit, Loop, TestListen, Read, TestWindow, StartListen,
           PrintHeader, Copy, StartProcess, TestProc, Decode, timerVars, time
<1>1. (Due' <=> Due) /\ (counter' = counter => Left' = Left)
    BY <1>0 DEF Due, Left
<1>2. away' = away => (Late' <=> Late)
    BY <1>0 DEF Late
<1> HIDE DEF Left
<1>3. CASE LoadBit
    <2>1. UNCHANGED <<main, word, counter, running, away, gap>>
        BY <1>3 DEF LoadBit, audio, world, time
    <2> QED
        BY <1>0, <1>1, <1>2, <2>1
<1>4. CASE StoreBit
    <2>1. /\ UNCHANGED <<counter, running, away, gap>>
          /\ main \in DOMAIN SetWord
          /\ main' = SetWord[main].then
          /\ word' = IF SetWord[main].val THEN word \cup {SetWord[main].bit}
                                          ELSE word \ {SetWord[main].bit}
        BY <1>4 DEF StoreBit, StoreWord, Goto, world, time
    <2>2. CASE main = "listen_on"
        <3>1. "WINDOW" \notin word /\ running /\ "LISTEN" \notin word
            BY <2>2 DEF Sound, WindowInPlace, Before
        <3>2. main' = "listen" /\ word' = word \cup {"LISTEN"}
            BY <2>1, <2>2 DEF SetWord
        <3> QED
            BY <1>0, <1>1, <1>2, <2>1, <2>2, <3>1, <3>2
    <2>3. CASE main \in {"skip_on", "skip_off", "first_off"}
        <3>1. /\ main' \in {"first_off", "window_on"}
              /\ "LISTEN" \in word' <=> "LISTEN" \in word
            BY <2>1, <2>3 DEF SetWord
        <3> QED
            BY <1>0, <1>1, <1>2, <2>1, <2>3, <3>1
    <2>4. CASE main = "window_on"
        BY <1>0, <1>1, <1>2, <2>1, <2>4 DEF SetWord
    <2>5. CASE main = "giveup_off"
        BY <1>0, <1>1, <1>2, <2>1, <2>5 DEF SetWord
    <2>6. CASE main \in {"proc_on", "giveup_on", "proc_off", "window_off"}
        <3>1. /\ main' \in {"proc", "proc_off", "loop"}
              /\ "LISTEN" \in word' <=> "LISTEN" \in word
            BY <2>1, <2>6 DEF SetWord
        <3> QED
            BY <1>0, <1>1, <1>2, <2>1, <2>6, <3>1
    <2> QED
        BY <2>1, <2>2, <2>3, <2>4, <2>5, <2>6 DEF SetWord
<1>5. CASE Loop
    BY <1>0, <1>1, <1>2, <1>5 DEF Loop, Goto, world, time
<1>6. CASE TestListen
    <2>1. UNCHANGED <<counter, word, running, away, gap>> /\ main = "listen"
          /\ main' = IF "LISTEN" \in word /\ running THEN "read" ELSE "process"
        BY <1>6 DEF TestListen, Goto, world, time
    <2> QED
        BY <1>0, <1>1, <1>2, <2>1
<1>7. CASE Read
    <2>1. UNCHANGED <<counter, word, running, away, gap>> /\ main = "read"
          /\ main' = "window"
        BY <1>7 DEF Read, Goto, world, time
    <2> QED
        BY <1>0, <1>1, <1>2, <2>1
<1>8. CASE TestWindow
    <2>1. UNCHANGED <<counter, word, running>> /\ main = "window"
        BY <1>8 DEF TestWindow, world
    <2>2. CASE Opens
        <3>1. /\ main' \in {"skip_on", "skip_off"} /\ away' = 0
              /\ gap' = IF away = -1 THEN 1 ELSE away
              /\ "WINDOW" \notin word /\ clock % Slot < Opening
            BY <1>8, <2>2 DEF TestWindow, Goto, Opens
        <3>2. clock % Slot \in Nat
            BY Division DEF SlotTypes
        <3>3. away # 0
            BY <2>1, <3>1, <3>2 DEF Late
        <3>4. gap' > 0
            BY <3>1, <3>3 DEF SlotTypes
        <3> QED
            BY <1>0, <1>1, <2>1, <3>1, <3>4
    <2>3. CASE ~Opens
        <3>1. main' = "copy" /\ UNCHANGED <<away, gap>>
            BY <1>8, <2>3 DEF TestWindow, Goto
        <3> QED
            BY <1>0, <1>1, <1>2, <2>1, <3>1
    <2> QED
        BY <2>2, <2>3
<1>9. CASE StartListen
    <2>1. /\ UNCHANGED <<word, running, away, gap>>
          /\ main = "count" /\ main' = "header"
          /\ counter'["LISTEN"] = Listen
        BY <1>9 DEF StartListen, Goto, Counted, world, time
    <2>2. clock % Slot \in Nat
        BY Division DEF SlotTypes
    <2>3. Left' = Listen \/ Left' = Listen - 1
        BY <2>1 DEF Left
    <2>4. Elapsed'
        BY <1>0, <2>2, <2>3
    <2>5. "LISTEN" \in word
        BY <2>1
    <2> QED
        BY <1>0, <1>2, <2>1, <2>4, <2>5
<1>10. CASE PrintHeader
    <2>1. UNCHANGED <<counter, word, running, away>> /\ main = "header"
          /\ main' = "giveup_off"
        BY <1>10 DEF PrintHeader, Goto, world, time, audio
    <2> QED
        BY <1>0, <1>1, <1>2, <2>1
<1>11. CASE Copy
    <2>1. UNCHANGED <<counter, word, running, away, gap>> /\ main = "copy"
          /\ main' = "listen"
        BY <1>11 DEF Copy, Goto, world, time
    <2> QED
        BY <1>0, <1>1, <1>2, <2>1
<1>12. CASE StartProcess \/ TestProc \/ Decode
    <2>1. /\ UNCHANGED <<word, running, away, gap>>
          /\ counter'["LISTEN"] = counter["LISTEN"]
          /\ main \in {"process", "proc", "decode"}
          /\ main' \in {"proc_on", "window_off", "decode", "proc_off", "giveup_on"}
        BY <1>12 DEF StartProcess, TestProc, Decode, Goto, Counted, world, time
    <2> QED
        BY <1>0, <1>2, <2>1
<1> QED
    BY <1>3, <1>4, <1>5, <1>6, <1>7, <1>8, <1>9, <1>10, <1>11, <1>12 DEF MainStep

\* No step of either thread, nor a signal, breaks the invariant of the slots.
LEMMA SlotStep == WindowInv /\ SlotInv /\ [Next]_vars => SlotInv'
<1> SUFFICES ASSUME WindowInv, SlotInv, [Next]_vars PROVE SlotInv'
    OBVIOUS
<1>1. Types /\ SlotTypes /\ SlotTypes'
    BY SlotTypesStep DEF WindowInv, SlotInv
<1>2. SUFFICES ASSUME ~lost' PROVE SlotSound'
    BY <1>1 DEF SlotInv
<1>3. ~lost
    BY <1>2, LostForGood
<1>4. Sound /\ SlotSound
    BY <1>3 DEF WindowInv, SlotInv
<1>5. CASE (\E arrives \in BOOLEAN : Tick(arrives)) \/ TimerStep
    BY <1>1, <1>2, <1>3, <1>4, <1>5, TimerKeepsSlots
<1>6. CASE MainStep
    BY <1>1, <1>2, <1>3, <1>4, <1>6, MainKeepsSlots
<1>7. CASE Signal \/ SourceEnds \/ UNCHANGED vars
    <2>1. /\ UNCHANGED <<main, word, counter, timer, count, clock, away, gap>>
          /\ running' => running
          /\ main = "listen_on" => running' = running
        BY <1>7 DEF Signal, SourceEnds, vars, world, time, timerVars
    <2>2. Late' <=> Late
        BY <2>1 DEF Late
    <2> QED
        BY <1>4, <2>1, <2>2 DEF SlotSound, Stopped, EndedByCount, WindowOn, NotCounting,
            ZeroIsZero, LateWhenOver, Elapsed, GapCounted, Unstarted, Started, TimerIn, Left,
            Due
<1> QED
    BY <1>5, <1>6, <1>7 DEF Next

\* One window a slot: the main loop of decodeFT8.cpp opens none while the second
\* in which it opened the last one is not over, since the countdown it started
\* lasts longer, whatever the two threads do in between.
THEOREM OneHeaderPerSlotHolds == Spec => []OneHeaderPerSlot
<1>1. SlotInv => OneHeaderPerSlot
    BY DEF SlotInv, SlotSound, GapCounted, OneHeaderPerSlot
<1> QED
    BY <1>1, WindowInit, WindowStep, SlotInit, SlotStep, PTL DEF Spec

-----------------------------------------------------------------------------
(* What a header says of the slots since the last window.                  *)

\* The places from the comparison with the last slot to the header.
Comparing == {"skip_on", "skip_off", "first_off"}
Compared == {"window_on", "count", "header"}

\* FIRST stands for there having been no window yet, until one is opened.
FirstMarked ==
    /\ main \in Comparing => away >= 0
    /\ main \notin Comparing => (away = -1 <=> "FIRST" \in word)

\* The slot in course is as many slots after that of the last window as counted.
Distance == away \in 0 .. MaxMissed => clock \div Slot = (prevslot + away) % Slots

\* The window being opened does not come in the next slot.
Skips == gap % Slots # 1 % Slots

\* SKIP, or the place that is about to set or reset it, says so.
Labelled ==
    gap <= MaxMissed =>
        /\ main = "skip_on" => Skips
        /\ main = "skip_off" => ~Skips
        /\ main \in Compared \cup {"first_off"} => ("SKIP" \in word <=> Skips)

HeaderInv == Distance /\ (~lost => FirstMarked /\ Labelled)

\* No header is due, and FIRST is set.
LEMMA HeaderInit == Init => HeaderInv
BY DEF Init, HeaderInv, Distance, FirstMarked, Labelled, Comparing, Compared

\* The clock and the count of slots move together.
LEMMA DistanceStep ==
    ASSUME SlotTypes, Distance, [Next]_vars
    PROVE  Distance'
<1>1. CASE \E arrives \in BOOLEAN : Tick(arrives)
    <2>1. PICK arrives \in BOOLEAN : Tick(arrives)
        BY <1>1
    <2>2. /\ clock' = (clock + 1) % (Slots * Slot)
          /\ away' = IF clock' % Slot = 0 /\ away \in 0 .. MaxMissed THEN away + 1
                                                                     ELSE away
          /\ prevslot' = prevslot
        BY <2>1 DEF Tick, mainVars, audio
    <2>3. Slots \in Nat \ {0} /\ Slot \in Nat \ {0} /\ clock \in 0 .. Slots * Slot - 1
        BY DEF SlotTypes
    <2>4. Follows(Slots, Slot, clock, clock')
        BY <2>2, <2>3, ClockTick
    <2>5. CASE clock' % Slot = 0 /\ away \in 0 .. MaxMissed
        <3>1. clock \div Slot = (prevslot + away) % Slots /\ away' = away + 1
            BY <2>2, <2>5 DEF Distance
        <3>2. clock % Slot \in Nat
            BY <2>3, Division
        <3>3. clock' \div Slot = (((prevslot + away) % Slots) + 1) % Slots
            <4>1. clock' % Slot # (clock % Slot) + 1
                BY <2>5, <3>2
            <4>2. clock' \div Slot = ((clock \div Slot) + 1) % Slots
                BY <2>4, <4>1 DEF Follows
            <4> QED
                BY <3>1, <4>2
        <3>4. PICK x \in Nat : x = prevslot + away
            BY <2>5 DEF SlotTypes
        <3>5. ((x % Slots) + 1) % Slots = (x + 1) % Slots
            BY <2>3, NextModulo
        <3>6. prevslot' + away' = x + 1
            BY <2>2, <2>5, <3>1, <3>4 DEF SlotTypes
        <3> QED
            BY <3>3, <3>4, <3>5, <3>6 DEF Distance
    <2>6. CASE ~(clock' % Slot = 0 /\ away \in 0 .. MaxMissed)
        <3>1. away' = away
            BY <2>2, <2>6
        <3>2. away \in 0 .. MaxMissed => clock' \div Slot = clock \div Slot
            BY <2>4, <2>6 DEF Follows
        <3> QED
            BY <2>2, <3>1, <3>2 DEF Distance
    <2> QED
        BY <2>5, <2>6
<1>2. CASE TestWindow
    <2>1. CASE Opens
        <3>1. away' = 0 /\ prevslot' = clock \div Slot /\ clock' = clock
            BY <1>2, <2>1 DEF TestWindow
        <3>2. clock \div Slot \in 0 .. Slots - 1
            BY ClockTick DEF Follows, SlotTypes
        <3>3. (prevslot' + away') % Slots = prevslot'
            <4>1. PICK x \in 0 .. Slots - 1 : x = prevslot'
                BY <3>1, <3>2
            <4>2. x % Slots = x
                BY SmallModulo
            <4> QED
                BY <3>1, <4>1, <4>2
        <3> QED
            BY <3>1, <3>3 DEF Distance
    <2>2. CASE ~Opens
        BY <1>2, <2>2 DEF TestWindow, Distance
    <2> QED
        BY <2>1, <2>2
<1>3. CASE TimerStep
    <2>1. UNCHANGED <<clock, away, prevslot>>
        BY <1>3 DEF TimerStep, TestBit, StoreCount, TestZero, ClearBit, time, mainVars, audio
    <2> QED
        BY <2>1 DEF Distance
<1>4. CASE LoadBit \/ StoreBit \/ Loop \/ TestListen \/ Read \/ StartListen \/ PrintHeader
           \/ Copy \/ StartProcess \/ TestProc \/ Decode \/ Signal \/ SourceEnds
           \/ UNCHANGED vars
    <2>1. UNCHANGED <<clock, away, prevslot>>
        BY <1>4 DEF LoadBit, StoreBit, Loop, TestListen, Read, StartListen, PrintHeader, Copy,
                    StartProcess, TestProc, Decode, Signal, SourceEnds, vars, time, audio
    <2> QED
        BY <2>1 DEF Distance
<1> QED
    BY <1>1, <1>2, <1>3, <1>4 DEF Next, MainStep

\* (prevslot+1)%4 != slot tells slots missed, as long as they can be told.
LEMMA SkippedTold ==
    ASSUME SlotTypes, Distance, away \in 0 .. MaxMissed
    PROVE  (prevslot + 1) % Slots # clock \div Slot <=> away % Slots # 1 % Slots
<1>1. clock \div Slot = (prevslot + away) % Slots
    BY DEF Distance
<1>2. Slots \in Nat \ {0} /\ prevslot \in Nat /\ away \in Nat /\ 1 \in Nat
    BY DEF SlotTypes
<1>3. PICK p \in Nat : p = prevslot
    BY <1>2
<1>4. PICK a \in Nat : a = away
    BY <1>2
<1>5. PICK o \in Nat : o = 1
    OBVIOUS
<1>6. Moved(Slots, p, o, a)
    BY <1>2, SameModulo
<1> QED
    BY <1>1, <1>3, <1>4, <1>5, <1>6 DEF Moved

\* What FIRST and SKIP say stays true.
LEMMA HeaderStep == WindowInv /\ SlotInv /\ HeaderInv /\ [Next]_vars => HeaderInv'
<1> SUFFICES ASSUME WindowInv, SlotInv, HeaderInv, [Next]_vars PROVE HeaderInv'
    OBVIOUS
<1>1. Types /\ SlotTypes /\ Distance /\ Distance'
    BY DistanceStep DEF WindowInv, SlotInv, HeaderInv
<1>2. SUFFICES ASSUME ~lost' PROVE FirstMarked' /\ Labelled'
    BY <1>1 DEF HeaderInv
<1>3. ~lost /\ FirstMarked /\ Labelled
    BY <1>2, LostForGood DEF HeaderInv
<1>4. CASE \E arrives \in BOOLEAN : Tick(arrives)
    <2>1. UNCHANGED <<main, word, gap>>
        BY <1>4 DEF Tick, mainVars
    <2>2. away' = away \/ (away >= 0 /\ away' = away + 1)
        BY <1>4 DEF Tick
    <2>3. (away = -1 <=> away' = -1) /\ (away >= 0 => away' >= 0)
        BY <1>1, <2>2 DEF SlotTypes
    <2> QED
        BY <1>3, <2>1, <2>3 DEF FirstMarked, Labelled, Skips
<1>5. CASE TimerStep
    <2>1. UNCHANGED <<main, away, gap>>
        BY <1>5 DEF TimerStep, TestBit, StoreCount, TestZero, ClearBit, mainVars, time
    <2>2. UNCHANGED word \/ \E bit \in Counted : word' = word \ {bit}
        <3>1. CASE ClearBit
            <4>1. timer.bit \in Counted
                BY <1>1, <3>1 DEF Types, ClearBit, Ticking, Asleep
            <4> QED
                BY <1>2, <3>1, <4>1 DEF ClearBit, StoreWord
        <3>2. CASE TestBit \/ StoreCount \/ TestZero
            BY <3>2 DEF TestBit, StoreCount, TestZero
        <3> QED
            BY <1>5, <3>1, <3>2 DEF TimerStep
    <2>3. /\ "FIRST" \in word' <=> "FIRST" \in word
          /\ "SKIP" \in word' <=> "SKIP" \in word
        BY <2>2 DEF Counted
    <2> QED
        BY <1>3, <2>1, <2>3 DEF FirstMarked, Labelled, Skips
<1>6. CASE StoreBit
    <2>1. /\ UNCHANGED <<away, gap>>
          /\ main \in DOMAIN SetWord
          /\ main' = SetWord[main].then
          /\ word' = IF SetWord[main].val THEN word \cup {SetWord[main].bit}
                                          ELSE word \ {SetWord[main].bit}
        BY <1>2, <1>6 DEF StoreBit, StoreWord, Goto, time
    <2> USE DEF FirstMarked, Labelled, Comparing, Compared
    <2> HIDE DEF Skips
    <2>2. Skips' <=> Skips
        BY <2>1 DEF Skips
    <2>3. CASE main = "skip_on"
        <3>1. main' = "first_off" /\ word' = word \cup {"SKIP"}
            BY <2>1, <2>3 DEF SetWord
        <3> QED
            BY <1>3, <2>1, <2>2, <2>3, <3>1
    <2>4. CASE main = "skip_off"
        <3>1. main' = "first_off" /\ word' = word \ {"SKIP"}
            BY <2>1, <2>4 DEF SetWord
        <3> QED
            BY <1>3, <2>1, <2>2, <2>4, <3>1
    <2>5. CASE main = "first_off"
        <3>1. main' = "window_on" /\ word' = word \ {"FIRST"}
            BY <2>1, <2>5 DEF SetWord
        <3>2. away # -1
            BY <1>1, <1>3, <2>5 DEF SlotTypes
        <3> QED
            BY <1>3, <2>1, <2>2, <2>5, <3>1, <3>2
    <2>6. CASE main = "window_on"
        <3>1. main' = "count" /\ word' = word \cup {"WINDOW"}
            BY <2>1, <2>6 DEF SetWord
        <3> QED
            BY <1>3, <2>1, <2>2, <2>6, <3>1
    <2>7. CASE main \in {"listen_on", "giveup_off", "proc_on", "giveup_on", "proc_off",
                        "window_off"}
        <3>1. /\ main' \in {"listen", "copy", "proc", "proc_off", "loop"}
              /\ "FIRST" \in word' <=> "FIRST" \in word
            BY <2>1, <2>7 DEF SetWord
        <3> QED
            BY <1>3, <2>1, <2>2, <2>7, <3>1
    <2> QED
        BY <2>1, <2>3, <2>4, <2>5, <2>6, <2>7 DEF SetWord
<1>7. CASE TestWindow
    <2>1. main = "window" /\ UNCHANGED word
        BY <1>7 DEF TestWindow
    <2>2. away = -1 <=> "FIRST" \in word
        BY <1>3, <2>1 DEF FirstMarked, Comparing
    <2>3. CASE Opens
        <3>1. /\ main' = IF Skipped(clock \div Slot) THEN "skip_on" ELSE "skip_off"
              /\ away' = 0
              /\ gap' = IF away = -1 THEN 1 ELSE away
            BY <1>7, <2>3 DEF TestWindow, Goto
        <3>2. ASSUME gap' <= MaxMissed
              PROVE  Skipped(clock \div Slot) <=> gap' % Slots # 1 % Slots
            <4>1. CASE away = -1
                BY <2>2, <3>1, <4>1 DEF Skipped
            <4>2. CASE away # -1
                <5>1. away \in 0 .. MaxMissed /\ gap' = away
                    BY <1>1, <3>1, <3>2, <4>2 DEF SlotTypes
                <5> QED
                    BY <1>1, <2>2, <4>2, <5>1, SkippedTold DEF Skipped
            <4> QED
                BY <4>1, <4>2
        <3>3. FirstMarked'
            BY <3>1 DEF FirstMarked, Comparing
        <3>4. Labelled'
            BY <3>1, <3>2 DEF Labelled, Skips, Compared
        <3> QED
            BY <3>3, <3>4
    <2>4. CASE ~Opens
        <3>1. main' = "copy" /\ UNCHANGED <<away, gap>>
            BY <1>7, <2>4 DEF TestWindow, Goto
        <3> QED
            BY <2>1, <2>2, <3>1 DEF FirstMarked, Labelled, Comparing, Compared
    <2> QED
        BY <2>3, <2>4
<1>8. CASE StartListen
    <2>1. UNCHANGED <<word, away, gap>> /\ main = "count" /\ main' = "header"
        BY <1>8 DEF StartListen, Goto, time
    <2> QED
        BY <1>3, <2>1 DEF FirstMarked, Labelled, Skips, Comparing, Compared
<1>9. CASE LoadBit \/ Loop \/ TestListen \/ Read \/ PrintHeader \/ Copy \/ StartProcess
           \/ TestProc \/ Decode \/ Signal \/ SourceEnds \/ UNCHANGED vars
    <2>1. CASE LoadBit \/ Signal \/ SourceEnds \/ UNCHANGED vars
        <3>1. UNCHANGED <<main, word, away, gap>>
            BY <2>1 DEF LoadBit, Signal, SourceEnds, vars, time
        <3> QED
            BY <1>3, <3>1 DEF FirstMarked, Labelled, Skips
    <2>2. CASE Loop \/ TestListen \/ Read \/ PrintHeader \/ Copy \/ StartProcess \/ TestProc
               \/ Decode
        <3>1. /\ UNCHANGED <<word, away>>
              /\ main \notin Comparing /\ main' \notin Comparing \cup Compared
            BY <2>2 DEF Loop, TestListen, Read, PrintHeader, Copy, StartProcess, TestProc,
                        Decode, Goto, time, Comparing, Compared
        <3> QED
            BY <1>3, <3>1 DEF FirstMarked, Labelled, Comparing
    <2> QED
        BY <1>9, <2>1, <2>2
<1> QED
    BY <1>4, <1>5, <1>6, <1>7, <1>8, <1>9 DEF Next, MainStep

\* The header main() of decodeFT8.cpp prints tells whether slots went by without a
\* window, for as many as the model counts and any number of slots in a minute, as
\* long as neither thread undoes an update of the other.
THEOREM HeaderTruthfulHolds == Spec => []HeaderTruthful
<1>1. HeaderInv => HeaderTruthful
    BY DEF HeaderInv, HeaderTruthful, Labelled, Skips, Compared
<1> QED
    BY <1>1, WindowInit, WindowStep, SlotInit, SlotStep, HeaderInit, HeaderStep, PTL DEF Spec

-----------------------------------------------------------------------------
(* The type invariant, updates lost or not.                                *)

\* What the timer thread stores it has loaded.
Loaded == timer.at = "clear" => reg["timer"] \in SUBSET Bits

TypeInv == TypeOK /\ Loaded

\* Every variable starts in its type, ...
LEMMA TypeInit == Init => TypeInv
<1> SUFFICES ASSUME Init PROVE TypeInv
    OBVIOUS
<1>4. /\ 0 \in 0 .. PipeSize /\ 0 \in 0 .. BufferSize + 1 /\ 0 \in 0 .. Slots - 1
      /\ 0 \in 0 .. MaxLag /\ 0 \in 0 .. MaxMissed + 1
    OBVIOUS
<1>5. 0 \in -1 .. Listen + Process
    OBVIOUS
<1>6. -1 \in -1 .. MaxMissed + 1
    OBVIOUS
<1> USE DEF Init
<1>1. counter \in [Counted -> -1 .. Listen + Process] /\ word \in SUBSET Bits
    BY DEF Bits
<1>2. reg \in [{"main", "timer"} -> (SUBSET Bits) \cup {Free}]
    OBVIOUS
<1>3. main \in Places /\ timer \in Ticking \cup {Asleep} /\ Loaded
    BY DEF Places, Loaded, Asleep
<1> QED
    BY <1>1, <1>2, <1>3, <1>4, <1>5, <1>6 DEF TypeInv, TypeOK

\* ... and no step takes it out of it.
LEMMA TypeStep == TypeInv /\ [Next]_vars => TypeInv'
<1> SUFFICES ASSUME TypeInv, [Next]_vars PROVE TypeInv'
    OBVIOUS
<1>0. /\ reg \in [{"main", "timer"} -> (SUBSET Bits) \cup {Free}]
      /\ word \in SUBSET Bits /\ lost \in BOOLEAN
      /\ timer.at = "clear" => reg["timer"] \in SUBSET Bits
    BY DEF TypeInv, TypeOK, Loaded
<1>12. ASSUME NEW t \in {"main", "timer"}, NEW bit \in Bits, NEW val,
               reg[t] \in SUBSET Bits, StoreWord(t, bit, val)
        PROVE  /\ word' \in SUBSET Bits /\ lost' \in BOOLEAN
               /\ reg' \in [{"main", "timer"} -> (SUBSET Bits) \cup {Free}]
               /\ t = "main" => reg'["timer"] = reg["timer"]
    <2>1. /\ word' = IF val THEN reg[t] \cup {bit} ELSE reg[t] \ {bit}
          /\ lost' = (lost \/ word # reg[t])
          /\ reg' = [reg EXCEPT ![t] = Free]
        BY <1>12 DEF StoreWord
    <2>2. word' \in SUBSET Bits
        BY <1>12, <2>1
    <2>3. lost' \in BOOLEAN
        BY <1>0, <2>1
    <2>4. /\ reg' \in [{"main", "timer"} -> (SUBSET Bits) \cup {Free}]
          /\ t = "main" => reg'["timer"] = reg["timer"]
        <3>1. Free \in (SUBSET Bits) \cup {Free}
            BY Zenon
        <3> HIDE DEF Bits, Free
        <3> QED
            BY <1>0, <2>1, <3>1
    <2> QED
        BY <2>2, <2>3, <2>4
<1>7. CASE StoreBit
    <2>1. main \in DOMAIN SetWord /\ reg["main"] \in SUBSET Bits
        <3>1. reg["main"] \in (SUBSET Bits) \cup {Free}
            BY <1>0
        <3>2. main \in DOMAIN SetWord /\ reg["main"] # Free
            BY <1>7 DEF StoreBit
        <3> QED
            BY <3>1, <3>2, Zenon
    <2>2. SetWord[main].bit \in Bits /\ SetWord[main].then \in Places
        <3>1. SetWord[main].bit \in {"LISTEN", "SKIP", "FIRST", "WINDOW", "GIVEUP", "PROC"}
            BY <2>1 DEF SetWord
        <3>2. SetWord[main].then \in
                  {"listen", "first_off", "window_on", "count", "copy", "proc", "proc_off",
                   "loop"}
            BY <2>1 DEF SetWord
        <3> QED
            BY <3>1, <3>2 DEF Bits, Places, SetWord
    <2>3. StoreWord("main", SetWord[main].bit, SetWord[main].val)
        BY <1>7 DEF StoreBit
    <2>4. /\ word' \in SUBSET Bits /\ lost' \in BOOLEAN
          /\ reg' \in [{"main", "timer"} -> (SUBSET Bits) \cup {Free}]
          /\ reg'["timer"] = reg["timer"]
        BY <1>12, <2>1, <2>2, <2>3
    <2>5. main' \in Places
        BY <1>7, <2>2 DEF StoreBit, Goto
    <2> QED
        BY <1>7, <2>4, <2>5
           DEF StoreBit, world, time, audio, timerVars, TypeInv, TypeOK, Loaded
<1> USE DEF TypeInv, TypeOK, Loaded
<1>1. ASSUME NEW arrives \in BOOLEAN, Tick(arrives) PROVE TypeInv'
    <2>1. UNCHANGED <<world, word, counter, reg, count, lost, mainVars>>
        BY <1>1 DEF Tick
    <2>2. pipe' \in 0 .. PipeSize /\ lag' \in 0 .. MaxLag
        BY <1>1 DEF Tick, Deliver
    <2>3. clock' \in 0 .. Slots * Slot - 1
        <3>1. Slots \in Nat \ {0} /\ Slot \in Nat \ {0} /\ clock \in 0 .. Slots * Slot - 1
            OBVIOUS
        <3>2. clock' = (clock + 1) % (Slots * Slot)
            BY <1>1 DEF Tick
        <3> QED
            BY <3>1, <3>2, ClockTick DEF Follows
    <2>4. away' \in -1 .. MaxMissed + 1
        <3>1. away' = away \/ (away \in 0 .. MaxMissed /\ away' = away + 1)
            BY <1>1 DEF Tick
        <3> QED
            BY <3>1
    <2>5. timer' \in Ticking /\ timer'.at # "clear"
        BY <1>1 DEF Tick, TimerAt, Ticking, Asleep, Counted
    <2> QED
        BY <2>1, <2>2, <2>3, <2>4, <2>5 DEF world, mainVars, audio
<1>2. CASE TestBit
    <2>1. UNCHANGED <<world, time, pipe, word, counter, reg, lost, lag, mainVars>>
        BY <1>2 DEF TestBit
    <2>2. /\ timer' \in Ticking \cup {Asleep} /\ timer'.at # "clear"
          /\ count' \in -1 .. Listen + Process
        BY <1>2 DEF TestBit, TimerAt, NextBit, Ticking, Asleep, Counted
    <2> QED
        BY <2>1, <2>2 DEF world, time, mainVars, audio
<1>3. CASE StoreCount
    <2>1. UNCHANGED <<world, time, pipe, word, reg, lag, mainVars>> /\ lost' \in BOOLEAN
        BY <1>3 DEF StoreCount
    <2>2. count' \in -1 .. Listen + Process
        BY <1>3 DEF StoreCount, Decremented
    <2>3. counter' \in [Counted -> -1 .. Listen + Process]
        BY <1>3, <2>2 DEF StoreCount
    <2>4. timer' \in Ticking /\ timer'.at # "clear"
        BY <1>3 DEF StoreCount, TimerAt, Ticking, Asleep
    <2> QED
        BY <2>1, <2>2, <2>3, <2>4 DEF world, time, mainVars, audio
<1>4. CASE TestZero
    <2>1. UNCHANGED <<world, time, pipe, word, counter, lost, lag, mainVars>> /\ count' = 0
        BY <1>4 DEF TestZero
    <2>2. /\ timer' \in Ticking \cup {Asleep}
          /\ \/ LoadWord("timer")
             \/ UNCHANGED reg /\ timer'.at # "clear"
        BY <1>4 DEF TestZero, TimerAt, NextBit, Ticking, Asleep, Counted
    <2>3. reg' \in [{"main", "timer"} -> (SUBSET Bits) \cup {Free}] /\ Loaded'
        BY <2>2 DEF LoadWord
    <2>4. 0 \in -1 .. Listen + Process
        OBVIOUS
    <2> QED
        BY <2>1, <2>2, <2>3, <2>4 DEF world, time, mainVars, audio
<1>5. CASE ClearBit
    <2>1. UNCHANGED <<world, time, pipe, counter, count, lag, mainVars>>
        BY <1>5 DEF ClearBit
    <2>2. /\ timer' \in Ticking \cup {Asleep} /\ timer'.at # "clear"
        BY <1>5 DEF ClearBit, NextBit, Ticking, Asleep, Counted
    <2>3. /\ word' \in SUBSET Bits /\ lost' \in BOOLEAN
          /\ reg' \in [{"main", "timer"} -> (SUBSET Bits) \cup {Free}]
        <3>1. timer.bit \in Bits /\ reg["timer"] \in SUBSET Bits
            BY <1>0, <1>5 DEF ClearBit, Ticking, Asleep, Counted, Bits
        <3> QED
            BY <1>5, <1>12, <3>1 DEF ClearBit
    <2> QED
        BY <2>1, <2>2, <2>3 DEF world, time, mainVars, audio
<1>6. CASE LoadBit
    <2>1. /\ reg' \in [{"main", "timer"} -> (SUBSET Bits) \cup {Free}]
          /\ reg'["timer"] = reg["timer"]
        BY <1>6 DEF LoadBit, LoadWord
    <2> QED
        BY <1>6, <2>1 DEF LoadBit, world, time, audio, timerVars
<1>8. CASE TestWindow
    <2>1. /\ UNCHANGED <<world, clock, timerVars, pipe, word, counter, num_samples, nbread,
                         lag, reg, lost>>
          /\ main' \in Places
        BY <1>8 DEF TestWindow, Goto, Places, SetWord
    <2>2. /\ prevslot' \in {prevslot, clock \div Slot} /\ away' \in {away, 0}
          /\ gap' \in {gap, 1, away} /\ (gap' = away => gap' = gap \/ away # -1)
        BY <1>8 DEF TestWindow
    <2>3. clock \div Slot \in 0 .. Slots - 1
        BY ClockTick DEF Follows
    <2> QED
        BY <2>1, <2>2, <2>3 DEF world, timerVars
<1>9. CASE Loop \/ TestListen \/ Read \/ PrintHeader \/ Copy \/ TestProc \/ Decode
    <2>1. /\ UNCHANGED <<running, source, clock, away, prevslot, timer, count, word, counter,
                         reg, lost>>
          /\ main' \in Places /\ gap' \in {gap, 0} /\ lag' \in {lag, 0}
        BY <1>9 DEF Loop, TestListen, Read, PrintHeader, Copy, TestProc, Decode, Goto, Places,
                    SetWord, world, time, timerVars, audio
    <2>2. /\ pipe' \in 0 .. PipeSize /\ nbread' \in {0, 1}
          /\ num_samples' \in 0 .. BufferSize + 1
        BY <1>9 DEF Loop, TestListen, Read, PrintHeader, Copy, TestProc, Decode, audio
    <2> QED
        BY <2>1, <2>2
<1>10. CASE StartListen \/ StartProcess
    <2>1. /\ UNCHANGED <<running, source, clock, away, prevslot, nbread, timer, count, pipe,
                         word, lag, reg, lost, gap>>
          /\ main' \in Places /\ num_samples' \in {num_samples, 0}
        BY <1>10 DEF StartListen, StartProcess, Goto, Places, SetWord, world, time, timerVars,
                     audio
    <2>2. counter' \in [Counted -> -1 .. Listen + Process]
        BY <1>10 DEF StartListen, StartProcess
    <2> QED
        BY <2>1, <2>2
<1>11. CASE Signal \/ SourceEnds \/ UNCHANGED vars
    BY <1>11 DEF Signal, SourceEnds, vars, world, time, audio, timerVars
<1> QED
    BY <1>1, <1>2, <1>3, <1>4, <1>5, <1>6, <1>7, <1>8, <1>9, <1>10, <1>11
       DEF Next, TimerStep, MainStep

\* The words, counters and places of both threads of decodeFT8.cpp stay within
\* their types; of the samples it says only what the bound on them says.
THEOREM TypeHolds == Spec => []TypeOK
<1>1. TypeInv => TypeOK
    BY DEF TypeInv
<1> QED
    BY <1>1, TypeInit, TypeStep, PTL DEF Spec
=============================================================================
