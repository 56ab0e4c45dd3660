---------------------------- MODULE PttPathProofs ----------------------------
(***************************************************************************)
(* What the way of a push-to-talk request promises for every number of     *)
(* requests and every block, burst and pipe size: first the chain of       *)
(* generator and sender, whose steps those of the path are, and then,      *)
(* with stores in program order, the path from end to end.                 *)
(***************************************************************************)
EXTENDS PttPath, PttMailboxProofs

USE SizesAssumption, TransmitAssumption

-----------------------------------------------------------------------------
(* The chain.                                                              *)

\* A sample that a sender, with or without DDS, takes for a command.
Asks(dds, sample) == sample = "1111" \/ (dds /\ sample = "2222")

\* Without DDS the generator never gives the command the sender, started
\* without DDS, would not recognise.
OnlyKnownCommands ==
    ~fdds =>
        /\ command # "2222" /\ order # "2222"
        /\ \A i \in 1 .. Len(pipe) : pipe[i] # "2222"

\* With -i commands go to the segment and none to the pipe, and without it the
\* other way round.  Without DDS the mode then never changes.
OneWayOnly ==
    /\ ipc => \A i \in 1 .. Len(pipe) : pipe[i] \notin Commands
    /\ ~ipc => order = "none"
    /\ ipc /\ ~fdds => mode = "IQ"

\* What a sender in mode start is told by the first n samples: the mode that
\* the last command among them asks for, or its own if there is none.
Told(dds, start, samples, n, wanted) ==
    \/ start = wanted /\ \A i \in 1 .. n : ~Asks(dds, samples[i])
    \/ \E last \in 1 .. n :
           /\ Asks(dds, samples[last]) /\ ModeAsked(samples[last]) = wanted
           /\ \A i \in last + 1 .. n : ~Asks(dds, samples[i])

\* The segment, or else all of the pipe, tells the mode of the keying, ...
LastTold ==
    IF order # "none" THEN ModeAsked(order) = ModeFor(keyed)
                      ELSE Told(fdds, mode, pipe, Len(pipe), ModeFor(keyed))

\* ... and as much of the pipe as a sample ends, the one it was written under.
EachTold ==
    ~(fdds /\ ipc) =>
        \A i \in 1 .. Len(pipe) :
            pipe[i] \notin Commands => Told(fdds, mode, pipe, i, ModeFor(pipe[i] = "voice"))

ChainInv ==
    /\ fdds \in BOOLEAN /\ ipc \in BOOLEAN
    /\ keyed \in BOOLEAN
    /\ running \in BOOLEAN /\ forced \in BOOLEAN
    /\ command \in Commands \cup {"none"}
    /\ order \in Commands \cup {"none"}
    /\ pipe \in Seq(Samples) /\ Len(pipe) <= PipeSize
    /\ gpio \in {0, 1}
    /\ mode \in Modes
    /\ OnlyKnownCommands
    /\ OneWayOnly
    /\ NoCommandOnAir
    /\ PinFollowsKey
    /\ LastTold
    /\ EachTold

\* The mode is that of the last command, if there is one.
LEMMA ModeOfLast ==
    ASSUME NEW samples, NEW n \in Nat, NEW last \in 1 .. n,
           Asks(fdds, samples[last]), \A i \in last + 1 .. n : ~Asks(fdds, samples[i])
    PROVE  ModeAt(samples, n) = ModeAsked(samples[last])
<1> DEFINE asked == {i \in 1 .. n : \/ samples[i] = "1111"
                                    \/ fdds /\ samples[i] = "2222"}
           final == CHOOSE i \in asked : \A j \in asked : j <= i
<1>1. last \in asked
    BY DEF Asks
<1>2. \A j \in asked : j <= last
    BY DEF Asks
<1>3. final = last
    BY <1>1, <1>2
<1> QED
    BY <1>1, <1>3 DEF ModeAt, ModeAsked

\* It is the sender's mode otherwise.
LEMMA ModeOfNone ==
    ASSUME NEW samples, NEW n \in Nat, \A i \in 1 .. n : ~Asks(fdds, samples[i])
    PROVE  ModeAt(samples, n) = mode
BY DEF ModeAt, Asks

\* What a sender was told is the mode it looks at the sample in.
LEMMA ToldMode ==
    ASSUME NEW samples, NEW n \in Nat, NEW wanted,
           Told(fdds, mode, samples, n, wanted)
    PROVE  ModeAt(samples, n) = wanted
<1>1. CASE mode = wanted /\ \A i \in 1 .. n : ~Asks(fdds, samples[i])
    BY <1>1, ModeOfNone
<1>2. ASSUME NEW last \in 1 .. n,
             Asks(fdds, samples[last]), ModeAsked(samples[last]) = wanted,
             \A i \in last + 1 .. n : ~Asks(fdds, samples[i])
      PROVE  ModeAt(samples, n) = wanted
    BY <1>2, ModeOfLast
<1> QED
    BY <1>1, <1>2 DEF Told

\* Samples that are no commands, added behind, tell nothing new.
LEMMA ToldLonger ==
    ASSUME NEW dds, NEW start, NEW wanted, NEW samples, NEW longer,
           NEW n \in Nat, NEW m \in Nat, n <= m,
           \A i \in 1 .. n : longer[i] = samples[i],
           \A i \in n + 1 .. m : ~Asks(dds, longer[i]),
           Told(dds, start, samples, n, wanted)
    PROVE  Told(dds, start, longer, m, wanted)
<1>1. CASE start = wanted /\ \A i \in 1 .. n : ~Asks(dds, samples[i])
    <2>1. ASSUME NEW i \in 1 .. m PROVE ~Asks(dds, longer[i])
        <3>1. i \in 1 .. n \/ i \in n + 1 .. m
            OBVIOUS
        <3> QED
            BY <1>1, <3>1
    <2> QED
        BY <1>1, <2>1 DEF Told
<1>2. ASSUME NEW last \in 1 .. n,
             Asks(dds, samples[last]), ModeAsked(samples[last]) = wanted,
             \A i \in last + 1 .. n : ~Asks(dds, samples[i])
      PROVE  Told(dds, start, longer, m, wanted)
    <2>1. last \in 1 .. m /\ longer[last] = samples[last]
        OBVIOUS
    <2>2. ASSUME NEW i \in last + 1 .. m PROVE ~Asks(dds, longer[i])
        <3>1. (i \in last + 1 .. n /\ i \in 1 .. n) \/ i \in n + 1 .. m
            OBVIOUS
        <3> QED
            BY <1>2, <3>1
    <2>3. Asks(dds, longer[last]) /\ ModeAsked(longer[last]) = wanted
        BY <1>2, <2>1
    <2> QED
        BY <2>1, <2>2, <2>3 DEF Told
<1> QED
    BY <1>1, <1>2 DEF Told

\* A sender that has read the first n samples is told the same by the rest.
LEMMA ToldRest ==
    ASSUME NEW samples, NEW rest, NEW wanted, NEW n \in Nat, NEW m \in Nat,
           \A i \in 1 .. m : rest[i] = samples[n + i],
           Told(fdds, mode, samples, n + m, wanted)
    PROVE  Told(fdds, ModeAt(samples, n), rest, m, wanted)
<1>0. \A i \in 1 .. m : n + i \in 1 .. n + m
    OBVIOUS
<1>1. CASE mode = wanted /\ \A i \in 1 .. n + m : ~Asks(fdds, samples[i])
    <2>1. \A i \in 1 .. n : ~Asks(fdds, samples[i])
        BY <1>1
    <2>2. ModeAt(samples, n) = wanted
        BY <1>1, <2>1, ModeOfNone
    <2>3. \A i \in 1 .. m : ~Asks(fdds, rest[i])
        BY <1>0, <1>1
    <2> QED
        BY <2>2, <2>3 DEF Told
<1>2. ASSUME NEW last \in 1 .. n + m,
             Asks(fdds, samples[last]), ModeAsked(samples[last]) = wanted,
             \A i \in last + 1 .. n + m : ~Asks(fdds, samples[i])
      PROVE  Told(fdds, ModeAt(samples, n), rest, m, wanted)
    <2>1. CASE last <= n
        <3>1. last \in 1 .. n /\ \A i \in last + 1 .. n : ~Asks(fdds, samples[i])
            BY <1>2, <2>1
        <3>2. ModeAt(samples, n) = wanted
            BY <1>2, <3>1, ModeOfLast
        <3>3. \A i \in 1 .. m : n + i \in last + 1 .. n + m
            BY <2>1
        <3>4. \A i \in 1 .. m : ~Asks(fdds, rest[i])
            BY <1>2, <3>3
        <3> QED
            BY <3>2, <3>4 DEF Told
    <2>2. CASE ~(last <= n)
        <3>1. /\ last - n \in 1 .. m /\ n + (last - n) = last
              /\ \A i \in (last - n) + 1 .. m :
                     i \in 1 .. m /\ n + i \in last + 1 .. n + m
            BY <2>2
        <3>2. rest[last - n] = samples[last]
            BY <3>1
        <3>3. \A i \in (last - n) + 1 .. m : ~Asks(fdds, rest[i])
            BY <1>2, <3>1
        <3>4. Asks(fdds, rest[last - n]) /\ ModeAsked(rest[last - n]) = wanted
            BY <1>2, <3>2
        <3> QED
            BY <3>1, <3>3, <3>4 DEF Told
    <2> QED
        BY <2>1, <2>2
<1> QED
    BY <1>1, <1>2 DEF Told

\* What is sent for a sample is never a command.
LEMMA ConvertedIsClean ==
    ASSUME NEW samples \in Seq(Samples), NEW n \in 1 .. Len(samples),
           ~fdds => samples[n] # "2222"
    PROVE  Converted(samples, n) \notin Commands
<1>1. CASE samples[n] = "1111" \/ samples[n] = "2222"
    <2>1. Asks(fdds, samples[n])
        BY <1>1 DEF Asks
    <2>2. ModeAt(samples, n) = ModeAsked(samples[n])
        BY <2>1, ModeOfLast
    <2> QED
        BY <1>1, <2>2 DEF Converted, Commands, ModeAsked
<1>2. CASE samples[n] \notin Commands
    BY <1>2 DEF Converted, Commands
<1> QED
    BY <1>1, <1>2 DEF Commands

\* A write adds its samples behind those in the pipe.
LEMMA Written ==
    ASSUME NEW samples \in Seq(Samples), Write(samples), pipe \in Seq(Samples)
    PROVE  /\ pipe' \in Seq(Samples)
           /\ Len(pipe') = Len(pipe) + Len(samples) /\ Len(pipe') <= PipeSize
           /\ \A i \in 1 .. Len(pipe) : pipe'[i] = pipe[i]
           /\ \A i \in 1 .. Len(samples) : pipe'[Len(pipe) + i] = samples[i]
           /\ \A i \in 1 .. Len(pipe') :
                  i \in 1 .. Len(pipe) \/ i - Len(pipe) \in 1 .. Len(samples)
BY DEF Write

LEMMA ChainInit == Init => ChainInv
<1> SUFFICES ASSUME Init PROVE ChainInv
    OBVIOUS
<1>1. /\ pipe = <<>> /\ Len(pipe) = 0 /\ pipe \in Seq(Samples)
      /\ Len(aired.samples) = 0
    BY DEF Init
<1>2. mode = ModeFor(keyed) /\ mode \in Modes
    BY DEF Init, ModeFor, Modes
<1>3. LastTold /\ EachTold
    BY <1>1, <1>2 DEF Init, LastTold, EachTold, Told
<1>4. OnlyKnownCommands /\ OneWayOnly /\ NoCommandOnAir /\ PinFollowsKey
    BY <1>1 DEF Init, OnlyKnownCommands, OneWayOnly, NoCommandOnAir, PinFollowsKey
<1> QED
    <2>1. /\ fdds \in BOOLEAN /\ ipc \in BOOLEAN /\ keyed \in BOOLEAN
          /\ running \in BOOLEAN /\ forced \in BOOLEAN
          /\ command = "none" /\ order = "none" /\ gpio = 0
        BY DEF Init
    <2>2. Len(pipe) <= PipeSize
        BY <1>1
    <2> QED
        BY <1>1, <1>2, <1>3, <1>4, <2>1, <2>2 DEF ChainInv

\* Unless mode changes overtake the samples, the pipe tells the mode of the
\* keying: with -i and no DDS there is one mode only.
LEMMA ToldInPipe ==
    ASSUME ChainInv, ~(fdds /\ ipc)
    PROVE  Told(fdds, mode, pipe, Len(pipe), ModeFor(keyed))
<1>1. CASE order = "none"
    BY <1>1 DEF ChainInv, LastTold
<1>2. CASE order # "none"
    <2>1. ipc /\ ~fdds /\ mode = "IQ"
        BY <1>2 DEF ChainInv, OneWayOnly
    <2>2. \A i \in 1 .. Len(pipe) : ~Asks(fdds, pipe[i])
        BY <2>1 DEF ChainInv, OneWayOnly, Asks, Commands
    <2>3. ModeFor(keyed) = "IQ"
        BY <2>1 DEF ModeFor
    <2> QED
        BY <2>1, <2>2, <2>3 DEF Told
<1> QED
    BY <1>1, <1>2

\* A block holds no command, so that what was told last still is.
LEMMA BlockTells ==
    ASSUME ChainInv, Block
    PROVE  pipe' \in Seq(Samples) /\ Len(pipe') <= PipeSize
           /\ OnlyKnownCommands' /\ OneWayOnly' /\ LastTold' /\ EachTold'
<1> DEFINE samples == [i \in 1 .. BlockLen |-> IF keyed THEN "voice" ELSE "zero"]
<1>1. /\ samples \in Seq(Samples) /\ Len(samples) = BlockLen
      /\ \A i \in 1 .. Len(samples) :
             samples[i] \notin Commands /\ (samples[i] = "voice" <=> keyed)
    BY DEF Samples, Commands
<1>2. Write(samples) /\ UNCHANGED <<fdds, ipc, keyed, command, order, mode>>
    BY DEF Block
<1> HIDE DEF samples
<1>3. pipe \in Seq(Samples) /\ OnlyKnownCommands /\ OneWayOnly /\ LastTold /\ EachTold
    BY DEF ChainInv
<1>4. /\ pipe' \in Seq(Samples)
      /\ Len(pipe') = Len(pipe) + Len(samples) /\ Len(pipe') <= PipeSize
      /\ \A i \in 1 .. Len(pipe) : pipe'[i] = pipe[i]
      /\ \A i \in 1 .. Len(samples) : pipe'[Len(pipe) + i] = samples[i]
      /\ \A i \in 1 .. Len(pipe') :
             i \in 1 .. Len(pipe) \/ i - Len(pipe) \in 1 .. Len(samples)
    BY <1>1, <1>2, <1>3, Written
<1>5. \A i \in 1 .. Len(pipe') :
          \/ i \in 1 .. Len(pipe)
          \/ pipe'[i] \notin Commands /\ (pipe'[i] = "voice" <=> keyed)
    <2> SUFFICES ASSUME NEW i \in 1 .. Len(pipe'), i \notin 1 .. Len(pipe)
                 PROVE  pipe'[i] \notin Commands /\ (pipe'[i] = "voice" <=> keyed)
        OBVIOUS
    <2>1. i - Len(pipe) \in 1 .. Len(samples)
        BY <1>4
    <2>2. Len(pipe) + (i - Len(pipe)) = i
        BY <1>3, <1>4
    <2> QED
        BY <1>1, <1>4, <2>1, <2>2
<1>6. Len(pipe) \in Nat /\ Len(pipe') \in Nat /\ Len(pipe) <= Len(pipe')
    BY <1>1, <1>3, <1>4
<1>7. OnlyKnownCommands' /\ OneWayOnly'
    BY <1>2, <1>3, <1>4, <1>5 DEF OnlyKnownCommands, OneWayOnly, Commands
<1>8. ASSUME NEW m \in Len(pipe) .. Len(pipe'), NEW wanted,
             Told(fdds, mode, pipe, Len(pipe), wanted)
      PROVE  Told(fdds, mode, pipe', m, wanted)
    <2>1. \A i \in Len(pipe) + 1 .. m : ~Asks(fdds, pipe'[i])
        <3>1. \A i \in Len(pipe) + 1 .. m : i \in 1 .. Len(pipe') /\ i \notin 1 .. Len(pipe)
            BY <1>6
        <3> QED
            BY <1>5, <3>1 DEF Asks, Commands
    <2>2. m \in Nat /\ Len(pipe) <= m
        BY <1>6
    <2> QED
        BY <1>4, <1>6, <1>8, <2>1, <2>2, ToldLonger
<1>9. LastTold'
    <2>1. order = "none" => Told(fdds, mode, pipe', Len(pipe'), ModeFor(keyed))
        BY <1>3, <1>6, <1>8 DEF LastTold
    <2>2. ModeFor(keyed)' = ModeFor(keyed)
        BY <1>2 DEF ModeFor
    <2> QED
        BY <1>2, <1>3, <2>1, <2>2 DEF LastTold
<1>10. ASSUME ~(fdds /\ ipc), NEW i \in 1 .. Len(pipe'), pipe'[i] \notin Commands
       PROVE  Told(fdds, mode, pipe', i, ModeFor(pipe'[i] = "voice"))
    <2>1. CASE i \in 1 .. Len(pipe)
        <3>1. pipe'[i] = pipe[i] /\ Told(fdds, mode, pipe, i, ModeFor(pipe[i] = "voice"))
            BY <1>3, <1>4, <1>10, <2>1 DEF EachTold
        <3>2. /\ \A j \in 1 .. i : pipe'[j] = pipe[j]
              /\ \A j \in i + 1 .. i : ~Asks(fdds, pipe'[j])
            BY <1>4, <1>6, <2>1
        <3> QED
            BY <3>1, <3>2, ToldLonger
    <2>2. CASE i \notin 1 .. Len(pipe)
        <3>1. i \in Len(pipe) .. Len(pipe')
            BY <1>6, <2>2
        <3>2. ModeFor(pipe'[i] = "voice") = ModeFor(keyed)
            BY <1>5, <2>2 DEF ModeFor
        <3>3. Told(fdds, mode, pipe, Len(pipe), ModeFor(keyed))
            BY <1>10, ToldInPipe
        <3> QED
            BY <1>8, <3>1, <3>2, <3>3
    <2> QED
        BY <2>1, <2>2
<1>11. EachTold'
    BY <1>2, <1>10 DEF EachTold, ModeFor
<1> QED
    BY <1>4, <1>7, <1>9, <1>11

\* A command that setPTT() writes is the last word.
LEMMA TellTells ==
    ASSUME ChainInv, Tell, ~ipc
    PROVE  pipe' \in Seq(Samples) /\ Len(pipe') <= PipeSize
           /\ OnlyKnownCommands' /\ OneWayOnly' /\ LastTold' /\ EachTold'
<1>1. /\ Write(<<command>>) /\ keyed' = (command = "1111") /\ command' = "none"
      /\ UNCHANGED <<fdds, ipc, order, mode>> /\ command \in Commands
    BY DEF Tell, ChainInv
<1>2. /\ pipe \in Seq(Samples) /\ OnlyKnownCommands /\ OneWayOnly /\ EachTold
      /\ order = "none"
    BY DEF ChainInv, OneWayOnly
<1>3. <<command>> \in Seq(Samples)
    BY <1>1 DEF Samples
<1>4. /\ pipe' \in Seq(Samples)
      /\ Len(pipe') = Len(pipe) + 1 /\ Len(pipe') <= PipeSize
      /\ \A i \in 1 .. Len(pipe) : pipe'[i] = pipe[i]
      /\ pipe'[Len(pipe) + 1] = command
    <2>1. Len(<<command>>) = 1 /\ <<command>>[1] = command
        OBVIOUS
    <2>2. 1 \in 1 .. Len(<<command>>)
        BY <2>1
    <2> HIDE DEF Write
    <2> QED
        BY <1>1, <1>2, <1>3, <2>1, <2>2, Written
<1>5. Len(pipe) \in Nat
    BY <1>2
<1>6. OnlyKnownCommands'
    <2> SUFFICES ASSUME ~fdds, NEW i \in 1 .. Len(pipe') PROVE pipe'[i] # "2222"
        BY <1>1, <1>2 DEF OnlyKnownCommands
    <2>1. i \in 1 .. Len(pipe) \/ i = Len(pipe) + 1
        BY <1>4, <1>5
    <2> QED
        BY <1>2, <1>4, <2>1 DEF OnlyKnownCommands
<1>6a. OneWayOnly'
    BY <1>1, <1>2 DEF OneWayOnly
<1>7. Asks(fdds, command) /\ ModeAsked(command) = ModeFor(keyed)'
    BY <1>1, <1>2 DEF Asks, ModeAsked, ModeFor, Commands, OnlyKnownCommands
<1>8. LastTold'
    <2>1. Len(pipe) + 1 \in 1 .. Len(pipe')
        BY <1>4, <1>5
    <2>2. \A i \in (Len(pipe) + 1) + 1 .. Len(pipe') : FALSE
        BY <1>4, <1>5
    <2> QED
        <3>1. \A i \in (Len(pipe) + 1) + 1 .. Len(pipe') : ~Asks(fdds', pipe'[i])
            BY <2>2
        <3>2. /\ Asks(fdds', pipe'[Len(pipe) + 1])
              /\ ModeAsked(pipe'[Len(pipe) + 1]) = ModeFor(keyed)'
            BY <1>1, <1>4, <1>7
        <3> QED
            BY <1>1, <1>2, <2>1, <3>1, <3>2 DEF LastTold, Told
<1>9. ASSUME NEW i \in 1 .. Len(pipe'), pipe'[i] \notin Commands
      PROVE  Told(fdds, mode, pipe', i, ModeFor(pipe'[i] = "voice"))
    <2>1. i \in 1 .. Len(pipe)
        BY <1>1, <1>4, <1>5, <1>9
    <2>2. pipe'[i] = pipe[i] /\ Told(fdds, mode, pipe, i, ModeFor(pipe[i] = "voice"))
        BY <1>2, <1>4, <1>9, <2>1 DEF EachTold
    <2>3. /\ \A j \in 1 .. i : pipe'[j] = pipe[j]
          /\ \A j \in i + 1 .. i : ~Asks(fdds, pipe'[j])
        BY <1>4, <1>5, <2>1
    <2> QED
        BY <2>2, <2>3, ToldLonger
<1>10. EachTold'
    BY <1>1, <1>9 DEF EachTold, ModeFor
<1> QED
    BY <1>4, <1>6, <1>6a, <1>8, <1>10

\* A command left in the segment is too.
LEMMA TellTellsPast ==
    ASSUME ChainInv, Tell, ipc
    PROVE  OnlyKnownCommands' /\ OneWayOnly' /\ LastTold' /\ EachTold'
<1>1. /\ keyed' = (command = "1111") /\ command' = "none" /\ order' = command
      /\ UNCHANGED <<fdds, ipc, mode, pipe>> /\ command \in Commands
    BY DEF Tell, ChainInv
<1>2. OnlyKnownCommands /\ OneWayOnly /\ EachTold
    BY DEF ChainInv
<1>3. OnlyKnownCommands' /\ OneWayOnly'
    BY <1>1, <1>2 DEF OnlyKnownCommands, OneWayOnly
<1>4. ModeAsked(command) = ModeFor(keyed)' /\ command # "none"
    BY <1>1, <1>2 DEF ModeAsked, ModeFor, Commands, OnlyKnownCommands
<1>5. LastTold'
    BY <1>1, <1>4 DEF LastTold
<1>6. EachTold'
    BY <1>1, <1>2 DEF EachTold, ModeFor
<1> QED
    BY <1>3, <1>5, <1>6

\* A command heeded is told by the pipe, which holds none.
LEMMA HeedTells ==
    ASSUME ChainInv, Heed
    PROVE  mode' \in Modes /\ OnlyKnownCommands' /\ OneWayOnly' /\ LastTold' /\ EachTold'
<1>1. /\ order # "none" /\ order' = "none" /\ mode' = ModeAsked(order)
      /\ UNCHANGED <<fdds, ipc, keyed, command, pipe>>
    BY DEF Heed
<1>2. OnlyKnownCommands /\ OneWayOnly /\ LastTold /\ EachTold
      /\ order \in Commands \cup {"none"}
    BY DEF ChainInv
<1>3. ipc /\ \A i \in 1 .. Len(pipe) : pipe[i] \notin Commands
    BY <1>1, <1>2 DEF OneWayOnly
<1>4. ~fdds => mode' = "IQ" /\ mode = "IQ"
    BY <1>1, <1>2, <1>3 DEF OnlyKnownCommands, OneWayOnly, ModeAsked, Commands
<1>5. OnlyKnownCommands' /\ OneWayOnly'
    BY <1>1, <1>2, <1>3, <1>4 DEF OnlyKnownCommands, OneWayOnly
<1>6. mode' = ModeFor(keyed)' /\ mode' \in Modes
    BY <1>1, <1>2 DEF LastTold, ModeFor, ModeAsked, Modes
<1>7. LastTold'
    <2>1. \A i \in 1 .. Len(pipe') : ~Asks(fdds', pipe'[i])
        BY <1>1, <1>3 DEF Asks, Commands
    <2> QED
        BY <1>1, <1>6, <2>1 DEF LastTold, Told
<1>8. EachTold'
    BY <1>1, <1>2, <1>3, <1>4 DEF EachTold, ModeFor
<1> QED
    BY <1>5, <1>6, <1>7, <1>8

\* A burst takes the commands it holds out of the pipe and obeys the last.
LEMMA SendTells ==
    ASSUME ChainInv, Send
    PROVE  pipe' \in Seq(Samples) /\ Len(pipe') <= PipeSize /\ mode' \in Modes
           /\ OnlyKnownCommands' /\ OneWayOnly' /\ NoCommandOnAir'
           /\ LastTold' /\ EachTold'
<1> DEFINE n == IF Len(pipe) >= Burst THEN Burst ELSE Len(pipe)
<1>0. /\ pipe \in Seq(Samples) /\ Len(pipe) \in Nat /\ Len(pipe) <= PipeSize
      /\ OnlyKnownCommands /\ OneWayOnly /\ LastTold /\ EachTold /\ mode \in Modes
    BY DEF ChainInv
<1>1. n \in Nat /\ n <= Len(pipe)
    BY <1>0
<1>2. /\ aired' = [samples |-> [i \in 1 .. n |-> Converted(pipe, i)],
                   mode    |-> ModeAt(pipe, n)]
      /\ mode' = ModeAt(pipe, n)
      /\ pipe' = SubSeq(pipe, n + 1, Len(pipe))
      /\ UNCHANGED <<fdds, ipc, keyed, command, order>>
    BY DEF Send
<1> HIDE DEF n
<1>3. /\ pipe' \in Seq(Samples) /\ Len(pipe') \in Nat
      /\ Len(pipe') = Len(pipe) - n /\ Len(pipe') <= PipeSize
      /\ \A i \in 1 .. Len(pipe) - n : pipe'[i] = pipe[n + i]
    BY <1>0, <1>1, <1>2
<1>4. \A i \in 1 .. Len(pipe') : n + i \in 1 .. Len(pipe) /\ pipe'[i] = pipe[n + i]
    BY <1>0, <1>1, <1>3
<1>5. OnlyKnownCommands'
    BY <1>0, <1>2, <1>4 DEF OnlyKnownCommands
<1>6. NoCommandOnAir'
    <2>1. aired'.samples = [i \in 1 .. n |-> Converted(pipe, i)]
        BY <1>2
    <2>2. Len(aired'.samples) = n
        BY <1>1, <2>1
    <2>3. \A i \in 1 .. n : Converted(pipe, i) \notin Commands
        BY <1>0, <1>1, ConvertedIsClean DEF OnlyKnownCommands
    <2> QED
        BY <2>1, <2>2, <2>3 DEF NoCommandOnAir
<1>7. mode' \in Modes
    BY <1>0, <1>2 DEF ModeAt, ModeAsked, Modes
<1>7a. OneWayOnly'
    <2>1. ipc => \A i \in 1 .. Len(pipe') : pipe'[i] \notin Commands
        BY <1>0, <1>4 DEF OneWayOnly
    <2>2. ASSUME ipc PROVE mode' = mode
        <3>1. \A i \in 1 .. n : ~Asks(fdds, pipe[i])
            BY <1>0, <1>1, <2>2 DEF OneWayOnly, Asks, Commands
        <3> QED
            BY <1>1, <1>2, <3>1, ModeOfNone
    <2> QED
        BY <1>0, <1>2, <2>1, <2>2 DEF OneWayOnly
<1>8. ASSUME NEW m \in 0 .. Len(pipe'), NEW wanted,
             Told(fdds, mode, pipe, n + m, wanted)
      PROVE  Told(fdds', mode', pipe', m, wanted)
    <2>1. m \in Nat /\ \A i \in 1 .. m : pipe'[i] = pipe[n + i]
        BY <1>3, <1>4
    <2> QED
        BY <1>1, <1>2, <1>8, <2>1, ToldRest
<1>9. LastTold'
    <2>1. n + Len(pipe') = Len(pipe) /\ Len(pipe') \in 0 .. Len(pipe')
        BY <1>0, <1>1, <1>3
    <2>2. ModeFor(keyed)' = ModeFor(keyed)
        BY <1>2 DEF ModeFor
    <2>3. order = "none" => Told(fdds', mode', pipe', Len(pipe'), ModeFor(keyed))
        BY <1>0, <1>8, <2>1 DEF LastTold
    <2> QED
        BY <1>0, <1>2, <2>2, <2>3 DEF LastTold
<1>10. EachTold'
    <2> SUFFICES ASSUME ~(fdds /\ ipc), NEW i \in 1 .. Len(pipe'), pipe'[i] \notin Commands
                 PROVE  Told(fdds', mode', pipe', i, ModeFor(pipe'[i] = "voice"))
        BY <1>2 DEF EachTold, ModeFor
    <2>1. n + i \in 1 .. Len(pipe) /\ pipe'[i] = pipe[n + i] /\ i \in 0 .. Len(pipe')
        BY <1>4
    <2>2. Told(fdds, mode, pipe, n + i, ModeFor(pipe'[i] = "voice"))
        BY <1>0, <2>1 DEF EachTold
    <2> QED
        BY <1>8, <2>1, <2>2
<1> QED
    BY <1>3, <1>5, <1>6, <1>7, <1>7a, <1>9, <1>10

\* Every step of generator and sender keeps the invariant of the chain.
LEMMA ChainStep == ChainInv /\ [Next]_vars => ChainInv'
<1> SUFFICES ASSUME ChainInv, [Next]_vars PROVE ChainInv'
    OBVIOUS
<1>0. /\ fdds \in BOOLEAN /\ ipc \in BOOLEAN /\ keyed \in BOOLEAN
      /\ running \in BOOLEAN /\ forced \in BOOLEAN
      /\ command \in Commands \cup {"none"} /\ order \in Commands \cup {"none"}
      /\ pipe \in Seq(Samples) /\ Len(pipe) <= PipeSize
      /\ gpio \in {0, 1} /\ mode \in Modes /\ OnlyKnownCommands /\ OneWayOnly
      /\ NoCommandOnAir /\ PinFollowsKey /\ LastTold /\ EachTold
    BY DEF ChainInv
<1>a. ASSUME UNCHANGED <<fdds, ipc, mode, pipe>> PROVE EachTold'
    BY <1>0, <1>a DEF EachTold, ModeFor
<1>b. ASSUME UNCHANGED <<fdds, ipc, order, mode, pipe>> PROVE OneWayOnly'
    BY <1>0, <1>b DEF OneWayOnly
<1>1. CASE KeyOn
    <2>1. /\ UNCHANGED <<fdds, ipc, keyed, order, running, forced, pipe, mode, aired>>
          /\ running /\ command = "none" /\ command' \in {"1111", "none"}
          /\ gpio' \in {0, 1}
        BY <1>0, <1>1 DEF KeyOn
    <2>2. PinFollowsKey'
        BY <1>0, <1>1 DEF KeyOn, PinFollowsKey
    <2>3. OnlyKnownCommands' /\ NoCommandOnAir' /\ LastTold'
        BY <1>0, <2>1 DEF OnlyKnownCommands, NoCommandOnAir, LastTold, ModeFor
    <2> QED
        BY <1>0, <1>a, <1>b, <2>1, <2>2, <2>3 DEF ChainInv, Commands
<1>2. CASE KeyOff
    <2>1. /\ UNCHANGED <<fdds, ipc, order, running, forced, pipe, mode, aired>> /\ running
          /\ command = "none" /\ gpio' = 0 /\ keyed' \in BOOLEAN
          /\ \/ keyed /\ fdds /\ command' = "2222" /\ keyed' = keyed
             \/ ~(keyed /\ fdds) /\ command' = "none" /\ keyed' = FALSE
        BY <1>0, <1>2 DEF KeyOff
    <2>2. PinFollowsKey'
        BY <1>0, <2>1 DEF PinFollowsKey
    <2>3. ModeFor(keyed)' = ModeFor(keyed)
        BY <1>0, <2>1 DEF ModeFor
    <2>4. OnlyKnownCommands' /\ NoCommandOnAir'
        BY <1>0, <2>1 DEF OnlyKnownCommands, NoCommandOnAir
    <2>5. LastTold'
        BY <1>0, <2>1, <2>3 DEF LastTold
    <2> QED
        BY <1>0, <1>a, <1>b, <2>1, <2>2, <2>4, <2>5 DEF ChainInv, Commands
<1>3. CASE Tell
    <2>1. /\ keyed' = (command = "1111") /\ command' = "none" /\ command # "none"
          /\ running /\ UNCHANGED <<fdds, ipc, gpio, running, forced, mode, aired>>
        BY <1>3 DEF Tell
    <2>2. PinFollowsKey'
        BY <1>0, <2>1 DEF PinFollowsKey, Commands
    <2>3. NoCommandOnAir'
        BY <1>0, <2>1 DEF NoCommandOnAir
    <2>4. pipe' \in Seq(Samples) /\ Len(pipe') <= PipeSize
        BY <1>0, <1>3, TellTells DEF Tell
    <2>5. OnlyKnownCommands' /\ OneWayOnly' /\ LastTold' /\ EachTold'
        BY <1>3, TellTells, TellTellsPast
    <2>6. order' \in Commands \cup {"none"}
        BY <1>0, <1>3 DEF Tell
    <2>7. keyed' \in BOOLEAN
        BY <2>1
    <2> QED
        BY <1>0, <2>1, <2>2, <2>3, <2>4, <2>5, <2>6, <2>7 DEF ChainInv
<1>4. CASE Block
    <2>1. UNCHANGED <<fdds, ipc, keyed, command, order, gpio, running, forced, mode, aired>>
        BY <1>4 DEF Block
    <2>2. PinFollowsKey' /\ NoCommandOnAir'
        BY <1>0, <2>1 DEF PinFollowsKey, NoCommandOnAir
    <2> QED
        BY <1>0, <1>4, <2>1, <2>2, BlockTells DEF ChainInv
<1>5. CASE Quit \/ Abort
    <2>1. /\ UNCHANGED <<fdds, ipc, keyed, command, order, pipe, mode, aired>>
          /\ running' = FALSE
          /\ \/ gpio' = 0 /\ forced' = forced
             \/ gpio' = gpio /\ forced' = TRUE
        BY <1>5 DEF Quit, Abort
    <2>2. PinFollowsKey' /\ gpio' \in {0, 1} /\ forced' \in BOOLEAN
        BY <1>0, <2>1 DEF PinFollowsKey
    <2>3. OnlyKnownCommands' /\ NoCommandOnAir' /\ LastTold'
        BY <1>0, <2>1 DEF OnlyKnownCommands, NoCommandOnAir, LastTold, ModeFor
    <2> QED
        BY <1>0, <1>a, <1>b, <2>1, <2>2, <2>3 DEF ChainInv
<1>6. CASE Send
    <2>1. UNCHANGED <<fdds, ipc, keyed, command, order, gpio, running, forced>>
        BY <1>6 DEF Send
    <2>2. PinFollowsKey'
        BY <1>0, <2>1 DEF PinFollowsKey
    <2> QED
        BY <1>0, <1>6, <2>1, <2>2, SendTells DEF ChainInv
<1>7. CASE Heed
    <2>1. /\ UNCHANGED <<fdds, ipc, keyed, command, gpio, running, forced, pipe, aired>>
          /\ order' = "none"
        BY <1>7 DEF Heed
    <2>2. PinFollowsKey' /\ NoCommandOnAir'
        BY <1>0, <2>1 DEF PinFollowsKey, NoCommandOnAir
    <2> QED
        BY <1>0, <1>7, <2>1, <2>2, HeedTells DEF ChainInv
<1>8. CASE UNCHANGED vars
    BY <1>0, <1>a, <1>b, <1>8 DEF vars, ChainInv, OnlyKnownCommands, NoCommandOnAir,
                                  PinFollowsKey, LastTold, ModeFor
<1> QED
    BY <1>1, <1>2, <1>3, <1>4, <1>5, <1>6, <1>7, <1>8 DEF Next

-----------------------------------------------------------------------------
(* The path: its steps are steps of the mailbox and steps of the chain.    *)

LEMMA PathSteps ==
    PathNext \/ UNCHANGED pathVars
        => [MailboxNext]_mailboxVars /\ [Next]_vars
BY DEF PathNext, Post, Visible, MainLoop, PollNone, PollFlag, PollSignal, Obey, ObeyTells,
       Sound, End, ForcedEnd, Air, AirHeeds, MailboxNext, Controller, Generator, Next,
       PollEmpty, pathVars

\* Whichever way its stores become visible, the generator obeys requests in
\* the order in which they were made, ...
PathInv ==
    /\ OrderInv
    /\ ChainInv
    /\ turn \in {"poll", "setPTT", "block"}
    /\ served \in 0 .. applied
    /\ turn # "setPTT" => served = applied
    /\ turn = "setPTT" => poll = "idle" /\ command = "none"
    /\ poll = "load" => command = "none"

\* ... and keys as the last one asks.
KeyedAsServed ==
    /\ running => (gpio = 1 <=> served \in Transmit)
    /\ command = "none" => (keyed <=> served \in Transmit)
    /\ command = "1111" => served \in Transmit
    /\ command = "2222" => served \notin Transmit

LEMMA PathInvInit == PathInit => PathInv /\ KeyedAsServed
<1> SUFFICES ASSUME PathInit PROVE PathInv /\ KeyedAsServed
    OBVIOUS
<1>1. OrderInv /\ ChainInv
    BY OrderInit, ChainInit DEF PathInit
<1>2. applied = 0 /\ served = 0 /\ turn = "poll" /\ poll = "idle"
      /\ command = "none" /\ gpio = 0 /\ keyed = FALSE
    BY DEF PathInit, MailboxInit, Init
<1> QED
    BY <1>1, <1>2 DEF PathInv, KeyedAsServed

LEMMA PathInvStep ==
    PathInv /\ KeyedAsServed /\ [PathNext]_pathVars => PathInv' /\ KeyedAsServed'
<1> SUFFICES ASSUME PathInv, KeyedAsServed, [PathNext]_pathVars
             PROVE  PathInv' /\ KeyedAsServed'
    OBVIOUS
<1>1. OrderInv' /\ ChainInv'
    BY PathSteps, OrderStep, ChainStep DEF PathInv
<1>2. /\ applied \in Nat /\ poll \in {"idle", "load"}
      /\ served \in 0 .. applied /\ applied <= signal /\ signal \in Nat
    BY DEF PathInv, OrderInv, MailboxTypeOK
<1>3. /\ keyed \in BOOLEAN /\ command \in Commands \cup {"none"} /\ gpio \in {0, 1}
      /\ running \in BOOLEAN /\ PinFollowsKey
    BY DEF PathInv, ChainInv
<1>4. CASE \/ Post \/ Visible \/ PollNone \/ PollFlag \/ Sound \/ Air \/ AirHeeds
           \/ UNCHANGED pathVars
    <2>1. UNCHANGED <<applied, served, command, keyed, gpio, running>>
        BY <1>4 DEF Post, SetPTT, Visible, SignalVisible, FlagVisible, ClearVisible,
                    PollNone, PollEmpty, PollFlag, TakeFlag, Sound, Block, Air, Send,
                    AirHeeds, Heed, pathVars, mailboxVars, vars
    <2>2. /\ turn' \in {"poll", "setPTT", "block"}
          /\ turn' = "setPTT" => turn = "setPTT" /\ poll' = poll
          /\ turn = "setPTT" => turn' = "setPTT"
          /\ poll' = "load" => poll = "load" \/ command = "none"
        BY <1>4 DEF PathInv, Post, SetPTT, Visible, SignalVisible, FlagVisible,
                    ClearVisible, PollNone, PollEmpty, PollFlag, TakeFlag, Sound, Block,
                    Air, Send, AirHeeds, Heed, pathVars, mailboxVars, vars
    <2>3. PathInv'
        BY <1>1, <2>1, <2>2 DEF PathInv
    <2> QED
        BY <2>1, <2>3 DEF KeyedAsServed
<1>5. CASE PollSignal
    <2>1. /\ poll = "load" /\ poll' = "idle" /\ applied' = signal /\ turn' = "setPTT"
          /\ UNCHANGED <<served, command, keyed, gpio, running>>
        BY <1>5 DEF PollSignal, LoadSignal, vars
    <2>2. PathInv'
        BY <1>1, <1>2, <2>1 DEF PathInv
    <2> QED
        BY <2>1, <2>2 DEF KeyedAsServed
<1>6. CASE Obey
    <2>1. /\ turn = "setPTT" /\ turn' = "block" /\ served' = applied
          /\ UNCHANGED <<applied, poll>> /\ poll = "idle" /\ command = "none" /\ running
        BY <1>6 DEF Obey, KeyOn, KeyOff, PathInv, mailboxVars
    <2>2. PathInv'
        BY <1>1, <1>2, <2>1 DEF PathInv
    <2>3. CASE applied \in Transmit
        <3>1. KeyOn
            BY <1>6, <2>3 DEF Obey
        <3>2. CASE keyed
            <4>1. UNCHANGED <<command, gpio, keyed, running>>
                BY <3>1, <3>2 DEF KeyOn
            <4>2. gpio = 1
                BY <1>3, <2>1, <3>2 DEF PinFollowsKey
            <4> QED
                BY <2>1, <2>2, <2>3, <3>2, <4>1, <4>2 DEF KeyedAsServed
        <3>3. CASE ~keyed
            <4>1. command' = "1111" /\ gpio' = 1
                BY <3>1, <3>3 DEF KeyOn
            <4> QED
                BY <2>1, <2>2, <2>3, <4>1 DEF KeyedAsServed
        <3> QED
            BY <3>2, <3>3
    <2>4. CASE applied \notin Transmit
        <3>1. KeyOff
            BY <1>6, <2>4 DEF Obey
        <3>2. /\ gpio' = 0
              /\ \/ command' = "2222"
                 \/ command' = "none" /\ keyed' = FALSE
            BY <2>1, <3>1 DEF KeyOff
        <3> QED
            BY <2>1, <2>2, <2>4, <3>2 DEF KeyedAsServed
    <2> QED
        BY <2>3, <2>4
<1>7. CASE ObeyTells
    <2>1. /\ command # "none" /\ command' = "none" /\ keyed' = (command = "1111")
          /\ UNCHANGED <<applied, poll, turn, served, gpio, running>>
        BY <1>7 DEF ObeyTells, Tell, mailboxVars
    <2>2. PathInv'
        BY <1>1, <2>1 DEF PathInv
    <2>3. command = "1111" \/ command = "2222"
        BY <1>3, <2>1 DEF Commands
    <2> QED
        BY <2>1, <2>2, <2>3 DEF KeyedAsServed
<1>8. CASE End
    <2>1. /\ turn # "setPTT" /\ poll = "idle" /\ running' = FALSE
          /\ UNCHANGED <<applied, poll, turn, served, command, keyed>>
        BY <1>8 DEF End, Quit, mailboxVars
    <2>2. PathInv'
        BY <1>1, <2>1 DEF PathInv
    <2> QED
        BY <2>1, <2>2 DEF KeyedAsServed
<1>9. CASE ForcedEnd
    <2>1. /\ running' = FALSE
          /\ UNCHANGED <<applied, poll, turn, served, command, keyed>>
        BY <1>9 DEF ForcedEnd, Abort, mailboxVars
    <2>2. PathInv'
        BY <1>1, <2>1 DEF PathInv
    <2> QED
        BY <2>1, <2>2 DEF KeyedAsServed
<1> QED
    BY <1>4, <1>5, <1>6, <1>7, <1>8, <1>9 DEF PathNext, MainLoop

-----------------------------------------------------------------------------

LEMMA PathInvHolds == PathSpec => [](PathInv /\ KeyedAsServed)
BY PathInvInit, PathInvStep, PTL DEF PathSpec

\* What is on the air is made of samples and carrier.
AiredType == aired \in [samples : Seq(OnAir), mode : Modes]

LEMMA AiredStep == PathInv /\ AiredType /\ [PathNext]_pathVars => AiredType'
<1> SUFFICES ASSUME PathInv, AiredType, [Next]_vars PROVE AiredType'
    BY PathSteps
<1>1. CASE Send
    <2> DEFINE n == IF Len(pipe) >= Burst THEN Burst ELSE Len(pipe)
    <2>1. pipe \in Seq(Samples) /\ mode \in Modes
        BY DEF PathInv, ChainInv
    <2>2. n \in Nat /\ n <= Len(pipe)
        BY <2>1
    <2>3. aired' = [samples |-> [i \in 1 .. n |-> Converted(pipe, i)],
                    mode    |-> ModeAt(pipe, n)]
        BY <1>1 DEF Send
    <2> HIDE DEF n
    <2>4. ModeAt(pipe, n) \in Modes
        BY <2>1 DEF ModeAt, ModeAsked, Modes
    <2>5. ASSUME NEW i \in 1 .. n PROVE Converted(pipe, i) \in OnAir
        <3>1. pipe[i] \in Samples
            BY <2>1, <2>2
        <3> QED
            BY <3>1 DEF Converted, OnAir, Samples
    <2>6. [i \in 1 .. n |-> Converted(pipe, i)] \in Seq(OnAir)
        BY <2>2, <2>5
    <2> QED
        BY <2>3, <2>4, <2>6 DEF AiredType
<1>2. CASE KeyOn \/ KeyOff \/ Tell \/ Block \/ Quit \/ Abort \/ Heed \/ UNCHANGED vars
    BY <1>2 DEF KeyOn, KeyOff, Tell, Block, Quit, Abort, Heed, vars, AiredType
<1> QED
    BY <1>1, <1>2 DEF Next

\* Every variable of the path keeps its type, in either memory model: in
\* particular no more is ever written than the pipe holds.
THEOREM PathTypeCorrect == PathSpec => []PathTypeOK
<1>1. PathInit => AiredType
    BY DEF PathInit, Init, AiredType, Modes
<1>2. PathInv /\ AiredType => PathTypeOK
    <2> SUFFICES ASSUME PathInv, AiredType PROVE PathTypeOK
        OBVIOUS
    <2>1. MailboxTypeOK /\ served \in 0 .. MaxPosts
        <3>1. MailboxTypeOK /\ served \in 0 .. applied /\ applied \in 0 .. MaxPosts
            BY DEF PathInv, OrderInv, MailboxTypeOK
        <3> QED
            BY <3>1, MaxPostsAssumption
    <2>2. TypeOK
        BY DEF PathInv, ChainInv, AiredType, TypeOK
    <2> QED
        BY <2>1, <2>2 DEF PathInv, PathTypeOK
<1> QED
    BY <1>1, <1>2, AiredStep, PathInvHolds, PTL DEF PathSpec

\* Each poll loads a signal at least as recent as the one before, and none
\* that was never made.
NeverOlder == [][applied' >= applied /\ applied' <= posted]_applied

\* Of every number of requests, the generator never obeys one after a later
\* one, even with stores that become visible late.
THEOREM NeverOlderHolds == PathSpec => NeverOlder
<1>1. PathInv /\ [PathNext]_pathVars => [applied' >= applied /\ applied' <= posted]_applied
    BY PathSteps, NeverOlderStep DEF PathInv
<1> QED
    BY <1>1, PathInvHolds, PTL DEF PathSpec, NeverOlder

\* The reserved values that switch the sender are never sent as samples, with
\* or without DDS, wherever they fall in a burst.
THEOREM NoCommandOnAirHolds == PathSpec => []NoCommandOnAir
<1>1. PathInv => NoCommandOnAir
    BY DEF PathInv, ChainInv
<1> QED
    BY <1>1, PathInvHolds, PTL

\* The pin that switches the power amplifier is up exactly while the running
\* generator is keyed or about to be, and down after an end in order.
THEOREM PinFollowsKeyHolds == PathSpec => []PinFollowsKey
<1>1. PathInv => PinFollowsKey
    BY DEF PathInv, ChainInv
<1> QED
    BY <1>1, PathInvHolds, PTL

\* The mode the sender settles in is that of the keying, whichever way it was
\* told.
LEMMA SettledMode ==
    ASSUME ChainInv
    PROVE  Settled = ModeFor(keyed)
<1>1. LastTold /\ Len(pipe) \in Nat
    BY DEF ChainInv
<1>2. CASE order # "none"
    BY <1>1, <1>2 DEF LastTold, Settled
<1>3. CASE order = "none"
    BY <1>1, <1>3, ToldMode DEF LastTold, Settled
<1> QED
    BY <1>2, <1>3

\* For every block, burst and pipe, and whether mode changes travel in the
\* pipe or past it, the sender ends up in the mode that the generator's PTT
\* asks for.
THEOREM ModeFollowsKeyHolds == PathSpec => []ModeFollowsKey
<1>1. PathInv => ModeFollowsKey
    BY SettledMode DEF PathInv, ModeFollowsKey
<1> QED
    BY <1>1, PathInvHolds, PTL

\* For every block, burst and pipe, each sample is looked at in the mode of
\* the keying under which it was written, however the commands fall into the
\* bursts, unless they overtake the samples (-d with -i).
THEOREM EachInItsModeHolds == PathSpec => []EachInItsMode
<1>1. PathInv => EachInItsMode
    <2> SUFFICES ASSUME PathInv, ~(fdds /\ ipc),
                        NEW i \in 1 .. Len(pipe), pipe[i] \notin Commands
                 PROVE  ModeAt(pipe, i) = ModeFor(pipe[i] = "voice")
        BY DEF EachInItsMode
    <2>1. EachTold /\ Len(pipe) \in Nat
        BY DEF PathInv, ChainInv
    <2> QED
        BY <2>1, ToldMode DEF EachTold
<1> QED
    BY <1>1, PathInvHolds, PTL

\* With stores in program order no request is lost between the controller and
\* the pin, nor between the controller and the sender.
THEOREM NewestObeyedHolds ==
    ASSUME Relaxed = FALSE
    PROVE  PathSpec => []NewestObeyed
<1>1. MailboxInv /\ PathInv /\ KeyedAsServed => NewestObeyed
    <2> SUFFICES ASSUME MailboxInv, PathInv, KeyedAsServed, AtRest
                 PROVE  /\ gpio = 1 <=> posted \in Transmit
                        /\ command = "none" =>
                               Settled = ModeFor(posted \in Transmit)
        BY DEF NewestObeyed
    <2>1. served = posted /\ running
        BY DEF AtRest, MailboxInv, NoLostRequest, PathInv
    <2>2. Settled = ModeFor(keyed)
        BY SettledMode DEF PathInv
    <2>3. gpio = 1 <=> posted \in Transmit
        BY <2>1 DEF KeyedAsServed
    <2>4. ASSUME command = "none" PROVE ModeFor(keyed) = ModeFor(posted \in Transmit)
        BY <2>1, <2>4 DEF KeyedAsServed, ModeFor
    <2> QED
        BY <2>2, <2>3, <2>4
<1>2. PathInit => MailboxInv
    BY MailboxInvInit DEF PathInit
<1>3. MailboxInv /\ [PathNext]_pathVars => MailboxInv'
    BY PathSteps, MailboxInvStep
<1> QED
    BY <1>1, <1>2, <1>3, PathInvHolds, PTL DEF PathSpec

\* With stores in program order every step of the path is a step of the
\* register or leaves it unchanged (the safety half of ImplementsRegister).
THEOREM StepsOfRegister ==
    ASSUME Relaxed = FALSE
    PROVE  PathSpec => Register!RegInit
                       /\ [][Register!RegNext]_<<signal, served, gpio, running>>
<1> DEFINE Bump == "signal" \in pending => posted = signal + 1
           RInv == MailboxInv /\ PathInv /\ KeyedAsServed /\ Bump
<1>1. PathInit => MailboxInv /\ Bump /\ Register!RegInit
    BY MailboxInvInit DEF PathInit, MailboxInit, Init, Register!RegInit
<1>2. MailboxInv /\ [PathNext]_pathVars => MailboxInv'
    BY PathSteps, MailboxInvStep
<1>3. MailboxInv /\ Bump /\ [PathNext]_pathVars => Bump'
    <2> SUFFICES ASSUME MailboxInv, Bump, [MailboxNext]_mailboxVars PROVE Bump'
        BY PathSteps
    <2> QED
        BY DEF MailboxInv, MailboxTypeOK, SignalFresh, MailboxNext, Controller, Generator,
               SetPTT, SignalVisible, FlagVisible, PollEmpty, TakeFlag, ClearVisible,
               LoadSignal, mailboxVars
<1>4. RInv /\ (KeyedAsServed)' /\ [PathNext]_pathVars
        => [Register!RegNext]_<<signal, served, gpio, running>>
    <2> SUFFICES ASSUME RInv, KeyedAsServed', [PathNext]_pathVars,
                        <<signal, served, gpio, running>>' # <<signal, served, gpio, running>>
                 PROVE  Register!RegNext
        OBVIOUS
    <2>1. CASE Visible
        <3>1. UNCHANGED <<served, gpio, running>>
            BY <2>1 DEF Visible, vars
        <3>2. SignalVisible
            BY <2>1, <3>1 DEF Visible, FlagVisible, ClearVisible
        <3>3. signal' = posted /\ posted = signal + 1 /\ posted <= MaxPosts
              /\ signal \in Nat
            BY <3>2, MaxPostsAssumption DEF SignalVisible, MailboxInv, MailboxTypeOK
        <3>4. signal < MaxPosts /\ signal' = signal + 1
            BY <3>3, MaxPostsAssumption
        <3> QED
            BY <3>1, <3>4 DEF Register!RegNext, Register!Request
    <2>2. CASE Obey
        <3>1. /\ served' = applied /\ signal' = signal /\ running /\ running' = running
            BY <2>2 DEF Obey, KeyOn, KeyOff, mailboxVars
        <3>2. applied \in served .. signal /\ applied \in 0 .. MaxPosts
            BY MaxPostsAssumption DEF PathInv, OrderInv, MailboxTypeOK
        <3>3. gpio' = IF applied \in Transmit THEN 1 ELSE 0
            <4>1. gpio' = 1 <=> applied \in Transmit
                BY <3>1 DEF KeyedAsServed
            <4>2. gpio' \in {0, 1}
                BY <2>2 DEF Obey, KeyOn, KeyOff, PathInv, ChainInv
            <4> QED
                BY <4>1, <4>2
        <3>4. Register!Obey(applied)
            BY <3>1, <3>2, <3>3 DEF Register!Obey
        <3> QED
            BY <3>2, <3>4 DEF Register!RegNext
    <2>3. CASE End
        BY <2>3 DEF End, Quit, mailboxVars, Register!RegNext, Register!Close
    <2>4. CASE ForcedEnd
        BY <2>4 DEF ForcedEnd, Abort, mailboxVars, Register!RegNext, Register!Break
    <2> QED
        BY <2>1, <2>2, <2>3, <2>4
        DEF PathNext, Post, SetPTT, MainLoop, PollNone, PollEmpty, PollFlag, TakeFlag,
            PollSignal, LoadSignal, ObeyTells, Tell, Sound, Block, Air, Send, AirHeeds, Heed,
            pathVars, mailboxVars, vars
<1> QED
    BY <1>1, <1>2, <1>3, <1>4, PathInvHolds, PTL DEF PathSpec
=============================================================================
