# OrangeThunder: verification project

OrangeThunder is a software defined transceiver for the Raspberry Pi. A
controller process (OT4D) emulates the CAT protocol of a Yaesu FT-817 on a
serial port, keeps the VFO state, and drives a pipeline of child processes:
`arecord` delivers audio, `genSSB` turns it into I/Q samples and switches the
PTT pin, `sendRF` (or `sendiq`) turns the samples into RF. `rtl_fm` receives. A
separate FT8 program listens to the decoder and answers calls on its own.

What can go wrong in it is a matter of order: the PTT goes through a mailbox
without a lock, through status bytes kept in three places by nested callbacks,
through commands hidden in a stream of samples, and past a timer thread that
shares plain variables with the main loop; an FT8 contact lives by lines that
get lost; and a session of the program starts among what earlier sessions have
left in the kernel. The modules here model these parts. Every definition is
translated from the source, and `PROJECT.json` names the lines it stands for.

## 1. The system and its parts

| Part | State | Operations | What it must guarantee |
|---|---|---|---|
| VFO object, `lib/genVFO.h` | two VFOs (frequency, band, step, RIT), the VFO in use, a status byte | set, setBand, up/down, setVFO, swapVFO, setPTT, setSplit, setRIT, updateRIT, setLock | each VFO inside its band, SPLIT back on the right VFO after any number of transmissions |
| CAT controller, `OT4D/OT4D.h`, `lib/CAT817.h` | the CAT's own status byte, frequency and mode, frequencies as digits, PTT in the master status word and in the generator's object | 17 CAT commands, each with nested callbacks into the VFO object and back; start up with a PTT self-test | all copies of PTT and VFO agree between commands, every command is obeyed, clients are told the truth, no retuning on the air |
| PTT mailbox, `lib/genSSB.h`, `lib/genSSB.cpp` | `ptt_flag` and `ptt_signal` in shared memory | setPTT (two stores), poll (load, store, load) | the newest request wins, none is lost |
| Transmit chain, `genSSB.cpp`, `sendRF.cpp` | keying, the PTT pin, the pipe of samples with commands in it, the sender's mode | key, unkey, a block of audio, the end; a burst sent | no edge of the PTT lost in the pipe, no command on the air, the pin follows the keying, all that was written is sent |
| Voice keying (VOX), `genSSB.cpp`, `CallBackTimer.h` | TVOX, fVOX, PTT | the tick of the timer thread; restart, expiry and keying in the main loop | speech is not cut, silence unkeys |
| FT8 contact, `lib/demo_decodeFT8.cpp` | state of the QSO, partner, slot, tries, queue, transmitter thread, heard messages | a handler per state, retry, header, message and end lines, keys | only the partner is answered, in our slot, with a bounded number of calls; a QSO ends |
| Session, `bash/OT4D.sh`, `OT4D.h`, `genSSB.h`, `genSSB.cpp` | the shared segment and its key, the processes, the pins | start, stop, Ctrl-C, crash; the generator attaches, polls, ends | nothing left over keys a new session or cuts it off from its generator |
| Slot decoder, `lib/decodeFT8.cpp` | two counters and a status word shared by a timer thread and the main loop, samples, slot numbers | tick; open, fill and close a window, decode, report | a window that opens is closed, its samples fit the buffer, each slot has one header, which tells whether slots were missed |
| Child wrappers, `lib/rtlfm.h`, `lib/decodeFT8.h` | pipes, pid, status word | start, stop, restart | not modelled |
| Serial framing, `lib/CAT817.h` | five byte frame and its index | get | not modelled |

How they interact:

```
 CAT client --serial--> CAT817 <--callbacks--> OT4D <--callbacks--> genVFO
                                                 |
                                              setPTT()                 timer thread (VOX)
                                                 v                          |
                                   shared segment (mailbox) --poll--> genSSB --pipe--> sendRF --> RF
                                                 ^                  ^  |
                                       created, removed          audio  PTT pin --> power amplifier
                                       by each session
 decodeFT8 --lines--> FT8 contact automaton --thread--> pift8 --> RF
```

Everything else is listed in `PROJECT.json` under `components` with the reason
why it is not modelled: vendored code (alsa-lib, rpitx, rtl_fm), signal
processing on real numbers, demonstration programs, scripts, the contact log.
What is hard to test is listed under `hazards`, each at its line with the
properties aimed at it, or with a note why there is none.

## 2. The modules

Each module says at its top which code it models; operators keep the names of
the methods where they have one. An action is one handler with every call it
makes, unless other threads or processes can see it half way: then each access
to shared state is an action of its own. Operators marked "Mutant" are
plausible bugs; they are used in no specification but each breaks a property
when it takes the place of the definition after it (`mutants` in
`PROJECT.json`).

| Module | Models | State and actions |
|---|---|---|
| `PttRegister` | the promise of the PTT link | requests counted, the pin, whether the generator is there; `Request`, `Obey`, `Close` (an end in order) and `Break` (a forced one) |
| `PttMailbox` | the mailbox | `pending` and `clearing` hold stores issued but not visible. `SetPTT` issues the two stores of a request, `SignalVisible` and `FlagVisible` make them visible; `TakeFlag`, `ClearVisible` and `LoadSignal` are the generator's poll. `Relaxed` chooses whether stores stay in program order |
| `SsbChain` | genSSB, pipe, sendRF | `KeyOn`, `KeyOff` and `Tell`, the part of setPTT() from its message to the sender on (`command` holds what it is about to give): with `ipc`, the option -i, the message goes to the segment of sendiq (`order`), without it to the pipe; `Block`, `Quit`; `Abort`, the exit(16) of terminate() at any point; `Send`, one burst of the sender, converted sample by sample; `Heed`, by which sendiq takes its order |
| `PttPath` | both of them, composed | EXTENDS `PttMailbox` and `SsbChain`. The generator's loop in its order: poll (`PollNone`; `PollFlag`, `PollSignal`), `Obey` with `ObeyTells`, `Sound`, `End`, and `ForcedEnd` between any two of these; `Post` and `Visible` of the mailbox, `Air` and `AirHeeds` of the sender. `served` is the request the pin was last set for |
| `VfoOps` | the methods of genVFO | operators on a record with the object's fields |
| `GenVfo` | one genVFO object | one action per method (`Adjust` for those that leave the VFO in use alone; `Key`, `Split`, `Select`, `Swap`), any of them at any time; `strayed` notes that the last selection outside a SPLIT transmission was followed by a call that parts the VFO in use from its record |
| `CatController` | OT4D with its CAT and VFO objects | `w` holds the objects. `CatChangeFreq`, `CatChangeMode`, `CatChangeStatus` and `VfoChangeStatus` are the callbacks; one action per CAT command and the two halves of the PTT self-test. `KeyLoad` and `KeyStore` are the load and the store by which the keyboard thread sets a bit of the master status word; `undone` notes that it stored an older PTT. Frequencies come and go as four bytes of two digits (`BCD2Dec`, `Dec2BCD`) |
| `CatRadio` | the radio that a client of the CAT sees | VFO in use, frequency and band of each, transmitter, last command and its answer; `Tune`, `Swap`, `Key`, `AskTransmitter`, `AskEeprom`, `Others`, and the `SelfTest` before them. `CatController` implements it |
| `VoxKeyer` | the VOX of genSSB | timer: `TickTest`, `TickLoad`, `TickStore`, `TickRetest`, `TickRaise`, one access each; what is compared after the store may be the register or the variable, and what is decremented may be loaded again or not, as the compiler likes. Main loop: `Read`, `Refresh`, `Clear`, `KeyOn`, `Check`, `KeyOff` |
| `FT8Qso` | the FT8 contact | `Header`, `HeaderCut` (cut short, so that nothing is sent), `Message`, `Ignored` and `End` lines in any order, any of them missing; `Sent`, the end of the transmitter thread; `TakeKey`; one operator per handler |
| `FT8Contact` | the contacts that can be heard on the air | partner, slot, what is due, what is on the air, transmissions made; `Begin`, `Speak`, `Meet`, `Leave`, `Slot`, `Unnoticed` (a slot that the transmitter is not told of), `Finish`. `FT8Qso` implements it |
| `Session` | starts and ends of the program | controller: `Construct` (with the script's clean up), `Launch`, `Ask`, `Stop`, `Crash`; generator: `Attach`, `TakePins`, `Poll`, `Read`, and `Abort`, the exit(16) of a second signal |
| `SlotWindows` | decodeFT8's main loop and timer thread | timer: `Tick`, then `TestBit`, `StoreCount`, `TestZero`, `ClearBit` for each of two bits; main loop: `LoadBit` and `StoreBit` for its calls of setWord(), `TestListen`, `Read`, `TestWindow`, `StartListen`, `PrintHeader`, `Copy`, `StartProcess`, `TestProc`, `Decode`; `Signal`, `SourceEnds` |

`MCGenVfo` and `MCCatController` give the band tables small values for TLC; the
other modules need numbers and strings only, which their `.cfg` gives. The
modules named `...Proofs` hold theorems.

`PttMailbox` and `SsbChain` have no process of their own to run their actions;
`PttPath` gives them the generator's program order. `PttMailbox` alone, with
its own specification, is run for the memory model the path does not assume.

Some modules look at the same lines at different grain. `PttMailbox` splits the
accesses to the mailbox, `Session` takes a post and a poll as single steps and
adds the life of segment and processes around them; `PttPath` shows that in
program order a split poll serves a request as a whole one does. `VoxKeyer` has
the keying of genSSB as `SsbChain` has it, with the timer thread and without the
pipe.

### Where the models abstract

* Frequencies are integers; genVFO keeps a 32 bit float. It has every whole Hz
  up to 2^24 (16.777 MHz), and so on the bands up to 20 m, OT4D's start-up
  frequency among them. Above that it has every second Hz, from 2^25 on every
  fourth, and so on up to every 128th at the upper end of the table (1.3 GHz,
  genVFO.h:188): what the models say of a frequency holds there of the rounded
  one. A CAT client's tens of Hz may come back as their neighbours from 2^25
  (33.5 MHz) on; nothing of that is modelled.
* An audio block is loud or not; the gain control that decides it is left to
  the environment. Samples are "voice" or "zero", or one of the two commands.
* FT8 messages are records of addressee, sender and saying. The text, the
  report's number and the frequencies play no part in the automaton's choices.
* The kernel: a segment found by its key outlives its creator until it is
  removed; a removed one stays with those attached to it; one process at a time
  has pigpio's pins. `Session` uses these facts and nothing else of it.
* `setWord()` on a status word is a load and a store where two threads share
  one: in `SlotWindows`, and in `CatController` for the keyboard thread, between
  whose load and store any commands may be processed. There the main loop's own
  update is one step, so that what it may undo in turn is the GUI bit alone,
  which the module does not have. Elsewhere setWord() is one step; a signal
  handler that falls into it is a hazard in the list.
* sendiq, the sender of the option -i, is not in the repository. It is assumed to
  read and send as sendRF does, except that its mode changes come through the
  segment, one at a time and the newest only. The pair of fields `command` and
  `updated` is taken as one, since nothing of its reader can be read.
* A tick of `SlotWindows` stands for the 43 ticks of a millisecond in which a
  block of 512 samples arrives. An overrun below zero of a counter is one value,
  since only zero and the sign of what follows matter. rtl_fm delivers at most
  one block in a tick and waits while the pipe is full. The clock is `time()`
  and is not set back.
* In `SlotWindows` the main loop is held up for at most `MaxLag` ticks between
  two places where it waits (in fread(), or in the decoder). That is an
  assumption about the scheduler and not about the code.
* fwrite() puts a block into the pipe in one step, when there is room for all of
  it. The real one fills it piece by piece, so the assumption that a pipe holds
  a burst and all but one sample of a block stands for no size of the program.
* The controller starts on a frequency inside a band. `getBand()` of any other
  gives -1, which `main()` uses as an index without a check.

## 3. What the runs check

`tlc -config X.cfg M`, with the pairs below. Every state space is explored to
its end. A run of the kind *violation* checks one statement of the source that
the code does not keep, and its counterexample is a behaviour of the code.

### PTT path

* `ptt_path` (`PttPath.cfg`: four requests of which three transmit, blocks of 2,
  bursts of 3, a pipe of 6), with and without DDS (-d), with mode changes in the
  pipe or past it (-i), stores in program order, until the generator ends in
  order or by force.
  `NewestObeyed`, once no request is on its way, pin and sender are as the
  newest one asks; `ModeFollowsKey`, whatever is in the pipe or the segment, the last
  command leaves the sender in the mode the keying asks for; `EachInItsMode`, each
  sample is looked at in the mode of the keying under which it was written, so
  that no voice is replaced by the carrier, except with -d and -i together (see
  section 6); `NoCommandOnAir`; `PinFollowsKey`, the pin is up exactly while the
  generator is keyed, and down when it has ended in order (a forced end leaves it
  as it was, until the next generator lowers it: `PinOwned` below); `Drained`,
  when the generator has ended everything written is sent; `RequestServed`, a request
  that is not replaced reaches pin and sender, although the generator does not
  poll while it waits for room in the pipe and the sender waits for whole
  bursts; `ImplementsRegister`, the path from the store to `ptt_signal` to the
  write of the pin is a register that always catches up. Requests are numbered,
  so a stale value is told from a fresh one that says the same. Two transmit in
  a row, so that keying what is keyed occurs. Sizes without a common factor make
  commands fall at every place of a burst, and let a burst hold two of them.
* `mailbox_lost` (`MailboxLost.cfg`: three requests), violation. The fields are
  plain variables, neither atomic nor volatile. When a store may become visible
  late, the flag can be seen before the signal, and the request is lost until
  the next one. The generator may even end keyed after a release.

### VFO object

* `gen_vfo` (`GenVfo.cfg`: two bands, one of which is no whole number of steps
  wide, so that the clamps bite on both sides). Any call comes at any time, keyed or not. `FreqInBand`; and `HomeVfo`,
  the VFO in use is the recorded one after any number of transmissions, and the
  other one during a transmission in SPLIT, although setPTT() swaps without
  recording. Some calls part the two until the next selection outside a SPLIT
  transmission: a setPTT() that changes nothing while SPLIT is set, a change of
  SPLIT or a selection during such a transmission, and swapVFO(). They are noted
  in `strayed`, and `HomeVfo` is stated for when none of them was made. OT4D
  never sets SPLIT in the object, so that its swaps while keyed (OT4D.h:341)
  part nothing; in `CatController` `VfoAgreed` shows that without any condition.

### CAT controller

* `cat_controller` (`CatController.cfg`: two bands, requests inside and outside
  of them, one with a half byte that is no digit, two modes). `PttAgreed` and
  `VfoAgreed`, the copies agree between any two commands, but for the PTT bit of
  the master status word from a store of the keyboard thread that puts an older
  one back until the next change (only a trace reads that bit); `Announced`, what was
  refused is never visible afterwards;
  `StatusTruthful`, what the two status commands say is what the generator was
  told; `CommandsObeyed`, keying and swapping do what was asked and nothing else
  does, although the callbacks replace the byte the command was written to;
  `ImplementsRadio`, to a client the controller is the radio of `CatRadio`:
  tuning does nothing on the air or outside the band, a swap is always obeyed,
  keying answers what was the case before, and nothing else can be noticed.
* `cat_frequency` (`CatFrequencyTruthful.cfg`), violation. After a VFO swap
  "Get Frequency" answers the frequency of the VFO just left: setVFO() calls
  back for the status only.

Both runs also evaluate `ConversionsAgree`: to the digits of the line and back
gives the tens of Hz of a frequency, at the edges of all four bytes.

### Voice keying

* `vox` (`Vox.cfg`: a timeout of 12 ticks). Every access of a tick interleaves
  with the main loop. `Held`, the transmitter is unkeyed only a whole timeout
  after the last loud block, counting the tick under way; `WillUnkey`, while
  keyed there is a countdown or an expiry that will unkey it; `ReleasedInTime`,
  when voice stops for good it is unkeyed for good; `RunsWhileTicking`, the
  countdown never wraps below zero. The first three hold until a tick undoes a
  restart of the countdown (`undone`: it stores over it, or raises the expiry
  after it); the last one holds even then.
* `vox_released` (`VoxReleased.cfg`: a timeout of 4 ticks), violation. A restart
  of the countdown that falls between a tick's load and its store is
  overwritten, and the expiry it raises is erased by the restart's own `fVOX=0`:
  keyed, no countdown, no expiry, until there is voice again.

### FT8 contact

* `ft8_qso` (`FT8Qso.cfg`: two stations, two messages kept of a slot). With any
  line of the decoder lost: `OneWaiting`, no message of an earlier QSO or stage
  waits in the queue; `SpeaksToPartner`; `CallsBounded`, at most
  three messages and four retries; `ImplementsContact`, what goes on the air are
  contacts as `FT8Contact` has them, each transmission for the partner and in the
  slot that is ours, also the last one of a QSO that was given up;
  `SilenceEndsQso`, a QSO whose partner falls silent is given up, provided end
  markers keep coming (`BandAlive`): the decoder writes none after a slot in
  which it has decoded nothing, and on a band silent altogether no try is ever
  counted. Two stations are a partner and one
  who interferes; two messages let a handler find its message second.
* `ft8_repeats` (`FT8Repeats.cfg`), violation. A partner who repeats his report
  after we have sent ours is neither answered nor counted; the retry that the
  trace in the source announces stands behind a test that is always true. The
  QSO goes on for as long as he repeats. With the retry in its place the
  property holds.

### Sessions

* `session` (`Session.cfg`: three starts). Between any two of them the
  controller ends by key X, by Ctrl-C or by a crash, at any moment, with the
  generators of earlier sessions anywhere. `NoStaleKey`, a generator transmits
  only at the request of its own or a later session, never by what an earlier
  one left in the segment; `InTouch`, the generator that works for the running
  session looks into the segment its controller writes to; `PinOwned`, the
  generator that has the pins decides on the PTT pin, even when a forced end has
  left it raised; `OldGeneratorsEnd`, when a session begins, the generators of
  the earlier ones end. Three starts give a session that finds the leavings of
  two.
* `session_keyed` (`SessionKeyed.cfg`: two starts), violation. After key X the
  pipeline lives on, since stop() kills the shell that started it and nothing
  else; the generator keeps the last request, keyed perhaps, with no controller
  left. Only Ctrl-C, which reaches the whole process group, ends the audio.

### Slot decoder

* `slot_windows` (`SlotWindows.cfg`: two slots of three ticks to a minute, a
  window of two, decoding for one, a pipe of one block, a buffer of five).
  Unless a store of one thread has undone one of the other (`lost`):
  `WindowCloses`, a window that opens is closed; `SamplesFit`, it never runs past
  the buffer, although nothing checks the index; `OneHeaderPerSlot`;
  `HeaderTruthful`, the header says "--" exactly when slots went by without a
  window, except for whole minutes of them, which the code cannot tell. The
  clock starts anywhere, decoding takes any time, and signals and the end of the
  source come anywhere. The sizes let a decoding run over several slots and the
  pipe fill up behind it.

  With the real values, in blocks of 512 samples: a window of 13 s takes 305, a
  full pipe brings 64, and two more are in hand, against 500 in the buffer and
  410 allowed for decoding. `FollowLost = TRUE` lets time go on after a lost
  update: then the start value of the counter can be overwritten by a tick, the
  window stays open, and the samples run past the buffer. No document promises
  anything for that, so no run has it; it is in the list of hazards.

`CHECK_DEADLOCK FALSE` stands where the system may stop: the path after the end
of the audio, the sessions after the last start, and the decoder after its end.

### Bounds

`MaxPosts`, `PipeSize` of `SsbChain`, `Freqs`, `Frames`, `StartFreqs`, `Steps`,
`MaxHeard`, `MaxSessions`, `MaxLag`, `MaxMissed` and `FollowLost` are bounds of
the models and marked so where they are declared. `Transmit` says which of the
requests ask to transmit. `Timeout`, `BlockLen`, `Burst`, `Stations`, the band
tables, `Modes` and the times and sizes of `SlotWindows` are parameters of the
program or of the kernel. `strayed` in `GenVfo`, `undone` in `CatController`,
`sent` in `FT8Qso`, `quiet` and `undone` in `VoxKeyer`, and `lost`, `away` and `gap`
in `SlotWindows` are history variables, all bounded. `MaxHeard` stands for the
50 places of ft8_msg, which the code fills without a check: the model leaves out
what a 51st message would do.

Two requests give all the interleavings of one post with one poll; four let one
be made while the one before waits in a full pipe, in each direction. Three
starts of a session give one that finds the leavings of two. Headers are judged
for windows up to three slots apart, of which there are two in the model's
minute: the next slot, one missed, and a whole minute missed, which must go
unnoticed.

### Fairness

| Module | Fair | Why |
|---|---|---|
| `PttPath` | `Visible`, `MainLoop`, `Air`, `AirHeeds` | memory is coherent; fread() of the sound card returns every 21 ms; the sender's loop runs whenever it can read; sendiq is assumed to look at its segment again and again. Post is not fair, nobody has to press the key, nor is an end of the generator |
| `VoxKeyer` | timer thread, main loop | both are scheduled; audio blocks keep arriving. Whether they are loud is free |
| `FT8Qso` | headers of both slots, the end of a transmission | the decoder writes a header for every 15 s slot, though any single line may be lost; pift8 sends for 13 s and ends. Messages and keys are not fair, nor are end markers, which come only after something was decoded: that they do is a hypothesis of the two properties that need it |
| `Session` | each generator | a process that can run does; live audio sources deliver. Starting, asking and stopping are not fair |
| `SlotWindows` | main loop, timer thread, ticks in which a block arrives | both threads are scheduled, and rtl_fm delivers for as long as it lives. Strong for `Tick`, since the timer thread's own steps come between two of them |

`GenVfo` and `CatController` have no liveness property: a command is a single
step there.

## 4. What is proved

All theorems are checked by tlapm, for every value of the constants that the
named assumptions allow. The assumptions are type assumptions on the
parameters, with `Timeout >= 2`, a pipe that holds a burst and all but one sample
of a block, band edges in order, no station called "CQ" or "me", a window longer
than the second in which it opens, and a buffer for a window, a full pipe and
two blocks.

| Module | Theorem | Argument |
|---|---|---|
| `PttMailboxProofs` | `NoRequestLost` | `MailboxInv` adds to the property that the signal is fresh once visible, that the flag follows it, and that the flag is still up when the store that lowers it takes effect: without the last, a clear could wipe out the flag of a newer request. The lemmas on order (`applied <= signal <= posted`) hold in both memory models |
| `PttPathProofs` | `NewestObeyedHolds`, `ModeFollowsKeyHolds`, `NoCommandOnAirHolds`, `EachInItsModeHolds`, `PinFollowsKeyHolds`, `NeverOlderHolds`, `PathTypeCorrect`, `StepsOfRegister` | `ChainInv` speaks of what the sender is `Told` by the first samples of the pipe: the mode that the last command among them asks for, one after which none follows, or its own if there is none. The order in the segment, or else all of the pipe, tells the mode of the keying (`LastTold`), each beginning of the pipe the mode its last sample was written under (`EachTold`, unless commands overtake samples). `OneWayOnly` says that there are commands in one of the two places only. `ToldLonger` and `ToldRest` say that this is kept when a block is added behind or a burst cut off in front. `PathInv` puts the generator's program order on top, and `KeyedAsServed` says that pin, keying and a pending command are those of the request served. With `MailboxInv` this gives `NewestObeyed`, and the steps of the register |
| `GenVfoProofs` | `FreqInBandHolds`, `HomeVfoHolds`, `TypeCorrect` | each method keeps the VFO it touches in its band; `HomeVfo` is inductive with the types, since `strayed` notes the calls that break it |
| `CatControllerProofs` | `PttAgreedHolds`, `VfoAgreedHolds`, `CommandsObeyedHolds`, `NoTuneWhileKeyedHolds`, `ImplementsRadioHolds`, `StatusTruthfulHolds`, `AnnouncedHolds`, `FrequencyKept`, `TypeCorrect` | `IInv` adds that the status word agrees until the keyboard thread has undone it, that the VFO object's SPLIT bit never gets set, since SPLIT commands reach the CAT's byte only, so that setPTT() swaps nothing; and that before the self-test is over nothing but the generator is keyed. Lemmas about the callbacks on any state come first. `AnnouncedHolds` rests on `Tuned`: both VFOs are in their bands and the CAT's copy is that of one of them. `FrequencyKept` goes byte by byte, by `PairKept`. `ImplementsRadioHolds` is the whole refinement: each command is simulated by one step of `CatRadio` (`KeyIsKey`, `TuneIsTune`, `SwapIsSwap` and so on), for which the lemmas on the callbacks say what they leave in every copy and what is answered |
| `VoxKeyerProofs` | `RunsWhileTickingHolds`, `TypeHolds`, `WillUnkeyHolds`, `HeldHolds`, `ExpiryInTimeHolds` | `TickSound`: between its accesses the tick has loaded a positive count. `Balance`: until a tick undoes a restart, what the countdown has left and the ticks since the last loud block make up the timeout, but for the tick under way. `Expiry`: an expiry, raised or about to be, belongs to a countdown that has run out, and such a countdown has one until it is handled |
| `FT8QsoProofs` | `OneWaitingHolds`, `SpeaksToPartnerHolds`, `TriesLeftHolds`, `CallsBoundedHolds`, `OwnSlotHolds`, `ImplementsContactHolds`, `TypeHolds` | `Budget`: the messages sent, the one that waits and the tries left never exceed the tries plus the stage of the QSO. It is kept by every handler, which none of the single properties is. With it each handler is one step of `FT8Contact` or cannot be heard (`RetrySpeaks`, `AdvanceSpeaks`, `ExchMeets`, `AbandonLeaves`), and so the whole automaton implements it: the message that waits is the last one composed (`OneWaiting`), it is for the partner (`SpeaksToPartner`), and whoever has composed one can afford to send it (`CanAfford`) |
| `SessionProofs` | `NoStaleKeyHolds`, `InTouchHolds`, `PinOwnedHolds`, `TypeHolds` | `GeneratorOK`: whatever segment a generator is attached to, or will find under the key, holds no request older than its session. `ControllerOK`: from its construction to its end the controller's segment is the one the key finds. `PinInv`: at most one generator has the pins, and it takes them with the pin low |
| `SlotWindowsProofs` | `SamplesFitHolds`, `OneHeaderPerSlotHolds`, `HeaderTruthfulHolds`, `TypeHolds` | `WindowInv` is a budget: the samples of the window, the block in hand, what the pipe holds and what the countdown still lets arrive stay within window, pipe and two blocks. `SlotInv` relates the countdown to the clock: LISTEN is cleared by its countdown alone, so that when a window is over, or the next may open, the first second of its slot is past. `HeaderInv` says that the number of the slot is that of the last window plus the slots begun since, modulo those of a minute. Each part follows both threads through their half steps, as long as no store was lost; the lemmas on division come first |

Only model-checked: every liveness property (`ImplementsRegister` as a whole,
`Drained`, `RequestServed`, `ReleasedInTime`, `SilenceEndsQso`,
`OldGeneratorsEnd`, `WindowCloses`), since fairness and ENABLED are out of the
prover's reach. `NewestObeyed` is proved for stores in program order only;
`mailbox_lost` shows why. `CatRadio` and `FT8Contact` have no fairness, so that
the two refinements are proved as a whole; what `PttRegister` promises includes
that it catches up, and of that one the steps are proved. A few theorems state
properties that no run checks, since a property of a run says more:
`NeverOlderHolds` (part of `ImplementsRegister`), `OwnSlotHolds` (part of
`ImplementsContact`), `NoTuneWhileKeyedHolds` (part of `ImplementsRadio`),
`TriesLeftHolds` (part of `Budget`) and `ExpiryInTimeHolds`. No module needs a recursive definition,
so nothing is lost to the prover there.

## 5. Findings

Five runs end in a counterexample; each is a disagreement of the code with its
own comments or README, quoted in `PROJECT.json`: `mailbox_lost`,
`cat_frequency`, `vox_released`, `ft8_repeats` and `session_keyed`.

Seen while reading, and not given a run:

* A VFO swap is obeyed while transmitting (OT4D.h:341), although line 269 speaks
  of changes in reception only.
* EEPROM addresses other than two are not answered (CAT817.h:465); the comment
  at line 445 says they are, nominally.
* The FT8 key Z, "cancel", is looked at only while there is no QSO to cancel.
* A fifo left over by a forced end stops the next start with exit(16)
  (genSSB.h:172), where the comment says that is fine. The script removes it.
* updateRIT() and others accept an index one past their arrays; no caller uses
  it.
* BCD2Dec() takes bytes whose halves are no digits for numbers (CAT817.h:186).
* The receiver is tuned once, when it is started (OT4D.h:704); vfoChangeFreq()
  tells the CAT and not the receiver.
* The slot decoder's comment "only 128000 used" (libFT8.h:33) is below the
  156000 samples of a 13 s window.
* After a window with too few samples the next header shows the counts of
  candidates and messages of the window before (decodeFT8.cpp:309).
* decodeFT8's getopt() reads an option `s` and its switch has a case `t`
  (decodeFT8.cpp:214, 220).

## 6. Not modelled

The plan was followed in the order of what is worst if it goes wrong: the
keying first, since a transmitter that stays on is the worst this program can
do (`PttMailbox`, `GenVfo`, `CatController`, `SsbChain`, `VoxKeyer`, `FT8Qso`,
`Session`), then the decoder's threads (`SlotWindows`) and the composition of
the keying from request to air (`PttPath`). What is left is left for a reason:

* **Serial framing.** The five bytes of a command are counted by an index that
  nothing but the next byte changes. After a lost byte every later command is
  shifted; no timeout, no pattern and no document say how a client gets back in
  step, so there is nothing to check it against.
* **Child wrappers** of the receiver and of the decoder. OT4D starts the
  receiver once and stops it once; the restart on each change is used by a
  demonstration. That stop() leaves the pipes open and the receiver running is
  plain from its lines, and `session_keyed` shows what the same stop() does to
  the transmit chain, where it matters.
* **The status word of OT4D** against its signal handler: a first Ctrl-C can be
  lost in setWord(), in that of the main loop or in that of the keyboard thread;
  the second Ctrl-C is exit(16). Of the bits that the two threads share,
  `CatController` has PTT; RUN and GUI are not modelled.
* **Direct synthesis together with sendiq** (genSSB with -d and -i): the mode
  change overtakes the samples in the pipe, so that the last of the voice is sent
  as carrier or the last of the silence as I/Q. `ModeFollowsKey` and the other
  properties hold there too, `EachInItsMode` is not stated for it. OT4D starts
  genSSB without -d (OT4D.h:682); the Pi4D build of the same file starts it with
  (line 688), and the option -m of either replaces sendRF by sendiq.
* **sendRF's level and frequency commands**, which genSSB never writes; the CW
  shift and the names of modes in the VFO object; the screen and the parsing of
  lines in the FT8 program; voice keying in `Session`, under which the generator
  has no segment.
* **Contact log, direct synthesis, demonstrations, scripts, Python programs**:
  each is a straight line of calls with no state that another part reads.
* **Signal processing** (filters, resamplers, gain control, FT8 decoding):
  arithmetic on real numbers, which TLC and the prover have none of. What the
  control needs of it is an input of the modules.
* **Vendored and third-party code**: two copies of alsa-lib, rpitx, rtl_fm,
  SatNOGS. They are by far most of the repository's lines, and nothing in them
  is this program's. The share of all lines that the modules translate is small
  for that reason; of the own control code (genVFO.h, OT4D.h,
  CAT817.h, genSSB.h, genSSB.cpp, sendRF.cpp, CallBackTimer.h, decodeFT8.cpp,
  demo_decodeFT8.cpp) they stand for about half of the lines, and what is left of
  those is declarations, options, traces, the screen and the parsing of text.
