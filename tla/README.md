# G1-Emu in TLA+

A model of [G1-Emu](../src/README.md): an emulator of the Nord Modular G1 that runs the
hardware's operating system on an emulated 68331 and four emulated DSP56303s, as a
stand-alone application and as a VST3 plug-in. The interesting part of the program is what
its threads, its two emulated worlds (CPU and DSPs) and its host do to each other; the
instruction sets come from external libraries. The modules here follow the source file by
file; `PROJECT.json` maps each definition to its lines, lists the hazards, and says which
run checks which property.

Contents: 1 the system · 2 modules · 3 runs · 4 fairness · 5 proofs · 6 findings ·
7 what is not modelled · 8 plan

## 1. The system

### Components, state and operations

| Component (source) | State | Operations |
|---|---|---|
| **Microcontroller** (`g1Lib/g1mc.*`) | CPU clock, `m_dspTarget`, worker threads with `m_generation`, `m_pending`, `m_sleepers`, mutex and condition variable; PIT, PC-port pacing, panel inputs | `exec`, `catchUpDsps`, `workerLoop`, the memory handlers `read8..write16`, `turnDial`, `setAdc`, `setButton` |
| **Dsp** ×4 (`g1Lib/g1dsp.*`) | program or boot ROM, the HI08 host port, the IRQD grid, `m_linkOut`/`m_linkIn`, `m_stalls` | `runUntil`, `catchUp`, `armBoot`, `hostWord`, `hostCommand`, `readIsr`, `transferToHost`, `tapLink`, `readLink`, `flushAudio` |
| **Flash** (`g1Lib/g1flash.h`) | 1 MB of data, command state, two counters | `read`, `write` |
| **Duart** (`g1Lib/g1duart.h`) | receive queue, transmit queue, enables | `receive`, `takeTx`, `read`, `write` |
| **Lcd** (`g1Lib/g1lcd.h`) | the bus and its lines, display and character RAM, cursor, modes | `writeData`, `writeControl` (`latch`), `line` |
| **AudioBridge** (`app/audiobridge.h`) | two lock-free rings, resampling positions, `m_buffering` | `push`, `pullInput`, `render`, `setRate` |
| **EmuHost** (`app/emuhost.*`) | the machine, its thread, the flash file, MIDI ports | `start`, `run`, `saveFlash`, `stop` |
| **JuceMidi / AlsaMidi** (`app/jucemidi.h`, `app/alsamidi.h`) | collectors, `pending` bytes per port | `poll`, `send` |
| **G1PluginProcessor** (`plugin/PluginProcessor.*`) | machine, `machineMutex`, pause depth, patch, parameters, edit queue, generation | `processBlock`, `loadRom`, `loadPatch`, `editParameter`, `get/setStateInformation` |
| **Plug-in editor** (`plugin/PluginEditor.*`) | a snapshot with its generation | edits, refresh |
| **Window, options, ROM search** (`app/gui/*`, `app/romfinder.*`) | the settings file and what of it is in use; the mouse's drag | launch, notice, `chooseRom`, `tryStart`, `apply`, `findRom`, `load`, `save` |
| **AlsaAudio** (`app/alsaaudio.h`) | a queue behind a mutex, its thread's `buffering` | `push`, `run`, opening and closing |
| **Tools, traces, build** | none of the running instrument | see section 7 |

### How they interact

- `EmuHost::run` (or `processBlock`) calls `exec` on one thread. `exec` runs the 68331 for a
  few cycles and every so often `catchUpDsps`: it publishes a target cycle, bumps a
  generation, wakes the workers if any sleep, runs DSP 0 itself, waits until the workers'
  count is zero, and then moves audio and chain blocks **with all DSPs stopped and no lock**.
- The CPU touches a DSP's host port in its memory handlers, after such a sync. The port's
  callbacks may run that DSP alone, in bounded waits, until it has made room; inside that run
  the program may jump to the boot ROM, whose `armBoot` calls `hostWord` again.
- DSP *n* sends a block a sample to DSP *n*+1, which takes the block eight periods old.
- Samples leave through `AudioBridge`: the emulator thread writes, the card's thread reads.
- The OS sees its editor through the DUART and a one-shot interrupt, the flash through command
  sequences, the panel through shift registers, phases and a converter one read late.
- In the plug-in the host's audio thread, message thread and others share the machine under
  JUCE's callback lock and `machineMutex`.

### What is hard, and what makes each part correct

| Part | Hard because | Correct if |
|---|---|---|
| sync of the DSPs | sleepers counted without the mutex; a target passed in a plain variable; a destructor that sets its flag outside the mutex | DSPs stopped when touched, one run per DSP and sync, no lost wake-up, termination |
| host port | nested calls, time only passes if the program runs, reboot in mid-access | both directions are queues; status registers tell the truth; an access returns |
| chain of DSPs | bursts, independent block numbers, one DSP running ahead | order; no gap within the margin |
| ring | stale indices, wrap-around, word-by-word copies | data-race free; a bounded queue |
| bridge | rates, re-opening, cushion and trim against each other | no drift, no second gap after a gap, playing resumes |
| flash | commands spread over writes | changes only by whole commands, always counted |
| flash file | kill, full disk, stop | file whole, changes noticed and saved |
| PC port | three queues, one-shot interrupt, a receiver reset or disabled at any time, messages cut anywhere | in order, whole, not stuck; only a reset loses anything |
| plug-in locks | two locks in opposite nestings, overlapping pauses, call-backs into the host | no block in a pause, the host's suspension restored, no deadlock |
| plug-in patch | stale editors, failed loads, automation, restores, pacing | model equals machine up to pending edits; each edit sent; states restored |
| ROM and settings | four places that name a ROM, each start reads the file again, a save can be refused or killed | the ROM named last runs, or the one of the last save that was made |
| ALSA output | two threads, and a card that fails | after a gap a whole cushion is played before the next of the emulator's making |
| raw MIDI card | cards that come and go in the middle of an attempt, a link made in one direction only, a name written while it is read | a card that comes and stays is taken, as long as none that was taken has gone; only one ever hears the emulator |
| upload | answers later than the time they are waited for | the PID in use is the one of the patch just uploaded |
| exec and the PIT | instructions longer than what is due | no tick lost, no DSP left behind |
| the way out of the chain | frames tapped in runs cut anywhere | every frame once, in order, also in the recording |
| dial and knobs | a count changed by two threads, a late converter | no edge lost, each value stored under its own knob |

The hazards, at their lines, are the list `hazards` of `PROJECT.json`.

## 2. The modules

Every action is named for the function or the step it stands for. *Slips* are definitions
marked as such: plausible bugs, never used by the specification, which serve to show that a
property can fail. History variables are marked in the declarations; no guard of the code
depends on one.

**`DspBarrier`** (abstract) and **`DspSync`**. The barrier promises rounds: begin, each DSP
run exactly once, finish, and the CPU alone in between. `DspSync` is `catchUpDsps`,
`workerLoop`, `exec`'s and the memory handlers' use of them, and `~Microcontroller`, one action
per load, store, lock, wait, notification and `fetch_sub`. `cpu` and `wpc[w]` are the program
counters. A wait of the condition variable is "release, block" in one step (as the library
promises), with spurious wake-ups, and its predicate is evaluated in two steps, generation and
quit. The DSP work itself is one step that records the target it ran to (`ran`). The atomics
are sequentially consistent, as the code's are (default order throughout); the plain
`m_dspTarget` is a variable like another, and `DspsStopped` shows that nobody reads it while it is
written. With `threaded` false the DSPs run serially.

**`BoundedQueue`** (abstract) and **`FrameRing`**. The queue appends, takes, or drops at its
capacity. `FrameRing` is `push`/`pop` at the grain of index loads, word copies and index stores;
an acquire load may return any value of the other index since the last one seen. Only
differences of the indices matter, and they wrap at `Modulus` (2^64 in the code).

**`AudioBridge`** keeps the levels of the two rings, the resampling positions in exact units
(`One` per source sample: the rates of the model divide), and the control of `push`,
`pullInput`, `render` and `setRate`; the audio thread's `render` interleaves frame by frame with
the emulator's pushes, and `SetRate` falls between callbacks but anywhere in a push.

**`DspLink`** is a pair of neighbours in the chain, in word times: the IRQD grid of `runUntil`
with its re-lock, `tapLink`, `flushAudio`'s hand-over with the cap, `readLink`'s drop and choice
of block, syncs, waits that run one DSP alone, and reloads of either. One turn of `runUntil` executes one
JIT block of any of the lengths `Steps`. One longer than a period (a `rep`, which cannot be interrupted)
passes over blocks, which are then never made, and leaves the grid behind: it catches up by one beat a turn, each
tapping the block just finished again, or, more than four periods behind, locks anew.

**`HostPort`** is the port of one DSP. One *turn* stands for one `runUntil` of a waiting loop;
the program is arbitrary: in a turn it reads a word, writes one, takes or raises an interrupt,
computes, stops (`WAIT`/`STOP`), or jumps to the boot ROM. The nested calls that `armBoot`
makes are the sequence `todo`, innermost first, each word with the cycles its `hostWord` may
still wait. The CPU is arbitrary too: it may or may not look at TXDE before it writes.

**`NorFlash`** (abstract), **`Flash`** and **`FlashStore`**. `NorFlash` clears bits, erases
sectors and counts. `Flash` is `Flash::write` for any byte at any offset: a byte is the set of
its one-bits, an offset is a sector and the low eleven bits as far as commands tell them apart.
`FlashStore` extends it with `EmuHost`: the load in `start`, the check of the counters in `run`,
`saveFlash` as open / write / rename (a failed open or write is not looked at; a rename without
a file throws and ends the process), and `stop`. `Kill` ends the process at any step.

**`PcPort`** goes from the driver's `Collect` through `poll` and `receive` into the DUART, the
interrupt of `execPcPort` and the OS's handler (external: it reads one byte per interrupt); the OS enables,
disables and resets the receiver (`Enable`, `Reset`) and masks the interrupt whenever it likes. What a
byte has come to is in `got` (read by the OS) or `dropped` (thrown away by a reset); and
back from the OS's messages through `takeTx` and `JuceMidi::send` with `messageLength`.

**`PluginGuard`** is the two locks and the pause; **`PluginPatch`** is everything done under
them: `queueEditLocked`, `captureHostParameterLocked`, `deliverEditsLocked`, `invalidatePatchLocked`,
`loadPatchLocked`, the overlay, `getStateInformation`, `setStateInformation`. Each action is one
region under `machineMutex`, except that a load takes emulated seconds (`LoadPatch`, `EndLoad`) in
which host and disk change, and `setStateInformation` writes the host parameter before it takes
the mutex (`Notify`, `Restore`).

**`Codec`** is the other end of the chain: the last DSP taps a frame at each beat, in runs cut by
syncs and by waits of the host port; its ESSIs' frames are collected at the end of a sync; the CPU's
thread drains both to the audio device and, up to `G1_RECORD` frames, to the WAV file, whose header
is written when the host stops. A frame is the number of its block.

**`ExecLoop`** is one instruction after another of any length: the catching up at the lines of a
grid or in the middle of an instruction when it touches a host port, `execPit` with what
accumulates, the UART's pace, and the OS that sets the period and takes the interrupt (external).
An instruction is no longer than the shortest period, which the PIT's hardware makes 2560 cycles.

**`Upload`** is `loadPatchLocked`'s exchange with the OS, and `g1patchtest`'s, which is not as strict: a
greeting, the requests of an editor, the packets. Answers come in order and whenever they
come; `transact` takes what ends a message for the reply, gives up in silence, or in
the middle of an answer. Requests are counted from the reset of the machine.

**`Panel`** is the mouse on the dial and the knobs (`Panel.cpp`'s drag, with the pixels that are left over),
the dial (`turnDial`, `dialBits`), whose pending edges the window and the OS's read both change,
and the converter (`setAdc`, `read8`, `write8`).

**`Startup`** goes from the launch to a machine that runs: command line, `G1_ROM`, settings file, the
folders searched (`findRom` with `inspectRom`'s verdict on each file), the first-run notice, the pickers of
the window and of the settings, `save` with its outcomes (written; refused, which leaves an older file as it was;
cut by a full disk or a kill once the file has been emptied), and files that appear and vanish. Each
start reads the settings over the options in memory, a pick whose save was refused included. Options other than the ROM and the notice have no effect on the control and
are left out.

**`AlsaAudio`** is the queue between `push` and the writing thread: test, lock and take a block, write without
the lock, succeed or fail; closing and opening again.

**`RawMidi`** is `bindRawMidi`, at the start and in `run` every two seconds: the name is read, the card's
ports are found, and each is linked by two subscriptions, of which the first, or the second after it, may be
refused: then `link` has failed, but the subscription made stays. Cards publish their ports one by one and can be
unloaded, subscriptions and all, between any two of these steps; the window writes the name in two steps, between which
a reader may see any name.

**`Lcd`** is the display's controller: bytes and control lines from the OS, and `latch` when E
falls, with one action for a character, a row of a character of the OS's own, and each command.
It has proofs (in `BoardProofs`) and no run.

**`MCAudio`** (`FrameRing`, `AudioBridge`, `AlsaAudio`), **`MCDspLink`** (`DspLink`, `Codec`), **`MCFlashStore`**
(`FlashStore`, `Startup`, `RawMidi`), **`MCPcPort`** (`PcPort`, `Panel`, `ExecLoop`) and **`MCPluginGuard`**
(`PluginGuard`, `Upload`) put components into one configuration that share no state. A variable `part`, chosen in
the initial state, says which of them a behaviour is about; the others stay as they begin, so that
the states add up and do not multiply. `MCPcPort` also takes the two directions of the PC port one at a time: all they
share is the round of `EmuHost::run`. They, and **`MCPluginPatch`**, also give TLC the
constants that a `.cfg` cannot write. Each component's own fairness is assumed in its own behaviours only.

## 3. The runs

All bounds are constants of the modules or, in one case, a `CONSTRAINT`. A run of several components
has a line for each. The invariants and action properties of all the passing runs are also
proved for all values of the constants (section 5); the bounds below matter for the liveness
properties and for the violations, which only TLC checks.

| Run | Question | Properties | Bounds, and why they are enough |
|---|---|---|---|
| `dsp_sync` | can the CPU and its workers miss each other? | `DspsStopped`, `NoLostWakeup`, `SyncCompletes`, `DestructorTerminates`, `ImplementsBarrier` | 2 workers (the count then distinguishes none, some, all; the code has 3), 2 rounds (a worker late by one), spin limit 2, 1 tick. |
| `audio` | is the ring a queue? | `NoDataRace`, `ImplementsQueue` | 2 slots, 2 words per frame, 2 sample values, indices wrap at 8: full, empty, both wraps and a half-copied frame all occur |
| | do rates, cushion, trim and re-opening work together? | `FirstBlockPlays`, `NoDrift`, `PlayResumes` | card rates half, equal and double the G1's; blocks below and above the cushion; a ring a little larger than the trimming level |
| | does a gap on the ALSA output cost more than itself? | `CushionPlays` | a cushion of 3 blocks of 2 frames, a queue of 9: failed writes, gaps, a full queue and re-opening all occur |
| `dsp_link` | does the chain keep blocks in order and in time? | `LinkOrdered`, `ArrivedWithinMargin` | 2 word times a block, JIT blocks of 1 and of 10 (five periods), latency 3 blocks, cap 3 blocks, 2 reloads, a CPU of 5 word times with waits of 12: a grid four periods behind catches up beat by beat, one further behind locks anew, with IRQD on or off and blocks from before it still on the link; the cap cuts, and a wait or a long block takes the receiver beyond the margin |
| | does every frame leave the last DSP once? | `OutputWhole` | 6 units of time at 2 a frame, runs of up to 3, one reload, a recording of 2 frames of 3: it ends before the host does, and with it |
| `dsp_link_arrived` | has the block "surely arrived"? | `SurelyArrived` (violated) | as above, but JIT blocks of 1, cap 4, waits of 8, no reload |
| `host_port` | what may a CPU rely on? | `NoWordStranded`, `StatusTrue`, `WordsArrive`, `AccessReturns` | 3 words under way, 1 word written ahead, 1 further interrupt, waits of 2 turns: two programs can follow each other within one access |
| `host_port_hang` | is a command to a stopped DSP lost? | `CommandReturns` (violated) | as above |
| `plugin_guard` | can the threads block or resume each other wrongly? | `NoBlockInPause`, `SuspensionRestored`, `OperationsEnd` | 3 threads besides the audio thread, 2 operations each: pauses nest and overlap in every order |
| | can a late answer pass for a later one's? | `OwnPid` | 1 request between greeting and packets (16 in the code), patches of 1 and 2 packets, 9 requests: two uploads with up to four slips, one more than it takes. |
| `plugin_patch` | do editor, state and synthesizer agree? | `ModelMatchesMachine`, `NoStaleEdit`, `NoBacklog`, `LoadIsNoAutomation`, `RestoredAsSaved`, `EditsDelivered` | 2 parameters (the aliased one and another), 2 values, 2 contents of the file or none, 3 generations |
| `plugin_patch_restore` | is a restore no automation? | `RestoreIsNoAutomation` (violated) | as above, the pacing gap of one block |
| `flash_store` | can patches be lost or destroyed? | `FileWhole`, `ChangesNoticed`, `StopSaves`, `FlashIsNor`, `ChangesSaved` | 2 sectors, the two command offsets, all 8 command bytes (each also as data), 2 operations per life of the process, counters modulo 7; `FewProgrammed` leaves out behaviours in which data other than `$10` is programmed |
| | which ROM runs? | `NamedRomRuns` | 3 files, 2 of them in the folders searched, any number of launches and saves: every two of the four places disagree, and a save is refused or cut over a file that names another ROM |
| | is a card that is loaded taken? | `CardTaken` | 2 cards of up to 2 ports, loaded and unloaded at will, and no name; every outcome of every subscription |
| `raw_midi` | is the card a matter of the next start? | `NextStartOnly` (violated) | as above |
| `pc_port` | does the editor's connection lose, reorder or hold anything? | `InOrder`, `WholeMessages`, `BytesRead` | 4 bytes in, a byte every 3rd step, any number of resets; SysEx, 3-, 2- and 1-byte messages, 3 at a time, 3 bytes a round, `pending` dropped above 3 |
| | does the OS see what the hand does? | `PanelTrue` | 2 turns of -13, 5 or 8 pixels (more than a detent, less, exactly one), 2 knobs, 2 values. |
| | does the board keep time? | `KeepsTime` | instructions of 1 to 3 cycles, a grid of 4, periods 3 and 5, 24 cycles. |

What they show, in a sentence each:

- `NoLostWakeup` and `DspsStopped`: the skip of the notification, the spinning and the unlocked
  publication are safe together; `ImplementsBarrier`: the rest of the machine may think of a
  sync as one atomic round.
- `NoDataRace`: the ring never has both threads in one slot even with stale indices.
- `FirstBlockPlays`: waiting for `prefill + block` rather than `prefill` is what keeps the first
  block after a gap whole. `NoDrift`: remainders survive rate changes. `PlayResumes`: no
  rate or block size (up to three cushions, see `BridgeAssumption`) makes the output silent for good.
- `LinkOrdered`: the index of a block is computed from the cycles, not counted, so neither beats lost to a
  reload nor a grid that catches up or locks anew disturb the order; what a grid that catches up taps is the last
  block again.
- `ArrivedWithinMargin`: a receiver that is at most (latency − 1) blocks less one JIT block (or one period, if JIT
  blocks are longer) ahead of what was handed over hears every block that was made; those that a sender passes over within
  one JIT block are never made. `SurelyArrived` shows that host-port waits can take it beyond.
- `OutputWhole`: wherever a run ends, the frames leave once and in order, one a beat, and the
  recording is the first of them.
- `WordsArrive`: whatever calls `armBoot` nests, the words of both sides arrive once and in order;
  `StatusTrue`: TRDY means that all is taken, and a CPU that waits for TXDE never has more than two in the port.
- `AccessReturns`: each wait ends as long as the program does not stop; the exception is real
  (`host_port_hang`).
- `SuspensionRestored`: three overlapping operations leave processing as the host had it.
- `EditsDelivered`: the rotating cursor starves nobody, even a parameter beside one that is
  automated in every block.
- `FlashIsNor`: no write that belongs to another command, or is data, or is cut off by a kill,
  programs or erases; `FileWhole`: only a full disk can damage the file, never a kill.
- `InOrder`: what has left the receiver was read once and in order or was there when the OS reset it;
  disabling the receiver or masking its interrupt loses nothing.
- `BytesRead`: an interrupt that cannot be raised is raised later, in every order of masking, disabling,
  resetting, arriving and serving.
- `KeepsTime`: the OS's clock loses no tick to a long instruction, as long as it takes each interrupt before
  the next, and no DSP is a whole square of the grid behind.
- `PanelTrue`: dial edges are neither lost nor doubled, a drag adds up to its pixels, and each value
  is stored under its own knob.
- `OwnPid`: an old ACK is in the way of a new patch's only if more answers have come late than
  there are requests before the packets, sixteen and the greeting.
- `NamedRomRuns`: the ROM named last runs, as long as the save that was to remember it was made. A save refused over
  an older settings file, or cut, may lose the pick, in the run it was made in as well (section 6); then the ROM of the
  last save that was made runs, or, if that save's file is gone too, one found in the folders, and no other.
- `CushionPlays`: a card that fails cannot turn one gap into many.
- `CardTaken`: until a card that was taken goes, no order of publishing, unloading and refusing makes the emulator
  give up: a card that is there in the end hears it. After a taken card has gone the emulator does not
  look for one again (section 6), and nothing is claimed.

Every property of a passing run has a mutant (`mutants` in `PROJECT.json`): one definition
replaced by its slip, with which TLC finds the property violated.

Deadlock is checked in all runs; where the modelled system has ended (`DspSync`'s `Gone`) or its
bound is used up, another action is always left.

## 4. Fairness

| Module | Assumed | Justified by |
|---|---|---|
| `DspSync` | weak on the steps of each thread, strong on getting the mutex; none on `exec`, on quitting, on spurious wake-ups | the OS schedules every thread, and its mutexes do not starve a waiter for ever |
| `AudioBridge` | weak on emulator and audio thread; the trimming loop ends again and again | both run in real time for ever; a turn of the loop takes nanoseconds against ten microseconds of a pushed sample |
| `HostPort` | weak on the continuation of an access | it is one call of the CPU's thread; nothing obliges the CPU to make one, or the program to read or to go on |
| `PluginGuard` | strong on each thread's taking of a lock that is free again and again | fairness of mutexes as above; the host calls the audio thread for ever |
| `PluginPatch` | weak on `ProcessBlock` and on the end of a load or restore | a host processes while the plug-in is not suspended; an upload has time-outs |
| `FlashStore` | weak on the steps of a save | the emulator's thread goes on; kills and quits may still come at any time |
| `RawMidi` | weak on the retry, the steps of an attempt and the end of an assignment; a card that is there does not for ever refuse to have its first port linked both ways | the emulator's thread goes on; what the sequencer refuses (a port that is just going, or is another's for the moment) is not permanent, and a card's MIDI ports are readable and writable. A card whose first port goes one way only is excluded here, not in the proofs. Nothing obliges a card to come or stay: `CardTaken` is about one that does |
| `PcPort` | weak on the rounds, strong on `exec`, the interrupt handler and the end of a round; the interrupt is on with the receiver enabled again and again | the rounds go on; the OS is external: it takes its interrupts when it enables them, and one that wants to hear its editor leaves neither off for good |

`DspLink`, `Codec`, `FrameRing`, `ExecLoop`, `Panel`, `Upload`, `Startup` and `AlsaAudio` state safety only.

## 5. What is proved

TLAPS checks these for **every** value of the constants, from the assumptions named. A module of proofs
extends the module that its run checks, so that both speak of the same property; the theorems are about
the components' own specifications (`Pnl!Spec`, `Exc!Spec`, ...).

**`DspSyncProofs`**, from `SyncAssumption` (a finite set of workers, distinct from the CPU's own
thread and from the mutex's "no one"):

- `Inductive` is the invariant `IndInv`, and from it `TypeCorrect` (neither unsigned counter goes
  below zero), `StoppedDsps`, `CompleteRounds`, `WakeupsArrive`;
- `Refinement`: `Spec => Barrier!Spec`, the safety part of `ImplementsBarrier`.

The properties are not inductive by themselves: a counter says nothing of the threads. The
invariant ties them together. `CountInv`: `m_pending` is the number of *debtors* (workers that
have not taken the generation, or have and have not yet subtracted) and `m_sleepers` the number of
workers between their increment and decrement. `RoundInv`: there are debtors only from the
publication of the generation to the end of the wait, and a worker in the DSP has the
published clock as its argument. `MutexInv`: who is where while the mutex is held. `WakeInv`: a worker
that has decided to sleep on an old generation did so before the CPU counted sleepers or before
it got the mutex. `RanInv`: what each DSP was run to. Each step is taken three times, in
`ThreadsStep` (all but the counters, given what a zero counter means: `CountersSeeAll`),
`CountStep` (the counted sets grow or shrink by one element: library facts on cardinalities) and
`TypeStep`. `BarrierStep` then maps each action to a step of the barrier or a stutter.

**`BoardProofs`**. Of the panel, from `PanelAssumption`: `DialKeepsCount` (edges counted by the OS and edges
pending add up to those asked for, whatever the window does between the OS's load and its
step) with the strengthening that the OS saw last the phase the dial stands at, so that the next
one is one edge away at most; and `ConversionsKept` (a value is stored under the knob it was
converted from), because a read stores for the channel of the read before; `DragsAddUp`, from what a
drag leaves over; and `PanelIsTrue`, all three together.

Of `exec`, from `ExecLoopAssumption` (no instruction is longer than the shortest period): `BoardKeepsTime`.
`Synced` says that since the last line of the grid the DSPs have caught up, `Ticking` that the time
elapsed is the periods counted and what has accumulated, which is less than one, while the OS
takes its interrupts (`calm`).

Of the PC port, from `PcPortAssumption`: `BytesInOrder`. `Numbered` says which byte stands where in the
two queues before the OS: the n-th of them is the n-th after the last that has left the receiver; `Fated`, that those
which have left it were read, in ascending order, or are among those reset away. `MessagesStayWhole`
needs `MessagesAssumption` as well: what the OS sends are MIDI messages, each as long as `messageLength` tells from
its first byte, or a SysEx up to its end. By `Streamed` the collector's `pending`, the bytes in the port
and the rest of the one being written are, one after the other, the messages due (`Joins`);
`LengthOfFirst` then finds in `pending` either no whole message, so that nothing is sent, or the first
of those due.

Of the display, from `LcdAssumption` (the commands of the OS set the cursor only to places on the lines; characters and rows may be any byte): `TextStaysOnLines`
(the cursor never leaves the two lines, and nothing is written beyond them), from `CursorSteps` on
the wrap from line to line in either direction, and `DefinitionsKeepText`.

**`HostProofs`**. `StartsOnNamedRom`, from `Remembered`: the settings file, if it is whole, holds the name of the last save that
was made, and names a ROM. A start whose pick was not saved reads either that name or none, and in the second
case the pick stands (`StartRuns`). `OneCardLinked`, from `Single`: while the emulator is not bound, a card hears it only in
the middle of an attempt, and then it is the card of that attempt; what a refused second subscription leaves behind is of
the other direction.

Of the flash chip, from `FlashAssumption` and `CommandAssumption` (sizes, and that the two command offsets differ):
`ChipImplementsNor`, the refinement of `NorFlash`. The specification speaks of the last writes, the code of a
state; `Followed` says what each state tells of the writes since the chip was last idle. `OnlyCommandsWrite`
is the same for the chip as part of `FlashStore`. Of the file, from `StoreAssumption`: `FileStaysWhole`, `NoChangeMissed`,
`StopLosesNothing` and `StoreTypes` from `StoreInv`: a file about to be renamed has the contents unless the disk was
full, and a counter that was saved is not above the counter. `NoChangeMissed` compares counters for equality
only, as the code does; it holds because one life of the process makes fewer operations than a counter
has values (`CountersSuffice`, from `StoreAssumption`; 2^32 in the code).

**`AudioProofs`**. `CushionIsPlayed`, from `AlsaAssumption`, as what is in the queue and what was taken add up
to the cushion at least.

Of the ring, from `RingAssumption` (the wrap of the counters is a multiple of the size and at least twice as much):
`RingRaceFree` and `RingIsQueue`. The counters wrap, so that they cannot be compared. `RingInv` says there are
natural numbers that they are the remainders of, and orders those (`Unrolled`): what the producer knows of the
consumer is not after where the consumer is, and so on round the ring. Hence the two never
have one slot (`SlotsDiffer`), and what has been copied of a frame stays (`Copied`). `RingIsQueue` takes the frames between
the two numbers as the queue.

Of the bridge, from `BridgeAssumption` (positions are whole numbers of a small enough unit; the ring is longer than
the trimming level): `BridgeDoesNotDrift` (what the card has played beyond what was consumed is the
fraction `outPos`, and that is less than a step and one) and `FirstBlockHasNoGap` (a block that began full is
filled: what is left of it is in the ring).

**`HostPortProofs`**, from `PortAssumption`. `RomStrandsNoWord` and `StatusHolds` come from `PortInv`: the words in the port and those
of nested calls under way are no more than the depth, none while the status read says TRDY, and at most one with TXDE.
`PortIsTwoQueues` maps each step to a step of the two queues or a stutter: `Sent`, the port's words and then those
of the calls under way, is what the CPU wrote and the DSP has not; `Written`, the word in the CPU's register and
then the port's, what a program wrote and the CPU has not read. `PortTypes` adds the bounds of the counters.

**`LinkProofs`**, from `LinkAssumption` (a block has two word times at least) and, for the way out, `CodecAssumption` (also, no
step of the last DSP is longer than a period: a frame passed over would be a frame not played). `BlocksInOrder` and `BlocksArrive`
come from `LinkInv`: the sender's grid stands on whole periods, is never more than one beat ahead, and only if JIT blocks are
longer than a period more than a step behind (`Gridded`); the two queues are ascending and below the block being made
(`Ordered`, strictly unless JIT blocks are that long); every block from the oldest still wanted on is in one of them or is known
to be missing (`Tapped`), and those finished long enough (`TapDelay`) before the last hand-over are on the receiver's side
(`Arrived`). `OutputIsWhole` comes from `OutputInv`: the same for the
frames of the last DSP (`OnBeat`, `EveryBeat`), with the counts of the ESSIs' words and of the recording.
The arithmetic of periods is in lemmas of its own (`InPeriod`, `PeriodIs`, `LaterPeriod`).

**`PatchProofs`**, from `PatchAssumption` (a message is no longer on the wire than the pacing gap): `MachineFollowsModel`, `EditsAreOfTheirPatch`, `PortKeepsUp`, `LoadsAreNoAutomation`, `RestoreIsExact` and
`PatchTypes`, all from `PatchInv`. None of them is inductive. That edits are of the patch they were made for needs `Shown` (an
editor has seen no generation that is still to come); that the port keeps up needs `Paced` (it is
busy no longer than the pacing waits); that a load is no automation needs `Noted` (whatever makes the next
capture an edit was somebody's touch); and that a restore is exact needs `Faithful` of what was saved and
of what is being restored: the differences saved are those from the file's contents, and the file
still has these if its hash is the one saved.

**`PluginProofs`**. Of the pause, from `GuardAssumption` (finitely many threads, the audio thread not
one of them): `SuspensionIsRestored` and `PauseExcludesBlocks`, with `GuardTypeCorrect`, all from
`PauseInv`. Neither property is inductive: that a pause ends in the host's state needs what
`processingWasSuspended` holds while it lasts (above depth zero processing is suspended and `was`
is the host's), and that no block runs in a pause needs that a callback under way holds the
callback lock, which a first pause would have to take. `EnterCounts` and `ExitCounts` keep `depth` equal
to the number of threads inside a pause (library facts on cardinalities).

Of the upload, from `UploadAssumption`: `PidIsOwn` and `PromptUploadsSucceed`. The invariant bounds the
answers still owed by the slips (`Owed`): each request that `transact` leaves with an answer takes
one at least. An old ACK can therefore reach a packet only after as many slips as there
are requests between (`Slipped`).

**Only model-checked** is what the provers cannot do: liveness under fairness (`SyncCompletes`,
`DestructorTerminates`, the liveness part of `ImplementsBarrier`, `PlayResumes`, `AccessReturns`, `OperationsEnd`,
`EditsDelivered`, `ChangesSaved`, `CardTaken`, `BytesRead`), and the violations of section 6. Every other property of
the passing runs has a theorem.

## 6. Findings

- **`dsp_link_arrived`**: `g1dsp.cpp` says the block of `g_linkLatency` blocks ago "has surely arrived"
  (line 47-48). A host-port wait may run one DSP alone for 200,000 cycles, some 230 blocks; a
  receiver that waits that long asks for blocks its sender has not made, plays silence, and the
  blocks that come later are dropped as too old.
- **`host_port_hang`**: `hostCommand` prefers "to lose the command than hang" (line 1238), but its wait
  counts the DSP's cycles, and a DSP in `WAIT`/`STOP` has none: with an interrupt pending
  that it does not take, the loop does not end.
- **`plugin_patch_restore`**: "Loading a patch/state is not a host automation event"
  (`PluginProcessor.cpp:278`), but `setStateInformation` sets the parameter before it takes the
  mutex; an edit or a save in between captures it as automation of the patch still active.

- **`raw_midi`**: the settings window says "The level applies now; the rest, on the next start" (`Settings.cpp:156`),
  but until a card has been taken the emulator's thread reads the name again every two seconds
  (`emuhost.cpp:382`, `530`), while `apply` assigns it (`Settings.cpp:221`), without a lock: the new
  card is taken at once, and the string may be read in the middle of its assignment.

Noted without a run, as nothing in the repository says otherwise: a cursor shift to the right goes
left in the decrementing entry mode, as `latch` uses `move` for it (`g1lcd.h:80`); on a full disk a short file
replaces the flash (`FlashStore`'s `failed`), and the input ring is never trimmed, so its
latency stays at what a pause of the emulator has left. The first-run notice is only shown after a start that
succeeded at the launch: a user who had to pick the ROM first never sees it. "Open the folder"
asks again without another search. With a `G1_ROM` that is no ROM, the picked file is never tried. Whatever ROM was in use, from the
command line or `G1_ROM` too, is written to the settings by `apply`. A settings file that cannot be written makes the first screen useless: `chooseRom` ignores that the save was
refused (`Main.cpp:122`), and the start that follows reads the older name back over the pick (`emuhost.cpp:166`), so that the
older ROM runs, or the same screen comes again. The settings are saved in place: a kill
leaves an empty file, and the next start searches. `m_wavFrames` is never reset, which would matter if a host
were started twice. A raw MIDI card of which one port was refused counts as taken, and the refused one is not tried again. A card that was taken
and goes is never linked again, even if it comes back, as `m_rawMidiBound` is never cleared (`emuhost.cpp:530`), and the
status line keeps naming it. If the second subscription of a link is refused the first stays (`alsamidi.h:100`), and the
emulator goes on hearing that card even if it then takes another. A reset of the DUART's receiver leaves an interrupt pending
whose handler then reads a zero.

## 7. What is not modelled

- **The 68331 and DSP56300 cores, JIT, SCI**: external libraries (the directories are empty here);
  `onLaChanged`, which moves the ends of compiled loops, goes with them: it takes every change of the DSP's LA for the
  extension of the main loop, and what it does to nested loops depends on the JIT and on the programs. `HostPort`, `DspLink` and
  `PcPort` model what the code here sees of them. The OS in the ROM is external as well.
- **Audio samples**: the words of a chain block and of a codec frame, interpolation values, gains, meters and the
  clock that `drainAudio` gives the receivers; only counts, order and time are kept.
- **JACK, JUCE and ALSA devices, AlsaMidi's events**: I/O; their callbacks run what is modelled.
- **The plug-in's notes and controllers, panic, output resampling**: straight pass-through in `processBlock`.
- **EmuHost's pacing against the wall clock, statistics and logs**: no property here depends on them.
- **Drawing, fonts, the other options of the settings**: no state of the instrument.
- **Tools and traces other than `g1patchtest`'s upload, build**: they observe and change nothing.

## 8. Plan

Order of work, most important first; (done) marks this state.

1. (done) `DspSync`/`DspBarrier` with proofs; `HostPort`; `FrameRing`; `AudioBridge`; `DspLink`;
   `PluginGuard` with proofs; `PluginPatch`; `Flash`/`FlashStore`; `PcPort`; `Panel` and `Lcd`
   with proofs.
2. (done) `ExecLoop`, `Upload`, `Startup`, `AlsaAudio` with proofs, `RawMidi`, `Codec`; `Panel` checked and
   extended by the mouse.
3. (done) The invariants and action properties of every run proved, with the refinements of the barrier,
   the NOR flash, the ring's queue and the host port's two queues.
4. Types of the components that have no theorem of them yet (`PcPort`, `FrameRing`, `DspLink`, `Upload`, `Startup`);
   an abstract specification of the pause (one operation at a time, no block meanwhile) and of the flash file
   (a cell that a save replaces as a whole), and that `PluginGuard` and `FlashStore` implement them.

To run: `tlc -config X.cfg M` for the pairs in `PROJECT.json`, `tlapm M.tla` for the modules whose
names end in `Proofs`.
