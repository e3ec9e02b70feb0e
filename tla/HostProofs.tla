----------------------------- MODULE HostProofs -----------------------------
(***************************************************************************)
(* Proofs about the emulator's host: the ROM it starts with (Startup), the *)
(* card that the raw MIDI is linked to (RawMidi), the flash chip (Flash)   *)
(* and the file its contents are kept in (FlashStore).                     *)
(***************************************************************************)
EXTENDS MCFlashStore, FiniteSetTheorems, TLAPS

(* Startup: what was kept is what the settings file says, and no save      *)
(* leaves a name out.                                                      *)
Remembered ==
  /\ NamedRomRuns
  /\ kept = IF settingsFile = "whole" THEN conf.rom ELSE None
  /\ settingsFile = "whole" => conf.rom # None
  /\ ui \in {"notice", "run"} => rom # None

USE DEF NamedRomRuns, Srt!NamedRomRuns

(* A start that reads the name which it is expected to runs what is        *)
(* expected.                                                               *)
LEMMA StartRuns ==
  ASSUME NEW opts, NEW lost \in BOOLEAN, Srt!TryStart(opts), Srt!Expect(cmd', lost),
         Srt!Loaded(opts).rom = IF lost THEN kept' ELSE wish'
  PROVE  /\ NamedRomRuns'
         /\ (ui \in {"notice", "run"} => rom # None)'
BY DEF Srt!TryStart, Srt!Expect, Srt!FindRom, Srt!Serves

LEMMA LaunchStep ==
  ASSUME Remembered, NEW c, NEW e, Srt!Launch(c, e)
  PROVE  Remembered'
<1>1. /\ cmd' = c /\ UNCHANGED <<settingsFile, conf, wish, kept>>
      /\ Srt!TryStart(Srt!Defaults) /\ Srt!Expect(c, wish # kept)
  BY DEF Srt!Launch, Srt!settings
<1>2. Srt!Loaded(Srt!Defaults).rom = kept'
  BY <1>1 DEF Remembered, Srt!Loaded, Srt!Defaults
<1>3. Srt!Loaded(Srt!Defaults).rom = IF wish # kept THEN kept' ELSE wish'
  BY <1>1, <1>2
<1>4. NamedRomRuns' /\ (ui \in {"notice", "run"} => rom # None)'
  BY <1>1, <1>3, StartRuns
<1> QED BY <1>1, <1>4 DEF Remembered

LEMMA NoneNamesNoFile == None \notin Files
BY NamesAssumption DEF Srt!StartupAssumption

(* Whatever comes of a save, kept is what the file says.                   *)
LEMMA SaveStep ==
  ASSUME Remembered, NEW opts, opts.rom # None, Srt!Save(opts)
  PROVE  /\ wish' = opts.rom
         /\ kept' = IF settingsFile' = "whole" THEN conf'.rom ELSE None
         /\ settingsFile' = "whole" => conf'.rom # None
BY DEF Remembered, Srt!Save

LEMMA ChooseRomStep ==
  ASSUME Remembered, NEW f \in Files, Srt!ChooseRom(f)
  PROVE  Remembered'
<1> DEFINE o == [rom |-> f, notice |-> notice]
<1>1. /\ Srt!Save(o) /\ cmd' = None
      /\ Srt!TryStart(o) /\ Srt!Expect(None, kept' \notin {f, None})
  BY DEF Srt!ChooseRom
<1>2. o.rom # None
  BY NoneNamesNoFile
<1>3. /\ wish' = f
      /\ kept' = IF settingsFile' = "whole" THEN conf'.rom ELSE None
      /\ settingsFile' = "whole" => conf'.rom # None
  BY <1>1, <1>2, SaveStep
<1>4. Srt!Loaded(o).rom = IF settingsFile' = "whole" THEN kept' ELSE f
  BY <1>3 DEF Srt!Loaded
<1>5. Srt!Loaded(o).rom = IF kept' \notin {f, None} THEN kept' ELSE wish'
  BY <1>3, <1>4
<1> HIDE DEF o
<1>6. NamedRomRuns' /\ (ui \in {"notice", "run"} => rom # None)'
  BY <1>1, <1>5, StartRuns
<1> QED BY <1>3, <1>6 DEF Remembered

(* No action but a start changes what runs or what is expected.            *)
LEMMA OtherStep ==
  ASSUME Remembered, [Srt!Next]_Srt!vars,
         \A c, e \in Srt!Names : ~Srt!Launch(c, e), \A f \in Files : ~Srt!ChooseRom(f)
  PROVE  Remembered'
<1>1. CASE Srt!CloseNotice
  <2>1. /\ NamedRomRuns' /\ rom' = rom /\ rom # None
        /\ \/ Srt!Save([rom |-> rom, notice |-> FALSE])
           \/ UNCHANGED <<settingsFile, conf, kept>>
    BY <1>1 DEF Srt!CloseNotice, Srt!options, Srt!settings, Remembered
  <2> QED BY <2>1, SaveStep DEF Remembered
<1>2. CASE Srt!Apply /\ rom' # None
  <2>1. NamedRomRuns' /\ Srt!Save([rom |-> rom', notice |-> notice'])
    BY <1>2 DEF Srt!Apply, Remembered
  <2> QED BY <1>2, <2>1, SaveStep DEF Remembered
<1>3. CASE Srt!Quit
  BY <1>3 DEF Srt!Quit, Srt!Off, Srt!settings, Srt!options, Remembered
<1>4. CASE Srt!KilledSaving
  BY <1>4 DEF Srt!KilledSaving, Srt!Off, Srt!options, Remembered
<1>5. ASSUME NEW f \in Files, Srt!ChangeFile(f) PROVE Remembered'
  BY <1>5 DEF Srt!ChangeFile, Srt!settings, Srt!options, Remembered
<1>6. CASE UNCHANGED Srt!vars
  BY <1>6 DEF Srt!vars, Srt!settings, Srt!options, Remembered
<1>7. /\ Srt!ChangeSettings => Srt!Apply /\ rom' # None
      /\ \A f \in Files : Srt!PickRom(f) => Srt!Apply /\ rom' # None
  BY NoneNamesNoFile DEF Srt!ChangeSettings, Srt!PickRom, Srt!Apply, Remembered
<1> QED BY <1>1, <1>2, <1>3, <1>4, <1>5, <1>6, <1>7 DEF Srt!Next

(* The machine runs on the ROM named last (Main.cpp, romfinder.cpp,        *)
(* EmuHost::start), for any files and any folders searched; a save refused *)
(* or cut makes no other run than the one last kept, or the folders'.      *)
THEOREM StartsOnNamedRom == Srt!Spec => []NamedRomRuns
<1>1. Srt!Init => Remembered
  BY DEF Srt!Init, Remembered
<1>2. Remembered /\ [Srt!Next]_Srt!vars => Remembered'
  BY LaunchStep, ChooseRomStep, OtherStep
<1>3. Remembered => NamedRomRuns
  BY DEF Remembered
<1> HIDE DEF NamedRomRuns, Srt!NamedRomRuns
<1> QED BY <1>1, <1>2, <1>3, PTL DEF Srt!Spec
-----------------------------------------------------------------------------
(* RawMidi: while it is not bound, a card's port hears the emulator only   *)
(* in the middle of an attempt that will bind it to that card.             *)
Single ==
  /\ Raw!OneCard
  /\ pc # "rounds" => ~bound
  /\ pc \in {"name", "find", "first"} => done = {}
  /\ ~bound /\ done = {} => \A l \in links : l[3] # "out"
  /\ pc = "second" => \A l \in links : l[3] = "out" => l[2] = name
  /\ pc = "rounds" => done = {}

(* What link adds is of the card it is about.                              *)
LEMMA SubscribeAdds ==
  ASSUME NEW p, NEW made \in SUBSET Raw!TwoWay, Raw!Subscribe(p, made)
  PROVE  /\ \A l \in links' : l \in links \/ (l[2] = name /\ l[3] \in made)
         /\ links \subseteq links'
BY DEF Raw!Subscribe

LEMMA LinkMidiStep ==
  ASSUME Single, NEW made \in Raw!Outcomes, Raw!LinkMidi(made)
  PROVE  Single'
<1>1. /\ pc = "first" /\ pc' = "second" /\ bound' = bound /\ name' = name
      /\ Raw!Subscribe("MIDI", made)
      /\ done' = IF made = Raw!TwoWay THEN {"MIDI"} ELSE {}
  BY DEF Raw!LinkMidi
<1>2. made \in SUBSET Raw!TwoWay /\ (made = Raw!TwoWay \/ "out" \notin made)
  BY DEF Raw!Outcomes, Raw!TwoWay
<1>3. ~bound /\ \A l \in links : l[3] # "out"
  BY <1>1 DEF Single
<1>4. \A l \in links' : l[3] = "out" => l[2] = name /\ "out" \in made
  BY <1>1, <1>2, <1>3, SubscribeAdds
<1>5. done' = {} => \A l \in links' : l[3] # "out"
  BY <1>1, <1>2, <1>4
<1> QED BY <1>1, <1>3, <1>4, <1>5 DEF Single, Raw!OneCard

LEMMA LinkPcPortStep ==
  ASSUME Single, NEW made \in Raw!Outcomes, Raw!LinkPcPort(made)
  PROVE  Single'
<1> DEFINE all == done \cup (IF made = Raw!TwoWay THEN {"PC Port"} ELSE {})
<1>1. /\ pc = "second" /\ pc' = "rounds" /\ name' = name /\ done' = {}
      /\ Raw!Subscribe("PC Port", made) \/ (made = {} /\ links' = links)
      /\ bound' = (all # {})
  BY DEF Raw!LinkPcPort
<1>2. made \in SUBSET Raw!TwoWay /\ (made = Raw!TwoWay \/ "out" \notin made)
  BY DEF Raw!Outcomes, Raw!TwoWay
<1>3. ~bound /\ \A l \in links : l[3] = "out" => l[2] = name
  BY <1>1 DEF Single
<1>4. \A l \in links' : l \in links \/ (l[2] = name /\ l[3] \in made)
  BY <1>1, <1>2, SubscribeAdds
<1>5. \A l \in links' : l[3] = "out" => l[2] = name
  BY <1>3, <1>4
<1>6. ~bound' => done = {} /\ "out" \notin made
  BY <1>1, <1>2
<1>7. ~bound' => \A l \in links' : l[3] # "out"
  BY <1>3, <1>4, <1>6 DEF Single
<1> QED BY <1>1, <1>5, <1>7 DEF Single, Raw!OneCard

(* However often the name is changed, also in the middle of its being      *)
(* read, whatever of a link is refused, and as cards come and go, only one *)
(* card hears the emulator.                                                *)
THEOREM OneCardLinked == Raw!Spec => []Raw!OneCard
<1>1. Raw!Init => Single
  BY DEF Raw!Init, Raw!Begun, Single, Raw!OneCard
<1>2. Single /\ [Raw!Next]_Raw!vars => Single'
  <2> SUFFICES ASSUME Single, [Raw!Next]_Raw!vars PROVE Single'
    OBVIOUS
  <2> USE DEF Single, Raw!OneCard, Raw!attempt, Raw!progress, Raw!outside
  <2>1. ASSUME NEW c \in Cards, Raw!Publish(c) PROVE Single'
    BY <2>1 DEF Raw!Publish
  <2>2. ASSUME NEW c \in Cards, Raw!Unload(c) PROVE Single'
    BY <2>2 DEF Raw!Unload
  <2>3. ASSUME NEW n \in Raw!Names, Raw!BeginApply(n) PROVE Single'
    BY <2>3 DEF Raw!BeginApply
  <2>4. CASE Raw!EndApply
    BY <2>4 DEF Raw!EndApply
  <2>5. CASE Raw!Retry
    BY <2>5 DEF Raw!Retry
  <2>6. CASE Raw!ReadName
    BY <2>6 DEF Raw!ReadName
  <2>7. CASE Raw!FindCardPorts
    BY <2>7 DEF Raw!FindCardPorts
  <2>8. CASE Raw!FindNothing
    BY <2>8 DEF Raw!FindNothing
  <2>9. ASSUME NEW made \in Raw!Outcomes, Raw!LinkMidi(made) \/ Raw!LinkPcPort(made)
        PROVE  Single'
    BY <2>9, LinkMidiStep, LinkPcPortStep
  <2>10. CASE Raw!Restart
    BY <2>10 DEF Raw!Restart
  <2>11. CASE UNCHANGED Raw!vars
    BY <2>11 DEF Raw!vars
  <2> QED
    BY <2>1, <2>2, <2>3, <2>4, <2>5, <2>6, <2>7, <2>8, <2>9, <2>10, <2>11
    DEF Raw!Next, Raw!Bind
<1>3. Single => Raw!OneCard
  BY DEF Single
<1> QED BY <1>1, <1>2, <1>3, PTL DEF Raw!Spec
-----------------------------------------------------------------------------
(* Flash: the state of the chip tells the writes since it was last Idle.   *)
Followed ==
  /\ state \in States
  /\ state = "Idle" => sequence = <<>>
  /\ state # "Idle" => Len(sequence) >= 1 /\ Is(1, At555, xAA)
  /\ state \notin {"Idle", "Unlock1"} => Len(sequence) >= 2 /\ Is(2, At2AA, x55)
  /\ state = "Unlock1" => Len(sequence) = 1
  /\ state = "Unlock2" => Len(sequence) = 2
  /\ state = "Program" => Len(sequence) = 3 /\ Is(3, At555, xA0)
  /\ state \in {"EraseSetup", "EraseUnlock1", "EraseUnlock2"} => Is(3, At555, x80)
  /\ state = "EraseSetup" => Len(sequence) = 3
  /\ state \in {"EraseUnlock1", "EraseUnlock2"} => Is(4, At555, xAA)
  /\ state = "EraseUnlock1" => Len(sequence) = 4
  /\ state = "EraseUnlock2" => Len(sequence) = 5 /\ Is(5, At2AA, x55)

FlashInv == FlashTypeOK /\ Followed

(* A write that is no step of a command leads to Idle.                     *)
LEMMA StepOrIdle ==
  ASSUME NEW o, NEW byte, Advance(o, byte)
  PROVE  \/ state' = "Idle"
         \/ \E u \in Steps : u[1] = state /\ u[2] = o[2] /\ u[3] = byte /\ u[4] = state'
BY DEF Advance, Following

(* What a write does to the contents is what a flash promises.             *)
LEMMA WriteIsNor ==
  ASSUME NEW o \in Offsets, NEW byte \in Bytes, Write(o, byte)
  PROVE  NorNext \/ UNCHANGED nor
<1>1. CASE ProgramByte(o, byte)
  BY <1>1 DEF ProgramByte, NorNext
<1>2. CASE EraseSectors(o, byte)
  BY <1>2 DEF EraseSectors, NorNext, Offsets
<1>3. CASE Reset(byte) \/ Advance(o, byte)
  BY <1>3 DEF Reset, Advance
<1> QED BY <1>1, <1>2, <1>3 DEF Write

LEMMA NorStep ==
  ASSUME NorTypeOK, NorNext
  PROVE  NorTypeOK'
<1> USE FlashAssumption DEF NorTypeOK
<1>1. ASSUME NEW o \in Offsets, NEW byte \in Bytes, Program(o, byte) PROVE NorTypeOK'
  <2>1. data' \in [Offsets -> SUBSET Bits]
    BY <1>1 DEF Program
  <2>2. programmed' \in 0 .. Wrap - 1 /\ erased' \in 0 .. Wrap - 1
    BY <1>1 DEF Program
  <2> QED BY <2>1, <2>2
<1>2. ASSUME NEW some \in SUBSET Sectors, Erase(some) PROVE NorTypeOK'
  <2>1. data' \in [Offsets -> SUBSET Bits]
    BY <1>2 DEF Erase, Erased
  <2>2. Cardinality(some) \in Nat
    BY FS_Subset, FS_CardinalityType
  <2>3. programmed' \in 0 .. Wrap - 1 /\ erased' \in 0 .. Wrap - 1
    BY <1>2, <2>2 DEF Erase
  <2> QED BY <2>1, <2>3
<1> QED BY <1>1, <1>2 DEF NorNext

(* The step of a command that leads out of a state, and the one into it.   *)
LEMMA OneStep ==
  ASSUME NEW u \in Steps
  PROVE  \/ u[1] = "Idle" /\ u[2] = At555 /\ u[3] = xAA /\ u[4] = "Unlock1"
         \/ u[1] = "Unlock1" /\ u[2] = At2AA /\ u[3] = x55 /\ u[4] = "Unlock2"
         \/ u[1] = "Unlock2" /\ u[2] = At555 /\ u[3] = xA0 /\ u[4] = "Program"
         \/ u[1] = "Unlock2" /\ u[2] = At555 /\ u[3] = x80 /\ u[4] = "EraseSetup"
         \/ u[1] = "EraseSetup" /\ u[2] = At555 /\ u[3] = xAA /\ u[4] = "EraseUnlock1"
         \/ u[1] = "EraseUnlock1" /\ u[2] = At2AA /\ u[3] = x55 /\ u[4] = "EraseUnlock2"
BY DEF Steps

LEMMA AppendWrite ==
  ASSUME NEW s \in Seq([at : Lows, byte : Bytes]), NEW w \in [at : Lows, byte : Bytes]
  PROVE  /\ Append(s, w) \in Seq([at : Lows, byte : Bytes])
         /\ Len(Append(s, w)) = Len(s) + 1
         /\ Append(s, w)[Len(s) + 1] = w
         /\ \A n \in 1 .. Len(s) : Append(s, w)[n] = s[n]
OBVIOUS

LEMMA ChipBegun ==
  ASSUME FlashInit
  PROVE  FlashInv
<1>1. /\ Followed /\ state \in States
      /\ sequence \in Seq([at : Lows, byte : Bytes]) /\ Len(sequence) <= 5
  BY DEF FlashInit, Followed, States
<1>2. data \in [Offsets -> SUBSET Bits]
  BY DEF FlashInit, NorInit, Erased
<1>3. programmed \in 0 .. Wrap - 1 /\ erased \in 0 .. Wrap - 1
  BY FlashAssumption DEF FlashInit, NorInit
<1>4. autoselect \in BOOLEAN
  BY DEF FlashInit
<1> QED BY <1>1, <1>2, <1>3, <1>4 DEF FlashInv, FlashTypeOK, NorTypeOK

LEMMA FlashStep ==
  ASSUME FlashInv, FlashNext
  PROVE  FlashInv'
<1>1. PICK o \in Offsets, byte \in Bytes : Write(o, byte)
  BY DEF FlashNext
<1>2. NorTypeOK'
  BY <1>1, WriteIsNor, NorStep DEF FlashInv, FlashTypeOK, NorTypeOK, nor
<1>3. autoselect' \in BOOLEAN
  <2>1. autoselect \in BOOLEAN
    BY DEF FlashInv, FlashTypeOK
  <2> QED BY <1>1, <2>1 DEF Write, ProgramByte, Reset, EraseSectors, Advance
<1> DEFINE w == [at |-> o[2], byte |-> byte]
<1>4. w \in [at : Lows, byte : Bytes]
  BY DEF Offsets
<1>5. sequence \in Seq([at : Lows, byte : Bytes])
  BY DEF FlashInv, FlashTypeOK
<1>6. CASE state' = "Idle"
  <2>1. sequence' = <<>>
    BY <1>1, <1>6 DEF Write
  <2> QED BY <1>2, <1>3, <1>6, <2>1 DEF FlashInv, FlashTypeOK, Followed, States
<1>7. CASE state' # "Idle"
  <2>1. Advance(o, byte)
    BY <1>1, <1>7 DEF Write, ProgramByte, Reset, EraseSectors
  <2>2. sequence' = Append(sequence, w)
    BY <1>1, <1>7 DEF Write
  <2>3. PICK u \in Steps : u[1] = state /\ u[2] = o[2] /\ u[3] = byte /\ u[4] = state'
    BY <2>1, <1>7, StepOrIdle
  <2>4. /\ sequence' \in Seq([at : Lows, byte : Bytes])
        /\ Len(sequence') = Len(sequence) + 1
        /\ sequence'[Len(sequence) + 1] = w
        /\ \A n \in 1 .. Len(sequence) : sequence'[n] = sequence[n]
    BY <1>4, <1>5, <2>2, AppendWrite
  <2>5. w.at = o[2] /\ w.byte = byte
    OBVIOUS
  <2> HIDE DEF w
  <2>6. Len(sequence) \in Nat
    BY <1>5
  <2>7. Followed
    BY DEF FlashInv
  <2>8. CASE state = "Idle" /\ o[2] = At555 /\ byte = xAA /\ state' = "Unlock1"
    <3>1. Len(sequence) = 0
      BY <2>7, <2>8 DEF Followed
    <3>2. Len(sequence') = 1 /\ Is(1, At555, xAA)'
      BY <2>4, <2>5, <2>8, <3>1 DEF Is
    <3> QED BY <1>2, <1>3, <2>4, <2>8, <3>2 DEF FlashInv, FlashTypeOK, Followed, States
  <2>9. CASE state = "Unlock1" /\ o[2] = At2AA /\ byte = x55 /\ state' = "Unlock2"
    <3>1. Len(sequence) = 1 /\ Is(1, At555, xAA)
      BY <2>7, <2>9 DEF Followed
    <3>2. Len(sequence') = 2 /\ Is(1, At555, xAA)' /\ Is(2, At2AA, x55)'
      BY <2>4, <2>5, <2>9, <3>1 DEF Is
    <3> QED BY <1>2, <1>3, <2>4, <2>9, <3>2 DEF FlashInv, FlashTypeOK, Followed, States
  <2>10. CASE state = "Unlock2" /\ o[2] = At555 /\ byte = xA0 /\ state' = "Program"
    <3>1. Len(sequence) = 2 /\ Is(1, At555, xAA) /\ Is(2, At2AA, x55)
      BY <2>7, <2>10 DEF Followed
    <3>2. Len(sequence') = 3 /\ Is(1, At555, xAA)' /\ Is(2, At2AA, x55)' /\ Is(3, At555, xA0)'
      BY <2>4, <2>5, <2>10, <3>1 DEF Is
    <3> QED BY <1>2, <1>3, <2>4, <2>10, <3>2 DEF FlashInv, FlashTypeOK, Followed, States
  <2>11. CASE state = "Unlock2" /\ o[2] = At555 /\ byte = x80 /\ state' = "EraseSetup"
    <3>1. Len(sequence) = 2 /\ Is(1, At555, xAA) /\ Is(2, At2AA, x55)
      BY <2>7, <2>11 DEF Followed
    <3>2. Len(sequence') = 3 /\ Is(1, At555, xAA)' /\ Is(2, At2AA, x55)' /\ Is(3, At555, x80)'
      BY <2>4, <2>5, <2>11, <3>1 DEF Is
    <3> QED BY <1>2, <1>3, <2>4, <2>11, <3>2 DEF FlashInv, FlashTypeOK, Followed, States
  <2>12. CASE state = "EraseSetup" /\ o[2] = At555 /\ byte = xAA /\ state' = "EraseUnlock1"
    <3>1. Len(sequence) = 3 /\ Is(1, At555, xAA) /\ Is(2, At2AA, x55) /\ Is(3, At555, x80)
      BY <2>7, <2>12 DEF Followed
    <3>2. /\ Len(sequence') = 4 /\ Is(1, At555, xAA)' /\ Is(2, At2AA, x55)'
          /\ Is(3, At555, x80)' /\ Is(4, At555, xAA)'
      BY <2>4, <2>5, <2>12, <3>1 DEF Is
    <3> QED BY <1>2, <1>3, <2>4, <2>12, <3>2 DEF FlashInv, FlashTypeOK, Followed, States
  <2>13. CASE state = "EraseUnlock1" /\ o[2] = At2AA /\ byte = x55 /\ state' = "EraseUnlock2"
    <3>1. /\ Len(sequence) = 4 /\ Is(1, At555, xAA) /\ Is(2, At2AA, x55)
          /\ Is(3, At555, x80) /\ Is(4, At555, xAA)
      BY <2>7, <2>13 DEF Followed
    <3>2. /\ Len(sequence') = 5 /\ Is(1, At555, xAA)' /\ Is(2, At2AA, x55)'
          /\ Is(3, At555, x80)' /\ Is(4, At555, xAA)' /\ Is(5, At2AA, x55)'
      BY <2>4, <2>5, <2>13, <3>1 DEF Is
    <3> QED BY <1>2, <1>3, <2>4, <2>13, <3>2 DEF FlashInv, FlashTypeOK, Followed, States
  <2> QED BY <2>3, OneStep, <2>8, <2>9, <2>10, <2>11, <2>12, <2>13
<1> QED BY <1>6, <1>7

(* A step of the chip keeps to the whole of a command.                     *)
LEMMA FlashByCommand ==
  ASSUME FlashInv, FlashNext
  PROVE  ByCommand /\ (NorNext \/ UNCHANGED nor)
<1>1. PICK o \in Offsets, byte \in Bytes : Write(o, byte)
  BY DEF FlashNext
<1>2. NorNext \/ UNCHANGED nor
  BY <1>1, WriteIsNor
<1>3. CASE ProgramByte(o, byte)
  BY <1>2, <1>3 DEF ProgramByte, Program, ByCommand, Unlocked, FlashInv, Followed
<1>4. CASE EraseSectors(o, byte)
  BY <1>2, <1>4 DEF EraseSectors, Erase, ByCommand, Unlocked, FlashInv, Followed
<1>5. CASE Reset(byte) \/ Advance(o, byte)
  BY <1>2, <1>5 DEF Reset, Advance, ByCommand
<1> QED BY <1>1, <1>2, <1>3, <1>4, <1>5 DEF Write
(* The chip of g1flash.h is a flash: its command set programs and erases   *)
(* as NorFlash promises, and by whole commands only.                       *)
THEOREM ChipImplementsNor == FlashSpec => ImplementsNor /\ OnlyByCommand
<1>1. FlashInit => FlashInv
  BY ChipBegun
<1>2. FlashInv /\ [FlashNext]_chip => FlashInv'
  <2>1. FlashInv /\ UNCHANGED chip => FlashInv'
    BY DEF FlashInv, FlashTypeOK, NorTypeOK, Followed, Is, chip, nor
  <2> QED BY <2>1, FlashStep
<1>3. FlashInit => NorInit
  BY DEF FlashInit
<1>4. FlashInv /\ [FlashNext]_chip => [NorNext]_nor /\ [ByCommand]_chip
  <2>1. UNCHANGED chip => UNCHANGED nor
    BY DEF chip, nor
  <2> QED BY <2>1, FlashByCommand
<1> QED BY <1>1, <1>2, <1>3, <1>4, PTL DEF FlashSpec, NorSpec, ImplementsNor, OnlyByCommand
-----------------------------------------------------------------------------
(* FlashStore: a file about to be renamed has the contents, unless the     *)
(* disk was full, and within a life the counters only grow.                *)
Alive == phase \notin {"down", "stopped"}

StoreInv ==
  /\ TypeOK /\ Followed
  /\ FileWhole /\ StopSaves /\ ChangesNoticed
  /\ phase = "rename" => failed \/ tmp = data
  /\ Alive => saved[1] <= programmed /\ saved[2] <= erased

(* What is done while the process lives does not exhaust a counter.        *)
LEMMA CountersSuffice ==
  ASSUME NEW p \in Nat, NEW e \in Nat, p + e < MaxOps
  PROVE  /\ p + 1 < Wrap /\ e + 1 < Wrap
         /\ e + Cardinality(Sectors) < Wrap
<1>1. Cardinality(Sectors) \in Nat \ {0}
  BY FlashAssumption
<1>2. ASSUME NEW m \in Nat \ {0}, NEW c \in Nat \ {0}
      PROVE  m <= m * c /\ (m - 1) + c <= m * c
  <2>1. PICK a \in Nat, b \in Nat : m = a + 1 /\ c = b + 1
    <3>1. m - 1 \in Nat /\ c - 1 \in Nat /\ m = (m - 1) + 1 /\ c = (c - 1) + 1
      OBVIOUS
    <3> QED BY <3>1
  <2>2. a * b \in Nat /\ m * c = a * b + a + b + 1
    BY <2>1
  <2> QED BY <2>1, <2>2
<1>3. MaxOps \in Nat \ {0}
  BY StoreAssumption
<1>4. MaxOps <= MaxOps * Cardinality(Sectors) /\ (MaxOps - 1) + Cardinality(Sectors) <= MaxOps * Cardinality(Sectors)
  BY <1>1, <1>2, <1>3
<1>5. MaxOps * Cardinality(Sectors) < Wrap /\ Wrap \in Nat /\ MaxOps * Cardinality(Sectors) \in Nat
  BY <1>1, <1>3, StoreAssumption, FlashAssumption
<1> HIDE DEF Bits
<1> QED BY <1>1, <1>3, <1>4, <1>5

(* So whatever changes the contents makes a counter grow.                  *)
LEMMA CountsGrow ==
  ASSUME NorTypeOK, NorNext, programmed + erased < MaxOps
  PROVE  \/ programmed' = programmed + 1 /\ erased' = erased
         \/ programmed' = programmed /\ erased' \in Nat /\ erased' > erased
<1>1. programmed \in Nat /\ erased \in Nat /\ Wrap \in Nat
  BY FlashAssumption DEF NorTypeOK
<1>2. /\ programmed + 1 < Wrap /\ erased + 1 < Wrap
      /\ erased + Cardinality(Sectors) < Wrap
  BY <1>1, CountersSuffice
<1>3. CASE \E o \in Offsets, byte \in Bytes : Program(o, byte)
  BY <1>1, <1>2, <1>3 DEF Program
<1>4. CASE \E s \in Sectors : Erase({s})
  <2>1. erased' = (erased + 1) % Wrap /\ programmed' = programmed
    BY <1>4, FS_Singleton DEF Erase
  <2> QED BY <1>1, <1>2, <2>1
<1>5. CASE Erase(Sectors)
  <2>1. erased' = (erased + Cardinality(Sectors)) % Wrap /\ programmed' = programmed
    BY <1>5 DEF Erase
  <2>2. Cardinality(Sectors) \in Nat \ {0}
    BY FlashAssumption
  <2> QED BY <1>1, <1>2, <2>1, <2>2
<1> QED BY <1>3, <1>4, <1>5 DEF NorNext

LEMMA EmulateStep ==
  ASSUME StoreInv, Emulate
  PROVE  StoreInv'
<1>1. /\ phase = "run" /\ programmed + erased < MaxOps /\ FlashNext
      /\ UNCHANGED <<phase, quit, saved, file, tmp, failed>>
  BY DEF Emulate, files
<1>2. FlashInv'
  BY <1>1, FlashStep DEF FlashInv, StoreInv, TypeOK
<1>3. TypeOK' /\ Followed'
  BY <1>1, <1>2 DEF FlashInv, StoreInv, TypeOK, Contents
<1>4. FileWhole' /\ StopSaves' /\ (phase = "rename" => failed \/ tmp = data)'
  BY <1>1 DEF StoreInv, FileWhole, StopSaves
<1>5. NorTypeOK
  BY DEF StoreInv, TypeOK, FlashTypeOK
<1>6. programmed \in Nat /\ erased \in Nat /\ saved[1] \in Nat /\ saved[2] \in Nat
  BY <1>5, FlashAssumption DEF NorTypeOK, StoreInv, TypeOK
<1>7. saved[1] <= programmed /\ saved[2] <= erased
  BY <1>1 DEF StoreInv, Alive
<1>8. CASE UNCHANGED nor
  BY <1>1, <1>3, <1>4, <1>8 DEF nor, StoreInv, Alive, ChangesNoticed, Counts
<1>9. CASE NorNext
  <2>1. \/ programmed' = programmed + 1 /\ erased' = erased
        \/ programmed' = programmed /\ erased' \in Nat /\ erased' > erased
    BY <1>1, <1>5, <1>9, CountsGrow
  <2>2. saved[1] <= programmed' /\ saved[2] <= erased'
    BY <1>6, <1>7, <2>1
  <2>3. programmed' # saved[1] \/ erased' # saved[2]
    BY <1>6, <1>7, <2>1
  <2>4. Counts' # saved'
    BY <1>1, <2>3 DEF Counts
  <2> QED BY <1>1, <1>3, <1>4, <2>2, <2>4 DEF StoreInv, Alive, ChangesNoticed
<1> QED
  <2>1. FlashInv
    BY DEF FlashInv, StoreInv, TypeOK
  <2> QED BY <1>1, <1>8, <1>9, <2>1, FlashByCommand

LEMMA StoreStep ==
  ASSUME StoreInv, [Next]_vars
  PROVE  StoreInv'
<1> DEFINE Others == UNCHANGED <<data, programmed, erased, state, autoselect, sequence>>
<1>0. /\ Others => (FlashTypeOK /\ Followed => FlashTypeOK' /\ Followed')
      /\ UNCHANGED chip => Others
  BY DEF chip, nor, FlashTypeOK, NorTypeOK, Followed, Is
<1>1. CASE Start
  <2>1. /\ phase' \in {"run", "down"} /\ quit' = "no" /\ saved' = <<0, 0>>
        /\ data' = IF file \in Contents THEN file ELSE Factory
        /\ programmed' = 0 /\ erased' = 0
        /\ state' = "Idle" /\ autoselect' = FALSE /\ sequence' = <<>>
        /\ file' = file /\ tmp' = tmp /\ failed' = failed
    BY <1>1 DEF Start, files
  <2>2. data' \in [Offsets -> SUBSET Bits] /\ 0 \in 0 .. Wrap - 1
    BY <2>1, StoreAssumption, FlashAssumption DEF Contents
  <2>3. FlashTypeOK' /\ Followed'
    <3>1. /\ Followed' /\ state' \in States
          /\ sequence' \in Seq([at : Lows, byte : Bytes]) /\ Len(sequence') <= 5
      BY <2>1 DEF Followed, States
    <3> QED BY <2>1, <2>2, <3>1 DEF FlashTypeOK, NorTypeOK
  <2>4. TypeOK'
    BY <2>1, <2>2, <2>3 DEF StoreInv, TypeOK, Contents
  <2>5. (file \in Contents => file = data)'
    BY <2>1 DEF Contents
  <2> QED BY <2>1, <2>3, <2>4, <2>5
          DEF StoreInv, Alive, FileWhole, StopSaves, ChangesNoticed, Counts
<1>2. CASE Emulate
  BY <1>2, EmulateStep
<1>3. CASE BeginSave
  <2>1. /\ phase = "run" /\ phase' = "open"
        /\ Others /\ UNCHANGED <<quit, saved, file, tmp, failed>>
    BY <1>0, <1>3 DEF BeginSave, files
  <2> QED BY <1>0, <2>1 DEF StoreInv, TypeOK, Contents, Alive, FileWhole, StopSaves, ChangesNoticed, Counts
<1>4. CASE OpenTmp
  <2>1. /\ phase = "open" /\ Others /\ UNCHANGED <<quit, saved, file>>
        /\ \/ tmp' = Partial /\ phase' = "write" /\ failed' = failed
           \/ failed' = TRUE /\ phase' = "rename" /\ tmp' = tmp
    BY <1>0, <1>4 DEF OpenTmp
  <2> QED BY <1>0, <2>1 DEF StoreInv, TypeOK, Contents, Alive, FileWhole, StopSaves, ChangesNoticed, Counts
<1>5. CASE WriteTmp
  <2>1. /\ phase = "write" /\ phase' = "rename" /\ Others /\ UNCHANGED <<quit, saved, file>>
        /\ \/ tmp' = data /\ failed' = failed
           \/ failed' = TRUE /\ tmp' = tmp
    BY <1>0, <1>5 DEF WriteTmp
  <2>2. data \in Contents
    BY DEF StoreInv, TypeOK, FlashTypeOK, NorTypeOK, Contents
  <2> QED BY <1>0, <2>1, <2>2 DEF StoreInv, TypeOK, Contents, Alive, FileWhole, StopSaves, ChangesNoticed, Counts
<1>6. ASSUME Die, Alive PROVE StoreInv'
  <2>1. /\ phase' = "down" /\ quit' = "no" /\ Others /\ UNCHANGED <<saved, file, tmp, failed>>
    BY <1>0, <1>6 DEF Die, files
  <2> QED BY <1>0, <2>1 DEF StoreInv, TypeOK, Contents, Alive, FileWhole, StopSaves, ChangesNoticed, Counts
<1>7. CASE Rename
  <2>1. CASE tmp = None
    BY <1>6, <1>7, <2>1 DEF Rename, Alive
  <2>2. CASE tmp # None
    <3>1. /\ phase = "rename" /\ phase' \in {"run", "stopped"} /\ Others /\ quit' = quit
          /\ file' = tmp /\ tmp' = None /\ saved' = <<programmed, erased>>
          /\ failed' = (failed /\ tmp # data)
      BY <1>0, <1>7, <2>2 DEF Rename, Counts
    <3>2. failed' \/ file' = data'
      BY <3>1 DEF StoreInv
    <3>3. data \in Contents /\ Partial \notin Contents
      BY StoreAssumption DEF StoreInv, TypeOK, FlashTypeOK, NorTypeOK, Contents
    <3>4. TypeOK' /\ Followed'
      BY <1>0, <3>1 DEF StoreInv, TypeOK, FlashTypeOK, NorTypeOK, Contents
    <3>5. FileWhole' /\ StopSaves' /\ ChangesNoticed'
      BY <3>1, <3>2, <3>3 DEF FileWhole, StopSaves, ChangesNoticed
    <3>6. programmed \in Nat /\ erased \in Nat
      BY FlashAssumption DEF StoreInv, TypeOK, FlashTypeOK, NorTypeOK
    <3>7. saved'[1] <= programmed' /\ saved'[2] <= erased'
      BY <3>1, <3>6
    <3> QED BY <3>1, <3>4, <3>5, <3>7 DEF StoreInv
  <2> QED BY <2>1, <2>2
<1>8. CASE Quit
  <2>1. /\ Alive /\ quit' = "asked"
        /\ Others /\ UNCHANGED <<phase, saved, file, tmp, failed>>
    BY <1>0, <1>8 DEF Quit, files, Alive
  <2> QED BY <1>0, <2>1 DEF StoreInv, TypeOK, Contents, Alive, FileWhole, StopSaves, ChangesNoticed, Counts
<1>9. CASE Join
  <2>1. /\ phase = "run" /\ phase' = "open" /\ quit' = "joined"
        /\ Others /\ UNCHANGED <<saved, file, tmp, failed>>
    BY <1>0, <1>9 DEF Join, files
  <2> QED BY <1>0, <2>1 DEF StoreInv, TypeOK, Contents, Alive, FileWhole, StopSaves, ChangesNoticed, Counts
<1>10. CASE Kill
  BY <1>6, <1>10 DEF Kill, Alive
<1>11. CASE UNCHANGED vars
  <2>1. Others /\ UNCHANGED <<phase, quit, saved, file, tmp, failed>>
    BY <1>0, <1>11 DEF vars
  <2> QED BY <1>0, <2>1 DEF StoreInv, TypeOK, Contents, Alive, FileWhole, StopSaves, ChangesNoticed, Counts
<1> QED BY <1>1, <1>2, <1>3, <1>4, <1>5, <1>7, <1>8, <1>9, <1>10, <1>11 DEF Next, Save

LEMMA StoreInvariant == Spec => []StoreInv
<1>1. Init => StoreInv
  <2> SUFFICES ASSUME Init PROVE StoreInv
    OBVIOUS
  <2>1. FlashTypeOK /\ Followed
    BY ChipBegun DEF Init, FlashInv
  <2>2. 0 \in 0 .. Wrap - 1
    BY FlashAssumption
  <2>3. TypeOK
    BY <2>1, <2>2 DEF Init, TypeOK
  <2> QED BY <2>1, <2>3, StoreAssumption DEF Init, StoreInv, Alive, FileWhole, StopSaves, ChangesNoticed
<1>2. StoreInv /\ [Next]_vars => StoreInv'
  BY StoreStep
<1> QED BY <1>1, <1>2, PTL DEF Spec

(* The file and the temporary one hold the contents of a flash, or none, or *)
(* what was not written to its end; the counters stay in their width.      *)
THEOREM StoreTypes == Spec => []TypeOK
<1>1. StoreInv => TypeOK
  BY DEF StoreInv
<1> QED BY <1>1, StoreInvariant, PTL

(* Wherever the process is killed while it saves the flash (emuhost.cpp,   *)
(* saveFlash), flash.bin stays whole, unless the disk was full.            *)
THEOREM FileStaysWhole == Spec => []FileWhole
<1>1. StoreInv => FileWhole
  BY DEF StoreInv
<1> QED BY <1>1, StoreInvariant, PTL

(* As long as the counters do not come round within one life, what the     *)
(* file lacks is noticed by the thread's comparison of them.               *)
THEOREM NoChangeMissed == Spec => []ChangesNoticed
<1>1. StoreInv => ChangesNoticed
  BY DEF StoreInv
<1> QED BY <1>1, StoreInvariant, PTL

(* EmuHost::stop leaves the file with what the G1 last held.               *)
THEOREM StopLosesNothing == Spec => []StopSaves
<1>1. StoreInv => StopSaves
  BY DEF StoreInv
<1> QED BY <1>1, StoreInvariant, PTL

(* While it runs, only whole commands of the OS touch the contents, and    *)
(* only as a flash changes.                                                *)
THEOREM OnlyCommandsWrite == Spec => FlashIsNor
<1>1. StoreInv /\ [Next]_vars => [phase = "run" => ByCommand /\ (NorNext \/ UNCHANGED nor)]_vars
  <2> SUFFICES ASSUME StoreInv, Next, phase = "run"
               PROVE  ByCommand /\ (NorNext \/ UNCHANGED nor)
    BY DEF ByCommand, vars
  <2>1. CASE Emulate
    BY <2>1, FlashByCommand DEF Emulate, FlashInv, StoreInv, TypeOK
  <2>2. CASE ~Emulate
    <3>1. UNCHANGED nor
      BY <2>2 DEF Next, Start, Save, BeginSave, OpenTmp, WriteTmp, Rename, Quit, Join, Kill, Die, chip
    <3> QED BY <3>1 DEF ByCommand
  <2> QED BY <2>1, <2>2
<1> QED BY <1>1, StoreInvariant, PTL DEF Spec, FlashIsNor
=============================================================================
