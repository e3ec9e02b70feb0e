---------------------------- MODULE MCFlashStore ----------------------------
(***************************************************************************)
(* What the application keeps on disk, and what it does with it: the flash *)
(* (FlashStore), the settings with the ROM they name (Startup), and the    *)
(* raw MIDI card they name (RawMidi).  The three share no state here: each *)
(* behaviour is about one, and the others stay as they begin.              *)
(***************************************************************************)
EXTENDS FlashStore

CONSTANTS Files, Searched, First, Second, Cards

VARIABLES
  part,  \* what this behaviour is about
  roms, settingsFile, conf, rom, notice, env, cmd, firstRun, ui,
  running, wish, kept, allowed,
  published, wanted, writing, pc, name, found, done, links, bound, status,
  started, named, gone

startup ==
  <<roms, settingsFile, conf, rom, notice, env, cmd, firstRun, ui,
    running, wish, kept, allowed>>
rawMidi ==
  <<published, wanted, writing, pc, name, found, done, links, bound, status,
    started, named, gone>>

Srt == INSTANCE Startup WITH file <- settingsFile

Raw == INSTANCE RawMidi

ASSUME NamesAssumption ==
  Srt!StartupAssumption /\ Raw!RawMidiAssumption

(* Of the files, two lie in the folders searched. *)
MCSearched == <<First, Second>>

(* The bytes the commands are made of; each may also be data. *)
MCBytes == {xAA, x55, xF0, xA0, x90, x80, x30, x10}

(* The factory OS takes one byte of one sector. *)
MCFactory == [o \in Offsets |->
                IF o = <<CHOOSE s \in Sectors : TRUE, At555>> THEN x10 ELSE Erased]

(* Behaviours are followed while one value at most has been programmed,    *)
(* into one byte besides the factory's.                                    *)
FewProgrammed ==
  /\ \A o \in Offsets : data[o] \in {Erased, x10}
  /\ Cardinality({o \in Offsets : data[o] # Erased}) <= 2

MCInit ==
  /\ part \in {"flash", "settings", "raw MIDI"}
  /\ Init /\ Srt!Init /\ Raw!Init
  /\ part # "settings" => roms = {}
  /\ part # "raw MIDI" => wanted = None

MCNext ==
  \/ part = "flash" /\ Next /\ UNCHANGED <<part, startup, rawMidi>>
  \/ part = "settings" /\ Srt!Next /\ UNCHANGED <<part, vars, rawMidi>>
  \/ part = "raw MIDI" /\ Raw!Next /\ UNCHANGED <<part, vars, startup>>

MCSpec ==
  /\ MCInit /\ [][MCNext]_<<part, vars, startup, rawMidi>>
  /\ part = "flash" => Fairness
  /\ part = "raw MIDI" => Raw!Fairness

NamedRomRuns == Srt!NamedRomRuns
CardTaken == part = "raw MIDI" => Raw!CardTaken
=============================================================================
