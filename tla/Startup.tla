-------------------------------- MODULE Startup --------------------------------
(***************************************************************************)
(* From the launch of the window to a G1 that runs, and what is remembered *)
(* of it for the next launch (Main.cpp, Settings.cpp, romfinder.cpp and    *)
(* the options of emuhost.cpp).  A ROM can be named in four places: the    *)
(* command line, G1_ROM, the settings file and the file pickers; and it    *)
(* can be found in the folders searched.  Every start reads the settings   *)
(* file again, over what the window has put in the options.                *)
(***************************************************************************)
EXTENDS Sequences

CONSTANTS Files,     \* the files there may be
          Searched,  \* those in the folders searched, in the order searched
          None       \* no file, no name

StartupAssumption == Searched \in Seq(Files) /\ None \notin Files

VARIABLES
  roms,      \* the files that are the rack's ROM at present
  file,      \* the settings file: "none", "whole", or "empty" if a save was
             \*   cut by a kill or a full disk
  conf,      \* what it says, if it is whole
  rom,       \* m_options.rom
  notice,    \* m_options.showDisclaimer
  env,       \* G1_ROM
  cmd,       \* m_rom
  firstRun,  \* m_firstRun
  ui,        \* what the user sees
  running,   \* the ROM of the machine, None while there is none
  wish,      \* history: the ROM named by the last save tried, made or not
  kept,      \* history: the one of the last save made, None if there is none
             \*   or another was cut since
  allowed    \* history: the ROMs that may run, {} if any may

options == <<rom, notice>>
launch == <<env, cmd, firstRun>>
settings == <<file, conf, wish, kept>>
vars == <<roms, settings, options, launch, ui, running, allowed>>

Names == Files \cup {None}
Options == [rom : Names, notice : BOOLEAN]

Defaults == [rom |-> None, notice |-> FALSE]

TypeOK ==
  /\ roms \subseteq Files
  /\ file \in {"none", "empty", "whole"} /\ conf \in Options
  /\ rom \in Names /\ notice \in BOOLEAN
  /\ env \in Names /\ cmd \in Names /\ firstRun \in BOOLEAN
  /\ ui \in {"off", "ask", "message", "notice", "run"}
  /\ running \in Names /\ wish \in Names /\ kept \in Names
  /\ allowed \subseteq Names

Init ==
  /\ roms \in SUBSET Files
  /\ file = "none" /\ conf = Defaults /\ rom = None /\ notice = FALSE
  /\ env = None /\ cmd = None /\ firstRun = FALSE
  /\ ui = "off" /\ running = None
  /\ wish = None /\ kept = None /\ allowed = {}

-----------------------------------------------------------------------------
(* Options::save, whose answer no caller looks at: the file is written; it *)
(* cannot be opened, and stays as it is; or the disk is full once it has   *)
(* been emptied.                                                           *)
Save(opts) ==
  /\ wish' = opts.rom
  /\ \/ file' = "whole" /\ conf' = opts /\ kept' = opts.rom
     \/ UNCHANGED <<file, conf, kept>>
     \/ file' = "empty" /\ conf' = Defaults /\ kept' = None

(* Options::load: what the file says, over what the options are. *)
Loaded(opts) == IF file' = "whole" THEN conf' ELSE opts

(* inspectRom, checkRom: the size, the mark and the model byte are right.  *)
Serves(f) == f \in roms

(* The first file of the folders that is the ROM. *)
InFolders ==
  LET good == SelectSeq(Searched, Serves)
  IN  IF good = <<>> THEN None ELSE Head(good)

(* findRom: the command line is an order, the settings are a preference.   *)
FindRom(order, preference) ==
  IF order # None THEN (IF Serves(order) THEN order ELSE None)
  ELSE IF Serves(preference) THEN preference
  ELSE InFolders

(* EmuHost::start and tryStart, with the options in memory opts: without a *)
(* ROM the user is asked for one, and a start that fails later is told.    *)
TryStart(opts) ==
  LET loaded == Loaded(opts)
      wished == IF env' # None THEN env' ELSE loaded.rom
      found == FindRom(cmd', wished)
  IN  /\ notice' = loaded.notice
      /\ rom' = IF found = None THEN wished ELSE found
      /\ IF found = None
         THEN ui' = "ask" /\ running' = None
         ELSE \/ ui' = "message" /\ running' = None
              \/ /\ ui' = IF firstRun' \/ notice' THEN "notice" ELSE "run"
                 /\ running' = found

(* What the user may expect of the start: the file named, by the first of  *)
(* the places where one is, or any, if a mere preference cannot be had.    *)
(* If the name was lost, the last one kept, or what is found, may run.     *)
Expect(order, lost) ==
  allowed' = IF order # None THEN {order}
             ELSE IF env' # None THEN {env'} \cap roms
             ELSE IF ~Serves(wish') THEN {}
             ELSE IF ~lost THEN {wish'}
             ELSE {wish', IF Serves(kept') THEN kept' ELSE InFolders}

(* initialise, with the file on the command line and G1_ROM. *)
Launch(c, e) ==
  /\ ui = "off"
  /\ cmd' = c /\ env' = e /\ firstRun' = (file = "none")
  /\ UNCHANGED <<roms, settings>>
  /\ TryStart(Defaults)
  /\ Expect(c, wish # kept)

(* A slip: the command line's order still stands. *)
ChooseRomOrdered(f) ==
  /\ ui = "ask"
  /\ Save([rom |-> f, notice |-> notice])
  /\ UNCHANGED <<roms, launch>>
  /\ TryStart([rom |-> f, notice |-> notice])
  /\ Expect(None, kept' \notin {f, None})

(* chooseRom, of the first screen: the file is written down, and the start *)
(* tried again without the command line's.  If the save was refused, the   *)
(* start reads the older name back over the pick.                          *)
ChooseRom(f) ==
  /\ ui = "ask"
  /\ Save([rom |-> f, notice |-> notice])
  /\ cmd' = None
  /\ UNCHANGED <<roms, env, firstRun>>
  /\ TryStart([rom |-> f, notice |-> notice])
  /\ Expect(None, kept' \notin {f, None})

(* The notice is answered: the first time, that is written down. *)
CloseNotice ==
  /\ ui = "notice" /\ ui' = "run"
  /\ IF firstRun
     THEN notice' = FALSE /\ UNCHANGED rom /\ Save([rom |-> rom, notice |-> FALSE])
     ELSE UNCHANGED <<options, settings>>
  /\ UNCHANGED <<roms, launch, running, allowed>>

(* The settings window: apply writes down every option, the ROM in use or  *)
(* the one picked for the next start among them.                           *)
Apply ==
  /\ ui = "run"
  /\ Save([rom |-> rom', notice |-> notice'])
  /\ UNCHANGED <<roms, launch, ui, running, allowed>>

ChangeSettings == notice' \in BOOLEAN /\ UNCHANGED rom /\ Apply

(* Its picker refuses a file that does not serve. *)
PickRom(f) == Serves(f) /\ rom' = f /\ UNCHANGED notice /\ Apply

(* stop, and a start that could not be made. *)
Off == ui' = "off" /\ running' = None /\ allowed' = {}

Quit ==
  /\ ui # "off" /\ Off
  /\ UNCHANGED <<roms, settings, options, launch>>

(* The program is killed while it saves what one of the actions above      *)
(* would: save begins by emptying the file.                                *)
KilledSaving ==
  /\ \/ ui = "ask" /\ wish' \in Files
     \/ ui = "notice" /\ firstRun /\ wish' = rom
     \/ ui = "run" /\ wish' \in {rom} \cup roms
  /\ Off
  /\ file' = "empty" /\ conf' = Defaults /\ kept' = None
  /\ UNCHANGED <<roms, options, launch>>

(* The user puts a file where there was none, or takes one away; the first *)
(* screen, which can open the folder for that, does not look again.        *)
ChangeFile(f) ==
  /\ roms' = (IF f \in roms THEN roms \ {f} ELSE roms \cup {f})
  /\ UNCHANGED <<settings, options, launch, ui, running, allowed>>

Next ==
  \/ \E c, e \in Names : Launch(c, e)
  \/ \E f \in Files : ChooseRom(f)
  \/ CloseNotice
  \/ ChangeSettings \/ \E f \in Files : PickRom(f)
  \/ Quit \/ KilledSaving
  \/ \E f \in Files : ChangeFile(f)

Spec == Init /\ [][Next]_vars

-----------------------------------------------------------------------------
(* The machine runs on the ROM the user named last, and no other ("it      *)
(* looks like it worked", romfinder.cpp:112): the one on the command line, *)
(* else G1_ROM's, else the one that was last picked, or in use when the    *)
(* options were last saved, in this run or an earlier one, whatever was    *)
(* killed, moved or set in between.  A save that was not made may lose the *)
(* pick: then the ROM of the last save runs, or, if none is left, one of   *)
(* the folders'; but nothing older, and if the file holds no name it does  *)
(* not overrule the pick of this run.                                      *)
NamedRomRuns == running # None /\ allowed # {} => running \in allowed
=============================================================================
