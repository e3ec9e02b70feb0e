----------------------------- MODULE FlashStore -----------------------------
(***************************************************************************)
(* How EmuHost (emuhost.cpp) keeps the flash in a file: its thread saves   *)
(* it when a counter has changed, stop() saves it once more, and start()   *)
(* loads it.  A save writes flash.bin.tmp and renames it; the disk may be  *)
(* full, and the process may be killed between any two steps.  The OS's    *)
(* writes in between are the chip's own (module Flash).                    *)
(***************************************************************************)
EXTENDS Flash

CONSTANTS Factory,  \* the contents installRomOsInFlash makes
          None,
          Partial,  \* what a file holds that was not written to its end
          MaxOps    \* operations of the OS while the process lives

ASSUME StoreAssumption ==
  /\ Factory \in [Offsets -> SUBSET Bits]
  /\ None # Partial /\ {None, Partial} \cap [Offsets -> SUBSET Bits] = {}
  /\ MaxOps \in Nat /\ MaxOps * Cardinality(Sectors) < Wrap

VARIABLES
  phase,   \* what the process is doing
  quit,    \* m_quit
  saved,   \* savedProgrammed, savedErased
  file,    \* flash.bin
  tmp,     \* flash.bin.tmp
  failed   \* history: a save has met a full disk since the file was whole

vars == <<chip, phase, quit, saved, file, tmp, failed>>
files == <<file, tmp, failed>>

Contents == [Offsets -> SUBSET Bits]
Counts == <<programmed, erased>>

TypeOK ==
  /\ FlashTypeOK
  /\ phase \in {"down", "run", "open", "write", "rename", "stopped"}
  /\ quit \in {"no", "asked", "joined"}
  /\ saved \in (0 .. Wrap - 1) \X (0 .. Wrap - 1)
  /\ file \in Contents \cup {None, Partial} /\ tmp \in Contents \cup {None, Partial}
  /\ failed \in BOOLEAN

Init ==
  /\ FlashInit
  /\ phase = "down" /\ quit = "no" /\ saved = <<0, 0>>
  /\ file = None /\ tmp = None /\ failed = FALSE

-----------------------------------------------------------------------------
(* start: a file that is no whole flash is as good as none.  Without MIDI  *)
(* it fails, and stop will then find no thread and save nothing; without a *)
(* ROM it has done nothing yet.                                            *)
Start ==
  /\ phase \in {"down", "stopped"} /\ phase' \in {"run", "down"}
  /\ data' = IF file \in Contents THEN file ELSE Factory
  /\ programmed' = 0 /\ erased' = 0
  /\ state' = "Idle" /\ autoselect' = FALSE /\ sequence' = <<>>
  /\ quit' = "no" /\ saved' = <<0, 0>>
  /\ UNCHANGED files

(* A round of run: the OS writes to the flash, also when quit was asked;   *)
(* the G1 stands still during a save.                                      *)
Emulate ==
  /\ phase = "run" /\ programmed + erased < MaxOps
  /\ FlashNext
  /\ UNCHANGED <<phase, quit, saved, files>>

(* run: if a counter has changed, at most every five seconds. *)
BeginSave ==
  /\ phase = "run" /\ quit # "joined" /\ Counts # saved
  /\ phase' = "open"
  /\ UNCHANGED <<chip, quit, saved, files>>

(* A slip: the file itself is opened and truncated. *)
OpenFileItself ==
  /\ phase = "open" /\ phase' = "write"
  /\ file' = Partial /\ tmp' = Partial
  /\ UNCHANGED <<chip, quit, saved, failed>>

(* saveFlash: opening truncates what an earlier save has left.  Neither it *)
(* nor the writing is looked at: a full disk only leaves tmp as it was.    *)
OpenTmp ==
  /\ phase = "open"
  /\ \/ tmp' = Partial /\ phase' = "write" /\ UNCHANGED failed
     \/ failed' = TRUE /\ phase' = "rename" /\ UNCHANGED tmp
  /\ UNCHANGED <<chip, quit, saved, file>>

WriteTmp ==
  /\ phase = "write" /\ phase' = "rename"
  /\ \/ tmp' = data /\ UNCHANGED failed
     \/ failed' = TRUE /\ UNCHANGED tmp
  /\ UNCHANGED <<chip, quit, saved, file>>

Die ==
  /\ phase' = "down" /\ quit' = "no"
  /\ UNCHANGED <<chip, saved, files>>

(* A slip: what was counted is not noted. *)
RenameUnnoted ==
  /\ phase = "rename"
  /\ IF tmp = None THEN Die
     ELSE /\ file' = tmp /\ tmp' = None
          /\ failed' = (failed /\ file' # data)
          /\ phase' = IF quit = "joined" THEN "stopped" ELSE "run"
          /\ UNCHANGED <<chip, quit, saved>>

(* The rename; without a file to rename it throws, which ends the process. *)
Rename ==
  /\ phase = "rename"
  /\ IF tmp = None THEN Die
     ELSE /\ file' = tmp /\ tmp' = None
          /\ failed' = (failed /\ file' # data)
          /\ saved' = Counts
          /\ phase' = IF quit = "joined" THEN "stopped" ELSE "run"
          /\ UNCHANGED <<chip, quit>>

(* stop: the thread ends after the round it is in, and the caller saves. *)
Quit ==
  /\ phase \notin {"down", "stopped"} /\ quit = "no"
  /\ quit' = "asked"
  /\ UNCHANGED <<chip, phase, saved, files>>

(* A slip: stop saves only what it finds counted when it is called. *)
JoinUnsaved ==
  /\ phase = "run" /\ quit = "asked"
  /\ quit' = "joined" /\ phase' = "stopped"
  /\ UNCHANGED <<chip, saved, files>>

Join ==
  /\ phase = "run" /\ quit = "asked"
  /\ quit' = "joined" /\ phase' = "open"
  /\ UNCHANGED <<chip, saved, files>>

Kill == phase \notin {"down", "stopped"} /\ Die

Save == BeginSave \/ OpenTmp \/ WriteTmp \/ Rename

Next == Start \/ Emulate \/ Save \/ Quit \/ Join \/ Kill

Spec == Init /\ [][Next]_vars

(* The thread keeps running: once due, a save begins and ends. *)
Fairness == WF_vars(Save)

FairSpec == Spec /\ Fairness

-----------------------------------------------------------------------------
(* Nothing changes but by the whole of a command, and as a flash changes,  *)
(* counted: also when the save falls between two of its writes, or a kill. *)
FlashIsNor == [][phase = "run" => ByCommand /\ (NorNext \/ UNCHANGED nor)]_vars

(* Wherever the process is killed, the file stays a whole flash: only a    *)
(* full disk can cost the patches.                                         *)
FileWhole == file = Partial => failed

(* What the file does not have yet shows in the counters, so the next save *)
(* will not be skipped: also right after a load, or a save under way.      *)
ChangesNoticed ==
  /\ phase \notin {"down", "stopped"}
  /\ file \in Contents /\ file # data /\ ~failed
  => Counts # saved

(* After an orderly end the file has what the G1 last held. *)
StopSaves == phase = "stopped" => failed \/ file = data

(* A change does not stay unsaved while the emulator runs. *)
ChangesSaved ==
  Counts # saved ~> Counts = saved \/ failed \/ phase \in {"down", "stopped"}
=============================================================================
