----------------------------- MODULE PluginPatch -----------------------------
(***************************************************************************)
(* The patch of the plug-in (PluginProcessor.cpp): its parameters, the     *)
(* edits queued for the emulated synthesizer, and the host's saved state.  *)
(* Each action is one region under machineMutex (PluginGuard models the    *)
(* locks), except that a load takes emulated seconds: the host and the     *)
(* disk change meanwhile, and so does the host's parameter just before     *)
(* setStateInformation takes the mutex.                                    *)
(***************************************************************************)
EXTENDS Integers

CONSTANTS Last,      \* the parameters are 0 .. Last, Alias the host's
          Alias,
          Values,    \* the values of a parameter
          Versions,  \* the contents a patch file may have, each with its hash
          Source(_), \* the values in the file with that content
          None,
          Gap,       \* ms between two edits (5)
          Message,   \* ms an edit takes on the PC port (4)
          Blocks,    \* ms a processing block may last
          MaxGen     \* bound on patchGeneration

Params == 0 .. Last

ASSUME PatchAssumption ==
  /\ Last \in Nat /\ Alias \in Params
  /\ \A v \in Versions : Source(v) \in [Params -> Values]
  /\ None \notin Values \cup Versions \cup [Params -> Values]
  /\ Message \in Nat /\ Gap \in Nat /\ Message <= Gap
  /\ Blocks \subseteq Nat \ {0} /\ MaxGen \in Nat

VARIABLES
  rom,         \* there is a machine
  gen,         \* patchGeneration
  hash,        \* sourcePatchHash of the active patch, or None
  view,        \* the values of its parameters
  pending,     \* the parameters with an unsent edit
  cursor,      \* editCursor
  wait,        \* ms until nextEditCycle
  coarse,      \* the host parameter oscCoarse: the host writes it at any time
  lastCoarse,  \* lastSentOscCoarse
  machine,     \* what the synthesizer plays once the port is empty, or None
  port,        \* ms until the port has passed on the last edit
  disk,        \* the content of the patch file, None while it is missing
  editor,      \* what the editor shows: generation and parameters
  saved,       \* the state the host saved last, or None
  restoring,   \* the state setStateInformation is about to restore, or None
  loading,     \* the patch being uploaded, content and values, or None
  touched      \* history: the host parameter or the alias was "moved" since
               \*   the patch became active, or last set by a "restore"

patch == <<hash, view, pending, cursor, wait>>
synth == <<rom, machine, port>>
session == <<disk, saved, restoring, loading>>
vars == <<patch, synth, session, gen, coarse, lastCoarse, editor, touched>>

Active == hash # None     \* activePatch, with its PID
NoPatch == [p \in Params |-> CHOOSE v \in Values : TRUE]

(* The state a host saves: the values different from the source, and, as a *)
(* history of what was saved, the values themselves.                       *)
States ==
  [rom : BOOLEAN, hash : Versions \cup {None}, coarse : Values,
   overlay : [Params -> Values \cup {None}], values : [Params -> Values]]

TypeOK ==
  /\ rom \in BOOLEAN /\ gen \in 0 .. MaxGen
  /\ hash \in Versions \cup {None}
  /\ view \in [Params -> Values] /\ pending \subseteq Params
  /\ cursor \in Params /\ wait \in 0 .. Gap /\ port \in 0 .. Message
  /\ coarse \in Values /\ lastCoarse \in Values
  /\ machine \in [Params -> Values] \cup {None}
  /\ disk \in Versions \cup {None}
  /\ editor \in [gen : 0 .. MaxGen, shown : BOOLEAN, current : BOOLEAN]
  /\ saved \in States \cup {None} /\ restoring \in States \cup {None}
  /\ loading \in [hash : Versions, values : [Params -> Values]] \cup {None}
  /\ touched \in {"no", "moved", "restore"}

Init ==
  /\ rom = FALSE /\ gen = 0 /\ hash = None
  /\ view = NoPatch /\ pending = {} /\ cursor = 0 /\ wait = 0
  /\ coarse \in Values /\ lastCoarse = coarse
  /\ machine = None /\ port = 0
  /\ disk \in Versions
  /\ editor = [gen |-> 0, shown |-> FALSE, current |-> TRUE]
  /\ saved = None /\ restoring = None /\ loading = None
  /\ touched = "no"

-----------------------------------------------------------------------------
(* The queue of edits *)

(* captureHostParameterLocked: a change of the host parameter is an edit   *)
(* of the alias.                                                           *)
Captured ==
  IF Active /\ coarse # lastCoarse THEN [view EXCEPT ![Alias] = coarse] ELSE view

(* queueEditLocked: one unsent value for each parameter, the latest.       *)
Changed(before, after) == {p \in Params : before[p] # after[p]}

(* editParameter: accepted if the editor shows the patch that is active.   *)
Edit(p, v) ==
  /\ loading = None
  /\ lastCoarse' = coarse
  /\ IF Active /\ editor.gen = gen
     THEN /\ view' = [Captured EXCEPT ![p] = v]
          /\ touched' = IF p = Alias THEN "moved" ELSE touched
     ELSE view' = Captured /\ UNCHANGED touched
  /\ pending' = pending \cup Changed(view, Captured) \cup Changed(Captured, view')
  /\ UNCHANGED <<hash, cursor, wait, synth, session, gen, coarse, editor>>

(* ParameterControl: there is one for each parameter the editor shows, and *)
(* what the user sets it to, within its range, is an edit of that patch.   *)
ControlEdit(p, v) == editor.shown /\ Edit(p, v)

(* parameterSnapshot: with no patch there are no parameters to show. *)
Snapshot == [gen |-> gen, shown |-> Active, current |-> TRUE]

(* The editor's timer, or the end of an operation it began: its panel has  *)
(* the controls of the generation it has seen last.                        *)
Refresh ==
  /\ loading = None
  /\ editor' = Snapshot
  /\ UNCHANGED <<patch, synth, session, gen, coarse, lastCoarse, touched>>

(* A slip: the search starts at the first parameter every time. *)
FirstPendingUnfair(p, queue) == p \in queue /\ \A q \in queue : p <= q

(* The first parameter with an unsent edit, from the cursor on. *)
Turn(k) == (cursor + k) % (Last + 1)
FirstPending(p, queue) ==
  \E k \in Params : /\ p = Turn(k) /\ p \in queue
                    /\ \A j \in 0 .. k - 1 : Turn(j) \notin queue

Elapse(ms, n) == IF n > ms THEN n - ms ELSE 0

(* A slip: an edit is sent in every block. *)
DeliverUnpaced(queue, ms) ==
  IF Active /\ queue # {}
  THEN \E p \in queue :
         /\ FirstPending(p, queue)
         /\ machine' = [machine EXCEPT ![p] = view'[p]]
         /\ pending' = queue \ {p}
         /\ cursor' = (p + 1) % (Last + 1)
         /\ wait' = Elapse(ms, Gap)
         /\ port' = Elapse(ms, port + Message)
  ELSE /\ pending' = queue
       /\ wait' = Elapse(ms, wait) /\ port' = Elapse(ms, port)
       /\ UNCHANGED <<machine, cursor>>

(* deliverEditsLocked, for ms milliseconds of emulated time: at most one   *)
(* edit, and none too soon after the last.                                 *)
Deliver(queue, ms) ==
  IF Active /\ wait = 0 /\ queue # {}
  THEN \E p \in queue :
         /\ FirstPending(p, queue)
         /\ machine' = [machine EXCEPT ![p] = view'[p]]
         /\ pending' = queue \ {p}
         /\ cursor' = (p + 1) % (Last + 1)
         /\ wait' = Elapse(ms, Gap)
         /\ port' = Elapse(ms, port + Message)
  ELSE /\ pending' = queue
       /\ wait' = Elapse(ms, wait) /\ port' = Elapse(ms, port)
       /\ UNCHANGED <<machine, cursor>>

(* processBlock: capture, deliver, advance. *)
Block(ms) ==
  /\ loading = None /\ restoring = None /\ rom
  /\ lastCoarse' = coarse
  /\ view' = Captured
  /\ Deliver(pending \cup Changed(view, Captured), ms)
  /\ UNCHANGED <<hash, rom, session, gen, coarse, editor, touched>>

-----------------------------------------------------------------------------
(* Loading *)

(* Generations left, one of them for a restore under way. *)
Room == gen + (IF restoring = None THEN 0 ELSE 1) < MaxGen

(* A slip: the generation is not counted up. *)
InvalidateQuietly ==
  /\ gen' = gen
  /\ hash' = None /\ view' = NoPatch /\ pending' = {} /\ cursor' = 0 /\ wait' = 0
  /\ lastCoarse' = coarse
  /\ editor' = [editor EXCEPT !.current = FALSE] /\ touched' = "no"

(* invalidatePatchLocked *)
Invalidate ==
  /\ gen' = gen + 1
  /\ hash' = None /\ view' = NoPatch /\ pending' = {} /\ cursor' = 0 /\ wait' = 0
  /\ lastCoarse' = coarse
  /\ editor' = [editor EXCEPT !.current = FALSE] /\ touched' = "no"

(* loadRom: resetMachine. *)
LoadRom ==
  /\ loading = None /\ Room
  /\ rom' = TRUE
  /\ Invalidate
  /\ machine' = None /\ port' = 0
  /\ UNCHANGED <<session, coarse>>

(* The file is there, and is a patch in which every ordinary parameter has *)
(* an address of its own.                                                  *)
Parsed == disk # None

(* loadPatch: a file that cannot be read leaves the old patch as it is. *)
LoadPatch ==
  /\ loading = None /\ Room /\ rom /\ Parsed
  /\ Invalidate
  /\ loading' = [hash |-> disk, values |-> Source(disk)]
  /\ machine' = None /\ port' = 0
  /\ UNCHANGED <<rom, coarse, disk, saved, restoring>>

(* A slip: the patch gets no baseline when it becomes active. *)
EndLoadUnbased ==
  /\ loading # None /\ loading' = None
  /\ \/ /\ hash' = loading.hash
        /\ view' = loading.values /\ machine' = loading.values
        /\ touched' = "no"
     \/ UNCHANGED <<hash, view, machine, touched>>
  /\ UNCHANGED <<rom, gen, pending, cursor, wait, coarse, lastCoarse, port, disk,
                 editor, saved, restoring>>

(* A slip: a patch that the OS has not confirmed can be edited.            *)
EndLoadUnconfirmed ==
  /\ loading # None /\ loading' = None
  /\ hash' = loading.hash /\ view' = loading.values
  /\ machine' \in {loading.values, None}
  /\ lastCoarse' = coarse /\ touched' = "no"
  /\ UNCHANGED <<rom, gen, pending, cursor, wait, coarse, port, disk,
                 editor, saved, restoring>>

(* The upload ends: the new patch, with the host parameter as baseline, or *)
(* none if the OS has not confirmed it.                                    *)
EndLoad ==
  /\ loading # None /\ loading' = None
  /\ \/ /\ hash' = loading.hash
        /\ view' = loading.values /\ machine' = loading.values
        /\ lastCoarse' = coarse /\ touched' = "no"
     \/ UNCHANGED <<hash, view, machine, lastCoarse, touched>>
  /\ UNCHANGED <<rom, gen, pending, cursor, wait, coarse, port, disk,
                 editor, saved, restoring>>

-----------------------------------------------------------------------------
(* The host's state *)

(* A slip: only the edits not sent yet are saved. *)
OverlayPending ==
  [p \in Params |-> IF hash # None /\ p \in pending' THEN view'[p] ELSE None]

(* makeOverlayLocked *)
Overlay ==
  [p \in Params |-> IF hash # None /\ view'[p] # Source(hash)[p] THEN view'[p] ELSE None]

(* getStateInformation *)
Save ==
  /\ loading = None
  /\ lastCoarse' = coarse
  /\ view' = Captured /\ pending' = pending \cup Changed(view, Captured)
  /\ saved' = [rom |-> rom, hash |-> hash, coarse |-> coarse,
               overlay |-> Overlay, values |-> view']
  /\ UNCHANGED <<hash, cursor, wait, synth, gen, coarse, disk, editor,
                 restoring, loading, touched>>

(* setStateInformation, before it takes the mutex. *)
Notify ==
  /\ loading = None /\ restoring = None /\ saved # None /\ Room
  /\ restoring' = saved
  /\ coarse' = saved.coarse
  /\ touched' = IF Active /\ coarse' # coarse THEN "restore" ELSE touched
  /\ UNCHANGED <<patch, synth, gen, lastCoarse, disk, editor, saved, loading>>

(* applyOverlayLocked: the source must be what it was. *)
Applies(state) == disk = state.hash

(* setStateInformation: a new machine, and the patch with its edits, if    *)
(* there was one and its file is still the same.                           *)
Restore ==
  /\ restoring # None /\ loading = None
  /\ rom' = restoring.rom
  /\ Invalidate
  /\ machine' = None /\ port' = 0
  /\ loading' =
       IF restoring.hash # None /\ Applies(restoring)
       THEN [hash |-> disk,
             values |-> [p \in Params |->
                IF restoring.overlay[p] = None THEN Source(disk)[p]
                                               ELSE restoring.overlay[p]]]
       ELSE None
  /\ restoring' = None
  /\ UNCHANGED <<coarse, disk, saved>>

(* The host's automation, and whoever edits the patch file. *)
Automate(v) ==
  /\ coarse' = v /\ touched' = IF Active THEN "moved" ELSE touched
  /\ UNCHANGED <<patch, synth, session, gen, lastCoarse, editor>>

ChangeFile(v) ==
  /\ disk' = v
  /\ UNCHANGED <<patch, synth, gen, coarse, lastCoarse, editor, saved,
                 restoring, loading, touched>>

ProcessBlock == \E ms \in Blocks : Block(ms)

Next ==
  \/ \E p \in Params, v \in Values : ControlEdit(p, v)
  \/ Refresh \/ Save \/ Notify \/ Restore
  \/ ProcessBlock
  \/ LoadRom \/ LoadPatch \/ EndLoad
  \/ \E v \in Values : Automate(v)
  \/ \E v \in Versions \cup {None} : ChangeFile(v)

Spec == Init /\ [][Next]_vars

(* The host processes blocks whenever nothing is loaded, and a load ends.  *)
FairSpec == Spec /\ WF_vars(ProcessBlock) /\ WF_vars(EndLoad \/ Restore)

-----------------------------------------------------------------------------
(* What the synthesizer plays is what the editor and the saved state say,  *)
(* except for the edits still pending; and there is no patch to edit while *)
(* it is uncertain what it plays.                                          *)
ModelMatchesMachine ==
  Active => /\ machine # None
            /\ \A p \in Params : p \in pending \/ machine[p] = view[p]

(* An editor that shows another patch than the active one cannot edit it.  *)
NoStaleEdit == editor.shown /\ editor.gen = gen => editor.current

(* An edit is only sent when the port has passed on the one before.        *)
NoBacklog == wait = 0 => port = 0

(* Loading a patch is no automation: the alias keeps the value of the      *)
(* patch until the host or the user moves it afterwards, whatever the host *)
(* parameter was or became during the load.                                *)
AliasChanges == gen' = gen /\ Active /\ view'[Alias] # view[Alias]
LoadIsNoAutomation == [][AliasChanges => touched' # "no"]_vars

(* PluginProcessor.cpp:278, "Loading a patch/state is not a host automation *)
(* event": nor does a restore edit the patch that was there before.        *)
RestoreIsNoAutomation == [][AliasChanges => touched' # "restore"]_vars

(* A restored patch plays what was saved, whatever happened to its file.   *)
RestoredAsSaved ==
  [][restoring # None /\ restoring' = None /\ loading' # None =>
       loading' = [hash |-> restoring.hash, values |-> restoring.values]]_vars

(* Every edit reaches the synthesizer, however often others are repeated,  *)
(* unless its patch is replaced.                                           *)
EditsDelivered ==
  \A p \in Params : p \in pending ~> p \notin pending
=============================================================================
