----------------------------- MODULE PatchProofs -----------------------------
(***************************************************************************)
(* Proofs about the plug-in's patch, for any parameters, values, contents  *)
(* of the patch file and lengths of blocks.                                *)
(***************************************************************************)
EXTENDS PluginPatch, TLAPS

(* Of a saved state: the differences from the source that were saved are   *)
(* those of the values that were played.                                   *)
Faithful(s) ==
  s.hash # None =>
    \A p \in Params :
      s.overlay[p] = IF s.values[p] # Source(s.hash)[p] THEN s.values[p] ELSE None

(* A generation is left for a restore under way, and no patch is active    *)
(* while one is loaded.                                                    *)
Loading ==
  /\ restoring # None => gen < MaxGen
  /\ loading # None => ~Active

(* The editor has seen no generation yet to come, and the current one only *)
(* since it began.                                                         *)
Shown == editor.gen <= gen /\ (editor.gen = gen => editor.current)

(* The port is busy for no longer than no edit may be sent. *)
Paced == port <= wait

(* Whatever makes the next capture an edit has been noted. *)
Noted == Active /\ coarse # lastCoarse => touched # "no"

PatchInv ==
  /\ TypeOK /\ Loading /\ ModelMatchesMachine /\ Shown /\ Paced /\ Noted
  /\ saved # None => Faithful(saved)
  /\ restoring # None => Faithful(restoring)

(* The parameters and the values of a patch. *)
LEMMA Patches ==
  /\ Last \in Nat /\ Params = 0 .. Last /\ Alias \in Params
  /\ \A v \in Versions : Source(v) \in [Params -> Values]
  /\ None \notin Values /\ None \notin Versions /\ None \notin [Params -> Values]
BY PatchAssumption DEF Params

LEMMA EmptyPatch ==
  ASSUME TypeOK
  PROVE  NoPatch \in [Params -> Values]
<1>1. coarse \in Values
  BY DEF TypeOK
<1>2. (CHOOSE v \in Values : TRUE) \in Values
  BY <1>1
<1> QED  BY <1>2 DEF NoPatch

(* captureHostParameterLocked gives the alias a value of its range. *)
LEMMA CapturedType ==
  ASSUME TypeOK
  PROVE  Captured \in [Params -> Values]
BY DEF TypeOK, Captured

LEMMA Elapsed ==
  ASSUME NEW ms \in Nat, NEW n \in Nat
  PROVE  Elapse(ms, n) \in 0 .. n
BY DEF Elapse

(* More time leaves less to wait, in the same order. *)
LEMMA ElapsedInOrder ==
  ASSUME NEW ms \in Nat, NEW m \in Nat, NEW n \in Nat, m <= n
  PROVE  Elapse(ms, m) <= Elapse(ms, n)
BY DEF Elapse

(* deliverEditsLocked sends nothing, or one of the queue. *)
LEMMA DeliverCases ==
  ASSUME NEW queue, NEW ms, Deliver(queue, ms)
  PROVE  \/ /\ machine' = machine /\ cursor' = cursor /\ pending' = queue
            /\ wait' = Elapse(ms, wait) /\ port' = Elapse(ms, port)
         \/ \E p \in queue :
              /\ Active /\ wait = 0
              /\ machine' = [machine EXCEPT ![p] = view'[p]]
              /\ pending' = queue \ {p} /\ cursor' = (p + 1) % (Last + 1)
              /\ wait' = Elapse(ms, Gap) /\ port' = Elapse(ms, port + Message)
BY DEF Deliver

(* The next place of the cursor is a parameter. *)
LEMMA NextCursor ==
  ASSUME NEW p \in Params
  PROVE  (p + 1) % (Last + 1) \in Params
<1>1. ASSUME NEW n \in Nat, NEW k \in 0 .. n PROVE (k + 1) % (n + 1) \in 0 .. n
  OBVIOUS
<1> QED  BY <1>1, Patches

(* The values that a capture or an edit changes, and no others. *)
LEMMA Unchanged ==
  ASSUME NEW before, NEW after, NEW p \in Params, p \notin Changed(before, after)
  PROVE  before[p] = after[p]
BY DEF Changed

(* A capture is an edit of the alias, to what the host has set. *)
LEMMA Captures ==
  ASSUME PatchInv
  PROVE  /\ Captured \in [Params -> Values]
         /\ ~Active => Captured = view
         /\ Captured[Alias] # view[Alias] => touched # "no"
<1>1. CASE Active /\ coarse # lastCoarse
  BY <1>1, Patches DEF PatchInv, TypeOK, Captured, Noted
<1>2. CASE ~(Active /\ coarse # lastCoarse)
  BY <1>2 DEF PatchInv, TypeOK, Captured
<1> QED  BY <1>1, <1>2

-----------------------------------------------------------------------------
(* Each action keeps the invariant. *)

LEMMA EditStep ==
  ASSUME PatchInv, NEW p \in Params, NEW v \in Values, Edit(p, v)
  PROVE  PatchInv'
<1>1. /\ UNCHANGED <<hash, cursor, wait, gen, coarse, editor>>
      /\ UNCHANGED <<rom, machine, port>> /\ UNCHANGED <<disk, saved, restoring, loading>>
      /\ lastCoarse' = coarse
  BY DEF Edit, synth, session
<1>2. Captured \in [Params -> Values]
  BY Captures
<1>3. view' \in [Params -> Values] /\ touched' \in {"no", "moved", "restore"}
  BY <1>2 DEF Edit, PatchInv, TypeOK
<1>4. pending' \subseteq Params /\ pending \subseteq pending'
      /\ Changed(view, Captured) \subseteq pending' /\ Changed(Captured, view') \subseteq pending'
  BY DEF Edit, PatchInv, TypeOK, Changed
<1>5. TypeOK'
  BY <1>1, <1>3, <1>4 DEF PatchInv, TypeOK
<1>6. ModelMatchesMachine'
  <2> SUFFICES ASSUME Active PROVE machine # None /\ \A q \in Params : q \in pending' \/ machine[q] = view'[q]
    BY <1>1 DEF ModelMatchesMachine, Active
  <2>1. ASSUME NEW q \in Params, q \notin pending' PROVE machine[q] = view'[q]
    <3>1. q \notin pending /\ view[q] = Captured[q] /\ Captured[q] = view'[q]
      BY <1>4, <2>1, Unchanged
    <3> QED  BY <3>1 DEF PatchInv, ModelMatchesMachine
  <2> QED  BY <2>1 DEF PatchInv, ModelMatchesMachine
<1>7. Loading' /\ Shown' /\ Paced' /\ Noted'
  BY <1>1 DEF PatchInv, Loading, Shown, Paced, Noted, Active
<1> QED  BY <1>1, <1>5, <1>6, <1>7 DEF PatchInv, Faithful

LEMMA BlockStep ==
  ASSUME PatchInv, NEW ms \in Blocks, Block(ms)
  PROVE  PatchInv'
<1> DEFINE queue == pending \cup Changed(view, Captured)
<1>1. queue \subseteq Params
  BY DEF PatchInv, TypeOK, Changed
<1>2. view' \in [Params -> Values] /\ lastCoarse' = coarse
  BY Captures DEF Block
<1>3. /\ UNCHANGED <<hash, rom, gen, coarse, editor, touched>>
      /\ UNCHANGED <<disk, saved, restoring, loading>>
      /\ Deliver(queue, ms)
  BY DEF Block, session
<1>4. /\ ms \in Nat /\ Gap \in Nat /\ Message \in Nat /\ Message <= Gap
      /\ wait \in Nat /\ wait \in 0 .. Gap /\ port \in Nat /\ port \in 0 .. Message /\ port <= wait
  BY PatchAssumption DEF PatchInv, TypeOK, Paced
<1>5. ASSUME NEW q \in Params, q \notin queue, Active PROVE machine[q] = view'[q]
  <2>1. q \notin pending /\ view[q] = view'[q]
    BY <1>5, Unchanged DEF Block
  <2> QED  BY <1>5, <2>1 DEF PatchInv, ModelMatchesMachine
<1> HIDE DEF queue
<1>6. /\ machine' \in [Params -> Values] \cup {None} /\ cursor' \in Params
      /\ pending' \subseteq Params
      /\ wait' \in 0 .. Gap /\ port' \in 0 .. Message /\ port' <= wait'
      /\ ModelMatchesMachine'
  <2>1. CASE /\ machine' = machine /\ cursor' = cursor /\ pending' = queue
             /\ wait' = Elapse(ms, wait) /\ port' = Elapse(ms, port)
    <3>1. Elapse(ms, wait) \in 0 .. wait /\ Elapse(ms, port) \in 0 .. port
          /\ Elapse(ms, port) <= Elapse(ms, wait)
      BY <1>4, Elapsed, ElapsedInOrder
    <3>2. wait' \in 0 .. Gap /\ port' \in 0 .. Message /\ port' <= wait'
      BY <1>4, <2>1, <3>1
    <3>3. ModelMatchesMachine'
      BY <1>3, <1>5, <2>1 DEF PatchInv, ModelMatchesMachine, Active
    <3> QED  BY <1>1, <2>1, <3>2, <3>3 DEF PatchInv, TypeOK
  <2>2. ASSUME NEW p \in queue, Active, wait = 0,
               machine' = [machine EXCEPT ![p] = view'[p]],
               pending' = queue \ {p}, cursor' = (p + 1) % (Last + 1),
               wait' = Elapse(ms, Gap), port' = Elapse(ms, port + Message)
        PROVE  /\ machine' \in [Params -> Values] \cup {None} /\ cursor' \in Params
               /\ pending' \subseteq Params
               /\ wait' \in 0 .. Gap /\ port' \in 0 .. Message /\ port' <= wait'
               /\ ModelMatchesMachine'
    <3>1. p \in Params /\ cursor' \in Params
      BY <1>1, <2>2, NextCursor
    <3>2. machine \in [Params -> Values]
      BY <2>2 DEF PatchInv, TypeOK, ModelMatchesMachine
    <3>3. machine' \in [Params -> Values]
      BY <1>2, <2>2, <3>1, <3>2
    <3>4. port + Message = Message
      BY <1>4, <2>2
    <3>5. Elapse(ms, Gap) \in 0 .. Gap /\ Elapse(ms, Message) \in 0 .. Message
          /\ Elapse(ms, Message) <= Elapse(ms, Gap)
      BY <1>4, Elapsed, ElapsedInOrder
    <3>6. machine' # None
      BY <3>3, Patches
    <3>7. ASSUME NEW q \in Params, q \notin queue \ {p} PROVE machine'[q] = view'[q]
      BY <1>5, <2>2, <3>1, <3>2, <3>7
    <3>8. ModelMatchesMachine'
      BY <2>2, <3>6, <3>7 DEF ModelMatchesMachine
    <3> QED  BY <1>1, <2>2, <3>1, <3>3, <3>4, <3>5, <3>8
  <2> QED  BY <1>3, <2>1, <2>2, DeliverCases
<1>7. TypeOK'
  BY <1>2, <1>3, <1>6 DEF PatchInv, TypeOK
<1>8. Loading' /\ Shown' /\ Noted'
  BY <1>2, <1>3 DEF PatchInv, Loading, Shown, Noted, Active
<1>9. Paced'
  BY <1>6 DEF Paced
<1> QED  BY <1>3, <1>6, <1>7, <1>8, <1>9 DEF PatchInv, Faithful

(* invalidatePatchLocked, with the machine behind it started anew. *)
LEMMA InvalidateStep ==
  ASSUME PatchInv, Invalidate, gen < MaxGen, machine' = None, port' = 0
  PROVE  /\ gen' \in 0 .. MaxGen /\ hash' \in Versions \cup {None}
         /\ view' \in [Params -> Values] /\ pending' \subseteq Params
         /\ cursor' \in Params /\ wait' \in 0 .. Gap /\ port' \in 0 .. Message
         /\ lastCoarse' \in Values
         /\ editor' \in [gen : 0 .. MaxGen, shown : BOOLEAN, current : BOOLEAN]
         /\ touched' \in {"no", "moved", "restore"}
         /\ ~Active'
         /\ ModelMatchesMachine' /\ Shown' /\ Paced' /\ Noted'
<1>1. view' \in [Params -> Values]
  BY EmptyPatch DEF Invalidate, PatchInv
<1>2. gen \in Nat /\ MaxGen \in Nat /\ gen' = gen + 1
  BY PatchAssumption DEF Invalidate, PatchInv, TypeOK
<1>3. gen' \in 0 .. MaxGen
  BY <1>2
<1>4. cursor' \in Params /\ wait' \in 0 .. Gap /\ port' \in 0 .. Message
  BY Patches, PatchAssumption DEF Invalidate
<1>5. editor' \in [gen : 0 .. MaxGen, shown : BOOLEAN, current : BOOLEAN]
      /\ editor'.gen = editor.gen
  BY DEF Invalidate, PatchInv, TypeOK
<1>6. ~Active'
  BY DEF Invalidate, Active
<1>7. ModelMatchesMachine' /\ Noted'
  BY <1>6 DEF ModelMatchesMachine, Noted
<1>8. Shown'
  <2>1. editor.gen \in Nat /\ editor.gen <= gen
    BY DEF PatchInv, TypeOK, Shown
  <2> HIDE DEF PatchInv
  <2>2. editor.gen <= gen + 1 /\ editor.gen # gen + 1
    BY <1>2, <2>1
  <2> QED  BY <1>2, <1>5, <2>2 DEF Shown
<1>9. Paced'
  BY DEF Invalidate, Paced
<1> QED  BY <1>1, <1>3, <1>4, <1>5, <1>6, <1>7, <1>8, <1>9 DEF Invalidate, PatchInv, TypeOK

LEMMA RoomLeft ==
  ASSUME PatchInv, Room
  PROVE  gen < MaxGen /\ (restoring # None => gen + 1 < MaxGen)
<1>1. gen \in Nat /\ MaxGen \in Nat
  BY PatchAssumption DEF PatchInv, TypeOK
<1> QED  BY <1>1 DEF Room

LEMMA LoadRomStep ==
  ASSUME PatchInv, LoadRom
  PROVE  PatchInv'
<1>1. gen < MaxGen /\ (restoring # None => gen + 1 < MaxGen)
  BY RoomLeft DEF LoadRom
<1>2. /\ Invalidate /\ machine' = None /\ port' = 0 /\ rom' = TRUE
      /\ UNCHANGED <<disk, saved, restoring, loading>> /\ coarse' = coarse
  BY DEF LoadRom, session
<1>3. TypeOK'
  BY <1>1, <1>2, InvalidateStep DEF PatchInv, TypeOK
<1>4. Loading'
  BY <1>1, <1>2, InvalidateStep DEF PatchInv, Loading, Invalidate
<1> QED  BY <1>1, <1>2, <1>3, <1>4, InvalidateStep DEF PatchInv, Faithful

LEMMA LoadPatchStep ==
  ASSUME PatchInv, LoadPatch
  PROVE  PatchInv'
<1>1. gen < MaxGen /\ (restoring # None => gen + 1 < MaxGen)
  BY RoomLeft DEF LoadPatch
<1>2. /\ Invalidate /\ machine' = None /\ port' = 0 /\ rom' = rom
      /\ UNCHANGED <<disk, saved, restoring>> /\ coarse' = coarse
  BY DEF LoadPatch
<1>3. loading' \in [hash : Versions, values : [Params -> Values]]
  <2>1. disk \in Versions
    BY DEF LoadPatch, Parsed, PatchInv, TypeOK
  <2> QED  BY <2>1, Patches DEF LoadPatch
<1>4. TypeOK'
  BY <1>1, <1>2, <1>3, InvalidateStep DEF PatchInv, TypeOK
<1>5. Loading'
  BY <1>1, <1>2, InvalidateStep DEF PatchInv, Loading, Invalidate
<1> QED  BY <1>1, <1>2, <1>4, <1>5, InvalidateStep DEF PatchInv, Faithful

LEMMA EndLoadStep ==
  ASSUME PatchInv, EndLoad
  PROVE  PatchInv'
<1>1. /\ UNCHANGED <<rom, gen, pending, cursor, wait, coarse, port, disk,
                     editor, saved, restoring>>
      /\ loading # None /\ loading' = None /\ ~Active
  BY DEF EndLoad, PatchInv, Loading
<1>2. /\ loading.hash \in Versions /\ loading.values \in [Params -> Values]
  BY <1>1 DEF PatchInv, TypeOK
<1>3. CASE /\ hash' = loading.hash
           /\ view' = loading.values /\ machine' = loading.values
           /\ lastCoarse' = coarse /\ touched' = "no"
  <2>1. TypeOK'
    BY <1>1, <1>2, <1>3 DEF PatchInv, TypeOK
  <2>2. ModelMatchesMachine'
    BY <1>2, <1>3, Patches DEF ModelMatchesMachine
  <2>3. Loading' /\ Shown' /\ Paced' /\ Noted'
    BY <1>1, <1>3 DEF PatchInv, Loading, Shown, Paced, Noted, Active
  <2> QED  BY <1>1, <2>1, <2>2, <2>3 DEF PatchInv, Faithful
<1>4. CASE UNCHANGED <<hash, view, machine, lastCoarse, touched>>
  <2>1. TypeOK'
    BY <1>1, <1>4 DEF PatchInv, TypeOK
  <2>2. ~Active'
    BY <1>1, <1>4 DEF Active
  <2>3. Loading' /\ Shown' /\ Paced' /\ Noted' /\ ModelMatchesMachine'
    BY <1>1, <2>2 DEF PatchInv, Loading, Shown, Paced, Noted, ModelMatchesMachine
  <2> QED  BY <1>1, <2>1, <2>3 DEF PatchInv, Faithful
<1> QED  BY <1>3, <1>4 DEF EndLoad

LEMMA SaveStep ==
  ASSUME PatchInv, Save
  PROVE  PatchInv'
<1>1. /\ UNCHANGED <<hash, cursor, wait, gen, coarse, disk, editor, restoring, loading, touched>>
      /\ UNCHANGED <<rom, machine, port>> /\ lastCoarse' = coarse
      /\ view' = Captured /\ pending' = pending \cup Changed(view, Captured)
      /\ saved' = [rom |-> rom, hash |-> hash, coarse |-> coarse,
                   overlay |-> Overlay, values |-> view']
  BY DEF Save, synth
<1>2. view' \in [Params -> Values]
  BY <1>1, Captures
<1>3. Overlay \in [Params -> Values \cup {None}]
  BY <1>2 DEF Overlay
<1>4. saved' \in States
  BY <1>1, <1>2, <1>3 DEF PatchInv, TypeOK, States
<1>5. saved'.hash # None => Faithful(saved')
  BY <1>1 DEF Faithful, Overlay
<1>6. pending' \subseteq Params
  BY <1>1 DEF PatchInv, TypeOK, Changed
<1>7. TypeOK'
  BY <1>1, <1>2, <1>4, <1>6 DEF PatchInv, TypeOK
<1>8. ModelMatchesMachine'
  <2>1. ASSUME NEW q \in Params, q \notin pending', Active PROVE machine[q] = view'[q]
    <3>1. q \notin pending /\ view[q] = view'[q]
      BY <1>1, <2>1, Unchanged
    <3> QED  BY <2>1, <3>1 DEF PatchInv, ModelMatchesMachine
  <2> QED  BY <1>1, <2>1 DEF PatchInv, ModelMatchesMachine, Active
<1>9. Loading' /\ Shown' /\ Paced' /\ Noted'
  BY <1>1 DEF PatchInv, Loading, Shown, Paced, Noted, Active
<1> QED  BY <1>1, <1>5, <1>7, <1>8, <1>9 DEF PatchInv, Faithful

LEMMA NotifyStep ==
  ASSUME PatchInv, Notify
  PROVE  PatchInv'
<1>1. /\ UNCHANGED <<hash, view, pending, cursor, wait>> /\ UNCHANGED <<rom, machine, port>>
      /\ UNCHANGED <<gen, lastCoarse, disk, editor, saved, loading>>
      /\ saved \in States /\ saved # None /\ restoring' = saved /\ coarse' = saved.coarse
      /\ touched' = IF Active /\ coarse' # coarse THEN "restore" ELSE touched
  BY DEF Notify, patch, synth, PatchInv, TypeOK
<1>2. saved.coarse \in Values
  BY <1>1 DEF States
<1>3. touched' \in {"no", "moved", "restore"}
  BY <1>1 DEF PatchInv, TypeOK
<1>4. TypeOK'
  BY <1>1, <1>2, <1>3 DEF PatchInv, TypeOK
<1>5. Noted'
  <2>1. CASE Active /\ coarse' # coarse
    BY <1>1, <2>1 DEF Noted
  <2>2. CASE ~(Active /\ coarse' # coarse)
    BY <1>1, <2>2 DEF PatchInv, Noted, Active
  <2> QED  BY <2>1, <2>2
<1>6. Loading'
  BY <1>1, RoomLeft DEF Notify, PatchInv, Loading, Active
<1>7. ModelMatchesMachine' /\ Shown' /\ Paced'
  BY <1>1 DEF PatchInv, ModelMatchesMachine, Shown, Paced, Active
<1> QED  BY <1>1, <1>4, <1>5, <1>6, <1>7 DEF PatchInv, Faithful

(* The patch that a restore loads has values of the parameters' range. *)
LEMMA RestoreLoads ==
  ASSUME PatchInv, Restore
  PROVE  /\ loading' \in [hash : Versions, values : [Params -> Values]] \cup {None}
         /\ loading' # None =>
              loading' = [hash |-> restoring.hash, values |-> restoring.values]
<1>1. restoring \in States /\ Faithful(restoring) /\ disk \in Versions \cup {None}
  BY DEF Restore, PatchInv, TypeOK
<1>2. restoring.values \in [Params -> Values]
  BY <1>1 DEF States
<1>3. CASE restoring.hash # None /\ Applies(restoring)
  <2> DEFINE played == [p \in Params |-> IF restoring.overlay[p] = None
                                         THEN Source(disk)[p] ELSE restoring.overlay[p]]
  <2>1. loading' = [hash |-> disk, values |-> played] /\ disk = restoring.hash
    BY <1>3 DEF Restore, Applies
  <2>2. disk \in Versions
    BY <1>1, <1>3, <2>1
  <2>3. ASSUME NEW p \in Params PROVE played[p] = restoring.values[p]
    <3>1. restoring.overlay[p] = IF restoring.values[p] # Source(disk)[p]
                                 THEN restoring.values[p] ELSE None
      BY <1>1, <1>3, <2>1 DEF Faithful
    <3>2. restoring.values[p] # None
      BY <1>2, Patches
    <3> QED  BY <3>1, <3>2
  <2>4. played = restoring.values
    BY <1>2, <2>3
  <2> HIDE DEF played
  <2> QED  BY <1>2, <2>1, <2>2, <2>4
<1>4. CASE ~(restoring.hash # None /\ Applies(restoring))
  BY <1>4 DEF Restore
<1> QED  BY <1>3, <1>4

LEMMA RestoreStep ==
  ASSUME PatchInv, Restore
  PROVE  PatchInv'
<1>1. gen < MaxGen
  BY DEF Restore, PatchInv, Loading
<1>2. /\ Invalidate /\ machine' = None /\ port' = 0 /\ restoring' = None
      /\ UNCHANGED <<coarse, disk, saved>>
  BY DEF Restore
<1>3. rom' \in BOOLEAN
  BY DEF Restore, PatchInv, TypeOK, States
<1>4. loading' \in [hash : Versions, values : [Params -> Values]] \cup {None}
  BY RestoreLoads
<1>5. TypeOK'
  BY <1>1, <1>2, <1>3, <1>4, InvalidateStep DEF PatchInv, TypeOK
<1>6. Loading'
  BY <1>1, <1>2, InvalidateStep DEF Loading
<1> QED  BY <1>1, <1>2, <1>5, <1>6, InvalidateStep DEF PatchInv, Faithful

LEMMA AutomateStep ==
  ASSUME PatchInv, NEW v \in Values, Automate(v)
  PROVE  PatchInv'
<1>1. /\ UNCHANGED <<hash, view, pending, cursor, wait>> /\ UNCHANGED <<rom, machine, port>>
      /\ UNCHANGED <<disk, saved, restoring, loading>> /\ UNCHANGED <<gen, lastCoarse, editor>>
      /\ coarse' = v /\ touched' = IF Active THEN "moved" ELSE touched
  BY DEF Automate, patch, synth, session
<1>2. TypeOK'
  BY <1>1 DEF PatchInv, TypeOK
<1>3. Noted'
  BY <1>1 DEF Noted, Active
<1>4. Loading' /\ ModelMatchesMachine' /\ Shown' /\ Paced'
  BY <1>1 DEF PatchInv, Loading, ModelMatchesMachine, Shown, Paced, Active
<1> QED  BY <1>1, <1>2, <1>3, <1>4 DEF PatchInv, Faithful

LEMMA RefreshStep ==
  ASSUME PatchInv, Refresh
  PROVE  PatchInv'
<1>1. /\ UNCHANGED <<hash, view, pending, cursor, wait>> /\ UNCHANGED <<rom, machine, port>>
      /\ UNCHANGED <<disk, saved, restoring, loading>>
      /\ UNCHANGED <<gen, coarse, lastCoarse, touched>>
      /\ editor' = [gen |-> gen, shown |-> Active, current |-> TRUE]
  BY DEF Refresh, Snapshot, patch, synth, session
<1>2. gen \in 0 .. MaxGen /\ gen \in Nat /\ Active \in BOOLEAN
  BY DEF PatchInv, TypeOK, Active
<1>3. TypeOK'
  BY <1>1, <1>2 DEF PatchInv, TypeOK
<1>4. Shown'
  BY <1>1, <1>2 DEF Shown
<1>5. Loading' /\ ModelMatchesMachine' /\ Paced' /\ Noted'
  BY <1>1 DEF PatchInv, Loading, ModelMatchesMachine, Paced, Noted, Active
<1> QED  BY <1>1, <1>3, <1>4, <1>5 DEF PatchInv, Faithful

LEMMA ChangeFileStep ==
  ASSUME PatchInv, NEW v \in Versions \cup {None}, ChangeFile(v)
  PROVE  PatchInv'
<1>1. /\ UNCHANGED <<hash, view, pending, cursor, wait>> /\ UNCHANGED <<rom, machine, port>>
      /\ UNCHANGED <<gen, coarse, lastCoarse, editor, saved, restoring, loading, touched>>
      /\ disk' = v
  BY DEF ChangeFile, patch, synth
<1>2. TypeOK'
  BY <1>1 DEF PatchInv, TypeOK
<1>3. Loading' /\ ModelMatchesMachine' /\ Shown' /\ Paced' /\ Noted'
  BY <1>1 DEF PatchInv, Loading, ModelMatchesMachine, Shown, Paced, Noted, Active
<1> QED  BY <1>1, <1>2, <1>3 DEF PatchInv, Faithful

LEMMA StutterStep ==
  ASSUME PatchInv, UNCHANGED vars
  PROVE  PatchInv'
<1>1. /\ UNCHANGED <<hash, view, pending, cursor, wait>> /\ UNCHANGED <<rom, machine, port>>
      /\ UNCHANGED <<disk, saved, restoring, loading>>
      /\ UNCHANGED <<gen, coarse, lastCoarse, editor, touched>>
  BY DEF vars, patch, synth, session
<1>2. TypeOK'
  BY <1>1 DEF PatchInv, TypeOK
<1>3. Loading' /\ ModelMatchesMachine' /\ Shown' /\ Paced' /\ Noted'
  BY <1>1 DEF PatchInv, Loading, ModelMatchesMachine, Shown, Paced, Noted, Active
<1> QED  BY <1>1, <1>2, <1>3 DEF PatchInv, Faithful

LEMMA PatchInit ==
  ASSUME Init
  PROVE  PatchInv
<1>1. coarse \in Values /\ disk \in Versions
  BY DEF Init
<1>2. (CHOOSE v \in Values : TRUE) \in Values
  BY <1>1
<1>3. view \in [Params -> Values]
  BY <1>2 DEF Init, NoPatch
<1>4. cursor \in Params /\ wait \in 0 .. Gap /\ port \in 0 .. Message /\ gen \in 0 .. MaxGen
  BY Patches, PatchAssumption DEF Init
<1>5. TypeOK
  BY <1>1, <1>3, <1>4 DEF Init, TypeOK
<1>6. Loading /\ ModelMatchesMachine /\ Shown /\ Paced /\ Noted
  BY DEF Init, Loading, ModelMatchesMachine, Shown, Paced, Noted, Active
<1> QED  BY <1>5, <1>6 DEF Init, PatchInv

LEMMA PatchNext ==
  ASSUME PatchInv, [Next]_vars
  PROVE  PatchInv'
<1>1. ASSUME NEW p \in Params, NEW v \in Values, ControlEdit(p, v) PROVE PatchInv'
  BY <1>1, EditStep DEF ControlEdit
<1>2. CASE ProcessBlock
  BY <1>2, BlockStep DEF ProcessBlock
<1>3. ASSUME NEW v \in Values, Automate(v) PROVE PatchInv'
  BY <1>3, AutomateStep
<1>4. ASSUME NEW v \in Versions \cup {None}, ChangeFile(v) PROVE PatchInv'
  BY <1>4, ChangeFileStep
<1> QED
  BY <1>1, <1>2, <1>3, <1>4, RefreshStep, SaveStep, NotifyStep, RestoreStep,
     LoadRomStep, LoadPatchStep, EndLoadStep, StutterStep DEF Next

LEMMA PatchInvariant == Spec => []PatchInv
<1>1. Init => PatchInv
  BY PatchInit
<1>2. PatchInv /\ [Next]_vars => PatchInv'
  BY PatchNext
<1> QED  BY <1>1, <1>2, PTL DEF Spec

-----------------------------------------------------------------------------
(* The types of the plug-in's state (PluginProcessor.h), among them that   *)
(* the port never has more than one edit to pass on.                       *)
THEOREM PatchTypes == Spec => []TypeOK
<1>1. PatchInv => TypeOK
  BY DEF PatchInv
<1> QED  BY <1>1, PatchInvariant, PTL

(* Whatever the host, the editor and the disk do, the synthesizer plays    *)
(* what the plug-in shows and saves, except for the edits in the queue     *)
(* (queueEditLocked, deliverEditsLocked); and no patch is active while it  *)
(* is uncertain what it plays (invalidatePatchLocked).                     *)
THEOREM MachineFollowsModel == Spec => []ModelMatchesMachine
<1>1. PatchInv => ModelMatchesMachine
  BY DEF PatchInv
<1> QED  BY <1>1, PatchInvariant, PTL

(* An editor that has missed a change of the patch is turned away by       *)
(* editParameter's comparison of generations.                              *)
THEOREM EditsAreOfTheirPatch == Spec => []NoStaleEdit
<1>1. PatchInv => NoStaleEdit
  BY DEF PatchInv, Shown, NoStaleEdit
<1> QED  BY <1>1, PatchInvariant, PTL

(* The pace of deliverEditsLocked leaves the port the time an edit takes,  *)
(* for blocks of any length.                                               *)
THEOREM PortKeepsUp == Spec => []NoBacklog
<1>1. PatchInv => NoBacklog
  BY DEF PatchInv, TypeOK, Paced, NoBacklog
<1> QED  BY <1>1, PatchInvariant, PTL

(* The alias of the host's parameter changes under a patch only after the  *)
(* host or the user has moved it, or a restore has (setStateInformation):  *)
(* never because of what the host's parameter was before a load.           *)
THEOREM LoadsAreNoAutomation == Spec => LoadIsNoAutomation
<1>1. PatchInv /\ [Next]_vars => [AliasChanges => touched' # "no"]_vars
  <2> SUFFICES ASSUME PatchInv, Next, AliasChanges PROVE touched' # "no"
    OBVIOUS
  <2>1. gen' = gen /\ Active /\ view'[Alias] # view[Alias]
    BY DEF AliasChanges
  <2>2. ASSUME NEW p \in Params, NEW v \in Values, ControlEdit(p, v) PROVE touched' # "no"
    <3>1. CASE p = Alias /\ editor.gen = gen
      BY <2>1, <2>2, <3>1 DEF ControlEdit, Edit
    <3>2. CASE ~(p = Alias /\ editor.gen = gen)
      <4>1. view'[Alias] = Captured[Alias] /\ touched' = touched
        BY <2>2, <3>2, Captures, Patches DEF ControlEdit, Edit
      <4> QED  BY <2>1, <4>1, Captures
    <3> QED  BY <3>1, <3>2
  <2>3. ASSUME view' = Captured, touched' = touched PROVE touched' # "no"
    BY <2>1, <2>3, Captures
  <2>4. CASE ProcessBlock \/ Save
    BY <2>3, <2>4 DEF ProcessBlock, Block, Save
  <2>5. ~LoadRom /\ ~LoadPatch /\ ~Restore
    <3>1. gen + 1 # gen
      BY DEF PatchInv, TypeOK
    <3> QED  BY <2>1, <3>1 DEF LoadRom, LoadPatch, Restore, Invalidate
  <2>6. ~EndLoad
    BY <2>1 DEF EndLoad, PatchInv, Loading
  <2>7. ~Refresh /\ ~Notify
    BY <2>1 DEF Refresh, Notify, patch
  <2>8. (\A v \in Values : ~Automate(v)) /\ (\A v \in Versions \cup {None} : ~ChangeFile(v))
    BY <2>1 DEF Automate, ChangeFile, patch
  <2> QED  BY <2>2, <2>4, <2>5, <2>6, <2>7, <2>8 DEF Next
<1> QED  BY <1>1, PatchInvariant, PTL DEF Spec, LoadIsNoAutomation

(* A restore that loads a patch loads the values that were played when the *)
(* state was saved, from the differences alone (makeOverlayLocked,         *)
(* applyOverlayLocked), whatever became of the file.                       *)
THEOREM RestoreIsExact == Spec => RestoredAsSaved
<1>1. PatchInv /\ [Next]_vars =>
        [restoring # None /\ restoring' = None /\ loading' # None =>
           loading' = [hash |-> restoring.hash, values |-> restoring.values]]_vars
  <2> SUFFICES ASSUME PatchInv, Next, restoring # None, restoring' = None, loading' # None
               PROVE  loading' = [hash |-> restoring.hash, values |-> restoring.values]
    OBVIOUS
  <2>1. CASE Restore
    BY <2>1, RestoreLoads
  <2>2. CASE restoring' = restoring
    BY <2>2
  <2>3. \A p \in Params, v \in Values : ControlEdit(p, v) => restoring' = restoring
    BY DEF ControlEdit, Edit, session
  <2>4. (Refresh \/ Save \/ LoadRom \/ LoadPatch \/ EndLoad) => restoring' = restoring
    BY DEF Refresh, Save, LoadRom, LoadPatch, EndLoad, session
  <2>5. ProcessBlock => restoring' = restoring
    BY DEF ProcessBlock, Block, session
  <2>6. /\ \A v \in Values : Automate(v) => restoring' = restoring
        /\ \A v \in Versions \cup {None} : ChangeFile(v) => restoring' = restoring
    BY DEF Automate, ChangeFile, session
  <2>7. ~Notify
    BY DEF Notify
  <2> QED  BY <2>1, <2>2, <2>3, <2>4, <2>5, <2>6, <2>7 DEF Next
<1> QED  BY <1>1, PatchInvariant, PTL DEF Spec, RestoredAsSaved
=============================================================================
