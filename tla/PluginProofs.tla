---------------------------- MODULE PluginProofs ----------------------------
(***************************************************************************)
(* Proofs about the plug-in: the upload of a patch, for any number of      *)
(* requests, packets and uploads; and the pause, for any number of threads *)
(* and of operations: overlapping pauses end as one, and no block is       *)
(* processed while there is any.                                           *)
(***************************************************************************)
EXTENDS MCPluginGuard, FiniteSetTheorems, TLAPS

Owed ==
  /\ asked \in Nat /\ heard \in Nat /\ slips \in Nat
  /\ base \in Nat /\ last \in Nat /\ packets \in Lengths \cup {0}
  /\ heard <= asked /\ base <= asked /\ last <= base
  /\ packets = 0 => asked <= heard + slips
  /\ packets > 0 => asked <= heard + slips + 1 /\ base < asked /\ asked <= Upl!LastPacket

Slipped ==
  /\ pid = "old" => slips >= Inits + 2
  /\ current = "old" => slips >= Inits + 2

Prompt ==
  slips = 0 =>
    /\ ~failed /\ ~half
    /\ packets > 0 => heard = asked - 1 /\ (asked > Upl!FirstPacket => pid = "own")

UploadInv == Owed /\ Slipped /\ Prompt

USE DEF Upl!Greeting, Upl!FirstPacket, Upl!LastPacket, Upl!Pids, Upl!UploadAssumption

LEMMA BeginLoadStep ==
  ASSUME Upl!UploadAssumption, UploadInv, NEW n \in Lengths, Upl!BeginLoad(n)
  PROVE  UploadInv'
<1>1. PICK k \in heard .. asked, h \in BOOLEAN : Upl!Taken(k, h)
  BY DEF Upl!BeginLoad
<1>2. heard' = k /\ half' = h /\ (h => k < asked) /\ k \in Nat /\ k <= asked /\ heard <= k
  BY <1>1 DEF Upl!Taken, UploadInv, Owed
<1>3. Upl!Sent \in Nat /\ Upl!Sent <= asked
  BY DEF Upl!Sent, UploadInv, Owed
<1>4. Owed'
  BY <1>2, <1>3 DEF Upl!BeginLoad, UploadInv, Owed
<1>5. Slipped'
  BY DEF Upl!BeginLoad, UploadInv, Slipped
<1>6. ASSUME slips' = 0 PROVE ~failed' /\ ~half' /\ heard' = asked
  <2>1. slips = 0 /\ failed' = failed /\ packets = 0
    BY <1>6 DEF Upl!BeginLoad
  <2>2. heard = asked /\ k = asked
    BY <2>1, <1>2 DEF UploadInv, Owed
  <2>3. ~failed
    BY <2>1 DEF UploadInv, Prompt
  <2> QED BY <2>1, <2>2, <2>3, <1>2
<1>7. Prompt'
  <2>1. asked' = asked + 1 /\ base' = asked /\ asked \in Nat
    BY DEF Upl!BeginLoad, UploadInv, Owed
  <2>2. heard' = asked => heard' = asked' - 1
    BY <2>1
  <2>3. ~(asked' > Upl!FirstPacket')
    BY <2>1
  <2> QED BY <1>6, <2>2, <2>3 DEF Prompt
<1> QED BY <1>4, <1>5, <1>7 DEF UploadInv

(* What transact has taken, however it returned. *)
LEMMA ConfirmsStep ==
  ASSUME Upl!UploadAssumption, UploadInv, packets > 0,
         NEW n \in heard .. asked, NEW h \in BOOLEAN, Upl!Taken(n, h), Upl!Confirms(n)
  PROVE  /\ n \in Nat /\ heard' = n /\ half' = h /\ heard <= n /\ n <= asked
         /\ h => n < asked
         /\ pid' = "old" => slips >= Inits + 2
         /\ n >= Upl!FirstPacket /\ n > heard /\ ~half => pid' = "own"
<1>1. n \in Nat /\ heard' = n /\ half' = h /\ heard <= n /\ n <= asked /\ (h => n < asked)
  BY DEF Upl!Taken, UploadInv, Owed
<1>3. ASSUME pid' = "old" PROVE slips >= Inits + 2
  <2>1. CASE pid = "old"
    BY <2>1 DEF UploadInv, Slipped
  <2>2. CASE pid # "old"
    <3>1. asked >= Upl!FirstPacket /\ heard < last
      BY <2>2, <1>3 DEF Upl!Confirms, UploadInv, Owed
    <3>2. asked <= heard + slips + 1 /\ last <= base
      BY DEF UploadInv, Owed
    <3> QED BY <3>1, <3>2 DEF UploadInv, Owed
  <2> QED BY <2>1, <2>2
<1>4. n >= Upl!FirstPacket /\ n > heard /\ ~half => pid' = "own"
  <2> SUFFICES ASSUME n >= Upl!FirstPacket, n > heard, ~half PROVE pid' = "own"
    OBVIOUS
  <2>1. ~(asked < Upl!FirstPacket)
    BY <1>1 DEF UploadInv, Owed
  <2> QED BY <2>1 DEF Upl!Confirms
<1> QED BY <1>1, <1>3, <1>4

(* The next request or the end, whatever was taken. *)
LEMMA ProceedStep ==
  ASSUME Upl!UploadAssumption, UploadInv, packets > 0, Upl!Proceed,
         NEW n \in Nat, heard' = n, n <= asked,
         NEW s \in Nat, slips' = s, slips <= s, asked <= n + s,
         pid' = "old" => slips >= Inits + 2
  PROVE  Owed' /\ Slipped'
<1>1. CASE asked < Upl!LastPacket
  <2>1. /\ asked' = asked + 1
        /\ UNCHANGED <<base, packets, current, last, failed>>
    BY <1>1 DEF Upl!Proceed
  <2>2. Owed'
    BY <2>1, <1>1 DEF UploadInv, Owed
  <2>3. Slipped'
    BY <2>1 DEF UploadInv, Owed, Slipped
  <2> QED BY <2>2, <2>3
<1>2. CASE ~(asked < Upl!LastPacket) /\ pid' = "none"
  <2>1. Upl!Fail
    BY <1>2 DEF Upl!Proceed
  <2>2. Owed'
    BY <2>1 DEF Upl!Fail, UploadInv, Owed
  <2>3. Slipped'
    BY <2>1, <1>2 DEF Upl!Fail, UploadInv, Owed, Slipped
  <2> QED BY <2>2, <2>3
<1>3. CASE ~(asked < Upl!LastPacket) /\ pid' # "none"
  <2>1. packets' = 0 /\ current' = pid' /\ UNCHANGED <<asked, base, last, failed>>
    BY <1>3 DEF Upl!Proceed
  <2>2. Owed'
    BY <2>1 DEF UploadInv, Owed
  <2>3. Slipped'
    BY <2>1 DEF UploadInv, Owed, Slipped
  <2> QED BY <2>2, <2>3
<1> QED BY <1>1, <1>2, <1>3

LEMMA AnsweredStep ==
  ASSUME Upl!UploadAssumption, UploadInv, Upl!Answered
  PROVE  UploadInv'
<1>1. packets > 0 /\ Upl!Proceed /\ UNCHANGED strict
  BY DEF Upl!Answered
<1>2. PICK n \in heard .. asked, h \in BOOLEAN :
        /\ Upl!Taken(n, h) /\ Upl!Confirms(n)
        /\ slips' = IF n = heard THEN slips + 1 ELSE slips
  BY DEF Upl!Answered
<1>3. /\ n \in Nat /\ heard' = n /\ half' = h /\ heard <= n /\ n <= asked
      /\ h => n < asked
      /\ pid' = "old" => slips >= Inits + 2
      /\ n >= Upl!FirstPacket /\ n > heard /\ ~half => pid' = "own"
  BY <1>1, <1>2, ConfirmsStep
<1>4. slips' \in Nat /\ slips <= slips' /\ asked <= heard' + slips'
  BY <1>1, <1>2, <1>3 DEF UploadInv, Owed
<1>5. Owed' /\ Slipped'
  BY <1>1, <1>3, <1>4, ProceedStep
<1>6. ASSUME slips' = 0 PROVE ~failed' /\ ~half' /\ (packets' > 0 =>
                         heard' = asked' - 1 /\ (asked' > Upl!FirstPacket' => pid' = "own"))
  <2>1. slips = 0 /\ n > heard /\ heard = asked - 1 /\ n = asked
    BY <1>6, <1>1, <1>2, <1>3 DEF UploadInv, Owed, Prompt
  <2>2. ~failed /\ ~half /\ ~h
    BY <2>1, <1>3 DEF UploadInv, Prompt, Owed
  <2>3. asked >= Upl!FirstPacket => pid' = "own"
    BY <2>1, <2>2, <1>3
  <2>4. CASE asked < Upl!LastPacket
    <3>1. asked' = asked + 1 /\ base' = base /\ failed' = failed
      BY <2>4, <1>1 DEF Upl!Proceed
    <3>2. heard' = asked' - 1 /\ (asked' > Upl!FirstPacket' => asked >= Upl!FirstPacket)
      BY <3>1, <2>1, <1>3 DEF UploadInv, Owed
    <3> QED BY <3>1, <3>2, <2>2, <2>3, <1>3
  <2>5. CASE ~(asked < Upl!LastPacket)
    <3>1. asked >= Upl!FirstPacket
      BY <2>5, <1>1 DEF UploadInv, Owed
    <3>2. pid' # "none"
      BY <3>1, <2>3
    <3>3. packets' = 0 /\ failed' = failed
      BY <2>5, <3>2, <1>1 DEF Upl!Proceed
    <3> QED BY <3>3, <2>2, <1>3
  <2> QED BY <2>4, <2>5
<1>7. Prompt'
  BY <1>6 DEF Prompt
<1> QED BY <1>5, <1>7 DEF UploadInv

(* A slip ends what Prompt says. *)
LEMMA CutShortStep ==
  ASSUME Upl!UploadAssumption, UploadInv, Upl!CutShort
  PROVE  UploadInv'
<1>1. packets > 0 /\ Upl!Proceed /\ UNCHANGED strict /\ slips' = slips + 1
  BY DEF Upl!CutShort
<1>2. PICK n \in heard .. asked : Upl!Taken(n, TRUE) /\ Upl!Confirms(n)
  BY DEF Upl!CutShort
<1>3. /\ n \in Nat /\ heard' = n /\ half' = TRUE /\ heard <= n /\ n <= asked
      /\ pid' = "old" => slips >= Inits + 2
  BY <1>1, <1>2, ConfirmsStep
<1>4. slips' \in Nat /\ slips <= slips' /\ asked <= heard' + slips' /\ slips' # 0
  BY <1>1, <1>3 DEF UploadInv, Owed
<1>5. Owed' /\ Slipped'
  BY <1>1, <1>3, <1>4, ProceedStep
<1> QED BY <1>4, <1>5 DEF UploadInv, Prompt

LEMMA SilenceStep ==
  ASSUME Upl!UploadAssumption, UploadInv, Upl!Silence
  PROVE  UploadInv'
<1>1. /\ packets > 0 /\ slips' = slips + 1 /\ pid' = pid
      /\ UNCHANGED <<strict, heard, half>>
  BY DEF Upl!Silence
<1>2. /\ slips' # 0 /\ slips' \in Nat /\ slips <= slips' /\ asked <= heard' + slips'
      /\ heard' \in Nat /\ heard <= heard' /\ heard' <= asked
  BY <1>1 DEF UploadInv, Owed
<1>3. pid' = "old" => slips >= Inits + 2
  BY <1>1 DEF UploadInv, Owed, Slipped
<1>4. CASE Upl!Needed
  <2>1. Upl!Fail
    BY <1>4 DEF Upl!Silence
  <2>2. Owed'
    BY <1>1, <2>1 DEF Upl!Fail, UploadInv, Owed
  <2>3. Slipped'
    BY <1>1, <2>1 DEF Upl!Fail, UploadInv, Owed, Slipped
  <2> QED BY <1>2, <2>2, <2>3 DEF UploadInv, Prompt
<1>5. CASE ~Upl!Needed
  <2>1. Upl!Proceed
    BY <1>5 DEF Upl!Silence
  <2>2. Owed' /\ Slipped'
    BY <1>1, <1>2, <1>3, <2>1, ProceedStep
  <2> QED BY <1>2, <2>2 DEF UploadInv, Prompt
<1> QED BY <1>4, <1>5

LEMMA UploadInductive == ASSUME Upl!UploadAssumption PROVE Upl!Spec => []UploadInv
<1>1. Upl!Init => UploadInv
  <2> SUFFICES ASSUME Upl!Init PROVE UploadInv
    OBVIOUS
  <2>1. Owed
    BY DEF Upl!Init, Owed
  <2>2. Slipped /\ Prompt
    BY DEF Upl!Init, Slipped, Prompt
  <2> QED BY <2>1, <2>2 DEF UploadInv
<1>2. UploadInv /\ [Upl!Next]_Upl!vars => UploadInv'
  <2> SUFFICES ASSUME UploadInv, [Upl!Next]_Upl!vars PROVE UploadInv'
    OBVIOUS
  <2>1. ASSUME NEW n \in Lengths, Upl!BeginLoad(n) PROVE UploadInv'
    BY <2>1, BeginLoadStep
  <2>2. CASE Upl!Answered
    BY <2>2, AnsweredStep
  <2>3. CASE Upl!CutShort
    BY <2>3, CutShortStep
  <2>4. CASE Upl!Silence
    BY <2>4, SilenceStep
  <2>5. CASE Upl!Reset
    <3>1. Owed'
      BY <2>5 DEF Upl!Reset, UploadInv, Owed
    <3>2. Slipped' /\ Prompt'
      BY <2>5 DEF Upl!Reset, UploadInv, Slipped, Prompt
    <3> QED BY <3>1, <3>2 DEF UploadInv
  <2>6. CASE UNCHANGED Upl!vars
    BY <2>6 DEF Upl!vars, Upl!port, Upl!upload, UploadInv, Owed, Slipped, Prompt
  <2> QED BY <2>1, <2>2, <2>3, <2>4, <2>5, <2>6 DEF Upl!Next
<1> QED BY <1>1, <1>2, PTL DEF Upl!Spec

(* A PID that edits are sent with is that of the upload just confirmed,    *)
(* unless transact has gone without an answer as often as there are        *)
(* requests between the packets of two uploads.                            *)
THEOREM PidIsOwn ==
  ASSUME Upl!UploadAssumption
  PROVE  Upl!Spec => []OwnPid
<1>1. UploadInv => OwnPid
  BY DEF UploadInv, Owed, Slipped, OwnPid, Upl!OwnPid
<1> QED BY <1>1, UploadInductive, PTL

(* With every answer in time, no upload fails, however long the patch. *)
THEOREM PromptUploadsSucceed ==
  ASSUME Upl!UploadAssumption
  PROVE  Upl!Spec => []Upl!PromptLoads
<1>1. UploadInv => Upl!PromptLoads
  BY DEF UploadInv, Prompt, Upl!PromptLoads
<1> QED BY <1>1, UploadInductive, PTL

-----------------------------------------------------------------------------
USE GuardAssumption DEF GuardAssumption

(* The threads that are inside a ProcessingPause. *)
Paused == {t \in Threads : pc[t] \in InPause}

(* While a pause lasts processing is suspended, and what it was before is  *)
(* remembered; an audio callback that has begun holds the callback lock,   *)
(* so that no pause can begin under it.                                    *)
PauseInv ==
  /\ TypeOK
  /\ pc[Audio] \in AudioStates
  /\ pc[Audio] # "idle" => callbackLock = Audio
  /\ depth = 0 => suspended = host
  /\ depth > 0 => suspended /\ was = host
  /\ pc[Audio] \in {"want", "work"} => depth = 0

LEMMA InitPause == Init => PauseInv
<1> SUFFICES ASSUME Init PROVE PauseInv
  OBVIOUS
<1>1. Paused = {}
  BY DEF Init, Paused, InPause
<1>2. depth = Cardinality({t \in Threads : pc[t] \in InPause})
  BY <1>1, FS_EmptySet DEF Init, Paused
<1>3. pc \in [Threads \cup {Audio} -> ThreadStates \cup AudioStates] /\ pc[Audio] = "idle"
  BY DEF Init, ThreadStates, AudioStates
<1>4. TypeOK
  <2>1. ops \in [Threads -> 0 .. MaxOps]
    BY DEF Init
  <2>2. suspended \in BOOLEAN /\ was \in BOOLEAN /\ host \in BOOLEAN
    BY DEF Init
  <2>3. callbackLock \in {Audio, Nobody} /\ machineMutex \in Threads \cup {Audio, Nobody}
    BY DEF Init
  <2> QED
    BY <2>1, <2>2, <2>3, <1>2, <1>3 DEF TypeOK
<1>5. depth = 0 /\ ~(depth > 0)
  BY DEF Init
<1>6. suspended = host
  BY DEF Init
<1> QED
  BY <1>3, <1>4, <1>5, <1>6 DEF PauseInv, AudioStates

(* The number of pauses, as a thread enters one, leaves one, or does       *)
(* neither.                                                                *)
LEMMA PausedFinite ==
  /\ IsFiniteSet(Paused) /\ Cardinality(Paused) \in Nat
  /\ Cardinality(Paused) = 0 => Paused = {}
BY FS_Subset, FS_CardinalityType, FS_EmptySet DEF Paused

LEMMA EnterCounts ==
  ASSUME TypeOK, NEW t \in Threads, pc[t] \notin InPause,
         NEW to \in InPause, pc' = [pc EXCEPT ![t] = to]
  PROVE  Cardinality(Paused') = Cardinality(Paused) + 1
<1>1. Paused' = Paused \cup {t} /\ t \notin Paused
  BY DEF Paused, TypeOK
<1> QED  BY <1>1, PausedFinite, FS_AddElement

LEMMA ExitCounts ==
  ASSUME TypeOK, NEW t \in Threads, pc[t] \in InPause,
         NEW to, to \notin InPause, pc' = [pc EXCEPT ![t] = to]
  PROVE  Cardinality(Paused') = Cardinality(Paused) - 1
<1>1. Paused' = Paused \ {t} /\ t \in Paused
  BY DEF Paused, TypeOK
<1> QED  BY <1>1, PausedFinite, FS_RemoveElement

LEMMA StayCounts ==
  ASSUME TypeOK, NEW t \in Threads \cup {Audio}, NEW to,
         t \in Threads => (pc[t] \in InPause <=> to \in InPause),
         pc' = [pc EXCEPT ![t] = to]
  PROVE  Paused' = Paused
BY DEF Paused, TypeOK

-----------------------------------------------------------------------------
(* A step of the audio thread; it is the only one to hold the callback     *)
(* lock, and begins a block only where nothing is suspended.               *)
LEMMA AudioStepPause ==
  ASSUME PauseInv, AudioStep
  PROVE  PauseInv'
<1>1. PICK to \in AudioStates : pc' = [pc EXCEPT ![Audio] = to]
  BY DEF AudioStep, EnterCallback, LockForBlock, EndBlock, LeaveCallback, Goto, AudioStates
<1>2. Paused' = Paused /\ depth' = depth /\ UNCHANGED <<ops, pause, host>>
  BY <1>1, StayCounts DEF PauseInv, AudioStep, EnterCallback, LockForBlock, EndBlock,
     LeaveCallback, pause
<1>3. TypeOK'
  <2>1. pc' \in [Threads \cup {Audio} -> ThreadStates \cup AudioStates]
    BY <1>1 DEF PauseInv, TypeOK
  <2>2. callbackLock' \in {Audio, Nobody} /\ machineMutex' \in Threads \cup {Audio, Nobody}
    BY DEF PauseInv, TypeOK, AudioStep, EnterCallback, LockForBlock, EndBlock, LeaveCallback
  <2> QED
    BY <1>2, <2>1, <2>2 DEF PauseInv, TypeOK, Paused, pause
<1>4. pc'[Audio] = to
  BY <1>1 DEF PauseInv, TypeOK
<1>5. CASE EnterCallback
  BY <1>1, <1>2, <1>3, <1>4, <1>5, PausedFinite
     DEF EnterCallback, Goto, PauseInv, TypeOK, Paused, pause, AudioStates
<1>6. CASE LockForBlock \/ EndBlock
  BY <1>1, <1>2, <1>3, <1>4, <1>6 DEF LockForBlock, EndBlock, Goto, PauseInv, TypeOK, pause
<1>7. CASE LeaveCallback
  BY <1>1, <1>2, <1>3, <1>4, <1>7 DEF LeaveCallback, Goto, PauseInv, TypeOK, pause
<1> QED  BY <1>5, <1>6, <1>7 DEF AudioStep

(* The first pause saves what it finds; no callback can be under way.      *)
LEMMA EnterPausePause ==
  ASSUME PauseInv, NEW t \in Threads, EnterPause(t)
  PROVE  PauseInv'
<1>1. PICK to \in {"notify", "want"} : pc[t] = "enter" /\ pc' = [pc EXCEPT ![t] = to]
  BY DEF EnterPause, Goto
<1>2. Cardinality(Paused') = Cardinality(Paused) + 1
  BY <1>1, EnterCounts DEF PauseInv, InPause
<1>3. depth \in Nat /\ depth' = depth + 1 /\ depth = Cardinality(Paused)
  BY PausedFinite DEF PauseInv, TypeOK, Paused, EnterPause
<1>4. pc'[Audio] = pc[Audio] /\ pc[Audio] = "idle"
  BY <1>1 DEF PauseInv, TypeOK, EnterPause
<1>5. suspended' /\ was' = host
  BY <1>3 DEF EnterPause, PauseInv, TypeOK
<1>6. TypeOK'
  <2>1. pc' \in [Threads \cup {Audio} -> ThreadStates \cup AudioStates]
    BY <1>1 DEF PauseInv, TypeOK, ThreadStates, InPause
  <2>2. depth' = Cardinality({x \in Threads : pc[x] \in InPause})'
    BY <1>2, <1>3 DEF Paused
  <2>3. suspended' \in BOOLEAN /\ was' \in BOOLEAN
    BY DEF EnterPause, PauseInv, TypeOK
  <2> QED
    BY <2>1, <2>2, <2>3 DEF EnterPause, PauseInv, TypeOK, locks
<1>7. depth' > 0 /\ depth' # 0 /\ host' = host
  BY <1>3 DEF EnterPause
<1> QED
  BY <1>4, <1>5, <1>6, <1>7 DEF PauseInv, AudioStates

(* The last pause to end restores what the first has found. *)
LEMMA ExitPausePause ==
  ASSUME PauseInv, NEW t \in Threads, ExitPause(t)
  PROVE  PauseInv'
<1>1. pc[t] = "exit" /\ pc' = [pc EXCEPT ![t] = "idle"]
  BY DEF ExitPause, Goto
<1>2. Cardinality(Paused') = Cardinality(Paused) - 1
  BY <1>1, ExitCounts DEF PauseInv, InPause
<1>3. depth \in Nat /\ depth' = depth - 1 /\ depth = Cardinality(Paused) /\ depth > 0
  <2>1. t \in Paused
    BY <1>1 DEF Paused, InPause
  <2> QED
    BY <2>1, PausedFinite DEF PauseInv, TypeOK, Paused, ExitPause
<1>4. pc'[Audio] = pc[Audio] /\ pc[Audio] = "idle"
  BY <1>1 DEF PauseInv, TypeOK, ExitPause
<1>5. TypeOK'
  <2>1. pc' \in [Threads \cup {Audio} -> ThreadStates \cup AudioStates]
    BY <1>1 DEF PauseInv, TypeOK, ThreadStates, InPause
  <2>2. depth' = Cardinality({x \in Threads : pc[x] \in InPause})'
    BY <1>2, <1>3 DEF Paused
  <2>3. suspended' \in BOOLEAN /\ was' \in BOOLEAN
    BY DEF ExitPause, PauseInv, TypeOK
  <2> QED
    BY <2>1, <2>2, <2>3 DEF ExitPause, PauseInv, TypeOK, locks
<1>6. CASE depth = 1
  BY <1>3, <1>4, <1>5, <1>6 DEF ExitPause, PauseInv, locks
<1>7. CASE depth # 1
  <2>1. depth' > 0 /\ depth' # 0 /\ suspended' = suspended /\ was' = was /\ host' = host
    BY <1>3, <1>7 DEF ExitPause
  <2>2. suspended' /\ was' = host'
    BY <2>1, <1>3 DEF PauseInv
  <2> QED
    BY <2>1, <2>2, <1>4, <1>5 DEF PauseInv, AudioStates
<1> QED  BY <1>6, <1>7

(* What else a thread does neither begins nor ends a pause. *)
LEMMA OtherPause ==
  ASSUME PauseInv, NEW t \in Threads,
         BeginLong(t) \/ BeginShort(t) \/ Notify(t) \/ Lock(t) \/ Unlock(t)
  PROVE  PauseInv'
<1>1. PICK to \in ThreadStates :
        /\ pc' = [pc EXCEPT ![t] = to]
        /\ pc[t] \in InPause <=> to \in InPause
  BY DEF BeginLong, BeginShort, Notify, Lock, Unlock, Goto, ThreadStates, InPause
<1>2. Paused' = Paused
  BY <1>1, StayCounts DEF PauseInv
<1>3. UNCHANGED <<callbackLock, suspended, depth, was, host>>
  BY DEF BeginLong, BeginShort, Notify, Lock, Unlock, locks, pause
<1>4. pc'[Audio] = pc[Audio]
  BY <1>1 DEF PauseInv, TypeOK
<1>5. TypeOK'
  <2>1. pc' \in [Threads \cup {Audio} -> ThreadStates \cup AudioStates]
    BY <1>1 DEF PauseInv, TypeOK
  <2>2. ops' \in [Threads -> 0 .. MaxOps]
    BY DEF PauseInv, TypeOK, BeginLong, BeginShort, Notify, Lock, Unlock
  <2>3. machineMutex' \in Threads \cup {Audio, Nobody}
    BY DEF PauseInv, TypeOK, BeginLong, BeginShort, Notify, Lock, Unlock, locks
  <2> QED
    BY <1>2, <1>3, <2>1, <2>2, <2>3 DEF PauseInv, TypeOK, Paused
<1> QED  BY <1>3, <1>4, <1>5 DEF PauseInv

(* Every state satisfies the invariant. *)
THEOREM PauseInvariant == Spec => []PauseInv
<1>1. PauseInv /\ [Next]_vars => PauseInv'
  <2> SUFFICES ASSUME PauseInv, [Next]_vars PROVE PauseInv'
    OBVIOUS
  <2>1. CASE AudioStep
    BY <2>1, AudioStepPause
  <2>2. ASSUME NEW t \in Threads, BeginLong(t) \/ BeginShort(t) \/ Continue(t)
        PROVE  PauseInv'
    BY <2>2, EnterPausePause, ExitPausePause, OtherPause DEF Continue
  <2>3. CASE UNCHANGED vars
    BY <2>3 DEF vars, PauseInv, TypeOK
  <2> QED  BY <2>1, <2>2, <2>3 DEF Next
<1> QED  BY <1>1, InitPause, PTL DEF Spec

(* The types, and the count of the pauses, of ProcessingPause. *)
THEOREM GuardTypeCorrect == Spec => []TypeOK
<1>1. PauseInv => TypeOK
  BY DEF PauseInv
<1> QED  BY <1>1, PauseInvariant, PTL

(* However many loads, restores and panics overlap, and in whatever order  *)
(* they end, ~ProcessingPause leaves processing as the host had it.        *)
THEOREM SuspensionIsRestored == Spec => []SuspensionRestored
<1>1. PauseInv => SuspensionRestored
  BY DEF PauseInv, SuspensionRestored
<1> QED  BY <1>1, PauseInvariant, PTL

(* processBlock is never inside the machine, or waiting for it, while any  *)
(* thread has a ProcessingPause.                                           *)
THEOREM PauseExcludesBlocks == Spec => []NoBlockInPause
<1>1. PauseInv => NoBlockInPause
  BY PausedFinite DEF PauseInv, NoBlockInPause, TypeOK, Paused
<1> QED  BY <1>1, PauseInvariant, PTL
=============================================================================
