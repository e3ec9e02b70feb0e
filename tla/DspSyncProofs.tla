--------------------------- MODULE DspSyncProofs ---------------------------
(***************************************************************************)
(* Proofs about DspSync, for any number of workers, any spin limit and any *)
(* bound: its invariants, and that it implements DspBarrier.               *)
(***************************************************************************)
EXTENDS DspSync, FiniteSetTheorems, TLAPS

(* The CPU has published a round and has not yet seen it complete. *)
RoundPc == {"look", "lock", "notify", "run0", "wait"}

(* A worker that has not yet decremented m_pending for the current round. *)
Owes(w) == seen[w] # gen \/ wpc[w] \in {"read", "run", "sub"}

Debtors == {w \in Workers : Owes(w)}

(* The workers m_sleepers counts. *)
Asleep == {w \in Workers : wpc[w] \in {"wgen", "wquit", "blocked", "relock", "dec"}}

QuitPc == {"quitLock", "quitNotify", "join", "gone"}

(* Who is running what.  The heart of it: m_pending counts the debtors, and *)
(* there is no debtor outside the stretch from the publication of the       *)
(* generation to the end of the wait.                                       *)
RoundInv ==
  /\ cpu \in {"publish", "count", "bump"} => gen < MaxRounds
  /\ quit <=> cpu \in QuitPc
  /\ cpu \in RoundPc \cup {"count", "bump"} => threaded /\ target = clock
  /\ ~threaded => \A w \in Workers : wpc[w] = "done"
  /\ cpu \notin RoundPc => \A w \in Workers : ~Owes(w)
  /\ \A w \in Workers :
       /\ wpc[w] \in {"read", "run", "sub"} => seen[w] = gen
       /\ wpc[w] = "seen" => seen[w] # gen
       /\ wpc[w] = "exit" => seen[w] # gen \/ quit
       /\ wpc[w] = "run" => arg[w] = clock

(* What each DSP was run to. *)
RanInv ==
  /\ cpu \in {"wait", "flush", "host"} => ran[Main] = clock
  /\ cpu \in {"flush", "host"} => \A w \in Workers : ran[w] = clock
  /\ cpu \in RoundPc =>
       \A w \in Workers :
         seen[w] = gen /\ wpc[w] \notin {"read", "run"} => ran[w] = clock

(* The mutex protects the stretch between a worker's decision to sleep and *)
(* its wait, and the CPU's notification.                                   *)
MutexInv ==
  /\ mutex = Main <=> cpu \in {"notify", "quitNotify"}
  /\ \A w \in Workers : mutex = w <=> wpc[w] \in {"inc", "wgen", "wquit", "dec"}

(* A worker that decides to sleep on an old generation does so before the  *)
(* CPU counts the sleepers or before it gets the mutex.                    *)
WakeInv ==
  /\ \A w \in Workers :
       wpc[w] = "wquit" /\ seen[w] # gen => cpu \in {"look", "lock"}
  /\ NoLostWakeup

(* The counters. *)
CountInv ==
  /\ pending = IF cpu = "bump" THEN Cardinality(Workers) ELSE Cardinality(Debtors)
  /\ sleepers = Cardinality(Asleep)

IndInv == TypeOK /\ RoundInv /\ RanInv /\ MutexInv /\ WakeInv /\ CountInv

-----------------------------------------------------------------------------
(* The two counters count subsets of the finite set of workers. *)
LEMMA SubsetsBounded ==
  ASSUME NEW S \in SUBSET Workers
  PROVE  /\ IsFiniteSet(S) /\ Cardinality(S) \in 0 .. Cardinality(Workers)
         /\ Cardinality(Workers) \in Nat
  BY SyncAssumption, FS_Subset, FS_CardinalityType

(* What the two counters may count lies between zero and all the workers. *)
LEMMA CountsBounded ==
  /\ IsFiniteSet(Debtors) /\ Cardinality(Debtors) \in 0 .. Cardinality(Workers)
  /\ IsFiniteSet(Asleep) /\ Cardinality(Asleep) \in 0 .. Cardinality(Workers)
  /\ Cardinality(Workers) \in Nat
<1>1. Debtors \in SUBSET Workers /\ Asleep \in SUBSET Workers
  BY DEF Debtors, Asleep
<1>2. QED
  BY <1>1, SubsetsBounded

(* A counter at zero counts nobody: the only way in which the CPU, which   *)
(* sees counters, learns something about the workers.                      *)
LEMMA CountersSeeAll ==
  ASSUME CountInv
  PROVE  /\ pending = 0 /\ cpu # "bump" => \A w \in Workers : ~Owes(w)
         /\ ~(sleepers > 0) => Asleep = {}
<1>1. Cardinality(Debtors) = 0 => Debtors = {}
  BY CountsBounded, FS_EmptySet
<1>2. ~(Cardinality(Asleep) > 0) => Asleep = {}
  BY CountsBounded, FS_EmptySet
<1>3. QED
  BY <1>1, <1>2 DEF CountInv, Debtors

(* Every step preserves what the invariant says of the threads, given what *)
(* it says of the counters.                                                *)
LEMMA ThreadsStep ==
  ASSUME TypeOK, RoundInv, RanInv, MutexInv, WakeInv, CountInv, [Next]_vars
  PROVE  RoundInv' /\ RanInv' /\ MutexInv' /\ WakeInv'
<1>. USE SyncAssumption DEF TypeOK, RoundInv, RanInv, MutexInv, WakeInv,
       NoLostWakeup, Owes, RoundPc, QuitPc, cpuVars, workerVars, Dsps
<1>1. CASE Publish
  BY <1>1 DEF Publish, CpuGoto
<1>2. CASE RunSerially
  BY <1>2 DEF RunSerially, CpuGoto
<1>3. CASE StorePending
  BY <1>3 DEF StorePending, CpuGoto
<1>4. CASE BumpGeneration
  BY <1>4 DEF BumpGeneration, CpuGoto
<1>5. CASE CheckSleepers
  BY <1>5, CountersSeeAll DEF CheckSleepers, Asleep
<1>6. CASE NotifyAll
  BY <1>6 DEF NotifyAll, CpuGoto
<1>7. CASE RunMain
  BY <1>7 DEF RunMain, CpuGoto
<1>8. CASE AwaitPending
  BY <1>8, CountersSeeAll DEF AwaitPending, CpuGoto
<1>9. CASE Flush
  BY <1>9 DEF Flush, CpuGoto
<1>10. CASE AccessHostPort
  BY <1>10 DEF AccessHostPort, CpuGoto
<1>11. CASE JoinWorkers
  BY <1>11 DEF JoinWorkers, CpuGoto
<1>12. CASE Execute
  BY <1>12 DEF Execute, CpuGoto
<1>13. CASE Destroy
  BY <1>13 DEF Destroy, CpuGoto
<1>14. CASE LockToNotify
  BY <1>14 DEF LockToNotify, CpuGoto
<1>15. ASSUME NEW port \in Dsps \cup {NoOne}, CallCatchUp(port)
      PROVE  RoundInv' /\ RanInv' /\ MutexInv' /\ WakeInv'
  BY <1>15 DEF CallCatchUp, CpuGoto
<1>16. ASSUME NEW w \in Workers, TestGeneration(w)
      PROVE  RoundInv' /\ RanInv' /\ MutexInv' /\ WakeInv'
  BY <1>16 DEF TestGeneration, WorkerGoto
<1>17. ASSUME NEW w \in Workers, TestQuit(w)
      PROVE  RoundInv' /\ RanInv' /\ MutexInv' /\ WakeInv'
  BY <1>17 DEF TestQuit, WorkerGoto
<1>18. ASSUME NEW w \in Workers, IncSleepers(w)
      PROVE  RoundInv' /\ RanInv' /\ MutexInv' /\ WakeInv'
  BY <1>18 DEF IncSleepers, WorkerGoto
<1>19. ASSUME NEW w \in Workers, WaitTestGeneration(w)
      PROVE  RoundInv' /\ RanInv' /\ MutexInv' /\ WakeInv'
  BY <1>19 DEF WaitTestGeneration, WorkerGoto
<1>20. ASSUME NEW w \in Workers, WaitTestQuit(w)
      PROVE  RoundInv' /\ RanInv' /\ MutexInv' /\ WakeInv'
  BY <1>20 DEF WaitTestQuit, WorkerGoto
<1>21. ASSUME NEW w \in Workers, DecSleepers(w)
      PROVE  RoundInv' /\ RanInv' /\ MutexInv' /\ WakeInv'
  BY <1>21 DEF DecSleepers, WorkerGoto
<1>22. ASSUME NEW w \in Workers, LeaveIfQuit(w)
      PROVE  RoundInv' /\ RanInv' /\ MutexInv' /\ WakeInv'
  BY <1>22 DEF LeaveIfQuit, WorkerGoto
<1>23. ASSUME NEW w \in Workers, TakeGeneration(w)
      PROVE  RoundInv' /\ RanInv' /\ MutexInv' /\ WakeInv'
  BY <1>23 DEF TakeGeneration, WorkerGoto
<1>24. ASSUME NEW w \in Workers, ReadTarget(w)
      PROVE  RoundInv' /\ RanInv' /\ MutexInv' /\ WakeInv'
  BY <1>24 DEF ReadTarget, WorkerGoto
<1>25. ASSUME NEW w \in Workers, RunDsp(w)
      PROVE  RoundInv' /\ RanInv' /\ MutexInv' /\ WakeInv'
  BY <1>25 DEF RunDsp, WorkerGoto
<1>26. ASSUME NEW w \in Workers, SubPending(w)
      PROVE  RoundInv' /\ RanInv' /\ MutexInv' /\ WakeInv'
  BY <1>26 DEF SubPending, WorkerGoto
<1>27. ASSUME NEW w \in Workers, LockToSleep(w)
      PROVE  RoundInv' /\ RanInv' /\ MutexInv' /\ WakeInv'
  BY <1>27 DEF LockToSleep, WorkerGoto
<1>28. ASSUME NEW w \in Workers, SpuriousWake(w)
      PROVE  RoundInv' /\ RanInv' /\ MutexInv' /\ WakeInv'
  BY <1>28 DEF SpuriousWake, WorkerGoto
<1>29. CASE UNCHANGED vars
  BY <1>29 DEF vars
<1>30. QED
  BY <1>1, <1>2, <1>3, <1>4, <1>5, <1>6, <1>7, <1>8,
     <1>9, <1>10, <1>11, <1>12, <1>13, <1>14, <1>15, <1>16,
     <1>17, <1>18, <1>19, <1>20, <1>21, <1>22, <1>23, <1>24,
     <1>25, <1>26, <1>27, <1>28, <1>29
     DEF Next, CpuStep, CpuChoice, WorkerStep, Gone

(* Every step keeps the counters equal to what they count. *)
LEMMA CountStep ==
  ASSUME TypeOK, RoundInv, MutexInv, CountInv, [Next]_vars
  PROVE  CountInv'
<1>. USE DEF TypeOK, RoundInv, CountInv, Owes, RoundPc,
       cpuVars, workerVars, WorkerPc
<1>1. CASE Publish
  BY <1>1 DEF Publish, CpuGoto, Debtors, Asleep
<1>2. CASE RunSerially
  BY <1>2 DEF RunSerially, CpuGoto, Debtors, Asleep
<1>3. CASE StorePending
  BY <1>3 DEF StorePending, CpuGoto, Debtors, Asleep
<1>4. CASE BumpGeneration
  BY <1>4 DEF BumpGeneration, CpuGoto, Debtors, Asleep
<1>5. CASE CheckSleepers
  BY <1>5 DEF CheckSleepers, CpuGoto, Debtors, Asleep
<1>6. CASE NotifyAll
  BY <1>6 DEF NotifyAll, CpuGoto, Debtors, Asleep
<1>7. CASE RunMain
  BY <1>7 DEF RunMain, CpuGoto, Debtors, Asleep
<1>8. CASE AwaitPending
  BY <1>8 DEF AwaitPending, CpuGoto, Debtors, Asleep
<1>9. CASE Flush
  BY <1>9 DEF Flush, CpuGoto, Debtors, Asleep
<1>10. CASE AccessHostPort
  BY <1>10 DEF AccessHostPort, CpuGoto, Debtors, Asleep
<1>11. CASE JoinWorkers
  BY <1>11 DEF JoinWorkers, CpuGoto, Debtors, Asleep
<1>12. CASE Execute
  BY <1>12 DEF Execute, CpuGoto, Debtors, Asleep
<1>13. CASE Destroy
  BY <1>13 DEF Destroy, CpuGoto, Debtors, Asleep
<1>14. CASE LockToNotify
  BY <1>14 DEF LockToNotify, CpuGoto, Debtors, Asleep
<1>15. ASSUME NEW port \in Dsps \cup {NoOne}, CallCatchUp(port)
      PROVE  CountInv'
  BY <1>15 DEF CallCatchUp, CpuGoto, Debtors, Asleep
<1>16. ASSUME NEW w \in Workers, TestGeneration(w)
      PROVE  CountInv'
  BY <1>16 DEF TestGeneration, WorkerGoto, Debtors, Asleep
<1>17. ASSUME NEW w \in Workers, TestQuit(w)
      PROVE  CountInv'
  BY <1>17 DEF TestQuit, WorkerGoto, Debtors, Asleep
<1>18. ASSUME NEW w \in Workers, IncSleepers(w)
      PROVE  CountInv'
  <2>1. w \notin Asleep /\ Asleep' = Asleep \cup {w} /\ Debtors' = Debtors
    BY <1>18 DEF IncSleepers, WorkerGoto, Debtors, Asleep
  <2>2. Cardinality(Asleep') = Cardinality(Asleep) + 1
    BY <2>1, CountsBounded, FS_AddElement
  <2>3. QED
    BY <1>18, <2>1, <2>2 DEF IncSleepers
<1>19. ASSUME NEW w \in Workers, WaitTestGeneration(w)
      PROVE  CountInv'
  BY <1>19 DEF WaitTestGeneration, WorkerGoto, Debtors, Asleep
<1>20. ASSUME NEW w \in Workers, WaitTestQuit(w)
      PROVE  CountInv'
  BY <1>20 DEF WaitTestQuit, WorkerGoto, Debtors, Asleep
<1>21. ASSUME NEW w \in Workers, DecSleepers(w)
      PROVE  CountInv'
  <2>1. w \in Asleep /\ Asleep' = Asleep \ {w} /\ Debtors' = Debtors
    BY <1>21 DEF DecSleepers, WorkerGoto, Debtors, Asleep
  <2>2. Cardinality(Asleep') = Cardinality(Asleep) - 1
    BY <2>1, CountsBounded, FS_RemoveElement
  <2>3. QED
    BY <1>21, <2>1, <2>2 DEF DecSleepers
<1>22. ASSUME NEW w \in Workers, LeaveIfQuit(w)
      PROVE  CountInv'
  BY <1>22 DEF LeaveIfQuit, WorkerGoto, Debtors, Asleep
<1>23. ASSUME NEW w \in Workers, TakeGeneration(w)
      PROVE  CountInv'
  BY <1>23 DEF TakeGeneration, WorkerGoto, Debtors, Asleep
<1>24. ASSUME NEW w \in Workers, ReadTarget(w)
      PROVE  CountInv'
  BY <1>24 DEF ReadTarget, WorkerGoto, Debtors, Asleep
<1>25. ASSUME NEW w \in Workers, RunDsp(w)
      PROVE  CountInv'
  BY <1>25 DEF RunDsp, WorkerGoto, Debtors, Asleep
<1>26. ASSUME NEW w \in Workers, SubPending(w)
      PROVE  CountInv'
  <2>1. w \in Debtors /\ Debtors' = Debtors \ {w} /\ Asleep' = Asleep
    BY <1>26 DEF SubPending, WorkerGoto, Debtors, Asleep
  <2>2. Cardinality(Debtors') = Cardinality(Debtors) - 1
    BY <2>1, CountsBounded, FS_RemoveElement
  <2>3. cpu # "bump"
    BY <1>26 DEF SubPending, WorkerGoto, Debtors, Asleep
  <2>4. QED
    BY <1>26, <2>1, <2>2, <2>3 DEF SubPending
<1>27. ASSUME NEW w \in Workers, LockToSleep(w)
      PROVE  CountInv'
  BY <1>27 DEF LockToSleep, WorkerGoto, Debtors, Asleep
<1>28. ASSUME NEW w \in Workers, SpuriousWake(w)
      PROVE  CountInv'
  BY <1>28 DEF SpuriousWake, WorkerGoto, Debtors, Asleep
<1>29. CASE UNCHANGED vars
  BY <1>29 DEF vars, Debtors, Asleep
<1>30. QED
  BY <1>1, <1>2, <1>3, <1>4, <1>5, <1>6, <1>7, <1>8,
     <1>9, <1>10, <1>11, <1>12, <1>13, <1>14, <1>15, <1>16,
     <1>17, <1>18, <1>19, <1>20, <1>21, <1>22, <1>23, <1>24,
     <1>25, <1>26, <1>27, <1>28, <1>29
     DEF Next, CpuStep, CpuChoice, WorkerStep, Gone

(* Every step preserves the type invariant. *)
LEMMA TypeStep ==
  ASSUME TypeOK, RoundInv, CountInv, CountInv', [Next]_vars
  PROVE  TypeOK'
<1>. USE SyncAssumption, CountsBounded DEF TypeOK, RoundInv, cpuVars, workerVars,
       CpuPc, WorkerPc, Dsps
<1>1. CASE Publish
  BY <1>1 DEF Publish, CpuGoto
<1>2. CASE RunSerially
  BY <1>2 DEF RunSerially, CpuGoto
<1>3. CASE StorePending
  BY <1>3 DEF StorePending, CpuGoto
<1>4. CASE BumpGeneration
  BY <1>4 DEF BumpGeneration, CpuGoto
<1>5. CASE CheckSleepers
  BY <1>5 DEF CheckSleepers, CpuGoto
<1>6. CASE NotifyAll
  BY <1>6 DEF NotifyAll, CpuGoto
<1>7. CASE RunMain
  BY <1>7 DEF RunMain, CpuGoto
<1>8. CASE AwaitPending
  BY <1>8 DEF AwaitPending, CpuGoto
<1>9. CASE Flush
  BY <1>9 DEF Flush, CpuGoto
<1>10. CASE AccessHostPort
  BY <1>10 DEF AccessHostPort, CpuGoto
<1>11. CASE JoinWorkers
  BY <1>11 DEF JoinWorkers, CpuGoto
<1>12. CASE Execute
  BY <1>12 DEF Execute, CpuGoto
<1>13. CASE Destroy
  BY <1>13 DEF Destroy, CpuGoto
<1>14. CASE LockToNotify
  BY <1>14 DEF LockToNotify, CpuGoto
<1>15. ASSUME NEW port \in Dsps \cup {NoOne}, CallCatchUp(port)
      PROVE  TypeOK'
  BY <1>15 DEF CallCatchUp, CpuGoto
<1>16. ASSUME NEW w \in Workers, TestGeneration(w)
      PROVE  TypeOK'
  BY <1>16 DEF TestGeneration, WorkerGoto
<1>17. ASSUME NEW w \in Workers, TestQuit(w)
      PROVE  TypeOK'
  BY <1>17 DEF TestQuit, WorkerGoto
<1>18. ASSUME NEW w \in Workers, IncSleepers(w)
      PROVE  TypeOK'
  <2>1. Asleep' \in SUBSET Workers
    BY DEF Asleep
  <2>2. sleepers' \in 0 .. Cardinality(Workers)
    BY <1>18, <2>1, SubsetsBounded DEF CountInv, IncSleepers, WorkerGoto
  <2>3. QED
    BY <1>18, <2>2 DEF IncSleepers, WorkerGoto
<1>19. ASSUME NEW w \in Workers, WaitTestGeneration(w)
      PROVE  TypeOK'
  BY <1>19 DEF WaitTestGeneration, WorkerGoto
<1>20. ASSUME NEW w \in Workers, WaitTestQuit(w)
      PROVE  TypeOK'
  BY <1>20 DEF WaitTestQuit, WorkerGoto
<1>21. ASSUME NEW w \in Workers, DecSleepers(w)
      PROVE  TypeOK'
  <2>1. Asleep' \in SUBSET Workers
    BY DEF Asleep
  <2>2. sleepers' \in 0 .. Cardinality(Workers)
    BY <1>21, <2>1, SubsetsBounded DEF CountInv, DecSleepers, WorkerGoto
  <2>3. QED
    BY <1>21, <2>2 DEF DecSleepers, WorkerGoto
<1>22. ASSUME NEW w \in Workers, LeaveIfQuit(w)
      PROVE  TypeOK'
  BY <1>22 DEF LeaveIfQuit, WorkerGoto
<1>23. ASSUME NEW w \in Workers, TakeGeneration(w)
      PROVE  TypeOK'
  BY <1>23 DEF TakeGeneration, WorkerGoto
<1>24. ASSUME NEW w \in Workers, ReadTarget(w)
      PROVE  TypeOK'
  BY <1>24 DEF ReadTarget, WorkerGoto
<1>25. ASSUME NEW w \in Workers, RunDsp(w)
      PROVE  TypeOK'
  BY <1>25 DEF RunDsp, WorkerGoto
<1>26. ASSUME NEW w \in Workers, SubPending(w)
      PROVE  TypeOK'
  <2>1. Debtors' \in SUBSET Workers
    BY DEF Debtors
  <2>2. pending' \in 0 .. Cardinality(Workers)
    BY <1>26, <2>1, SubsetsBounded DEF CountInv, SubPending, WorkerGoto
  <2>3. QED
    BY <1>26, <2>2 DEF SubPending, WorkerGoto
<1>27. ASSUME NEW w \in Workers, LockToSleep(w)
      PROVE  TypeOK'
  BY <1>27 DEF LockToSleep, WorkerGoto
<1>28. ASSUME NEW w \in Workers, SpuriousWake(w)
      PROVE  TypeOK'
  BY <1>28 DEF SpuriousWake, WorkerGoto
<1>29. CASE UNCHANGED vars
  BY <1>29 DEF vars
<1>30. QED
  BY <1>1, <1>2, <1>3, <1>4, <1>5, <1>6, <1>7, <1>8,
     <1>9, <1>10, <1>11, <1>12, <1>13, <1>14, <1>15, <1>16,
     <1>17, <1>18, <1>19, <1>20, <1>21, <1>22, <1>23, <1>24,
     <1>25, <1>26, <1>27, <1>28, <1>29
     DEF Next, CpuStep, CpuChoice, WorkerStep, Gone

-----------------------------------------------------------------------------
(* The constructor leaves the invariant established. *)
LEMMA InitInd == Init => IndInv
<1>. SUFFICES ASSUME Init PROVE IndInv
  OBVIOUS
<1>1. Debtors = {} /\ Asleep = {}
  BY DEF Init, Debtors, Owes, Asleep
<1>2. CountInv
  BY <1>1, FS_EmptySet DEF Init, CountInv
<1>3. TypeOK
  <2>1. wpc \in [Workers -> WorkerPc]
    BY DEF Init, WorkerPc
  <2>2. 0 \in 0 .. Cardinality(Workers) /\ 0 \in 0 .. MaxRounds
        /\ 0 \in 0 .. MaxClock /\ 0 \in 0 .. SpinLimit
    BY CountsBounded, SyncAssumption
  <2>3. seen \in [Workers -> 0 .. MaxRounds] /\ spins \in [Workers -> 0 .. SpinLimit]
        /\ arg \in [Workers -> 0 .. MaxClock] /\ ran \in [Dsps -> 0 .. MaxClock]
    BY <2>2 DEF Init
  <2>4. QED
    BY <2>1, <2>2, <2>3 DEF Init, TypeOK, CpuPc
<1>4. RoundInv /\ RanInv /\ MutexInv /\ WakeInv
  BY SyncAssumption DEF Init, RoundInv, RanInv, MutexInv, WakeInv, NoLostWakeup,
     RoundPc, QuitPc, Owes
<1>5. QED
  BY <1>2, <1>3, <1>4 DEF IndInv

(* The inductive invariant of the thread protocol (catchUpDsps, workerLoop *)
(* and the destructor), for any number of workers.                         *)
THEOREM Inductive == Spec => []IndInv
<1>1. IndInv /\ [Next]_vars => IndInv'
  BY ThreadsStep, CountStep, TypeStep DEF IndInv
<1>2. QED
  BY InitInd, <1>1, PTL DEF Spec

(* The variables of the protocol keep their types: in particular neither   *)
(* unsigned counter is decremented below zero.                             *)
THEOREM TypeCorrect == Spec => []TypeOK
  BY Inductive, PTL DEF IndInv

(* flushAudio, the host-port accesses and the destructor find the DSPs of  *)
(* all the workers stopped.                                                *)
THEOREM StoppedDsps == Spec => []DspsStopped
<1>1. IndInv => DspsStopped
  BY DEF IndInv, RoundInv, DspsStopped, Running, Owes, RoundPc
<1>2. QED
  BY <1>1, Inductive, PTL

(* A sync hands over the audio of DSPs that have all run to its target. *)
THEOREM CompleteRounds == Spec => []RoundComplete
<1>1. IndInv => RoundComplete
  BY DEF IndInv, RanInv, RoundComplete, Dsps
<1>2. QED
  BY <1>1, Inductive, PTL

(* The notification that the CPU skips when it counts no sleepers is never *)
(* the one that a blocked worker needs.                                    *)
THEOREM WakeupsArrive == Spec => []NoLostWakeup
<1>1. IndInv => NoLostWakeup
  BY DEF IndInv, WakeInv
<1>2. QED
  BY <1>1, Inductive, PTL

-----------------------------------------------------------------------------
(* The machine as constructed is a barrier before its first round. *)
LEMMA BarrierInit == Init => Barrier!Init
  BY DEF Init, Barrier!Init, Phase, InRound, Todo

(* Every step of a thread is a step of the barrier or leaves it unchanged. *)
LEMMA BarrierStep ==
  ASSUME IndInv, [Next]_vars
  PROVE  [Barrier!Next]_(Barrier!vars)
<1>. USE SyncAssumption DEF IndInv, TypeOK, RoundInv, RanInv, Owes, RoundPc, QuitPc,
       cpuVars, workerVars, Dsps, Phase, InRound, Todo, Owing
<1>1. CASE Execute
  BY <1>1 DEF Execute, CpuGoto, Barrier!Next, Barrier!Tick
<1>2. CASE Publish
  BY <1>2 DEF Publish, CpuGoto, Barrier!Next, Barrier!Begin
<1>3. CASE RunSerially
  <2>1. Dsps \in (SUBSET Dsps) \ {{}}
    OBVIOUS
  <2>2. Barrier!Run(Dsps)
    BY <1>3 DEF RunSerially, CpuGoto, Barrier!Run
  <2>3. QED
    BY <2>1, <2>2, Zenon DEF Barrier!Next
<1>4. CASE RunMain
  <2>1. {Main} \in (SUBSET Dsps) \ {{}}
    OBVIOUS
  <2>2. Barrier!Run({Main})
    <3>1. Todo' = Todo \ {Main} /\ Main \in Todo
      BY <1>4 DEF RunMain, CpuGoto
    <3>2. ran' = [d \in Dsps |-> IF d \in {Main} THEN clock ELSE ran[d]]
      BY <1>4 DEF RunMain
    <3>3. Phase = "round" /\ UNCHANGED <<Phase, clock>>
      BY <1>4 DEF RunMain, CpuGoto
    <3>4. QED
      BY <3>1, <3>2, <3>3, Zenon DEF Barrier!Run
  <2>3. QED
    BY <2>1, <2>2, Zenon DEF Barrier!Next
<1>5. ASSUME NEW w \in Workers, RunDsp(w)
      PROVE  Barrier!Next
  <2>1. {w} \in (SUBSET Dsps) \ {{}}
    OBVIOUS
  <2>2. Barrier!Run({w})
    BY <1>5 DEF RunDsp, WorkerGoto, Barrier!Run
  <2>3. QED
    BY <2>1, <2>2, Zenon DEF Barrier!Next
<1>6. CASE Flush
  BY <1>6 DEF Flush, CpuGoto, Barrier!Next, Barrier!Finish
<1>7. CASE Destroy
  BY <1>7 DEF Destroy, CpuGoto, Barrier!Next, Barrier!Stop
<1>8. CASE StorePending
  BY <1>8 DEF StorePending, CpuGoto, Barrier!vars
<1>9. CASE BumpGeneration
  BY <1>9 DEF BumpGeneration, CpuGoto, Barrier!vars
<1>10. CASE CheckSleepers
  BY <1>10 DEF CheckSleepers, CpuGoto, Barrier!vars
<1>11. CASE NotifyAll
  BY <1>11 DEF NotifyAll, CpuGoto, Barrier!vars
<1>12. CASE AwaitPending
  BY <1>12 DEF AwaitPending, CpuGoto, Barrier!vars
<1>13. CASE AccessHostPort
  BY <1>13 DEF AccessHostPort, CpuGoto, Barrier!vars
<1>14. CASE JoinWorkers
  BY <1>14 DEF JoinWorkers, CpuGoto, Barrier!vars
<1>15. CASE LockToNotify
  BY <1>15 DEF LockToNotify, CpuGoto, Barrier!vars
<1>16. ASSUME NEW port \in Dsps \cup {NoOne}, CallCatchUp(port)
      PROVE  UNCHANGED Barrier!vars
  BY <1>16 DEF CallCatchUp, CpuGoto, Barrier!vars
<1>17. ASSUME NEW w \in Workers, TestGeneration(w)
      PROVE  UNCHANGED Barrier!vars
  BY <1>17 DEF TestGeneration, WorkerGoto, Barrier!vars
<1>18. ASSUME NEW w \in Workers, TestQuit(w)
      PROVE  UNCHANGED Barrier!vars
  BY <1>18 DEF TestQuit, WorkerGoto, Barrier!vars
<1>19. ASSUME NEW w \in Workers, IncSleepers(w)
      PROVE  UNCHANGED Barrier!vars
  BY <1>19 DEF IncSleepers, WorkerGoto, Barrier!vars
<1>20. ASSUME NEW w \in Workers, WaitTestGeneration(w)
      PROVE  UNCHANGED Barrier!vars
  BY <1>20 DEF WaitTestGeneration, WorkerGoto, Barrier!vars
<1>21. ASSUME NEW w \in Workers, WaitTestQuit(w)
      PROVE  UNCHANGED Barrier!vars
  BY <1>21 DEF WaitTestQuit, WorkerGoto, Barrier!vars
<1>22. ASSUME NEW w \in Workers, DecSleepers(w)
      PROVE  UNCHANGED Barrier!vars
  BY <1>22 DEF DecSleepers, WorkerGoto, Barrier!vars
<1>23. ASSUME NEW w \in Workers, LeaveIfQuit(w)
      PROVE  UNCHANGED Barrier!vars
  BY <1>23 DEF LeaveIfQuit, WorkerGoto, Barrier!vars
<1>24. ASSUME NEW w \in Workers, TakeGeneration(w)
      PROVE  UNCHANGED Barrier!vars
  BY <1>24 DEF TakeGeneration, WorkerGoto, Barrier!vars
<1>25. ASSUME NEW w \in Workers, ReadTarget(w)
      PROVE  UNCHANGED Barrier!vars
  BY <1>25 DEF ReadTarget, WorkerGoto, Barrier!vars
<1>26. ASSUME NEW w \in Workers, SubPending(w)
      PROVE  UNCHANGED Barrier!vars
  BY <1>26 DEF SubPending, WorkerGoto, Barrier!vars
<1>27. ASSUME NEW w \in Workers, LockToSleep(w)
      PROVE  UNCHANGED Barrier!vars
  BY <1>27 DEF LockToSleep, WorkerGoto, Barrier!vars
<1>28. ASSUME NEW w \in Workers, SpuriousWake(w)
      PROVE  UNCHANGED Barrier!vars
  BY <1>28 DEF SpuriousWake, WorkerGoto, Barrier!vars
<1>29. CASE UNCHANGED vars
  BY <1>29 DEF vars, Barrier!vars
<1>30. QED
  BY <1>1, <1>2, <1>3, <1>4, <1>5, <1>6, <1>7, <1>8,
     <1>9, <1>10, <1>11, <1>12, <1>13, <1>14, <1>15, <1>16,
     <1>17, <1>18, <1>19, <1>20, <1>21, <1>22, <1>23, <1>24,
     <1>25, <1>26, <1>27, <1>28, <1>29
     DEF Next, CpuStep, CpuChoice, WorkerStep, Gone

(* The threads implement the abstract barrier (safety): a sync is a round  *)
(* in which every DSP runs exactly once, to the clock of the sync, and     *)
(* nothing else changes between its beginning and its end.                 *)
THEOREM Refinement == Spec => Barrier!Spec
  BY BarrierInit, BarrierStep, Inductive, PTL DEF Spec, Barrier!Spec
=============================================================================
