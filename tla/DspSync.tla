------------------------------ MODULE DspSync ------------------------------
(***************************************************************************)
(* The CPU thread and the DSP worker threads of g1mc.cpp, one step per     *)
(* atomic operation, mutex operation or condition-variable operation:      *)
(* catchUpDsps, workerLoop and the destructor.  The std::atomic accesses   *)
(* are sequentially consistent in the code (default memory order), so they *)
(* interleave.  m_dspTarget is a plain uint64_t: the protocol alone keeps  *)
(* it from being read while it is written.                                 *)
(***************************************************************************)
EXTENDS Naturals, FiniteSets

CONSTANTS Workers,    \* the DSPs that have a thread of their own (1, 2, 3)
          Main,       \* DSP 0, which runs on the CPU thread
          NoOne,      \* the free mutex
          SpinLimit,  \* spins before a worker sleeps (20000 in the code)
          MaxClock,   \* bound on the CPU clock, in sync quanta
          MaxRounds   \* bound on the number of rounds

ASSUME SyncAssumption ==
  /\ IsFiniteSet(Workers)
  /\ Main \notin Workers
  /\ NoOne \notin Workers \cup {Main}
  /\ SpinLimit \in Nat \ {0}
  /\ MaxClock \in Nat
  /\ MaxRounds \in Nat

Dsps == Workers \cup {Main}

VARIABLES
  threaded,   \* m_threaded: G1_THREADS, read once by the constructor
  clock,      \* m_ucCycles scaled to DSP cycles: the target of a sync now
  target,     \* m_dspTarget
  gen,        \* m_generation
  pending,    \* m_pending
  sleepers,   \* m_sleepers
  quit,       \* m_quitWorkers
  mutex,      \* the owner of m_wakeMutex
  cpu,        \* where the CPU thread is
  host,       \* the DSP whose host port this sync precedes, or NoOne (exec)
  wpc,        \* where each worker thread is; "blocked" is inside m_wake.wait
  seen,       \* workerLoop's seen
  spins,      \* workerLoop's spins, which saturates at SpinLimit
  arg,        \* the argument of the worker's catchUp call
  ran         \* per DSP, the argument of its last catchUp call

cpuVars == <<cpu, host>>
workerVars == <<wpc, seen, spins, arg>>
vars == <<threaded, clock, target, gen, pending, sleepers, quit, mutex,
          cpu, host, wpc, seen, spins, arg, ran>>

CpuPc == {"idle", "publish", "serial", "count", "bump", "look", "lock",
          "notify", "run0", "wait", "flush", "host",
          "quitLock", "quitNotify", "join", "gone"}

WorkerPc == {"gen", "quit", "lock", "inc", "wgen", "wquit", "blocked",
             "relock", "dec", "exit", "seen", "read", "run", "sub", "done"}

TypeOK ==
  /\ threaded \in BOOLEAN
  /\ clock \in 0 .. MaxClock
  /\ target \in 0 .. MaxClock
  /\ gen \in 0 .. MaxRounds
  /\ pending \in 0 .. Cardinality(Workers)
  /\ sleepers \in 0 .. Cardinality(Workers)
  /\ quit \in BOOLEAN
  /\ mutex \in Dsps \cup {NoOne}
  /\ cpu \in CpuPc
  /\ host \in Dsps \cup {NoOne}
  /\ wpc \in [Workers -> WorkerPc]
  /\ seen \in [Workers -> 0 .. MaxRounds]
  /\ spins \in [Workers -> 0 .. SpinLimit]
  /\ arg \in [Workers -> 0 .. MaxClock]
  /\ ran \in [Dsps -> 0 .. MaxClock]

(* The constructor: workers exist only when threaded.  A worker that the   *)
(* scheduler has not started yet is at the head of its loop.               *)
Init ==
  /\ threaded \in BOOLEAN
  /\ clock = 0 /\ target = 0 /\ gen = 0 /\ pending = 0 /\ sleepers = 0
  /\ quit = FALSE
  /\ mutex = NoOne
  /\ cpu = "idle"
  /\ host = NoOne
  /\ wpc = [w \in Workers |-> IF threaded THEN "gen" ELSE "done"]
  /\ seen = [w \in Workers |-> 0]
  /\ spins = [w \in Workers |-> 0]
  /\ arg = [w \in Workers |-> 0]
  /\ ran = [d \in Dsps |-> 0]

-----------------------------------------------------------------------------
(* The CPU thread *)

CpuGoto(from, to) == cpu = from /\ cpu' = to

(* exec: an instruction that does not cross a 1024-cycle boundary. *)
Execute ==
  /\ cpu = "idle"
  /\ clock < MaxClock
  /\ clock' = clock + 1
  /\ UNCHANGED <<threaded, target, gen, pending, sleepers, quit, mutex, ran>>
  /\ UNCHANGED <<cpuVars, workerVars>>

(* catchUpDsps is called: by exec after a boundary (port = NoOne), or by   *)
(* read8/16 and write8/16 before they touch the host port of a DSP.        *)
CallCatchUp(port) ==
  /\ gen < MaxRounds
  /\ CpuGoto("idle", "publish")
  /\ host' = port
  /\ UNCHANGED <<threaded, clock, target, gen, pending, sleepers, quit, mutex, ran>>
  /\ UNCHANGED workerVars

Publish ==
  /\ cpu = "publish"
  /\ \/ /\ threaded
        /\ target' = clock
        /\ cpu' = "count"
     \/ /\ ~threaded
        /\ cpu' = "serial"
        /\ UNCHANGED target
  /\ UNCHANGED <<threaded, clock, gen, pending, sleepers, quit, mutex, ran, host>>
  /\ UNCHANGED workerVars

(* G1_THREADS=0: every DSP runs on the CPU thread. *)
RunSerially ==
  /\ CpuGoto("serial", "flush")
  /\ ran' = [d \in Dsps |-> clock]
  /\ UNCHANGED <<threaded, clock, target, gen, pending, sleepers, quit, mutex, host>>
  /\ UNCHANGED workerVars

StorePending ==
  /\ CpuGoto("count", "bump")
  /\ pending' = Cardinality(Workers)
  /\ UNCHANGED <<threaded, clock, target, gen, sleepers, quit, mutex, ran, host>>
  /\ UNCHANGED workerVars

BumpGeneration ==
  /\ CpuGoto("bump", "look")
  /\ gen' = gen + 1
  /\ UNCHANGED <<threaded, clock, target, pending, sleepers, quit, mutex, ran, host>>
  /\ UNCHANGED workerVars

(* A slip: one sleeper is not notified. *)
CheckSleepersOffByOne ==
  /\ cpu = "look"
  /\ cpu' = IF sleepers > 1 THEN "lock" ELSE "run0"
  /\ UNCHANGED <<threaded, clock, target, gen, pending, sleepers, quit, mutex, ran, host>>
  /\ UNCHANGED workerVars

CheckSleepers ==
  /\ cpu = "look"
  /\ cpu' = IF sleepers > 0 THEN "lock" ELSE "run0"
  /\ UNCHANGED <<threaded, clock, target, gen, pending, sleepers, quit, mutex, ran, host>>
  /\ UNCHANGED workerVars

LockToNotify ==
  /\ mutex = NoOne
  /\ mutex' = Main
  /\ \/ CpuGoto("lock", "notify")
     \/ CpuGoto("quitLock", "quitNotify")
  /\ UNCHANGED <<threaded, clock, target, gen, pending, sleepers, quit, ran, host>>
  /\ UNCHANGED workerVars

(* m_wake.notify_all() and the end of the lock_guard's scope: every        *)
(* blocked worker leaves the wait and will compete for the mutex.          *)
NotifyAll ==
  /\ \/ CpuGoto("notify", "run0")
     \/ CpuGoto("quitNotify", "join")
  /\ mutex' = NoOne
  /\ wpc' = [w \in Workers |-> IF wpc[w] = "blocked" THEN "relock" ELSE wpc[w]]
  /\ UNCHANGED <<threaded, clock, target, gen, pending, sleepers, quit, ran, host>>
  /\ UNCHANGED <<seen, spins, arg>>

RunMain ==
  /\ CpuGoto("run0", "wait")
  /\ ran' = [ran EXCEPT ![Main] = clock]
  /\ UNCHANGED <<threaded, clock, target, gen, pending, sleepers, quit, mutex, host>>
  /\ UNCHANGED workerVars

(* A slip: the CPU does not wait for the workers. *)
AwaitNothing ==
  /\ CpuGoto("wait", "flush")
  /\ UNCHANGED <<threaded, clock, target, gen, pending, sleepers, quit, mutex, ran, host>>
  /\ UNCHANGED workerVars

AwaitPending ==
  /\ pending = 0
  /\ CpuGoto("wait", "flush")
  /\ UNCHANGED <<threaded, clock, target, gen, pending, sleepers, quit, mutex, ran, host>>
  /\ UNCHANGED workerVars

(* flushAudio of every DSP, then back to the caller. *)
Flush ==
  /\ cpu = "flush"
  /\ cpu' = IF host = NoOne THEN "idle" ELSE "host"
  /\ UNCHANGED <<threaded, clock, target, gen, pending, sleepers, quit, mutex, ran, host>>
  /\ UNCHANGED workerVars

(* The access itself: the callbacks of the port may run that DSP on the    *)
(* CPU thread.                                                             *)
AccessHostPort ==
  /\ CpuGoto("host", "idle")
  /\ host' = NoOne
  /\ UNCHANGED <<threaded, clock, target, gen, pending, sleepers, quit, mutex, ran>>
  /\ UNCHANGED workerVars

(* A slip: the destructor joins without waking the sleepers. *)
DestroySilently ==
  /\ CpuGoto("idle", "join")
  /\ quit' = TRUE
  /\ UNCHANGED <<threaded, clock, target, gen, pending, sleepers, mutex, ran, host>>
  /\ UNCHANGED workerVars

(* The destructor, called by the thread that also calls exec. *)
Destroy ==
  /\ CpuGoto("idle", "quitLock")
  /\ quit' = TRUE
  /\ UNCHANGED <<threaded, clock, target, gen, pending, sleepers, mutex, ran, host>>
  /\ UNCHANGED workerVars

JoinWorkers ==
  /\ CpuGoto("join", "gone")
  /\ \A w \in Workers : wpc[w] = "done"
  /\ UNCHANGED <<threaded, clock, target, gen, pending, sleepers, quit, mutex, ran, host>>
  /\ UNCHANGED workerVars

-----------------------------------------------------------------------------
(* A worker thread *)

WorkerGoto(w, from, to) == wpc[w] = from /\ wpc' = [wpc EXCEPT ![w] = to]

TestGeneration(w) ==
  /\ WorkerGoto(w, "gen", IF gen = seen[w] THEN "quit" ELSE "exit")
  /\ UNCHANGED <<threaded, clock, target, gen, pending, sleepers, quit, mutex, ran>>
  /\ UNCHANGED <<cpuVars, seen, spins, arg>>

(* The loop's second condition, then ++spins < 20000 or the lock. *)
TestQuit(w) ==
  /\ \/ quit /\ WorkerGoto(w, "quit", "exit") /\ UNCHANGED spins
     \/ /\ ~quit
        /\ spins[w] + 1 < SpinLimit
        /\ WorkerGoto(w, "quit", "gen")
        /\ spins' = [spins EXCEPT ![w] = @ + 1]
     \/ /\ ~quit
        /\ spins[w] + 1 >= SpinLimit
        /\ WorkerGoto(w, "quit", "lock")
        /\ spins' = [spins EXCEPT ![w] = SpinLimit]
  /\ UNCHANGED <<threaded, clock, target, gen, pending, sleepers, quit, mutex, ran>>
  /\ UNCHANGED <<cpuVars, seen, arg>>

LockToSleep(w) ==
  /\ mutex = NoOne
  /\ mutex' = w
  /\ \/ WorkerGoto(w, "lock", "inc")
     \/ WorkerGoto(w, "relock", "wgen")
  /\ UNCHANGED <<threaded, clock, target, gen, pending, sleepers, quit, ran>>
  /\ UNCHANGED <<cpuVars, seen, spins, arg>>

IncSleepers(w) ==
  /\ WorkerGoto(w, "inc", "wgen")
  /\ sleepers' = sleepers + 1
  /\ UNCHANGED <<threaded, clock, target, gen, pending, quit, mutex, ran>>
  /\ UNCHANGED <<cpuVars, seen, spins, arg>>

(* A slip: a wait whose predicate does not look at the generation. *)
WaitTestNothing(w) ==
  /\ WorkerGoto(w, "wgen", "wquit")
  /\ UNCHANGED <<threaded, clock, target, gen, pending, sleepers, quit, mutex, ran>>
  /\ UNCHANGED <<cpuVars, seen, spins, arg>>

(* The predicate of m_wake.wait, under the mutex: the generation... *)
WaitTestGeneration(w) ==
  /\ WorkerGoto(w, "wgen", IF gen # seen[w] THEN "dec" ELSE "wquit")
  /\ UNCHANGED <<threaded, clock, target, gen, pending, sleepers, quit, mutex, ran>>
  /\ UNCHANGED <<cpuVars, seen, spins, arg>>

(* ... then m_quitWorkers; if neither holds, the wait releases the mutex   *)
(* and blocks in one step.                                                 *)
WaitTestQuit(w) ==
  /\ \/ quit /\ WorkerGoto(w, "wquit", "dec") /\ UNCHANGED mutex
     \/ ~quit /\ WorkerGoto(w, "wquit", "blocked") /\ mutex' = NoOne
  /\ UNCHANGED <<threaded, clock, target, gen, pending, sleepers, quit, ran>>
  /\ UNCHANGED <<cpuVars, seen, spins, arg>>

(* The C++ standard lets a wait return without a notification. *)
SpuriousWake(w) ==
  /\ WorkerGoto(w, "blocked", "relock")
  /\ UNCHANGED <<threaded, clock, target, gen, pending, sleepers, quit, mutex, ran>>
  /\ UNCHANGED <<cpuVars, seen, spins, arg>>

(* --m_sleepers and the end of the unique_lock's scope. *)
DecSleepers(w) ==
  /\ WorkerGoto(w, "dec", "gen")
  /\ sleepers' = sleepers - 1
  /\ mutex' = NoOne
  /\ UNCHANGED <<threaded, clock, target, gen, pending, quit, ran>>
  /\ UNCHANGED <<cpuVars, seen, spins, arg>>

LeaveIfQuit(w) ==
  /\ WorkerGoto(w, "exit", IF quit THEN "done" ELSE "seen")
  /\ UNCHANGED <<threaded, clock, target, gen, pending, sleepers, quit, mutex, ran>>
  /\ UNCHANGED <<cpuVars, seen, spins, arg>>

(* A slip: the worker does not remember the generation it took. *)
TakeGenerationNot(w) ==
  /\ WorkerGoto(w, "seen", "read")
  /\ UNCHANGED <<threaded, clock, target, gen, pending, sleepers, quit, mutex, ran>>
  /\ UNCHANGED <<cpuVars, seen, spins, arg>>

TakeGeneration(w) ==
  /\ WorkerGoto(w, "seen", "read")
  /\ seen' = [seen EXCEPT ![w] = gen]
  /\ UNCHANGED <<threaded, clock, target, gen, pending, sleepers, quit, mutex, ran>>
  /\ UNCHANGED <<cpuVars, spins, arg>>

ReadTarget(w) ==
  /\ WorkerGoto(w, "read", "run")
  /\ arg' = [arg EXCEPT ![w] = target]
  /\ UNCHANGED <<threaded, clock, target, gen, pending, sleepers, quit, mutex, ran>>
  /\ UNCHANGED <<cpuVars, seen, spins>>

RunDsp(w) ==
  /\ WorkerGoto(w, "run", "sub")
  /\ ran' = [ran EXCEPT ![w] = arg[w]]
  /\ UNCHANGED <<threaded, clock, target, gen, pending, sleepers, quit, mutex>>
  /\ UNCHANGED <<cpuVars, seen, spins, arg>>

(* m_pending.fetch_sub(1), and round the loop with spins = 0. *)
SubPending(w) ==
  /\ WorkerGoto(w, "sub", "gen")
  /\ pending' = pending - 1
  /\ spins' = [spins EXCEPT ![w] = 0]
  /\ UNCHANGED <<threaded, clock, target, gen, sleepers, quit, mutex, ran>>
  /\ UNCHANGED <<cpuVars, seen, arg>>

-----------------------------------------------------------------------------
(* What the CPU thread does by itself once it has begun. *)
CpuStep ==
  \/ Publish \/ RunSerially \/ StorePending \/ BumpGeneration \/ CheckSleepers
  \/ NotifyAll \/ RunMain \/ AwaitPending \/ Flush \/ AccessHostPort
  \/ JoinWorkers

CpuChoice ==
  \/ Execute
  \/ \E port \in Dsps \cup {NoOne} : CallCatchUp(port)
  \/ Destroy

WorkerStep(w) ==
  \/ TestGeneration(w) \/ TestQuit(w) \/ IncSleepers(w)
  \/ WaitTestGeneration(w) \/ WaitTestQuit(w) \/ DecSleepers(w)
  \/ LeaveIfQuit(w) \/ TakeGeneration(w) \/ ReadTarget(w) \/ RunDsp(w)
  \/ SubPending(w)

(* The machine is destroyed: the program goes on without it. *)
Gone == cpu = "gone" /\ UNCHANGED vars

Next ==
  \/ CpuStep
  \/ CpuChoice
  \/ LockToNotify
  \/ Gone
  \/ \E w \in Workers : WorkerStep(w) \/ LockToSleep(w) \/ SpuriousWake(w)

Spec == Init /\ [][Next]_vars

(* Every thread keeps being scheduled (weak fairness on its own steps) and *)
(* a thread that wants the mutex gets it if it is free again and again     *)
(* (strong fairness).  Nothing obliges the CPU to execute, to sync or to   *)
(* quit, and nothing obliges a wait to wake up spuriously.                 *)
Fairness ==
  /\ WF_vars(CpuStep)
  /\ SF_vars(LockToNotify)
  /\ \A w \in Workers : WF_vars(WorkerStep(w)) /\ SF_vars(LockToSleep(w))

FairSpec == Spec /\ Fairness

-----------------------------------------------------------------------------
(* Properties *)

(* A worker that is between its test of the generation and its fetch_sub   *)
(* may be inside catchUp or about to enter it.                             *)
Running(w) == wpc[w] \in {"seen", "read", "run", "sub"}

(* flushAudio moves samples from DSP to DSP "with all DSPs stopped", and a *)
(* host port's callbacks run its DSP on the CPU thread: at both points, in *)
(* the calls of exec and when the machine is destroyed, no worker is       *)
(* inside catchUp or on its way there.                                     *)
DspsStopped ==
  cpu \in {"idle", "publish", "count", "flush", "host", "quitLock",
           "quitNotify", "join", "gone"}
    => \A w \in Workers : ~Running(w)

(* When the audio is handed over every DSP, whoever runs it, has been      *)
(* called with the target of this very sync: no DSP is left behind and no  *)
(* worker used a target of another round.                                  *)
RoundComplete ==
  cpu \in {"flush", "host"} => \A d \in Dsps : ran[d] = clock

(* No wake-up is lost: a worker blocked in m_wake.wait that has a round to *)
(* run, or that should quit, is about to be notified, although the CPU     *)
(* publishes both without the mutex and skips the notification when it     *)
(* counts no sleepers.                                                     *)
NoLostWakeup ==
  \A w \in Workers : wpc[w] = "blocked" =>
    /\ seen[w] # gen => cpu \in {"look", "lock", "notify"}
    /\ quit => cpu \in {"quitLock", "quitNotify"}

(* Every sync that is called completes. *)
SyncCompletes == cpu = "publish" ~> cpu = "idle"

(* The destructor terminates: every worker leaves its loop, wherever it    *)
(* was spinning or sleeping, and is joined.                                *)
DestructorTerminates == quit ~> cpu = "gone"

(* The rounds implement the abstract barrier. *)
InRound == cpu \in {"serial", "count", "bump", "look", "lock", "notify",
                    "run0", "wait", "flush"}

Owing(w) ==
  \/ cpu \in {"count", "bump"}
  \/ seen[w] # gen
  \/ wpc[w] \in {"read", "run"}

Todo ==
  IF cpu = "serial" THEN Dsps
  ELSE IF InRound /\ threaded
  THEN {w \in Workers : Owing(w)}
         \cup {d \in {Main} : cpu \notin {"wait", "flush"}}
  ELSE {}

Phase ==
  IF quit THEN "stopped" ELSE IF InRound THEN "round" ELSE "idle"

Barrier == INSTANCE DspBarrier WITH phase <- Phase, todo <- Todo

(* Each sync runs every DSP exactly once, to its own target, between the   *)
(* steps of the CPU: safety, and completion under fairness.                *)
ImplementsBarrier == Barrier!FairSpec
=============================================================================
