----------------------------- MODULE PluginGuard -----------------------------
(***************************************************************************)
(* How the threads of the plug-in (PluginProcessor.cpp) share its machine. *)
(* The host's audio thread holds JUCE's callback lock and then takes       *)
(* machineMutex.  Long operations (loadRom, loadPatch, panic,              *)
(* setStateInformation) suspend processing with a ProcessingPause, which   *)
(* takes the callback lock twice, each time without machineMutex, and work *)
(* in between under machineMutex.  Short ones (editParameter, snapshots,   *)
(* getStateInformation, getters) take machineMutex alone.                  *)
(***************************************************************************)
EXTENDS Integers, FiniteSets

CONSTANTS Threads,  \* the message thread and the host's other threads
          Audio,    \* the audio thread
          Nobody,
          MaxOps    \* bound on the operations of a thread

ASSUME GuardAssumption ==
  /\ IsFiniteSet(Threads) /\ Audio \notin Threads
  /\ Nobody \notin Threads \cup {Audio}
  /\ MaxOps \in Nat

VARIABLES
  pc,            \* where each thread is
  ops,           \* operations each thread may still begin
  callbackLock,  \* owner of JUCE's callback lock
  machineMutex,  \* owner of machineMutex
  suspended,     \* isSuspended()
  depth,         \* processingPauseDepth
  was,           \* processingWasSuspended
  host           \* history: whether the host itself suspended the plug-in

locks == <<callbackLock, machineMutex>>
pause == <<suspended, depth, was>>
vars == <<pc, ops, callbackLock, machineMutex, suspended, depth, was, host>>

(* A long operation: "enter" and "exit" wait for the callback lock, "want" *)
(* for machineMutex; "notify" is inside setValueNotifyingHost, from where  *)
(* the host may call a short operation ("nested"), one in this model.      *)
InPause == {"notify", "nestedwant", "nested", "want", "work", "exit"}
ThreadStates == {"idle", "enter", "shortwant", "short"} \cup InPause
AudioStates == {"idle", "want", "work", "leave"}

TypeOK ==
  /\ pc \in [Threads \cup {Audio} -> ThreadStates \cup AudioStates]
  /\ ops \in [Threads -> 0 .. MaxOps]
  /\ callbackLock \in {Audio, Nobody}
  /\ machineMutex \in Threads \cup {Audio, Nobody}
  /\ suspended \in BOOLEAN /\ was \in BOOLEAN /\ host \in BOOLEAN
  /\ depth = Cardinality({t \in Threads : pc[t] \in InPause})

Init ==
  /\ pc = [t \in Threads \cup {Audio} |-> "idle"]
  /\ ops = [t \in Threads |-> MaxOps]
  /\ callbackLock = Nobody /\ machineMutex = Nobody
  /\ host \in BOOLEAN /\ suspended = host
  /\ depth = 0 /\ was = FALSE

Goto(t, from, to) == pc[t] = from /\ pc' = [pc EXCEPT ![t] = to]

-----------------------------------------------------------------------------
(* The audio thread: JUCE's wrapper, and processBlock *)

EnterCallback ==
  /\ callbackLock = Nobody /\ callbackLock' = Audio
  /\ Goto(Audio, "idle", IF suspended THEN "leave" ELSE "want")
  /\ UNCHANGED <<ops, machineMutex, pause, host>>

LockForBlock ==
  /\ machineMutex = Nobody /\ machineMutex' = Audio
  /\ Goto(Audio, "want", "work")
  /\ UNCHANGED <<ops, callbackLock, pause, host>>

EndBlock ==
  /\ Goto(Audio, "work", "leave")
  /\ machineMutex' = Nobody
  /\ UNCHANGED <<ops, callbackLock, pause, host>>

LeaveCallback ==
  /\ Goto(Audio, "leave", "idle")
  /\ callbackLock' = Nobody
  /\ UNCHANGED <<ops, machineMutex, pause, host>>

-----------------------------------------------------------------------------
(* Long operations *)

BeginLong(t) ==
  /\ ops[t] > 0 /\ ops' = [ops EXCEPT ![t] = @ - 1]
  /\ Goto(t, "idle", "enter")
  /\ UNCHANGED <<locks, pause, host>>

(* A slip: every operation saves the flag it finds. *)
EnterPauseEach(t) ==
  /\ callbackLock = Nobody
  /\ \E to \in {"notify", "want"} : Goto(t, "enter", to)
  /\ depth' = depth + 1
  /\ was' = suspended /\ suspended' = TRUE
  /\ UNCHANGED <<ops, locks, host>>

(* ProcessingPause: the callback lock is taken and released. *)
EnterPause(t) ==
  /\ callbackLock = Nobody
  /\ \E to \in {"notify", "want"} : Goto(t, "enter", to)
  /\ depth' = depth + 1
  /\ IF depth = 0
     THEN was' = suspended /\ suspended' = TRUE
     ELSE UNCHANGED <<was, suspended>>
  /\ UNCHANGED <<ops, locks, host>>

(* setStateInformation tells the host the value of its parameter. *)
Notify(t) ==
  /\ \E to \in {"nestedwant", "want"} : Goto(t, "notify", to)
  /\ UNCHANGED <<ops, locks, pause, host>>

(* A slip: nothing is done while processing is suspended. *)
LockUnlessSuspended(t) ==
  /\ ~suspended
  /\ machineMutex = Nobody /\ machineMutex' = t
  /\ \/ Goto(t, "want", "work")
     \/ Goto(t, "shortwant", "short")
     \/ Goto(t, "nestedwant", "nested")
  /\ UNCHANGED <<ops, callbackLock, pause, host>>

(* A thread takes machineMutex for what it is about to do. *)
Lock(t) ==
  /\ machineMutex = Nobody /\ machineMutex' = t
  /\ \/ Goto(t, "want", "work")
     \/ Goto(t, "shortwant", "short")
     \/ Goto(t, "nestedwant", "nested")
  /\ UNCHANGED <<ops, callbackLock, pause, host>>

Unlock(t) ==
  /\ machineMutex' = Nobody
  /\ \/ Goto(t, "work", "exit")
     \/ Goto(t, "short", "idle")
     \/ Goto(t, "nested", "want")
  /\ UNCHANGED <<ops, callbackLock, pause, host>>

(* A slip: the first operation to end resumes. *)
ExitPauseEager(t) ==
  /\ callbackLock = Nobody
  /\ Goto(t, "exit", "idle")
  /\ depth' = depth - 1
  /\ suspended' = was
  /\ UNCHANGED <<ops, locks, was, host>>

(* ~ProcessingPause *)
ExitPause(t) ==
  /\ callbackLock = Nobody
  /\ Goto(t, "exit", "idle")
  /\ depth' = depth - 1
  /\ suspended' = IF depth = 1 THEN was ELSE suspended
  /\ UNCHANGED <<ops, locks, was, host>>

BeginShort(t) ==
  /\ ops[t] > 0 /\ ops' = [ops EXCEPT ![t] = @ - 1]
  /\ Goto(t, "idle", "shortwant")
  /\ UNCHANGED <<locks, pause, host>>

AudioStep == EnterCallback \/ LockForBlock \/ EndBlock \/ LeaveCallback

Continue(t) == EnterPause(t) \/ Notify(t) \/ Lock(t) \/ Unlock(t) \/ ExitPause(t)

Next ==
  \/ AudioStep
  \/ \E t \in Threads : BeginLong(t) \/ BeginShort(t) \/ Continue(t)

Spec == Init /\ [][Next]_vars

(* The host calls back for ever, and a thread that keeps finding a lock    *)
(* free gets it in the end.                                                *)
Fairness == SF_vars(AudioStep) /\ \A t \in Threads : SF_vars(Continue(t))

FairSpec == Spec /\ Fairness

-----------------------------------------------------------------------------
(* No block is processed, and the audio thread is not waiting for the      *)
(* machine either, while a pause lasts: a load of seconds never blocks it. *)
NoBlockInPause == depth > 0 => pc[Audio] \notin {"want", "work"}

(* When the last of several overlapping operations has ended, processing   *)
(* is as the host left it, neither suspended for ever nor resumed against  *)
(* the host.                                                               *)
SuspensionRestored == depth = 0 => suspended = host

(* Every operation ends: the order of the two locks admits no deadlock.    *)
OperationsEnd == \A t \in Threads : pc[t] # "idle" ~> pc[t] = "idle"
=============================================================================
