------------------------------- MODULE Codec -------------------------------
(***************************************************************************)
(* The way out of the chain (g1dsp.cpp, emuhost.cpp): the last DSP taps    *)
(* the frame of the block before at every beat of the sample clock; what   *)
(* its ESSIs send is collected when a sync ends; the CPU thread then hands *)
(* both on, with all DSPs stopped, and the host plays and records them.    *)
(* Time is counted as in DspLink, frames are numbered by their blocks.  The *)
(* peaks that drainAudio measures and the clock it gives the receivers are *)
(* left out.                                                               *)
(***************************************************************************)
EXTENDS Integers, Sequences

CONSTANTS Period,      \* g_cyclesPerFrame, in units of time
          StepTime,    \* the longest JIT block
          Quantum,     \* the longest time between two syncs
          WaitClamp,   \* the longest wait of a host-port access
          MaxTime,     \* bound on the CPU clock
          MaxSwitches, \* bound on the reloads of the DSP
          MaxSent,     \* bound on the frames of an ESSI
          MaxWav       \* frames to record: G1_RECORD, zero when it is not set

CodecAssumption ==
  /\ Period \in Nat \ {0} /\ StepTime \in 1 .. Period
  /\ Quantum \in Nat /\ WaitClamp \in Nat /\ MaxTime \in Nat
  /\ MaxSwitches \in Nat /\ MaxSent \in Nat /\ MaxWav \in Nat

Essis == {0, 1}

VARIABLES
  phase,     \* "cpu", "run" and "flush" within a sync, "wait" within an
             \*   access of the host port, "stopped" after EmuHost::stop
  target,    \* of the sync, or where the wait ends
  clock,     \* the target of the last sync
  now,       \* m_dsp.getCycles()
  booted,    \* m_booted
  sounding,  \* IRQD is enabled and X:$5, X:$6 point into the buffers
  nextIrqd,  \* m_nextIrqd
  blocks,    \* m_blocks
  sent,      \* history: the frames each ESSI has sent
  out,       \* those waiting in its output
  staged,    \* those in m_staged
  passed,    \* history: those given to m_audioCallback
  played,    \* history: the blocks given to m_blockCallback since the start
  missing,   \* history: the beats since the start at which nothing sounded
  switches,  \* history: the reloads
  wavFrames, \* m_wavFrames
  wav,       \* the frames in the file
  header     \* the frames its header tells of

dsp == <<now, booted, sounding, nextIrqd, blocks, sent, out, missing, switches>>
host == <<staged, passed, played, wavFrames, wav, header>>
vars == <<phase, target, clock, dsp, host>>

Horizon == MaxTime + WaitClamp + StepTime + Period

TypeOK ==
  /\ phase \in {"cpu", "run", "flush", "wait", "stopped"}
  /\ target \in 0 .. Horizon /\ clock \in 0 .. MaxTime
  /\ now \in 0 .. Horizon /\ nextIrqd \in 0 .. Horizon
  /\ booted \in BOOLEAN /\ sounding \in BOOLEAN
  /\ blocks \in Seq(Nat) /\ played \in Seq(Nat) /\ wav \in Seq(Nat)
  /\ missing \subseteq 0 .. Horizon
  /\ sent \in [Essis -> 0 .. MaxSent] /\ out \in [Essis -> 0 .. MaxSent]
  /\ staged \in [Essis -> 0 .. MaxSent] /\ passed \in [Essis -> 0 .. MaxSent]
  /\ switches \in 0 .. MaxSwitches
  /\ wavFrames \in 0 .. MaxWav /\ header \in 0 .. MaxWav

None == [e \in Essis |-> 0]

Init ==
  /\ phase = "cpu" /\ target = 0 /\ clock = 0 /\ now = 0
  /\ booted = FALSE /\ sounding = FALSE /\ nextIrqd = 0 /\ switches = 0
  /\ blocks = <<>> /\ played = <<>> /\ missing = {}
  /\ sent = None /\ out = None /\ staged = None /\ passed = None
  /\ wavFrames = 0 /\ wav = <<>> /\ header = 0

-----------------------------------------------------------------------------
(* The DSP *)

BlockOf(t) == t \div Period

(* One period on, or locked again if it fell far behind; with JIT blocks   *)
(* no longer than a period, as assumed here, it never does (see DspLink).  *)
NextBeat ==
  IF now - nextIrqd > 4 * Period THEN (BlockOf(now) + 1) * Period
                                 ELSE nextIrqd + Period

(* tapBlock: the frame of the block before, if the program sounds. *)
TapBlock ==
  IF sounding
  THEN blocks' = Append(blocks, BlockOf(now)) /\ UNCHANGED missing
  ELSE missing' = missing \cup {BlockOf(now)} /\ UNCHANGED blocks

(* One turn of runUntil; either ESSI may send a frame meanwhile. *)
Turn ==
  /\ IF now >= nextIrqd THEN nextIrqd' = NextBeat /\ TapBlock
                        ELSE UNCHANGED <<nextIrqd, blocks, missing>>
  /\ \E len \in 1 .. StepTime : now' = now + len
  /\ \E sending \in SUBSET {e \in Essis : sent[e] < MaxSent} :
       LET More(f) == [e \in Essis |-> IF e \in sending THEN f[e] + 1 ELSE f[e]]
       IN  sent' = More(sent) /\ out' = More(out)
  /\ UNCHANGED <<booted, sounding, switches>>

Due == booted /\ now < target

Run ==
  /\ phase \in {"run", "wait"} /\ Due /\ Turn
  /\ UNCHANGED <<phase, target, clock, host>>

(* Interruption of the sound, bounded. *)
Reload(going) ==
  IF going THEN switches < MaxSwitches /\ switches' = switches + 1
           ELSE UNCHANGED switches

(* The program starts to sound; the OS loads another: IRQD goes off, ...   *)
SwitchSound ==
  /\ phase \in {"run", "wait"} /\ booted
  /\ sounding' = ~sounding /\ Reload(sounding)
  /\ UNCHANGED <<phase, target, clock, now, booted, nextIrqd, blocks, sent, out, missing, host>>

(* ... and between armBoot and the end of the boot the DSP stands still.   *)
SwitchBoot ==
  /\ phase \in IF booted THEN {"run", "wait"} ELSE {"cpu"}
  /\ booted' = ~booted /\ sounding' = FALSE /\ Reload(booted)
  /\ UNCHANGED <<phase, target, clock, now, nextIrqd, blocks, sent, out, missing, host>>

-----------------------------------------------------------------------------
(* The syncs of the CPU *)

BeginSync ==
  /\ phase = "cpu" /\ phase' = "run"
  /\ \E t \in clock .. clock + Quantum : t <= MaxTime /\ target' = t /\ clock' = t
  /\ UNCHANGED <<dsp, host>>

(* drainAudio, at the end of catchUp *)
DrainAudio ==
  /\ phase = "run" /\ ~Due /\ phase' = "flush"
  /\ staged' = [e \in Essis |-> staged[e] + out[e]] /\ out' = None
  /\ UNCHANGED <<target, clock, now, booted, sounding, nextIrqd, blocks, sent,
                 missing, switches, passed, played, wavFrames, wav, header>>

(* The callback of EmuHost records what is asked for and not yet there. *)
Record ==
  LET room == MaxWav - wavFrames
      more == IF Len(blocks) < room THEN Len(blocks) ELSE room
  IN  wav' = wav \o SubSeq(blocks, 1, more) /\ wavFrames' = wavFrames + more

Flushed ==
  /\ phase = "flush" /\ phase' = "cpu"
  /\ passed' = [e \in Essis |-> passed[e] + staged[e]] /\ staged' = None
  /\ played' = played \o blocks /\ Record
  /\ UNCHANGED <<target, clock, now, booted, sounding, nextIrqd, sent, out,
                 missing, switches, header>>

(* A slip: the blocks handed on are kept for the next sync too. *)
FlushTwice == Flushed /\ UNCHANGED blocks

(* flushAudio *)
FlushAudio == Flushed /\ blocks' = <<>>

(* An access of the host port runs the DSP alone, and hands nothing on. *)
BeginWait ==
  /\ phase = "cpu" /\ booted /\ now <= MaxTime
  /\ phase' = "wait" /\ target' = now + WaitClamp
  /\ UNCHANGED <<clock, dsp, host>>

EndWait ==
  /\ phase = "wait" /\ phase' = "cpu"
  /\ UNCHANGED <<target, clock, dsp, host>>

-----------------------------------------------------------------------------
(* EmuHost *)

(* stop joins the thread between two syncs; finishWav writes the header. *)
Stop ==
  /\ phase = "cpu" /\ phase' = "stopped"
  /\ header' = wavFrames
  /\ UNCHANGED <<target, clock, dsp, staged, passed, played, wavFrames, wav>>

(* The program is started again: start makes a new machine and a new file. *)
Start ==
  /\ phase = "stopped" /\ phase' = "cpu"
  /\ target' = 0 /\ clock' = 0 /\ now' = 0
  /\ booted' = FALSE /\ sounding' = FALSE /\ nextIrqd' = 0 /\ switches' = 0
  /\ blocks' = <<>> /\ played' = <<>> /\ missing' = {}
  /\ sent' = None /\ out' = None /\ staged' = None /\ passed' = None
  /\ wavFrames' = 0 /\ wav' = <<>> /\ header' = 0

Next ==
  \/ Run \/ SwitchSound \/ SwitchBoot
  \/ BeginSync \/ DrainAudio \/ FlushAudio \/ BeginWait \/ EndWait
  \/ Stop \/ Start

Spec == Init /\ [][Next]_vars

-----------------------------------------------------------------------------
(* Whatever syncs and waits cut a run into, the host plays the frame of    *)
(* every beat once and in order, but those at which nothing sounded, ...   *)
FramesInOrder ==
  LET all == played \o blocks
  IN  /\ \A i, j \in DOMAIN all : i < j => all[i] < all[j]
      /\ {all[i] : i \in DOMAIN all} \cup missing = 0 .. BlockOf(nextIrqd) - 1

(* ... and the beats keep to the cycles of the DSP, however far a JIT      *)
(* block runs past them: sound does not drift against the clock.           *)
BeatKept == now - StepTime < nextIrqd /\ nextIrqd <= now + Period

(* What an ESSI has sent is handed on once. *)
FramesKept == \A e \in Essis : passed[e] + staged[e] + out[e] = sent[e]

(* The file of a session holds its first frames, as many as asked for, and *)
(* once it is closed its header says how many.                             *)
RecordsOutput ==
  /\ wav = SubSeq(played, 1, IF Len(played) < MaxWav THEN Len(played) ELSE MaxWav)
  /\ phase = "stopped" => header = Len(wav)

(* What leaves the last DSP reaches the host whole.                        *)
OutputWhole == FramesInOrder /\ BeatKept /\ FramesKept /\ RecordsOutput
=============================================================================
