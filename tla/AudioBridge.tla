---------------------------- MODULE AudioBridge ----------------------------
(***************************************************************************)
(* audiobridge.h: the emulator thread pushes samples at the G1's rate, the *)
(* audio thread renders blocks at the card's rate, and a DSP pulls the     *)
(* input back at the G1's rate.  The two rings are the counts of the       *)
(* frames they hold (FrameRing says what a ring is).  Resampling positions *)
(* are exact: One units are one sample of the source of the conversion.    *)
(***************************************************************************)
EXTENDS Integers

CONSTANTS Rates,      \* card rates, in the unit in which the G1's is EmuRate
          EmuRate,    \* 96000
          One,        \* position units per source sample
          Cushion,    \* prefill frames per unit of rate (0.03 s)
          Capacity,   \* frames a ring holds (32768)
          Blocks      \* the sizes of the card's blocks

(* Positions are whole, the trimming level fits the ring, and a block is   *)
(* no longer than three cushions (90 ms): after a longer one playing only  *)
(* resumes if the emulator has fed the ring before the next.               *)
BridgeAssumption ==
  /\ EmuRate \in Nat \ {0} /\ One \in Nat \ {0} /\ Cushion \in Nat \ {0}
  /\ Capacity \in Nat
  /\ \A r \in Rates :
       /\ r \in Nat \ {0}
       /\ (One * EmuRate) % r = 0 /\ (One * r) % EmuRate = 0
       /\ 4 * r * Cushion < Capacity
       /\ \A b \in Blocks : b \in Nat \ {0} /\ b <= 3 * r * Cushion

VARIABLES
  rate,        \* m_rate
  prefill,     \* m_prefill
  buffering,   \* m_buffering
  out,         \* frames in m_out
  in,          \* frames in m_in
  outPos,      \* m_outPos
  inPos,       \* m_inPos
  epc,         \* the emulator thread: "idle" or "emit", inside push
  step,        \* push's step, read from m_rate when it starts
  rpc,         \* the audio thread: "idle", "frame" or "trim", inside render
  left,        \* frames this render still has to produce
  promised,    \* history: m_buffering was cleared by this render call
  drift        \* history: card time made minus G1 time fed, in units of One

emulator == <<outPos, epc, step, drift>>
device == <<buffering, rpc, left, promised>>
vars == <<rate, prefill, buffering, out, in, outPos, inPos, epc, step,
          rpc, left, promised, drift>>

MaxStep == (One * EmuRate) \div (CHOOSE r \in Rates : \A s \in Rates : r <= s)

TypeOK ==
  /\ rate \in Rates
  /\ prefill \in {r * Cushion : r \in Rates}
  /\ buffering \in BOOLEAN /\ promised \in BOOLEAN
  /\ out \in 0 .. Capacity /\ in \in 0 .. Capacity
  /\ outPos \in 0 .. One + MaxStep
  /\ inPos \in 0 .. One - 1
  /\ epc \in {"idle", "emit"}
  /\ step \in {(One * EmuRate) \div r : r \in Rates}
  /\ rpc \in {"idle", "frame", "trim"}
  /\ left \in 0 .. CHOOSE b \in Blocks : \A c \in Blocks : b >= c

Init ==
  /\ rate \in Rates
  /\ prefill = rate * Cushion
  /\ buffering = TRUE
  /\ out = 0 /\ in = 0 /\ outPos = 0 /\ inPos = 0
  /\ epc = "idle" /\ step = (One * EmuRate) \div rate
  /\ rpc = "idle" /\ left = 0 /\ promised = FALSE
  /\ drift = 0

(* The device opens again, at this or another rate: between two callbacks, *)
(* but whatever the emulator thread is doing.                              *)
SetRate(r) ==
  /\ rpc = "idle"
  /\ rate' = r
  /\ prefill' = r * Cushion
  /\ buffering' = TRUE
  /\ UNCHANGED <<out, in, inPos, rpc, left, promised, emulator>>

-----------------------------------------------------------------------------
(* Emulator thread *)

(* push is called with one sample of the G1. *)
Push ==
  /\ epc = "idle"
  /\ epc' = "emit"
  /\ step' = (One * EmuRate) \div rate
  /\ UNCHANGED <<rate, prefill, out, in, inPos, outPos, drift, device>>

(* One turn of its loop: a frame for the card, dropped if the ring is full.*)
Emit ==
  /\ epc = "emit" /\ outPos < One
  /\ out' = IF out < Capacity THEN out + 1 ELSE out
  /\ outPos' = outPos + step
  /\ drift' = drift + step
  /\ UNCHANGED <<rate, prefill, in, inPos, epc, step, device>>

(* A slip: the fraction of a sample left over is forgotten. *)
EndPushForgetful ==
  /\ epc = "emit" /\ outPos >= One
  /\ outPos' = 0
  /\ drift' = drift - One
  /\ epc' = "idle"
  /\ UNCHANGED <<rate, prefill, out, in, inPos, step, device>>

EndPush ==
  /\ epc = "emit" /\ outPos >= One
  /\ outPos' = outPos - One
  /\ drift' = drift - One
  /\ epc' = "idle"
  /\ UNCHANGED <<rate, prefill, out, in, inPos, step, device>>

(* pullInput, on the thread of DSP 0, which is the emulator thread: takes  *)
(* the frames due, and holds the last one when the ring runs out.          *)
PullInput ==
  /\ epc = "idle"
  /\ LET pos == inPos + (One * rate) \div EmuRate
         due == pos \div One
     IN  /\ inPos' = pos % One
         /\ in' = IF in > due THEN in - due ELSE 0
  /\ UNCHANGED <<rate, prefill, out, emulator, device>>

-----------------------------------------------------------------------------
(* Audio thread *)

(* A slip: playing resumes with the cushion alone. *)
RenderEager(b) ==
  /\ rpc = "idle"
  /\ rpc' = "frame"
  /\ left' = b
  /\ promised' = (buffering /\ out >= prefill)
  /\ buffering' = (buffering /\ out < prefill)
  /\ UNCHANGED <<rate, prefill, out, in, inPos, emulator>>

Render(b) ==
  /\ rpc = "idle"
  /\ rpc' = "frame"
  /\ left' = b
  /\ promised' = (buffering /\ out >= prefill + b)
  /\ buffering' = (buffering /\ out < prefill + b)
  /\ UNCHANGED <<rate, prefill, out, in, inPos, emulator>>

(* One frame: popped, or silence while buffering and from a gap on; and    *)
(* one frame of input, dropped if the ring is full.                        *)
RenderFrame ==
  /\ rpc = "frame" /\ left > 0
  /\ out' = IF ~buffering /\ out > 0 THEN out - 1 ELSE out
  /\ buffering' = (buffering \/ out = 0)
  /\ in' = IF in < Capacity THEN in + 1 ELSE in
  /\ left' = left - 1
  /\ UNCHANGED <<rate, prefill, inPos, rpc, promised, emulator>>

EndFrames ==
  /\ rpc = "frame" /\ left = 0
  /\ rpc' = "trim"
  /\ UNCHANGED <<rate, prefill, buffering, out, in, inPos, left, promised, emulator>>

(* A slip: the whole cushion is thrown away. *)
TrimAll ==
  /\ rpc = "trim"
  /\ IF out > prefill \div 4
     THEN out' = out - 1 /\ UNCHANGED <<rpc, promised>>
     ELSE rpc' = "idle" /\ promised' = FALSE /\ UNCHANGED out
  /\ UNCHANGED <<rate, prefill, buffering, in, inPos, left, emulator>>

(* One turn of the trimming loop, or the return. *)
Trim ==
  /\ rpc = "trim"
  /\ IF out > prefill * 4
     THEN out' = out - 1 /\ UNCHANGED <<rpc, promised>>
     ELSE rpc' = "idle" /\ promised' = FALSE /\ UNCHANGED out
  /\ UNCHANGED <<rate, prefill, buffering, in, inPos, left, emulator>>

(* The card stops, or the user picks another: its rate comes with it. *)
Reopen == \E r \in Rates : SetRate(r)

EmulatorStep == Push \/ Emit \/ EndPush
RenderStep == (\E b \in Blocks : Render(b)) \/ RenderFrame \/ EndFrames \/ Trim

Next ==
  \/ EmulatorStep
  \/ PullInput
  \/ RenderStep
  \/ Reopen

Spec == Init /\ [][Next]_vars

(* The emulator runs in real time and the card asks for blocks for ever.   *)
(* The trimming loop is bounded only by its speed: a turn takes nanoseconds *)
(* and a sample of the emulator ten microseconds, so it ends.              *)
Fairness ==
  WF_vars(EmulatorStep) /\ WF_vars(RenderStep) /\ []<>(rpc # "trim")

FairSpec == Spec /\ Fairness

-----------------------------------------------------------------------------
(* A render call that stops buffering plays its whole block: what it found *)
(* in the ring cannot be taken away by the emulator thread, so the first   *)
(* block after a gap has no gap.                                           *)
FirstBlockPlays ==
  promised /\ rpc = "frame" => ~buffering /\ out >= left

(* Card time made and G1 time fed stay within one step of each other: no   *)
(* sample is lost or repeated by the conversion, in the long run and       *)
(* across changes of rate.                                                 *)
NoDrift == drift \in 0 .. One + MaxStep

(* While both threads run, silence does not last: the cushion fills and    *)
(* playing resumes.                                                        *)
PlayResumes == []<>(~buffering)
=============================================================================
