------------------------------ MODULE DspLink ------------------------------
(***************************************************************************)
(* The audio link between two neighbouring DSPs of the chain (g1dsp.cpp):  *)
(* the upstream DSP taps one block per sample period, the CPU thread hands *)
(* the blocks over with all DSPs stopped, and the downstream DSP takes at  *)
(* each word the block Latency periods old, or silence.  Time is counted   *)
(* in word times (96 DSP cycles).  Within a sync the two DSPs run in       *)
(* parallel; a host-port access lets one of them run ahead alone.          *)
(***************************************************************************)
EXTENDS Integers, Sequences

CONSTANTS BlockTime,  \* word times per block (9)
          Latency,    \* g_linkLatency, in blocks (8)
          Steps,      \* the lengths of the JIT blocks, in word times
          StepTime,   \* the longest of them
          Quantum,    \* the longest time between two syncs (42)
          WaitClamp,  \* g_waitClamp, in word times (2083)
          MaxIn,      \* cap of m_linkIn, in blocks (10000)
          MaxTime,    \* bound on the CPU clock
          MaxSwitches \* bound on the reloads of either DSP

ASSUME LinkAssumption ==
  /\ BlockTime \in Nat \ {0, 1} /\ Latency \in Nat \ {0}
  /\ StepTime \in Nat \ {0} /\ Steps \subseteq 1 .. StepTime
  /\ Quantum \in Nat \ {0} /\ WaitClamp \in Nat
  /\ MaxIn \in Nat \ {0} /\ MaxTime \in Nat /\ MaxSwitches \in Nat

Dsps == {"up", "down"}

VARIABLES
  phase,      \* "cpu", "run" (inside a sync) or the DSP a host access runs
  target,     \* the target of the current sync, or of the last one
  stop,       \* where a host access stops waiting
  now,        \* m_dsp.getCycles() of each DSP
  booted,     \* m_booted of each DSP: without a program a DSP does not run
  nextIrqd,   \* m_nextIrqd upstream
  irqd,       \* irqdEnabled() upstream: off while the OS reloads it
  linkOut,    \* indices of the blocks upstream has tapped
  linkIn,     \* indices of the blocks downstream has received
  handed,     \* history: upstream's time at the last hand-over
  missing,    \* history: blocks never tapped, or cut by the cap; a JIT
              \*   block (a `rep`, say) may pass over several of them
  switches,   \* how often either DSP was taken into or out of a reload
  gap         \* history: a word that has just come as silence although the
              \*   latency had elapsed: the block it wanted, and how far
              \*   downstream was ahead of handed

vars == <<phase, target, stop, now, booted, nextIrqd, irqd, linkOut, linkIn,
          handed, missing, switches, gap>>

NoGap == [block |-> 0, lead |-> 0]

Horizon == MaxTime + WaitClamp + StepTime + BlockTime

TypeOK ==
  /\ phase \in {"cpu", "run"} \cup Dsps
  /\ target \in 0 .. MaxTime
  /\ stop \in 0 .. Horizon
  /\ now \in [Dsps -> 0 .. Horizon]
  /\ booted \in [Dsps -> BOOLEAN]
  /\ nextIrqd \in 0 .. Horizon
  /\ irqd \in BOOLEAN
  /\ linkOut \in Seq(0 .. Horizon) /\ linkIn \in Seq(0 .. Horizon)
  /\ Len(linkIn) <= MaxIn
  /\ handed \in 0 .. Horizon
  /\ missing \subseteq 0 .. Horizon
  /\ switches \in 0 .. MaxSwitches
  /\ gap \in [block : 0 .. Horizon, lead : Int]

Init ==
  /\ phase = "cpu" /\ target = 0 /\ stop = 0
  /\ now = [d \in Dsps |-> 0]
  /\ booted = [d \in Dsps |-> TRUE]
  /\ nextIrqd = 0 /\ irqd = TRUE
  /\ linkOut = <<>> /\ linkIn = <<>>
  /\ handed = 0 /\ missing = {}
  /\ switches = 0 /\ gap = NoGap

-----------------------------------------------------------------------------
(* Upstream *)

BlockOf(t) == t \div BlockTime

(* The IRQD grid: one period on, or re-locked if it fell far behind. *)
NextGrid(before) ==
  IF before - nextIrqd > 4 * BlockTime
  THEN (BlockOf(before) + 1) * BlockTime
  ELSE nextIrqd + BlockTime

(* tapLink: the index is that of the block just finished. *)
Finished(before) == IF BlockOf(before) = 0 THEN {} ELSE {BlockOf(before) - 1}

(* One turn of runUntil upstream: at a beat it taps the block finished, if *)
(* IRQD is enabled; no beat taps a block that began and ended inside the   *)
(* JIT block that follows.  A grid that is behind has a beat each turn.    *)
RunUp ==
  LET before == now["up"]
      beat == before >= nextIrqd
  IN  \E len \in Steps :
        /\ now' = [now EXCEPT !["up"] = before + len]
        /\ nextIrqd' = IF beat THEN NextGrid(before) ELSE nextIrqd
        /\ linkOut' = IF beat /\ irqd /\ Finished(before) # {}
                      THEN Append(linkOut, BlockOf(before) - 1) ELSE linkOut
        /\ missing' = missing
             \cup (IF beat /\ ~irqd THEN Finished(before) ELSE {})
             \cup BlockOf(before) .. BlockOf(before + len) - 2
        /\ gap' = NoGap /\ UNCHANGED linkIn

-----------------------------------------------------------------------------
(* Downstream *)

(* The block readLink wants for a word received at time t. *)
Wanted(t) == IF BlockOf(t) > Latency THEN BlockOf(t) - Latency ELSE 0

(* A slip: the last block is dropped although it is the one wanted. *)
DrainedTooFar(q, block) == SelectSeq(q, LAMBDA i : i > block)

(* Blocks no longer needed are dropped from the front of m_linkIn. *)
Drained(q, block) ==
  LET old == {i \in 2 .. Len(q) : q[i] <= block}
  IN  IF old = {} THEN q
      ELSE SubSeq(q, CHOOSE i \in old : \A j \in old : j <= i, Len(q))

(* One turn of runUntil downstream: the ESSI may ask for a frame, whose    *)
(* two words arrive now and one word time later; the outcome of either is  *)
(* recorded.                                                               *)
RunDown ==
  /\ LET t == now["down"]
         Silent(s) ==
           LET q == Drained(linkIn, Wanted(t + s))
           IN  q = <<>> \/ Head(q) # Wanted(t + s)
         Late == {s \in {0, 1} : BlockOf(t + s) > Latency /\ Silent(s)}
     IN  /\ linkIn' = Drained(linkIn, Wanted(t + 1))
         /\ IF Late = {} THEN gap' = NoGap
            ELSE \E s \in Late :
                   gap' = [block |-> Wanted(t + s), lead |-> t + s - handed]
  /\ \E len \in Steps : now' = [now EXCEPT !["down"] = @ + len]
  /\ UNCHANGED <<nextIrqd, linkOut, missing>>

Run(d) == IF d = "up" THEN RunUp ELSE RunDown

-----------------------------------------------------------------------------
(* The CPU thread *)

(* catchUpDsps publishes a target. *)
BeginSync ==
  /\ phase = "cpu"
  /\ \E t \in target .. target + Quantum : t <= MaxTime /\ target' = t
  /\ phase' = "run"
  /\ gap' = NoGap
  /\ UNCHANGED <<stop, now, booted, nextIrqd, irqd, linkOut, linkIn, handed, missing, switches>>

Due(d) == booted[d] /\ now[d] < target

RunInSync(d) ==
  /\ phase = "run" /\ Due(d)
  /\ Run(d)
  /\ UNCHANGED <<phase, target, stop, booted, irqd, handed, switches>>

(* A slip: the blocks handed over are not cleared. *)
HandOverTwice ==
  /\ phase = "run" /\ \A d \in Dsps : ~Due(d)
  /\ LET all == linkIn \o linkOut
         cut == IF Len(all) > MaxIn THEN Len(all) - MaxIn ELSE 0
     IN  /\ linkIn' = SubSeq(all, cut + 1, Len(all))
         /\ missing' = missing \cup {all[i] : i \in 1 .. cut}
  /\ handed' = now["up"]
  /\ phase' = "cpu"
  /\ gap' = NoGap
  /\ UNCHANGED <<target, stop, now, booted, nextIrqd, irqd, linkOut, switches>>

(* flushAudio: with all DSPs stopped the blocks go downstream, capped. *)
HandOver ==
  /\ phase = "run" /\ \A d \in Dsps : ~Due(d)
  /\ LET all == linkIn \o linkOut
         cut == IF Len(all) > MaxIn THEN Len(all) - MaxIn ELSE 0
     IN  /\ linkIn' = SubSeq(all, cut + 1, Len(all))
         /\ missing' = missing \cup {all[i] : i \in 1 .. cut}
  /\ linkOut' = <<>>
  /\ handed' = now["up"]
  /\ phase' = "cpu"
  /\ gap' = NoGap
  /\ UNCHANGED <<target, stop, now, booted, nextIrqd, irqd, switches>>

(* After the sync of a host-port access, the callbacks of the port may let *)
(* their DSP run by itself: hostWord, hostCommand, readIsr and RxEmpty.    *)
BeginWait(d) ==
  /\ phase = "cpu" /\ booted[d] /\ now[d] <= MaxTime
  /\ phase' = d
  /\ stop' = now[d] + WaitClamp
  /\ gap' = NoGap
  /\ UNCHANGED <<target, now, booted, nextIrqd, irqd, linkOut, linkIn, handed, missing, switches>>

RunInWait(d) ==
  /\ phase = d /\ booted[d] /\ now[d] < stop
  /\ Run(d)
  /\ UNCHANGED <<phase, target, stop, booted, irqd, handed, switches>>

EndWait ==
  /\ phase \in Dsps
  /\ phase' = "cpu" /\ stop' = 0
  /\ gap' = NoGap
  /\ UNCHANGED <<target, now, booted, nextIrqd, irqd, linkOut, linkIn, handed, missing, switches>>

(* The OS reloads a DSP: the program upstream disables IRQD around it, and *)
(* a program that jumps to the boot ROM stands still until the CPU has sent *)
(* the next one.                                                           *)
SwitchIrqd ==
  /\ switches < MaxSwitches
  /\ booted["up"] /\ phase \in {"run", "up"}
  /\ switches' = switches + 1
  /\ irqd' = ~irqd
  /\ gap' = NoGap
  /\ UNCHANGED <<phase, target, stop, now, booted, nextIrqd, linkOut, linkIn, handed, missing>>

SwitchBoot(d) ==
  /\ switches < MaxSwitches
  /\ phase \in IF booted[d] THEN {"run", d} ELSE {"cpu"}
  /\ switches' = switches + 1
  /\ booted' = [booted EXCEPT ![d] = ~@]
  /\ gap' = NoGap
  /\ UNCHANGED <<phase, target, stop, now, nextIrqd, irqd, linkOut, linkIn, handed, missing>>

Next ==
  \/ BeginSync \/ HandOver \/ EndWait \/ SwitchIrqd
  \/ \E d \in Dsps :
       RunInSync(d) \/ BeginWait(d) \/ RunInWait(d) \/ SwitchBoot(d)

Spec == Init /\ [][Next]_vars

-----------------------------------------------------------------------------
(* The blocks travel in order, across syncs, waits, reloads, and a grid    *)
(* that catches up or locks anew.  None is numbered twice, unless a JIT    *)
(* block longer than a period left the grid behind: the beats that catch   *)
(* up all tap the block just finished, and readLink takes the last.        *)
LinkOrdered ==
  LET all == linkIn \o linkOut
  IN  \A i, j \in DOMAIN all :
        i < j => \/ all[i] < all[j]
                 \/ StepTime > BlockTime /\ all[i] = all[j]

(* A block is tapped within this time of its end, or never. *)
TapDelay == IF StepTime < BlockTime THEN StepTime ELSE BlockTime

(* How far downstream may run past the time up to which upstream's blocks  *)
(* were handed over without missing one.                                   *)
Margin == (Latency - 1) * BlockTime - TapDelay

(* Within that margin, once the latency has elapsed, silence is only taken *)
(* for a block that does not exist: upstream was not running its block     *)
(* routine or passed over it in one JIT block, or the cap cut it.          *)
ArrivedWithinMargin ==
  gap # NoGap /\ gap.lead <= Margin => gap.block \in missing

(* g1dsp.cpp:46-48: the receiver takes the block from g_linkLatency blocks *)
(* ago, "which has surely arrived".                                        *)
SurelyArrived ==
  gap # NoGap => gap.block \in missing
=============================================================================
