----------------------------- MODULE DspBarrier -----------------------------
(***************************************************************************)
(* What Microcontroller::catchUpDsps promises its callers: the four DSPs   *)
(* are brought to the CPU's clock in rounds.  A round runs every DSP       *)
(* exactly once, to the clock at which the round began; the clock moves,   *)
(* the audio is handed over and the host ports are touched only between    *)
(* rounds, when no DSP owes a run.  How threads achieve it is DspSync.     *)
(***************************************************************************)
EXTENDS Naturals

CONSTANTS Dsps,      \* the DSPs of the chain
          MaxClock   \* bound on the CPU clock, counted in sync quanta

VARIABLES phase,     \* "idle", "round" or "stopped"
          clock,     \* the CPU clock, as the DSPs' target cycle
          todo,      \* the DSPs this round has not run yet
          ran        \* the target each DSP was last run to

vars == <<phase, clock, todo, ran>>

TypeOK ==
  /\ phase \in {"idle", "round", "stopped"}
  /\ clock \in 0 .. MaxClock
  /\ todo \in SUBSET Dsps
  /\ ran \in [Dsps -> 0 .. MaxClock]

Init ==
  /\ phase = "idle"
  /\ clock = 0
  /\ todo = {}
  /\ ran = [d \in Dsps |-> 0]

(* The CPU executes instructions. *)
Tick ==
  /\ phase = "idle"
  /\ clock < MaxClock
  /\ clock' = clock + 1
  /\ UNCHANGED <<phase, todo, ran>>

(* A round begins: every DSP owes one run. *)
Begin ==
  /\ phase = "idle"
  /\ phase' = "round"
  /\ todo' = Dsps
  /\ UNCHANGED <<clock, ran>>

(* Some of the DSPs that owe a run make it, to the clock of the round. *)
Run(group) ==
  /\ phase = "round"
  /\ group \subseteq todo
  /\ ran' = [d \in Dsps |-> IF d \in group THEN clock ELSE ran[d]]
  /\ todo' = todo \ group
  /\ UNCHANGED <<phase, clock>>

(* Every DSP has run: the audio is handed over and the CPU continues. *)
Finish ==
  /\ phase = "round"
  /\ todo = {}
  /\ phase' = "idle"
  /\ UNCHANGED <<clock, todo, ran>>

(* The machine is destroyed, between rounds. *)
Stop ==
  /\ phase = "idle"
  /\ phase' = "stopped"
  /\ UNCHANGED <<clock, todo, ran>>

Next ==
  \/ Tick
  \/ Begin
  \/ \E group \in (SUBSET Dsps) \ {{}} : Run(group)
  \/ Finish
  \/ Stop

Spec == Init /\ [][Next]_vars

(* A round that has begun completes: each DSP that owes a run makes it.    *)
Fairness ==
  /\ WF_vars(\E group \in (SUBSET Dsps) \ {{}} : Run(group))
  /\ WF_vars(Finish)

FairSpec == Spec /\ Fairness
=============================================================================
