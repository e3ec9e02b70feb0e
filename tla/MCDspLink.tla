------------------------------ MODULE MCDspLink ------------------------------
(***************************************************************************)
(* The chain of DSPs: the link between two of them, and the way out of the *)
(* last one.  Each behaviour is about one of the two.                      *)
(***************************************************************************)
EXTENDS DspLink

CONSTANTS Period, OutputStep, OutputQuantum, OutputWait, OutputTime,
          OutputSwitches, MaxSent, MaxWav

VARIABLES
  part,  \* what this behaviour is about
  outPhase, outTarget, clock, cycles, running, sounding, nextBeat,
  blocks, sent, out, staged, passed, played, silent, reloads,
  wavFrames, wav, header

output ==
  <<outPhase, outTarget, clock, cycles, running, sounding, nextBeat,
    blocks, sent, out, staged, passed, played, silent, reloads,
    wavFrames, wav, header>>

Cdc == INSTANCE Codec
         WITH phase <- outPhase, target <- outTarget, now <- cycles,
              booted <- running, nextIrqd <- nextBeat,
              missing <- silent, switches <- reloads,
              StepTime <- OutputStep, Quantum <- OutputQuantum,
              WaitClamp <- OutputWait, MaxTime <- OutputTime,
              MaxSwitches <- OutputSwitches

ASSUME Cdc!CodecAssumption

MCInit == part \in {"link", "output"} /\ Init /\ Cdc!Init

MCNext ==
  \/ part = "link" /\ Next /\ UNCHANGED <<part, output>>
  \/ part = "output" /\ Cdc!Next /\ UNCHANGED <<part, vars>>

MCSpec == MCInit /\ [][MCNext]_<<part, vars, output>>

OutputWhole == Cdc!OutputWhole
=============================================================================
