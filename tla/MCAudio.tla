------------------------------- MODULE MCAudio -------------------------------
(***************************************************************************)
(* Between the emulator and a sound card: the lock-free ring and the       *)
(* bridge above it (audiobridge.h), and the queue of alsaaudio.h, behind a *)
(* mutex.  They share no state: each behaviour is about one of them, and   *)
(* the others stay as they begin.                                          *)
(***************************************************************************)
EXTENDS FrameRing

CONSTANTS Rates, EmuRate, One, Cushion, Capacity, CardBlocks,
          Block, CushionBlocks, Limit

VARIABLES
  part,  \* what this behaviour is about
  rate, prefill, silent, out, in, outPos, inPos, epc, step, rpc, left, promised, drift,
  odd, fifo, quit, pc, buffering, written

bridge ==
  <<rate, prefill, silent, out, in, outPos, inPos, epc, step, rpc, left, promised, drift>>
alsa == <<odd, fifo, quit, pc, buffering, written>>

Brg == INSTANCE AudioBridge WITH Blocks <- CardBlocks, buffering <- silent
Als == INSTANCE AlsaAudio WITH Blocks <- CushionBlocks

ASSUME Brg!BridgeAssumption /\ Als!AlsaAssumption

MCInit ==
  /\ part \in {"ring", "bridge", "alsa"}
  /\ Init /\ Brg!Init /\ Als!Init
  /\ part # "bridge" => rate = EmuRate

MCNext ==
  \/ part = "ring" /\ Next /\ UNCHANGED <<part, bridge, alsa>>
  \/ part = "bridge" /\ Brg!Next /\ UNCHANGED <<part, vars, alsa>>
  \/ part = "alsa" /\ Als!Next /\ UNCHANGED <<part, vars, bridge>>

MCSpec ==
  /\ MCInit /\ [][MCNext]_<<part, vars, bridge, alsa>>
  /\ part = "bridge" => Brg!Fairness

FirstBlockPlays == Brg!FirstBlockPlays
NoDrift == Brg!NoDrift
PlayResumes == part = "bridge" => Brg!PlayResumes
CushionPlays == Als!CushionPlays
=============================================================================
