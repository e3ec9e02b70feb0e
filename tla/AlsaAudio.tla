------------------------------- MODULE AlsaAudio -------------------------------
(***************************************************************************)
(* alsaaudio.h: the emulator thread pushes frames at twice the card's rate *)
(* into a queue, and a thread of its own writes them to the card in blocks.*)
(* After a gap, whoever's fault, it waits for a cushion of frames.        *)
(***************************************************************************)
EXTENDS Integers

CONSTANTS Block,   \* frames per write
          Blocks,  \* the cushion, in blocks (6): Prefill
          Limit    \* the frames the queue may hold (a second of sound)

AlsaAssumption ==
  /\ Block \in Nat \ {0} /\ Blocks \in Nat \ {0} /\ Limit \in Nat
  /\ Blocks * Block <= Limit

VARIABLES
  odd,        \* m_accCount: half of a frame has been pushed
  fifo,       \* frames in m_fifo
  quit,       \* m_quit
  pc,         \* run: "test", "lock", "write", or "end" when it has returned
  buffering,  \* its local variable
  written     \* history: the blocks taken since the last gap, up to Blocks

vars == <<odd, fifo, quit, pc, buffering, written>>

TypeOK ==
  /\ odd \in BOOLEAN /\ quit \in BOOLEAN /\ buffering \in BOOLEAN
  /\ fifo \in 0 .. Limit
  /\ pc \in {"test", "lock", "write", "end"}
  /\ written \in 0 .. Blocks

Prefill == Blocks * Block

Init ==
  /\ odd = FALSE /\ fifo = 0 /\ quit = FALSE
  /\ pc = "test" /\ buffering = TRUE /\ written = 0

-----------------------------------------------------------------------------
(* push: two of the emulator's frames are one of the card's, dropped when  *)
(* the queue holds a second of sound.                                      *)
Push ==
  /\ ~quit
  /\ odd' = ~odd
  /\ fifo' = IF odd /\ fifo < Limit THEN fifo + 1 ELSE fifo
  /\ UNCHANGED <<quit, pc, buffering, written>>

Test ==
  /\ pc = "test"
  /\ pc' = IF quit THEN "end" ELSE "lock"
  /\ UNCHANGED <<odd, fifo, quit, buffering, written>>

Playing == ~buffering \/ fifo >= Prefill

(* The locked section: a block is taken, ... *)
TakeBlock ==
  /\ pc = "lock" /\ Playing /\ fifo >= Block
  /\ fifo' = fifo - Block
  /\ buffering' = FALSE
  /\ written' = IF written < Blocks THEN written + 1 ELSE written
  /\ pc' = "write"
  /\ UNCHANGED <<odd, quit>>

(* ... or there is none and run sleeps a millisecond: a gap, unless it has *)
(* been waiting for the cushion.                                           *)
FindNone ==
  /\ pc = "lock" /\ ~(Playing /\ fifo >= Block)
  /\ written' = IF buffering THEN written ELSE 0
  /\ buffering' = TRUE
  /\ pc' = "test"
  /\ UNCHANGED <<odd, fifo, quit>>

WriteDone ==
  /\ pc = "write" /\ pc' = "test"
  /\ UNCHANGED <<odd, fifo, quit, buffering, written>>

(* A slip: the card is opened again, and playing goes on at once. *)
WriteFailsGoOn ==
  /\ pc = "write" /\ pc' = "test"
  /\ written' = 0
  /\ UNCHANGED <<odd, fifo, quit, buffering>>

(* The card had run dry, or was suspended: this block is lost. *)
WriteFails ==
  /\ pc = "write" /\ pc' = "test"
  /\ buffering' = TRUE /\ written' = 0
  /\ UNCHANGED <<odd, fifo, quit>>

(* The destructor, when the emulator has stopped, and the next one opened. *)
Close ==
  /\ ~quit /\ quit' = TRUE
  /\ UNCHANGED <<odd, fifo, pc, buffering, written>>

Open ==
  /\ pc = "end" /\ pc' = "test" /\ quit' = FALSE
  /\ odd' = FALSE /\ fifo' = 0
  /\ buffering' = TRUE /\ written' = 0

Next ==
  \/ Push
  \/ Test \/ TakeBlock \/ FindNone \/ WriteDone \/ WriteFails
  \/ Close \/ Open

Spec == Init /\ [][Next]_vars

-----------------------------------------------------------------------------
(* The emulator is found late.                                             *)
Gap == pc = "lock" /\ ~buffering /\ buffering'

(* "30 ms cushion after a dropout" (alsaaudio.h:27): after a gap or a card *)
(* that failed, however they follow each other, there is no further gap of *)
(* the emulator's making before the whole cushion has been played.         *)
CushionPlays == [][Gap => written = Blocks]_vars
=============================================================================
