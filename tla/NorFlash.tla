------------------------------ MODULE NorFlash ------------------------------
(***************************************************************************)
(* What a flash memory promises (g1flash.h): a byte is programmed, which   *)
(* only clears bits, or a sector or the chip is erased; and each of these  *)
(* is counted, because EmuHost saves the flash when a count has changed.   *)
(* A byte is the set of its bits that are one.                             *)
(***************************************************************************)
EXTENDS Integers, FiniteSets

CONSTANTS Sectors,
          Lows,     \* the offsets in a sector
          Bytes,    \* the bytes the CPU writes
          Wrap      \* the counters are modulo Wrap (2^32)

Bits == 0 .. 7
Erased == Bits
Offsets == Sectors \X Lows

ASSUME FlashAssumption ==
  /\ IsFiniteSet(Sectors) /\ Bytes \subseteq SUBSET Bits
  /\ Wrap \in Nat /\ Cardinality(Sectors) \in 1 .. Wrap - 1

VARIABLES data,       \* m_data
          programmed, \* m_programmed
          erased      \* m_erased

nor == <<data, programmed, erased>>

NorTypeOK ==
  /\ data \in [Offsets -> SUBSET Bits]
  /\ programmed \in 0 .. Wrap - 1 /\ erased \in 0 .. Wrap - 1

NorInit ==
  /\ data = [o \in Offsets |-> Erased]
  /\ programmed = 0 /\ erased = 0

Program(o, byte) ==
  /\ data' = [data EXCEPT ![o] = @ \cap byte]
  /\ programmed' = (programmed + 1) % Wrap
  /\ UNCHANGED erased

(* A slip: a chip erase is not counted. *)
EraseUncounted(some) ==
  /\ data' = [o \in Offsets |-> IF o[1] \in some THEN Erased ELSE data[o]]
  /\ erased' = IF Cardinality(some) = 1 THEN (erased + 1) % Wrap ELSE erased
  /\ UNCHANGED programmed

Erase(some) ==
  /\ data' = [o \in Offsets |-> IF o[1] \in some THEN Erased ELSE data[o]]
  /\ erased' = (erased + Cardinality(some)) % Wrap
  /\ UNCHANGED programmed

NorNext ==
  \/ \E o \in Offsets, byte \in Bytes : Program(o, byte)
  \/ \E s \in Sectors : Erase({s})
  \/ Erase(Sectors)

NorSpec == NorInit /\ [][NorNext]_nor
=============================================================================
