------------------------------- MODULE Flash -------------------------------
(***************************************************************************)
(* The Am29F080 at $300000 (g1flash.h): its 8-bit command set, which turns *)
(* the writes of the CPU into programming and erasing.                     *)
(***************************************************************************)
EXTENDS NorFlash, Sequences

CONSTANTS At555, At2AA  \* the offsets whose low eleven bits are $555 and $2AA

ASSUME CommandAssumption == {At555, At2AA} \subseteq Lows /\ At555 # At2AA

xAA == {1, 3, 5, 7}
x55 == {0, 2, 4, 6}
xF0 == {4, 5, 6, 7}
xA0 == {5, 7}
x90 == {4, 7}
x80 == {7}
x30 == {4, 5}
x10 == {4}

VARIABLES state,      \* m_state
          autoselect, \* m_autoselect: reads return the ids, not the contents
          sequence    \* history: the writes since state was last Idle

chip == <<nor, state, autoselect, sequence>>

States == {"Idle", "Unlock1", "Unlock2", "Program",
           "EraseSetup", "EraseUnlock1", "EraseUnlock2"}

FlashTypeOK ==
  /\ NorTypeOK
  /\ state \in States /\ autoselect \in BOOLEAN
  /\ sequence \in Seq([at : Lows, byte : Bytes]) /\ Len(sequence) <= 5

FlashInit == NorInit /\ state = "Idle" /\ autoselect = FALSE /\ sequence = <<>>

-----------------------------------------------------------------------------
(* The steps of the command sequences; any other write leads back to Idle. *)
Steps ==
  {<<"Idle", At555, xAA, "Unlock1">>, <<"Unlock1", At2AA, x55, "Unlock2">>,
   <<"Unlock2", At555, xA0, "Program">>, <<"Unlock2", At555, x80, "EraseSetup">>,
   <<"EraseSetup", At555, xAA, "EraseUnlock1">>,
   <<"EraseUnlock1", At2AA, x55, "EraseUnlock2">>}

(* The byte after the program command is data, even if it is $F0. *)
ProgramByte(o, byte) ==
  /\ state = "Program" /\ Program(o, byte)
  /\ state' = "Idle" /\ UNCHANGED autoselect

Reset(byte) ==
  /\ state # "Program" /\ byte = xF0
  /\ state' = "Idle" /\ autoselect' = FALSE
  /\ UNCHANGED nor

(* A slip: erasing the chip is not counted. *)
EraseSectorsUncounted(o, byte) ==
  /\ state = "EraseUnlock2" /\ state' = "Idle"
  /\ \/ /\ byte = x10 /\ o[2] = At555
        /\ data' = [p \in Offsets |-> Erased] /\ UNCHANGED <<programmed, erased>>
     \/ byte = x30 /\ Erase({o[1]})
  /\ UNCHANGED autoselect

EraseSectors(o, byte) ==
  /\ state = "EraseUnlock2" /\ state' = "Idle"
  /\ \/ byte = x10 /\ o[2] = At555 /\ Erase(Sectors)
     \/ byte = x30 /\ Erase({o[1]})
  /\ UNCHANGED autoselect

EraseCommand(o, byte) ==
  state = "EraseUnlock2" /\ (byte = x30 \/ (byte = x10 /\ o[2] = At555))

(* Where the step leads that a write takes, if it is one. *)
Following(o, byte) ==
  {t[4] : t \in {u \in Steps : u[1] = state /\ u[2] = o[2] /\ u[3] = byte}}

Advance(o, byte) ==
  /\ state # "Program" /\ byte # xF0 /\ ~EraseCommand(o, byte)
  /\ IF Following(o, byte) = {} THEN state' = "Idle" ELSE state' \in Following(o, byte)
  /\ autoselect' = (autoselect \/ (state = "Unlock2" /\ o[2] = At555 /\ byte = x90))
  /\ UNCHANGED nor

(* write *)
Write(o, byte) ==
  /\ \/ ProgramByte(o, byte) \/ Reset(byte)
     \/ EraseSectors(o, byte) \/ Advance(o, byte)
  /\ sequence' = IF state' = "Idle" THEN <<>>
                 ELSE Append(sequence, [at |-> o[2], byte |-> byte])

FlashNext == \E o \in Offsets, byte \in Bytes : Write(o, byte)

FlashSpec == FlashInit /\ [][FlashNext]_chip

-----------------------------------------------------------------------------
Is(n, at, byte) == sequence[n].at = at /\ sequence[n].byte = byte
Unlocked == Is(1, At555, xAA) /\ Is(2, At2AA, x55)

(* Nothing is programmed or erased but by the whole of its command, with   *)
(* no other write in between: three writes before the byte, five before    *)
(* the sector.  A stray or interrupted command of the OS destroys nothing. *)
ByCommand ==
  \/ UNCHANGED nor
  \/ /\ Len(sequence) = 3 /\ Unlocked /\ Is(3, At555, xA0)
     /\ UNCHANGED erased
  \/ /\ Len(sequence) = 5 /\ Unlocked /\ Is(3, At555, x80)
     /\ Is(4, At555, xAA) /\ Is(5, At2AA, x55)
     /\ UNCHANGED programmed
OnlyByCommand == [][ByCommand]_chip

(* The commands only ever clear bits or erase whole sectors, and each one  *)
(* that does is counted, so no change escapes the saving of the flash.     *)
ImplementsNor == NorSpec
=============================================================================
