--------------------------------- MODULE Lcd ---------------------------------
(***************************************************************************)
(* The display's controller (g1lcd.h): the OS puts a byte on the bus and   *)
(* moves the control lines; the controller takes the byte when E falls, as *)
(* a character at the cursor, as a row of a character of the OS's own, or  *)
(* as a command.                                                           *)
(***************************************************************************)
EXTENDS Integers

CONSTANT Commands  \* the commands the OS sends

Bytes == 0 .. 255

(* The addresses of the two lines of the display; addresses have 7 bits.   *)
Lines == 0 .. 39 \cup 64 .. 103
Addresses == 0 .. 127
Rows == 0 .. 63
Blank == 32

(* The OS sets the cursor to nothing but a place on a line.  What it sends *)
(* as characters and as rows may be any byte.                              *)
LcdAssumption ==
  /\ Commands \subseteq Bytes
  /\ \A v \in Commands : v >= 128 => v - 128 \in Lines

VARIABLES
  bus,        \* m_bus
  e, rs,      \* m_e, and the bit of m_control that selects characters
  ddram,      \* m_ddram, the text
  cgram,      \* m_cgram, the rows of the OS's own characters
  addr,       \* m_addr, the cursor
  cgAddr,     \* m_cgAddr
  increment,  \* m_increment
  cgMode,     \* m_cgMode
  display     \* m_displayOn and m_cursorOn

lines == <<bus, e, rs>>
vars == <<lines, ddram, cgram, addr, cgAddr, increment, cgMode, display>>

TypeOK ==
  /\ bus \in Bytes /\ e \in BOOLEAN /\ rs \in BOOLEAN
  /\ ddram \in [Addresses -> Bytes] /\ cgram \in [Rows -> Bytes]
  /\ addr \in Addresses /\ cgAddr \in Rows
  /\ increment \in BOOLEAN /\ cgMode \in BOOLEAN
  /\ display \in [on : BOOLEAN, cursor : BOOLEAN]

Init ==
  /\ bus = 0 /\ e = FALSE /\ rs = FALSE
  /\ ddram = [a \in Addresses |-> Blank] /\ cgram = [r \in Rows |-> 0]
  /\ addr = 0 /\ cgAddr = 0
  /\ increment = TRUE /\ cgMode = FALSE
  /\ display = [on |-> FALSE, cursor |-> FALSE]

-----------------------------------------------------------------------------
(* From the end of a line to the start of the other. *)
Forth(a) == CASE a = 39 -> 64 [] a = 103 -> 0 [] OTHER -> (a + 1) % 128
moveBack(a) == CASE a = 64 -> 39 [] a = 0 -> 103 [] OTHER -> (a + 127) % 128
move(a) == IF increment THEN Forth(a) ELSE moveBack(a)

PutRow ==
  /\ cgMode
  /\ cgram' = [cgram EXCEPT ![cgAddr] = bus]
  /\ cgAddr' = (cgAddr + (IF increment THEN 1 ELSE 63)) % 64
  /\ UNCHANGED <<ddram, addr, increment, cgMode, display>>

PutCharacter ==
  /\ ~cgMode
  /\ ddram' = [ddram EXCEPT ![addr] = bus]
  /\ addr' = move(addr)
  /\ UNCHANGED <<cgram, cgAddr, increment, cgMode, display>>

(* The commands, by their highest bit. *)
SetAddress ==
  /\ bus >= 128
  /\ addr' = bus - 128 /\ cgMode' = FALSE
  /\ UNCHANGED <<ddram, cgram, cgAddr, increment, display>>

SetRow ==
  /\ bus \in 64 .. 127
  /\ cgAddr' = bus - 64 /\ cgMode' = TRUE
  /\ UNCHANGED <<ddram, cgram, addr, increment, display>>

(* A shift to the right goes the way of the entry mode. *)
Shift ==
  /\ bus \in 16 .. 31
  /\ addr' = CASE bus \in 20 .. 23 -> move(addr)
               [] bus \in 16 .. 19 -> moveBack(addr)
               [] OTHER -> addr
  /\ UNCHANGED <<ddram, cgram, cgAddr, increment, cgMode, display>>

SetDisplay ==
  /\ bus \in 8 .. 15
  /\ display' = [on |-> bus >= 12, cursor |-> bus \in {10, 11, 14, 15}]
  /\ UNCHANGED <<ddram, cgram, addr, cgAddr, increment, cgMode>>

SetEntryMode ==
  /\ bus \in 4 .. 7
  /\ increment' = (bus >= 6)
  /\ UNCHANGED <<ddram, cgram, addr, cgAddr, cgMode, display>>

Home ==
  /\ bus \in {2, 3}
  /\ addr' = 0 /\ cgMode' = FALSE
  /\ UNCHANGED <<ddram, cgram, cgAddr, increment, display>>

Clear ==
  /\ bus = 1
  /\ ddram' = [a \in Addresses |-> Blank]
  /\ addr' = 0 /\ increment' = TRUE /\ cgMode' = FALSE
  /\ UNCHANGED <<cgram, cgAddr, display>>

(* The function set, and the empty command. *)
Ignore ==
  /\ bus \in 32 .. 63 \cup {0}
  /\ UNCHANGED <<ddram, cgram, addr, cgAddr, increment, cgMode, display>>

Command ==
  \/ SetAddress \/ SetRow \/ Shift \/ SetDisplay \/ SetEntryMode
  \/ Home \/ Clear \/ Ignore

(* latch, with the lines as they were while E was high. *)
latch == IF rs THEN PutRow \/ PutCharacter ELSE Command

writeData(v) ==
  /\ bus' = v
  /\ UNCHANGED <<e, rs, ddram, cgram, addr, cgAddr, increment, cgMode, display>>

writeControl(strobe, select) ==
  /\ e' = strobe /\ rs' = select
  /\ IF e /\ ~strobe
     THEN latch
     ELSE UNCHANGED <<ddram, cgram, addr, cgAddr, increment, cgMode, display>>
  /\ UNCHANGED bus

(* What is on the bus when E falls for a command is one that the OS sends. *)
Next ==
  \/ \E v \in Bytes : writeData(v)
  \/ \E strobe, select \in BOOLEAN :
       /\ e /\ ~strobe /\ ~rs => bus \in Commands
       /\ writeControl(strobe, select)

Spec == Init /\ [][Next]_vars

-----------------------------------------------------------------------------
(* Whatever characters the OS writes, however many and in either           *)
(* direction, the next one falls on one of the two lines.                  *)
CursorOnLine == addr \in Lines

(* What lies beyond the lines stays blank, so a line read to its end has   *)
(* only what was written to it.                                            *)
TextOnLines == \A a \in Addresses \ Lines : ddram[a] = Blank

(* While the OS defines its own characters the text stays as it is, and    *)
(* only a command ends the definition.                                     *)
TextKept == [][cgMode /\ cgMode' => UNCHANGED ddram]_vars
=============================================================================
