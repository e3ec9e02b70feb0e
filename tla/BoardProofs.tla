----------------------------- MODULE BoardProofs -----------------------------
(***************************************************************************)
(* Proofs about the board: the panel, for any movements of the mouse and   *)
(* any number of channels; exec, for any lengths of instructions, squares  *)
(* of the grid and periods; the PC port, for any bytes; and the display,   *)
(* for an OS that sets the cursor to places on the lines only.             *)
(***************************************************************************)
EXTENDS MCPcPort, SequenceTheorems, WellFoundedInduction, TLAPS

(* The strengthening: the OS saw last the phase the dial stands at, so the *)
(* step it reads next is one edge at most.                                 *)
DialInv ==
  /\ rest \in Int /\ edges \in Int /\ turned \in Int /\ counted \in Int /\ loaded \in Int
  /\ phase \in 0 .. 3 /\ seen = phase
  /\ Pnl!NoEdgeLost

(* The value under conversion belongs to the channel selected last. *)
AdcInv ==
  /\ select \in Pnl!Knobs /\ result.of = select
  /\ DOMAIN stored = Pnl!Knobs
  /\ Pnl!OwnConversion

(* One step of dialBits: the phase moves by one edge and the OS counts it, *)
(* or neither changes, whatever the window has added since the load.       *)
LEMMA DialStep ==
  ASSUME DialInv, Pnl!StepDial
  PROVE  DialInv'
<1>1. CASE loaded # 0 /\ dialWait = 0
  <2>1. phase' = (phase + 4 + Pnl!Direction) % 4 /\ edges' = edges - Pnl!Direction
    BY <1>1 DEF Pnl!StepDial
  <2>2. Pnl!Direction \in {1, -1}
    BY DEF Pnl!Direction
  <2>3. /\ phase' \in 0 .. 3
        /\ Pnl!Direction = 1 => phase' = (phase + 1) % 4
        /\ Pnl!Direction = -1 => phase' = (phase + 3) % 4
    BY <2>1, <2>2 DEF DialInv
  <2>4. counted' = counted + Pnl!Direction
    <3>1. CASE Pnl!Direction = 1
      BY <3>1, <2>3 DEF Pnl!StepDial, Pnl!Decode, DialInv
    <3>2. CASE Pnl!Direction = -1
      <4>1. phase' = (seen + 3) % 4 /\ phase' # (seen + 1) % 4
        BY <3>2, <2>3 DEF DialInv
      <4> QED  BY <4>1, <3>2 DEF Pnl!StepDial, Pnl!Decode, DialInv
    <3> QED  BY <2>2, <3>1, <3>2
  <2>5. seen' = phase' /\ turned' = turned /\ loaded' = loaded /\ rest' = rest
    BY DEF Pnl!StepDial, Pnl!Decode, Pnl!mouse
  <2> QED
    BY <2>1, <2>2, <2>3, <2>4, <2>5 DEF DialInv, Pnl!NoEdgeLost
<1>2. CASE ~(loaded # 0 /\ dialWait = 0)
  <2>1. /\ phase' = phase /\ edges' = edges /\ turned' = turned
        /\ loaded' = loaded /\ seen' = phase' /\ rest' = rest
    BY <1>2 DEF Pnl!StepDial, Pnl!Decode, Pnl!mouse
  <2>2. counted' = counted
    BY <2>1 DEF Pnl!StepDial, Pnl!Decode, DialInv
  <2> QED  BY <2>1, <2>2 DEF DialInv, Pnl!NoEdgeLost
<1> QED  BY <1>1, <1>2

(* A division towards zero leaves less than the divisor, to either side.   *)
LEMMA Eighths ==
  ASSUME NEW n \in Int
  PROVE  Pnl!Eighth(n) \in Int /\ -8 < n - Pnl!Eighth(n) * 8 /\ n - Pnl!Eighth(n) * 8 < 8
BY DEF Pnl!Eighth

(* No edge of the dial is lost or counted twice (dialBits, turnDial), for  *)
(* any sequence of turns between the two halves of a read.                 *)
THEOREM DialKeepsCount ==
  ASSUME Pnl!PanelAssumption
  PROVE  Pnl!Spec => []Pnl!NoEdgeLost
<1>1. Pnl!Init => DialInv
  BY DEF Pnl!Init, DialInv, Pnl!NoEdgeLost
<1>2. DialInv /\ [Pnl!Next]_Pnl!vars => DialInv'
  <2> SUFFICES ASSUME DialInv, [Pnl!Next]_Pnl!vars PROVE DialInv'
    OBVIOUS
  <2>1. ASSUME NEW d \in Int, Pnl!TurnDial(d), rest' \in Int PROVE DialInv'
    BY <2>1 DEF Pnl!TurnDial, DialInv, Pnl!NoEdgeLost
  <2>2. CASE Pnl!LoadEdges
    BY <2>2 DEF Pnl!LoadEdges, Pnl!mouse, DialInv, Pnl!NoEdgeLost
  <2>3. CASE Pnl!StepDial
    BY <2>3, DialStep
  <2>4. ASSUME NEW k \in Pnl!Knobs, NEW v \in Values, Pnl!SetAdc(k, v) PROVE DialInv'
    BY <2>4 DEF Pnl!SetAdc, Pnl!dial, Pnl!mouse, DialInv, Pnl!NoEdgeLost
  <2>5. CASE Pnl!PollKnob
    BY <2>5 DEF Pnl!PollKnob, Pnl!dial, Pnl!mouse, DialInv, Pnl!NoEdgeLost
  <2>6. CASE UNCHANGED Pnl!vars
    BY <2>6 DEF Pnl!vars, Pnl!dial, Pnl!mouse, DialInv, Pnl!NoEdgeLost
  <2>7. CASE Pnl!Grab
    BY <2>7 DEF Pnl!Grab, DialInv, Pnl!NoEdgeLost
  <2>8. ASSUME NEW p \in Moves, Pnl!Drag(p) PROVE DialInv'
    <3>1. rest + p \in Int /\ p \in Int
      BY DEF DialInv, Pnl!PanelAssumption
    <3>2. Pnl!Eighth(rest + p) \in Int
      BY <3>1, Eighths
    <3>3. rest' = rest + p - Pnl!Eighth(rest + p) * 8 /\ Pnl!TurnDial(Pnl!Eighth(rest + p))
      BY <2>8 DEF Pnl!Drag
    <3> HIDE DEF Pnl!Eighth
    <3>4. rest' \in Int
      BY <3>1, <3>2, <3>3
    <3> QED BY <3>2, <3>3, <3>4, <2>1
  <2>9. ASSUME NEW d \in {-1, 1}, Pnl!Wheel(d) PROVE DialInv'
    BY <2>9, <2>1 DEF Pnl!Wheel, DialInv
  <2> QED  BY <2>2, <2>3, <2>4, <2>5, <2>6, <2>7, <2>8, <2>9 DEF Pnl!Next
<1>3. DialInv => Pnl!NoEdgeLost
  BY DEF DialInv
<1> QED  BY <1>1, <1>2, <1>3, PTL DEF Pnl!Spec

(* The OS never stores for one knob what was converted from another (read8 *)
(* of the converter), for any number of channels.                          *)
THEOREM ConversionsKept ==
  ASSUME Pnl!PanelAssumption
  PROVE  Pnl!Spec => []Pnl!OwnConversion
<1>1. Pnl!Init => AdcInv
  BY DEF Pnl!Init, AdcInv, Pnl!OwnConversion, Pnl!Knobs, Pnl!PanelAssumption
<1>2. AdcInv /\ [Pnl!Next]_Pnl!vars => AdcInv'
  <2> SUFFICES ASSUME AdcInv, [Pnl!Next]_Pnl!vars PROVE AdcInv'
    OBVIOUS
  <2>1. ASSUME NEW d, Pnl!TurnDial(d) PROVE AdcInv'
    BY <2>1 DEF Pnl!TurnDial, Pnl!adc, AdcInv, Pnl!OwnConversion
  <2>2. CASE Pnl!LoadEdges
    BY <2>2 DEF Pnl!LoadEdges, Pnl!adc, AdcInv, Pnl!OwnConversion
  <2>3. CASE Pnl!StepDial
    BY <2>3 DEF Pnl!StepDial, Pnl!adc, AdcInv, Pnl!OwnConversion
  <2>4. ASSUME NEW k \in Pnl!Knobs, NEW v \in Values, Pnl!SetAdc(k, v) PROVE AdcInv'
    BY <2>4 DEF Pnl!SetAdc, AdcInv, Pnl!OwnConversion
  <2>5. CASE Pnl!PollKnob
    <3>1. select' \in Pnl!Knobs /\ result'.of = select'
      BY <2>5 DEF Pnl!PollKnob, Pnl!ReadAdc, AdcInv, Pnl!Knobs, Pnl!PanelAssumption
    <3>2. stored' = [stored EXCEPT ![select] = result]
      BY <2>5 DEF Pnl!PollKnob, Pnl!ReadAdc
    <3> QED  BY <3>1, <3>2 DEF AdcInv, Pnl!OwnConversion
  <2>6. CASE UNCHANGED Pnl!vars
    BY <2>6 DEF Pnl!vars, Pnl!adc, AdcInv, Pnl!OwnConversion
  <2>7. CASE Pnl!Grab
    BY <2>7 DEF Pnl!Grab, Pnl!adc, AdcInv, Pnl!OwnConversion
  <2>8. (\E p \in Moves : Pnl!Drag(p)) \/ (\E d \in {-1, 1} : Pnl!Wheel(d)) => \E d : Pnl!TurnDial(d)
    BY DEF Pnl!Drag, Pnl!Wheel
  <2> QED  BY <2>1, <2>2, <2>3, <2>4, <2>5, <2>6, <2>7, <2>8 DEF Pnl!Next
<1>3. AdcInv => Pnl!OwnConversion
  BY DEF AdcInv
<1> QED  BY <1>1, <1>2, <1>3, PTL DEF Pnl!Spec

Dragging ==
  /\ rest \in Int /\ moved \in Int /\ turned \in Int
  /\ Pnl!DragKept

(* The dial has turned a detent for every 8 pixels (mouseDrag), however the *)
(* movements cut the mouse's way.                                          *)
THEOREM DragsAddUp ==
  ASSUME Pnl!PanelAssumption
  PROVE  Pnl!Spec => []Pnl!DragKept
<1>1. Pnl!Init => Dragging
  BY DEF Pnl!Init, Dragging, Pnl!DragKept
<1>2. Dragging /\ [Pnl!Next]_Pnl!vars => Dragging'
  <2> SUFFICES ASSUME Dragging, [Pnl!Next]_Pnl!vars PROVE Dragging'
    OBVIOUS
  <2>1. CASE Pnl!Grab
    BY <2>1 DEF Pnl!Grab, Dragging, Pnl!DragKept
  <2>2. ASSUME NEW p \in Moves, Pnl!Drag(p) PROVE Dragging'
    <3> DEFINE e == Pnl!Eighth(rest + p)
    <3>1. rest + p \in Int /\ p \in Int
      BY DEF Dragging, Pnl!PanelAssumption
    <3>2. e \in Int /\ -8 < (rest + p) - e * 8 /\ (rest + p) - e * 8 < 8
      BY <3>1, Eighths
    <3>3. rest' = rest + p - e * 8 /\ moved' = moved + p /\ turned' = turned + e * 4
      BY <2>2 DEF Pnl!Drag, Pnl!TurnDial
    <3> HIDE DEF e
    <3> QED BY <3>1, <3>2, <3>3 DEF Dragging, Pnl!DragKept
  <2>3. ASSUME NEW d \in {-1, 1}, Pnl!Wheel(d) PROVE Dragging'
    BY <2>3 DEF Pnl!Wheel, Pnl!TurnDial, Dragging, Pnl!DragKept
  <2>4. CASE Pnl!LoadEdges
    BY <2>4 DEF Pnl!LoadEdges, Pnl!mouse, Dragging, Pnl!DragKept
  <2>5. CASE Pnl!StepDial
    BY <2>5 DEF Pnl!StepDial, Pnl!mouse, Dragging, Pnl!DragKept
  <2>6. ASSUME NEW k \in Pnl!Knobs, NEW v \in Values, Pnl!SetAdc(k, v) PROVE Dragging'
    BY <2>6 DEF Pnl!SetAdc, Pnl!dial, Pnl!mouse, Dragging, Pnl!DragKept
  <2>7. CASE Pnl!PollKnob
    BY <2>7 DEF Pnl!PollKnob, Pnl!dial, Pnl!mouse, Dragging, Pnl!DragKept
  <2>8. CASE UNCHANGED Pnl!vars
    BY <2>8 DEF Pnl!vars, Pnl!dial, Pnl!mouse, Dragging, Pnl!DragKept
  <2> QED  BY <2>1, <2>2, <2>3, <2>4, <2>5, <2>6, <2>7, <2>8 DEF Pnl!Next
<1>3. Dragging => Pnl!DragKept
  BY DEF Dragging
<1> QED  BY <1>1, <1>2, <1>3, PTL DEF Pnl!Spec

(* What the OS has of the dial and the knobs is what the hand did with the *)
(* mouse (Panel.cpp, g1mc.cpp), for any movements and any interleaving.    *)
THEOREM PanelIsTrue ==
  ASSUME Pnl!PanelAssumption
  PROVE  Pnl!Spec => []PanelTrue
<1>1. Pnl!NoEdgeLost /\ Pnl!DragKept /\ Pnl!OwnConversion => PanelTrue
  BY DEF PanelTrue, Pnl!PanelTrue
<1> QED  BY <1>1, DialKeepsCount, DragsAddUp, ConversionsKept, PTL

-----------------------------------------------------------------------------
(* Since the last line of the grid, the DSPs have caught up. *)
Synced ==
  /\ clock \in Nat /\ synced \in Nat
  /\ synced <= clock /\ clock - synced <= clock % Grid

Counted == IF pitPending THEN ticks + 1 ELSE ticks

(* While nothing is owed, what has accumulated is the part of a period that *)
(* the periods counted leave over.                                          *)
Ticking ==
  /\ period \in Nat /\ accum \in Nat /\ ticks \in Nat /\ elapsed \in Nat
  /\ period # 0 => period >= MaxCycles
  /\ period # 0 /\ calm => accum < period /\ elapsed = Counted * period + accum

ExecInv == Synced /\ Ticking

USE DEF Exc!ExecLoopAssumption

LEMMA SameSquare ==
  ASSUME NEW g \in Nat \ {0}, NEW a \in Nat, NEW c \in Nat, (a + c) % g >= c
  PROVE  a % g = ((a + c) % g) - c
OBVIOUS

LEMMA RestOfDivision ==
  ASSUME NEW g \in Nat \ {0}, NEW a \in Nat
  PROVE  a % g \in Nat /\ a % g < g
OBVIOUS

LEMMA OneMore ==
  ASSUME NEW p \in Nat, NEW n \in Nat
  PROVE  (n + 1) * p = n * p + p /\ n * p \in Nat
OBVIOUS

(* Either the instruction has crossed a line and the DSPs have caught up,  *)
(* or the CPU is in the square it was in.                                  *)
LEMMA ExecSyncs ==
  ASSUME Exc!ExecLoopAssumption, ExecInv, NEW c \in 1 .. MaxCycles, Exc!Exec(c)
  PROVE  Synced'
<1>1. clock \in Nat /\ synced \in Nat /\ c \in Nat /\ clock' = clock + c
  BY DEF ExecInv, Synced, Exc!Exec
<1>2. CASE clock' % Grid < c
  <2>1. synced' = clock'
    BY <1>2 DEF Exc!Exec
  <2>2. clock' \in Nat /\ clock' % Grid \in Nat
    BY <1>1, RestOfDivision
  <2> QED BY <2>1, <2>2 DEF Synced
<1>3. CASE ~(clock' % Grid < c)
  <2>1. synced' = synced
    BY <1>3 DEF Exc!Exec
  <2>2. (clock + c) % Grid \in Nat
    BY <1>1, RestOfDivision
  <2>3. clock % Grid = ((clock + c) % Grid) - c
    <3>1. (clock + c) % Grid >= c
      BY <1>1, <1>3, <2>2
    <3> HIDE DEF Exc!ExecLoopAssumption
    <3>2. Grid \in Nat \ {0}
      BY DEF Exc!ExecLoopAssumption
    <3> QED BY <1>1, <3>1, <3>2, SameSquare
  <2>4. synced <= clock + c /\ (clock + c) - synced <= (clock + c) % Grid
    BY <1>1, <2>2, <2>3 DEF ExecInv, Synced
  <2> QED BY <1>1, <2>1, <2>4 DEF Synced
<1> QED BY <1>2, <1>3

LEMMA ExecTicks ==
  ASSUME Exc!ExecLoopAssumption, ExecInv, NEW c \in 1 .. MaxCycles, Exc!ExecPit(c)
  PROVE  Ticking'
<1>1. CASE period = 0 /\ UNCHANGED Exc!pit
  BY <1>1 DEF Exc!pit, ExecInv, Ticking, Counted
<1>2. CASE /\ period # 0 /\ elapsed' = elapsed + c
           /\ UNCHANGED <<period, ticks>>
           /\ accum + c < period /\ accum' = accum + c /\ UNCHANGED <<pitPending, calm>>
  <2>1. Counted' = Counted
    BY <1>2 DEF Counted
  <2>2. ASSUME calm PROVE elapsed' = Counted * period + accum'
    <3>1. Counted \in Nat
      BY DEF Counted, ExecInv, Ticking
    <3>2. Counted * period \in Nat
      BY <3>1, OneMore DEF ExecInv, Ticking
    <3> QED BY <2>2, <3>2, <1>2 DEF ExecInv, Ticking
  <2>3. period' \in Nat /\ accum' \in Nat /\ ticks' \in Nat /\ elapsed' \in Nat
        /\ accum' < period' /\ period' = period /\ calm' = calm
    BY <1>2 DEF ExecInv, Ticking
  <2> QED BY <2>1, <2>2, <2>3 DEF ExecInv, Ticking
<1>3. CASE /\ period # 0 /\ elapsed' = elapsed + c
           /\ UNCHANGED <<period, ticks>>
           /\ ~(accum + c < period) /\ Exc!Tick(c)
  <2>1. /\ period' = period /\ ticks' = ticks
        /\ accum' = accum + c - period /\ pitPending' = TRUE
        /\ calm' = (calm /\ ~pitPending)
    BY <1>3 DEF Exc!Tick
  <2>2. period' \in Nat /\ accum' \in Nat /\ ticks' \in Nat /\ elapsed' \in Nat
        /\ period' >= MaxCycles
    BY <1>3, <2>1 DEF ExecInv, Ticking
  <2>3. Counted' = ticks + 1
    BY <2>1 DEF Counted
  <2>4. ASSUME calm' PROVE accum' < period /\ elapsed' = (ticks + 1) * period + accum'
    <3>1. calm /\ ~pitPending
      BY <2>1, <2>4
    <3>2. accum < period /\ elapsed = ticks * period + accum
      BY <3>1, <1>3 DEF ExecInv, Ticking, Counted
    <3>3. (ticks + 1) * period = ticks * period + period /\ ticks * period \in Nat
      BY OneMore DEF ExecInv, Ticking
    <3>4. c \in Nat /\ c <= period
      BY <1>3 DEF ExecInv, Ticking
    <3>5. accum \in Nat /\ period \in Nat /\ elapsed' = elapsed + c
      BY <1>3 DEF ExecInv, Ticking
    <3>6. accum' < period
      BY <2>1, <3>2, <3>4, <3>5
    <3>7. elapsed' = (ticks + 1) * period + accum'
      BY <2>1, <3>2, <3>3, <3>4, <3>5
    <3> QED BY <3>6, <3>7
  <2> QED BY <2>1, <2>2, <2>3, <2>4 DEF Ticking
<1> QED BY <1>1, <1>2, <1>3 DEF Exc!ExecPit

LEMMA ExecLoopInductive == ASSUME Exc!ExecLoopAssumption PROVE Exc!Spec => []ExecInv
<1>1. Exc!Init => ExecInv
  <2> SUFFICES ASSUME Exc!Init PROVE ExecInv
    OBVIOUS
  <2>1. Synced
    BY RestOfDivision DEF Exc!Init, Synced
  <2>2. Ticking
    BY DEF Exc!Init, Ticking
  <2> QED BY <2>1, <2>2 DEF ExecInv
<1>2. ExecInv /\ [Exc!Next]_Exc!vars => ExecInv'
  <2> SUFFICES ASSUME ExecInv, [Exc!Next]_Exc!vars PROVE ExecInv'
    OBVIOUS
  <2>1. ASSUME NEW c \in 1 .. MaxCycles, Exc!Exec(c) PROVE ExecInv'
    <3>1. Exc!ExecPit(c)
      BY <2>1 DEF Exc!Exec
    <3> QED BY <2>1, <3>1, ExecSyncs, ExecTicks DEF ExecInv
  <2>2. CASE Exc!AccessHostPort
    <3>1. clock % Grid \in Nat
      BY RestOfDivision DEF ExecInv, Synced
    <3>2. Synced'
      BY <2>2, <3>1 DEF Exc!AccessHostPort, ExecInv, Synced
    <3>3. Ticking'
      BY <2>2 DEF Exc!AccessHostPort, Exc!pit, ExecInv, Ticking, Counted
    <3> QED BY <3>2, <3>3 DEF ExecInv
  <2>3. ASSUME NEW p \in Periods \cup {0}, Exc!SetPit(p) PROVE ExecInv'
    <3>1. Synced'
      BY <2>3 DEF Exc!SetPit, ExecInv, Synced
    <3>2. /\ period' = p /\ elapsed' = accum /\ ticks' = 0 /\ accum' = accum
          /\ calm' = (accum < p /\ ~pitPending) /\ pitPending' = pitPending
      BY <2>3 DEF Exc!SetPit
    <3>3. p \in Nat /\ (p # 0 => p >= MaxCycles) /\ accum \in Nat
      BY DEF ExecInv, Ticking
    <3>4. ASSUME calm' PROVE accum < p /\ Counted' = 0
      BY <3>2, <3>4 DEF Counted
    <3>5. 0 * p = 0
      BY <3>3
    <3> QED BY <3>1, <3>2, <3>3, <3>4, <3>5 DEF ExecInv, Ticking
  <2>4. CASE Exc!TakeInterrupt
    <3>1. Counted' = Counted /\ Synced'
      BY <2>4 DEF Exc!TakeInterrupt, Counted, ExecInv, Synced
    <3>2. ticks' \in Nat
      BY <2>4 DEF Exc!TakeInterrupt, ExecInv, Ticking
    <3> QED BY <2>4, <3>1, <3>2 DEF Exc!TakeInterrupt, ExecInv, Ticking
  <2>5. CASE UNCHANGED Exc!vars
    BY <2>5 DEF Exc!vars, Exc!pit, ExecInv, Synced, Ticking, Counted
  <2> QED BY <2>1, <2>2, <2>3, <2>4, <2>5 DEF Exc!Next
<1> QED BY <1>1, <1>2, PTL DEF Exc!Spec

(* The OS's clock keeps the rate programmed and the DSPs keep up with the  *)
(* CPU (exec, execPit), whatever the lengths of the instructions between.  *)
THEOREM BoardKeepsTime ==
  ASSUME Exc!ExecLoopAssumption
  PROVE  Exc!Spec => []KeepsTime
<1>1. ExecInv => KeepsTime
  <2> SUFFICES ASSUME ExecInv PROVE KeepsTime
    OBVIOUS
  <2>1. Exc!DspsKeepUp
    <3>1. clock % Grid \in Nat /\ clock % Grid < Grid
      BY RestOfDivision DEF ExecInv, Synced
    <3> QED BY <3>1 DEF ExecInv, Synced, Exc!DspsKeepUp
  <2>2. Exc!TickRate
    <3> SUFFICES ASSUME period # 0, calm
                 PROVE  Counted * period <= elapsed /\ elapsed < (Counted + 1) * period
      BY DEF Exc!TickRate, Counted
    <3>1. Counted \in Nat /\ period \in Nat /\ accum \in Nat
      BY DEF ExecInv, Ticking, Counted
    <3>2. (Counted + 1) * period = Counted * period + period /\ Counted * period \in Nat
      BY <3>1, OneMore
    <3> QED BY <3>1, <3>2 DEF ExecInv, Ticking
  <2> QED BY <2>1, <2>2 DEF KeepsTime, Exc!KeepsTime
<1> QED BY <1>1, ExecLoopInductive, PTL
-----------------------------------------------------------------------------
(* PcPort: the bytes in the two queues, one by one.                        *)
Numbered ==
  /\ sent \in Nat /\ read \in Nat /\ rx \in Seq(Nat) /\ collected \in Seq(Nat)
  /\ Len(rx) + Len(collected) = sent - read
  /\ \A i \in 1 .. Len(rx) : rx[i] = read + i
  /\ \A i \in 1 .. Len(collected) : collected[i] = read + Len(rx) + i

LEMMA Joined ==
  ASSUME NEW s \in Seq(Nat), NEW t \in Seq(Nat)
  PROVE  /\ s \o t \in Seq(Nat) /\ Len(s) \in Nat /\ Len(t) \in Nat
         /\ Len(s \o t) = Len(s) + Len(t)
         /\ \A i \in 1 .. Len(s) : (s \o t)[i] = s[i]
         /\ \A i \in 1 .. Len(t) : (s \o t)[Len(s) + i] = t[i]
OBVIOUS

LEMMA JoinedAt ==
  ASSUME NEW s \in Seq(Nat), NEW t \in Seq(Nat), NEW i \in 1 .. Len(s \o t)
  PROVE  i \in 1 .. Len(s) \/ \E j \in 1 .. Len(t) : i = Len(s) + j
<1>1. Len(s) \in Nat /\ Len(t) \in Nat /\ Len(s \o t) = Len(s) + Len(t)
  OBVIOUS
<1>2. CASE i > Len(s)
  <2>1. i - Len(s) \in 1 .. Len(t) /\ i = Len(s) + (i - Len(s))
    BY <1>1, <1>2
  <2> QED BY <2>1
<1> QED BY <1>1, <1>2

LEMMA SameElements ==
  ASSUME NEW s \in Seq(Nat), NEW t \in Seq(Nat), Len(s) = Len(t),
         \A i \in 1 .. Len(s) : s[i] = t[i]
  PROVE  s = t
OBVIOUS

LEMMA MoreSent ==
  ASSUME NEW r \in Nat, NEW l \in Nat, NEW c \in Nat, NEW n \in Nat
  PROVE  (r + l + c) + n \in Nat /\ l + (c + n) = ((r + l + c) + n) - r
OBVIOUS

LEMMA CollectStep ==
  ASSUME Numbered, NEW n \in 1 .. 2, Collect(n)
  PROVE  Numbered'
<1> DEFINE new == [i \in 1 .. n |-> sent + i]
<1>1. /\ collected' = collected \o new /\ sent' = sent + n /\ rx' = rx /\ read' = read
  BY DEF Collect, fate
<1>2. /\ sent \in Nat /\ read \in Nat /\ rx \in Seq(Nat) /\ collected \in Seq(Nat)
      /\ Len(rx) \in Nat /\ Len(collected) \in Nat
      /\ sent = read + Len(rx) + Len(collected)
  BY DEF Numbered
<1>3. new \in Seq(Nat) /\ Len(new) = n /\ \A i \in 1 .. n : new[i] = sent + i
  BY <1>2
<1> HIDE DEF new
<1>4. /\ collected \o new \in Seq(Nat) /\ Len(collected \o new) = Len(collected) + n
      /\ \A i \in 1 .. Len(collected) : (collected \o new)[i] = collected[i]
      /\ \A i \in 1 .. n : (collected \o new)[Len(collected) + i] = new[i]
  BY <1>2, <1>3, Joined
<1>5. \A i \in 1 .. Len(collected \o new) : (collected \o new)[i] = read + Len(rx) + i
  <2> TAKE i \in 1 .. Len(collected \o new)
  <2>1. CASE i \in 1 .. Len(collected)
    BY <1>4, <2>1 DEF Numbered
  <2>2. ASSUME NEW j \in 1 .. n, i = Len(collected) + j
        PROVE  (collected \o new)[i] = read + Len(rx) + i
    BY <1>2, <1>3, <1>4, <2>2
  <2> QED BY <1>2, <1>3, <2>1, <2>2, JoinedAt
<1>6. sent + n \in Nat /\ Len(rx) + Len(collected \o new) = (sent + n) - read
  <2>1. n \in Nat
    OBVIOUS
  <2> QED BY <1>2, <1>4, <2>1, MoreSent
<1> QED BY <1>1, <1>2, <1>4, <1>5, <1>6 DEF Numbered

LEMMA PollStep ==
  ASSUME Numbered, Poll
  PROVE  Numbered'
<1>1. rx' = rx \o collected /\ collected' = <<>> /\ sent' = sent /\ read' = read
  BY DEF Poll, fate
<1>2. /\ sent \in Nat /\ read \in Nat /\ rx \in Seq(Nat) /\ collected \in Seq(Nat)
      /\ Len(rx) \in Nat /\ Len(collected) \in Nat
      /\ Len(rx) + Len(collected) = sent - read
  BY DEF Numbered
<1>3. /\ rx \o collected \in Seq(Nat) /\ Len(rx \o collected) = Len(rx) + Len(collected)
      /\ \A i \in 1 .. Len(rx) : (rx \o collected)[i] = rx[i]
      /\ \A i \in 1 .. Len(collected) : (rx \o collected)[Len(rx) + i] = collected[i]
  BY <1>2, Joined
<1>4. \A i \in 1 .. Len(rx \o collected) : (rx \o collected)[i] = read + i
  <2> TAKE i \in 1 .. Len(rx \o collected)
  <2>1. CASE i \in 1 .. Len(rx)
    BY <1>3, <2>1 DEF Numbered
  <2>2. ASSUME NEW j \in 1 .. Len(collected), i = Len(rx) + j
        PROVE  (rx \o collected)[i] = read + i
    BY <1>2, <1>3, <2>2 DEF Numbered
  <2> QED BY <1>2, <2>1, <2>2, JoinedAt
<1>5. collected' \in Seq(Nat) /\ Len(collected') = 0
  BY <1>1
<1> QED BY <1>1, <1>2, <1>3, <1>4, <1>5 DEF Numbered

LEMMA HandleStep ==
  ASSUME Numbered, Handle
  PROVE  Numbered'
<1>1. CASE rx = <<>>
  BY <1>1 DEF Handle, Numbered
<1>2. CASE rx # <<>>
  <2>1. read' = Head(rx) /\ rx' = Tail(rx) /\ sent' = sent /\ collected' = collected
    BY <1>2 DEF Handle
  <2>2. /\ sent \in Nat /\ read \in Nat /\ rx \in Seq(Nat) /\ collected \in Seq(Nat)
        /\ Len(rx) \in Nat \ {0} /\ Len(collected) \in Nat
        /\ Len(rx) + Len(collected) = sent - read
    BY <1>2 DEF Numbered
  <2>3. /\ Head(rx) = rx[1] /\ Tail(rx) \in Seq(Nat) /\ Len(Tail(rx)) = Len(rx) - 1
        /\ \A i \in 1 .. Len(rx) - 1 : Tail(rx)[i] = rx[i + 1]
    BY <1>2, <2>2
  <2>4. Head(rx) = read + 1
    BY <2>2, <2>3 DEF Numbered
  <2>5. \A i \in 1 .. Len(rx) - 1 : Tail(rx)[i] = (read + 1) + i
    BY <2>2, <2>3 DEF Numbered
  <2>6. \A i \in 1 .. Len(collected) : collected[i] = (read + 1) + (Len(rx) - 1) + i
    BY <2>2 DEF Numbered
  <2>7. read + 1 \in Nat /\ (Len(rx) - 1) + Len(collected) = sent - (read + 1)
    BY <2>2
  <2> QED BY <2>1, <2>2, <2>3, <2>4, <2>5, <2>6, <2>7 DEF Numbered
<1> QED BY <1>1, <1>2

LEMMA ResetStep ==
  ASSUME Numbered, Reset
  PROVE  Numbered'
<1>1. /\ sent \in Nat /\ read \in Nat /\ rx \in Seq(Nat) /\ collected \in Seq(Nat)
      /\ Len(rx) \in Nat /\ Len(collected) \in Nat
      /\ Len(rx) + Len(collected) = sent - read
  BY DEF Numbered
<1>2. read' = read + Len(rx)
  <2>1. CASE rx = <<>>
    BY <1>1, <2>1 DEF Reset
  <2>2. CASE rx # <<>>
    <3>1. Len(rx) \in 1 .. Len(rx)
      BY <1>1, <2>2
    <3> QED BY <2>2, <3>1 DEF Reset, Numbered
  <2> QED BY <2>1, <2>2
<1>3. rx' = <<>> /\ collected' = collected /\ sent' = sent
  BY DEF Reset
<1>4. rx' \in Seq(Nat) /\ Len(rx') = 0
  BY <1>3
<1>5. \A i \in 1 .. Len(collected) : collected[i] = (read + Len(rx)) + 0 + i
  BY <1>1 DEF Numbered
<1>6. read + Len(rx) \in Nat /\ 0 + Len(collected) = sent - (read + Len(rx))
  BY <1>1
<1> QED BY <1>1, <1>2, <1>3, <1>4, <1>5, <1>6 DEF Numbered

(* Those that have left the receiver were read, in their order, or dropped.*)
Fated ==
  /\ got \in Seq(Nat) /\ dropped \subseteq 1 .. read
  /\ \A i, j \in 1 .. Len(got) : i < j => got[i] < got[j]
  /\ \A i \in 1 .. Len(got) : got[i] \in (1 .. read) \ dropped
  /\ \A k \in (1 .. read) \ dropped : \E i \in 1 .. Len(got) : got[i] = k

LEMMA Appended ==
  ASSUME NEW s \in Seq(Nat), NEW x \in Nat
  PROVE  /\ Append(s, x) \in Seq(Nat) /\ Len(s) \in Nat
         /\ Len(Append(s, x)) = Len(s) + 1
         /\ \A i \in 1 .. Len(s) : Append(s, x)[i] = s[i]
         /\ Append(s, x)[Len(s) + 1] = x
         /\ \A i \in 1 .. Len(s) + 1 : i \in 1 .. Len(s) \/ i = Len(s) + 1
OBVIOUS

LEMMA HandleFate ==
  ASSUME Numbered, Fated, Handle
  PROVE  Fated'
<1>1. CASE rx = <<>>
  BY <1>1 DEF Handle, Fated
<1>2. CASE rx # <<>>
  <2>1. read \in Nat /\ Head(rx) = read + 1
    <3>1. rx \in Seq(Nat) /\ Len(rx) \in Nat \ {0} /\ Head(rx) = rx[1] /\ read \in Nat
      BY <1>2 DEF Numbered
    <3> QED BY <3>1 DEF Numbered
  <2>2. read' = read + 1 /\ got' = Append(got, read + 1) /\ dropped' = dropped
    BY <1>2, <2>1 DEF Handle
  <2>3. /\ got' \in Seq(Nat) /\ Len(got) \in Nat /\ Len(got') = Len(got) + 1
        /\ \A i \in 1 .. Len(got) : got'[i] = got[i]
        /\ got'[Len(got) + 1] = read + 1
        /\ \A i \in 1 .. Len(got) + 1 : i \in 1 .. Len(got) \/ i = Len(got) + 1
    BY <2>1, <2>2, Appended DEF Fated
  <2>4. dropped \subseteq 1 .. read + 1 /\ read + 1 \notin dropped
    BY <2>1 DEF Fated
  <2>8. \A i \in 1 .. Len(got) : /\ got'[i] \in (1 .. read + 1) \ dropped
                                 /\ got'[i] \in Nat /\ got'[i] < read + 1
    <3>1. \A i \in 1 .. Len(got) : got[i] \in 1 .. read /\ got[i] \notin dropped
      BY DEF Fated
    <3> QED BY <2>1, <2>3, <3>1
  <2>5. ASSUME NEW i \in 1 .. Len(got) + 1, NEW j \in 1 .. Len(got) + 1, i < j
        PROVE  got'[i] < got'[j]
    <3>1. i \in 1 .. Len(got)
      BY <2>3, <2>5
    <3>2. CASE j \in 1 .. Len(got)
      <4>1. got[i] < got[j]
        BY <2>5, <3>1, <3>2 DEF Fated
      <4> QED BY <2>3, <3>1, <3>2, <4>1
    <3>3. CASE j = Len(got) + 1
      BY <2>3, <2>8, <3>1, <3>3
    <3> QED BY <2>3, <3>2, <3>3
  <2>6. \A i \in 1 .. Len(got) + 1 : got'[i] \in (1 .. read + 1) \ dropped
    <3>1. read + 1 \in (1 .. read + 1) \ dropped
      BY <2>1, <2>4
    <3> QED BY <2>3, <2>8, <3>1
  <2>7. \A k \in (1 .. read + 1) \ dropped : \E i \in 1 .. Len(got) + 1 : got'[i] = k
    <3> TAKE k \in (1 .. read + 1) \ dropped
    <3>1. CASE k = read + 1
      BY <2>3, <3>1
    <3>2. CASE k # read + 1
      <4>1. PICK i \in 1 .. Len(got) : got[i] = k
        BY <2>1, <3>2 DEF Fated
      <4> QED BY <2>3, <4>1
    <3> QED BY <3>1, <3>2
  <2> QED BY <2>2, <2>3, <2>4, <2>5, <2>6, <2>7 DEF Fated
<1> QED BY <1>1, <1>2

LEMMA ResetFate ==
  ASSUME Numbered, Fated, Reset
  PROVE  Fated'
<1>1. read \in Nat /\ rx \in Seq(Nat) /\ Len(rx) \in Nat /\ DOMAIN rx = 1 .. Len(rx)
  BY DEF Numbered
<1>2. read' = read + Len(rx)
  <2>1. CASE rx = <<>>
    BY <1>1, <2>1 DEF Reset
  <2>2. CASE rx # <<>>
    <3>1. Len(rx) \in 1 .. Len(rx)
      BY <1>1, <2>2
    <3> QED BY <2>2, <3>1 DEF Reset, Numbered
  <2> QED BY <2>1, <2>2
<1>3. got' = got /\ dropped' = dropped \cup {rx[i] : i \in 1 .. Len(rx)}
  BY <1>1 DEF Reset
<1>4. {rx[i] : i \in 1 .. Len(rx)} = read + 1 .. read + Len(rx)
  <2>1. \A i \in 1 .. Len(rx) : rx[i] = read + i
    BY DEF Numbered
  <2>2. ASSUME NEW k \in read + 1 .. read + Len(rx)
        PROVE  \E i \in 1 .. Len(rx) : rx[i] = k
    <3>1. PICK i \in 1 .. Len(rx) : k = read + i
      <4>1. k - read \in 1 .. Len(rx) /\ k = read + (k - read)
        BY <1>1
      <4> QED BY <4>1
    <3> QED BY <2>1, <3>1
  <2>3. \A i \in 1 .. Len(rx) : rx[i] \in read + 1 .. read + Len(rx)
    BY <1>1, <2>1
  <2> QED BY <2>2, <2>3
<1> DEFINE away == read + 1 .. read + Len(rx)
<1>5. dropped' = dropped \cup away
  BY <1>3, <1>4
<1>6. 1 .. read' = (1 .. read) \cup away /\ (1 .. read) \cap away = {}
  BY <1>1, <1>2
<1> HIDE DEF away
<1>7. dropped \subseteq 1 .. read
  BY DEF Fated
<1>8. dropped' \subseteq 1 .. read' /\ (1 .. read') \ dropped' = (1 .. read) \ dropped
  BY <1>5, <1>6, <1>7
<1> QED BY <1>3, <1>8 DEF Fated

LEMMA NumberedInOrder ==
  ASSUME Numbered, Fated
  PROVE  InOrder
<1> DEFINE s == [i \in 1 .. sent - read |-> read + i]
<1>1. /\ sent \in Nat /\ read \in Nat /\ rx \in Seq(Nat) /\ collected \in Seq(Nat)
      /\ Len(rx) \in Nat /\ Len(collected) \in Nat
      /\ Len(rx) + Len(collected) = sent - read
  BY DEF Numbered
<1>2. /\ rx \o collected \in Seq(Nat) /\ Len(rx \o collected) = Len(rx) + Len(collected)
      /\ \A i \in 1 .. Len(rx) : (rx \o collected)[i] = rx[i]
      /\ \A i \in 1 .. Len(collected) : (rx \o collected)[Len(rx) + i] = collected[i]
  BY <1>1, Joined
<1>3. s \in Seq(Nat) /\ Len(s) = sent - read
  BY <1>1
<1>4. \A i \in 1 .. Len(rx \o collected) : (rx \o collected)[i] = s[i]
  <2> TAKE i \in 1 .. Len(rx \o collected)
  <2>1. s[i] = read + i
    BY <1>1, <1>2
  <2> HIDE DEF s
  <2>2. CASE i \in 1 .. Len(rx)
    BY <1>2, <2>1, <2>2 DEF Numbered
  <2>3. ASSUME NEW j \in 1 .. Len(collected), i = Len(rx) + j
        PROVE  (rx \o collected)[i] = s[i]
    BY <1>1, <1>2, <2>1, <2>3 DEF Numbered
  <2> QED BY <1>1, <2>2, <2>3, JoinedAt
<1> HIDE DEF s
<1>5. rx \o collected = s
  <2>1. Len(rx \o collected) = Len(s)
    BY <1>1, <1>2, <1>3
  <2> QED BY <1>2, <1>3, <1>4, <2>1, SameElements
<1>6. /\ DOMAIN got = 1 .. Len(got)
      /\ {got[i] : i \in 1 .. Len(got)} = (1 .. read) \ dropped
      /\ \A i, j \in 1 .. Len(got) : i < j => got[i] < got[j]
  BY DEF Fated
<1> QED BY <1>5, <1>6 DEF InOrder, s

(* Every byte that JuceMidi collects reaches the OS once and in order, or  *)
(* waits, or was thrown away by a reset of the receiver: for any number of *)
(* bytes, any rounds of the two threads, and resets, masks and disabling   *)
(* of the receiver at any time (jucemidi.h, g1duart.h, execPcPort).        *)
THEOREM BytesInOrder == Spec => []InOrder
<1> DEFINE Inv == Numbered /\ Fated
<1>1. Init => Inv
  BY DEF Init, Numbered, Fated
<1>2. Inv /\ [Next]_vars => Inv'
  <2> SUFFICES ASSUME Inv, [Next]_vars PROVE Inv'
    OBVIOUS
  <2>1. ASSUME NEW n \in 1 .. 2, Collect(n) PROVE Inv'
    <3>1. UNCHANGED fate
      BY <2>1 DEF Collect
    <3> QED BY <2>1, <3>1, CollectStep DEF fate, Fated
  <2>2. CASE Poll
    <3>1. UNCHANGED fate
      BY <2>2 DEF Poll
    <3> QED BY <2>2, <3>1, PollStep DEF fate, Fated
  <2>3. CASE Handle
    BY <2>3, HandleStep, HandleFate
  <2>4. CASE Reset
    BY <2>4, ResetStep, ResetFate
  <2>5. ASSUME UNCHANGED <<sent, collected, rx, fate>> PROVE Inv'
    BY <2>5 DEF fate, Numbered, Fated
  <2>6. CASE Exec \/ Enable \/ Mask
    BY <2>5, <2>6 DEF Exec, Enable, Mask
  <2>7. ASSUME UNCHANGED input PROVE Inv'
    BY <2>5, <2>7 DEF input
  <2>8. CASE WriteByte \/ BreakOff \/ Drain \/ SendMessage \/ EndRound
    BY <2>7, <2>8 DEF WriteByte, BreakOff, Drain, SendMessage, EndRound
  <2>9. ASSUME NEW m \in Messages, BeginMessage(m) PROVE Inv'
    BY <2>7, <2>9 DEF BeginMessage
  <2>10. CASE UNCHANGED vars
    BY <2>7, <2>10 DEF vars
  <2> QED BY <2>1, <2>2, <2>3, <2>4, <2>6, <2>8, <2>9, <2>10 DEF Next
<1>3. Inv => InOrder
  BY NumberedInOrder
<1> HIDE DEF Inv
<1> QED BY <1>1, <1>2, <1>3, PTL DEF Spec

-----------------------------------------------------------------------------
(* The OS's messages on their way through tx and pending. *)

LEMMA HasLowest ==
  ASSUME NEW T \in SUBSET Nat, T # {}
  PROVE  \E x \in T : \A y \in T : x <= y
<1> DEFINE R == OpToRel(<, Nat)
<1>1. IsWellFoundedOn(R, Nat)
  BY NatLessThanWellFounded
<1>2. \A x, y \in Nat : x < y => <<x, y>> \in R
  BY DEF OpToRel
<1> HIDE DEF R
<1>3. PICK x \in T : \A y \in T : ~ (<<y, x>> \in R)
  BY <1>1, WFMin
<1>4. ASSUME NEW y \in T PROVE x <= y
  <2> SUFFICES ASSUME y < x PROVE FALSE
    OBVIOUS
  <2> QED BY <1>2, <1>3, Zenon
<1> QED BY <1>4

(* A SysEx ends at its first F7. *)
LEMMA SysExEnd ==
  ASSUME NEW b, Len(b) \in Nat, b[1] = "F0", NEW k \in 2 .. Len(b), b[k] = "F7"
  PROVE  /\ messageLength(b) \in 2 .. Len(b) /\ b[messageLength(b)] = "F7"
         /\ \A j \in 2 .. messageLength(b) - 1 : b[j] # "F7"
<1> DEFINE T == {j \in 2 .. Len(b) : b[j] = "F7"}
           End(i) == b[i] = "F7" /\ \A j \in 2 .. i - 1 : b[j] # "F7"
<1>1. T \in SUBSET Nat /\ k \in T
  OBVIOUS
<1>2. PICK x \in T : \A y \in T : x <= y
  BY <1>1, HasLowest
<1>3. x \in 2 .. Len(b) /\ End(x)
  BY <1>2
<1>4. messageLength(b) = CHOOSE i \in 2 .. Len(b) : End(i)
  BY DEF messageLength
<1> HIDE DEF End
<1>5. messageLength(b) \in 2 .. Len(b) /\ End(messageLength(b))
  BY <1>3, <1>4
<1> QED BY <1>5 DEF End

LEMMA LengthWithin ==
  ASSUME NEW b \in Seq(Bytes), b # <<>>
  PROVE  messageLength(b) \in 0 .. Len(b)
<1>1. Len(b) \in Nat \ {0}
  BY EmptySeq
<1>2. CASE b[1] = "F0" /\ \E i \in 2 .. Len(b) : b[i] = "F7"
  <2>1. PICK k \in 2 .. Len(b) : b[k] = "F7"
    BY <1>2
  <2>2. messageLength(b) \in 2 .. Len(b)
    BY <1>1, <1>2, <2>1, SysExEnd
  <2> QED BY <1>1, <2>2
<1>3. CASE ~(b[1] = "F0" /\ \E i \in 2 .. Len(b) : b[i] = "F7")
  BY <1>1, <1>3 DEF messageLength
<1> QED BY <1>2, <1>3

(* One message, and whatever begins with it or is its beginning.           *)
Begins(b, m) == \A i \in 1 .. Len(m) : i <= Len(b) => b[i] = m[i]

LEMMA LengthOfFirst ==
  ASSUME NEW m \in Seq(Bytes), Len(m) \in Nat \ {0}, messageLength(m) = Len(m),
         NEW b \in Seq(Bytes), Len(b) \in Nat \ {0}, Begins(b, m)
  PROVE  messageLength(b) = IF Len(m) <= Len(b) THEN Len(m) ELSE 0
<1>1. b[1] = m[1]
  BY DEF Begins
<1>2. CASE m[1] = "F0"
  <2>1. PICK k \in 2 .. Len(m) : m[k] = "F7"
    BY <1>2 DEF messageLength
  <2>2. /\ Len(m) \in 2 .. Len(m) /\ m[Len(m)] = "F7"
        /\ \A j \in 2 .. Len(m) - 1 : m[j] # "F7"
    BY <1>2, <2>1, SysExEnd
  <2>3. CASE Len(m) <= Len(b)
    <3>1. b[Len(m)] = "F7" /\ \A j \in 2 .. Len(m) - 1 : b[j] # "F7"
      BY <2>2, <2>3 DEF Begins
    <3>2. /\ messageLength(b) \in 2 .. Len(b) /\ b[messageLength(b)] = "F7"
          /\ \A j \in 2 .. messageLength(b) - 1 : b[j] # "F7"
      BY <1>1, <1>2, <2>2, <2>3, <3>1, SysExEnd
    <3>3. ~(messageLength(b) < Len(m)) /\ ~(Len(m) < messageLength(b))
      BY <2>2, <3>1, <3>2
    <3> QED BY <2>3, <3>2, <3>3
  <2>4. CASE Len(b) < Len(m)
    <3>1. \A i \in 2 .. Len(b) : b[i] # "F7"
      BY <2>2, <2>4 DEF Begins
    <3> QED BY <1>1, <1>2, <2>4, <3>1 DEF messageLength
  <2> QED BY <2>3, <2>4
<1>3. CASE m[1] = "C0"
  BY <1>1, <1>3 DEF messageLength
<1>4. CASE m[1] \in {"F7", "F8"}
  BY <1>1, <1>4 DEF messageLength
<1>5. CASE m[1] \notin {"F0", "C0", "F7", "F8"}
  BY <1>1, <1>5 DEF messageLength
<1> QED BY <1>2, <1>3, <1>4, <1>5

(* b is the messages of ms one after the other, the k-th of them from the  *)
(* byte after start[k] on.                                                 *)
PlacedAt(ms, b, start) ==
  /\ start \in [1 .. Len(ms) + 1 -> Nat]
  /\ start[1] = 0 /\ start[Len(ms) + 1] = Len(b)
  /\ \A k, l \in 1 .. Len(ms) + 1 : k <= l => start[k] <= start[l]
  /\ \A k \in 1 .. Len(ms) :
       /\ start[k + 1] = start[k] + Len(ms[k])
       /\ \A j \in 1 .. Len(ms[k]) : b[start[k] + j] = ms[k][j]

Joins(ms, b) == \E start : PlacedAt(ms, b, start)

LEMMA NoneJoined ==
  ASSUME NEW b \in Seq(Bytes)
  PROVE  Joins(<<>>, b) <=> b = <<>>
<1>1. ASSUME Joins(<<>>, b) PROVE b = <<>>
  <2>1. Len(b) = 0
    BY <1>1 DEF Joins, PlacedAt
  <2> QED BY <2>1, EmptySeq
<1>2. ASSUME b = <<>> PROVE Joins(<<>>, b)
  <2> DEFINE start == [k \in 1 .. 1 |-> 0]
  <2>1. PlacedAt(<<>>, b, start)
    BY <1>2 DEF PlacedAt
  <2> QED BY <2>1 DEF Joins
<1> QED BY <1>1, <1>2

LEMMA JoinsOneMore ==
  ASSUME NEW ms \in Seq(Seq(Bytes)), NEW b \in Seq(Bytes), NEW m \in Seq(Bytes), Joins(ms, b)
  PROVE  Joins(Append(ms, m), b \o m)
<1> DEFINE n == Len(ms)
           all == Append(ms, m)
           c == b \o m
<1>1. PICK start : PlacedAt(ms, b, start)
  BY DEF Joins
<1> DEFINE later == [k \in 1 .. n + 2 |-> IF k <= n + 1 THEN start[k] ELSE Len(b) + Len(m)]
<1>2. n \in Nat /\ Len(b) \in Nat /\ Len(m) \in Nat
  BY LenProperties
<1>3. /\ Len(all) = n + 1 /\ all[n + 1] = m
      /\ \A k \in 1 .. n : all[k] = ms[k]
  BY <1>2
<1>4. /\ Len(c) = Len(b) + Len(m)
      /\ \A i \in 1 .. Len(b) : c[i] = b[i]
      /\ \A i \in 1 .. Len(m) : c[Len(b) + i] = m[i]
  BY <1>2, ConcatProperties
<1>5. /\ start \in [1 .. n + 1 -> Nat] /\ start[1] = 0 /\ start[n + 1] = Len(b)
      /\ \A k, l \in 1 .. n + 1 : k <= l => start[k] <= start[l]
      /\ \A k \in 1 .. n : /\ start[k + 1] = start[k] + Len(ms[k])
                           /\ \A j \in 1 .. Len(ms[k]) : b[start[k] + j] = ms[k][j]
  BY <1>1 DEF PlacedAt
<1>6. \A k \in 1 .. n : Len(ms[k]) \in Nat
  BY LenProperties
<1> HIDE DEF n, all, c
<1>7. later \in [1 .. n + 2 -> Nat] /\ later[1] = 0 /\ later[n + 2] = Len(b) + Len(m)
  BY <1>2, <1>5
<1>8. \A k \in 1 .. n + 1 : later[k] = start[k] /\ start[k] \in Nat /\ start[k] <= Len(b)
  BY <1>2, <1>5
<1>9. \A k, l \in 1 .. n + 2 : k <= l => later[k] <= later[l]
  <2> SUFFICES ASSUME NEW k \in 1 .. n + 2, NEW l \in 1 .. n + 2, k <= l
               PROVE  later[k] <= later[l]
    OBVIOUS
  <2> HIDE DEF later
  <2>1. CASE l <= n + 1
    BY <1>2, <1>5, <1>8, <2>1
  <2>2. CASE l = n + 2 /\ k <= n + 1
    <3>1. k \in 1 .. n + 1
      BY <1>2, <2>2
    <3>2. later[k] \in Nat /\ later[k] <= Len(b) /\ later[l] = Len(b) + Len(m)
      BY <1>7, <1>8, <2>2, <3>1
    <3> QED BY <1>2, <3>2
  <2>3. CASE l = n + 2 /\ k = n + 2
    BY <1>2, <1>7, <2>3
  <2> QED BY <1>2, <2>1, <2>2, <2>3
<1> HIDE DEF later
<1>10. ASSUME NEW k \in 1 .. n + 1
       PROVE  /\ later[k + 1] = later[k] + Len(all[k])
              /\ \A j \in 1 .. Len(all[k]) : c[later[k] + j] = all[k][j]
  <2>1. CASE k <= n
    <3>1. k \in 1 .. n /\ k + 1 \in 1 .. n + 1
      BY <1>2, <2>1
    <3>2. later[k] = start[k] /\ later[k + 1] = start[k] + Len(ms[k]) /\ all[k] = ms[k]
      BY <1>3, <1>5, <1>8, <3>1
    <3>3. ASSUME NEW j \in 1 .. Len(ms[k]) PROVE c[start[k] + j] = ms[k][j]
      <4>1. start[k] + j \in 1 .. Len(b)
        BY <1>2, <1>5, <1>6, <1>8, <3>1, SMTT(60)
      <4> QED BY <1>4, <1>5, <3>1, <4>1
    <3> QED BY <3>2, <3>3
  <2>2. CASE k = n + 1
    <3>1. later[k] = Len(b) /\ later[k + 1] = Len(b) + Len(m) /\ all[k] = m
      BY <1>2, <1>3, <1>5, <1>7, <1>8, <2>2
    <3> QED BY <1>4, <3>1
  <2> QED BY <1>2, <2>1, <2>2
<1>11. PlacedAt(all, c, later)
  BY <1>2, <1>3, <1>4, <1>7, <1>9, <1>10 DEF PlacedAt
<1> QED BY <1>11 DEF Joins, all, c

LEMMA JoinsOneLess ==
  ASSUME NEW ms \in Seq(Seq(Bytes)), ms # <<>>, NEW b \in Seq(Bytes), Joins(ms, b)
  PROVE  /\ Len(Head(ms)) <= Len(b)
         /\ \A j \in 1 .. Len(Head(ms)) : b[j] = Head(ms)[j]
         /\ Joins(Tail(ms), SubSeq(b, Len(Head(ms)) + 1, Len(b)))
<1> DEFINE n == Len(ms)
           h == Len(Head(ms))
           rst == Tail(ms)
           c == SubSeq(b, h + 1, Len(b))
<1>1. PICK start : PlacedAt(ms, b, start)
  BY DEF Joins
<1> DEFINE earlier == [k \in 1 .. n |-> start[k + 1] - h]
<1>2. n \in Nat \ {0} /\ Len(b) \in Nat /\ Head(ms) = ms[1] /\ h \in Nat
  BY LenProperties, EmptySeq
<1>3. /\ Len(rst) = n - 1
      /\ \A k \in 1 .. n - 1 : rst[k] = ms[k + 1]
  BY <1>2, HeadTailProperties
<1>4. /\ start \in [1 .. n + 1 -> Nat] /\ start[1] = 0 /\ start[n + 1] = Len(b)
      /\ \A k, l \in 1 .. n + 1 : k <= l => start[k] <= start[l]
      /\ \A k \in 1 .. n : /\ start[k + 1] = start[k] + Len(ms[k])
                           /\ \A j \in 1 .. Len(ms[k]) : b[start[k] + j] = ms[k][j]
  BY <1>1 DEF PlacedAt
<1>5. \A k \in 1 .. n : Len(ms[k]) \in Nat
  BY LenProperties
<1>6. start[2] = h /\ \A j \in 1 .. h : b[j] = Head(ms)[j]
  <2>1. 1 \in 1 .. n /\ start[1] = 0 /\ start[1 + 1] = start[1] + h /\ 1 + 1 = 2
    BY <1>2, <1>4
  <2>2. ASSUME NEW j \in 1 .. h PROVE b[j] = Head(ms)[j]
    <3>1. b[start[1] + j] = ms[1][j] /\ start[1] + j = j
      BY <1>2, <1>4, <2>1
    <3> QED BY <1>2, <3>1
  <2> QED BY <1>2, <2>1, <2>2
<1> HIDE DEF n, h, rst
<1>7. \A k \in 1 .. n : start[k + 1] \in Nat /\ h <= start[k + 1] /\ start[k + 1] <= Len(b)
  BY <1>2, <1>4, <1>6
<1>8. h <= Len(b)
  BY <1>2, <1>4, <1>7
<1>9. /\ c \in Seq(Bytes) /\ Len(c) = Len(b) - h
      /\ \A i \in 1 .. Len(b) - h : c[i] = b[h + i]
  <2>1. \A i \in h + 1 .. Len(b) : b[i] \in Bytes
    BY <1>2
  <2>2. /\ c \in Seq(Bytes) /\ Len(c) = IF h + 1 <= Len(b) THEN Len(b) - (h + 1) + 1 ELSE 0
        /\ \A i \in 1 .. Len(b) - (h + 1) + 1 : c[i] = b[(h + 1) + i - 1]
    BY <1>2, <2>1, SubSeqProperties
  <2> HIDE DEF c
  <2> QED BY <1>2, <1>8, <2>2
<1> HIDE DEF c
<1>10. earlier \in [1 .. n -> Nat] /\ earlier[1] = 0 /\ earlier[n] = Len(b) - h
  <2>1. earlier \in [1 .. n -> Nat]
    BY <1>2, <1>7
  <2>2. 1 \in 1 .. n /\ n \in 1 .. n /\ 1 + 1 = 2
    BY <1>2
  <2>3. earlier[1] = start[2] - h /\ earlier[n] = start[n + 1] - h
    BY <2>2
  <2> QED BY <1>2, <1>4, <1>6, <2>1, <2>3
<1>11. \A k, l \in 1 .. n : k <= l => earlier[k] <= earlier[l]
  BY <1>2, <1>4, <1>7
<1>12. \A k \in 1 .. n : earlier[k] = start[k + 1] - h
  OBVIOUS
<1> HIDE DEF earlier
<1>13. ASSUME NEW k \in 1 .. n - 1
       PROVE  /\ earlier[k + 1] = earlier[k] + Len(rst[k])
              /\ \A j \in 1 .. Len(rst[k]) : c[earlier[k] + j] = rst[k][j]
  <2>1. k \in 1 .. n /\ k + 1 \in 1 .. n
    BY <1>2
  <2>2. /\ rst[k] = ms[k + 1] /\ Len(ms[k + 1]) \in Nat
        /\ start[(k + 1) + 1] = start[k + 1] + Len(ms[k + 1])
        /\ start[k + 1] \in Nat /\ h <= start[k + 1] /\ start[(k + 1) + 1] <= Len(b)
    BY <1>3, <1>4, <1>5, <1>7, <2>1
  <2>3. earlier[k] = start[k + 1] - h /\ earlier[k + 1] = start[(k + 1) + 1] - h
    BY <1>12, <2>1
  <2>4. ASSUME NEW j \in 1 .. Len(ms[k + 1]) PROVE c[earlier[k] + j] = ms[k + 1][j]
    <3>1. earlier[k] + j \in 1 .. Len(b) - h /\ h + (earlier[k] + j) = start[k + 1] + j
      <4>1. ASSUME NEW x \in Nat, NEW g \in Nat, NEW y \in Nat, NEW z \in Nat,
                   g <= x, x + y <= z, j \in 1 .. y
            PROVE  (x - g) + j \in 1 .. z - g /\ g + ((x - g) + j) = x + j
        BY <4>1
      <4>2. start[k + 1] + Len(ms[k + 1]) <= Len(b)
        BY <2>2
      <4> QED BY <1>2, <2>2, <2>3, <4>1, <4>2
    <3> QED BY <1>4, <1>9, <2>1, <3>1
  <2> QED BY <1>2, <2>2, <2>3, <2>4
<1>14. PlacedAt(rst, c, earlier)
  <2>1. (Len(rst) + 1) = n
    BY <1>2, <1>3
  <2> QED BY <1>3, <1>9, <1>10, <1>11, <1>13, <2>1 DEF PlacedAt
<1> QED BY <1>6, <1>8, <1>14 DEF Joins, h, rst, c

(* What the OS has written and what is left of its message, in order.      *)
Stream == (pending \o tx) \o writing

(* As long as the OS ends what it begins, that is the messages that are    *)
(* due, and nothing else.                                                  *)
Streamed ==
  /\ pending \in Seq(Bytes) /\ tx \in Seq(Bytes) /\ writing \in Seq(Bytes)
  /\ due \in Seq(Messages)
  /\ ~broken => Joins(due, Stream)

LEMMA StreamTypes ==
  ASSUME Streamed
  PROVE  /\ pending \o tx \in Seq(Bytes) /\ Stream \in Seq(Bytes) /\ due \in Seq(Seq(Bytes))
         /\ Len(pending) \in Nat /\ Len(Stream) \in Nat /\ Len(pending) <= Len(Stream)
         /\ \A k \in 1 .. Len(pending) : Stream[k] = pending[k]
<1>1. pending \in Seq(Bytes) /\ tx \in Seq(Bytes) /\ writing \in Seq(Bytes) /\ due \in Seq(Messages)
  BY DEF Streamed
<1>2. /\ pending \o tx \in Seq(Bytes) /\ Len(pending \o tx) = Len(pending) + Len(tx)
      /\ \A k \in 1 .. Len(pending) + Len(tx) :
           (pending \o tx)[k] = IF k <= Len(pending) THEN pending[k] ELSE tx[k - Len(pending)]
  BY <1>1, ConcatProperties
<1>3. Len(pending) \in Nat /\ Len(tx) \in Nat /\ Len(writing) \in Nat
  BY <1>1, LenProperties
<1>4. /\ Stream \in Seq(Bytes) /\ Len(Stream) = Len(pending \o tx) + Len(writing)
      /\ \A k \in 1 .. Len(pending \o tx) + Len(writing) :
           Stream[k] = IF k <= Len(pending \o tx) THEN (pending \o tx)[k]
                                                  ELSE writing[k - Len(pending \o tx)]
  BY <1>1, <1>2, ConcatProperties DEF Stream
<1>5. due \in Seq(Seq(Bytes))
  BY <1>1, PcPortAssumption, SeqMonotonic
<1>6. Len(Stream) \in Nat /\ Len(pending) <= Len(Stream)
  BY <1>2, <1>3, <1>4
<1>7. \A k \in 1 .. Len(pending) : Stream[k] = pending[k]
  BY <1>2, <1>3, <1>4
<1> QED BY <1>2, <1>3, <1>4, <1>5, <1>6, <1>7

(* What is pending begins with the first message due, or is its beginning. *)
LEMMA FirstDue ==
  ASSUME Streamed, ~broken, pending # <<>>
  PROVE  /\ due # <<>> /\ Head(due) \in Messages /\ Len(Head(due)) \in 1 .. Limit + 1
         /\ \A j \in 1 .. Len(Head(due)) : j <= Len(pending) => pending[j] = Head(due)[j]
         /\ messageLength(pending) =
              IF Len(Head(due)) <= Len(pending) THEN Len(Head(due)) ELSE 0
<1>1. /\ Stream \in Seq(Bytes) /\ due \in Seq(Seq(Bytes))
      /\ Len(pending) \in Nat /\ Len(Stream) \in Nat /\ Len(pending) <= Len(Stream)
      /\ \A k \in 1 .. Len(pending) : Stream[k] = pending[k]
  BY StreamTypes
<1>2. pending \in Seq(Bytes) /\ due \in Seq(Messages) /\ Joins(due, Stream)
  BY DEF Streamed
<1>3. Len(pending) \in Nat \ {0}
  BY <1>2, EmptySeq
<1>4. due # <<>>
  <2>1. Stream # <<>>
    BY <1>1, <1>3, EmptySeq
  <2> QED BY <1>1, <1>2, <2>1, NoneJoined
<1>5. Head(due) \in Messages
  BY <1>2, <1>4, HeadTailProperties
<1>6. /\ Head(due) \in Seq(Bytes) /\ Len(Head(due)) \in 1 .. Limit + 1
      /\ messageLength(Head(due)) = Len(Head(due))
  BY <1>5, PcPortAssumption, MessagesAssumption
<1>7. \A j \in 1 .. Len(Head(due)) : Stream[j] = Head(due)[j]
  BY <1>1, <1>2, <1>4, JoinsOneLess
<1>8. Len(Head(due)) \in Nat \ {0}
  BY <1>6, PcPortAssumption
<1>9. \A j \in 1 .. Len(Head(due)) : j <= Len(pending) => pending[j] = Head(due)[j]
  BY <1>1, <1>7, <1>8
<1>10. Begins(pending, Head(due))
  BY <1>9 DEF Begins
<1> QED BY <1>2, <1>3, <1>4, <1>5, <1>6, <1>8, <1>9, <1>10, LengthOfFirst

LEMMA AppendAfter ==
  ASSUME NEW S, NEW a \in Seq(S), NEW t \in Seq(S), NEW h \in S
  PROVE  a \o Append(t, h) = Append(a \o t, h)
<1>1. <<h>> \in Seq(S) /\ a \o t \in Seq(S)
  BY ConcatProperties
<1>2. Append(t, h) = t \o <<h>>
  BY AppendIsConcat
<1>3. Append(a \o t, h) = (a \o t) \o <<h>>
  BY <1>1, AppendIsConcat
<1>4. (a \o t) \o <<h>> = a \o (t \o <<h>>)
  BY <1>1, ConcatAssociative
<1> QED BY <1>2, <1>3, <1>4

LEMMA MoveHead ==
  ASSUME NEW S, NEW s \in Seq(S), NEW t \in Seq(S), t # <<>>
  PROVE  Append(s, Head(t)) \o Tail(t) = s \o t
<1>1. Head(t) \in S /\ Tail(t) \in Seq(S)
  BY HeadTailProperties
<1>2. Append(s, Head(t)) = s \o <<Head(t)>>
  BY <1>1, AppendIsConcat
<1>3. t = <<Head(t)>> \o Tail(t)
  <2>1. t = Append(<<>>, Head(t)) \o Tail(t)
    BY HeadTailAppend
  <2> QED BY <1>1
<1>4. <<Head(t)>> \in Seq(S)
  BY <1>1
<1>5. (s \o <<Head(t)>>) \o Tail(t) = s \o (<<Head(t)>> \o Tail(t))
  BY <1>1, <1>4, ConcatAssociative
<1> QED BY <1>2, <1>3, <1>5

LEMMA Dropped ==
  ASSUME NEW S, NEW a \in Seq(S), NEW n \in Nat, n <= Len(a)
  PROVE  /\ SubSeq(a, n + 1, Len(a)) \in Seq(S)
         /\ Len(SubSeq(a, n + 1, Len(a))) = Len(a) - n
         /\ \A j \in 1 .. Len(a) - n : SubSeq(a, n + 1, Len(a))[j] = a[n + j]
<1> DEFINE r == SubSeq(a, n + 1, Len(a))
<1>1. Len(a) \in Nat /\ \A j \in n + 1 .. Len(a) : a[j] \in S
  BY LenProperties
<1>2. /\ r \in Seq(S)
      /\ Len(r) = IF n + 1 <= Len(a) THEN Len(a) - (n + 1) + 1 ELSE 0
      /\ \A j \in 1 .. Len(a) - (n + 1) + 1 : r[j] = a[(n + 1) + j - 1]
  BY <1>1, SubSeqProperties
<1> HIDE DEF r
<1>3. Len(r) = Len(a) - n /\ \A j \in 1 .. Len(a) - n : r[j] = a[n + j]
  BY <1>1, <1>2
<1> QED BY <1>2, <1>3 DEF r

(* What is taken from the front of a sequence is taken from all of it.     *)
LEMMA DroppedFromFront ==
  ASSUME NEW S, NEW a \in Seq(S), NEW t \in Seq(S), NEW n \in Nat, n <= Len(a)
  PROVE  SubSeq(a, n + 1, Len(a)) \o t = SubSeq(a \o t, n + 1, Len(a \o t))
<1> DEFINE r == SubSeq(a, n + 1, Len(a))
           s == a \o t
           u == SubSeq(s, n + 1, Len(s))
           v == r \o t
<1>1. Len(a) \in Nat /\ Len(t) \in Nat
  BY LenProperties
<1>2. /\ s \in Seq(S) /\ Len(s) = Len(a) + Len(t)
      /\ \A k \in 1 .. Len(a) + Len(t) : s[k] = IF k <= Len(a) THEN a[k] ELSE t[k - Len(a)]
  BY ConcatProperties
<1>3. /\ r \in Seq(S) /\ Len(r) = Len(a) - n
      /\ \A j \in 1 .. Len(a) - n : r[j] = a[n + j]
  BY <1>1, Dropped
<1> HIDE DEF s, r
<1>4. /\ u \in Seq(S) /\ Len(u) = Len(s) - n
      /\ \A j \in 1 .. Len(s) - n : u[j] = s[n + j]
  BY <1>1, <1>2, Dropped
<1>5. /\ v \in Seq(S) /\ Len(v) = Len(r) + Len(t)
      /\ \A k \in 1 .. Len(r) + Len(t) : v[k] = IF k <= Len(r) THEN r[k] ELSE t[k - Len(r)]
  BY <1>3, ConcatProperties
<1> HIDE DEF u, v
<1>6. Len(v) = Len(u) /\ Len(v) = (Len(a) - n) + Len(t)
  BY <1>1, <1>2, <1>3, <1>4, <1>5
<1>7. ASSUME NEW j \in 1 .. Len(v) PROVE v[j] = u[j]
  <2>1. u[j] = s[n + j] /\ n + j \in 1 .. Len(a) + Len(t)
    BY <1>1, <1>2, <1>4, <1>6
  <2>2. CASE j <= Len(a) - n
    BY <1>1, <1>2, <1>3, <1>5, <1>6, <2>1, <2>2
  <2>3. CASE ~(j <= Len(a) - n)
    <3>1. v[j] = t[j - (Len(a) - n)]
      BY <1>1, <1>3, <1>5, <1>6, <2>3
    <3>2. ~(n + j <= Len(a)) /\ (n + j) - Len(a) = j - (Len(a) - n)
      BY <1>1, <1>6, <2>3
    <3> QED BY <1>2, <2>1, <3>1, <3>2
  <2> QED BY <2>2, <2>3
<1>8. v = u
  BY <1>4, <1>5, <1>6, <1>7, SeqEqual
<1> QED BY <1>8 DEF v, u, r, s

LEMMA BeginKeepsStream ==
  ASSUME Streamed, NEW m \in Messages, BeginMessage(m)
  PROVE  Streamed'
<1>1. /\ writing = <<>> /\ writing' = m /\ tx' = tx /\ pending' = pending /\ broken' = broken
      /\ due' = IF broken THEN due ELSE Append(due, m)
  BY DEF BeginMessage, input
<1>2. m \in Seq(Bytes) /\ due \in Seq(Messages) /\ due' \in Seq(Messages)
  BY <1>1, PcPortAssumption DEF Streamed
<1>3. pending \o tx \in Seq(Bytes) /\ due \in Seq(Seq(Bytes))
  BY StreamTypes
<1>4. Stream = pending \o tx
  BY <1>1, <1>3, ConcatEmptySeq DEF Stream
<1>5. Stream' = (pending \o tx) \o m
  BY <1>1 DEF Stream
<1>6. ASSUME ~broken PROVE Joins(due', Stream')
  BY <1>1, <1>2, <1>3, <1>4, <1>5, <1>6, JoinsOneMore DEF Streamed
<1> QED BY <1>1, <1>2, <1>6 DEF Streamed

LEMMA SendKeepsStream ==
  ASSUME Streamed, SendMessage, ~broken
  PROVE  /\ Streamed'
         /\ SubSeq(pending, 1, Len(pending) - Len(pending')) = Head(due)
<1> DEFINE m == Head(due)
           rst == SubSeq(pending, Len(m) + 1, Len(pending))
<1>1. pending # <<>> /\ messageLength(pending) > 0
  BY DEF SendMessage, Whole
<1>2. /\ due # <<>> /\ m \in Messages /\ Len(m) \in 1 .. Limit + 1
      /\ \A j \in 1 .. Len(m) : j <= Len(pending) => pending[j] = m[j]
      /\ messageLength(pending) = IF Len(m) <= Len(pending) THEN Len(m) ELSE 0
  BY <1>1, FirstDue
<1>3. /\ Len(m) \in Nat /\ Len(m) <= Len(pending) /\ messageLength(pending) = Len(m)
      /\ m \in Seq(Bytes)
  BY <1>1, <1>2, PcPortAssumption
<1>4. /\ pending' = rst /\ due' = Tail(due) /\ tx' = tx /\ writing' = writing /\ broken' = broken
  BY <1>3 DEF SendMessage
<1>5. /\ pending \in Seq(Bytes) /\ tx \in Seq(Bytes) /\ writing \in Seq(Bytes)
      /\ due \in Seq(Messages) /\ Tail(due) \in Seq(Messages) /\ Joins(due, Stream)
  BY <1>2, HeadTailProperties DEF Streamed
<1>6. /\ pending \o tx \in Seq(Bytes) /\ Stream \in Seq(Bytes) /\ due \in Seq(Seq(Bytes))
      /\ Len(pending) \in Nat /\ Len(Stream) \in Nat /\ Len(pending) <= Len(Stream)
      /\ \A k \in 1 .. Len(pending) : Stream[k] = pending[k]
  BY StreamTypes
<1> HIDE DEF m
<1>7. /\ rst \in Seq(Bytes) /\ Len(rst) = Len(pending) - Len(m)
  BY <1>3, <1>5, Dropped
<1> HIDE DEF rst
<1>8. (rst \o tx) \o writing = SubSeq(Stream, Len(m) + 1, Len(Stream))
  <2>1. rst \o tx = SubSeq(pending \o tx, Len(m) + 1, Len(pending \o tx))
    BY <1>3, <1>5, DroppedFromFront DEF rst
  <2>2. Len(m) <= Len(pending \o tx)
    <3>1. Len(tx) \in Nat /\ Len(pending \o tx) = Len(pending) + Len(tx)
      BY <1>5, LenProperties, ConcatProperties
    <3> QED BY <1>3, <1>6, <3>1
  <2>3. SubSeq(pending \o tx, Len(m) + 1, Len(pending \o tx)) \o writing
          = SubSeq(Stream, Len(m) + 1, Len(Stream))
    BY <1>3, <1>5, <1>6, <2>2, DroppedFromFront DEF Stream
  <2> QED BY <2>1, <2>3
<1>9. Joins(Tail(due), SubSeq(Stream, Len(m) + 1, Len(Stream)))
  BY <1>2, <1>5, <1>6, JoinsOneLess DEF m
<1>10. Streamed'
  BY <1>4, <1>5, <1>7, <1>8, <1>9 DEF Streamed, Stream
<1>11. SubSeq(pending, 1, Len(pending) - Len(pending')) = m
  <2>1. Len(pending) - Len(pending') = Len(m)
    BY <1>3, <1>4, <1>6, <1>7
  <2>2. \A j \in 1 .. Len(m) : pending[j] = m[j] /\ pending[j] \in Bytes
    BY <1>2, <1>3, <1>5, <1>6
  <2>3. /\ SubSeq(pending, 1, Len(m)) \in Seq(Bytes)
        /\ Len(SubSeq(pending, 1, Len(m))) = IF 1 <= Len(m) THEN Len(m) - 1 + 1 ELSE 0
        /\ \A j \in 1 .. Len(m) - 1 + 1 : SubSeq(pending, 1, Len(m))[j] = pending[1 + j - 1]
    BY <1>3, <2>2, SubSeqProperties
  <2>4. /\ Len(SubSeq(pending, 1, Len(m))) = Len(m)
        /\ \A j \in 1 .. Len(m) : SubSeq(pending, 1, Len(m))[j] = m[j]
    BY <1>3, <2>2, <2>3
  <2>5. SubSeq(pending, 1, Len(m)) = m
    BY <1>3, <2>3, <2>4, SeqEqual
  <2> QED BY <2>1, <2>5
<1> QED BY <1>10, <1>11 DEF m

LEMMA StreamStep ==
  ASSUME Streamed, [Next]_vars
  PROVE  Streamed'
<1>1. ASSUME UNCHANGED output PROVE Streamed'
  BY <1>1 DEF output, Streamed, Stream
<1>2. ASSUME NEW n \in 1 .. 2, Collect(n) PROVE Streamed'
  BY <1>1, <1>2 DEF Collect
<1>3. CASE Poll \/ Exec \/ Handle \/ Enable \/ Reset \/ Mask
  BY <1>1, <1>3 DEF Poll, Exec, Handle, Enable, Reset, Mask
<1>4. ASSUME NEW m \in Messages, BeginMessage(m) PROVE Streamed'
  BY <1>4, BeginKeepsStream
<1>5. CASE WriteByte
  <2>1. /\ writing # <<>> /\ tx' = Append(tx, Head(writing)) /\ writing' = Tail(writing)
        /\ pending' = pending /\ broken' = broken /\ due' = due
    BY <1>5 DEF WriteByte
  <2>2. pending \in Seq(Bytes) /\ tx \in Seq(Bytes) /\ writing \in Seq(Bytes)
    BY DEF Streamed
  <2>3. /\ tx' \in Seq(Bytes) /\ writing' \in Seq(Bytes)
        /\ (pending \o tx') \o writing' = (pending \o tx) \o writing
    <3>1. Head(writing) \in Bytes /\ Tail(writing) \in Seq(Bytes) /\ pending \o tx \in Seq(Bytes)
      BY <2>1, <2>2, HeadTailProperties, ConcatProperties
    <3>2. pending \o tx' = Append(pending \o tx, Head(writing))
      BY <2>1, <2>2, <3>1, AppendAfter
    <3>3. Append(pending \o tx, Head(writing)) \o Tail(writing) = (pending \o tx) \o writing
      BY <2>1, <2>2, <3>1, MoveHead
    <3>4. tx' \in Seq(Bytes)
      BY <2>1, <2>2, <3>1
    <3> QED BY <2>1, <3>1, <3>2, <3>3, <3>4
  <2>4. Stream' = Stream
    BY <2>1, <2>3 DEF Stream
  <2> QED BY <2>1, <2>3, <2>4 DEF Streamed
<1>6. CASE BreakOff
  BY <1>6, EmptySeq DEF BreakOff, Streamed
<1>7. CASE Drain
  <2>1. /\ pending' = pending \o tx /\ tx' = <<>> /\ writing' = writing
        /\ broken' = broken /\ due' = due
    BY <1>7 DEF Drain
  <2>2. pending \o tx \in Seq(Bytes)
    BY StreamTypes
  <2>3. pending' \o tx' = pending \o tx
    BY <2>1, <2>2, ConcatEmptySeq
  <2>4. Stream' = Stream
    BY <2>1, <2>3 DEF Stream
  <2>5. tx' \in Seq(Bytes)
    BY <2>1, EmptySeq
  <2> QED BY <2>1, <2>2, <2>4, <2>5 DEF Streamed
<1>8. CASE SendMessage
  <2>1. CASE broken
    <3>1. /\ broken' = broken /\ due' = due /\ tx' = tx /\ writing' = writing
          /\ pending' = SubSeq(pending, messageLength(pending) + 1, Len(pending))
          /\ messageLength(pending) > 0
      BY <1>8, <2>1 DEF SendMessage, Whole
    <3>2. pending' \in Seq(Bytes)
      <4>1. pending \in Seq(Bytes) /\ pending # <<>>
        BY <1>8 DEF Streamed, SendMessage, Whole
      <4>2. messageLength(pending) \in 0 .. Len(pending) /\ Len(pending) \in Nat
        BY <4>1, LengthWithin, LenProperties
      <4>3. messageLength(pending) \in Nat /\ messageLength(pending) <= Len(pending)
        BY <4>2
      <4> HIDE DEF Streamed
      <4> QED BY <3>1, <4>1, <4>3, Dropped
    <3> QED BY <2>1, <3>1, <3>2 DEF Streamed
  <2>2. CASE ~broken
    BY <1>8, <2>2, SendKeepsStream
  <2> QED BY <2>1, <2>2
<1>9. CASE EndRound
  <2>1. /\ tx' = tx /\ writing' = writing /\ broken' = broken /\ due' = due
        /\ pending' = IF Len(pending) > Limit THEN <<>> ELSE pending
        /\ ~(pending # <<>> /\ messageLength(pending) > 0)
    BY <1>9 DEF EndRound, Whole
  <2>2. CASE broken
    BY <2>1, <2>2, EmptySeq DEF Streamed
  <2>3. CASE ~broken
    <3>1. pending' = pending
      <4>1. CASE pending = <<>>
        BY <2>1, <4>1
      <4>2. CASE pending # <<>>
        <5>1. /\ Len(Head(due)) \in 1 .. Limit + 1
              /\ messageLength(pending) =
                   IF Len(Head(due)) <= Len(pending) THEN Len(Head(due)) ELSE 0
          BY <2>3, <4>2, FirstDue
        <5>2. Len(pending) \in Nat /\ Limit \in Nat
          BY StreamTypes, PcPortAssumption
        <5>3. ~(Len(pending) > Limit)
          BY <2>1, <4>2, <5>1, <5>2
        <5> QED BY <2>1, <5>3
      <4> QED BY <4>1, <4>2
    <3> QED BY <2>1, <3>1 DEF Streamed, Stream
  <2> QED BY <2>2, <2>3
<1>10. CASE UNCHANGED vars
  BY <1>1, <1>10 DEF vars
<1> QED
  BY <1>2, <1>3, <1>4, <1>5, <1>6, <1>7, <1>8, <1>9, <1>10 DEF Next

(* However execPcPort's queue and the rounds of EmuHost::run cut the OS's  *)
(* bytes, JuceMidi::send passes on each message whole, in order and alone, *)
(* and gives up none, for messages of any length up to one more than may   *)
(* wait.                                                                   *)
THEOREM MessagesStayWhole == Spec => WholeMessages
<1>1. Init => Streamed
  <2> SUFFICES ASSUME Init PROVE Streamed
    OBVIOUS
  <2>1. pending = <<>> /\ tx = <<>> /\ writing = <<>> /\ due = <<>>
    BY DEF Init
  <2>2. <<>> \in Seq(Bytes) /\ <<>> \in Seq(Messages)
    BY EmptySeq
  <2>3. Stream = <<>>
    BY <2>1, <2>2, ConcatEmptySeq DEF Stream
  <2> QED BY <2>1, <2>2, <2>3, NoneJoined DEF Streamed
<1>2. Streamed /\ [Next]_vars => Streamed'
  BY StreamStep
<1>3. Streamed /\ [Next]_vars =>
        [~broken' /\ Len(due') < Len(due) =>
           SubSeq(pending, 1, Len(pending) - Len(pending')) = Head(due)]_vars
  <2> SUFFICES ASSUME Streamed, Next, ~broken', Len(due') < Len(due)
               PROVE  SubSeq(pending, 1, Len(pending) - Len(pending')) = Head(due)
    OBVIOUS
  <2>1. due \in Seq(Messages) /\ Len(due) \in Nat
    BY LenProperties DEF Streamed
  <2>2. due' # due
    BY <2>1
  <2>3. CASE SendMessage
    <3>1. ~broken
      BY <2>3 DEF SendMessage
    <3> QED BY <2>3, <3>1, SendKeepsStream
  <2>4. ~BreakOff
    BY DEF BreakOff
  <2>5. ASSUME NEW m \in Messages, BeginMessage(m) PROVE FALSE
    <3>1. due' = Append(due, m)
      BY <2>2, <2>5 DEF BeginMessage
    <3>2. Len(due') = Len(due) + 1
      BY <2>1, <3>1
    <3> QED BY <2>1, <3>2
  <2>6. ~(Poll \/ Exec \/ Handle \/ Enable \/ Reset \/ Mask \/ WriteByte \/ Drain \/ EndRound)
    BY <2>2 DEF Poll, Exec, Handle, Enable, Reset, Mask, WriteByte, Drain, EndRound, output
  <2>7. \A n \in 1 .. 2 : ~Collect(n)
    BY <2>2 DEF Collect, output
  <2> QED BY <2>3, <2>4, <2>5, <2>6, <2>7 DEF Next
<1> QED BY <1>1, <1>2, <1>3, PTL DEF Spec, WholeMessages

-----------------------------------------------------------------------------
(* The display. *)
CONSTANT LcdCommands
VARIABLES bus, eLine, rsLine, ddram, cgram, addr, cgAddr, increment, cgMode, display

Dis == INSTANCE Lcd WITH Commands <- LcdCommands, e <- eLine, rs <- rsLine

LcdInv == Dis!TypeOK /\ Dis!CursorOnLine /\ Dis!TextOnLines

(* The cursor's steps keep to the lines, and undo each other. *)
LEMMA CursorSteps ==
  ASSUME NEW a \in Dis!Lines
  PROVE  /\ Dis!Forth(a) \in Dis!Lines /\ Dis!moveBack(a) \in Dis!Lines
         /\ Dis!moveBack(Dis!Forth(a)) = a /\ Dis!Forth(Dis!moveBack(a)) = a
BY DEF Dis!Lines, Dis!Forth, Dis!moveBack

LEMMA LinesAreAddresses == Dis!Lines \subseteq Dis!Addresses
BY DEF Dis!Lines, Dis!Addresses

(* The rows of the OS's own characters go round, in either direction. *)
LEMMA RowsGoRound ==
  ASSUME NEW r \in 0 .. 63
  PROVE  (r + 1) % 64 \in 0 .. 63 /\ (r + 63) % 64 \in 0 .. 63
OBVIOUS

LEMMA RowOfCommand ==
  ASSUME NEW v \in 64 .. 127
  PROVE  v - 64 \in 0 .. 63
OBVIOUS

(* latch: a row, a character or a command. *)
LEMMA LatchRow ==
  ASSUME LcdInv, Dis!PutRow
  PROVE  cgram' \in [Dis!Rows -> Dis!Bytes] /\ cgAddr' \in Dis!Rows
<1>1. cgAddr \in Dis!Rows /\ bus \in Dis!Bytes /\ cgram \in [Dis!Rows -> Dis!Bytes]
  BY DEF LcdInv, Dis!TypeOK
<1>2. cgAddr' \in Dis!Rows
  <2>1. cgAddr' = (cgAddr + (IF increment THEN 1 ELSE 63)) % 64
    BY Zenon DEF Dis!PutRow
  <2>2. CASE increment
    BY <1>1, <2>1, <2>2, RowsGoRound, Zenon DEF Dis!Rows
  <2>3. CASE ~increment
    BY <1>1, <2>1, <2>3, RowsGoRound, Zenon DEF Dis!Rows
  <2> QED  BY <2>2, <2>3
<1>3. cgram' = [cgram EXCEPT ![cgAddr] = bus]
  BY DEF Dis!PutRow
<1> QED  BY <1>1, <1>2, <1>3

LEMMA LatchCharacter ==
  ASSUME LcdInv, Dis!PutCharacter
  PROVE  /\ ddram' \in [Dis!Addresses -> Dis!Bytes] /\ addr' \in Dis!Lines
         /\ \A a \in Dis!Addresses \ Dis!Lines : ddram'[a] = Dis!Blank
<1>1. addr \in Dis!Lines /\ bus \in Dis!Bytes /\ ddram \in [Dis!Addresses -> Dis!Bytes]
  BY DEF LcdInv, Dis!TypeOK, Dis!CursorOnLine
<1>2. ddram' = [ddram EXCEPT ![addr] = bus]
  BY DEF Dis!PutCharacter
<1>3. addr' \in Dis!Lines
  BY <1>1, CursorSteps DEF Dis!PutCharacter, Dis!move
<1>4. ddram' \in [Dis!Addresses -> Dis!Bytes]
  BY <1>1, <1>2
<1>5. ASSUME NEW a \in Dis!Addresses \ Dis!Lines PROVE ddram'[a] = Dis!Blank
  BY <1>1, <1>2 DEF LcdInv, Dis!TextOnLines
<1> QED  BY <1>3, <1>4, <1>5

LEMMA LatchSetRow ==
  ASSUME Dis!SetRow
  PROVE  cgAddr' \in Dis!Rows
<1>1. bus \in 64 .. 127 /\ cgAddr' = bus - 64
  BY Zenon DEF Dis!SetRow
<1> QED  BY <1>1, RowOfCommand, Zenon DEF Dis!Rows

(* A step of the controller keeps what is in it in order. *)
LEMMA LatchStep ==
  ASSUME Dis!LcdAssumption, LcdInv, Dis!latch, rsLine \/ bus \in LcdCommands, bus' = bus,
         eLine' \in BOOLEAN, rsLine' \in BOOLEAN
  PROVE  LcdInv'
<1> USE DEF LcdInv, Dis!TypeOK, Dis!CursorOnLine, Dis!TextOnLines
<1>1. CASE Dis!PutRow
  BY <1>1, LatchRow DEF Dis!PutRow
<1>2. CASE Dis!PutCharacter
  BY <1>2, LatchCharacter, LinesAreAddresses DEF Dis!PutCharacter
<1>3. CASE ~rsLine /\ Dis!SetAddress
  <2>1. addr' \in Dis!Lines
    BY <1>3 DEF Dis!SetAddress, Dis!LcdAssumption
  <2> QED  BY <1>3, <2>1, LinesAreAddresses DEF Dis!SetAddress
<1>4. CASE Dis!SetRow
  <2>1. cgAddr' \in Dis!Rows
    BY <1>4, LatchSetRow
  <2>2. UNCHANGED <<ddram, cgram, addr, increment, display>> /\ cgMode' \in BOOLEAN
    BY <1>4 DEF Dis!SetRow
  <2> QED  BY <2>1, <2>2
<1>5. CASE Dis!Shift
  <2>1. addr' \in Dis!Lines
    BY <1>5, CursorSteps DEF Dis!Shift, Dis!move
  <2> QED  BY <1>5, <2>1, LinesAreAddresses DEF Dis!Shift
<1>6. CASE Dis!SetDisplay
  BY <1>6 DEF Dis!SetDisplay
<1>7. CASE Dis!SetEntryMode
  BY <1>7 DEF Dis!SetEntryMode
<1>8. CASE Dis!Home
  <2>1. addr' \in Dis!Lines
    BY <1>8 DEF Dis!Home, Dis!Lines
  <2> QED  BY <1>8, <2>1, LinesAreAddresses DEF Dis!Home
<1>9. CASE Dis!Clear
  <2>1. addr' \in Dis!Lines
    BY <1>9 DEF Dis!Clear, Dis!Lines
  <2>2. /\ ddram' \in [Dis!Addresses -> Dis!Bytes]
        /\ \A a \in Dis!Addresses \ Dis!Lines : ddram'[a] = Dis!Blank
    BY <1>9 DEF Dis!Clear, Dis!Blank, Dis!Bytes
  <2> QED  BY <1>9, <2>1, <2>2, LinesAreAddresses DEF Dis!Clear
<1>10. CASE Dis!Ignore
  BY <1>10 DEF Dis!Ignore
<1> QED
  BY <1>1, <1>2, <1>3, <1>4, <1>5, <1>6, <1>7, <1>8, <1>9, <1>10 DEF Dis!latch, Dis!Command

(* As long as the OS sets the cursor to places on the lines only, it never *)
(* leaves them (move, moveBack, latch), whatever characters, rows and      *)
(* other commands follow, and what is beyond them is never written.        *)
THEOREM TextStaysOnLines ==
  ASSUME Dis!LcdAssumption
  PROVE  Dis!Spec => [](Dis!CursorOnLine /\ Dis!TextOnLines)
<1>1. Dis!Init => LcdInv
  <2> SUFFICES ASSUME Dis!Init PROVE LcdInv
    OBVIOUS
  <2>1. bus \in Dis!Bytes
    BY DEF Dis!Init, Dis!Bytes
  <2>2. addr \in Dis!Lines /\ cgAddr \in Dis!Rows
    BY DEF Dis!Init, Dis!Lines, Dis!Rows
  <2>3. /\ ddram \in [Dis!Addresses -> Dis!Bytes]
        /\ \A a \in Dis!Addresses \ Dis!Lines : ddram[a] = Dis!Blank
    BY DEF Dis!Init, Dis!Blank, Dis!Bytes
  <2>4. cgram \in [Dis!Rows -> Dis!Bytes]
    BY DEF Dis!Init, Dis!Bytes
  <2>5. eLine \in BOOLEAN /\ rsLine \in BOOLEAN /\ increment \in BOOLEAN /\ cgMode \in BOOLEAN
    BY DEF Dis!Init
  <2>6. display \in [on : BOOLEAN, cursor : BOOLEAN]
    BY DEF Dis!Init
  <2> QED  BY <2>1, <2>2, <2>3, <2>4, <2>5, <2>6, LinesAreAddresses
           DEF LcdInv, Dis!TypeOK, Dis!CursorOnLine, Dis!TextOnLines
<1>2. LcdInv /\ [Dis!Next]_Dis!vars => LcdInv'
  <2> SUFFICES ASSUME LcdInv, [Dis!Next]_Dis!vars PROVE LcdInv'
    OBVIOUS
  <2>1. ASSUME NEW v \in Dis!Bytes, Dis!writeData(v) PROVE LcdInv'
    BY <2>1 DEF Dis!writeData, LcdInv, Dis!TypeOK, Dis!CursorOnLine, Dis!TextOnLines
  <2>2. ASSUME NEW strobe \in BOOLEAN, NEW chars \in BOOLEAN, Dis!writeControl(strobe, chars),
               eLine /\ ~strobe /\ ~rsLine => bus \in LcdCommands
        PROVE  LcdInv'
    <3>1. bus' = bus /\ eLine' \in BOOLEAN /\ rsLine' \in BOOLEAN
      BY <2>2 DEF Dis!writeControl
    <3>2. CASE eLine /\ ~strobe
      BY <2>2, <3>1, <3>2, LatchStep DEF Dis!writeControl
    <3>3. CASE ~(eLine /\ ~strobe)
      BY <2>2, <3>1, <3>3 DEF Dis!writeControl, LcdInv, Dis!TypeOK, Dis!CursorOnLine, Dis!TextOnLines
    <3> QED  BY <3>2, <3>3
  <2>3. CASE UNCHANGED Dis!vars
    BY <2>3 DEF Dis!vars, Dis!lines, LcdInv, Dis!TypeOK, Dis!CursorOnLine, Dis!TextOnLines
  <2> QED  BY <2>1, <2>2, <2>3 DEF Dis!Next
<1>3. LcdInv => Dis!CursorOnLine /\ Dis!TextOnLines
  BY DEF LcdInv
<1> QED  BY <1>1, <1>2, <1>3, PTL DEF Dis!Spec

(* No row of a character of the OS's own (latch, in cgMode) is ever taken  *)
(* for text.                                                               *)
THEOREM DefinitionsKeepText == Dis!Spec => Dis!TextKept
<1>1. [Dis!Next]_Dis!vars => [cgMode /\ cgMode' => UNCHANGED ddram]_Dis!vars
  BY DEF Dis!Next, Dis!writeData, Dis!writeControl, Dis!latch, Dis!PutRow, Dis!PutCharacter,
     Dis!Command, Dis!SetAddress, Dis!SetRow, Dis!Shift, Dis!SetDisplay, Dis!SetEntryMode,
     Dis!Home, Dis!Clear, Dis!Ignore, Dis!vars, Dis!lines
<1> QED  BY <1>1, PTL DEF Dis!Spec, Dis!TextKept
=============================================================================
