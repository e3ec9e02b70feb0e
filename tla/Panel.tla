------------------------------- MODULE Panel -------------------------------
(***************************************************************************)
(* The dial and the knobs (Panel.cpp, g1mc.h, g1mc.cpp): the window turns  *)
(* them with the mouse, on its own thread, and the OS, on the CPU's, reads *)
(* the dial as the two phases of an encoder and the knobs through a        *)
(* converter that answers one read late.                                   *)
(***************************************************************************)
EXTENDS Integers

CONSTANTS MaxTurns,  \* bound on the movements of the mouse
          Moves,     \* the pixels it may move by in one
          Gap,       \* polls between two edges (g_dialEdgeCycles)
          Channels,  \* the channels the OS reads, in turn: 0 .. Channels - 1
          Values     \* the positions of a knob

PanelAssumption ==
  /\ MaxTurns \in Nat /\ Moves \subseteq Int /\ Gap \in Nat
  /\ Channels \in Nat \ {0, 1} /\ Values # {}

VARIABLES
  rest,     \* the pixels dragged and not turned: m_lastY less the mouse's y
  edges,    \* m_dialEdges
  phase,    \* m_dialPhase
  wait,     \* polls until m_nextDialEdge
  loaded,   \* pending, in dialBits
  reading,  \* the CPU is in dialBits
  seen,     \* the phases the OS read last
  counted,  \* the edges the OS has counted
  turned,   \* history: the edges asked for
  moved,    \* history: the pixels of drags and clicks of the wheel, 8 each
  turns,    \* history: the movements of the mouse
  knob,     \* m_adc
  select,   \* m_adcSelect
  result,   \* m_adcResult, with the channel it was converted from
  stored    \* what the OS has stored for each knob

mouse == <<rest, moved, turns>>
dial == <<mouse, edges, phase, wait, loaded, reading, seen, counted, turned>>
adc == <<knob, select, result, stored>>
vars == <<dial, adc>>

Knobs == 0 .. Channels - 1

TypeOK ==
  /\ rest \in -7 .. 7 /\ moved \in Int
  /\ edges \in Int /\ turned \in Int /\ counted \in Int /\ loaded \in Int
  /\ phase \in 0 .. 3 /\ seen \in 0 .. 3 /\ wait \in 0 .. Gap
  /\ reading \in BOOLEAN /\ turns \in 0 .. MaxTurns
  /\ knob \in [Knobs -> Values] /\ select \in Knobs
  /\ result \in [of : Knobs, value : Values]
  /\ stored \in [Knobs -> [of : Knobs, value : Values]]

Init ==
  /\ rest = 0 /\ moved = 0
  /\ edges = 0 /\ phase = 0 /\ wait = 0 /\ loaded = 0 /\ reading = FALSE
  /\ seen = 0 /\ counted = 0 /\ turned = 0 /\ turns = 0
  /\ knob \in [Knobs -> Values] /\ select = 0
  /\ result = [of |-> 0, value |-> knob[0]]
  /\ stored = [k \in Knobs |-> [of |-> k, value |-> knob[k]]]

-----------------------------------------------------------------------------
(* DialView::turn, turnDial *)
TurnDial(detents) ==
  /\ turns < MaxTurns /\ turns' = turns + 1
  /\ edges' = edges + detents * 4 /\ turned' = turned + detents * 4
  /\ UNCHANGED <<phase, wait, loaded, reading, seen, counted, adc>>

(* mouseDown *)
Grab ==
  /\ rest' = 0 /\ moved' = moved - rest
  /\ UNCHANGED <<turns, edges, phase, wait, loaded, reading, seen, counted, turned, adc>>

(* A division in C++, towards zero. *)
Eighth(n) == IF n >= 0 THEN n \div 8 ELSE -((-n) \div 8)

(* A slip: the drag starts afresh after each detent. *)
DragAfresh(pixels) ==
  LET detents == Eighth(rest + pixels)
  IN  /\ rest' = (IF detents = 0 THEN rest + pixels ELSE 0)
      /\ moved' = moved + pixels
      /\ TurnDial(detents)

(* mouseDrag: one detent every 8 pixels; the remainder is kept. *)
Drag(pixels) ==
  LET detents == Eighth(rest + pixels)
  IN  /\ rest' = rest + pixels - detents * 8
      /\ moved' = moved + pixels
      /\ TurnDial(detents)

(* mouseWheelMove *)
Wheel(detents) ==
  /\ moved' = moved + detents * 8 /\ UNCHANGED rest
  /\ TurnDial(detents)

(* dialBits: the window may turn the dial between the load and the step. *)
LoadEdges ==
  /\ ~reading /\ reading' = TRUE
  /\ loaded' = edges
  /\ UNCHANGED <<mouse, edges, phase, wait, seen, counted, turned, adc>>

Direction == IF loaded > 0 THEN 1 ELSE -1

(* The OS's decoder: a step of one edge is counted, one of two is not. *)
Decode(bits) ==
  /\ seen' = bits
  /\ counted' = CASE bits = (seen + 1) % 4 -> counted + 1
                  [] bits = (seen + 3) % 4 -> counted - 1
                  [] OTHER -> counted

StepDial ==
  /\ reading /\ reading' = FALSE
  /\ IF loaded # 0 /\ wait = 0
     THEN /\ phase' = (phase + 4 + Direction) % 4
          /\ edges' = edges - Direction
          /\ wait' = Gap
     ELSE /\ wait' = (IF wait > 0 THEN wait - 1 ELSE 0)
          /\ UNCHANGED <<phase, edges>>
  /\ Decode(phase')
  /\ UNCHANGED <<mouse, loaded, turned, adc>>

-----------------------------------------------------------------------------
(* A slider's onValueChange, setAdc *)
SetAdc(k, v) ==
  /\ knob' = [knob EXCEPT ![k] = v]
  /\ UNCHANGED <<select, result, stored, dial>>

(* A read of the converter returns the conversion before and starts one of *)
(* the channel selected; the OS keeps what it gets for the channel before. *)
ReadAdc(next) ==
  /\ result' = [of |-> next, value |-> knob[next]]
  /\ stored' = [stored EXCEPT ![select] = result]

(* The OS selects the next channel and reads. *)
PollKnob ==
  /\ select' = (select + 1) % Channels
  /\ ReadAdc(select')
  /\ UNCHANGED <<knob, dial>>

Next ==
  \/ Grab \/ \E p \in Moves : Drag(p)
  \/ \E d \in {-1, 1} : Wheel(d)
  \/ LoadEdges \/ StepDial
  \/ \E k \in Knobs, v \in Values : SetAdc(k, v)
  \/ PollKnob

Spec == Init /\ [][Next]_vars

-----------------------------------------------------------------------------
(* No edge is lost or counted twice, although the window adds to them at   *)
(* any time and turns back what is still pending.                          *)
NoEdgeLost == counted + edges = turned

(* A value the OS stores for a knob was converted from that knob. *)
OwnConversion == \A k \in Knobs : stored[k].of = k

(* The hand moves the dial by a detent every 8 pixels, however the mouse's *)
(* way is cut into movements; what a drag leaves over is less than one.    *)
DragKept == turned * 2 + rest = moved /\ -8 < rest /\ rest < 8

(* What the OS has of the panel is what the hand did. *)
PanelTrue == NoEdgeLost /\ DragKept /\ OwnConversion
=============================================================================
