------------------------------ MODULE MCPcPort ------------------------------
(***************************************************************************)
(* The components of the board that the CPU serves in its turns: the PC    *)
(* port, the panel and the exec loop.  They share no state, so each        *)
(* behaviour is about one of them, while the others stay as they begin.    *)
(* The two directions of the PC port share only the round that both are    *)
(* in: in a behaviour about one of them, the other has nothing to do.      *)
(***************************************************************************)
EXTENDS PcPort

CONSTANTS MaxTurns, Moves, Gap, Channels, Values,
          MaxCycles, Grid, SciPeriod, Periods, MaxClock

VARIABLES
  part,  \* the component this behaviour is about
  rest, edges, phase, dialWait, loaded, reading, seen, counted, turned, moved, turns,
  knob, select, result, stored,
  clock, synced, nextSci, period, accum, pitPending, ticks, elapsed, calm

panel ==
  <<rest, edges, phase, dialWait, loaded, reading, seen, counted, turned, moved, turns,
    knob, select, result, stored>>
exec == <<clock, synced, nextSci, period, accum, pitPending, ticks, elapsed, calm>>

Pnl == INSTANCE Panel WITH wait <- dialWait
Exc == INSTANCE ExecLoop WITH pending <- pitPending

ASSUME Pnl!PanelAssumption /\ Exc!ExecLoopAssumption

MCMessages ==
  {<<"F0", "data", "data", "F7">>, <<"90", "data", "data">>, <<"C0", "data">>, <<"F8">>}

MCMoves == {-13, 5, 8}

MCInit ==
  /\ part \in {"pc in", "pc out", "panel", "exec"}
  /\ Init /\ Pnl!Init /\ Exc!Init
  /\ part # "panel" => knob = [k \in 0 .. Channels - 1 |-> CHOOSE v \in Values : TRUE]

MCNext ==
  \/ part = "pc in" /\ Next /\ UNCHANGED <<part, output, panel, exec>>
  \/ part = "pc out" /\ Next /\ UNCHANGED <<part, input, panel, exec>>
  \/ part = "panel" /\ Pnl!Next /\ UNCHANGED <<part, vars, exec>>
  \/ part = "exec" /\ Exc!Next /\ UNCHANGED <<part, vars, panel>>

MCSpec ==
  /\ MCInit /\ [][MCNext]_<<part, vars, panel, exec>>
  /\ part = "pc in" => Fairness

PanelTrue == Pnl!PanelTrue
KeepsTime == Exc!KeepsTime
=============================================================================
