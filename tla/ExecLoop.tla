------------------------------- MODULE ExecLoop -------------------------------
(***************************************************************************)
(* What the CPU does for its devices after each instruction (g1mc.cpp,     *)
(* Microcontroller::exec): the DSPs catch up each time the count of cycles *)
(* has crossed a line of a grid, the PIT interrupts the OS once a period,  *)
(* and the UART advances.  An instruction takes as long as it takes, so    *)
(* none of these happens at its exact cycle.                               *)
(***************************************************************************)
EXTENDS Integers

CONSTANTS MaxCycles,  \* the most cycles of an instruction
          Grid,       \* cycles between two lines of the grid (1024)
          SciPeriod,  \* cycles between two steps of the UART (475)
          Periods,    \* the periods the OS programs (at least 2560 cycles)
          MaxClock    \* bound on the cycles

(* No instruction is longer than the shortest period of the PIT.           *)
ExecLoopAssumption ==
  /\ MaxCycles \in Nat \ {0} /\ Grid \in Nat \ {0} /\ SciPeriod \in Nat \ {0}
  /\ MaxClock \in Nat
  /\ \A p \in Periods : p \in Nat /\ p >= MaxCycles

VARIABLES
  clock,    \* m_ucCycles
  synced,   \* the cycle the DSPs have caught up to
  nextSci,  \* m_nextSciSample
  period,   \* of the PIT, by m_pitr and m_picr; 0 while it is off
  accum,    \* m_pitAccum
  pending,  \* the PIT's interrupt has been injected and not taken
  ticks,    \* the interrupts taken since the period was set: the OS's clock
  elapsed,  \* history: cycles since then, with what had accumulated before
  calm      \* history: since then, nothing was owed or dropped

pit == <<period, accum, pending, ticks, elapsed, calm>>
vars == <<clock, synced, nextSci, pit>>

TypeOK ==
  /\ clock \in 0 .. MaxClock /\ synced \in 0 .. clock
  /\ nextSci \in Nat
  /\ period \in Periods \cup {0} /\ accum \in 0 .. MaxClock
  /\ pending \in BOOLEAN /\ calm \in BOOLEAN
  /\ ticks \in Nat /\ elapsed \in 0 .. MaxClock

Init ==
  /\ clock = 0 /\ synced = 0 /\ nextSci = 0
  /\ period = 0 /\ accum = 0 /\ pending = FALSE
  /\ ticks = 0 /\ elapsed = 0 /\ calm = TRUE

-----------------------------------------------------------------------------
(* A slip: the time since the interrupt was due is forgotten. *)
TickAfresh(c) ==
  /\ accum' = 0
  /\ pending' = TRUE
  /\ calm' = (calm /\ ~pending)

(* The period has passed: it is taken off once, and the interrupt is not   *)
(* injected a second time.                                                 *)
Tick(c) ==
  /\ accum' = accum + c - period
  /\ pending' = TRUE
  /\ calm' = (calm /\ ~pending)

(* execPit *)
ExecPit(c) ==
  \/ period = 0 /\ UNCHANGED pit
  \/ /\ period # 0
     /\ elapsed' = elapsed + c
     /\ IF accum + c < period
        THEN accum' = accum + c /\ UNCHANGED <<pending, calm>>
        ELSE Tick(c)
     /\ UNCHANGED <<period, ticks>>

(* exec, after an instruction of c cycles. *)
Exec(c) ==
  /\ clock + c <= MaxClock
  /\ clock' = clock + c
  /\ synced' = IF clock' % Grid < c THEN clock' ELSE synced
  /\ ExecPit(c)
  /\ nextSci' = IF clock' < nextSci THEN nextSci
                ELSE nextSci + SciPeriod * ((clock' - nextSci) \div SciPeriod + 1)

(* Within an instruction: an access to a host port lets the DSPs catch up  *)
(* to where the instruction began.                                         *)
AccessHostPort ==
  /\ synced' = clock
  /\ UNCHANGED <<clock, nextSci, pit>>

(* A write to PITR or PICR: what has accumulated stays. *)
SetPit(p) ==
  /\ period' = p /\ elapsed' = accum /\ ticks' = 0
  /\ calm' = (accum < p /\ ~pending)
  /\ UNCHANGED <<clock, synced, nextSci, accum, pending>>

(* The OS's interrupt level lets it in. *)
TakeInterrupt ==
  /\ pending /\ pending' = FALSE
  /\ ticks' = ticks + 1
  /\ UNCHANGED <<clock, synced, nextSci, period, accum, elapsed, calm>>

Next ==
  \/ \E c \in 1 .. MaxCycles : Exec(c)
  \/ AccessHostPort
  \/ \E p \in Periods \cup {0} : SetPit(p)
  \/ TakeInterrupt

Spec == Init /\ [][Next]_vars

-----------------------------------------------------------------------------
(* The OS's clock ("the OS uses it as its system clock", g1mc.cpp:179) has *)
(* counted the periods that have passed, whatever the instructions took:   *)
(* one that ends late makes the next no later.                             *)
TickRate ==
  period # 0 /\ calm =>
    LET counted == IF pending THEN ticks + 1 ELSE ticks
    IN  counted * period <= elapsed /\ elapsed < (counted + 1) * period

(* No DSP is a whole square of the grid behind the CPU.                    *)
DspsKeepUp == clock - synced < Grid

KeepsTime == TickRate /\ DspsKeepUp
=============================================================================
