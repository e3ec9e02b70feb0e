------------------------------- MODULE PcPort -------------------------------
(***************************************************************************)
(* The editor's connection: JuceMidi's collector (jucemidi.h), the rounds  *)
(* of EmuHost::run (emuhost.cpp), the DUART (g1duart.h) with the interrupt *)
(* execPcPort makes of RxRDY (g1mc.cpp), and the G1's OS behind it.  Bytes *)
(* to the OS are numbered; bytes from it are kept apart by what            *)
(* messageLength tells apart.                                              *)
(***************************************************************************)
EXTENDS Integers, Sequences

CONSTANTS MaxIn,    \* bound on the bytes the editor sends
          MaxOut,   \* bound on the messages the OS begins before they are sent
          MaxTx,    \* bound on the bytes the OS writes in a round
          Messages, \* the messages of the OS, sequences of bytes
          Limit,    \* what may wait for the end of its message (1 MB)
          Pace      \* executed steps a byte takes on the wire

(* SysEx and its end, the status of a message of three, two and one bytes, *)
(* and data.                                                               *)
Bytes == {"F0", "F7", "90", "C0", "F8", "data"}

ASSUME PcPortAssumption ==
  /\ MaxIn \in Nat /\ MaxOut \in Nat /\ MaxTx \in Nat /\ Pace \in Nat /\ Limit \in Nat
  /\ Messages \subseteq Seq(Bytes)
  /\ \A m \in Messages : Len(m) \in 1 .. Limit + 1

VARIABLES
  round,      \* where EmuHost::run is
  sent,       \* the last byte the editor has sent
  collected,  \* m_collector's bytes for this port
  rx,         \* m_rx
  rxEnabled,  \* m_rxEnabled
  paovi,      \* the OS has enabled the overflow interrupt (TMSK2 bit 5)
  paovf,      \* it is pending (TFLG2 bit 5)
  wait,       \* steps until m_nextPcPortByte
  read,       \* history: the last byte that has left the receiver
  got,        \* history: those the OS has read
  dropped,    \* history: those a reset of the receiver has thrown away
  writing,    \* what the OS has still to write of its message
  tx,         \* m_tx
  pending,    \* port.pending
  broken,     \* history: the OS has broken off a message
  due         \* history: until then, the messages begun and not sent

fate == <<read, got, dropped>>
input == <<sent, collected, rx, rxEnabled, paovi, paovf, wait, fate>>
output == <<writing, tx, pending, broken, due>>
vars == <<round, input, output>>

TypeOK ==
  /\ round \in {"poll", "exec", "send"}
  /\ sent \in 0 .. MaxIn /\ read \in 0 .. MaxIn
  /\ collected \in Seq(1 .. MaxIn) /\ rx \in Seq(1 .. MaxIn)
  /\ rxEnabled \in BOOLEAN /\ paovi \in BOOLEAN /\ paovf \in BOOLEAN
  /\ wait \in 0 .. Pace /\ got \in Seq(1 .. MaxIn) /\ dropped \subseteq 1 .. MaxIn
  /\ writing \in Seq(Bytes) /\ tx \in Seq(Bytes)
  /\ pending \in Seq(Bytes) /\ (round = "send" \/ Len(pending) <= Limit)
  /\ broken \in BOOLEAN /\ due \in Seq(Messages) /\ Len(due) <= MaxOut

Init ==
  /\ round = "poll" /\ sent = 0 /\ collected = <<>>
  /\ rx = <<>> /\ rxEnabled = FALSE /\ paovi = FALSE /\ paovf = FALSE
  /\ wait = 0 /\ read = 0 /\ got = <<>> /\ dropped = {}
  /\ writing = <<>> /\ tx = <<>> /\ pending = <<>>
  /\ broken = FALSE /\ due = <<>>

-----------------------------------------------------------------------------
(* To the OS *)

(* handleIncomingMidiMessage, at any time: n bytes of the editor. *)
Collect(n) ==
  /\ sent + n <= MaxIn
  /\ collected' = collected \o [i \in 1 .. n |-> sent + i]
  /\ sent' = sent + n
  /\ UNCHANGED <<round, rx, rxEnabled, paovi, paovf, wait, fate, output>>

(* A slip: what has not been read is replaced. *)
PollOver ==
  /\ round = "poll" /\ round' = "exec"
  /\ rx' = IF collected = <<>> THEN rx ELSE collected
  /\ collected' = <<>>
  /\ UNCHANGED <<sent, rxEnabled, paovi, paovf, wait, fate, output>>

(* poll and receive *)
Poll ==
  /\ round = "poll" /\ round' = "exec"
  /\ rx' = rx \o collected /\ collected' = <<>>
  /\ UNCHANGED <<sent, rxEnabled, paovi, paovf, wait, fate, output>>

hasRx == rxEnabled /\ rx # <<>>

(* A slip: only the byte that ends an empty queue makes a pulse. *)
PulseFirst ==
  IF wait = 0 /\ hasRx /\ Len(rx) = 1 /\ paovi /\ ~paovf
  THEN paovf' = TRUE /\ wait' = Pace
  ELSE wait' = (IF wait > 0 THEN wait - 1 ELSE 0) /\ UNCHANGED paovf

(* execPcPort: no pulse while the interrupt is off or still pending. *)
Pulse ==
  IF wait = 0 /\ hasRx /\ paovi /\ ~paovf
  THEN paovf' = TRUE /\ wait' = Pace
  ELSE wait' = (IF wait > 0 THEN wait - 1 ELSE 0) /\ UNCHANGED paovf

Exec ==
  /\ round = "exec" /\ Pulse
  /\ UNCHANGED <<round, sent, collected, rx, rxEnabled, paovi, fate, output>>

(* The OS's handler reads one byte; an empty receiver returns zero.  The   *)
(* data register does not ask whether the receiver is enabled.             *)
Handle ==
  /\ round = "exec" /\ paovf /\ paovi
  /\ paovf' = FALSE
  /\ IF rx = <<>> THEN UNCHANGED <<rx, read, got>>
     ELSE read' = Head(rx) /\ got' = Append(got, Head(rx)) /\ rx' = Tail(rx)
  /\ UNCHANGED <<round, sent, collected, rxEnabled, paovi, wait, dropped, output>>

(* The OS writes to CR, at any time: the receiver is left as it is, enabled*)
(* or disabled ...                                                         *)
Enable ==
  /\ round = "exec" /\ rxEnabled' \in BOOLEAN
  /\ UNCHANGED <<round, sent, collected, rx, paovi, paovf, wait, fate, output>>

(* ... or also reset ($2x), with the bytes that wait in it.                *)
Reset ==
  /\ round = "exec" /\ rxEnabled' \in BOOLEAN
  /\ rx' = <<>> /\ dropped' = dropped \cup {rx[i] : i \in DOMAIN rx}
  /\ read' = IF rx = <<>> THEN read ELSE rx[Len(rx)]
  /\ UNCHANGED <<round, sent, collected, paovi, paovf, wait, got, output>>

(* It masks the interrupt, or no longer. *)
Mask ==
  /\ round = "exec" /\ paovi' = ~paovi
  /\ UNCHANGED <<round, sent, collected, rx, rxEnabled, paovf, wait, fate, output>>

-----------------------------------------------------------------------------
(* From the OS *)

BeginMessage(m) ==
  /\ round = "exec" /\ writing = <<>> /\ Len(due) < MaxOut
  /\ writing' = m /\ due' = IF broken THEN due ELSE Append(due, m)
  /\ UNCHANGED <<round, input, tx, pending, broken>>

WriteByte ==
  /\ round = "exec" /\ writing # <<>> /\ Len(tx) < MaxTx
  /\ tx' = Append(tx, Head(writing)) /\ writing' = Tail(writing)
  /\ UNCHANGED <<round, input, pending, broken, due>>

(* A corrupt stream, which send expects. *)
BreakOff ==
  /\ round = "exec" /\ writing # <<>> /\ ~broken
  /\ writing' = <<>> /\ broken' = TRUE /\ due' = <<>>
  /\ UNCHANGED <<round, input, tx, pending>>

(* run ends a round of emulation: takeTx, and send keeps what is pending.  *)
Drain ==
  /\ round = "exec" /\ round' = "send"
  /\ pending' = pending \o tx /\ tx' = <<>>
  /\ UNCHANGED <<input, writing, broken, due>>

(* A slip: an unfinished SysEx is sent as far as it has come. *)
messageLengthEager(b) ==
  CASE b[1] = "F0" -> IF \E i \in 2 .. Len(b) : b[i] = "F7"
                      THEN CHOOSE i \in 2 .. Len(b) :
                             b[i] = "F7" /\ \A j \in 2 .. i - 1 : b[j] # "F7"
                      ELSE Len(b)
    [] b[1] = "C0" -> IF Len(b) >= 2 THEN 2 ELSE 0
    [] b[1] \in {"F7", "F8"} -> 1
    [] OTHER -> IF Len(b) >= 3 THEN 3 ELSE 0

(* The length of the first message, zero while it is incomplete. *)
messageLength(b) ==
  CASE b[1] = "F0" -> IF \E i \in 2 .. Len(b) : b[i] = "F7"
                      THEN CHOOSE i \in 2 .. Len(b) :
                             b[i] = "F7" /\ \A j \in 2 .. i - 1 : b[j] # "F7"
                      ELSE 0
    [] b[1] = "C0" -> IF Len(b) >= 2 THEN 2 ELSE 0
    [] b[1] \in {"F7", "F8"} -> 1
    [] OTHER -> IF Len(b) >= 3 THEN 3 ELSE 0

(* What the OS sends is MIDI: none of its messages ends early or late. *)
ASSUME MessagesAssumption == \A m \in Messages : messageLength(m) = Len(m)

Whole == pending # <<>> /\ messageLength(pending) > 0

SendMessage ==
  /\ round = "send" /\ Whole
  /\ pending' = SubSeq(pending, messageLength(pending) + 1, Len(pending))
  /\ due' = IF broken THEN due ELSE Tail(due)
  /\ UNCHANGED <<round, input, writing, tx, broken>>

(* What can be no message of the G1 is given up. *)
EndRound ==
  /\ round = "send" /\ ~Whole /\ round' = "poll"
  /\ pending' = IF Len(pending) > Limit THEN <<>> ELSE pending
  /\ UNCHANGED <<input, writing, tx, broken, due>>

Next ==
  \/ \E n \in 1 .. 2 : Collect(n)
  \/ Poll \/ Exec \/ Handle \/ Enable \/ Reset \/ Mask
  \/ \E m \in Messages : BeginMessage(m)
  \/ WriteByte \/ BreakOff \/ Drain \/ SendMessage \/ EndRound

Spec == Init /\ [][Next]_vars

(* EmuHost's rounds and the CPU go on; the OS serves its interrupt, and    *)
(* leaves it on, with the receiver enabled, again and again.               *)
Fairness ==
  /\ WF_vars(Poll \/ SendMessage \/ EndRound) /\ SF_vars(Drain)
  /\ SF_vars(Exec) /\ SF_vars(Exec /\ paovf' # paovf)
  /\ SF_vars(Handle) /\ []<>(paovi /\ rxEnabled)

FairSpec == Spec /\ Fairness

-----------------------------------------------------------------------------
(* Every byte of the editor reaches the OS once and in order, through      *)
(* three queues and two threads, but for those that waited in the receiver *)
(* when the OS reset it; disabled, it loses none.                          *)
InOrder ==
  /\ rx \o collected = [i \in 1 .. sent - read |-> read + i]
  /\ \A i, j \in DOMAIN got : i < j => got[i] < got[j]
  /\ {got[i] : i \in DOMAIN got} = (1 .. read) \ dropped

(* Whatever the rounds cut the stream of bytes into, each message goes out *)
(* whole, in order, and as one, as long as the OS ends what it begins.     *)
WholeMessages ==
  [][~broken' /\ Len(due') < Len(due) =>
       SubSeq(pending, 1, Len(pending) - Len(pending')) = Head(due)]_vars

(* No byte waits for ever: a pulse that cannot be made, the receiver       *)
(* disabled, the interrupt masked or pending, is made later.               *)
BytesRead == rx # <<>> ~> read = sent
=============================================================================
