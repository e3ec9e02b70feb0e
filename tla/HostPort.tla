------------------------------ MODULE HostPort ------------------------------
(***************************************************************************)
(* The host port of one DSP (g1dsp.cpp): the CPU writes words and          *)
(* commands, polls the status and reads words; each access may let the DSP *)
(* run, for a bounded number of turns, until its program has made room.    *)
(* The program may jump back to the boot ROM at any turn: armBoot then     *)
(* hands what it has not read to the ROM and, once the ROM has started     *)
(* the next program, to hostWord, which may run the DSP again, inside the  *)
(* access that was already under way.                                      *)
(* The calls nested in this way are kept as the words they still have to   *)
(* deliver, innermost first.  One turn stands for one runUntil of a wait.  *)
(***************************************************************************)
EXTENDS Integers, Sequences

CONSTANTS Words,     \* the values of a word
          None,
          Clamp,     \* g_waitClamp, in turns
          IsrClamp,  \* g_isrWaitClamp, in turns
          Quantum,   \* the longest sync, in turns
          MaxDepth,  \* bound on the words on their way to the DSP
          MaxTx,     \* bound on the words the program has written ahead
          MaxIrqs    \* bound on the interrupts pending besides the commands

ASSUME PortAssumption ==
  /\ None \notin Words
  /\ Clamp \in Nat \ {0} /\ IsrClamp \in Nat \ {0} /\ Quantum \in Nat \ {0}
  /\ MaxDepth \in Nat \ {0} /\ MaxTx \in Nat \ {0} /\ MaxIrqs \in Nat

VARIABLES
  booted,    \* m_booted
  jumped,    \* the PC is in the boot ROM, and armBoot not called yet
  stalled,   \* the program waits for an interrupt
  stalls,    \* m_stalls, modulo 2
  rx,        \* hdi08().rxData(): words the program has not read
  tx,        \* words the program has written and the port not passed on
  host,      \* the word in the CPU's receive register
  commands,  \* host commands pending
  irqs,      \* other interrupts pending
  op,        \* the access under way
  left,      \* turns left before it stops waiting
  todo,      \* the words the calls under way have to deliver, and the turns
             \*   each has left; Unstarted if its hostWord is not called yet
  status,    \* the last status the CPU read, until its next access
  fed,       \* the last word taken from the CPU, by ROM or program
  got,       \* the last word the CPU took
  unasked    \* history: the CPU has sent a word without having read TXDE

dsp == <<booted, jumped, stalled, stalls>>
vars == <<booted, jumped, stalled, stalls, rx, tx, host, commands, irqs,
          op, left, todo, status, fed, got, unasked>>

Unstarted == -1
Delivery == [word : Words, left : Unstarted .. Clamp]
LongestWait ==
  CHOOSE n \in {Clamp, IsrClamp, Quantum} :
    \A k \in {Clamp, IsrClamp, Quantum} : k <= n

TypeOK ==
  /\ booted \in BOOLEAN /\ jumped \in BOOLEAN /\ stalled \in BOOLEAN
  /\ stalls \in {0, 1}
  /\ rx \in Seq(Words) /\ tx \in Seq(Words) /\ todo \in Seq(Delivery)
  /\ Len(rx) + Len(todo) <= MaxDepth /\ Len(tx) <= MaxTx
  /\ host \in Words \cup {None}
  /\ commands \in {0, 1} /\ irqs \in 0 .. MaxIrqs
  /\ op \in {"idle", "word", "command", "isr", "rx", "sync"}
  /\ left \in 0 .. LongestWait
  /\ status \in {"none", "busy", "txde", "trdy"}
  /\ fed \in Words \cup {None} /\ got \in Words \cup {None}
  /\ unasked \in BOOLEAN

Init ==
  /\ booted = FALSE /\ jumped = FALSE /\ stalled = FALSE /\ stalls = 0
  /\ rx = <<>> /\ tx = <<>> /\ host = None
  /\ commands = 0 /\ irqs = 0
  /\ op = "idle" /\ left = 0 /\ todo = <<>>
  /\ status = "none" /\ fed = None /\ got = None /\ unasked = FALSE

-----------------------------------------------------------------------------
(* The DSP *)

Pending == commands + irqs > 0      \* hasPendingInterrupts()

WordWaits == todo # <<>> /\ Head(todo).left > 0 /\ rx # <<>>

OpWaits ==
  /\ todo = <<>> /\ left > 0
  /\ \/ op = "command" /\ Pending
     \/ op = "isr" /\ rx # <<>>
     \/ op \in {"rx", "sync"}

(* Some loop calls runUntil. *)
Running == booted /\ (WordWaits \/ OpWaits)

(* RxEmpty and catchUp call runUntil once; the others call it again.       *)
ReturnFromRun ==
  left' = IF todo = <<>> /\ op \in {"rx", "sync"} THEN 0 ELSE left

(* A slip: the cycles left are not counted down. *)
SpendNothing == UNCHANGED <<left, todo>>

(* The time of a turn counts for every wait under way. *)
Spend ==
  /\ left' = IF left > 0 THEN left - 1 ELSE 0
  /\ todo' = [i \in DOMAIN todo |->
                [todo[i] EXCEPT !.left = IF @ > 0 THEN @ - 1 ELSE @]]

(* What the program may do in a turn. *)
ReadWord ==
  /\ rx # <<>>
  /\ fed' = Head(rx) /\ rx' = Tail(rx)
  /\ UNCHANGED <<jumped, stalled, tx, commands, irqs>>

WriteWord ==
  /\ Len(tx) < MaxTx
  /\ \E w \in Words : tx' = Append(tx, w)
  /\ UNCHANGED <<jumped, stalled, rx, commands, irqs, fed>>

Interrupts ==
  /\ \/ commands > 0 /\ commands' = commands - 1 /\ UNCHANGED irqs
     \/ irqs > 0 /\ irqs' = irqs - 1 /\ UNCHANGED commands
     \/ irqs < MaxIrqs /\ irqs' = irqs + 1 /\ UNCHANGED commands
  /\ UNCHANGED <<jumped, stalled, rx, tx, fed>>

Compute ==
  /\ jumped' \in BOOLEAN
  /\ stalled' \in {FALSE, ~jumped'}
  /\ UNCHANGED <<rx, tx, commands, irqs, fed>>

Turn ==
  /\ Running /\ ~jumped /\ ~stalled
  /\ ReadWord \/ WriteWord \/ Interrupts \/ Compute
  /\ Spend
  /\ UNCHANGED <<booted, stalls, host, op, status, got, unasked>>

(* The cycle counter stood still: runUntil returns; or an interrupt ends   *)
(* the wait.                                                               *)
Stall ==
  /\ Running /\ stalled
  /\ \/ stalls' = 1 - stalls /\ ReturnFromRun /\ UNCHANGED stalled
     \/ Pending /\ stalled' = FALSE /\ UNCHANGED <<stalls, left>>
  /\ UNCHANGED <<booted, jumped, rx, tx, host, commands, irqs, op, todo, status, fed, got, unasked>>

(* A slip: what the last program has not read is cleared with the port. *)
ArmBootClearing ==
  /\ Running /\ jumped
  /\ booted' = FALSE /\ jumped' = FALSE
  /\ rx' = <<>>
  /\ ReturnFromRun
  /\ UNCHANGED <<stalled, stalls, tx, host, commands, irqs, op, todo, status, fed, got, unasked>>

(* A slip: what the last program has not read stays in the port. *)
ArmBootKeeping ==
  /\ Running /\ jumped
  /\ booted' = FALSE /\ jumped' = FALSE
  /\ ReturnFromRun
  /\ UNCHANGED <<stalled, stalls, rx, tx, host, commands, irqs, op, todo, status, fed, got, unasked>>

(* armBoot: the words in the port come before those of the calls that are  *)
(* already under way.                                                      *)
ArmBoot ==
  /\ Running /\ jumped
  /\ booted' = FALSE /\ jumped' = FALSE
  /\ todo' = [i \in DOMAIN rx |-> [word |-> rx[i], left |-> Unstarted]] \o todo
  /\ rx' = <<>>
  /\ ReturnFromRun
  /\ UNCHANGED <<stalled, stalls, tx, host, commands, irqs, op, status, fed, got, unasked>>

-----------------------------------------------------------------------------
(* Delivering a word: the boot ROM, or hostWord *)

Delivered ==
  /\ todo' = Tail(todo)
  /\ op' = IF op = "word" /\ Len(todo) = 1 THEN "idle" ELSE op

(* m_boot->hdiWriteTX, which says whether it was the program's last word.  *)
FeedBoot ==
  /\ todo # <<>> /\ ~booted
  /\ fed' = Head(todo).word
  /\ booted' \in BOOLEAN
  /\ Delivered
  /\ UNCHANGED <<jumped, stalled, stalls, rx, tx, host, commands, irqs, left, status, got, unasked>>

CallHostWord ==
  /\ todo # <<>> /\ booted /\ Head(todo).left = Unstarted
  /\ todo' = [todo EXCEPT ![1].left = Clamp]
  /\ UNCHANGED <<dsp, rx, tx, host, commands, irqs, op, left, status, fed, got, unasked>>

(* The wait is over: the word goes to the program, even if the last one    *)
(* is still there.                                                         *)
WriteRx ==
  /\ todo # <<>> /\ booted /\ Head(todo).left # Unstarted /\ ~WordWaits
  /\ rx' = Append(rx, Head(todo).word)
  /\ Delivered
  /\ UNCHANGED <<dsp, tx, host, commands, irqs, left, status, fed, got, unasked>>

-----------------------------------------------------------------------------
(* The CPU *)

Call(name, turns) ==
  /\ op = "idle"
  /\ op' = name /\ left' = turns
  /\ UNCHANGED <<dsp, rx, tx, host, commands, irqs, fed, got>>

Access(name, turns) == Call(name, turns) /\ status' = "none"

SendWord(w) ==
  /\ unasked' = (unasked \/ status \notin {"txde", "trdy"})
  /\ Len(rx) < MaxDepth
  /\ Access("word", 0)
  /\ todo' = <<[word |-> w, left |-> Unstarted]>>

(* hostCommand returns at once without a program. *)
SendCommand == booted /\ Access("command", Clamp) /\ UNCHANGED <<todo, unasked>>

PollIsr == Access("isr", IF booted THEN IsrClamp ELSE 0) /\ UNCHANGED <<todo, unasked>>

(* The CPU reads while there is no word: the RxEmpty callback. *)
ReadEmpty ==
  /\ host = None
  /\ Access("rx", IF booted /\ tx = <<>> THEN Clamp ELSE 0)
  /\ UNCHANGED <<todo, unasked>>

(* catchUpDsps, as in exec and before every access: what the CPU has read  *)
(* may be older than the sync.                                             *)
Sync == \E turns \in 1 .. Quantum : Call("sync", turns) /\ UNCHANGED <<todo, status, unasked>>

(* transferToHost *)
Transfer ==
  IF host = None /\ tx # <<>>
  THEN host' = Head(tx) /\ tx' = Tail(tx)
  ELSE UNCHANGED <<host, tx>>

EndAccess(name) ==
  /\ op = name /\ todo = <<>> /\ ~(booted /\ OpWaits)
  /\ op' = "idle" /\ left' = 0
  /\ UNCHANGED <<dsp, rx, irqs, todo, fed, got, unasked>>

(* The command is dropped if interrupts are still pending. *)
EndCommand ==
  /\ EndAccess("command")
  /\ IF Pending
     THEN UNCHANGED <<commands, host, tx>>
     ELSE commands' = commands + 1 /\ Transfer
  /\ UNCHANGED status

Depth == IF booted THEN Len(rx) ELSE 0

(* A slip: room for one word is reported as an empty port. *)
EndIsrEager ==
  /\ EndAccess("isr")
  /\ Transfer
  /\ status' = IF Depth <= 1 THEN "trdy" ELSE "busy"
  /\ UNCHANGED commands

EndIsr ==
  /\ EndAccess("isr")
  /\ Transfer
  /\ status' = CASE Depth = 0 -> "trdy" [] Depth = 1 -> "txde" [] OTHER -> "busy"
  /\ UNCHANGED commands

(* RxEmpty and catchUp end with transferToHost. *)
EndRun ==
  /\ EndAccess("rx") \/ EndAccess("sync")
  /\ Transfer
  /\ UNCHANGED <<commands, status>>

(* The CPU takes a word; the callback passes on the next one. *)
TakeWord ==
  /\ op = "idle" /\ host # None
  /\ got' = host
  /\ IF tx = <<>>
     THEN host' = None /\ UNCHANGED tx
     ELSE host' = Head(tx) /\ tx' = Tail(tx)
  /\ status' = "none"
  /\ UNCHANGED <<dsp, rx, commands, irqs, op, left, todo, fed, unasked>>

Begin ==
  \/ \E w \in Words : SendWord(w)
  \/ SendCommand \/ PollIsr \/ ReadEmpty \/ Sync \/ TakeWord

Proceed ==
  \/ Turn \/ Stall \/ ArmBoot
  \/ FeedBoot \/ CallHostWord \/ WriteRx
  \/ EndCommand \/ EndIsr \/ EndRun

Next == Begin \/ Proceed

Spec == Init /\ [][Next]_vars

(* An access that has begun is executed: it is one call of the CPU thread. *)
FairSpec == Spec /\ WF_vars(Proceed)

-----------------------------------------------------------------------------
(* While the boot ROM waits for words, none is left in the port: nothing   *)
(* would ever read it.                                                     *)
NoWordStranded == ~booted => rx = <<>>

(* When the CPU has read TRDY, every word it has sent has been taken.      *)
TrdyMeansTaken == status = "trdy" => rx = <<>> /\ todo = <<>>

(* With a CPU that waits for TXDE the port never holds more than the two   *)
(* words of the hardware, whatever boots happen in between.                *)
PortDepth == ~unasked => Len(rx) <= 2

(* What the status register tells the CPU of the port holds when it acts.  *)
StatusTrue == TrdyMeansTaken /\ PortDepth

(* The words of the CPU reach boot ROM and programs in the order they were *)
(* sent and none is lost, however often the program changes under them;    *)
(* and so do the words of the programs reach the CPU, from whichever of    *)
(* the nested calls they are passed on.                                    *)
Inbound == INSTANCE BoundedQueue
  WITH queue <- rx \o [i \in DOMAIN todo |-> todo[i].word], taken <- fed,
       Items <- Words, Capacity <- MaxDepth
Outbound == INSTANCE BoundedQueue
  WITH queue <- (IF host = None THEN <<>> ELSE <<host>>) \o tx, taken <- got,
       Items <- Words, Capacity <- MaxTx + 1
WordsArrive == Inbound!Spec /\ Outbound!Spec

(* An access returns: each of its waits is bounded by a number of cycles,  *)
(* which pass unless the program stops.                                    *)
AccessReturns == op # "idle" ~> op = "idle" \/ stalled

(* g1dsp.cpp:1238, when a command finds the DSP stopped: "better to lose   *)
(* the command than hang".                                                 *)
CommandReturns == op = "command" ~> op = "idle"
=============================================================================
