-------------------------------- MODULE Upload --------------------------------
(***************************************************************************)
(* The upload of a patch over the PC port, as PluginProcessor.cpp does it  *)
(* for the plug-in and g1patchtest.cpp for the tests: a greeting, the      *)
(* requests an editor makes when it connects, and the packets, one after   *)
(* the other, each sent when transact has returned from the one before.    *)
(* transact takes any output that ends a message for the reply, or gives   *)
(* up after its time.                                                      *)
(*                                                                         *)
(* Requests are numbered since the machine was reset.  The OS (external)   *)
(* answers them in this order, whenever it gets to it, and each packet by  *)
(* an ACK with the PID of its patch; it also sends messages of its own.    *)
(***************************************************************************)
EXTENDS Integers

CONSTANTS Inits,      \* the requests between the greeting and the packets (16)
          Lengths,    \* the numbers of packets a patch may have
          MaxAsked    \* bound on the requests to one machine

UploadAssumption ==
  /\ Inits \in Nat /\ Lengths \subseteq Nat \ {0} /\ MaxAsked \in Nat

VARIABLES
  strict,   \* a packet without a reply ends the upload: the plug-in's way
  asked,    \* the last request sent
  heard,    \* the last request whose answer has been taken from the port
  half,     \* of the answer after it the first bytes have been taken
  base,     \* the last request before this upload
  packets,  \* the length of the patch, 0 while nothing is uploaded
  pid,      \* whose PID the last ACK among the replies had
  current,  \* currentPatchPid: none, the one of this upload, or an older one
  last,     \* history: the last packet of the uploads before this one
  slips,    \* history: the requests transact left without taking an answer
  failed    \* history: an upload has failed

port == <<asked, heard, half, slips>>
upload == <<base, packets, pid, current, last, failed>>
vars == <<strict, port, upload>>

Pids == {"none", "own", "old"}

TypeOK ==
  /\ strict \in BOOLEAN /\ half \in BOOLEAN /\ failed \in BOOLEAN
  /\ asked \in 0 .. MaxAsked /\ heard \in 0 .. asked
  /\ base \in 0 .. asked /\ last \in 0 .. base
  /\ packets \in Lengths \cup {0}
  /\ pid \in Pids /\ current \in Pids
  /\ slips \in Nat

Init ==
  /\ strict \in BOOLEAN
  /\ asked = 0 /\ heard = 0 /\ half = FALSE
  /\ base = 0 /\ packets = 0 /\ pid = "none" /\ current = "none"
  /\ last = 0 /\ slips = 0 /\ failed = FALSE

Greeting == base + 1
FirstPacket == base + 2 + Inits
LastPacket == base + 1 + Inits + packets

(* The bytes taken so far end with the answer to n, and the first part of  *)
(* the next one if h.                                                      *)
Taken(n, h) ==
  /\ n \in heard .. asked /\ (h => n < asked) /\ (n = heard /\ half => h)
  /\ heard' = n /\ half' = h

(* The last packet sent so far, when an upload begins. *)
Sent == IF asked >= FirstPacket THEN asked ELSE last

-----------------------------------------------------------------------------
(* A slip: the PID of the upload before is still there. *)
BeginLoadKeeping(n) ==
  /\ packets = 0 /\ packets' = n
  /\ strict \/ asked = 0
  /\ asked + 1 + Inits + n <= MaxAsked
  /\ \E k \in heard .. asked, h \in BOOLEAN : Taken(k, h)
  /\ asked' = asked + 1 /\ base' = asked
  /\ last' = Sent /\ pid' = (IF pid = "none" THEN "none" ELSE "old")
  /\ current' = "none"
  /\ UNCHANGED <<strict, slips, failed>>

(* An upload begins: what has come since the last one is thrown away, and  *)
(* the OS is greeted.  The tests do it once, on a new machine.             *)
BeginLoad(n) ==
  /\ packets = 0 /\ packets' = n
  /\ strict \/ asked = 0
  /\ asked + 1 + Inits + n <= MaxAsked
  /\ \E k \in heard .. asked, h \in BOOLEAN : Taken(k, h)
  /\ asked' = asked + 1 /\ base' = asked
  /\ last' = Sent /\ pid' = "none" /\ current' = "none"
  /\ UNCHANGED <<strict, slips, failed>>

(* The PID among whole ACKs in a reply: of what was taken before, only the *)
(* end came with this one.  Older packets are among the requests to last.  *)
Confirms(n) ==
  IF asked < FirstPacket THEN pid' = pid
  ELSE LET from == IF half THEN heard + 1 ELSE heard
       IN  IF n >= FirstPacket /\ n > from THEN pid' = "own"
           ELSE pid' \in {pid} \cup (IF from < last /\ n > from THEN {"old"} ELSE {})

Fail ==
  /\ packets' = 0 /\ failed' = TRUE
  /\ UNCHANGED <<asked, base, current, last>>

(* transact has returned: the next request, or the end of the upload, which *)
(* has succeeded if a PID was among the replies to its packets.             *)
Proceed ==
  IF asked < LastPacket
  THEN /\ asked' = asked + 1
       /\ UNCHANGED <<base, packets, current, last, failed>>
  ELSE IF pid' = "none" THEN Fail
  ELSE /\ packets' = 0 /\ current' = pid'
       /\ UNCHANGED <<asked, base, last, failed>>

(* Output that ends a message is taken for the reply, and what follows in  *)
(* the next milliseconds with it; it may be a message of the OS's own.     *)
Answered ==
  /\ packets > 0
  /\ \E n \in heard .. asked, h \in BOOLEAN :
       /\ Taken(n, h) /\ (half => n > heard) /\ Confirms(n)
       /\ slips' = IF n = heard THEN slips + 1 ELSE slips
  /\ Proceed
  /\ UNCHANGED strict

(* The time has passed and the output is a part of a message.              *)
CutShort ==
  /\ packets > 0
  /\ \E n \in heard .. asked :
       Taken(n, TRUE) /\ Confirms(n) /\ ~(n = heard /\ half)
  /\ slips' = slips + 1
  /\ Proceed
  /\ UNCHANGED strict

(* The time has passed and nothing has come: not even to the greeting, or  *)
(* to a packet, the upload fails; the tests go on after a packet.          *)
Needed == asked = Greeting \/ (strict /\ asked >= FirstPacket)

Silence ==
  /\ packets > 0
  /\ slips' = slips + 1
  /\ IF Needed THEN Fail /\ UNCHANGED pid ELSE pid' = pid /\ Proceed
  /\ UNCHANGED <<strict, heard, half>>

(* loadRom, a restored state, or the tests run again: a new machine. *)
Reset ==
  /\ packets = 0
  /\ asked' = 0 /\ heard' = 0 /\ half' = FALSE
  /\ base' = 0 /\ pid' = "none" /\ current' = "none" /\ last' = 0
  /\ slips' = 0 /\ failed' = FALSE
  /\ UNCHANGED <<strict, packets>>

Next ==
  \/ \E n \in Lengths : BeginLoad(n)
  \/ Answered \/ CutShort \/ Silence
  \/ Reset

Spec == Init /\ [][Next]_vars

-----------------------------------------------------------------------------
(* "A failed/partial upload must not leave old controls active against an  *)
(* uncertain patch or PID" (PluginProcessor.cpp:212): the PID edits are    *)
(* sent with is the one of the patch just uploaded.  An answer that came   *)
(* too late is taken for the next request's, and the one after it too: the *)
(* greeting and the requests behind it are what keeps the ACKs of an older *)
(* upload from the packets of this one, so it takes one slip for each of   *)
(* them to get there.                                                      *)
OwnPid == slips < Inits + 2 => current # "old"

(* If every answer comes in time, no upload fails. *)
PromptLoads == slips = 0 => ~failed
=============================================================================
