----------------------------- MODULE FrameRing -----------------------------
(***************************************************************************)
(* The lock-free ring of audiobridge.h between the emulator thread and the *)
(* audio thread, one step per atomic access and per word copied.  The two  *)
(* indices run freely and wrap with size_t; only their difference and      *)
(* their low bits matter.  An acquire load may return a value of the other *)
(* thread's index older than its last store, never older than what this    *)
(* thread has loaded before.                                               *)
(***************************************************************************)
EXTENDS Integers, Sequences

CONSTANTS Size,     \* m_size, a power of two (32768 in the code)
          Modulus,  \* 2^64: where size_t wraps; a multiple of Size
          Channels, \* N, the words of a frame
          Samples,  \* the values of a word
          None

ASSUME RingAssumption ==
  /\ Size \in Nat \ {0}
  /\ Modulus \in Nat
  /\ \E k \in 2 .. Modulus : Modulus = k * Size
  /\ Channels \in Nat \ {0} /\ Samples # {}

Index == 0 .. Modulus - 1
Words == 1 .. Channels
Frames == [Words -> Samples]

VARIABLES
  write, read,  \* m_write, m_read
  data,         \* m_data, slot by slot
  ppc,          \* the producer: "idle", "copy" or "store"
  pframe,       \* the frame it pushes
  pseen,        \* m_read as it last loaded it
  pword,        \* the next word it copies
  cpc,          \* the consumer: "idle", "copy" or "store"
  cframe,       \* the words it has copied
  cseen,        \* m_write as it last loaded it
  cword,        \* the next word it copies
  taken         \* the frame its last successful pop returned

producer == <<write, ppc, pframe, pseen, pword>>
consumer == <<read, cpc, cframe, cseen, cword, taken>>
vars == <<write, read, data, ppc, pframe, pseen, pword,
          cpc, cframe, cseen, cword, taken>>

Slot(i) == i % Size
Distance(from, to) == (to - from) % Modulus

(* The values an acquire load may return: from the last one this thread    *)
(* saw to the current one.                                                 *)
Loadable(old, current) ==
  {(old + k) % Modulus : k \in 0 .. Distance(old, current)}

TypeOK ==
  /\ write \in Index /\ read \in Index /\ pseen \in Index /\ cseen \in Index
  /\ data \in [0 .. Size - 1 -> Frames]
  /\ ppc \in {"idle", "copy", "store"} /\ cpc \in {"idle", "copy", "store"}
  /\ pframe \in Frames /\ cframe \in Frames
  /\ pword \in 1 .. Channels + 1 /\ cword \in 1 .. Channels + 1
  /\ taken \in Frames \cup {None}

Zero == CHOOSE s \in Samples : TRUE
Silence == [c \in Words |-> Zero]

Init ==
  /\ write = 0 /\ read = 0
  /\ data = [i \in 0 .. Size - 1 |-> Silence]
  /\ ppc = "idle" /\ pframe = Silence /\ pseen = 0 /\ pword = 1
  /\ cpc = "idle" /\ cframe = Silence /\ cseen = 0 /\ cword = 1
  /\ taken = None

-----------------------------------------------------------------------------
(* Producer *)

(* A slip: the last free slot is taken for two. *)
BeginPushOverfull(f) ==
  /\ ppc = "idle"
  /\ \E r \in Loadable(pseen, read) :
       /\ pseen' = r
       /\ Size - Distance(r, write) >= 0
       /\ ppc' = "copy" /\ pframe' = f /\ pword' = 1
  /\ UNCHANGED <<write, data, consumer>>

(* push: space() decides whether the frame is copied or dropped. *)
BeginPush(f) ==
  /\ ppc = "idle"
  /\ \E r \in Loadable(pseen, read) :
       /\ pseen' = r
       /\ IF Size - Distance(r, write) = 0
          THEN UNCHANGED <<ppc, pframe, pword>>
          ELSE ppc' = "copy" /\ pframe' = f /\ pword' = 1
  /\ UNCHANGED <<write, data, consumer>>

CopyIn ==
  /\ ppc = "copy"
  /\ data' = [data EXCEPT ![Slot(write)][pword] = pframe[pword]]
  /\ pword' = pword + 1
  /\ ppc' = IF pword = Channels THEN "store" ELSE "copy"
  /\ UNCHANGED <<write, pframe, pseen, consumer>>

StoreWrite ==
  /\ ppc = "store"
  /\ write' = (write + 1) % Modulus
  /\ ppc' = "idle"
  /\ UNCHANGED <<data, pframe, pseen, pword, consumer>>

-----------------------------------------------------------------------------
(* Consumer *)

(* pop: available() decides whether there is a frame. *)
BeginPop ==
  /\ cpc = "idle"
  /\ \E w \in Loadable(cseen, write) :
       /\ cseen' = w
       /\ IF Distance(read, w) = 0
          THEN UNCHANGED <<cpc, cword>>
          ELSE cpc' = "copy" /\ cword' = 1
  /\ UNCHANGED <<read, data, cframe, taken, producer>>

(* A slip: the slot is given back before its last word is copied. *)
CopyOutEarly ==
  /\ cpc = "copy"
  /\ cframe' = [cframe EXCEPT ![cword] = data[Slot(read)][cword]]
  /\ cword' = cword + 1
  /\ cpc' = IF cword = Channels THEN "idle" ELSE "copy"
  /\ read' = IF cword = 1 THEN (read + 1) % Modulus ELSE read
  /\ taken' = IF cword = Channels THEN cframe' ELSE taken
  /\ UNCHANGED <<data, cseen, producer>>

CopyOut ==
  /\ cpc = "copy"
  /\ cframe' = [cframe EXCEPT ![cword] = data[Slot(read)][cword]]
  /\ cword' = cword + 1
  /\ cpc' = IF cword = Channels THEN "store" ELSE "copy"
  /\ UNCHANGED <<read, data, cseen, taken, producer>>

StoreRead ==
  /\ cpc = "store"
  /\ read' = (read + 1) % Modulus
  /\ taken' = cframe
  /\ cpc' = "idle"
  /\ UNCHANGED <<data, cframe, cseen, cword, producer>>

Next ==
  \/ \E f \in Frames : BeginPush(f)
  \/ CopyIn \/ StoreWrite
  \/ BeginPop \/ CopyOut \/ StoreRead

Spec == Init /\ [][Next]_vars

-----------------------------------------------------------------------------
(* The two threads never access the same slot at the same time: m_data is  *)
(* plain memory.                                                           *)
NoDataRace ==
  ppc = "copy" /\ cpc = "copy" => Slot(write) # Slot(read)

(* The contents: the slots from the read index to the write index. *)
Contents ==
  [i \in 1 .. Distance(read, write) |-> data[Slot(read + i - 1)]]

Queue == INSTANCE BoundedQueue
           WITH queue <- Contents, Capacity <- Size, Items <- Frames

(* Whatever the threads interleave, whatever old index a load returns and  *)
(* wherever the indices wrap, the ring is a bounded queue of whole frames. *)
ImplementsQueue == Queue!Spec
=============================================================================
