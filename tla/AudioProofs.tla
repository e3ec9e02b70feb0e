----------------------------- MODULE AudioProofs -----------------------------
(***************************************************************************)
(* Proofs about what leaves the emulator: the cushion of the ALSA output   *)
(* (AlsaAudio), the ring of frames (FrameRing) and the bridge to the       *)
(* card's rate (AudioBridge), for any sizes of blocks, cushion and queues  *)
(* and any rates.                                                          *)
(***************************************************************************)
EXTENDS MCAudio, WellFoundedInduction, TLAPS

(* AlsaAudio: while it plays, the blocks taken and the frames queued make  *)
(* up the cushion.                                                         *)
Cushioned ==
  /\ fifo \in Nat /\ written \in 0 .. CushionBlocks
  /\ ~buffering => written * Block + fifo >= CushionBlocks * Block

LEMMA OneMore ==
  ASSUME NEW b \in Nat, NEW w \in Nat
  PROVE  (w + 1) * b = w * b + b /\ w * b \in Nat
OBVIOUS

LEMMA LessThanOne ==
  ASSUME NEW b \in Nat, NEW w \in Nat, NEW n \in Nat, NEW f \in Nat,
         w * b + f >= n * b, f < b
  PROVE  w >= n
<1>1. CASE w + 1 <= n
  <2>1. (w + 1) * b <= n * b
    BY <1>1
  <2> QED BY <2>1, OneMore
<1> QED BY <1>1

LEMMA TakeBlockStep ==
  ASSUME Als!AlsaAssumption, Cushioned, Als!TakeBlock
  PROVE  Cushioned'
<1>1. /\ Block \in Nat /\ CushionBlocks \in Nat /\ fifo \in Nat /\ written \in Nat
      /\ fifo' = fifo - Block /\ fifo >= Block
      /\ written' = IF written < CushionBlocks THEN written + 1 ELSE written
  BY DEF Als!AlsaAssumption, Als!TakeBlock, Cushioned
<1>2. written * Block + fifo >= CushionBlocks * Block
  <2>1. CASE ~buffering
    BY <2>1 DEF Cushioned
  <2>2. CASE fifo >= CushionBlocks * Block
    BY <2>2, <1>1, OneMore
  <2> QED BY <2>1, <2>2 DEF Als!TakeBlock, Als!Playing, Als!Prefill
<1>3. CASE written < CushionBlocks
  <2>1. written' * Block = written * Block + Block
    BY <1>1, <1>3, OneMore
  <2>2. written * Block \in Nat /\ CushionBlocks * Block \in Nat
    BY <1>1, OneMore
  <2> QED BY <1>1, <1>2, <1>3, <2>1, <2>2 DEF Cushioned
<1>4. CASE ~(written < CushionBlocks)
  <2>1. written * Block >= CushionBlocks * Block
    BY <1>1, <1>4
  <2>2. written * Block \in Nat /\ CushionBlocks * Block \in Nat /\ fifo' \in Nat
    BY <1>1, OneMore
  <2> QED BY <1>1, <1>4, <2>1, <2>2 DEF Cushioned
<1> QED BY <1>3, <1>4

(* A gap of the emulator's making comes after a whole cushion (push, run), *)
(* for any sizes of the block, the cushion and the queue.                  *)
THEOREM CushionIsPlayed ==
  ASSUME Als!AlsaAssumption
  PROVE  Als!Spec => CushionPlays
<1> USE DEF Als!AlsaAssumption
<1>1. Als!Init => Cushioned
  BY DEF Als!Init, Cushioned
<1>2. Cushioned /\ [Als!Next]_Als!vars => Cushioned'
  <2> SUFFICES ASSUME Cushioned, [Als!Next]_Als!vars PROVE Cushioned'
    OBVIOUS
  <2>1. CASE Als!Push
    BY <2>1 DEF Als!Push, Cushioned
  <2>2. CASE Als!Test
    BY <2>2 DEF Als!Test, Cushioned
  <2>3. CASE Als!TakeBlock
    BY <2>3, TakeBlockStep
  <2>4. CASE Als!FindNone
    BY <2>4 DEF Als!FindNone, Cushioned
  <2>5. CASE Als!WriteDone
    BY <2>5 DEF Als!WriteDone, Cushioned
  <2>6. CASE Als!WriteFails
    BY <2>6 DEF Als!WriteFails, Cushioned
  <2>7. CASE Als!Close
    BY <2>7 DEF Als!Close, Cushioned
  <2>8. CASE Als!Open
    BY <2>8 DEF Als!Open, Cushioned
  <2>9. CASE UNCHANGED Als!vars
    BY <2>9 DEF Als!vars, Cushioned
  <2> QED BY <2>1, <2>2, <2>3, <2>4, <2>5, <2>6, <2>7, <2>8, <2>9 DEF Als!Next
<1>3. ASSUME Cushioned, [Als!Next]_Als!vars PROVE [Als!Gap => written = CushionBlocks]_Als!vars
  <2> SUFFICES ASSUME Als!Gap, Als!Next PROVE written = CushionBlocks
    BY <1>3
  <2>1. Als!FindNone
    BY DEF Als!Gap, Als!Next, Als!Push, Als!Test, Als!TakeBlock, Als!WriteDone, Als!WriteFails, Als!Close, Als!Open
  <2>2. fifo < Block /\ written >= 0 /\ written * Block + fifo >= CushionBlocks * Block
    BY <1>3, <2>1 DEF Als!Gap, Als!FindNone, Als!Playing, Cushioned
  <2>3. written >= CushionBlocks
    BY <1>3, <2>2, LessThanOne DEF Cushioned
  <2> QED BY <1>3, <2>3 DEF Cushioned
<1> QED BY <1>1, <1>2, <1>3, PTL DEF Als!Spec, Als!CushionPlays, CushionPlays
-----------------------------------------------------------------------------
(* Remainders.                                                             *)
LEMMA DivMod ==
  ASSUME NEW m \in Nat \ {0}, NEW x \in Int
  PROVE  /\ x % m \in 0 .. m - 1 /\ x \div m \in Int
         /\ x = m * (x \div m) + (x % m)
OBVIOUS
LEMMA Times ==
  ASSUME NEW m \in Nat \ {0}, NEW q \in Int, NEW p \in Int, q < p
  PROVE  m * q + m <= m * p
<1>1. PICK d \in Nat : p = q + 1 + d
  <2>1. p - q - 1 \in Nat /\ p = q + 1 + (p - q - 1) 
    OBVIOUS
  <2> QED BY <2>1
<1>2. m * p = m * q + m + m * d /\ m * d \in Nat
  BY <1>1
<1> QED BY <1>1, <1>2
LEMMA ModUnique ==
  ASSUME NEW m \in Nat \ {0}, NEW q \in Int, NEW r \in 0 .. m - 1, NEW x \in Int, x = m * q + r
  PROVE  x % m = r
<1> DEFINE p == x \div m
           s == x % m
<1>1. s \in 0 .. m - 1 /\ p \in Int /\ x = m * p + s
  BY DivMod
<1> HIDE DEF p, s
<1>2. m * p \in Int /\ m * q \in Int
  BY <1>1
<1>3. ~(p < q)
  <2> SUFFICES ASSUME p < q PROVE FALSE OBVIOUS
  <2>1. m * p + m <= m * q BY <1>1, Times
  <2> QED BY <1>1, <1>2, <2>1
<1>4. ~(q < p)
  <2> SUFFICES ASSUME q < p PROVE FALSE OBVIOUS
  <2>1. m * q + m <= m * p BY <1>1, Times
  <2> QED BY <1>1, <1>2, <2>1
<1>5. p = q BY <1>1, <1>3, <1>4
<1>6. s = r BY <1>1, <1>2, <1>5
<1> QED BY <1>6 DEF s

LEMMA Quotient ==
  ASSUME NEW m \in Nat \ {0}, NEW x \in Int
  PROVE  \E q \in Int, r \in 0 .. m - 1 : x = m * q + r /\ r = x % m
BY DivMod

LEMMA ModPlus ==
  ASSUME NEW m \in Nat \ {0}, NEW x \in Int, NEW k \in Int
  PROVE  ((x % m) + k) % m = (x + k) % m
<1>1. PICK q \in Int, r \in 0 .. m - 1 : x = m * q + r /\ r = x % m
  BY DivMod
<1>2. PICK p \in Int, s \in 0 .. m - 1 : r + k = m * p + s /\ s = (r + k) % m
  <2>1. r + k \in Int
    OBVIOUS
  <2> QED BY <2>1, Quotient, Zenon
<1>3. x + k = m * (p + q) + s /\ p + q \in Int /\ x + k \in Int
  <2>1. m * (p + q) = m * p + m * q /\ m * p \in Int /\ m * q \in Int
    OBVIOUS
  <2> QED BY <1>1, <1>2, <2>1
<1>4. (x + k) % m = s
  <2> DEFINE y == x + k
             u == p + q
  <2>1. y \in Int /\ u \in Int /\ y = m * u + s
    BY <1>3
  <2> HIDE DEF y, u
  <2>2. y % m = s
    BY <2>1, ModUnique
  <2> QED BY <2>2 DEF y
<1> QED BY <1>1, <1>2, <1>4

LEMMA ModDistance ==
  ASSUME NEW m \in Nat \ {0}, NEW x \in Int, NEW k \in 0 .. m - 1
  PROVE  (((x + k) % m) - (x % m)) % m = k
<1>1. PICK q \in Int, r \in 0 .. m - 1 : x = m * q + r /\ r = x % m
  BY DivMod
<1>2. PICK p \in Int, s \in 0 .. m - 1 : x + k = m * p + s /\ s = (x + k) % m
  <2>1. x + k \in Int
    OBVIOUS
  <2> QED BY <2>1, Quotient, Zenon
<1>3. s - r = m * (q - p) + k /\ q - p \in Int /\ s - r \in Int
  <2>1. m * (q - p) = m * q - m * p /\ m * p \in Int /\ m * q \in Int
    OBVIOUS
  <2> QED BY <1>1, <1>2, <2>1
<1>4. (s - r) % m = k
  BY <1>3, ModUnique
<1> QED BY <1>1, <1>2, <1>4

LEMMA ModTwice ==
  ASSUME NEW s \in Nat \ {0}, NEW k \in Nat \ {0}, NEW x \in Int
  PROVE  (x % (k * s)) % s = x % s
<1>1. k * s \in Nat \ {0}
  <2>1. PICK a \in Nat : k = a + 1
    <3>1. k - 1 \in Nat /\ k = (k - 1) + 1
      OBVIOUS
    <3> QED BY <3>1
  <2>2. k * s = a * s + s /\ a * s \in Nat
    BY <2>1
  <2> QED BY <2>1, <2>2
<1>2. PICK q \in Int, r \in 0 .. (k * s) - 1 : x = (k * s) * q + r /\ r = x % (k * s)
  BY <1>1, DivMod
<1>3. PICK p \in Int, t \in 0 .. s - 1 : x = s * p + t /\ t = x % s
  BY DivMod
<1>4. r = s * (p - k * q) + t /\ p - k * q \in Int /\ r \in Int
  <2>1. s * (p - k * q) = s * p - s * (k * q) /\ s * (k * q) = (k * s) * q
    OBVIOUS
  <2>2. s * p \in Int /\ (k * s) * q \in Int /\ p - k * q \in Int
    OBVIOUS
  <2> DEFINE a == s * p
             b == (k * s) * q
             c == p - k * q
  <2>3. a \in Int /\ b \in Int /\ s * c = a - b
    BY <2>1, <2>2
  <2>4. x = b + r /\ x = a + t /\ c \in Int
    BY <1>2, <1>3, <2>2
  <2>5. r \in Int /\ t \in Int
    BY <1>1
  <2> HIDE DEF a, b, c
  <2>6. r = s * c + t
    BY <2>3, <2>4, <2>5
  <2> QED BY <2>4, <2>5, <2>6 DEF c
<1>5. r % s = t
  BY <1>4, ModUnique
<1> QED BY <1>2, <1>3, <1>5

LEMMA ModDiffer ==
  ASSUME NEW m \in Nat \ {0}, NEW x \in Int, NEW k \in 1 .. m - 1
  PROVE  (x + k) % m # x % m
<1> SUFFICES ASSUME (x + k) % m = x % m PROVE FALSE
  OBVIOUS
<1>1. (((x + k) % m) - (x % m)) % m = k
  <2>1. k \in 0 .. m - 1
    OBVIOUS
  <2> QED BY <2>1, ModDistance, Zenon
<1>2. x % m \in Int
  BY DivMod
<1>3. 0 % m = 0
  <2>1. 0 = m * 0 + 0
    OBVIOUS
  <2> QED BY <2>1, ModUnique
<1> QED BY <1>1, <1>2, <1>3
-----------------------------------------------------------------------------
(* FrameRing: the indices are those of four counters that never wrap, in   *)
(* the order in which a slot passes them, at most Size apart.              *)
Unrolled(p, r, c, w) ==
  /\ p <= r /\ r <= c /\ c <= w /\ w <= p + Size
  /\ pseen = p % Modulus /\ read = r % Modulus
  /\ cseen = c % Modulus /\ write = w % Modulus
  /\ ppc # "idle" => w < p + Size
  /\ cpc # "idle" => r < c

(* What is copied of a frame is in its slot, and what is copied of a slot  *)
(* is still in it.                                                         *)
Copied ==
  /\ ppc = "copy" => pword \in Words
  /\ ppc = "store" => pword = Channels + 1
  /\ ppc # "idle" => \A k \in Words : k < pword => data[Slot(write)][k] = pframe[k]
  /\ cpc = "copy" => cword \in Words
  /\ cpc = "store" => cword = Channels + 1
  /\ cpc # "idle" => \A k \in Words : k < cword => cframe[k] = data[Slot(read)][k]

RingInv == TypeOK /\ Copied /\ \E p, r, c, w \in Nat : Unrolled(p, r, c, w)

LEMMA Sizes ==
  /\ Size \in Nat \ {0} /\ Modulus \in Nat \ {0} /\ Size + Size <= Modulus
  /\ \A x \in Int : (x % Modulus) % Size = x % Size
<1>1. PICK k \in 2 .. Modulus : Modulus = k * Size
  BY RingAssumption
<1>2. Size \in Nat \ {0} /\ Modulus \in Nat /\ k \in Nat \ {0}
  BY RingAssumption
<1>3. PICK j \in Nat : k = j + 2
  <2>1. k - 2 \in Nat /\ k = (k - 2) + 2
    OBVIOUS
  <2> QED BY <2>1
<1>4. k * Size = j * Size + Size + Size /\ j * Size \in Nat
  BY <1>2, <1>3
<1>5. \A x \in Int : (x % (k * Size)) % Size = x % Size
  BY <1>2, ModTwice
<1> QED BY <1>1, <1>2, <1>4, <1>5

LEMMA IndexDistance ==
  ASSUME NEW x \in Nat, NEW y \in Nat, x <= y, y <= x + Size
  PROVE  Distance(x % Modulus, y % Modulus) = y - x
<1>1. PICK k \in Nat : y = x + k
  <2>1. y - x \in Nat /\ y = x + (y - x)
    OBVIOUS
  <2> QED BY <2>1
<1>2. k \in 0 .. Modulus - 1
  BY <1>1, Sizes
<1>3. (((x + k) % Modulus) - (x % Modulus)) % Modulus = k
  <2>1. Modulus \in Nat \ {0} /\ x \in Int
    BY Sizes
  <2> QED BY <1>2, <2>1, ModDistance
<1> QED BY <1>1, <1>3 DEF Distance

LEMMA IndexPlus ==
  ASSUME NEW x \in Nat, NEW k \in Nat
  PROVE  /\ ((x % Modulus) + k) % Modulus = (x + k) % Modulus
         /\ Slot((x % Modulus) + k) = (x + k) % Size
<1>1. Modulus \in Nat \ {0} /\ Size \in Nat \ {0} /\ x \in Int /\ k \in Int
  BY Sizes
<1>2. ((x % Modulus) + k) % Modulus = (x + k) % Modulus
  BY <1>1, ModPlus
<1>3. (x % Modulus) + k \in Int /\ x + k \in Int
  <2>1. x % Modulus \in Int
    BY <1>1, DivMod
  <2> QED BY <2>1
<1>4. Slot((x % Modulus) + k) = (((x % Modulus) + k) % Modulus) % Size
  BY <1>3, Sizes DEF Slot
<1>5. ((x + k) % Modulus) % Size = (x + k) % Size
  BY <1>3, Sizes
<1> QED BY <1>2, <1>4, <1>5

LEMMA IndexOf ==
  ASSUME NEW x \in Nat
  PROVE  x % Modulus \in Index
<1>1. Modulus \in Nat \ {0} /\ x \in Int
  BY Sizes
<1> QED BY <1>1, DivMod DEF Index

LEMMA SlotOf ==
  ASSUME NEW x \in Nat
  PROVE  Slot(x % Modulus) = x % Size /\ x % Size \in 0 .. Size - 1
<1>1. Size \in Nat \ {0} /\ x \in Int
  BY Sizes
<1>2. (x % Modulus) % Size = x % Size
  BY <1>1, Sizes
<1>3. x % Size \in 0 .. Size - 1
  BY <1>1, DivMod
<1> QED BY <1>2, <1>3 DEF Slot

LEMMA SlotsDiffer ==
  ASSUME NEW x \in Nat, NEW y \in Nat, x < y, y < x + Size
  PROVE  x % Size # y % Size
<1>1. PICK k \in 1 .. Size - 1 : y = x + k
  <2>1. y - x \in 1 .. Size - 1 /\ y = x + (y - x)
    BY Sizes
  <2> QED BY <2>1
<1>2. (x + k) % Size # x % Size
  <2>1. Size \in Nat \ {0} /\ x \in Int
    BY Sizes
  <2> QED BY <2>1, ModDiffer
<1> QED BY <1>1, <1>2

(* What the threads see, in terms of the counters.                         *)
LEMMA Seen ==
  ASSUME NEW p \in Nat, NEW r \in Nat, NEW c \in Nat, NEW w \in Nat,
         Unrolled(p, r, c, w)
  PROVE  /\ Slot(write) = w % Size /\ Slot(read) = r % Size
         /\ Slot(write) \in 0 .. Size - 1 /\ Slot(read) \in 0 .. Size - 1
         /\ Distance(read, write) = w - r /\ w - r \in 0 .. Size
         /\ r < w /\ w < r + Size => Slot(write) # Slot(read)
<1>1. p <= r /\ r <= w /\ w <= r + Size /\ read = r % Modulus /\ write = w % Modulus
  BY Sizes DEF Unrolled
<1>2. Slot(write) = w % Size /\ Slot(read) = r % Size
  BY <1>1, SlotOf
<1>3. w % Size \in 0 .. Size - 1 /\ r % Size \in 0 .. Size - 1
  BY SlotOf
<1>4. Distance(read, write) = w - r /\ w - r \in 0 .. Size
  <2>1. Distance(r % Modulus, w % Modulus) = w - r
    BY <1>1, IndexDistance
  <2> QED BY <1>1, <2>1, Sizes
<1>5. r < w /\ w < r + Size => w % Size # r % Size
  BY SlotsDiffer
<1> QED BY <1>2, <1>3, <1>4, <1>5

(* An old value of an index is one the counter had.                        *)
LEMMA LoadedEarlier ==
  ASSUME NEW x \in Nat, NEW y \in Nat, x <= y, y <= x + Size,
         NEW i \in Loadable(x % Modulus, y % Modulus)
  PROVE  \E z \in Nat : i = z % Modulus /\ x <= z /\ z <= y
<1>1. Distance(x % Modulus, y % Modulus) = y - x
  BY IndexDistance
<1>2. PICK k \in 0 .. y - x : i = ((x % Modulus) + k) % Modulus
  BY <1>1 DEF Loadable
<1>3. i = (x + k) % Modulus
  BY <1>2, IndexPlus
<1>4. x + k \in Nat /\ x <= x + k /\ x + k <= y
  OBVIOUS
<1> QED BY <1>3, <1>4

LEMMA BeginPushStep ==
  ASSUME RingInv, NEW f \in Frames, BeginPush(f)
  PROVE  RingInv'
<1>1. PICK p \in Nat, r \in Nat, c \in Nat, w \in Nat : Unrolled(p, r, c, w)
  BY DEF RingInv
<1>2. PICK i \in Loadable(pseen, read) :
        /\ pseen' = i
        /\ IF Size - Distance(i, write) = 0
           THEN UNCHANGED <<ppc, pframe, pword>>
           ELSE ppc' = "copy" /\ pframe' = f /\ pword' = 1
  BY DEF BeginPush
<1>3. /\ ppc = "idle" /\ UNCHANGED <<write, data, read, cpc, cframe, cseen, cword, taken>>
  BY DEF BeginPush, consumer
<1>4. PICK q \in Nat : i = q % Modulus /\ p <= q /\ q <= r
  <2>1. p <= r /\ r <= p + Size
    BY <1>1, Sizes DEF Unrolled
  <2>2. pseen = p % Modulus /\ read = r % Modulus
    BY <1>1 DEF Unrolled
  <2> QED BY <2>1, <2>2, LoadedEarlier
<1>5. q <= w /\ w <= q + Size /\ r <= c /\ c <= w
  BY <1>1, <1>4, Sizes DEF Unrolled
<1>6. Distance(i, write) = w - q
  BY <1>1, <1>4, <1>5, IndexDistance DEF Unrolled
<1>7. ppc' # "idle" => w < q + Size
  BY <1>2, <1>3, <1>5, <1>6, Sizes
<1>8. Unrolled(q, r, c, w)'
  BY <1>1, <1>2, <1>3, <1>4, <1>5, <1>7 DEF Unrolled
<1>9. i \in Index
  BY <1>4, IndexOf
<1>10. 1 \in Words /\ 1 \in 1 .. Channels + 1
  BY RingAssumption DEF Words
<1>11. TypeOK'
  BY <1>2, <1>3, <1>9, <1>10 DEF RingInv, TypeOK
<1>12. Copied'
  <2>1. CASE ppc' = ppc /\ pframe' = pframe /\ pword' = pword
    BY <1>3, <2>1 DEF RingInv, Copied, Slot
  <2>2. CASE ppc' = "copy" /\ pframe' = f /\ pword' = 1
    <3>1. \A k \in Words : ~(k < 1)
      BY DEF Words
    <3>2. UNCHANGED <<cpc, cword, cframe, read, data>> /\ Copied
      BY <1>3 DEF RingInv
    <3> QED BY <1>10, <2>2, <3>1, <3>2 DEF Copied, Slot
  <2> QED BY <1>2, <2>1, <2>2
<1> QED BY <1>8, <1>11, <1>12 DEF RingInv

LEMMA CopyInStep ==
  ASSUME RingInv, CopyIn
  PROVE  RingInv' /\ Contents' = Contents
<1>1. PICK p \in Nat, r \in Nat, c \in Nat, w \in Nat : Unrolled(p, r, c, w)
  BY DEF RingInv
<1>2. /\ ppc = "copy" /\ pword' = pword + 1
      /\ data' = [data EXCEPT ![Slot(write)][pword] = pframe[pword]]
      /\ ppc' = IF pword = Channels THEN "store" ELSE "copy"
      /\ UNCHANGED <<write, pframe, pseen, read, cpc, cframe, cseen, cword, taken>>
  BY DEF CopyIn, consumer
<1>3. Unrolled(p, r, c, w)'
  BY <1>1, <1>2 DEF Unrolled
<1>4. /\ data \in [0 .. Size - 1 -> Frames] /\ pframe \in Frames /\ pword \in Words
      /\ Slot(write) \in 0 .. Size - 1 /\ Slot(read) \in 0 .. Size - 1
  BY <1>1, <1>2, Seen DEF RingInv, TypeOK, Copied
<1>5. /\ data' \in [0 .. Size - 1 -> Frames]
      /\ data'[Slot(write)] = [data[Slot(write)] EXCEPT ![pword] = pframe[pword]]
      /\ \A s \in 0 .. Size - 1 : s # Slot(write) => data'[s] = data[s]
  BY <1>2, <1>4 DEF Frames
<1>6. pword \in Nat /\ pword <= Channels /\ Channels \in Nat
  BY <1>4, RingAssumption DEF Words
<1>7. TypeOK'
  <2>1. pword' \in 1 .. Channels + 1 /\ ppc' \in {"idle", "copy", "store"}
    BY <1>2, <1>6
  <2> QED BY <1>2, <1>5, <2>1 DEF RingInv, TypeOK
<1>8. /\ ppc' = "copy" => pword' \in Words
      /\ ppc' = "store" => pword' = Channels + 1
  BY <1>2, <1>6 DEF Words
<1>9. \A k \in Words : k < pword' => data'[Slot(write)][k] = pframe[k]
  <2> TAKE k \in Words
  <2> HAVE k < pword'
  <2>1. k \in Nat /\ (k < pword \/ k = pword)
    BY <1>2, <1>6 DEF Words
  <2>2. k < pword => data[Slot(write)][k] = pframe[k]
    BY <1>2 DEF RingInv, Copied
  <2>3. data[Slot(write)] \in [Words -> Samples]
    BY <1>4 DEF Frames
  <2> QED BY <1>4, <1>5, <2>1, <2>2, <2>3
<1>10. cpc # "idle" => data'[Slot(read)] = data[Slot(read)]
  <2>1. SUFFICES ASSUME cpc # "idle" PROVE Slot(read) # Slot(write)
    BY <1>4, <1>5
  <2>2. r < w /\ w < r + Size
    BY <1>1, <1>2, <2>1, Sizes DEF Unrolled
  <2> QED BY <1>1, <2>2, Seen
<1>11. Copied'
  <2>1. Slot(write)' = Slot(write) /\ Slot(read)' = Slot(read)
    BY <1>2 DEF Slot
  <2>2. ppc' # "idle" => \A k \in Words : k < pword' => data'[Slot(write)'][k] = pframe'[k]
    BY <1>2, <1>9, <2>1
  <2>3. /\ cpc' = "copy" => cword' \in Words
        /\ cpc' = "store" => cword' = Channels + 1
    BY <1>2 DEF RingInv, Copied
  <2>4. cpc' # "idle" => \A k \in Words : k < cword' => cframe'[k] = data'[Slot(read)'][k]
    BY <1>2, <1>10, <2>1 DEF RingInv, Copied
  <2> QED BY <1>8, <2>2, <2>3, <2>4 DEF Copied
<1>12. RingInv'
  BY <1>3, <1>7, <1>11 DEF RingInv
<1>13. Contents' = Contents
  <2>1. Distance(read, write) = w - r /\ w - r \in 0 .. Size
    BY <1>1, Seen
  <2>2. ASSUME NEW i \in 1 .. w - r
        PROVE  data'[Slot(read + i - 1)] = data[Slot(read + i - 1)]
    <3>1. PICK k \in Nat : i = k + 1 /\ k < w - r
      <4>1. i - 1 \in Nat /\ i = (i - 1) + 1 /\ i - 1 < w - r
        BY <2>1
      <4> QED BY <4>1
    <3>2. Slot(read + i - 1) = (r + k) % Size
      <4>1. Slot((r % Modulus) + k) = (r + k) % Size
        BY IndexPlus
      <4>2. read = r % Modulus /\ read \in Int
        BY <1>1 DEF Unrolled, RingInv, TypeOK, Index
      <4>3. read + i - 1 = (r % Modulus) + k
        BY <3>1, <4>2
      <4> QED BY <4>1, <4>3
    <3>3. r + k \in Nat /\ r + k < w /\ w < (r + k) + Size
      BY <1>1, <1>2, <2>1, <3>1, Sizes DEF Unrolled
    <3>4. (r + k) % Size # w % Size /\ (r + k) % Size \in 0 .. Size - 1
      BY <3>3, SlotsDiffer, SlotOf
    <3> QED BY <1>1, <1>5, <3>2, <3>4, Seen
  <2>3. Distance(read, write)' = Distance(read, write) /\ read' = read
    BY <1>2 DEF Distance
  <2> QED BY <2>1, <2>2, <2>3, <1>2 DEF Contents, Slot
<1> QED BY <1>12, <1>13

(* A contents that grows at its end, and one that loses its first.         *)
LEMMA Grown ==
  ASSUME NEW S, NEW n \in Nat, NEW f, \A i \in 1 .. n + 1 : f[i] \in S
  PROVE  [i \in 1 .. n + 1 |-> f[i]] = Append([i \in 1 .. n |-> f[i]], f[n + 1])
<1> DEFINE g == [i \in 1 .. n |-> f[i]]
           h == [i \in 1 .. n + 1 |-> f[i]]
<1>1. g \in Seq(S) /\ Len(g) = n /\ h \in Seq(S) /\ Len(h) = n + 1
  OBVIOUS
<1>2. /\ Append(g, f[n + 1]) \in Seq(S) /\ Len(Append(g, f[n + 1])) = n + 1
      /\ \A i \in 1 .. n : Append(g, f[n + 1])[i] = g[i]
      /\ Append(g, f[n + 1])[n + 1] = f[n + 1]
  BY <1>1
<1>3. \A i \in 1 .. n + 1 : h[i] = Append(g, f[n + 1])[i]
  BY <1>1, <1>2
<1> QED BY <1>1, <1>2, <1>3

LEMMA Shrunk ==
  ASSUME NEW S, NEW n \in Nat, NEW f, \A i \in 1 .. n + 1 : f[i] \in S
  PROVE  /\ [i \in 1 .. n + 1 |-> f[i]] # <<>>
         /\ Head([i \in 1 .. n + 1 |-> f[i]]) = f[1]
         /\ Tail([i \in 1 .. n + 1 |-> f[i]]) = [i \in 1 .. n |-> f[i + 1]]
<1> DEFINE g == [i \in 1 .. n |-> f[i + 1]]
           h == [i \in 1 .. n + 1 |-> f[i]]
<1>1. g \in Seq(S) /\ Len(g) = n /\ h \in Seq(S) /\ Len(h) = n + 1
  OBVIOUS
<1>2. h # <<>> /\ Head(h) = f[1]
  BY <1>1
<1>3. Tail(h) \in Seq(S) /\ Len(Tail(h)) = n /\ \A i \in 1 .. n : Tail(h)[i] = h[i + 1]
  BY <1>1
<1>4. \A i \in 1 .. n : Tail(h)[i] = g[i]
  BY <1>1, <1>3
<1>5. Tail(h) = g
  BY <1>1, <1>3, <1>4
<1> QED BY <1>2, <1>5

(* The contents are the slots of the counters between the two.             *)
ContentsFromTo(r, w) ==
  /\ Contents = [i \in 1 .. w - r |-> data[(r + (i - 1)) % Size]]
  /\ \A i \in Nat \ {0} : data[(r + (i - 1)) % Size] \in Frames

ContentsUnrolled ==
  \A p, r, c, w \in Nat : TypeOK /\ Unrolled(p, r, c, w) => ContentsFromTo(r, w)

LEMMA ContentsAre == ContentsUnrolled
<1> SUFFICES ASSUME TypeOK, NEW p \in Nat, NEW r \in Nat, NEW c \in Nat, NEW w \in Nat,
                    Unrolled(p, r, c, w)
             PROVE  ContentsFromTo(r, w)
  BY DEF ContentsUnrolled
<1>1. Distance(read, write) = w - r /\ w - r \in 0 .. Size
  BY Seen
<1>2. ASSUME NEW i \in Nat \ {0}
      PROVE  /\ Slot(read + i - 1) = (r + (i - 1)) % Size
             /\ (r + (i - 1)) % Size \in 0 .. Size - 1
  <2>1. i - 1 \in Nat /\ r + (i - 1) \in Nat
    OBVIOUS
  <2>2. Slot((r % Modulus) + (i - 1)) = (r + (i - 1)) % Size
    BY <2>1, IndexPlus
  <2>3. read = r % Modulus /\ read \in Int
    BY DEF Unrolled, TypeOK, Index
  <2>4. read + i - 1 = (r % Modulus) + (i - 1)
    BY <2>3
  <2>5. (r + (i - 1)) % Size \in 0 .. Size - 1
    BY <2>1, SlotOf
  <2> QED BY <2>2, <2>4, <2>5
<1>3. \A i \in 1 .. w - r : i \in Nat \ {0}
  BY <1>1
<1>4. Contents = [i \in 1 .. w - r |-> data[(r + (i - 1)) % Size]]
  BY <1>1, <1>2, <1>3 DEF Contents
<1>5. data \in [0 .. Size - 1 -> Frames]
  BY DEF TypeOK
<1> QED BY <1>2, <1>4, <1>5 DEF ContentsFromTo

LEMMA ContentsAreThen == ContentsUnrolled'
BY ContentsAre, PTL

LEMMA StoreWriteStep ==
  ASSUME RingInv, StoreWrite
  PROVE  RingInv' /\ Queue!Put(pframe)
<1>1. PICK p \in Nat, r \in Nat, c \in Nat, w \in Nat : Unrolled(p, r, c, w)
  BY DEF RingInv
<1>2. /\ ppc = "store" /\ write' = (write + 1) % Modulus /\ ppc' = "idle"
      /\ UNCHANGED <<data, pframe, pseen, pword, read, cpc, cframe, cseen, cword, taken>>
  BY DEF StoreWrite, consumer
<1>3. write' = (w + 1) % Modulus /\ w + 1 \in Nat
  BY <1>1, <1>2, IndexPlus DEF Unrolled
<1>4. w < p + Size
  BY <1>1, <1>2 DEF Unrolled
<1>5. Unrolled(p, r, c, w + 1)'
  <2>1. c <= w + 1 /\ w + 1 <= p + Size
    BY <1>1, <1>4, Sizes DEF Unrolled
  <2> QED BY <1>1, <1>2, <1>3, <2>1 DEF Unrolled
<1>6. TypeOK'
  <2>1. write' \in Index
    BY <1>3, IndexOf
  <2> QED BY <1>2, <2>1 DEF RingInv, TypeOK
<1>7. Copied'
  BY <1>2 DEF RingInv, Copied, Slot
<1>8. RingInv'
  BY <1>3, <1>5, <1>6, <1>7 DEF RingInv
<1>9. data[Slot(write)] = pframe /\ pframe \in Frames
  <2>1. \A k \in Words : data[Slot(write)][k] = pframe[k]
    <3>1. \A k \in Words : k < Channels + 1
      BY RingAssumption DEF Words
    <3> QED BY <1>2, <3>1 DEF RingInv, Copied
  <2>2. data[Slot(write)] \in Frames /\ pframe \in Frames
    BY <1>1, Seen DEF RingInv, TypeOK
  <2> QED BY <2>1, <2>2 DEF Frames
<1>10. PICK n \in Nat : w = r + n /\ n < Size
  <2>1. w - r \in Nat /\ w = r + (w - r) /\ w - r < Size
    BY <1>1, <1>4, Sizes DEF Unrolled
  <2> QED BY <2>1
<1> DEFINE f == [i \in Nat \ {0} |-> data[(r + (i - 1)) % Size]]
<1>11. /\ Contents = [i \in 1 .. n |-> f[i]]
       /\ \A i \in 1 .. n + 1 : f[i] \in Frames
  <2>1. ContentsFromTo(r, w)
    BY <1>1, ContentsAre DEF RingInv, ContentsUnrolled
  <2>2. w - r = n /\ \A i \in 1 .. n + 1 : i \in Nat \ {0}
    BY <1>10
  <2>3. \A i \in 1 .. n + 1 : f[i] = data[(r + (i - 1)) % Size]
    BY <2>2
  <2>4. \A i \in 1 .. n + 1 : f[i] \in Frames
    BY <2>1, <2>2, <2>3 DEF ContentsFromTo
  <2>5. \A i \in 1 .. n : i \in 1 .. n + 1
    OBVIOUS
  <2>6. Contents = [i \in 1 .. n |-> data[(r + (i - 1)) % Size]]
    BY <2>1, <2>2 DEF ContentsFromTo
  <2> HIDE DEF f
  <2> QED BY <2>3, <2>4, <2>5, <2>6
<1>12. Contents' = [i \in 1 .. n + 1 |-> f[i]]
  <2>1. ContentsFromTo(r, w + 1)'
    BY <1>3, <1>5, <1>6, ContentsAreThen DEF ContentsUnrolled
  <2>2. (w + 1) - r = n + 1 /\ \A i \in 1 .. n + 1 : i \in Nat \ {0}
    BY <1>10
  <2> QED BY <1>2, <2>1, <2>2 DEF ContentsFromTo
<1>13. f[n + 1] = pframe
  <2>1. r + ((n + 1) - 1) = w /\ Slot(write) = w % Size
    BY <1>1, <1>10, Seen
  <2> QED BY <1>9, <2>1
<1> HIDE DEF f
<1>14. Contents' = Append(Contents, pframe) /\ Len(Contents) = n
  BY <1>11, <1>12, <1>13, Grown
<1> QED BY <1>2, <1>8, <1>10, <1>14 DEF Queue!Put

LEMMA BeginPopStep ==
  ASSUME RingInv, BeginPop
  PROVE  RingInv'
<1>1. PICK p \in Nat, r \in Nat, c \in Nat, w \in Nat : Unrolled(p, r, c, w)
  BY DEF RingInv
<1>2. PICK i \in Loadable(cseen, write) :
        /\ cseen' = i
        /\ IF Distance(read, i) = 0
           THEN UNCHANGED <<cpc, cword>>
           ELSE cpc' = "copy" /\ cword' = 1
  BY DEF BeginPop
<1>3. /\ cpc = "idle" /\ UNCHANGED <<read, data, cframe, taken, write, ppc, pframe, pseen, pword>>
  BY DEF BeginPop, producer
<1>4. PICK q \in Nat : i = q % Modulus /\ c <= q /\ q <= w
  <2>1. c <= w /\ w <= c + Size
    BY <1>1, Sizes DEF Unrolled
  <2>2. cseen = c % Modulus /\ write = w % Modulus
    BY <1>1 DEF Unrolled
  <2> QED BY <2>1, <2>2, LoadedEarlier
<1>5. p <= r /\ r <= q /\ q <= w /\ q <= r + Size
  BY <1>1, <1>4, Sizes DEF Unrolled
<1>6. Distance(read, i) = q - r
  BY <1>1, <1>4, <1>5, IndexDistance DEF Unrolled
<1>7. cpc' # "idle" => r < q
  BY <1>2, <1>3, <1>5, <1>6
<1>8. Unrolled(p, r, q, w)'
  BY <1>1, <1>2, <1>3, <1>4, <1>5, <1>7 DEF Unrolled
<1>9. i \in Index
  BY <1>4, IndexOf
<1>10. 1 \in Words /\ 1 \in 1 .. Channels + 1
  BY RingAssumption DEF Words
<1>11. TypeOK'
  BY <1>2, <1>3, <1>9, <1>10 DEF RingInv, TypeOK
<1>12. Copied'
  <2>1. CASE cpc' = cpc /\ cword' = cword
    BY <1>3, <2>1 DEF RingInv, Copied, Slot
  <2>2. CASE cpc' = "copy" /\ cword' = 1
    <3>1. \A k \in Words : ~(k < 1)
      BY DEF Words
    <3>2. UNCHANGED <<ppc, pword, pframe, write, data>> /\ Copied
      BY <1>3 DEF RingInv
    <3> QED BY <1>10, <2>2, <3>1, <3>2 DEF Copied, Slot
  <2> QED BY <1>2, <2>1, <2>2
<1> QED BY <1>8, <1>11, <1>12 DEF RingInv

LEMMA CopyOutStep ==
  ASSUME RingInv, CopyOut
  PROVE  RingInv'
<1>1. PICK p \in Nat, r \in Nat, c \in Nat, w \in Nat : Unrolled(p, r, c, w)
  BY DEF RingInv
<1>2. /\ cpc = "copy" /\ cword' = cword + 1
      /\ cframe' = [cframe EXCEPT ![cword] = data[Slot(read)][cword]]
      /\ cpc' = IF cword = Channels THEN "store" ELSE "copy"
      /\ UNCHANGED <<read, data, cseen, taken, write, ppc, pframe, pseen, pword>>
  BY DEF CopyOut, producer
<1>3. Unrolled(p, r, c, w)'
  BY <1>1, <1>2 DEF Unrolled
<1>4. /\ data[Slot(read)] \in [Words -> Samples] /\ cframe \in [Words -> Samples]
      /\ cword \in Words
  BY <1>1, <1>2, Seen DEF RingInv, TypeOK, Copied, Frames
<1>5. cword \in Nat /\ cword <= Channels /\ Channels \in Nat
  BY <1>4, RingAssumption DEF Words
<1>6. TypeOK'
  <2>1. cword' \in 1 .. Channels + 1 /\ cpc' \in {"idle", "copy", "store"}
    BY <1>2, <1>5
  <2>2. cframe' \in Frames
    BY <1>2, <1>4 DEF Frames
  <2> QED BY <1>2, <2>1, <2>2 DEF RingInv, TypeOK
<1>7. /\ cpc' = "copy" => cword' \in Words
      /\ cpc' = "store" => cword' = Channels + 1
  BY <1>2, <1>5 DEF Words
<1>8. \A k \in Words : k < cword' => cframe'[k] = data[Slot(read)][k]
  <2> TAKE k \in Words
  <2> HAVE k < cword'
  <2>1. k \in Nat /\ (k < cword \/ k = cword)
    BY <1>2, <1>5 DEF Words
  <2>2. k < cword => cframe[k] = data[Slot(read)][k]
    BY <1>2 DEF RingInv, Copied
  <2> QED BY <1>2, <1>4, <2>1, <2>2
<1>9. Copied'
  <2>1. Slot(write)' = Slot(write) /\ Slot(read)' = Slot(read)
    BY <1>2 DEF Slot
  <2>2. cpc' # "idle" => \A k \in Words : k < cword' => cframe'[k] = data'[Slot(read)'][k]
    BY <1>2, <1>8, <2>1
  <2>3. /\ ppc' = "copy" => pword' \in Words
        /\ ppc' = "store" => pword' = Channels + 1
        /\ ppc' # "idle" => \A k \in Words : k < pword' => data'[Slot(write)'][k] = pframe'[k]
    BY <1>2, <2>1 DEF RingInv, Copied
  <2> QED BY <1>7, <2>2, <2>3 DEF Copied
<1> QED BY <1>3, <1>6, <1>9 DEF RingInv

LEMMA StoreReadStep ==
  ASSUME RingInv, StoreRead
  PROVE  RingInv' /\ Queue!Take
<1>1. PICK p \in Nat, r \in Nat, c \in Nat, w \in Nat : Unrolled(p, r, c, w)
  BY DEF RingInv
<1>2. /\ cpc = "store" /\ read' = (read + 1) % Modulus /\ taken' = cframe /\ cpc' = "idle"
      /\ UNCHANGED <<data, cframe, cseen, cword, write, ppc, pframe, pseen, pword>>
  BY DEF StoreRead, producer
<1>3. read' = (r + 1) % Modulus /\ r + 1 \in Nat
  BY <1>1, <1>2, IndexPlus DEF Unrolled
<1>4. r < c /\ r < w
  BY <1>1, <1>2 DEF Unrolled
<1>5. Unrolled(p, r + 1, c, w)'
  <2>1. p <= r + 1 /\ r + 1 <= c
    BY <1>1, <1>4 DEF Unrolled
  <2> QED BY <1>1, <1>2, <1>3, <2>1 DEF Unrolled
<1>6. TypeOK'
  <2>1. read' \in Index
    BY <1>3, IndexOf
  <2> QED BY <1>2, <2>1 DEF RingInv, TypeOK
<1>7. Copied'
  BY <1>2 DEF RingInv, Copied, Slot
<1>8. RingInv'
  BY <1>3, <1>5, <1>6, <1>7 DEF RingInv
<1>9. data[Slot(read)] = cframe
  <2>1. \A k \in Words : cframe[k] = data[Slot(read)][k]
    <3>1. \A k \in Words : k < Channels + 1
      BY RingAssumption DEF Words
    <3> QED BY <1>2, <3>1 DEF RingInv, Copied
  <2>2. data[Slot(read)] \in Frames /\ cframe \in Frames
    BY <1>1, Seen DEF RingInv, TypeOK
  <2> QED BY <2>1, <2>2 DEF Frames
<1>10. PICK n \in Nat : w = r + (n + 1)
  <2>1. w - r - 1 \in Nat /\ w = r + ((w - r - 1) + 1)
    BY <1>4
  <2> QED BY <2>1
<1> DEFINE f == [i \in Nat \ {0} |-> data[(r + (i - 1)) % Size]]
<1>11. /\ Contents = [i \in 1 .. n + 1 |-> f[i]]
       /\ \A i \in 1 .. n + 1 : f[i] \in Frames
  <2>1. ContentsFromTo(r, w)
    BY <1>1, ContentsAre DEF RingInv, ContentsUnrolled
  <2>2. w - r = n + 1 /\ \A i \in 1 .. n + 1 : i \in Nat \ {0}
    BY <1>10
  <2>3. \A i \in 1 .. n + 1 : f[i] = data[(r + (i - 1)) % Size]
    BY <2>2
  <2>4. \A i \in 1 .. n + 1 : f[i] \in Frames
    BY <2>1, <2>2, <2>3 DEF ContentsFromTo
  <2>5. Contents = [i \in 1 .. n + 1 |-> data[(r + (i - 1)) % Size]]
    BY <2>1, <2>2 DEF ContentsFromTo
  <2> HIDE DEF f
  <2> QED BY <2>3, <2>4, <2>5
<1>12. Contents' = [i \in 1 .. n |-> f[i + 1]]
  <2>1. ContentsFromTo(r + 1, w)'
    BY <1>3, <1>5, <1>6, ContentsAreThen DEF ContentsUnrolled
  <2>2. w - (r + 1) = n
    BY <1>10
  <2>3. \A i \in 1 .. n : f[i + 1] = data[((r + 1) + (i - 1)) % Size]
    <3> TAKE i \in 1 .. n
    <3>1. i + 1 \in Nat \ {0} /\ r + ((i + 1) - 1) = (r + 1) + (i - 1)
      OBVIOUS
    <3> QED BY <3>1
  <2>4. Contents' = [i \in 1 .. n |-> data[((r + 1) + (i - 1)) % Size]]
    BY <1>2, <2>1, <2>2 DEF ContentsFromTo
  <2> HIDE DEF f
  <2> QED BY <2>3, <2>4
<1>13. f[1] = cframe
  <2>1. r + (1 - 1) = r /\ Slot(read) = r % Size
    BY <1>1, Seen
  <2> QED BY <1>9, <2>1
<1> HIDE DEF f
<1>14. Contents # <<>> /\ Head(Contents) = cframe /\ Contents' = Tail(Contents)
  BY <1>11, <1>12, <1>13, Shrunk
<1> QED BY <1>2, <1>8, <1>14 DEF Queue!Take
-----------------------------------------------------------------------------
LEMMA RingBegun ==
  ASSUME Init
  PROVE  RingInv /\ Queue!Init
<1>1. Silence \in Frames
  BY RingAssumption DEF Silence, Zero, Frames
<1>2. 0 \in Index /\ 0 % Modulus = 0
  <2>1. 0 = Modulus * 0 + 0 /\ Modulus \in Nat \ {0}
    BY Sizes
  <2>2. 0 % Modulus = 0
    BY <2>1, ModUnique
  <2> QED BY <2>1, <2>2 DEF Index
<1>3. TypeOK
  BY <1>1, <1>2, RingAssumption DEF Init, TypeOK
<1>4. Unrolled(0, 0, 0, 0)
  BY <1>2, Sizes DEF Init, Unrolled
<1>5. Copied
  BY DEF Init, Copied
<1>6. ContentsFromTo(0, 0)
  BY <1>3, <1>4, ContentsAre DEF ContentsUnrolled
<1>7. Contents = <<>>
  BY <1>6 DEF ContentsFromTo
<1> QED BY <1>3, <1>4, <1>5, <1>7 DEF RingInv, Init, Queue!Init

LEMMA RingStep ==
  ASSUME RingInv, [Next]_vars
  PROVE  RingInv' /\ [Queue!Next]_Queue!vars
<1>1. ASSUME NEW f \in Frames, BeginPush(f) PROVE RingInv' /\ UNCHANGED <<Contents, taken>>
  BY <1>1, BeginPushStep DEF BeginPush, consumer, Contents, Distance, Slot
<1>2. CASE CopyIn
  BY <1>2, CopyInStep DEF CopyIn, consumer, Queue!vars
<1>3. CASE StoreWrite
  <2>1. pframe \in Frames
    BY DEF RingInv, TypeOK
  <2> QED BY <1>3, <2>1, StoreWriteStep DEF Queue!Next
<1>4. CASE BeginPop
  BY <1>4, BeginPopStep DEF BeginPop, producer, Contents, Distance, Slot, Queue!vars
<1>5. CASE CopyOut
  BY <1>5, CopyOutStep DEF CopyOut, producer, Contents, Distance, Slot, Queue!vars
<1>6. CASE StoreRead
  BY <1>6, StoreReadStep DEF Queue!Next
<1>7. CASE UNCHANGED vars
  BY <1>7 DEF vars, RingInv, TypeOK, Copied, Unrolled, Contents, Distance, Slot, Queue!vars
<1> QED BY <1>1, <1>2, <1>3, <1>4, <1>5, <1>6, <1>7 DEF Next, Queue!vars

LEMMA RingInvariant == Spec => []RingInv
<1>1. Init => RingInv
  BY RingBegun
<1>2. RingInv /\ [Next]_vars => RingInv'
  BY RingStep
<1> QED BY <1>1, <1>2, PTL DEF Spec

(* push and pop (audiobridge.h) never access one slot at the same time, for *)
(* any size of the ring, any number of words and wherever size_t wraps.    *)
THEOREM RingRaceFree == Spec => []NoDataRace
<1>1. RingInv => NoDataRace
  <2> SUFFICES ASSUME RingInv, ppc = "copy", cpc = "copy" PROVE Slot(write) # Slot(read)
    BY DEF NoDataRace
  <2>1. PICK p \in Nat, r \in Nat, c \in Nat, w \in Nat : Unrolled(p, r, c, w)
    BY DEF RingInv
  <2>2. r < w /\ w < r + Size
    BY <2>1, Sizes DEF Unrolled
  <2> QED BY <2>1, <2>2, Seen
<1> QED BY <1>1, RingInvariant, PTL

(* The ring is a bounded queue of whole frames: a frame is in it from the  *)
(* store of m_write, complete, and what pop returns is the oldest.         *)
THEOREM RingIsQueue == Spec => ImplementsQueue
<1>1. Init => Queue!Init
  BY RingBegun
<1>2. RingInv /\ [Next]_vars => [Queue!Next]_Queue!vars
  BY RingStep
<1> QED BY <1>1, <1>2, RingInvariant, PTL DEF Spec, Queue!Spec, ImplementsQueue
-----------------------------------------------------------------------------
(* AudioBridge: no drift is the position of the resampling, which stays    *)
(* within a step of a sample.                                              *)
Lowest == CHOOSE r \in Rates : \A s \in Rates : r <= s

Resampled ==
  /\ rate \in Rates
  /\ drift = outPos /\ outPos \in Nat
  /\ step \in {(One * EmuRate) \div r : r \in Rates}
  /\ outPos <= One + Brg!MaxStep

LEMMA DivisorsOrder ==
  ASSUME NEW a \in Nat, NEW m \in Nat \ {0}, NEW r \in Nat \ {0}, m <= r
  PROVE  a \div r \in Nat /\ a \div r <= a \div m
<1>1. PICK q \in Int, s \in 0 .. r - 1 : a = r * q + s /\ q = a \div r
  BY DivMod
<1>2. PICK p \in Int, t \in 0 .. m - 1 : a = m * p + t /\ p = a \div m
  BY DivMod
<1>3. q \in Nat
  <2>1. SUFFICES ASSUME q < 0 PROVE FALSE
    OBVIOUS
  <2>2. r * q + r <= r * 0
    BY <2>1, Times
  <2>3. r * q \in Int /\ r * 0 = 0
    OBVIOUS
  <2> QED BY <1>1, <2>2, <2>3
<1>4. m * q <= r * q
  <2>1. PICK d \in Nat : r = m + d
    <3>1. r - m \in Nat /\ r = m + (r - m)
      OBVIOUS
    <3> QED BY <3>1
  <2>2. r * q = m * q + d * q /\ d * q \in Nat /\ m * q \in Nat
    BY <1>3, <2>1
  <2> QED BY <2>2
<1>5. q <= p
  <2>1. SUFFICES ASSUME p < q PROVE FALSE
    OBVIOUS
  <2>2. m * p + m <= m * q
    BY <2>1, Times
  <2>3. m * p \in Int /\ m * q \in Int /\ r * q \in Int
    OBVIOUS
  <2> QED BY <1>1, <1>2, <1>4, <2>2, <2>3
<1> QED BY <1>1, <1>2, <1>3, <1>5

LEMMA HasLowest ==
  ASSUME NEW T \in SUBSET Nat, T # {}
  PROVE  \E x \in T : \A y \in T : x <= y
<1> DEFINE R == OpToRel(<, Nat)
<1>1. IsWellFoundedOn(R, Nat)
  BY NatLessThanWellFounded
<1>2. \A x, y \in Nat : x < y => <<x, y>> \in R
  BY DEF OpToRel
<1> HIDE DEF R
<1>3. PICK x \in T : \A y \in T : ~ (<<y, x>> \in R)
  BY <1>1, WFMin
<1>4. \A y \in T : x <= y
  <2> SUFFICES ASSUME NEW y \in T, y < x PROVE FALSE
    OBVIOUS
  <2>1. x \in Nat /\ y \in Nat
    OBVIOUS
  <2>2. <<y, x>> \in R
    BY <1>2, <2>1
  <2> QED BY <1>3, <2>2, Zenon
<1> QED BY <1>4

LEMMA StepsBounded ==
  ASSUME Brg!BridgeAssumption, NEW r \in Rates
  PROVE  /\ (One * EmuRate) \div r \in Nat
         /\ (One * EmuRate) \div r <= Brg!MaxStep
         /\ Brg!MaxStep \in Nat
<1>1. Rates \subseteq Nat \ {0} /\ One * EmuRate \in Nat
  BY DEF Brg!BridgeAssumption
<1>2. PICK m \in Rates : \A s \in Rates : m <= s
  BY <1>1, HasLowest
<1>3. Lowest \in Rates /\ \A s \in Rates : Lowest <= s
  BY <1>2 DEF Lowest
<1>4. Brg!MaxStep = (One * EmuRate) \div Lowest
  BY DEF Brg!MaxStep, Lowest
<1>5. Lowest \in Nat \ {0} /\ r \in Nat \ {0} /\ Lowest <= r /\ Lowest <= Lowest
  BY <1>1, <1>3
<1> QED BY <1>1, <1>4, <1>5, DivisorsOrder

LEMMA ResampledStep ==
  ASSUME Brg!BridgeAssumption, Resampled, [Brg!Next]_Brg!vars
  PROVE  Resampled'
<1>1. CASE Brg!Emit
  <2>1. PICK r \in Rates : step = (One * EmuRate) \div r
    BY DEF Resampled
  <2>2. step \in Nat /\ step <= Brg!MaxStep /\ Brg!MaxStep \in Nat
    BY <2>1, StepsBounded
  <2>3. outPos < One /\ outPos' = outPos + step /\ drift' = drift + step /\ rate' = rate /\ step' = step
    BY <1>1 DEF Brg!Emit
  <2>4. One \in Nat
    BY DEF Brg!BridgeAssumption
  <2>5. outPos + step \in Nat /\ outPos + step <= One + Brg!MaxStep /\ drift + step = outPos + step
    BY <2>2, <2>3, <2>4 DEF Resampled
  <2> QED BY <2>3, <2>5 DEF Resampled
<1>2. CASE Brg!EndPush
  <2>1. outPos >= One /\ outPos' = outPos - One /\ drift' = drift - One /\ rate' = rate /\ step' = step
    BY <1>2 DEF Brg!EndPush
  <2>2. One \in Nat /\ rate \in Rates
    BY DEF Brg!BridgeAssumption, Resampled
  <2>3. Brg!MaxStep \in Nat
    BY <2>2, StepsBounded
  <2>4. outPos - One \in Nat /\ outPos - One <= One + Brg!MaxStep /\ drift - One = outPos - One
    BY <2>1, <2>2, <2>3 DEF Resampled
  <2> QED BY <2>1, <2>4 DEF Resampled
<1>3. CASE Brg!Push
  BY <1>3 DEF Brg!Push, Brg!device, Resampled
<1>4. CASE Brg!PullInput
  BY <1>4 DEF Brg!PullInput, Brg!emulator, Resampled
<1>5. CASE Brg!RenderStep
  BY <1>5 DEF Brg!RenderStep, Brg!Render, Brg!RenderFrame, Brg!EndFrames, Brg!Trim, Brg!emulator, Resampled
<1>6. CASE Brg!Reopen
  BY <1>6 DEF Brg!Reopen, Brg!SetRate, Brg!emulator, Resampled
<1>7. CASE UNCHANGED Brg!vars
  BY <1>7 DEF Brg!vars, Brg!emulator, Resampled
<1> QED BY <1>1, <1>2, <1>3, <1>4, <1>5, <1>6, <1>7 DEF Brg!Next, Brg!EmulatorStep

(* The conversion of AudioBridge::push neither loses nor repeats a sample, *)
(* for any rates and through any changes of the card.                      *)
THEOREM BridgeDoesNotDrift ==
  ASSUME Brg!BridgeAssumption
  PROVE  Brg!Spec => []NoDrift
<1>1. Brg!Init => Resampled
  <2> SUFFICES ASSUME Brg!Init PROVE Resampled
    OBVIOUS
  <2>1. rate \in Rates /\ drift = 0 /\ outPos = 0 /\ step = (One * EmuRate) \div rate
    BY DEF Brg!Init
  <2>2. Brg!MaxStep \in Nat /\ One \in Nat
    BY <2>1, StepsBounded DEF Brg!BridgeAssumption
  <2> QED BY <2>1, <2>2 DEF Resampled
<1>2. Resampled /\ [Brg!Next]_Brg!vars => Resampled'
  BY ResampledStep
<1>3. Resampled => NoDrift
  <2> SUFFICES ASSUME Resampled PROVE NoDrift
    OBVIOUS
  <2>1. Brg!MaxStep \in Nat /\ One \in Nat
    BY StepsBounded DEF Resampled, Brg!BridgeAssumption
  <2> QED BY <2>1 DEF Resampled, NoDrift, Brg!NoDrift
<1> QED BY <1>1, <1>2, <1>3, PTL DEF Brg!Spec

(* A block that was begun with the promise of no gap has its frames.       *)
BlockHeld ==
  /\ rate \in Rates /\ out \in Nat /\ left \in Nat /\ prefill \in Nat
  /\ FirstBlockPlays

LEMMA BlockHeldStep ==
  ASSUME Brg!BridgeAssumption, BlockHeld, [Brg!Next]_Brg!vars
  PROVE  BlockHeld'
<1> USE DEF BlockHeld, FirstBlockPlays, Brg!FirstBlockPlays
<1>1. Capacity \in Nat /\ Cushion \in Nat /\ Rates \subseteq Nat /\ CardBlocks \subseteq Nat
  BY DEF Brg!BridgeAssumption
<1>2. ASSUME NEW r \in Rates, Brg!SetRate(r) PROVE BlockHeld'
  <2>1. /\ rate' = r /\ prefill' = r * Cushion /\ rpc' = "idle"
        /\ out' = out /\ left' = left
    BY <1>2 DEF Brg!SetRate
  <2>2. r * Cushion \in Nat
    BY <1>1
  <2> QED BY <2>1, <2>2
<1>3. CASE Brg!Emit
  BY <1>1, <1>3 DEF Brg!Emit, Brg!device
<1>4. CASE Brg!Push \/ Brg!EndPush \/ Brg!PullInput
  BY <1>4 DEF Brg!Push, Brg!EndPush, Brg!PullInput, Brg!device
<1>5. ASSUME NEW b \in CardBlocks, Brg!Render(b) PROVE BlockHeld'
  <2>1. /\ left' = b /\ out' = out /\ prefill' = prefill /\ rate' = rate
        /\ promised' = (silent /\ out >= prefill + b)
        /\ silent' = (silent /\ out < prefill + b)
    BY <1>5 DEF Brg!Render
  <2>2. b \in Nat /\ (out >= prefill + b => out >= b /\ ~(out < prefill + b))
    BY <1>1
  <2> QED BY <2>1, <2>2
<1>6. CASE Brg!RenderFrame
  <2>1. /\ rpc = "frame" /\ left > 0 /\ left' = left - 1
        /\ out' = IF ~silent /\ out > 0 THEN out - 1 ELSE out
        /\ silent' = (silent \/ out = 0)
        /\ UNCHANGED <<rate, prefill, rpc, promised>>
    BY <1>6 DEF Brg!RenderFrame
  <2>2. left - 1 \in Nat /\ (out > 0 => out - 1 \in Nat)
    BY <2>1
  <2>3. promised => ~silent /\ out > 0 /\ ~(out = 0) /\ out - 1 >= left - 1
    BY <2>1
  <2>4. promised' => ~silent' /\ out' = out - 1
    BY <2>1, <2>3, Zenon
  <2>5. promised' => out' >= left'
    <3>1. promised' => promised
      BY <2>1
    <3> QED BY <2>1, <2>3, <2>4, <3>1
  <2>6. out' \in Nat /\ left' \in Nat
    BY <2>1, <2>2
  <2> HIDE DEF BlockHeld
  <2>7. rate \in Rates /\ prefill \in Nat
    BY DEF BlockHeld
  <2> QED BY <2>1, <2>4, <2>5, <2>6, <2>7 DEF BlockHeld
<1>7. CASE Brg!EndFrames
  BY <1>7 DEF Brg!EndFrames
<1>8. CASE Brg!Trim
  <2>1. /\ rpc = "trim" /\ rpc' \in {"trim", "idle"}
        /\ out' = out \/ (out > prefill * 4 /\ out' = out - 1)
        /\ UNCHANGED <<rate, prefill, left>>
    BY <1>8 DEF Brg!Trim
  <2>2. out > prefill * 4 => out - 1 \in Nat
    OBVIOUS
  <2> QED BY <2>1, <2>2
<1>9. CASE UNCHANGED Brg!vars
  BY <1>9 DEF Brg!vars, Brg!device
<1> QED
  BY <1>2, <1>3, <1>4, <1>5, <1>6, <1>7, <1>8, <1>9
  DEF Brg!Next, Brg!EmulatorStep, Brg!RenderStep, Brg!Reopen

(* What AudioBridge::render found in the ring cannot be taken from it by   *)
(* the emulator thread: the first block after a gap plays whole.           *)
THEOREM FirstBlockHasNoGap ==
  ASSUME Brg!BridgeAssumption
  PROVE  Brg!Spec => []FirstBlockPlays
<1>1. Brg!Init => BlockHeld
  <2> SUFFICES ASSUME Brg!Init PROVE BlockHeld
    OBVIOUS
  <2>1. rate \in Nat /\ Cushion \in Nat
    BY DEF Brg!Init, Brg!BridgeAssumption
  <2>2. rate * Cushion \in Nat
    BY <2>1
  <2> QED BY <2>2 DEF Brg!Init, BlockHeld, FirstBlockPlays, Brg!FirstBlockPlays
<1>2. BlockHeld /\ [Brg!Next]_Brg!vars => BlockHeld'
  BY BlockHeldStep
<1>3. BlockHeld => FirstBlockPlays
  BY DEF BlockHeld
<1> QED BY <1>1, <1>2, <1>3, PTL DEF Brg!Spec
=============================================================================
