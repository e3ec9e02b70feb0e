----------------------------- MODULE LinkProofs -----------------------------
(***************************************************************************)
(* Proofs about the chain of DSPs: the link between two of them and the    *)
(* way out of the last one, for any lengths of the blocks, the latency,    *)
(* the syncs and the waits.                                                *)
(***************************************************************************)
EXTENDS MCDspLink, SequenceTheorems, WellFoundedInduction, TLAPS

-----------------------------------------------------------------------------
(* Periods *)

LEMMA Times ==
  ASSUME NEW m \in Nat \ {0}, NEW q \in Int, NEW p \in Int, q < p
  PROVE  m * q + m <= m * p
<1>1. PICK d \in Nat : p = q + 1 + d
  <2>1. (p - q) - 1 \in Nat /\ p = q + 1 + ((p - q) - 1)
    OBVIOUS
  <2> QED BY <2>1
<1>2. m * p = m * q + m + m * d /\ m * d \in Nat /\ m * q \in Int
  BY <1>1
<1> QED BY <1>2

(* A time lies in its period. *)
LEMMA InPeriod ==
  ASSUME NEW m \in Nat \ {0}, NEW t \in Nat
  PROVE  /\ t \div m \in Nat /\ m * (t \div m) \in Nat
         /\ m * (t \div m) <= t /\ t < m * (t \div m) + m
<1>1. /\ t % m \in 0 .. m - 1 /\ t \div m \in Int
      /\ t = m * (t \div m) + (t % m)
  OBVIOUS
<1>2. PICK q \in Int, r \in 0 .. m - 1 : q = t \div m /\ t = m * q + r
  BY <1>1
<1>3. m * q \in Int
  OBVIOUS
<1>4. q >= 0
  <2>1. CASE q < 0
    <3>1. m * q + m <= m * 0
      BY <2>1, Times
    <3> QED BY <1>2, <1>3, <3>1
  <2> QED BY <2>1
<1>5. m * q \in Nat
  BY <1>4
<1> QED BY <1>2, <1>4, <1>5

(* There is no other. *)
LEMMA PeriodIs ==
  ASSUME NEW m \in Nat \ {0}, NEW t \in Nat, NEW k \in Int,
         m * k <= t, t < m * k + m
  PROVE  t \div m = k
<1>1. PICK q \in Nat : q = t \div m /\ m * q <= t /\ t < m * q + m
  BY InPeriod
<1>2. m * q \in Int /\ m * k \in Int
  OBVIOUS
<1>3. ~(q < k)
  <2> SUFFICES ASSUME q < k PROVE FALSE
    OBVIOUS
  <2>1. m * q + m <= m * k
    BY Times
  <2> QED BY <1>1, <1>2, <2>1
<1>4. ~(k < q)
  <2> SUFFICES ASSUME k < q PROVE FALSE
    OBVIOUS
  <2>1. m * k + m <= m * q
    BY Times
  <2> QED BY <1>1, <1>2, <2>1
<1> QED BY <1>1, <1>3, <1>4

LEMMA LaterPeriod ==
  ASSUME NEW m \in Nat \ {0}, NEW t \in Nat, NEW u \in Nat, t <= u
  PROVE  t \div m <= u \div m
<1>1. PICK q \in Nat : q = t \div m /\ m * q <= t
  BY InPeriod
<1>2. PICK p \in Nat : p = u \div m /\ u < m * p + m
  BY InPeriod
<1>3. m * q \in Int /\ m * p \in Int
  OBVIOUS
<1>4. ~(p < q)
  <2> SUFFICES ASSUME p < q PROVE FALSE
    OBVIOUS
  <2>1. m * p + m <= m * q
    BY Times
  <2> QED BY <1>1, <1>2, <1>3, <2>1
<1> QED BY <1>1, <1>2, <1>4

-----------------------------------------------------------------------------
(* Numbered blocks *)

(* In order, each at least k more than the ones before it.                 *)
Ascending(s, k) == \A i, j \in 1 .. Len(s) : i < j => s[i] + k <= s[j]
Below(s, n) == \A i \in 1 .. Len(s) : s[i] < n
Holds(s, b) == \E i \in 1 .. Len(s) : s[i] = b
Before(s, t, k) == \A i \in 1 .. Len(s), j \in 1 .. Len(t) : s[i] + k <= t[j]

LEMMA NumbersOf ==
  ASSUME NEW s \in Seq(Nat)
  PROVE  /\ Len(s) \in Nat /\ DOMAIN s = 1 .. Len(s)
         /\ \A i \in 1 .. Len(s) : s[i] \in Nat
BY LenProperties, ElementOfSeq

LEMMA First ==
  ASSUME NEW s \in Seq(Nat), 1 \in 1 .. Len(s)
  PROVE  s # <<>> /\ Head(s) = s[1]
OBVIOUS

LEMMA Added ==
  ASSUME NEW s \in Seq(Nat), NEW n \in Nat, NEW k \in {0, 1},
         Ascending(s, k), Below(s, (n + 1) - k)
  PROVE  /\ Append(s, n) \in Seq(Nat)
         /\ Ascending(Append(s, n), k) /\ Below(Append(s, n), n + 1)
         /\ \A b : Holds(Append(s, n), b) <=> Holds(s, b) \/ b = n
<1> DEFINE a == Append(s, n)
<1>1. /\ a \in Seq(Nat) /\ Len(a) = Len(s) + 1 /\ a[Len(s) + 1] = n
      /\ \A i \in 1 .. Len(s) : a[i] = s[i]
  BY AppendProperties
<1>2. Len(s) \in Nat /\ \A i \in 1 .. Len(s) : s[i] \in Nat
  BY NumbersOf
<1> HIDE DEF a
<1>3. \A i \in 1 .. Len(a) : i \in 1 .. Len(s) \/ i = Len(s) + 1
  BY <1>1, <1>2
<1>4. Ascending(a, k)
  <2> SUFFICES ASSUME NEW i \in 1 .. Len(a), NEW j \in 1 .. Len(a), i < j
               PROVE  a[i] + k <= a[j]
    BY DEF Ascending
  <2>1. i \in 1 .. Len(s)
    BY <1>1, <1>2
  <2>2. CASE j \in 1 .. Len(s)
    BY <1>1, <2>1, <2>2 DEF Ascending
  <2>3. CASE j = Len(s) + 1
    BY <1>1, <1>2, <2>1, <2>3 DEF Below
  <2> QED BY <1>3, <2>2, <2>3
<1>5. Below(a, n + 1)
  <2> SUFFICES ASSUME NEW i \in 1 .. Len(a) PROVE a[i] < n + 1
    BY DEF Below
  <2>1. CASE i \in 1 .. Len(s)
    BY <1>1, <1>2, <2>1 DEF Below
  <2>2. CASE i = Len(s) + 1
    BY <1>1, <2>2
  <2> QED BY <1>3, <2>1, <2>2
<1>6. ASSUME NEW b PROVE Holds(a, b) <=> Holds(s, b) \/ b = n
  <2>1. ASSUME Holds(a, b) PROVE Holds(s, b) \/ b = n
    <3>1. PICK i \in 1 .. Len(a) : a[i] = b
      BY <2>1 DEF Holds
    <3> QED BY <1>1, <1>3, <3>1 DEF Holds
  <2>2. ASSUME Holds(s, b) PROVE Holds(a, b)
    <3>1. PICK i \in 1 .. Len(s) : s[i] = b
      BY <2>2 DEF Holds
    <3>2. i \in 1 .. Len(a) /\ a[i] = b
      BY <1>1, <1>2, <3>1
    <3> QED BY <3>2 DEF Holds
  <2>3. ASSUME b = n PROVE Holds(a, b)
    <3>1. Len(s) + 1 \in 1 .. Len(a)
      BY <1>1, <1>2
    <3> QED BY <1>1, <2>3, <3>1 DEF Holds
  <2> QED BY <2>1, <2>2, <2>3
<1> QED BY <1>1, <1>4, <1>5, <1>6 DEF a

LEMMA Joined ==
  ASSUME NEW s \in Seq(Nat), NEW t \in Seq(Nat), NEW k \in {0, 1}
  PROVE  /\ s \o t \in Seq(Nat) /\ Len(s \o t) = Len(s) + Len(t)
         /\ Ascending(s, k) /\ Ascending(t, k) /\ Before(s, t, k) => Ascending(s \o t, k)
         /\ \A n \in Nat : Below(s, n) /\ Below(t, n) => Below(s \o t, n)
         /\ \A b : Holds(s \o t, b) <=> Holds(s, b) \/ Holds(t, b)
<1> DEFINE a == s \o t
<1>1. /\ a \in Seq(Nat) /\ Len(a) = Len(s) + Len(t)
      /\ \A i \in 1 .. Len(s) + Len(t) :
           a[i] = IF i <= Len(s) THEN s[i] ELSE t[i - Len(s)]
  BY ConcatProperties
<1>2. Len(s) \in Nat /\ \A i \in 1 .. Len(s) : s[i] \in Nat
  BY NumbersOf
<1>3. Len(t) \in Nat /\ \A i \in 1 .. Len(t) : t[i] \in Nat
  BY NumbersOf
<1> HIDE DEF a
<1>4. ASSUME NEW i \in 1 .. Len(a)
      PROVE  \/ i \in 1 .. Len(s) /\ a[i] = s[i]
             \/ i - Len(s) \in 1 .. Len(t) /\ ~(i <= Len(s)) /\ a[i] = t[i - Len(s)]
  <2>1. CASE i <= Len(s)
    BY <1>1, <1>2, <1>3, <2>1
  <2>2. CASE ~(i <= Len(s))
    BY <1>1, <1>2, <1>3, <2>2
  <2> QED BY <2>1, <2>2
<1>5. ASSUME NEW i \in 1 .. Len(s) PROVE i \in 1 .. Len(a) /\ a[i] = s[i]
  BY <1>1, <1>2, <1>3
<1>6. ASSUME NEW i \in 1 .. Len(t) PROVE Len(s) + i \in 1 .. Len(a) /\ a[Len(s) + i] = t[i]
  <2>1. Len(s) + i \in 1 .. Len(s) + Len(t) /\ ~(Len(s) + i <= Len(s)) /\ (Len(s) + i) - Len(s) = i
    BY <1>2, <1>3
  <2> QED BY <1>1, <2>1
<1>7. ASSUME Ascending(s, k), Ascending(t, k), Before(s, t, k) PROVE Ascending(a, k)
  <2> SUFFICES ASSUME NEW i \in 1 .. Len(a), NEW j \in 1 .. Len(a), i < j
               PROVE  a[i] + k <= a[j]
    BY DEF Ascending
  <2>1. CASE j <= Len(s)
    <3>1. i \in 1 .. Len(s) /\ j \in 1 .. Len(s)
      BY <1>1, <1>2, <1>3, <2>1
    <3> QED BY <1>5, <1>7, <3>1 DEF Ascending
  <2>2. CASE i <= Len(s) /\ ~(j <= Len(s))
    <3>1. i \in 1 .. Len(s) /\ a[i] = s[i]
      BY <1>5, <2>2
    <3>2. j - Len(s) \in 1 .. Len(t) /\ a[j] = t[j - Len(s)]
      BY <1>4, <2>2
    <3>3. s[i] + k <= t[j - Len(s)]
      BY <1>7, <3>1, <3>2 DEF Before
    <3> QED BY <3>1, <3>2, <3>3
  <2>3. CASE ~(i <= Len(s)) /\ ~(j <= Len(s))
    <3>1. /\ i - Len(s) \in 1 .. Len(t) /\ a[i] = t[i - Len(s)]
          /\ j - Len(s) \in 1 .. Len(t) /\ a[j] = t[j - Len(s)]
      BY <1>4, <2>3
    <3>2. i - Len(s) < j - Len(s)
      BY <1>2
    <3> QED BY <1>7, <3>1, <3>2 DEF Ascending
  <2>4. i <= Len(s) \/ ~(j <= Len(s))
    BY <1>1, <1>2, <1>3
  <2> QED BY <2>1, <2>2, <2>3, <2>4
<1>8. ASSUME NEW n \in Nat, Below(s, n), Below(t, n) PROVE Below(a, n)
  BY <1>4, <1>8 DEF Below
<1>9. ASSUME NEW b PROVE Holds(a, b) <=> Holds(s, b) \/ Holds(t, b)
  <2>1. ASSUME Holds(a, b) PROVE Holds(s, b) \/ Holds(t, b)
    <3>1. PICK i \in 1 .. Len(a) : a[i] = b
      BY <2>1 DEF Holds
    <3> QED BY <1>4, <3>1 DEF Holds
  <2>2. ASSUME Holds(s, b) PROVE Holds(a, b)
    BY <1>5, <2>2 DEF Holds
  <2>3. ASSUME Holds(t, b) PROVE Holds(a, b)
    BY <1>6, <2>3 DEF Holds
  <2> QED BY <2>1, <2>2, <2>3
<1> QED BY <1>1, <1>7, <1>8, <1>9 DEF a

(* The end of a sequence, from an element on. *)
LEMMA Suffix ==
  ASSUME NEW s \in Seq(Nat), NEW m \in 1 .. Len(s) + 1, NEW k \in {0, 1}
  PROVE  LET u == SubSeq(s, m, Len(s))
         IN  /\ u \in Seq(Nat) /\ Len(u) = (Len(s) - m) + 1
             /\ \A i \in 1 .. Len(u) :
                  u[i] = s[(m + i) - 1] /\ (m + i) - 1 \in 1 .. Len(s)
             /\ Ascending(s, k) => Ascending(u, k)
             /\ \A n : Below(s, n) => Below(u, n)
             /\ \A b : Holds(u, b) => Holds(s, b)
             /\ \A b : Holds(s, b) => Holds(u, b) \/ \E i \in 1 .. m - 1 : s[i] = b
<1> DEFINE u == SubSeq(s, m, Len(s))
<1>1. Len(s) \in Nat /\ m \in Int /\ \A i \in 1 .. Len(s) : s[i] \in Nat
  BY NumbersOf
<1>2. \A i \in m .. Len(s) : s[i] \in Nat
  BY <1>1
<1>3. /\ u \in Seq(Nat)
      /\ Len(u) = IF m <= Len(s) THEN Len(s) - m + 1 ELSE 0
      /\ \A i \in 1 .. Len(s) - m + 1 : u[i] = s[m + i - 1]
  BY <1>1, <1>2, SubSeqProperties
<1> HIDE DEF u
<1>4. Len(u) = (Len(s) - m) + 1
  BY <1>1, <1>3
<1>5. ASSUME NEW i \in 1 .. Len(u)
      PROVE  u[i] = s[(m + i) - 1] /\ (m + i) - 1 \in 1 .. Len(s)
  BY <1>1, <1>3, <1>4
<1>6. ASSUME Ascending(s, k) PROVE Ascending(u, k)
  <2> SUFFICES ASSUME NEW i \in 1 .. Len(u), NEW j \in 1 .. Len(u), i < j
               PROVE  u[i] + k <= u[j]
    BY DEF Ascending
  <2>1. (m + i) - 1 < (m + j) - 1
    BY <1>1
  <2> QED BY <1>5, <1>6, <2>1 DEF Ascending
<1>7. ASSUME NEW n, Below(s, n) PROVE Below(u, n)
  BY <1>5, <1>7 DEF Below
<1>8. ASSUME NEW b, Holds(u, b) PROVE Holds(s, b)
  BY <1>5, <1>8 DEF Holds
<1>9. ASSUME NEW b, Holds(s, b) PROVE Holds(u, b) \/ \E i \in 1 .. m - 1 : s[i] = b
  <2>1. PICK i \in 1 .. Len(s) : s[i] = b
    BY <1>9 DEF Holds
  <2>2. CASE i < m
    <3>1. i \in 1 .. m - 1
      BY <1>1, <2>2
    <3> QED BY <2>1, <3>1
  <2>3. CASE ~(i < m)
    <3>1. (i - m) + 1 \in 1 .. Len(u) /\ (m + ((i - m) + 1)) - 1 = i
      BY <1>1, <1>4, <2>3
    <3>2. u[(i - m) + 1] = b
      BY <1>5, <2>1, <3>1
    <3> QED BY <3>1, <3>2 DEF Holds
  <2> QED BY <2>2, <2>3
<1> QED BY <1>3, <1>4, <1>5, <1>6, <1>7, <1>8, <1>9 DEF u

LEMMA HasHighest ==
  ASSUME NEW n \in Nat, NEW T \in SUBSET (1 .. n), T # {}
  PROVE  \E x \in T : \A y \in T : y <= x
<1> DEFINE R == OpToRel(<, Nat)
           D == {n - y : y \in T}
<1>1. IsWellFoundedOn(R, Nat)
  BY NatLessThanWellFounded
<1>2. \A x, y \in Nat : x < y => <<x, y>> \in R
  BY DEF OpToRel
<1> HIDE DEF R
<1>3. D \in SUBSET Nat /\ D # {}
  <2>1. \A y \in 1 .. n : n - y \in Nat
    OBVIOUS
  <2>2. \A y \in T : n - y \in Nat
    BY <2>1
  <2>3. \A x \in D : x \in Nat
    BY <2>2
  <2>4. PICK y \in T : TRUE
    OBVIOUS
  <2>5. n - y \in D
    BY <2>4
  <2> QED BY <2>3, <2>5
<1>4. PICK d \in D : \A y \in D : ~ (<<y, d>> \in R)
  BY <1>1, <1>3, WFMin
<1>5. PICK x \in T : d = n - x
  OBVIOUS
<1>6. ASSUME NEW y \in T PROVE y <= x
  <2> SUFFICES ASSUME x < y PROVE FALSE
    OBVIOUS
  <2>1. n - y \in D /\ n - y \in Nat /\ d \in Nat /\ n - y < d
    BY <1>5
  <2> QED BY <1>2, <1>4, <2>1, Zenon
<1> QED BY <1>6

(* readLink drops the blocks before the one it wants, and keeps that one   *)
(* and all that follow it.                                                 *)
LEMMA DrainedKeeps ==
  ASSUME NEW q \in Seq(Nat), NEW block \in Nat, NEW k \in {0, 1}, Ascending(q, k)
  PROVE  LET d == Drained(q, block)
         IN  /\ d \in Seq(Nat) /\ Ascending(d, k)
             /\ \A n : Below(q, n) => Below(d, n)
             /\ \A b : Holds(d, b) => Holds(q, b)
             /\ \A b \in Nat : b >= block /\ Holds(q, b) => Holds(d, b)
             /\ Holds(q, block) => d # <<>> /\ Head(d) = block
<1> DEFINE d == Drained(q, block)
           old == {i \in 2 .. Len(q) : q[i] <= block}
<1>1. Len(q) \in Nat /\ \A i \in 1 .. Len(q) : q[i] \in Nat
  BY NumbersOf
<1>2. CASE old = {}
  <2>1. d = q
    BY <1>2 DEF Drained
  <2> HIDE DEF d
  <2>2. ASSUME Holds(q, block) PROVE q # <<>> /\ Head(q) = block
    <3>1. PICK i \in 1 .. Len(q) : q[i] = block
      BY <2>2 DEF Holds
    <3>2. i = 1
      BY <1>1, <1>2, <3>1
    <3> QED BY <1>1, <3>1, <3>2, First
  <2> QED BY <2>1, <2>2 DEF d
<1>3. CASE old # {}
  <2>1. old \in SUBSET (1 .. Len(q))
    BY <1>1
  <2> DEFINE m == CHOOSE i \in old : \A j \in old : j <= i
  <2>2. m \in old /\ \A j \in old : j <= m
    BY <1>1, <1>3, <2>1, HasHighest
  <2>3. d = SubSeq(q, m, Len(q))
    BY <1>3 DEF Drained
  <2> HIDE DEF d, m
  <2>4. m \in 2 .. Len(q) /\ q[m] <= block
    BY <2>2
  <2>5. m \in 1 .. Len(q) + 1 /\ m \in 1 .. Len(q)
    BY <1>1, <2>4
  <2>6. /\ d \in Seq(Nat) /\ Len(d) = (Len(q) - m) + 1
        /\ \A i \in 1 .. Len(d) :
             d[i] = q[(m + i) - 1] /\ (m + i) - 1 \in 1 .. Len(q)
        /\ Ascending(q, k) => Ascending(d, k)
        /\ \A n : Below(q, n) => Below(d, n)
        /\ \A b : Holds(d, b) => Holds(q, b)
        /\ \A b : Holds(q, b) => Holds(d, b) \/ \E i \in 1 .. m - 1 : q[i] = b
    BY <2>3, <2>5, Suffix
  <2>7. 1 \in 1 .. Len(d) /\ (m + 1) - 1 = m
    BY <1>1, <2>4, <2>6
  <2>8. d[1] = q[m] /\ d # <<>> /\ Head(d) = d[1] /\ Holds(d, q[m])
    BY <2>6, <2>7, First DEF Holds
  <2>9. ASSUME NEW i \in 1 .. Len(q), i <= m PROVE q[i] <= q[m] /\ q[i] \in Nat /\ q[m] \in Nat
    BY <1>1, <2>5, <2>9 DEF Ascending
  <2>10. ASSUME NEW b \in Nat, b >= block, Holds(q, b) PROVE Holds(d, b)
    <3> SUFFICES ASSUME NEW i \in 1 .. m - 1, q[i] = b PROVE Holds(d, b)
      BY <2>6, <2>10
    <3>1. i \in 1 .. Len(q) /\ i <= m
      BY <1>1, <2>4
    <3>2. q[m] = b
      BY <2>4, <2>9, <2>10, <3>1
    <3> QED BY <2>8, <3>2
  <2>11. ASSUME Holds(q, block) PROVE Head(d) = block
    <3>1. PICK i \in 1 .. Len(q) : q[i] = block
      BY <2>11 DEF Holds
    <3>2. i <= m
      <4> SUFFICES ASSUME ~(i <= m) PROVE FALSE
        OBVIOUS
      <4>1. i \in 2 .. Len(q)
        BY <1>1, <2>4
      <4>2. i \in old
        BY <3>1, <4>1
      <4> QED BY <1>1, <2>2, <2>4, <4>2
    <3>3. q[m] = block
      BY <2>4, <2>9, <3>1, <3>2
    <3> QED BY <2>8, <3>3
  <2> QED BY <2>6, <2>8, <2>10, <2>11 DEF d
<1> QED BY <1>2, <1>3
-----------------------------------------------------------------------------
(* The link.  Upstream is in block Turn, and the next beat of the grid is  *)
(* Beat.  The blocks that upstream will not tap any more have been tapped, *)
(* or are missing.  Downstream wants no block before Oldest any more; the  *)
(* others are still on the link, and those that had ended TapDelay before  *)
(* the last hand-over are downstream.                                      *)
Turn == BlockOf(now["up"])
Beat == BlockOf(nextIrqd)
Oldest == Wanted(now["down"])

(* By how much the numbers of the blocks grow at least, and what they are  *)
(* below.                                                                  *)
Rise == IF StepTime > BlockTime THEN 0 ELSE 1
Bound == IF StepTime > BlockTime THEN Turn ELSE Beat - 1

(* The first block that upstream may still tap. *)
Open == IF Beat = Turn + 1 THEN Turn ELSE Turn - 1

Numbers ==
  /\ now \in [Dsps -> Nat] /\ nextIrqd \in Nat /\ handed \in Nat
  /\ linkIn \in Seq(Nat) /\ linkOut \in Seq(Nat)

Gridded ==
  /\ nextIrqd = BlockTime * Beat
  /\ Beat <= Turn + 1
  /\ StepTime <= BlockTime => now["up"] < nextIrqd + StepTime
  /\ handed <= now["up"]

Ordered ==
  /\ Ascending(linkIn, Rise) /\ Ascending(linkOut, Rise)
  /\ Before(linkIn, linkOut, Rise)
  /\ Below(linkIn, Bound) /\ Below(linkOut, Bound)

OnLink(b) == Holds(linkIn, b) \/ Holds(linkOut, b) \/ b \in missing
Downstream(b) == Holds(linkIn, b) \/ b \in missing

Tapped == \A b \in Nat : b >= Oldest /\ b < Open => OnLink(b)

Arrived ==
  \A b \in Nat :
    b >= Oldest /\ BlockTime * (b + 1) + TapDelay <= handed => Downstream(b)

LinkInv ==
  /\ Numbers /\ Gridded /\ Ordered /\ Tapped /\ Arrived /\ ArrivedWithinMargin

LEMMA LinkTimes ==
  /\ BlockTime \in Nat \ {0} /\ Latency \in Nat
  /\ StepTime \in Nat \ {0} /\ Steps \subseteq 1 .. StepTime
  /\ TapDelay \in Nat /\ TapDelay <= BlockTime /\ TapDelay <= StepTime
  /\ (TapDelay = BlockTime \/ (TapDelay = StepTime /\ StepTime <= BlockTime))
  /\ Rise \in {0, 1}
<1>1. /\ BlockTime \in Nat \ {0} /\ Latency \in Nat
      /\ StepTime \in Nat \ {0} /\ Steps \subseteq 1 .. StepTime
  BY LinkAssumption
<1>2. /\ TapDelay \in Nat /\ TapDelay <= BlockTime /\ TapDelay <= StepTime
      /\ (TapDelay = BlockTime \/ (TapDelay = StepTime /\ StepTime <= BlockTime))
  <2>1. CASE StepTime < BlockTime
    <3>1. TapDelay = StepTime
      BY <2>1 DEF TapDelay
    <3> QED BY <1>1, <2>1, <3>1
  <2>2. CASE ~(StepTime < BlockTime)
    <3>1. TapDelay = BlockTime
      BY <2>2 DEF TapDelay
    <3>2. BlockTime \in Nat /\ BlockTime <= StepTime /\ BlockTime <= BlockTime
      BY <1>1, <2>2
    <3> QED BY <3>1, <3>2
  <2> QED BY <2>1, <2>2
<1>3. Rise \in {0, 1}
  BY DEF Rise
<1> QED BY <1>1, <1>2, <1>3

LEMMA Blocks ==
  ASSUME NEW t \in Nat
  PROVE  /\ BlockOf(t) \in Nat /\ BlockTime * BlockOf(t) \in Nat
         /\ BlockTime * BlockOf(t) <= t /\ t < BlockTime * BlockOf(t) + BlockTime
         /\ Wanted(t) \in Nat
<1>1. BlockTime \in Nat \ {0} /\ Latency \in Nat
  BY LinkTimes
<1>2. /\ BlockOf(t) \in Nat /\ BlockTime * BlockOf(t) \in Nat
      /\ BlockTime * BlockOf(t) <= t /\ t < BlockTime * BlockOf(t) + BlockTime
  BY <1>1, InPeriod DEF BlockOf
<1>3. Wanted(t) \in Nat
  BY <1>1, <1>2 DEF Wanted
<1> QED BY <1>2, <1>3

LEMMA LaterBlock ==
  ASSUME NEW t \in Nat, NEW u \in Nat, t <= u
  PROVE  BlockOf(t) <= BlockOf(u)
BY LinkTimes, LaterPeriod DEF BlockOf

LEMMA LaterWants ==
  ASSUME NEW t \in Nat, NEW u \in Nat, t <= u
  PROVE  Wanted(t) <= Wanted(u)
<1>1. BlockTime \in Nat \ {0} /\ Latency \in Nat
  BY LinkTimes
<1>2. BlockOf(t) <= BlockOf(u) /\ BlockOf(t) \in Nat /\ BlockOf(u) \in Nat
  BY LaterBlock, Blocks
<1> QED BY <1>1, <1>2 DEF Wanted

(* A beat's block, and the blocks that end before a time.                  *)
LEMMA BeatIs ==
  ASSUME NEW k \in Nat
  PROVE  BlockTime * k \in Nat /\ BlockOf(BlockTime * k) = k
<1>1. BlockTime \in Nat \ {0}
  BY LinkTimes
<1>2. BlockTime * k \in Nat /\ k \in Int
  BY <1>1
<1>3. BlockTime * k <= BlockTime * k /\ BlockTime * k < BlockTime * k + BlockTime
  BY <1>1, <1>2
<1> QED BY <1>1, <1>2, <1>3, PeriodIs DEF BlockOf

LEMMA BeatPast ==
  ASSUME NEW t \in Nat, NEW k \in Nat
  PROVE  BlockTime * k <= t <=> k <= BlockOf(t)
<1>1. BlockTime \in Nat \ {0} /\ BlockTime * k \in Nat
  BY LinkTimes
<1>2. PICK q \in Nat : q = BlockOf(t) /\ BlockTime * q \in Nat
                       /\ BlockTime * q <= t /\ t < BlockTime * q + BlockTime
  BY Blocks
<1>3. ASSUME k <= q PROVE BlockTime * k <= t
  <2>1. CASE k = q
    BY <1>2, <2>1
  <2>2. CASE k < q
    <3>1. BlockTime * k + BlockTime <= BlockTime * q
      BY <1>1, <2>2, Times
    <3> QED BY <1>1, <1>2, <3>1
  <2> QED BY <1>3, <2>1, <2>2
<1>4. ASSUME q < k PROVE t < BlockTime * k
  <2>1. BlockTime * q + BlockTime <= BlockTime * k
    BY <1>1, <1>4, Times
  <2> QED BY <1>1, <1>2, <2>1
<1> QED BY <1>1, <1>2, <1>3, <1>4

LEMMA LinkBegun ==
  Init => LinkInv
<1> SUFFICES ASSUME Init PROVE LinkInv
  OBVIOUS
<1>1. /\ now = [d \in Dsps |-> 0] /\ nextIrqd = 0 /\ handed = 0
      /\ linkIn = <<>> /\ linkOut = <<>> /\ gap = NoGap
  BY DEF Init
<1>2. BlockTime \in Nat \ {0} /\ StepTime \in Nat \ {0} /\ TapDelay \in Nat
  BY LinkTimes
<1>3. <<>> \in Seq(Nat) /\ Len(<<>>) = 0
  OBVIOUS
<1>4. Numbers
  BY <1>1, <1>3 DEF Numbers
<1>5. BlockOf(0) = 0
  <2>1. BlockTime * 0 = 0
    BY <1>2
  <2> QED BY <2>1, BeatIs
<1>6. now["up"] = 0
  BY <1>1 DEF Dsps
<1>7. Beat = 0 /\ Turn = 0 /\ Open = -1
  <2>1. Beat = 0 /\ Turn = 0
    BY <1>1, <1>5, <1>6 DEF Beat, Turn
  <2> QED BY <2>1 DEF Open
<1>8. Gridded
  BY <1>1, <1>2, <1>6, <1>7 DEF Gridded
<1>9. Ordered
  BY <1>1, <1>3 DEF Ordered, Ascending, Before, Below
<1>10. Tapped
  BY <1>7 DEF Tapped
<1>11. Arrived
  <2>1. ASSUME NEW b \in Nat PROVE ~(BlockTime * (b + 1) + TapDelay <= 0)
    <3>1. BlockTime * (b + 1) \in Nat /\ BlockTime * (b + 1) = BlockTime * b + BlockTime
          /\ BlockTime * b \in Nat
      BY <1>2
    <3> QED BY <1>2, <3>1
  <2> QED BY <1>1, <2>1 DEF Arrived
<1>12. ArrivedWithinMargin
  BY <1>1 DEF ArrivedWithinMargin
<1> QED BY <1>4, <1>8, <1>9, <1>10, <1>11, <1>12 DEF LinkInv

(* A step that leaves blocks and times as they are. *)
LEMMA LinkStays ==
  ASSUME LinkInv, UNCHANGED <<now, nextIrqd, handed, linkIn, linkOut, missing>>,
         gap' = gap \/ gap' = NoGap
  PROVE  LinkInv'
<1>1. (Numbers /\ Gridded /\ Ordered)'
  BY DEF LinkInv, Numbers, Gridded, Ordered, Beat, Turn, Bound
<1>2. (Tapped /\ Arrived)'
  BY DEF LinkInv, Tapped, Arrived, OnLink, Downstream, Open, Beat, Turn, Oldest
<1>3. ArrivedWithinMargin'
  BY DEF LinkInv, ArrivedWithinMargin
<1> QED BY <1>1, <1>2, <1>3 DEF LinkInv

(* What the state's numbers are. *)
LEMMA LinkNumbers ==
  ASSUME LinkInv
  PROVE  /\ now["up"] \in Nat /\ now["down"] \in Nat
         /\ nextIrqd \in Nat /\ handed \in Nat
         /\ linkIn \in Seq(Nat) /\ linkOut \in Seq(Nat)
         /\ Turn \in Nat /\ Beat \in Nat /\ Oldest \in Nat
         /\ Bound \in Int /\ Bound <= Turn
<1>1. /\ now["up"] \in Nat /\ now["down"] \in Nat
      /\ nextIrqd \in Nat /\ handed \in Nat
      /\ linkIn \in Seq(Nat) /\ linkOut \in Seq(Nat)
  BY DEF LinkInv, Numbers, Dsps
<1>2. Turn \in Nat /\ Beat \in Nat /\ Oldest \in Nat
  BY <1>1, Blocks DEF Turn, Beat, Oldest
<1>3. Beat <= Turn + 1
  BY DEF LinkInv, Gridded
<1> QED BY <1>1, <1>2, <1>3 DEF Bound

(* The grid after a beat: the next one is a later beat, at most a period   *)
(* ahead.  Without JIT blocks longer than a period it was not behind, and  *)
(* is not.                                                                 *)
LEMMA AtBeat ==
  ASSUME LinkInv, now["up"] >= nextIrqd
  PROVE  /\ Beat <= Turn
         /\ \E k \in Nat :
              /\ NextGrid(now["up"]) = BlockTime * k
              /\ Beat < k /\ k <= Turn + 1
              /\ StepTime <= BlockTime =>
                   Beat = Turn /\ k = Turn + 1 /\ now["up"] < BlockTime * k
<1>1. BlockTime \in Nat \ {0} /\ StepTime \in Nat
  BY LinkTimes
<1>2. PICK t \in Nat : t = now["up"]
  BY LinkNumbers
<1>3. PICK n \in Nat : n = nextIrqd
  BY LinkNumbers
<1>4. PICK g \in Nat : g = Beat
  BY LinkNumbers
<1>5. PICK q \in Nat : q = Turn /\ q = BlockOf(t)
  BY <1>2, LinkNumbers DEF Turn
<1>6. n = BlockTime * g /\ n <= t
  BY <1>2, <1>3, <1>4 DEF LinkInv, Gridded
<1>7. g <= q
  BY <1>5, <1>6, BeatPast
<1>8. t < BlockTime * q + BlockTime /\ BlockTime * q \in Nat
  BY <1>5, Blocks
<1>9. BlockTime * (q + 1) = BlockTime * q + BlockTime
      /\ BlockTime * (g + 1) = BlockTime * g + BlockTime
  BY <1>1
<1>10. StepTime <= BlockTime => t < n + BlockTime
  <2>1. StepTime <= BlockTime => t < n + StepTime
    BY <1>2, <1>3 DEF LinkInv, Gridded
  <2> QED BY <1>1, <2>1
<1>11. StepTime <= BlockTime => g = q
  <2> SUFFICES ASSUME StepTime <= BlockTime, g < q PROVE FALSE
    BY <1>7
  <2>1. BlockTime * g + BlockTime <= BlockTime * q
    BY <1>1, Times
  <2> QED BY <1>1, <1>5, <1>6, <1>10, <2>1, Blocks
<1>12. CASE t - n > 4 * BlockTime
  <2>1. NextGrid(t) = (q + 1) * BlockTime
    BY <1>3, <1>5, <1>12 DEF NextGrid
  <2>2. (q + 1) * BlockTime = BlockTime * (q + 1) /\ q + 1 \in Nat
    BY <1>1
  <2>3. NextGrid(t) = BlockTime * (q + 1) /\ t < BlockTime * (q + 1)
    BY <1>8, <1>9, <2>1, <2>2
  <2>4. g < q + 1 /\ q + 1 <= q + 1
    BY <1>7
  <2> QED BY <1>2, <1>4, <1>5, <1>7, <1>11, <2>2, <2>3, <2>4
<1>13. CASE ~(t - n > 4 * BlockTime)
  <2>1. NextGrid(t) = n + BlockTime
    BY <1>3, <1>13 DEF NextGrid
  <2>2. NextGrid(t) = BlockTime * (g + 1) /\ g + 1 \in Nat
    BY <1>6, <1>9, <2>1
  <2>3. g < g + 1 /\ g + 1 <= q + 1
    BY <1>7
  <2>4. StepTime <= BlockTime => g = q /\ g + 1 = q + 1 /\ t < BlockTime * (g + 1)
    BY <1>6, <1>9, <1>10, <1>11
  <2> QED BY <1>2, <1>4, <1>5, <1>7, <2>2, <2>3, <2>4
<1> QED BY <1>12, <1>13

(* Between beats the next one is the next period's. *)
LEMMA OffBeat ==
  ASSUME LinkInv, ~(now["up"] >= nextIrqd)
  PROVE  Beat = Turn + 1
<1>1. PICK t \in Nat : t = now["up"]
  BY LinkNumbers
<1>2. PICK g \in Nat : g = Beat /\ nextIrqd = BlockTime * g /\ g <= Turn + 1
  BY LinkNumbers DEF LinkInv, Gridded
<1>3. PICK q \in Nat : q = Turn /\ q = BlockOf(t)
  BY <1>1, LinkNumbers DEF Turn
<1>4. ~(g <= q)
  <2> SUFFICES ASSUME g <= q PROVE FALSE
    OBVIOUS
  <2>1. BlockTime * g <= t
    BY <1>3, BeatPast
  <2>2. BlockTime * g \in Nat
    BY LinkTimes
  <2> QED BY <1>1, <1>2, <2>1, <2>2
<1> QED BY <1>2, <1>3, <1>4

(* A turn of upstream, in its parts. *)
LEMMA UpTurn ==
  ASSUME LinkInv, RunUp
  PROVE  \E t, u \in Nat :
           /\ t = now["up"] /\ t < u /\ u <= t + StepTime
           /\ now' \in [Dsps -> Nat] /\ now'["up"] = u /\ now'["down"] = now["down"]
           /\ nextIrqd' = IF t >= nextIrqd THEN NextGrid(t) ELSE nextIrqd
           /\ linkOut' = IF t >= nextIrqd /\ irqd /\ Finished(t) # {}
                         THEN Append(linkOut, BlockOf(t) - 1) ELSE linkOut
           /\ missing' = (missing \cup (IF t >= nextIrqd /\ ~irqd THEN Finished(t) ELSE {}))
                           \cup BlockOf(t) .. BlockOf(u) - 2
           /\ linkIn' = linkIn /\ gap' = NoGap
<1>1. /\ Steps \subseteq 1 .. StepTime /\ StepTime \in Nat
  BY LinkTimes
<1>2. PICK t \in Nat : t = now["up"]
  BY LinkNumbers
<1>3. PICK len \in Steps :
        /\ now' = [now EXCEPT !["up"] = t + len]
        /\ nextIrqd' = IF t >= nextIrqd THEN NextGrid(t) ELSE nextIrqd
        /\ linkOut' = IF t >= nextIrqd /\ irqd /\ Finished(t) # {}
                      THEN Append(linkOut, BlockOf(t) - 1) ELSE linkOut
        /\ missing' = (missing \cup (IF t >= nextIrqd /\ ~irqd THEN Finished(t) ELSE {}))
                        \cup BlockOf(t) .. BlockOf(t + len) - 2
        /\ linkIn' = linkIn /\ gap' = NoGap
  BY <1>2, Zenon DEF RunUp
<1>4. PICK u \in Nat : u = t + len /\ t < u /\ u <= t + StepTime
  BY <1>1
<1>5. now \in [Dsps -> Nat]
  BY DEF LinkInv, Numbers
<1>6. now' \in [Dsps -> Nat] /\ now'["up"] = u /\ now'["down"] = now["down"]
  BY <1>3, <1>4, <1>5 DEF Dsps
<1> QED BY <1>2, <1>3, <1>4, <1>6

(* A turn of upstream. *)
LEMMA UpStep ==
  ASSUME LinkInv, RunUp, handed' = handed
  PROVE  LinkInv'
<1>1. BlockTime \in Nat \ {0} /\ StepTime \in Nat \ {0} /\ Rise \in {0, 1}
  BY LinkTimes
<1>2. /\ nextIrqd \in Nat /\ handed \in Nat
      /\ linkIn \in Seq(Nat) /\ linkOut \in Seq(Nat)
      /\ Turn \in Nat /\ Beat \in Nat /\ Oldest \in Nat
      /\ Bound \in Int /\ Bound <= Turn
  BY LinkNumbers
<1>3. PICK t \in Nat, u \in Nat :
        /\ t = now["up"] /\ t < u /\ u <= t + StepTime
        /\ now' \in [Dsps -> Nat] /\ now'["up"] = u /\ now'["down"] = now["down"]
        /\ nextIrqd' = IF t >= nextIrqd THEN NextGrid(t) ELSE nextIrqd
        /\ linkOut' = IF t >= nextIrqd /\ irqd /\ Finished(t) # {}
                      THEN Append(linkOut, BlockOf(t) - 1) ELSE linkOut
        /\ missing' = (missing \cup (IF t >= nextIrqd /\ ~irqd THEN Finished(t) ELSE {}))
                        \cup BlockOf(t) .. BlockOf(u) - 2
        /\ linkIn' = linkIn /\ gap' = NoGap
  BY UpTurn
<1>4. Turn = BlockOf(t) /\ Turn' = BlockOf(u) /\ Turn' \in Nat /\ Turn <= Turn'
  <2>1. BlockOf(t) <= BlockOf(u) /\ BlockOf(u) \in Nat
    BY <1>3, LaterBlock, Blocks
  <2> QED BY <1>3, <2>1 DEF Turn
<1>5. Oldest' = Oldest
  BY <1>3 DEF Oldest
<1>6. \E k \in Nat :
        /\ nextIrqd' = BlockTime * k /\ k <= Turn + 1 /\ Beat <= k
        /\ StepTime <= BlockTime => k = Turn + 1 /\ t < BlockTime * k
  <2>1. CASE t >= nextIrqd
    <3>1. nextIrqd' = NextGrid(t)
      BY <1>3, <2>1
    <3>2. PICK k \in Nat :
            /\ NextGrid(now["up"]) = BlockTime * k
            /\ Beat < k /\ k <= Turn + 1
            /\ StepTime <= BlockTime =>
                 Beat = Turn /\ k = Turn + 1 /\ now["up"] < BlockTime * k
      BY <1>3, <2>1, AtBeat
    <3> QED BY <1>2, <1>3, <3>1, <3>2
  <2>2. CASE ~(t >= nextIrqd)
    <3>1. nextIrqd' = nextIrqd /\ nextIrqd = BlockTime * Beat
      BY <1>3, <2>2 DEF LinkInv, Gridded
    <3>2. Beat = Turn + 1
      BY <1>3, <2>2, OffBeat
    <3> QED BY <1>2, <1>3, <2>2, <3>1, <3>2
  <2> QED BY <2>1, <2>2
<1>7. PICK k \in Nat :
        /\ nextIrqd' = BlockTime * k /\ k <= Turn + 1 /\ Beat <= k
        /\ StepTime <= BlockTime => k = Turn + 1 /\ t < BlockTime * k
  BY <1>6
<1>8. Beat' = k /\ nextIrqd' \in Nat
  BY <1>7, BeatIs DEF Beat
<1>9. Gridded'
  <2>1. nextIrqd' = BlockTime * Beat' /\ Beat' <= Turn' + 1
    BY <1>2, <1>4, <1>7, <1>8
  <2>2. StepTime <= BlockTime => u < nextIrqd' + StepTime
    BY <1>1, <1>3, <1>7, <1>8
  <2>3. handed <= t
    BY <1>3 DEF LinkInv, Gridded
  <2> QED BY <1>2, <1>3, <2>1, <2>2, <2>3 DEF Gridded
<1>10. Bound' \in Int /\ Bound <= Bound' /\ Turn <= Bound'
  <2>1. CASE StepTime > BlockTime
    BY <1>2, <1>4, <2>1 DEF Bound
  <2>2. CASE ~(StepTime > BlockTime)
    <3>1. Bound' = k - 1 /\ k = Turn + 1
      BY <1>1, <1>7, <1>8, <2>2 DEF Bound
    <3> QED BY <1>2, <3>1
  <2> QED BY <2>1, <2>2
<1>11. \A i \in 1 .. Len(linkIn) : linkIn[i] \in Nat /\ linkIn[i] < Bound
  BY <1>2, NumbersOf DEF LinkInv, Ordered, Below
<1>12. \A i \in 1 .. Len(linkOut) : linkOut[i] \in Nat /\ linkOut[i] < Bound
  BY <1>2, NumbersOf DEF LinkInv, Ordered, Below
<1>13. Below(linkIn, Bound') /\ Below(linkOut, Bound')
  <2>1. ASSUME NEW x \in Nat, x < Bound PROVE x < Bound'
    BY <1>2, <1>10, <2>1
  <2> QED BY <1>11, <1>12, <2>1 DEF Below
<1>14. ASSUME \A b \in Nat : b >= Oldest /\ b < Turn => OnLink(b)' PROVE Tapped'
  <2> SUFFICES ASSUME NEW b \in Nat, b >= Oldest, b < Open' PROVE OnLink(b)'
    BY <1>5 DEF Tapped
  <2>1. CASE b < Turn
    BY <1>14, <2>1
  <2>2. CASE ~(b < Turn)
    <3>1. b <= Turn' - 2
      <4>1. CASE Beat' = Turn' + 1
        BY <1>2, <1>4, <1>7, <1>8, <2>2, <4>1 DEF Open
      <4>2. CASE Beat' # Turn' + 1
        BY <1>4, <4>2 DEF Open
      <4> QED BY <4>1, <4>2
    <3>2. b \in BlockOf(t) .. BlockOf(u) - 2
      BY <1>2, <1>4, <2>2, <3>1
    <3> QED BY <1>3, <3>2 DEF OnLink
  <2> QED BY <2>1, <2>2
<1>15. Arrived' /\ ArrivedWithinMargin'
  BY <1>3, <1>5 DEF LinkInv, Arrived, ArrivedWithinMargin, Downstream
<1>16. CASE ~(t >= nextIrqd /\ irqd /\ Finished(t) # {})
  <2>1. linkOut' = linkOut
    BY <1>3, <1>16
  <2>2. Numbers' /\ Ordered'
    BY <1>2, <1>3, <1>8, <1>13, <2>1 DEF Numbers, Ordered, LinkInv
  <2>3. ASSUME NEW b \in Nat, b >= Oldest, b < Turn PROVE OnLink(b)'
    <3>1. CASE b < Open
      <4>1. OnLink(b)
        BY <2>3, <3>1 DEF LinkInv, Tapped
      <4> QED BY <1>3, <2>1, <4>1 DEF OnLink
    <3>2. CASE ~(b < Open)
      <4>1. b = Turn - 1 /\ Beat # Turn + 1
        BY <1>2, <2>3, <3>2 DEF Open
      <4>2. t >= nextIrqd
        BY <1>3, <4>1, OffBeat
      <4>3. Finished(t) = {b}
        BY <1>2, <1>4, <4>1 DEF Finished
      <4>4. b \in missing'
        BY <1>3, <1>16, <4>2, <4>3
      <4> QED BY <4>4 DEF OnLink
    <3> QED BY <3>1, <3>2
  <2>4. Tapped'
    BY <1>14, <2>3
  <2> QED BY <1>9, <1>15, <2>2, <2>4 DEF LinkInv
<1>17. CASE t >= nextIrqd /\ irqd /\ Finished(t) # {}
  <2>1. PICK n \in Nat : n = Turn - 1
    BY <1>2, <1>4, <1>17 DEF Finished
  <2>2. linkOut' = Append(linkOut, n)
    BY <1>3, <1>4, <1>17, <2>1
  <2>3. Bound <= (n + 1) - Rise
    <3>1. Beat <= Turn
      BY <1>3, <1>17, AtBeat
    <3> QED BY <1>1, <1>2, <2>1, <3>1 DEF Bound, Rise
  <2>4. Ascending(linkOut, Rise) /\ Below(linkOut, (n + 1) - Rise)
    <3>1. ASSUME NEW x \in Nat, x < Bound PROVE x < (n + 1) - Rise
      BY <1>1, <1>2, <2>3, <3>1
    <3> QED BY <1>12, <3>1 DEF LinkInv, Ordered, Below
  <2>5. /\ linkOut' \in Seq(Nat)
        /\ Ascending(linkOut', Rise) /\ Below(linkOut', n + 1)
        /\ \A b : Holds(linkOut', b) <=> Holds(linkOut, b) \/ b = n
    <3>1. PICK r \in {0, 1} : r = Rise
      BY <1>1
    <3>2. Ascending(linkOut, r) /\ Below(linkOut, (n + 1) - r)
      BY <2>4, <3>1
    <3>3. LET a == Append(linkOut, n)
          IN  /\ a \in Seq(Nat)
              /\ Ascending(a, r) /\ Below(a, n + 1)
              /\ \A b : Holds(a, b) <=> Holds(linkOut, b) \/ b = n
      BY <1>2, <3>2, Added
    <3> QED BY <2>2, <3>1, <3>3
  <2>6. Below(linkOut', Bound')
    <3>1. n + 1 <= Bound' /\ \A i \in 1 .. Len(linkOut') : linkOut'[i] \in Nat
      BY <1>2, <1>10, <2>1, <2>5, NumbersOf
    <3>2. ASSUME NEW x \in Nat, x < n + 1 PROVE x < Bound'
      BY <1>10, <3>1, <3>2
    <3> QED BY <2>5, <3>1, <3>2 DEF Below
  <2>7. Before(linkIn, linkOut', Rise)
    <3> SUFFICES ASSUME NEW i \in 1 .. Len(linkIn), NEW j \in 1 .. Len(linkOut')
                 PROVE  linkIn[i] + Rise <= linkOut'[j]
      BY DEF Before
    <3>1. Holds(linkOut', linkOut'[j])
      BY DEF Holds
    <3>2. CASE linkOut'[j] = n
      BY <1>1, <1>2, <1>11, <2>1, <2>3, <3>2
    <3>3. CASE Holds(linkOut, linkOut'[j])
      BY <3>3 DEF Holds, LinkInv, Ordered, Before
    <3> QED BY <2>5, <3>1, <3>2, <3>3
  <2>8. Ordered'
    BY <1>3, <1>13, <2>5, <2>6, <2>7 DEF LinkInv, Ordered
  <2>9. Numbers'
    BY <1>2, <1>3, <1>8, <2>5 DEF Numbers
  <2>10. ASSUME NEW b \in Nat, b >= Oldest, b < Turn PROVE OnLink(b)'
    <3>1. CASE b < Open
      <4>1. OnLink(b)
        BY <2>10, <3>1 DEF LinkInv, Tapped
      <4> QED BY <1>3, <2>5, <4>1 DEF OnLink
    <3>2. CASE ~(b < Open)
      <4>1. b = n
        BY <1>2, <2>1, <2>10, <3>2 DEF Open
      <4> QED BY <2>5, <4>1 DEF OnLink
    <3> QED BY <3>1, <3>2
  <2>11. Tapped'
    BY <1>14, <2>10
  <2> QED BY <1>9, <1>15, <2>8, <2>9, <2>11 DEF LinkInv
<1> QED BY <1>16, <1>17

(* The margin, in blocks: what downstream wants within it had ended        *)
(* TapDelay before the hand-over.                                          *)
LEMMA WithinMargin ==
  ASSUME NEW u \in Nat, handed \in Nat,
         BlockOf(u) > Latency, u - handed <= Margin
  PROVE  BlockTime * (Wanted(u) + 1) + TapDelay <= handed
<1>1. BlockTime \in Nat \ {0} /\ Latency \in Nat /\ TapDelay \in Nat
  BY LinkTimes
<1>2. PICK w \in Nat : w = Wanted(u) /\ BlockOf(u) = w + Latency
  <2>1. BlockOf(u) \in Nat
    BY Blocks
  <2>2. Wanted(u) = BlockOf(u) - Latency
    BY DEF Wanted
  <2> QED BY <1>1, <2>1, <2>2
<1>3. BlockTime * (w + Latency) <= u
  BY <1>2, Blocks
<1>4. BlockTime * (w + Latency) = BlockTime * w + BlockTime * Latency
  BY <1>1
<1>5. (Latency - 1) * BlockTime = BlockTime * Latency - BlockTime
  BY <1>1
<1>6. BlockTime * (w + 1) = BlockTime * w + BlockTime
  BY <1>1
<1>7. BlockTime * w \in Nat /\ BlockTime * Latency \in Nat
  BY <1>1
<1>8. u - handed <= (BlockTime * Latency - BlockTime) - TapDelay
  BY <1>5 DEF Margin
<1> HIDE DEF Margin
<1>9. BlockTime * w + BlockTime + TapDelay <= handed
  BY <1>1, <1>3, <1>4, <1>7, <1>8
<1> QED BY <1>2, <1>6, <1>9

(* A turn of downstream: it drops what it will not want again, and misses  *)
(* within the margin only what is missing.                                 *)
LEMMA DownStep ==
  ASSUME LinkInv, RunDown, handed' = handed
  PROVE  LinkInv'
<1>1. /\ now \in [Dsps -> Nat] /\ nextIrqd \in Nat /\ handed \in Nat
      /\ linkIn \in Seq(Nat) /\ linkOut \in Seq(Nat)
  BY DEF LinkInv, Numbers
<1>2. PICK t \in Nat : t = now["down"]
  BY <1>1 DEF Dsps
<1>3. PICK len \in 1 .. StepTime : now' = [now EXCEPT !["down"] = @ + len]
  BY LinkTimes DEF RunDown
<1>4. /\ now' \in [Dsps -> Nat] /\ now'["down"] = t + len
      /\ now'["up"] = now["up"] /\ t + len \in Nat /\ t + 1 <= t + len /\ t + 1 \in Nat
  BY <1>1, <1>2, <1>3, LinkTimes DEF Dsps
<1>5. UNCHANGED <<nextIrqd, linkOut, missing>>
  BY DEF RunDown
<1> DEFINE last == Wanted(t + 1)
           d == Drained(linkIn, last)
<1>6. linkIn' = d
  BY <1>2 DEF RunDown
<1>7. /\ last \in Nat /\ Wanted(t) \in Nat /\ Oldest = Wanted(t)
      /\ Oldest' = Wanted(t + len) /\ Oldest' \in Nat
  BY <1>2, <1>4, Blocks DEF Oldest
<1>8. Oldest <= last /\ last <= Oldest'
  BY <1>4, <1>7, LaterWants
<1>9. Ascending(linkIn, Rise) /\ Rise \in {0, 1}
  BY LinkTimes DEF LinkInv, Ordered
<1>10. /\ d \in Seq(Nat) /\ Ascending(d, Rise)
       /\ \A n : Below(linkIn, n) => Below(d, n)
       /\ \A b : Holds(d, b) => Holds(linkIn, b)
       /\ \A b \in Nat : b >= last /\ Holds(linkIn, b) => Holds(d, b)
  BY <1>1, <1>7, <1>9, DrainedKeeps
<1> HIDE DEF d, last
<1>11. Numbers'
  BY <1>1, <1>4, <1>5, <1>6, <1>10 DEF Numbers
<1>12. Beat' = Beat /\ Turn' = Turn /\ Bound' = Bound /\ Open' = Open
  BY <1>4, <1>5 DEF Beat, Turn, Bound, Open
<1>13. Gridded'
  BY <1>4, <1>5, <1>12 DEF LinkInv, Gridded
<1>14. Ordered'
  <2>1. Before(d, linkOut, Rise)
    <3> SUFFICES ASSUME NEW i \in 1 .. Len(d), NEW j \in 1 .. Len(linkOut)
                 PROVE  d[i] + Rise <= linkOut[j]
      BY DEF Before
    <3>1. Holds(linkIn, d[i])
      BY <1>10 DEF Holds
    <3> QED BY <3>1 DEF Holds, LinkInv, Ordered, Before
  <2> QED BY <1>5, <1>6, <1>10, <1>12, <2>1 DEF LinkInv, Ordered
<1>15. \A b \in Nat : b >= Oldest' => b >= Oldest /\ b >= last
  BY <1>7, <1>8
<1>16. Tapped'
  <2> SUFFICES ASSUME NEW b \in Nat, b >= Oldest', b < Open PROVE OnLink(b)'
    BY <1>12 DEF Tapped
  <2>1. OnLink(b)
    BY <1>15 DEF LinkInv, Tapped
  <2> QED BY <1>5, <1>6, <1>10, <1>15, <2>1 DEF OnLink
<1>17. Arrived'
  <2> SUFFICES ASSUME NEW b \in Nat, b >= Oldest', BlockTime * (b + 1) + TapDelay <= handed
               PROVE  Downstream(b)'
    BY DEF Arrived
  <2>1. Downstream(b)
    BY <1>15 DEF LinkInv, Arrived
  <2> QED BY <1>5, <1>6, <1>10, <1>15, <2>1 DEF Downstream
<1>18. ArrivedWithinMargin'
  <2> SUFFICES ASSUME gap' # NoGap, gap'.lead <= Margin PROVE gap'.block \in missing
    BY <1>5 DEF ArrivedWithinMargin, Margin
  <2>1. PICK s \in {0, 1} :
          /\ BlockOf(t + s) > Latency
          /\ LET q == Drained(linkIn, Wanted(t + s))
             IN  q = <<>> \/ Head(q) # Wanted(t + s)
          /\ gap' = [block |-> Wanted(t + s), lead |-> (t + s) - handed]
    <3> DEFINE Silent(s) ==
                 LET q == Drained(linkIn, Wanted(t + s))
                 IN  q = <<>> \/ Head(q) # Wanted(t + s)
               Late == {s \in {0, 1} : BlockOf(t + s) > Latency /\ Silent(s)}
    <3>1. IF Late = {} THEN gap' = NoGap
          ELSE \E s \in Late : gap' = [block |-> Wanted(t + s), lead |-> t + s - handed]
      BY <1>2 DEF RunDown
    <3>2. PICK s \in Late : gap' = [block |-> Wanted(t + s), lead |-> t + s - handed]
      BY <3>1
    <3>3. s \in {0, 1} /\ BlockOf(t + s) > Latency /\ Silent(s)
      OBVIOUS
    <3> HIDE DEF Late
    <3>4. t + s - handed = (t + s) - handed
      BY <1>1, <3>3
    <3> QED BY <3>2, <3>3, <3>4
  <2>2. PICK u \in Nat : u = t + s
    OBVIOUS
  <2>3. Wanted(u) \in Nat /\ Wanted(u) >= Oldest
    <3>1. t <= u
      BY <2>2
    <3>2. Wanted(t) <= Wanted(u) /\ Wanted(u) \in Nat
      BY <3>1, LaterWants, Blocks
    <3> QED BY <1>7, <3>2
  <2>4. gap'.block = Wanted(u) /\ gap'.lead = u - handed
    BY <2>1, <2>2
  <2>5. BlockTime * (Wanted(u) + 1) + TapDelay <= handed
    BY <1>1, <2>1, <2>2, <2>4, WithinMargin
  <2>6. Downstream(Wanted(u))
    BY <2>3, <2>5 DEF LinkInv, Arrived
  <2>7. ~Holds(linkIn, Wanted(u))
    <3>1. LET q == Drained(linkIn, Wanted(u))
          IN  Holds(linkIn, Wanted(u)) => q # <<>> /\ Head(q) = Wanted(u)
      BY <1>1, <1>9, <2>3, DrainedKeeps
    <3> QED BY <2>1, <2>2, <3>1
  <2> QED BY <2>4, <2>6, <2>7 DEF Downstream
<1> QED BY <1>11, <1>13, <1>14, <1>16, <1>17, <1>18 DEF LinkInv

(* flushAudio: what is on the link is downstream then, but for what the    *)
(* cap cuts off.                                                           *)
LEMMA HandOverStep ==
  ASSUME LinkInv, HandOver
  PROVE  LinkInv'
<1>1. /\ now \in [Dsps -> Nat] /\ nextIrqd \in Nat /\ handed \in Nat
      /\ linkIn \in Seq(Nat) /\ linkOut \in Seq(Nat)
  BY DEF LinkInv, Numbers
<1> DEFINE all == linkIn \o linkOut
           cut == IF Len(all) > MaxIn THEN Len(all) - MaxIn ELSE 0
           m == cut + 1
           u == SubSeq(all, m, Len(all))
<1>2. /\ linkIn' = u /\ linkOut' = <<>> /\ handed' = now["up"]
      /\ missing' = missing \cup {all[i] : i \in 1 .. cut}
      /\ UNCHANGED <<now, nextIrqd>> /\ gap' = NoGap
  BY DEF HandOver
<1>3. /\ all \in Seq(Nat) /\ Rise \in {0, 1}
      /\ Ascending(linkIn, Rise) /\ Ascending(linkOut, Rise) /\ Before(linkIn, linkOut, Rise)
           => Ascending(all, Rise)
      /\ \A b : Holds(all, b) <=> Holds(linkIn, b) \/ Holds(linkOut, b)
  <2>1. Rise \in {0, 1}
    BY LinkTimes
  <2> QED BY <1>1, <2>1, Joined
<1>4. Len(all) \in Nat
  BY <1>3, NumbersOf
<1> HIDE DEF all
<1>5. cut \in Nat /\ m \in 1 .. Len(all) + 1 /\ m - 1 = cut
  BY <1>4, LinkAssumption
<1> HIDE DEF cut, m
<1>6. /\ u \in Seq(Nat) /\ (Ascending(all, Rise) => Ascending(u, Rise))
      /\ \A b : Holds(u, b) => Holds(all, b)
      /\ \A b : Holds(all, b) => Holds(u, b) \/ \E i \in 1 .. m - 1 : all[i] = b
  BY <1>3, <1>5, Suffix
<1> HIDE DEF u
<1>7. Ascending(u, Rise)
  BY <1>3, <1>6 DEF LinkInv, Ordered
<1>8. Numbers'
  BY <1>1, <1>2, <1>6 DEF Numbers, Dsps
<1>9. /\ Beat' = Beat /\ Turn' = Turn /\ Oldest' = Oldest
      /\ Bound' = Bound /\ Open' = Open
  BY <1>2 DEF Beat, Turn, Oldest, Bound, Open
<1>10. Gridded'
  BY <1>1, <1>2, <1>9 DEF LinkInv, Gridded, Dsps
<1>11. Ordered'
  <2>1. Below(u, Bound)
    <3> SUFFICES ASSUME NEW i \in 1 .. Len(u) PROVE u[i] < Bound
      BY DEF Below
    <3>1. Holds(linkIn, u[i]) \/ Holds(linkOut, u[i])
      BY <1>3, <1>6 DEF Holds
    <3> QED BY <3>1 DEF Holds, LinkInv, Ordered, Below
  <2>2. Ascending(<<>>, Rise) /\ Before(u, <<>>, Rise) /\ Below(<<>>, Bound)
    BY DEF Ascending, Before, Below
  <2> QED BY <1>2, <1>7, <1>9, <2>1, <2>2 DEF Ordered
<1>12. ASSUME NEW b \in Nat, OnLink(b) PROVE Downstream(b)'
  <2>1. CASE b \in missing
    BY <1>2, <2>1 DEF Downstream
  <2>2. CASE Holds(linkIn, b) \/ Holds(linkOut, b)
    <3>1. Holds(u, b) \/ \E i \in 1 .. cut : all[i] = b
      BY <1>3, <1>5, <1>6, <2>2
    <3> QED BY <1>2, <3>1 DEF Downstream
  <2> QED BY <1>12, <2>1, <2>2 DEF OnLink
<1>13. Tapped'
  <2> SUFFICES ASSUME NEW b \in Nat, b >= Oldest, b < Open PROVE OnLink(b)'
    BY <1>9 DEF Tapped
  <2>1. Downstream(b)'
    BY <1>12 DEF LinkInv, Tapped
  <2> QED BY <2>1 DEF Downstream, OnLink
<1>14. Arrived'
  <2> SUFFICES ASSUME NEW b \in Nat, b >= Oldest,
                      BlockTime * (b + 1) + TapDelay <= now["up"]
               PROVE  Downstream(b)'
    BY <1>2, <1>9 DEF Arrived
  <2>1. PICK t \in Nat : t = now["up"]
    BY LinkNumbers
  <2>2. b < Open
    <3>1. PICK q \in Nat : q = Turn /\ q = BlockOf(t) /\ t < BlockTime * q + BlockTime
      BY <2>1, LinkNumbers, Blocks DEF Turn
    <3>2. PICK g \in Nat : g = Beat /\ g <= q + 1 /\ nextIrqd = BlockTime * g
      BY <3>1, LinkNumbers DEF LinkInv, Gridded
    <3>3. /\ BlockTime \in Nat \ {0} /\ TapDelay \in Nat /\ StepTime \in Nat
          /\ (TapDelay = BlockTime \/ (TapDelay = StepTime /\ StepTime <= BlockTime))
      BY LinkTimes
    <3>4. BlockTime * (b + 1) \in Nat /\ BlockTime * q \in Nat /\ BlockTime * g \in Nat
      BY <3>3
    <3>5. b + 1 <= q
      <4>1. BlockTime * (b + 1) <= t
        BY <2>1, <3>3, <3>4
      <4> QED BY <3>1, <4>1, BeatPast
    <3>6. CASE b + 1 < q
      BY <3>1, <3>2, <3>6 DEF Open
    <3>7. CASE b + 1 = q
      <4>1. BlockTime * q + TapDelay <= t
        BY <2>1, <3>7
      <4>2. TapDelay = StepTime /\ StepTime <= BlockTime
        BY <3>1, <3>3, <3>4, <4>1
      <4>3. t < BlockTime * g + StepTime
        BY <2>1, <3>2, <4>2 DEF LinkInv, Gridded
      <4>4. BlockTime * q < BlockTime * g
        BY <3>3, <3>4, <4>1, <4>2, <4>3
      <4>5. ~(g <= q)
        <5>1. CASE g = q
          BY <3>4, <4>4, <5>1
        <5>2. CASE g < q
          <6>1. BlockTime * g + BlockTime <= BlockTime * q
            BY <3>3, <5>2, Times
          <6> QED BY <3>3, <3>4, <4>4, <6>1
        <5> QED BY <5>1, <5>2
      <4> QED BY <3>1, <3>2, <3>7, <4>5 DEF Open
    <3> QED BY <3>5, <3>6, <3>7
  <2>3. OnLink(b)
    BY <2>2 DEF LinkInv, Tapped
  <2> QED BY <1>12, <2>3
<1>15. ArrivedWithinMargin'
  BY <1>2 DEF LinkInv, ArrivedWithinMargin
<1> QED BY <1>8, <1>10, <1>11, <1>13, <1>14, <1>15 DEF LinkInv

LEMMA LinkStep ==
  LinkInv /\ [Next]_vars => LinkInv'
<1> SUFFICES ASSUME LinkInv, [Next]_vars PROVE LinkInv'
  OBVIOUS
<1>1. ASSUME NEW d \in Dsps, Run(d), handed' = handed PROVE LinkInv'
  BY <1>1, UpStep, DownStep DEF Run, Dsps
<1>2. ASSUME NEW d \in Dsps, RunInSync(d) \/ RunInWait(d) PROVE LinkInv'
  <2>1. Run(d) /\ handed' = handed
    BY <1>2 DEF RunInSync, RunInWait
  <2> QED BY <1>1, <2>1
<1>3. CASE HandOver
  BY <1>3, HandOverStep
<1>4. CASE \/ BeginSync \/ EndWait \/ SwitchIrqd
           \/ \E d \in Dsps : BeginWait(d) \/ SwitchBoot(d)
  <2>1. UNCHANGED <<now, nextIrqd, handed, linkIn, linkOut, missing>> /\ gap' = NoGap
    BY <1>4 DEF BeginSync, EndWait, SwitchIrqd, BeginWait, SwitchBoot
  <2> QED BY <2>1, LinkStays
<1>5. CASE UNCHANGED vars
  BY <1>5, LinkStays DEF vars
<1> QED BY <1>2, <1>3, <1>4, <1>5 DEF Next

LEMMA LinkInvariant ==
  Spec => []LinkInv
BY LinkBegun, LinkStep, PTL DEF Spec

(* The blocks on the link are in order (tapLink, flushAudio, readLink),    *)
(* and none is there twice but for a grid that catches up after a JIT      *)
(* block longer than a period: for any period, latency, cap and lengths of *)
(* the JIT blocks, across every reload of either DSP, every new lock of    *)
(* the grid and every access in which one DSP runs ahead.                  *)
THEOREM BlocksInOrder == Spec => []LinkOrdered
<1>1. ASSUME LinkInv PROVE LinkOrdered
  <2> DEFINE all == linkIn \o linkOut
  <2>1. linkIn \in Seq(Nat) /\ linkOut \in Seq(Nat)
    BY <1>1 DEF LinkInv, Numbers
  <2>2. all \in Seq(Nat) /\ Ascending(all, Rise) /\ Rise \in {0, 1}
    <3>1. Rise \in {0, 1}
      BY LinkTimes
    <3> QED BY <1>1, <2>1, <3>1, Joined DEF LinkInv, Ordered
  <2> HIDE DEF all
  <2>3. DOMAIN all = 1 .. Len(all)
    BY <2>2, NumbersOf
  <2>4. ASSUME NEW i \in DOMAIN all, NEW j \in DOMAIN all, i < j
        PROVE  all[i] < all[j] \/ (StepTime > BlockTime /\ all[i] = all[j])
    <3>1. all[i] + Rise <= all[j] /\ all[i] \in Nat /\ all[j] \in Nat
      BY <2>2, <2>3, <2>4, NumbersOf DEF Ascending
    <3>2. Rise = (IF StepTime > BlockTime THEN 0 ELSE 1)
      BY DEF Rise
    <3>3. PICK x \in Nat, y \in Nat : x = all[i] /\ y = all[j] /\ x + Rise <= y
      BY <3>1
    <3>4. CASE StepTime > BlockTime
      <4>1. x < y \/ x = y
        BY <3>2, <3>3, <3>4
      <4> QED BY <3>3, <3>4, <4>1
    <3>5. CASE ~(StepTime > BlockTime)
      <4>1. x < y
        BY <3>2, <3>3, <3>5
      <4> QED BY <3>3, <4>1
    <3> QED BY <3>4, <3>5
  <2> QED BY <2>4 DEF LinkOrdered, all
<1>2. LinkInv => LinkOrdered
  BY <1>1
<1> QED BY <1>2, LinkInvariant, PTL

(* Within the margin downstream never takes silence for a block that was   *)
(* made (readLink): what it wants has arrived, for any latency, period,    *)
(* step and syncs.                                                         *)
THEOREM BlocksArrive == Spec => []ArrivedWithinMargin
<1>1. LinkInv => ArrivedWithinMargin
  BY DEF LinkInv
<1> QED BY <1>1, LinkInvariant, PTL
-----------------------------------------------------------------------------
(* The output.  All its frames so far: those played, and those in the      *)
(* DSP's hands.                                                            *)
Frames == played \o blocks
OutBeat == Cdc!BlockOf(nextBeat)

OnBeat ==
  /\ cycles \in Nat /\ nextBeat \in Nat
  /\ nextBeat = Period * OutBeat
  /\ cycles < nextBeat + OutputStep /\ nextBeat <= cycles + Period

EveryBeat ==
  /\ played \in Seq(Nat) /\ blocks \in Seq(Nat)
  /\ Ascending(Frames, 1) /\ Below(Frames, OutBeat)
  /\ \A b \in Nat : b < OutBeat => Holds(Frames, b) \/ b \in silent
  /\ \A b \in silent : b \in Nat /\ b < OutBeat

Counted ==
  /\ sent \in [Cdc!Essis -> Nat] /\ out \in [Cdc!Essis -> Nat]
  /\ staged \in [Cdc!Essis -> Nat] /\ passed \in [Cdc!Essis -> Nat]
  /\ Cdc!FramesKept

Recorded ==
  /\ played \in Seq(Nat) /\ wavFrames = Len(wav) /\ Cdc!RecordsOutput

OutputInv == OnBeat /\ EveryBeat /\ Counted /\ Recorded

(* The first so many elements of a sequence. *)
LEMMA FirstOnes ==
  ASSUME NEW s \in Seq(Nat), NEW n \in 0 .. Len(s)
  PROVE  /\ SubSeq(s, 1, n) \in Seq(Nat) /\ Len(SubSeq(s, 1, n)) = n
         /\ \A i \in 1 .. n : SubSeq(s, 1, n)[i] = s[i]
<1>1. Len(s) \in Nat /\ \A i \in 1 .. Len(s) : s[i] \in Nat
  BY NumbersOf
<1>2. n \in Nat /\ \A i \in 1 .. n : s[i] \in Nat
  BY <1>1
<1> DEFINE u == SubSeq(s, 1, n)
<1>3. /\ u \in Seq(Nat) /\ Len(u) = IF 1 <= n THEN n - 1 + 1 ELSE 0
      /\ \A i \in 1 .. n - 1 + 1 : u[i] = s[1 + i - 1]
  BY <1>2, SubSeqProperties
<1> HIDE DEF u
<1>4. u \in Seq(Nat) /\ Len(u) = n /\ \A i \in 1 .. n : u[i] = s[i]
  BY <1>2, <1>3
<1> QED BY <1>4 DEF u

(* The callback of EmuHost: what it adds to a file that holds the first    *)
(* frames makes it hold the first frames again.                            *)
LEMMA RecordsFirst ==
  ASSUME NEW p \in Seq(Nat), NEW b \in Seq(Nat), NEW w \in Nat
  PROVE  LET held == IF Len(p) < w THEN Len(p) ELSE w
             room == w - held
             more == IF Len(b) < room THEN Len(b) ELSE room
             all == IF Len(p \o b) < w THEN Len(p \o b) ELSE w
         IN  /\ SubSeq(p, 1, held) \o SubSeq(b, 1, more) = SubSeq(p \o b, 1, all)
             /\ held + more = Len(SubSeq(p \o b, 1, all))
             /\ Len(SubSeq(p, 1, held)) = held
<1> DEFINE held == IF Len(p) < w THEN Len(p) ELSE w
           room == w - held
           more == IF Len(b) < room THEN Len(b) ELSE room
           pb == p \o b
           all == IF Len(pb) < w THEN Len(pb) ELSE w
           x == SubSeq(p, 1, held)
           y == SubSeq(b, 1, more)
           z == SubSeq(pb, 1, all)
<1>1. Len(p) \in Nat /\ Len(b) \in Nat
  BY NumbersOf
<1>2. /\ pb \in Seq(Nat) /\ Len(pb) = Len(p) + Len(b)
      /\ \A i \in 1 .. Len(p) + Len(b) :
           pb[i] = IF i <= Len(p) THEN p[i] ELSE b[i - Len(p)]
  BY ConcatProperties
<1> HIDE DEF pb
<1>3. /\ held \in 0 .. Len(p) /\ more \in 0 .. Len(b) /\ all \in 0 .. Len(pb)
      /\ all = held + more
      /\ held # Len(p) => more = 0
  <2>1. CASE Len(p) < w
    <3>1. held = Len(p) /\ room = w - Len(p) /\ room \in Nat
      BY <1>1, <2>1
    <3>2. CASE Len(b) < w - Len(p)
      BY <1>1, <1>2, <2>1, <3>1, <3>2
    <3>3. CASE ~(Len(b) < w - Len(p))
      BY <1>1, <1>2, <2>1, <3>1, <3>3
    <3> QED BY <3>2, <3>3
  <2>2. CASE ~(Len(p) < w)
    <3>1. held = w /\ room = 0
      BY <1>1, <2>2
    <3> QED BY <1>1, <1>2, <2>2, <3>1
  <2> QED BY <2>1, <2>2
<1> HIDE DEF held, more, all
<1>4. x \in Seq(Nat) /\ Len(x) = held /\ \A i \in 1 .. held : x[i] = p[i]
  BY <1>3, FirstOnes
<1>5. y \in Seq(Nat) /\ Len(y) = more /\ \A i \in 1 .. more : y[i] = b[i]
  BY <1>3, FirstOnes
<1>6. z \in Seq(Nat) /\ Len(z) = all /\ \A i \in 1 .. all : z[i] = pb[i]
  BY <1>2, <1>3, FirstOnes
<1> HIDE DEF x, y, z
<1>7. x \in Seq(Nat) /\ y \in Seq(Nat)
  BY <1>4, <1>5
<1> DEFINE xy == x \o y
<1>8. /\ xy \in Seq(Nat) /\ Len(xy) = Len(x) + Len(y)
      /\ \A i \in 1 .. Len(x) + Len(y) :
           xy[i] = IF i <= Len(x) THEN x[i] ELSE y[i - Len(x)]
  BY <1>7, ConcatProperties
<1> HIDE DEF xy
<1>9. Len(xy) = Len(z)
  BY <1>3, <1>4, <1>5, <1>6, <1>8
<1>10. ASSUME NEW i \in 1 .. Len(xy) PROVE xy[i] = z[i]
  <2>1. /\ i \in 1 .. held + more /\ i \in 1 .. all /\ i \in 1 .. Len(p) + Len(b)
        /\ held \in Int /\ more \in Int /\ i \in Int
    BY <1>1, <1>2, <1>3, <1>4, <1>5, <1>8
  <2>2. z[i] = IF i <= Len(p) THEN p[i] ELSE b[i - Len(p)]
    BY <1>2, <1>6, <2>1
  <2>3. xy[i] = IF i <= held THEN x[i] ELSE y[i - held]
    BY <1>4, <1>5, <1>8, <2>1
  <2>4. CASE i <= held
    <3>1. i <= Len(p) /\ i \in 1 .. held
      BY <1>1, <1>3, <2>1, <2>4
    <3> QED BY <1>4, <2>2, <2>3, <2>4, <3>1
  <2>5. CASE ~(i <= held)
    <3>1. held = Len(p)
      BY <1>3, <2>1, <2>5
    <3>2. i - held \in 1 .. more
      BY <1>3, <2>1, <2>5
    <3>3. y[i - held] = b[i - Len(p)]
      BY <1>5, <3>1, <3>2
    <3> QED BY <2>2, <2>3, <2>5, <3>1, <3>3
  <2> QED BY <2>4, <2>5
<1>11. xy = z
  BY <1>6, <1>8, <1>9, <1>10, SeqEqual
<1> QED BY <1>3, <1>4, <1>6, <1>11 DEF held, room, more, all, pb, x, y, z, xy

LEMMA OutputBegun ==
  ASSUME Cdc!CodecAssumption
  PROVE  Cdc!Init => OutputInv
<1> SUFFICES ASSUME Cdc!Init PROVE OutputInv
  OBVIOUS
<1>1. /\ cycles = 0 /\ nextBeat = 0 /\ blocks = <<>> /\ played = <<>> /\ silent = {}
      /\ sent = Cdc!None /\ out = Cdc!None /\ staged = Cdc!None /\ passed = Cdc!None
      /\ wavFrames = 0 /\ wav = <<>> /\ outPhase = "cpu"
  BY DEF Cdc!Init
<1>2. Period \in Nat \ {0} /\ OutputStep \in Nat \ {0} /\ MaxWav \in Nat
  BY DEF Cdc!CodecAssumption
<1>3. <<>> \in Seq(Nat) /\ Len(<<>>) = 0
  OBVIOUS
<1>4. OutBeat = 0
  <2>1. Period * 0 = 0 /\ 0 \in Nat /\ 0 \in Int
    BY <1>2
  <2>2. 0 \div Period = 0
    BY <1>2, <2>1, PeriodIs
  <2> QED BY <1>1, <2>2 DEF OutBeat, Cdc!BlockOf
<1>5. OnBeat
  BY <1>1, <1>2, <1>4 DEF OnBeat
<1>6. Frames = <<>>
  BY <1>1, <1>3, ConcatEmptySeq DEF Frames
<1>7. EveryBeat
  BY <1>1, <1>3, <1>4, <1>6 DEF EveryBeat, Ascending, Below, Holds
<1>8. Counted
  BY <1>1 DEF Counted, Cdc!FramesKept, Cdc!None, Cdc!Essis
<1>9. Recorded
  <2>1. Len(played) = 0 /\ SubSeq(played, 1, 0) = <<>>
    BY <1>1, <1>3, SubSeqEmpty
  <2>2. (IF Len(played) < MaxWav THEN Len(played) ELSE MaxWav) = 0
    BY <1>2, <2>1
  <2> QED BY <1>1, <1>3, <2>1, <2>2 DEF Recorded, Cdc!RecordsOutput
<1> QED BY <1>5, <1>7, <1>8, <1>9 DEF OutputInv

(* A turn of the DSP: at a beat the frame of the block is tapped, or it is *)
(* one at which nothing sounds.                                            *)
LEMMA BeatStep ==
  ASSUME Cdc!CodecAssumption, OnBeat, EveryBeat, Cdc!Turn, played' = played
  PROVE  OnBeat' /\ EveryBeat'
<1>1. Period \in Nat \ {0} /\ OutputStep \in Nat /\ OutputStep <= Period
  BY DEF Cdc!CodecAssumption
<1>2. cycles \in Nat /\ nextBeat \in Nat
  BY DEF OnBeat
<1>3. PICK len \in 1 .. OutputStep : cycles' = cycles + len
  BY DEF Cdc!Turn
<1>4. PICK k \in Nat : k = OutBeat /\ Period * k \in Nat
  BY <1>1, <1>2, InPeriod DEF OutBeat, Cdc!BlockOf
<1>5. /\ nextBeat = Period * k /\ cycles < nextBeat + OutputStep
      /\ nextBeat <= cycles + Period
  BY <1>4 DEF OnBeat
<1>6. CASE ~(cycles >= nextBeat)
  <2>1. UNCHANGED <<nextBeat, blocks, silent>>
    BY <1>6 DEF Cdc!Turn
  <2>2. cycles' \in Nat /\ cycles' < nextBeat + OutputStep /\ nextBeat <= cycles' + Period
    BY <1>1, <1>2, <1>3, <1>5, <1>6
  <2> QED BY <2>1, <2>2 DEF OnBeat, EveryBeat, OutBeat, Frames
<1>7. CASE cycles >= nextBeat
  <2>1. Period * k <= cycles /\ cycles < Period * k + Period
    BY <1>1, <1>2, <1>4, <1>5, <1>7
  <2>2. Cdc!BlockOf(cycles) = k
    BY <1>1, <1>2, <2>1, PeriodIs DEF Cdc!BlockOf
  <2>3. Cdc!NextBeat = nextBeat + Period
    <3>1. ~(cycles - nextBeat > 4 * Period)
      BY <1>1, <1>2, <1>4, <1>5
    <3> QED BY <3>1 DEF Cdc!NextBeat
  <2>4. nextBeat' = nextBeat + Period /\ Cdc!TapBlock
    BY <1>7, <2>3 DEF Cdc!Turn
  <2>5. nextBeat' = Period * (k + 1) /\ nextBeat' \in Nat
    BY <1>1, <1>4, <1>5, <2>4
  <2>6. OutBeat' = k + 1
    <3>1. k + 1 \in Int /\ nextBeat' < Period * (k + 1) + Period
      BY <1>1, <2>5
    <3>2. nextBeat' \div Period = k + 1
      BY <1>1, <2>5, <3>1, PeriodIs
    <3> QED BY <3>2 DEF OutBeat, Cdc!BlockOf
  <2>7. OnBeat'
    <3>2. ASSUME NEW c \in Nat, NEW n \in Nat, c < n + OutputStep, n <= c
          PROVE  /\ c + len \in Nat /\ c + len < (n + Period) + OutputStep
                 /\ n + Period <= (c + len) + Period
      BY <1>1, <3>2
    <3>1. cycles' \in Nat /\ cycles' < nextBeat' + OutputStep /\ nextBeat' <= cycles' + Period
      BY <1>2, <1>3, <1>5, <1>7, <2>4, <3>2
    <3> QED BY <2>5, <2>6, <3>1 DEF OnBeat
  <2>8. /\ played \in Seq(Nat) /\ blocks \in Seq(Nat)
        /\ Ascending(Frames, 1) /\ Below(Frames, k)
        /\ \A b \in Nat : b < k => Holds(Frames, b) \/ b \in silent
        /\ \A b \in silent : b \in Nat /\ b < k
    BY <1>4 DEF EveryBeat
  <2>9. Frames \in Seq(Nat)
    BY <2>8, Joined DEF Frames
  <2>10. CASE sounding
    <3>1. blocks' = Append(blocks, k) /\ silent' = silent
      BY <2>2, <2>4, <2>10 DEF Cdc!TapBlock
    <3>2. blocks' \in Seq(Nat)
      BY <2>8, <3>1, AppendProperties
    <3>3. Frames' = Append(Frames, k)
      <4>1. Append(blocks, k) = blocks \o <<k>> /\ <<k>> \in Seq(Nat)
        BY <2>8, AppendIsConcat
      <4>2. (played \o blocks) \o <<k>> = played \o (blocks \o <<k>>)
        BY <2>8, <4>1, ConcatAssociative
      <4>3. Append(Frames, k) = Frames \o <<k>>
        BY <2>9, AppendIsConcat
      <4> QED BY <3>1, <4>1, <4>2, <4>3 DEF Frames
    <3>4. /\ Ascending(Frames', 1) /\ Below(Frames', k + 1)
          /\ \A b : Holds(Frames', b) <=> Holds(Frames, b) \/ b = k
      <4>1. (k + 1) - 1 = k /\ 1 \in {0, 1}
        BY <2>8
      <4> QED BY <2>8, <2>9, <3>3, <4>1, Added
    <3>5. \A b \in Nat : b < k + 1 => Holds(Frames', b) \/ b \in silent'
      BY <2>8, <3>1, <3>4
    <3>6. \A b \in silent' : b \in Nat /\ b < k + 1
      BY <2>8, <3>1
    <3> QED BY <2>6, <2>7, <2>8, <3>2, <3>4, <3>5, <3>6 DEF EveryBeat
  <2>11. CASE ~sounding
    <3>1. blocks' = blocks /\ silent' = silent \cup {k}
      BY <2>2, <2>4, <2>11 DEF Cdc!TapBlock
    <3>2. Frames' = Frames
      BY <3>1 DEF Frames
    <3>3. Below(Frames, k + 1)
      <4>1. \A i \in 1 .. Len(Frames) : Frames[i] \in Nat /\ Frames[i] < k
        BY <2>8, <2>9, NumbersOf DEF Below
      <4> QED BY <4>1 DEF Below
    <3>4. \A b \in Nat : b < k + 1 => Holds(Frames, b) \/ b \in silent'
      BY <2>8, <3>1
    <3>5. \A b \in silent' : b \in Nat /\ b < k + 1
      BY <2>8, <3>1
    <3> QED BY <2>6, <2>7, <2>8, <3>1, <3>2, <3>3, <3>4, <3>5 DEF EveryBeat
  <2> QED BY <2>10, <2>11
<1> QED BY <1>6, <1>7

LEMMA BeatStays ==
  ASSUME OnBeat, EveryBeat, UNCHANGED <<cycles, nextBeat, blocks, played, silent>>
  PROVE  OnBeat' /\ EveryBeat'
BY DEF OnBeat, EveryBeat, OutBeat, Frames

(* The frames of the two ESSIs. *)
LEMMA EssiStep ==
  ASSUME Cdc!CodecAssumption, Counted, Cdc!Next
  PROVE  Counted'
<1> DEFINE E == Cdc!Essis
<1>1. /\ sent \in [E -> Nat] /\ out \in [E -> Nat]
      /\ staged \in [E -> Nat] /\ passed \in [E -> Nat]
      /\ \A e \in E : passed[e] + staged[e] + out[e] = sent[e]
  BY DEF Counted, Cdc!FramesKept
<1>2. Cdc!None \in [E -> Nat] /\ \A e \in E : Cdc!None[e] = 0
  BY DEF Cdc!None
<1>3. CASE Cdc!Run
  <2>1. UNCHANGED <<staged, passed>> /\ Cdc!Turn
    BY <1>3 DEF Cdc!Run, Cdc!host
  <2>2. PICK sending : /\ sent' = [e \in E |-> IF e \in sending THEN sent[e] + 1 ELSE sent[e]]
                       /\ out' = [e \in E |-> IF e \in sending THEN out[e] + 1 ELSE out[e]]
    BY <2>1 DEF Cdc!Turn
  <2> HIDE DEF E
  <2>3. sent' \in [E -> Nat] /\ out' \in [E -> Nat]
    BY <1>1, <2>2
  <2>4. ASSUME NEW e \in E PROVE passed[e] + staged[e] + out'[e] = sent'[e]
    <3>1. CASE e \in sending
      BY <1>1, <2>2, <3>1
    <3>2. CASE e \notin sending
      BY <1>1, <2>2, <3>2
    <3> QED BY <3>1, <3>2
  <2> QED BY <1>1, <2>1, <2>3, <2>4 DEF Counted, Cdc!FramesKept, E
<1>4. CASE Cdc!DrainAudio
  <2>1. /\ staged' = [e \in E |-> staged[e] + out[e]] /\ out' = Cdc!None
        /\ UNCHANGED <<sent, passed>>
    BY <1>4 DEF Cdc!DrainAudio
  <2> HIDE DEF E
  <2>2. staged' \in [E -> Nat] /\ out' \in [E -> Nat]
    BY <1>1, <1>2, <2>1
  <2>3. ASSUME NEW e \in E PROVE passed[e] + staged'[e] + out'[e] = sent[e]
    <3>1. staged'[e] = staged[e] + out[e] /\ out'[e] = 0
      BY <1>2, <2>1
    <3>2. passed[e] \in Nat /\ staged[e] \in Nat /\ out[e] \in Nat
      BY <1>1
    <3> QED BY <1>1, <3>1, <3>2
  <2> QED BY <1>1, <2>1, <2>2, <2>3 DEF Counted, Cdc!FramesKept, E
<1>5. CASE Cdc!FlushAudio
  <2>1. /\ passed' = [e \in E |-> passed[e] + staged[e]] /\ staged' = Cdc!None
        /\ UNCHANGED <<sent, out>>
    BY <1>5 DEF Cdc!FlushAudio, Cdc!Flushed
  <2> HIDE DEF E
  <2>2. passed' \in [E -> Nat] /\ staged' \in [E -> Nat]
    BY <1>1, <1>2, <2>1
  <2>3. ASSUME NEW e \in E PROVE passed'[e] + staged'[e] + out[e] = sent[e]
    <3>1. passed'[e] = passed[e] + staged[e] /\ staged'[e] = 0
      BY <1>2, <2>1
    <3>2. passed[e] \in Nat /\ staged[e] \in Nat /\ out[e] \in Nat
      BY <1>1
    <3> QED BY <1>1, <3>1, <3>2
  <2> QED BY <1>1, <2>1, <2>2, <2>3 DEF Counted, Cdc!FramesKept, E
<1>6. CASE Cdc!Start
  <2>1. sent' = Cdc!None /\ out' = Cdc!None /\ staged' = Cdc!None /\ passed' = Cdc!None
    BY <1>6 DEF Cdc!Start
  <2> QED BY <1>2, <2>1 DEF Counted, Cdc!FramesKept
<1>7. CASE \/ Cdc!SwitchSound \/ Cdc!SwitchBoot \/ Cdc!BeginSync \/ Cdc!BeginWait
           \/ Cdc!EndWait \/ Cdc!Stop
  <2>1. UNCHANGED <<sent, out, staged, passed>>
    BY <1>7 DEF Cdc!SwitchSound, Cdc!SwitchBoot, Cdc!BeginSync, Cdc!BeginWait,
                Cdc!EndWait, Cdc!Stop, Cdc!dsp, Cdc!host
  <2> QED BY <2>1 DEF Counted, Cdc!FramesKept
<1> QED BY <1>3, <1>4, <1>5, <1>6, <1>7 DEF Cdc!Next

(* The file of the recording. *)
LEMMA WavStep ==
  ASSUME Cdc!CodecAssumption, EveryBeat, Recorded, Cdc!Next
  PROVE  Recorded'
<1> DEFINE Front(s) == SubSeq(s, 1, IF Len(s) < MaxWav THEN Len(s) ELSE MaxWav)
<1>1. /\ played \in Seq(Nat) /\ blocks \in Seq(Nat) /\ MaxWav \in Nat
      /\ wavFrames = Len(wav) /\ wav = Front(played)
      /\ outPhase = "stopped" => header = Len(wav)
  BY DEF EveryBeat, Recorded, Cdc!RecordsOutput, Cdc!CodecAssumption
<1>2. ASSUME played' \in Seq(Nat), wavFrames' = Len(wav'), wav' = Front(played'),
             outPhase' = "stopped" => header' = Len(wav')
      PROVE  Recorded'
  BY <1>2 DEF Recorded, Cdc!RecordsOutput
<1>3. CASE Cdc!FlushAudio
  <2> DEFINE held == IF Len(played) < MaxWav THEN Len(played) ELSE MaxWav
             room == MaxWav - held
             more == IF Len(blocks) < room THEN Len(blocks) ELSE room
  <2>1. /\ Front(played) \o SubSeq(blocks, 1, more) = Front(played \o blocks)
        /\ held + more = Len(Front(played \o blocks))
        /\ Len(Front(played)) = held
    BY <1>1, RecordsFirst
  <2>2. wavFrames = held
    BY <1>1, <2>1
  <2>3. /\ played' = played \o blocks /\ outPhase' = "cpu"
        /\ wav' = wav \o SubSeq(blocks, 1, more) /\ wavFrames' = wavFrames + more
    BY <1>3, <2>2 DEF Cdc!FlushAudio, Cdc!Flushed, Cdc!Record
  <2>4. played' \in Seq(Nat)
    BY <1>1, <2>3, ConcatProperties
  <2> HIDE DEF Front, held, more
  <2>5. wav' = Front(played') /\ wavFrames' = Len(wav')
    BY <1>1, <2>1, <2>2, <2>3
  <2> QED BY <1>2, <2>3, <2>4, <2>5 DEF Front
<1>4. CASE Cdc!Start
  <2>1. played' = <<>> /\ wavFrames' = 0 /\ wav' = <<>> /\ outPhase' = "cpu"
    BY <1>4 DEF Cdc!Start
  <2>2. <<>> \in Seq(Nat) /\ Len(<<>>) = 0 /\ SubSeq(<<>>, 1, 0) = <<>>
    BY SubSeqEmpty
  <2>3. Front(<<>>) = <<>>
    BY <1>1, <2>2
  <2> QED BY <1>2, <2>1, <2>2, <2>3
<1>5. CASE Cdc!Stop
  <2>1. header' = wavFrames /\ UNCHANGED <<played, wavFrames, wav>>
    BY <1>5 DEF Cdc!Stop
  <2> QED BY <1>1, <1>2, <2>1
<1>6. CASE \/ Cdc!Run \/ Cdc!SwitchSound \/ Cdc!SwitchBoot \/ Cdc!BeginSync
           \/ Cdc!DrainAudio \/ Cdc!BeginWait \/ Cdc!EndWait
  <2>1. outPhase' # "stopped" /\ UNCHANGED <<played, wavFrames, wav>>
    BY <1>6 DEF Cdc!Run, Cdc!SwitchSound, Cdc!SwitchBoot, Cdc!BeginSync, Cdc!DrainAudio,
                Cdc!BeginWait, Cdc!EndWait, Cdc!host
  <2> QED BY <1>1, <1>2, <2>1
<1> QED BY <1>3, <1>4, <1>5, <1>6 DEF Cdc!Next

LEMMA OutputStepped ==
  ASSUME Cdc!CodecAssumption
  PROVE  OutputInv /\ [Cdc!Next]_Cdc!vars => OutputInv'
<1> SUFFICES ASSUME OutputInv, [Cdc!Next]_Cdc!vars PROVE OutputInv'
  OBVIOUS
<1>1. OnBeat /\ EveryBeat /\ Counted /\ Recorded
  BY DEF OutputInv
<1>2. CASE UNCHANGED Cdc!vars
  BY <1>2 DEF OutputInv, OnBeat, EveryBeat, Counted, Recorded, OutBeat, Frames,
       Cdc!FramesKept, Cdc!RecordsOutput, Cdc!vars, Cdc!dsp, Cdc!host
<1>3. CASE Cdc!Next
  <2>1. Counted' /\ Recorded'
    BY <1>1, <1>3, EssiStep, WavStep
  <2>2. CASE Cdc!Run
    <3>1. Cdc!Turn /\ played' = played
      BY <2>2 DEF Cdc!Run, Cdc!host
    <3> QED BY <1>1, <2>1, <3>1, BeatStep DEF OutputInv
  <2>3. CASE \/ Cdc!SwitchSound \/ Cdc!SwitchBoot \/ Cdc!BeginSync \/ Cdc!DrainAudio
             \/ Cdc!BeginWait \/ Cdc!EndWait \/ Cdc!Stop
    <3>1. UNCHANGED <<cycles, nextBeat, blocks, played, silent>>
      BY <2>3 DEF Cdc!SwitchSound, Cdc!SwitchBoot, Cdc!BeginSync, Cdc!DrainAudio,
                  Cdc!BeginWait, Cdc!EndWait, Cdc!Stop, Cdc!dsp, Cdc!host
    <3> QED BY <1>1, <2>1, <3>1, BeatStays DEF OutputInv
  <2>4. CASE Cdc!FlushAudio
    <3>1. /\ played' = played \o blocks /\ blocks' = <<>>
          /\ UNCHANGED <<cycles, nextBeat, silent>>
      BY <2>4 DEF Cdc!FlushAudio, Cdc!Flushed
    <3>2. played' \in Seq(Nat) /\ blocks' \in Seq(Nat)
      BY <1>1, <3>1, ConcatProperties DEF EveryBeat
    <3>3. Frames' = Frames
      BY <3>1, <3>2, ConcatEmptySeq DEF Frames
    <3>4. OutBeat' = OutBeat
      BY <3>1 DEF OutBeat
    <3>5. EveryBeat'
      BY <1>1, <3>1, <3>2, <3>3, <3>4 DEF EveryBeat
    <3>6. OnBeat'
      BY <1>1, <3>1, <3>4 DEF OnBeat
    <3> QED BY <2>1, <3>5, <3>6 DEF OutputInv
  <2>5. CASE Cdc!Start
    <3>1. /\ cycles' = 0 /\ nextBeat' = 0 /\ blocks' = <<>> /\ played' = <<>>
          /\ silent' = {}
      BY <2>5 DEF Cdc!Start
    <3>2. Period \in Nat \ {0} /\ OutputStep \in Nat \ {0}
      BY DEF Cdc!CodecAssumption
    <3>3. <<>> \in Seq(Nat) /\ Len(<<>>) = 0
      OBVIOUS
    <3>4. OutBeat' = 0
      <4>1. Period * 0 = 0 /\ 0 \in Nat /\ 0 \in Int
        BY <3>2
      <4>2. 0 \div Period = 0
        BY <3>2, <4>1, PeriodIs
      <4> QED BY <3>1, <4>2 DEF OutBeat, Cdc!BlockOf
    <3>5. OnBeat'
      BY <3>1, <3>2, <3>4 DEF OnBeat
    <3>6. Frames' = <<>>
      BY <3>1, <3>3, ConcatEmptySeq DEF Frames
    <3>7. EveryBeat'
      BY <3>1, <3>3, <3>4, <3>6 DEF EveryBeat, Ascending, Below, Holds
    <3> QED BY <2>1, <3>5, <3>7 DEF OutputInv
  <2> QED BY <1>3, <2>2, <2>3, <2>4, <2>5 DEF Cdc!Next
<1> QED BY <1>2, <1>3

(* What leaves the last DSP reaches the host whole (tapBlock, drainAudio,  *)
(* flushAudio, finishWav): the frame of every beat once and in order, on   *)
(* the beat, what the ESSIs have sent, and a recording of the first        *)
(* frames, for any period, step, syncs, waits, and length of the file.     *)
THEOREM OutputIsWhole ==
  ASSUME Cdc!CodecAssumption
  PROVE  Cdc!Spec => []OutputWhole
<1>1. ASSUME OutputInv PROVE OutputWhole
  <2>1. Cdc!FramesInOrder
    <3>1. played \in Seq(Nat) /\ blocks \in Seq(Nat)
      BY <1>1 DEF OutputInv, EveryBeat
    <3>2. Frames \in Seq(Nat)
      BY <3>1, Joined DEF Frames
    <3>3. /\ DOMAIN Frames = 1 .. Len(Frames)
          /\ \A i \in 1 .. Len(Frames) : Frames[i] \in Nat
      BY <3>2, NumbersOf
    <3>4. OutBeat \in Nat
      BY <1>1, InPeriod DEF Cdc!CodecAssumption, OutputInv, OnBeat, OutBeat, Cdc!BlockOf
    <3>5. \A i, j \in DOMAIN Frames : i < j => Frames[i] < Frames[j]
      BY <1>1, <3>3 DEF OutputInv, EveryBeat, Ascending
    <3>6. ASSUME NEW b \in {Frames[i] : i \in DOMAIN Frames} \cup silent
          PROVE  b \in 0 .. OutBeat - 1
      <4>1. b \in Nat /\ b < OutBeat
        BY <1>1, <3>3 DEF OutputInv, EveryBeat, Below
      <4> QED BY <3>4, <4>1
    <3>7. ASSUME NEW b \in 0 .. OutBeat - 1
          PROVE  b \in {Frames[i] : i \in DOMAIN Frames} \cup silent
      <4>1. b \in Nat /\ b < OutBeat
        BY <3>4
      <4> QED BY <1>1, <3>3, <4>1 DEF OutputInv, EveryBeat, Holds
    <3>8. {Frames[i] : i \in DOMAIN Frames} \cup silent = 0 .. OutBeat - 1
      BY <3>6, <3>7
    <3> QED BY <3>5, <3>8 DEF Cdc!FramesInOrder, Frames, OutBeat
  <2>2. Cdc!BeatKept
    <3>1. /\ cycles \in Nat /\ nextBeat \in Nat /\ OutputStep \in Nat
          /\ cycles < nextBeat + OutputStep /\ nextBeat <= cycles + Period
      BY <1>1 DEF Cdc!CodecAssumption, OutputInv, OnBeat
    <3>2. cycles - OutputStep < nextBeat
      BY <3>1
    <3> QED BY <3>1, <3>2 DEF Cdc!BeatKept
  <2>3. Cdc!FramesKept /\ Cdc!RecordsOutput
    BY <1>1 DEF OutputInv, Counted, Recorded
  <2> QED BY <2>1, <2>2, <2>3 DEF OutputWhole, Cdc!OutputWhole
<1>2. OutputInv => OutputWhole
  BY <1>1
<1> QED BY <1>2, OutputBegun, OutputStepped, PTL DEF Cdc!Spec
=============================================================================
