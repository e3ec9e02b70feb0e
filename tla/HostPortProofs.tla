--------------------------- MODULE HostPortProofs ---------------------------
(***************************************************************************)
(* Proofs about the host port of a DSP: what its status tells the CPU, and *)
(* that the words cross it in order, through any number of programs and of *)
(* nested calls, for any lengths of the waits.                             *)
(***************************************************************************)
EXTENDS HostPort, SequenceTheorems, TLAPS

(* The words of the calls under way. *)
Coming(t) == [i \in DOMAIN t |-> t[i].word]

(* What armBoot makes of the words in the port. *)
Calls(s) == [i \in DOMAIN s |-> [word |-> s[i], left |-> Unstarted]]

-----------------------------------------------------------------------------
(* Sequences *)

(* A sequence is its first element and the rest. *)
LEMMA FirstAndRest ==
  ASSUME NEW S, NEW s \in Seq(S), s # <<>>
  PROVE  /\ Head(s) \in S /\ Head(s) = s[1]
         /\ Tail(s) \in Seq(S) /\ Len(s) \in Nat \ {0}
         /\ Len(Tail(s)) = Len(s) - 1
         /\ \A i \in 1 .. Len(s) - 1 : Tail(s)[i] = s[i + 1]
<1>1. Len(s) \in Nat \ {0}
  BY EmptySeq
<1>2. /\ Head(s) \in S /\ Tail(s) \in Seq(S) /\ Len(Tail(s)) = Len(s) - 1
      /\ \A i \in 1 .. Len(Tail(s)) : Tail(s)[i] = s[i + 1]
  BY HeadTailProperties
<1>3. Head(s) = s[1]
  OBVIOUS
<1> QED BY <1>1, <1>2, <1>3

LEMMA Nonempty ==
  ASSUME NEW S, NEW s \in Seq(S)
  PROVE  Len(s) \in Nat /\ (s = <<>> <=> Len(s) = 0)
BY EmptySeq

(* The front of two sequences one after the other. *)
LEMMA FrontOf ==
  ASSUME NEW S, NEW s \in Seq(S), NEW t \in Seq(S), s # <<>>
  PROVE  s \o t # <<>> /\ Head(s \o t) = Head(s) /\ Tail(s \o t) = Tail(s) \o t
<1>1. /\ Head(s) = s[1] /\ Tail(s) \in Seq(S) /\ Len(s) \in Nat \ {0}
      /\ Len(Tail(s)) = Len(s) - 1
      /\ \A i \in 1 .. Len(s) - 1 : Tail(s)[i] = s[i + 1]
  BY FirstAndRest
<1>2. Len(t) \in Nat
  BY LenProperties
<1> DEFINE w == s \o t
           v == Tail(s) \o t
<1>3. /\ w \in Seq(S) /\ Len(w) = Len(s) + Len(t)
      /\ \A i \in 1 .. Len(s) + Len(t) :
           w[i] = IF i <= Len(s) THEN s[i] ELSE t[i - Len(s)]
  BY ConcatProperties
<1>4. /\ v \in Seq(S) /\ Len(v) = Len(Tail(s)) + Len(t)
      /\ \A i \in 1 .. Len(Tail(s)) + Len(t) :
           v[i] = IF i <= Len(Tail(s)) THEN Tail(s)[i] ELSE t[i - Len(Tail(s))]
  BY <1>1, ConcatProperties
<1> HIDE DEF w, v
<1>5. w # <<>>
  BY <1>1, <1>2, <1>3, Nonempty
<1>6. /\ Head(w) = w[1] /\ Tail(w) \in Seq(S) /\ Len(Tail(w)) = Len(w) - 1
      /\ \A i \in 1 .. Len(w) - 1 : Tail(w)[i] = w[i + 1]
  BY <1>3, <1>5, FirstAndRest
<1>7. Head(w) = Head(s)
  BY <1>1, <1>2, <1>3, <1>6
<1>8. Len(Tail(w)) = Len(v)
  BY <1>1, <1>2, <1>3, <1>4, <1>6
<1>9. ASSUME NEW i \in 1 .. Len(Tail(w)) PROVE Tail(w)[i] = v[i]
  <2>1. CASE i <= Len(s) - 1
    BY <1>1, <1>2, <1>3, <1>4, <1>6, <2>1
  <2>2. CASE i > Len(s) - 1
    <3>1. /\ i \in Int /\ i + 1 \in 1 .. Len(s) + Len(t) /\ ~(i + 1 <= Len(s))
          /\ i \in 1 .. Len(Tail(s)) + Len(t) /\ ~(i <= Len(Tail(s)))
      BY <1>1, <1>2, <1>3, <1>6, <2>2
    <3>2. (i + 1) - Len(s) = i - Len(Tail(s))
      BY <1>1, <3>1
    <3>3. Tail(w)[i] = t[(i + 1) - Len(s)]
      BY <1>1, <1>2, <1>3, <1>6, <3>1
    <3>4. v[i] = t[i - Len(Tail(s))]
      BY <1>4, <3>1
    <3> QED BY <3>2, <3>3, <3>4
  <2> QED BY <1>1, <2>1, <2>2
<1>10. Tail(w) = v
  BY <1>4, <1>6, <1>8, <1>9, SeqEqual
<1> QED BY <1>5, <1>7, <1>10 DEF w, v

(* An element that moves from the front of the second to the end of the    *)
(* first leaves the two, one after the other, as they are.                 *)
LEMMA Moved ==
  ASSUME NEW S, NEW s \in Seq(S), NEW t \in Seq(S), t # <<>>
  PROVE  Append(s, Head(t)) \o Tail(t) = s \o t
<1>1. Head(t) \in S /\ Tail(t) \in Seq(S)
  BY FirstAndRest
<1>2. Append(s, Head(t)) = s \o <<Head(t)>>
  BY <1>1, AppendIsConcat
<1>3. t = <<Head(t)>> \o Tail(t)
  <2>1. t = Append(<<>>, Head(t)) \o Tail(t)
    BY HeadTailAppend
  <2> QED BY <1>1
<1>4. <<Head(t)>> \in Seq(S)
  BY <1>1
<1>5. (s \o <<Head(t)>>) \o Tail(t) = s \o (<<Head(t)>> \o Tail(t))
  BY <1>1, <1>4, ConcatAssociative
<1> QED BY <1>2, <1>3, <1>5

-----------------------------------------------------------------------------
(* The calls under way *)

LEMMA DeliveryWord ==
  /\ \A d \in Delivery : d.word \in Words /\ d.left \in Int
  /\ \A w \in Words : [word |-> w, left |-> Unstarted] \in Delivery
BY PortAssumption DEF Delivery, Unstarted

LEMMA ComingType ==
  ASSUME NEW t \in Seq(Delivery)
  PROVE  /\ Coming(t) \in Seq(Words) /\ Len(Coming(t)) = Len(t) /\ Len(t) \in Nat
         /\ \A i \in 1 .. Len(t) : Coming(t)[i] = t[i].word
<1>1. Len(t) \in Nat /\ DOMAIN t = 1 .. Len(t)
  BY LenProperties
<1>2. \A i \in 1 .. Len(t) : t[i] \in Delivery
  BY ElementOfSeq
<1>3. \A i \in 1 .. Len(t) : t[i].word \in Words
  BY <1>2, DeliveryWord
<1> DEFINE n == Len(t)
           c == [i \in 1 .. n |-> t[i].word]
<1>4. c \in [1 .. n -> Words]
  BY <1>3
<1>5. Coming(t) = c
  BY <1>1 DEF Coming
<1> HIDE DEF c
<1>6. c \in Seq(Words)
  BY <1>1, <1>4, SeqDef
<1>7. Len(c) = n
  BY <1>1, <1>4, <1>6
<1> QED BY <1>1, <1>5, <1>6, <1>7 DEF c

LEMMA CallsType ==
  ASSUME NEW s \in Seq(Words)
  PROVE  /\ Calls(s) \in Seq(Delivery) /\ Len(Calls(s)) = Len(s) /\ Len(s) \in Nat
         /\ \A i \in 1 .. Len(s) : Calls(s)[i].word = s[i]
<1>1. Len(s) \in Nat /\ DOMAIN s = 1 .. Len(s)
  BY LenProperties
<1>2. \A i \in 1 .. Len(s) : s[i] \in Words
  BY ElementOfSeq
<1>3. \A i \in 1 .. Len(s) : [word |-> s[i], left |-> Unstarted] \in Delivery
  BY <1>2, DeliveryWord
<1> DEFINE n == Len(s)
           c == [i \in 1 .. n |-> [word |-> s[i], left |-> Unstarted]]
<1>4. c \in [1 .. n -> Delivery]
  BY <1>3
<1>5. Calls(s) = c
  BY <1>1 DEF Calls
<1>6. \A i \in 1 .. n : c[i].word = s[i]
  OBVIOUS
<1> HIDE DEF c
<1>7. c \in Seq(Delivery)
  BY <1>1, <1>4, SeqDef
<1>8. Len(c) = n
  BY <1>1, <1>4, <1>7
<1> QED BY <1>1, <1>5, <1>6, <1>7, <1>8

LEMMA ComingFront ==
  ASSUME NEW t \in Seq(Delivery), t # <<>>
  PROVE  /\ Coming(t) # <<>> /\ Head(Coming(t)) = Head(t).word
         /\ Tail(t) \in Seq(Delivery) /\ Len(Tail(t)) = Len(t) - 1
         /\ Coming(Tail(t)) = Tail(Coming(t))
<1>1. /\ Len(t) \in Nat \ {0} /\ Head(t) = t[1] /\ Tail(t) \in Seq(Delivery)
      /\ Len(Tail(t)) = Len(t) - 1
      /\ \A i \in 1 .. Len(t) - 1 : Tail(t)[i] = t[i + 1]
  BY FirstAndRest
<1> DEFINE c == Coming(t)
           r == Coming(Tail(t))
<1>2. /\ c \in Seq(Words) /\ Len(c) = Len(t)
      /\ \A i \in 1 .. Len(t) : c[i] = t[i].word
  BY ComingType
<1>3. /\ r \in Seq(Words) /\ Len(r) = Len(Tail(t))
      /\ \A i \in 1 .. Len(Tail(t)) : r[i] = Tail(t)[i].word
  BY <1>1, ComingType
<1> HIDE DEF c, r
<1>4. c # <<>>
  BY <1>1, <1>2, Nonempty
<1>5. /\ Head(c) = c[1] /\ Tail(c) \in Seq(Words) /\ Len(Tail(c)) = Len(c) - 1
      /\ \A i \in 1 .. Len(c) - 1 : Tail(c)[i] = c[i + 1]
  BY <1>2, <1>4, FirstAndRest
<1>6. Len(r) = Len(Tail(c))
  BY <1>1, <1>2, <1>3, <1>5
<1>7. ASSUME NEW i \in 1 .. Len(r) PROVE r[i] = Tail(c)[i]
  <2>1. i \in 1 .. Len(t) - 1 /\ i + 1 \in 1 .. Len(t)
    BY <1>1, <1>3
  <2> QED BY <1>1, <1>2, <1>3, <1>5, <2>1
<1>8. r = Tail(c)
  BY <1>3, <1>5, <1>6, <1>7, SeqEqual
<1>9. Head(c) = Head(t).word
  BY <1>1, <1>2, <1>5
<1> QED BY <1>1, <1>4, <1>8, <1>9 DEF c, r

LEMMA ComingOf ==
  ASSUME NEW s \in Seq(Delivery), NEW t \in Seq(Delivery)
  PROVE  /\ s \o t \in Seq(Delivery) /\ Len(s \o t) = Len(s) + Len(t)
         /\ Coming(s \o t) = Coming(s) \o Coming(t)
<1> DEFINE st == s \o t
           p == Coming(s)
           q == Coming(t)
           c == Coming(st)
           d == p \o q
<1>1. /\ st \in Seq(Delivery) /\ Len(st) = Len(s) + Len(t)
      /\ \A i \in 1 .. Len(s) + Len(t) :
           st[i] = IF i <= Len(s) THEN s[i] ELSE t[i - Len(s)]
  BY ConcatProperties
<1>2. /\ p \in Seq(Words) /\ Len(p) = Len(s) /\ Len(s) \in Nat
      /\ \A i \in 1 .. Len(s) : p[i] = s[i].word
  BY ComingType
<1>3. /\ q \in Seq(Words) /\ Len(q) = Len(t) /\ Len(t) \in Nat
      /\ \A i \in 1 .. Len(t) : q[i] = t[i].word
  BY ComingType
<1> HIDE DEF st, p, q
<1>10. p \in Seq(Words) /\ q \in Seq(Words)
  BY <1>2, <1>3
<1>4. /\ d \in Seq(Words) /\ Len(d) = Len(p) + Len(q)
      /\ \A i \in 1 .. Len(p) + Len(q) :
           d[i] = IF i <= Len(p) THEN p[i] ELSE q[i - Len(p)]
  BY <1>10, ConcatProperties
<1>5. /\ c \in Seq(Words) /\ Len(c) = Len(st)
      /\ \A i \in 1 .. Len(st) : c[i] = st[i].word
  BY <1>1, ComingType
<1> HIDE DEF c, d
<1>6. Len(c) = Len(d)
  BY <1>1, <1>2, <1>3, <1>4, <1>5
<1>7. ASSUME NEW i \in 1 .. Len(c) PROVE c[i] = d[i]
  <2>1. /\ i \in 1 .. Len(s) + Len(t) /\ i \in 1 .. Len(p) + Len(q)
        /\ i \in 1 .. Len(st) /\ i \in Int
    BY <1>1, <1>2, <1>3, <1>5
  <2>2. CASE i <= Len(s)
    <3>1. c[i] = s[i].word
      BY <1>1, <1>5, <2>1, <2>2
    <3>2. d[i] = p[i] /\ i \in 1 .. Len(s)
      BY <1>2, <1>4, <2>1, <2>2
    <3> QED BY <1>2, <3>1, <3>2
  <2>3. CASE ~(i <= Len(s))
    <3>1. c[i] = t[i - Len(s)].word
      BY <1>1, <1>5, <2>1, <2>3
    <3>2. d[i] = q[i - Len(s)] /\ i - Len(s) \in 1 .. Len(t)
      BY <1>2, <1>3, <1>4, <2>1, <2>3
    <3> QED BY <1>3, <3>1, <3>2
  <2> QED BY <2>2, <2>3
<1>8. c = d
  BY <1>4, <1>5, <1>6, <1>7, SeqEqual
<1> QED BY <1>1, <1>8 DEF c, d, st, p, q

(* What armBoot does with the words in the port keeps them, in front. *)
LEMMA ComingCalls ==
  ASSUME NEW s \in Seq(Words), NEW t \in Seq(Delivery)
  PROVE  /\ Calls(s) \o t \in Seq(Delivery) /\ Len(Calls(s) \o t) = Len(s) + Len(t)
         /\ Coming(Calls(s) \o t) = s \o Coming(t)
<1> DEFINE k == Calls(s)
<1>1. /\ k \in Seq(Delivery) /\ Len(k) = Len(s) /\ Len(s) \in Nat
      /\ \A i \in 1 .. Len(s) : k[i].word = s[i]
  BY CallsType
<1> HIDE DEF k
<1>2. k \o t \in Seq(Delivery) /\ Len(k \o t) = Len(k) + Len(t) /\ Coming(k \o t) = Coming(k) \o Coming(t)
  BY <1>1, ComingOf
<1>3. /\ Coming(k) \in Seq(Words) /\ Len(Coming(k)) = Len(k)
      /\ \A i \in 1 .. Len(k) : Coming(k)[i] = k[i].word
  BY <1>1, ComingType
<1>4. Coming(k) = s
  BY <1>1, <1>3, SeqEqual
<1> QED BY <1>1, <1>2, <1>4 DEF k

(* The time left is no part of the words. *)
LEMMA SameWords ==
  ASSUME NEW t \in Seq(Delivery), NEW u \in Seq(Delivery), Len(u) = Len(t),
         \A i \in 1 .. Len(t) : u[i].word = t[i].word
  PROVE  Coming(u) = Coming(t)
<1>1. /\ Coming(t) \in Seq(Words) /\ Len(Coming(t)) = Len(t)
      /\ \A i \in 1 .. Len(t) : Coming(t)[i] = t[i].word
  BY ComingType
<1>2. /\ Coming(u) \in Seq(Words) /\ Len(Coming(u)) = Len(u)
      /\ \A i \in 1 .. Len(u) : Coming(u)[i] = u[i].word
  BY ComingType
<1> QED BY <1>1, <1>2, SeqEqual

(* The waits that go on as the time of a turn passes. *)
Passed(d) == [d EXCEPT !.left = IF @ > 0 THEN @ - 1 ELSE @]
Spent(t) == [i \in DOMAIN t |-> Passed(t[i])]

LEMMA PassedType ==
  ASSUME NEW d \in Delivery
  PROVE  Passed(d) \in Delivery /\ Passed(d).word = d.word
BY PortAssumption DEF Passed, Delivery, Unstarted

LEMMA SpentType ==
  ASSUME NEW t \in Seq(Delivery)
  PROVE  Spent(t) \in Seq(Delivery) /\ Len(Spent(t)) = Len(t) /\ Coming(Spent(t)) = Coming(t)
<1>1. Len(t) \in Nat /\ DOMAIN t = 1 .. Len(t)
  BY LenProperties
<1>2. \A i \in 1 .. Len(t) : t[i] \in Delivery
  BY ElementOfSeq
<1>3. \A i \in 1 .. Len(t) : Passed(t[i]) \in Delivery /\ Passed(t[i]).word = t[i].word
  BY <1>2, PassedType
<1> DEFINE n == Len(t)
           c == [i \in 1 .. n |-> Passed(t[i])]
<1>4. c \in [1 .. n -> Delivery]
  BY <1>3
<1>5. Spent(t) = c
  BY <1>1 DEF Spent
<1>6. \A i \in 1 .. n : c[i].word = t[i].word
  BY <1>3
<1> HIDE DEF c
<1>7. c \in Seq(Delivery)
  BY <1>1, <1>4, SeqDef
<1>8. Len(c) = n
  BY <1>1, <1>4, <1>7
<1>9. Coming(c) = Coming(t)
  BY <1>6, <1>7, <1>8, SameWords
<1> QED BY <1>5, <1>7, <1>8, <1>9

(* hostWord begins to wait. *)
Called(t) == [t EXCEPT ![1].left = Clamp]

LEMMA CalledOne ==
  ASSUME NEW d \in Delivery
  PROVE  [d EXCEPT !.left = Clamp] \in Delivery /\ [d EXCEPT !.left = Clamp].word = d.word
BY PortAssumption DEF Delivery, Unstarted

LEMMA CalledType ==
  ASSUME NEW t \in Seq(Delivery), t # <<>>
  PROVE  Called(t) \in Seq(Delivery) /\ Len(Called(t)) = Len(t) /\ Coming(Called(t)) = Coming(t)
<1>1. Len(t) \in Nat \ {0}
  BY FirstAndRest
<1>2. 1 \in 1 .. Len(t)
  BY <1>1
<1>3. t[1] \in Delivery
  BY <1>2, ElementOfSeq
<1> DEFINE e == [t[1] EXCEPT !.left = Clamp]
           c == [t EXCEPT ![1] = e]
<1>4. e \in Delivery /\ e.word = t[1].word
  BY <1>3, CalledOne
<1>5. Called(t) = c
  BY DEF Called
<1> HIDE DEF e
<1>6. /\ c \in Seq(Delivery) /\ Len(c) = Len(t)
      /\ \A i \in 1 .. Len(t) : c[i] = IF i = 1 THEN e ELSE t[i]
  BY <1>2, <1>4, ExceptSeq
<1> HIDE DEF c
<1>7. \A i \in 1 .. Len(t) : c[i].word = t[i].word
  BY <1>4, <1>6
<1>8. Coming(c) = Coming(t)
  BY <1>6, <1>7, SameWords
<1> QED BY <1>5, <1>6, <1>8

-----------------------------------------------------------------------------
(* The status: what the port holds counts the words in it and those that   *)
(* the calls under way are yet to put there.  Boots move words from the    *)
(* one to the other, and only a new access of the CPU adds one.            *)
OnTheWay == Len(rx) + Len(todo)

PortInv ==
  /\ rx \in Seq(Words) /\ todo \in Seq(Delivery)
  /\ OnTheWay <= MaxDepth
  /\ NoWordStranded
  /\ op = "idle" => todo = <<>>
  /\ status = "trdy" => OnTheWay = 0
  /\ status = "txde" => OnTheWay <= 1
  /\ ~unasked => OnTheWay <= 2

LEMMA Lengths ==
  ASSUME PortInv
  PROVE  /\ Len(rx) \in Nat /\ (rx = <<>> <=> Len(rx) = 0)
         /\ Len(todo) \in Nat /\ (todo = <<>> <=> Len(todo) = 0)
         /\ OnTheWay \in Nat
<1>1. rx \in Seq(Words) /\ todo \in Seq(Delivery)
  BY DEF PortInv
<1>2. Len(rx) \in Nat /\ (rx = <<>> <=> Len(rx) = 0)
  BY <1>1, Nonempty
<1>3. Len(todo) \in Nat /\ (todo = <<>> <=> Len(todo) = 0)
  BY <1>1, Nonempty
<1> QED BY <1>2, <1>3 DEF OnTheWay

(* A step after which there is no more on the way. *)
LEMMA NoMore ==
  ASSUME PortInv,
         rx' \in Seq(Words), todo' \in Seq(Delivery), OnTheWay' <= OnTheWay,
         NoWordStranded', op' = "idle" => todo' = <<>>,
         status' = status \/ status' = "none", unasked' = unasked
  PROVE  PortInv'
<1>1. OnTheWay \in Nat
  BY Lengths
<1>2. Len(rx') \in Nat /\ Len(todo') \in Nat
  BY LenProperties
<1>3. OnTheWay' \in Nat
  BY <1>2 DEF OnTheWay
<1>4. OnTheWay' <= MaxDepth
  BY <1>1, <1>3, PortAssumption DEF PortInv
<1>5. status' = "trdy" => OnTheWay' = 0
  BY <1>1, <1>3 DEF PortInv
<1>6. status' = "txde" => OnTheWay' <= 1
  BY <1>1, <1>3 DEF PortInv
<1>7. ~unasked' => OnTheWay' <= 2
  BY <1>1, <1>3 DEF PortInv
<1> QED BY <1>4, <1>5, <1>6, <1>7 DEF PortInv

(* The same, if it leaves the two sequences alone. *)
LEMMA NoneMoved ==
  ASSUME PortInv, UNCHANGED <<rx, todo, booted, unasked>>,
         op' = "idle" => todo = <<>>,
         status' = status \/ status' = "none"
  PROVE  PortInv'
<1>1. OnTheWay' = OnTheWay /\ OnTheWay \in Nat
  BY Lengths DEF OnTheWay
<1> QED BY <1>1, NoMore DEF PortInv, NoWordStranded

LEMMA RunningIsCalled ==
  ASSUME PortInv, Running
  PROVE  booted /\ op # "idle"
BY DEF PortInv, Running, WordWaits, OpWaits

LEMMA TurnOfProgram ==
  ASSUME PortInv, Turn
  PROVE  PortInv'
<1>1. booted /\ op # "idle" /\ UNCHANGED <<booted, op, status, unasked>>
  BY RunningIsCalled DEF Turn
<1>2. rx \in Seq(Words) /\ todo \in Seq(Delivery)
  BY DEF PortInv
<1>3. todo' = Spent(todo)
  BY DEF Turn, Spend, Spent, Passed
<1>4. todo' \in Seq(Delivery) /\ Len(todo') = Len(todo)
  BY <1>2, <1>3, SpentType
<1>5. rx' \in Seq(Words) /\ Len(rx') <= Len(rx) /\ Len(rx') \in Nat
  <2>1. CASE rx' = rx
    BY <1>2, <2>1, LenProperties
  <2>2. CASE rx # <<>> /\ rx' = Tail(rx)
    <3>1. /\ Tail(rx) \in Seq(Words) /\ Len(rx) \in Nat \ {0}
          /\ Len(Tail(rx)) = Len(rx) - 1
      BY <1>2, <2>2, FirstAndRest
    <3> QED BY <2>2, <3>1
  <2>3. rx' = rx \/ (rx # <<>> /\ rx' = Tail(rx))
    BY DEF Turn, ReadWord, WriteWord, Interrupts, Compute
  <2> QED BY <2>1, <2>2, <2>3
<1>6. OnTheWay' <= OnTheWay
  <2>1. Len(rx) \in Nat /\ Len(todo) \in Nat
    BY Lengths
  <2> QED BY <2>1, <1>4, <1>5 DEF OnTheWay
<1> QED BY <1>1, <1>4, <1>5, <1>6, NoMore DEF NoWordStranded

LEMMA Boot ==
  ASSUME PortInv, ArmBoot
  PROVE  PortInv' /\ Len(todo') = Len(rx) + Len(todo)
<1>1. op # "idle" /\ UNCHANGED <<op, status, unasked>> /\ rx' = <<>>
  BY RunningIsCalled DEF ArmBoot
<1>2. rx \in Seq(Words) /\ todo \in Seq(Delivery)
  BY DEF PortInv
<1>3. todo' = Calls(rx) \o todo
  BY DEF ArmBoot, Calls
<1>4. todo' \in Seq(Delivery) /\ Len(todo') = Len(rx) + Len(todo)
  BY <1>2, <1>3, ComingCalls
<1>5. rx' \in Seq(Words) /\ Len(rx') = 0
  BY <1>1
<1>6. OnTheWay' <= OnTheWay
  <2>1. Len(rx) \in Nat /\ Len(todo) \in Nat
    BY Lengths
  <2> QED BY <2>1, <1>4, <1>5 DEF OnTheWay
<1>7. NoWordStranded'
  BY <1>1 DEF NoWordStranded
<1> QED BY <1>1, <1>4, <1>5, <1>6, <1>7, NoMore

(* The word of the innermost call is gone. *)
LEMMA Handed ==
  ASSUME PortInv, todo # <<>>, Delivered
  PROVE  /\ todo' \in Seq(Delivery) /\ Len(todo) \in Nat /\ Len(todo') = Len(todo) - 1
         /\ Head(todo) \in Delivery /\ Head(todo).word \in Words
         /\ op' = "idle" => todo' = <<>>
<1>1. todo \in Seq(Delivery)
  BY DEF PortInv
<1>2. /\ Head(todo) \in Delivery /\ Tail(todo) \in Seq(Delivery)
      /\ Len(todo) \in Nat \ {0} /\ Len(Tail(todo)) = Len(todo) - 1
  BY <1>1, FirstAndRest
<1>3. ASSUME op' = "idle" PROVE todo' = <<>>
  <2>1. Len(todo) = 1
    BY <1>3 DEF PortInv, Delivered
  <2>2. Len(Tail(todo)) = 0
    BY <1>2, <2>1
  <2> QED BY <1>2, <2>2, Nonempty DEF Delivered
<1>4. Head(todo).word \in Words
  BY <1>2, DeliveryWord
<1> QED BY <1>2, <1>3, <1>4 DEF Delivered

LEMMA Feed ==
  ASSUME PortInv, FeedBoot
  PROVE  PortInv'
<1>1. todo # <<>> /\ Delivered /\ UNCHANGED <<rx, status, unasked>> /\ ~booted
  BY DEF FeedBoot
<1>2. /\ todo' \in Seq(Delivery) /\ Len(todo) \in Nat /\ Len(todo') = Len(todo) - 1
      /\ op' = "idle" => todo' = <<>>
  BY <1>1, Handed
<1>3. rx = <<>> /\ rx \in Seq(Words) /\ Len(rx) \in Nat
  BY <1>1, Lengths DEF PortInv, NoWordStranded
<1>4. OnTheWay' <= OnTheWay
  BY <1>1, <1>2, <1>3 DEF OnTheWay
<1>5. NoWordStranded'
  BY <1>1, <1>3 DEF NoWordStranded
<1> QED BY <1>1, <1>2, <1>3, <1>4, <1>5, NoMore

LEMMA CallWaits ==
  ASSUME PortInv, CallHostWord
  PROVE  PortInv'
<1>1. todo # <<>> /\ UNCHANGED <<booted, rx, op, status, unasked>> /\ op # "idle"
  BY DEF CallHostWord, dsp, PortInv
<1>2. rx \in Seq(Words) /\ todo \in Seq(Delivery)
  BY DEF PortInv
<1>3. todo' = Called(todo)
  BY DEF CallHostWord, Called
<1>4. todo' \in Seq(Delivery) /\ Len(todo') = Len(todo)
  BY <1>1, <1>2, <1>3, CalledType
<1>5. OnTheWay' <= OnTheWay
  BY <1>1, <1>4, Lengths DEF OnTheWay
<1> QED BY <1>1, <1>2, <1>4, <1>5, NoMore DEF PortInv, NoWordStranded

LEMMA Write ==
  ASSUME PortInv, WriteRx
  PROVE  PortInv' /\ rx' = Append(rx, Head(todo).word)
<1>1. /\ todo # <<>> /\ Delivered /\ UNCHANGED <<booted, status, unasked>>
      /\ booted /\ rx' = Append(rx, Head(todo).word)
  BY DEF WriteRx, dsp
<1>2. /\ todo' \in Seq(Delivery) /\ Len(todo) \in Nat /\ Len(todo') = Len(todo) - 1
      /\ Head(todo).word \in Words
      /\ op' = "idle" => todo' = <<>>
  BY <1>1, Handed
<1>3. rx \in Seq(Words) /\ Len(rx) \in Nat
  BY Lengths DEF PortInv
<1>4. rx' \in Seq(Words) /\ Len(rx') = Len(rx) + 1
  BY <1>1, <1>2, <1>3, AppendProperties
<1>5. OnTheWay' <= OnTheWay
  BY <1>2, <1>3, <1>4 DEF OnTheWay
<1>6. NoWordStranded'
  BY <1>1 DEF NoWordStranded
<1> QED BY <1>1, <1>2, <1>4, <1>5, <1>6, NoMore

(* A word the CPU sends: one more, and only if it may not believe that     *)
(* there is room, more than two.                                           *)
LEMMA Send ==
  ASSUME PortInv, NEW w \in Words, SendWord(w)
  PROVE  PortInv' /\ todo = <<>>
<1>1. /\ op = "idle" /\ op' = "word" /\ UNCHANGED <<booted, rx>> /\ status' = "none"
      /\ todo' = <<[word |-> w, left |-> Unstarted]>> /\ Len(rx) < MaxDepth
      /\ ~unasked' => ~unasked /\ status \in {"txde", "trdy"}
  BY DEF SendWord, Access, Call, dsp
<1>2. rx \in Seq(Words) /\ Len(rx) \in Nat /\ todo = <<>> /\ Len(todo) = 0
  BY <1>1, Lengths DEF PortInv
<1>3. [word |-> w, left |-> Unstarted] \in Delivery
  BY DeliveryWord
<1>4. todo' \in Seq(Delivery) /\ Len(todo') = 1
  BY <1>1, <1>3
<1>5. OnTheWay = Len(rx) /\ OnTheWay' = Len(rx) + 1
  BY <1>1, <1>2, <1>4 DEF OnTheWay
<1>6. OnTheWay' <= MaxDepth
  BY <1>1, <1>2, <1>5, PortAssumption
<1>7. ~unasked' => OnTheWay' <= 2
  <2>1. ~unasked' => Len(rx) <= 1
    BY <1>1, <1>2, <1>5 DEF PortInv
  <2> QED BY <1>2, <1>5, <2>1
<1>8. NoWordStranded'
  BY <1>1 DEF PortInv, NoWordStranded
<1> QED BY <1>1, <1>2, <1>4, <1>6, <1>7, <1>8 DEF PortInv

(* The status is what the port holds: no call is left under way. *)
LEMMA Isr ==
  ASSUME PortInv, EndIsr
  PROVE  PortInv'
<1>1. /\ todo = <<>> /\ UNCHANGED <<booted, rx, todo, unasked>>
      /\ status' = CASE Depth = 0 -> "trdy" [] Depth = 1 -> "txde" [] OTHER -> "busy"
  BY DEF EndIsr, EndAccess, dsp
<1>2. Len(rx) \in Nat /\ Len(todo) = 0 /\ (rx = <<>> => Len(rx) = 0) /\ OnTheWay \in Nat
  BY <1>1, Lengths
<1>3. OnTheWay' = OnTheWay /\ OnTheWay = Len(rx)
  BY <1>1, <1>2 DEF OnTheWay
<1>4. Depth = Len(rx)
  BY <1>2 DEF Depth, PortInv, NoWordStranded
<1>5. status' = "trdy" => Len(rx) = 0
  BY <1>1, <1>2, <1>4
<1>6. status' = "txde" => Len(rx) <= 1
  BY <1>1, <1>2, <1>4
<1> QED BY <1>1, <1>2, <1>3, <1>5, <1>6 DEF PortInv, NoWordStranded

LEMMA PortStep ==
  PortInv /\ [Next]_vars => PortInv'
<1> SUFFICES ASSUME PortInv, [Next]_vars PROVE PortInv'
  OBVIOUS
<1>1. CASE \E w \in Words : SendWord(w)
  BY <1>1, Send
<1>2. CASE SendCommand \/ PollIsr \/ ReadEmpty
  <2>1. /\ op = "idle" /\ op' # "idle" /\ status' = "none"
        /\ UNCHANGED <<rx, todo, booted, unasked>>
    BY <1>2 DEF SendCommand, PollIsr, ReadEmpty, Access, Call, dsp
  <2> QED BY <2>1, NoneMoved
<1>3. CASE Sync
  <2>1. /\ op = "idle" /\ op' # "idle" /\ status' = status
        /\ UNCHANGED <<rx, todo, booted, unasked>>
    BY <1>3 DEF Sync, Call, dsp
  <2> QED BY <2>1, NoneMoved
<1>4. CASE TakeWord
  <2>1. /\ op = "idle" /\ op' = op /\ status' = "none"
        /\ UNCHANGED <<rx, todo, booted, unasked>>
    BY <1>4 DEF TakeWord, dsp
  <2> QED BY <2>1, NoneMoved DEF PortInv
<1>5. CASE Turn
  BY <1>5, TurnOfProgram
<1>6. CASE Stall
  <2>1. op' = op /\ status' = status /\ UNCHANGED <<rx, todo, booted, unasked>>
    BY <1>6 DEF Stall
  <2> QED BY <2>1, NoneMoved DEF PortInv
<1>7. CASE ArmBoot
  BY <1>7, Boot
<1>8. CASE FeedBoot
  BY <1>8, Feed
<1>9. CASE CallHostWord
  BY <1>9, CallWaits
<1>10. CASE WriteRx
  BY <1>10, Write
<1>11. CASE EndCommand \/ EndRun
  <2>1. /\ todo = <<>> /\ op' = "idle" /\ status' = status
        /\ UNCHANGED <<rx, todo, booted, unasked>>
    BY <1>11 DEF EndCommand, EndRun, EndAccess, dsp
  <2> QED BY <2>1, NoneMoved
<1>12. CASE EndIsr
  BY <1>12, Isr
<1>13. CASE UNCHANGED vars
  <2>1. op' = op /\ status' = status /\ UNCHANGED <<rx, todo, booted, unasked>>
    BY <1>13 DEF vars
  <2> QED BY <2>1, NoneMoved DEF PortInv
<1> QED
  BY <1>1, <1>2, <1>3, <1>4, <1>5, <1>6, <1>7, <1>8, <1>9, <1>10, <1>11, <1>12, <1>13
  DEF Next, Begin, Proceed

LEMMA PortBegun ==
  Init => PortInv
<1>1. <<>> \in Seq(Words) /\ <<>> \in Seq(Delivery) /\ Len(<<>>) = 0
  OBVIOUS
<1> QED BY <1>1, PortAssumption DEF Init, PortInv, OnTheWay, NoWordStranded

LEMMA PortInvariant ==
  Spec => []PortInv
BY PortBegun, PortStep, PTL DEF Spec

(* While the boot ROM runs, no word waits in the port, where nothing would *)
(* ever read it: armBoot has taken them all, and hostWord gives the next   *)
(* ones to the ROM.                                                        *)
THEOREM RomStrandsNoWord == Spec => []NoWordStranded
<1>1. PortInv => NoWordStranded
  BY DEF PortInv
<1> QED BY <1>1, PortInvariant, PTL

(* What readIsr has told the CPU holds until it accesses the port again:   *)
(* after TRDY nothing is on the way, and a CPU that asks for TXDE before   *)
(* each word never has more than two words in the port.                    *)
THEOREM StatusHolds == Spec => []StatusTrue
<1>1. ASSUME PortInv PROVE StatusTrue
  <2>1. /\ Len(rx) \in Nat /\ (rx = <<>> <=> Len(rx) = 0)
        /\ Len(todo) \in Nat /\ (todo = <<>> <=> Len(todo) = 0)
    BY <1>1, Lengths
  <2>2. TrdyMeansTaken
    BY <1>1, <2>1 DEF PortInv, OnTheWay, TrdyMeansTaken
  <2>3. PortDepth
    <3>1. ~unasked => Len(rx) + Len(todo) <= 2
      BY <1>1 DEF PortInv, OnTheWay
    <3> QED BY <2>1, <3>1 DEF PortDepth
  <2> QED BY <2>2, <2>3 DEF StatusTrue
<1>2. PortInv => StatusTrue
  BY <1>1
<1> QED BY <1>2, PortInvariant, PTL

-----------------------------------------------------------------------------
(* The words sent by the CPU: the port's, and then those of the calls.     *)
Sent == rx \o Coming(todo)

LEMMA SentLength ==
  ASSUME PortInv
  PROVE  Sent \in Seq(Words) /\ Len(Sent) = OnTheWay /\ Coming(todo) \in Seq(Words)
<1>1. rx \in Seq(Words) /\ todo \in Seq(Delivery)
  BY DEF PortInv
<1>2. Coming(todo) \in Seq(Words) /\ Len(Coming(todo)) = Len(todo)
  BY <1>1, ComingType
<1>3. rx \in Seq(Words) /\ Coming(todo) \in Seq(Words)
  BY <1>1, <1>2
<1>4. Sent \in Seq(Words) /\ Len(Sent) = Len(rx) + Len(Coming(todo))
  BY <1>3, ConcatProperties DEF Sent
<1> QED BY <1>2, <1>4 DEF OnTheWay

SentNext ==
  \/ Sent # <<>> /\ fed' = Head(Sent) /\ Sent' = Tail(Sent)
  \/ \E w \in Words : Len(Sent) < MaxDepth /\ Sent' = Append(Sent, w) /\ fed' = fed
  \/ Sent' = Sent /\ fed' = fed

LEMMA SentBySend ==
  ASSUME PortInv, NEW w \in Words, SendWord(w)
  PROVE  SentNext
<1>1. /\ todo' = <<[word |-> w, left |-> Unstarted]>> /\ Len(rx) < MaxDepth
      /\ rx' = rx /\ fed' = fed
  BY DEF SendWord, Access, Call
<1>2. todo = <<>>
  BY Send
<1>3. rx \in Seq(Words)
  BY DEF PortInv
<1>4. Coming(todo) = <<>>
  BY <1>2 DEF Coming
<1>5. Coming(todo') = <<w>>
  BY <1>1 DEF Coming
<1>6. Sent = rx
  BY <1>3, <1>4, ConcatEmptySeq DEF Sent
<1>7. Sent' = rx \o <<w>>
  BY <1>1, <1>5 DEF Sent
<1>8. Append(rx, w) = rx \o <<w>>
  BY <1>3, AppendIsConcat
<1> QED BY <1>1, <1>6, <1>7, <1>8 DEF SentNext

LEMMA SentByTurn ==
  ASSUME PortInv, Turn
  PROVE  SentNext
<1>1. rx \in Seq(Words) /\ todo \in Seq(Delivery) /\ Coming(todo) \in Seq(Words)
  BY SentLength DEF PortInv
<1>2. todo' = Spent(todo)
  BY DEF Turn, Spend, Spent, Passed
<1>3. Coming(todo') = Coming(todo)
  BY <1>1, <1>2, SpentType
<1>4. CASE rx' = rx /\ fed' = fed
  BY <1>3, <1>4 DEF SentNext, Sent
<1>5. CASE ReadWord
  <2>1. rx # <<>> /\ rx' = Tail(rx) /\ fed' = Head(rx)
    BY <1>5 DEF ReadWord
  <2>2. /\ Sent # <<>> /\ Head(Sent) = Head(rx)
        /\ Tail(Sent) = Tail(rx) \o Coming(todo)
    BY <1>1, <2>1, FrontOf DEF Sent
  <2> QED BY <1>3, <2>1, <2>2 DEF SentNext, Sent
<1>6. (rx' = rx /\ fed' = fed) \/ ReadWord
  BY DEF Turn, WriteWord, Interrupts, Compute
<1> QED BY <1>4, <1>5, <1>6

LEMMA SentByBoot ==
  ASSUME PortInv, ArmBoot
  PROVE  SentNext
<1>1. rx \in Seq(Words) /\ todo \in Seq(Delivery)
  BY DEF PortInv
<1>2. todo' = Calls(rx) \o todo /\ rx' = <<>> /\ fed' = fed
  BY DEF ArmBoot, Calls
<1>3. Coming(todo') = rx \o Coming(todo)
  BY <1>1, <1>2, ComingCalls
<1>4. Sent \in Seq(Words)
  BY SentLength
<1>5. Sent' = <<>> \o Sent
  BY <1>2, <1>3 DEF Sent
<1>6. Sent' = Sent
  BY <1>4, <1>5, ConcatEmptySeq
<1> QED BY <1>2, <1>6 DEF SentNext

LEMMA SentByFeed ==
  ASSUME PortInv, FeedBoot
  PROVE  SentNext
<1>1. /\ todo # <<>> /\ todo' = Tail(todo) /\ rx' = rx /\ fed' = Head(todo).word
      /\ rx = <<>> /\ todo \in Seq(Delivery)
  BY DEF FeedBoot, Delivered, PortInv, NoWordStranded
<1>2. /\ Coming(todo) # <<>> /\ Head(Coming(todo)) = Head(todo).word
      /\ Coming(Tail(todo)) = Tail(Coming(todo)) /\ Tail(todo) \in Seq(Delivery)
  BY <1>1, ComingFront
<1>3. Coming(todo) \in Seq(Words)
  BY <1>1, ComingType
<1>4. Coming(Tail(todo)) \in Seq(Words)
  BY <1>2, ComingType
<1>5. Sent = Coming(todo)
  BY <1>1, <1>3, ConcatEmptySeq DEF Sent
<1>6. Sent' = <<>> \o Coming(Tail(todo))
  BY <1>1 DEF Sent
<1>7. Sent' = Coming(Tail(todo))
  BY <1>4, <1>6, ConcatEmptySeq
<1> QED BY <1>1, <1>2, <1>5, <1>7 DEF SentNext

LEMMA SentByCall ==
  ASSUME PortInv, CallHostWord
  PROVE  SentNext
<1>1. /\ todo # <<>> /\ todo \in Seq(Delivery) /\ rx' = rx /\ fed' = fed
      /\ todo' = Called(todo)
  BY DEF CallHostWord, PortInv, Called
<1>2. Coming(todo') = Coming(todo)
  BY <1>1, CalledType
<1> QED BY <1>1, <1>2 DEF SentNext, Sent

LEMMA SentByWrite ==
  ASSUME PortInv, WriteRx
  PROVE  SentNext
<1>1. /\ todo # <<>> /\ todo' = Tail(todo) /\ fed' = fed
      /\ todo \in Seq(Delivery) /\ rx \in Seq(Words)
      /\ rx' = Append(rx, Head(todo).word)
  BY DEF WriteRx, Delivered, PortInv
<1>2. /\ Coming(todo) # <<>> /\ Head(Coming(todo)) = Head(todo).word
      /\ Coming(Tail(todo)) = Tail(Coming(todo))
  BY <1>1, ComingFront
<1>3. Coming(todo) \in Seq(Words)
  BY <1>1, ComingType
<1>4. Append(rx, Head(Coming(todo))) \o Tail(Coming(todo)) = Sent
  BY <1>1, <1>2, <1>3, Moved DEF Sent
<1>5. Sent' = Sent
  BY <1>1, <1>2, <1>4 DEF Sent
<1> QED BY <1>1, <1>5 DEF SentNext

LEMMA SentStep ==
  PortInv /\ [Next]_vars => SentNext
<1> SUFFICES ASSUME PortInv, [Next]_vars PROVE SentNext
  OBVIOUS
<1>1. ASSUME UNCHANGED <<rx, todo, fed>> PROVE SentNext
  BY <1>1 DEF SentNext, Sent
<1>2. CASE \E w \in Words : SendWord(w)
  BY <1>2, SentBySend
<1>3. CASE SendCommand \/ PollIsr \/ ReadEmpty \/ Sync \/ TakeWord
  <2>1. UNCHANGED <<rx, todo, fed>>
    BY <1>3 DEF SendCommand, PollIsr, ReadEmpty, Sync, TakeWord, Access, Call
  <2> QED BY <1>1, <2>1
<1>4. CASE Turn
  BY <1>4, SentByTurn
<1>5. CASE ArmBoot
  BY <1>5, SentByBoot
<1>6. CASE FeedBoot
  BY <1>6, SentByFeed
<1>7. CASE CallHostWord
  BY <1>7, SentByCall
<1>8. CASE WriteRx
  BY <1>8, SentByWrite
<1>9. CASE Stall \/ EndCommand \/ EndIsr \/ EndRun
  <2>1. UNCHANGED <<rx, todo, fed>>
    BY <1>9 DEF Stall, EndCommand, EndIsr, EndRun, EndAccess
  <2> QED BY <1>1, <2>1
<1>10. CASE UNCHANGED vars
  BY <1>1, <1>10 DEF vars
<1> QED
  BY <1>2, <1>3, <1>4, <1>5, <1>6, <1>7, <1>8, <1>9, <1>10 DEF Next, Begin, Proceed

-----------------------------------------------------------------------------
(* The words written by the programs: the one in the CPU's register, and   *)
(* then those in the port.                                                 *)
Received == IF host = None THEN <<>> ELSE <<host>>
Written == Received \o tx

OutInv ==
  /\ tx \in Seq(Words) /\ Len(tx) <= MaxTx
  /\ host \in Words \cup {None}

WrittenNext ==
  \/ Written # <<>> /\ got' = Head(Written) /\ Written' = Tail(Written)
  \/ \E w \in Words : Len(Written) < MaxTx + 1 /\ Written' = Append(Written, w) /\ got' = got
  \/ Written' = Written /\ got' = got

LEMMA WrittenType ==
  ASSUME OutInv
  PROVE  /\ Received \in Seq(Words) /\ Len(Received) \in {0, 1}
         /\ tx \in Seq(Words) /\ Len(tx) \in Nat
         /\ Written \in Seq(Words) /\ Len(Written) = Len(Received) + Len(tx)
<1>1. Received \in Seq(Words) /\ Len(Received) \in {0, 1}
  <2>1. CASE host = None
    BY <2>1 DEF Received
  <2>2. CASE host # None
    BY <2>2 DEF Received, OutInv
  <2> QED BY <2>1, <2>2
<1>2. tx \in Seq(Words) /\ Len(tx) \in Nat
  BY LenProperties DEF OutInv
<1>3. Received \in Seq(Words) /\ tx \in Seq(Words)
  BY <1>1, <1>2
<1>4. Written \in Seq(Words) /\ Len(Written) = Len(Received) + Len(tx)
  BY <1>3, ConcatProperties DEF Written
<1> QED BY <1>1, <1>2, <1>4

LEMMA WrittenWord ==
  ASSUME OutInv, WriteWord, host' = host, got' = got
  PROVE  WrittenNext /\ OutInv'
<1>1. PICK w \in Words : tx' = Append(tx, w)
  BY DEF WriteWord
<1>2. Len(tx) < MaxTx
  BY DEF WriteWord
<1>3. Received \in Seq(Words) /\ tx \in Seq(Words) /\ <<w>> \in Seq(Words)
  BY WrittenType
<1>4. Len(Received) \in {0, 1} /\ Len(tx) \in Nat /\ Len(Written) = Len(Received) + Len(tx)
  BY WrittenType
<1>5. tx' = tx \o <<w>>
  BY <1>1, <1>3, AppendIsConcat
<1>6. (Received \o tx) \o <<w>> = Received \o (tx \o <<w>>)
  BY <1>3, ConcatAssociative
<1>7. Written \in Seq(Words)
  BY WrittenType
<1>8. Append(Written, w) = Written \o <<w>>
  BY <1>7, AppendIsConcat
<1>9. Written' = Append(Written, w)
  BY <1>5, <1>6, <1>8 DEF Written, Received
<1>10. Len(Written) < MaxTx + 1
  <2>1. ASSUME NEW a \in {0, 1}, NEW b \in Nat, b < MaxTx PROVE a + b < MaxTx + 1
    BY <2>1, PortAssumption
  <2>2. Len(Received) + Len(tx) < MaxTx + 1
    BY <1>2, <1>4, <2>1
  <2> QED BY <1>4, <2>2
<1>11. tx' \in Seq(Words) /\ Len(tx') = Len(tx) + 1
  BY <1>1, <1>3, AppendProperties
<1>12. Len(tx') <= MaxTx
  BY <1>2, <1>4, <1>11, PortAssumption
<1> QED BY <1>9, <1>10, <1>11, <1>12 DEF WrittenNext, OutInv

(* transferToHost moves the oldest word of the port to the register. *)
LEMMA Transferred ==
  ASSUME OutInv, Transfer, got' = got
  PROVE  WrittenNext /\ OutInv'
<1>1. CASE host = None /\ tx # <<>>
  <2>1. tx \in Seq(Words)
    BY DEF OutInv
  <2>2. /\ Head(tx) \in Words /\ Tail(tx) \in Seq(Words) /\ Len(tx) \in Nat
        /\ Len(Tail(tx)) = Len(tx) - 1
    BY <1>1, <2>1, FirstAndRest
  <2>3. host' = Head(tx) /\ tx' = Tail(tx) /\ Head(tx) # None
    BY <1>1, <2>2, PortAssumption DEF Transfer
  <2>4. Received = <<>> /\ Received' = <<Head(tx)>>
    BY <1>1, <2>3 DEF Received
  <2>5. Append(<<>>, Head(tx)) \o Tail(tx) = <<>> \o tx
    BY <1>1, <2>1, Moved
  <2>6. Append(<<>>, Head(tx)) = <<Head(tx)>>
    BY <2>2
  <2>7. Written' = Written
    BY <2>3, <2>4, <2>5, <2>6 DEF Written
  <2>8. Len(tx') <= MaxTx
    BY <2>2, <2>3, PortAssumption DEF OutInv
  <2> QED BY <2>2, <2>3, <2>7, <2>8 DEF WrittenNext, OutInv
<1>2. CASE UNCHANGED <<host, tx>>
  BY <1>2 DEF WrittenNext, Written, Received, OutInv
<1> QED BY <1>1, <1>2 DEF Transfer

LEMMA Taken ==
  ASSUME OutInv, TakeWord
  PROVE  WrittenNext /\ OutInv'
<1>1. host # None /\ got' = host /\ host \in Words /\ tx \in Seq(Words)
  BY DEF TakeWord, OutInv
<1>2. Received = <<host>> /\ <<host>> \in Seq(Words) /\ <<host>> # <<>>
      /\ Head(<<host>>) = host /\ Tail(<<host>>) = <<>>
  BY <1>1 DEF Received
<1>3. /\ Written # <<>> /\ Head(Written) = host
      /\ Tail(Written) = <<>> \o tx
  BY <1>1, <1>2, FrontOf DEF Written
<1>4. CASE tx = <<>>
  <2>1. host' = None /\ tx' = tx
    BY <1>4 DEF TakeWord
  <2>2. Written' = <<>> \o tx
    BY <2>1 DEF Written, Received
  <2> QED BY <1>1, <1>3, <2>1, <2>2 DEF WrittenNext, OutInv
<1>5. CASE tx # <<>>
  <2>1. host' = Head(tx) /\ tx' = Tail(tx)
    BY <1>5 DEF TakeWord
  <2>2. /\ Head(tx) \in Words /\ Tail(tx) \in Seq(Words) /\ Len(tx) \in Nat
        /\ Len(Tail(tx)) = Len(tx) - 1
    BY <1>1, <1>5, FirstAndRest
  <2>3. Head(tx) # None
    BY <2>2, PortAssumption
  <2>4. Append(<<>>, Head(tx)) \o Tail(tx) = <<>> \o tx
    BY <1>1, <1>5, Moved
  <2>5. Append(<<>>, Head(tx)) = <<Head(tx)>>
    BY <2>2
  <2>6. Written' = <<>> \o tx
    BY <2>1, <2>3, <2>4, <2>5 DEF Written, Received
  <2>7. Len(tx') <= MaxTx
    BY <2>1, <2>2, PortAssumption DEF OutInv
  <2> QED BY <1>1, <1>3, <2>1, <2>2, <2>6, <2>7 DEF WrittenNext, OutInv
<1> QED BY <1>4, <1>5

LEMMA WrittenStep ==
  OutInv /\ [Next]_vars => WrittenNext /\ OutInv'
<1> SUFFICES ASSUME OutInv, [Next]_vars PROVE WrittenNext /\ OutInv'
  OBVIOUS
<1>1. ASSUME UNCHANGED <<tx, host, got>> PROVE WrittenNext /\ OutInv'
  BY <1>1 DEF WrittenNext, Written, Received, OutInv
<1>2. CASE TakeWord
  BY <1>2, Taken
<1>3. CASE Turn /\ WriteWord
  BY <1>3, WrittenWord DEF Turn
<1>4. CASE EndCommand \/ EndIsr \/ EndRun
  <2>1. got' = got
    BY <1>4 DEF EndCommand, EndIsr, EndRun, EndAccess
  <2>2. Transfer \/ UNCHANGED <<tx, host, got>>
    BY <1>4, <2>1 DEF EndCommand, EndIsr, EndRun
  <2> QED BY <1>1, <2>1, <2>2, Transferred
<1>5. CASE \/ \E w \in Words : SendWord(w)
           \/ SendCommand \/ PollIsr \/ ReadEmpty \/ Sync
  <2>1. UNCHANGED <<tx, host, got>>
    BY <1>5 DEF SendWord, SendCommand, PollIsr, ReadEmpty, Sync, Access, Call
  <2> QED BY <1>1, <2>1
<1>6. CASE Turn /\ ~WriteWord
  <2>1. UNCHANGED <<tx, host, got>>
    BY <1>6 DEF Turn, ReadWord, Interrupts, Compute
  <2> QED BY <1>1, <2>1
<1>7. CASE Stall \/ ArmBoot \/ FeedBoot \/ CallHostWord \/ WriteRx
  <2>1. UNCHANGED <<tx, host, got>>
    BY <1>7 DEF Stall, ArmBoot, FeedBoot, CallHostWord, WriteRx
  <2> QED BY <1>1, <2>1
<1>8. CASE UNCHANGED vars
  BY <1>1, <1>8 DEF vars
<1> QED
  BY <1>2, <1>3, <1>4, <1>5, <1>6, <1>7, <1>8 DEF Next, Begin, Proceed

(* Each direction of the port is a bounded queue: no word of the CPU or of *)
(* a program is lost, none comes twice and none overtakes another, through *)
(* every jump to the boot ROM, the calls it nests, and every wait that is  *)
(* given up.                                                               *)
THEOREM PortIsTwoQueues == Spec => WordsArrive
<1>1. Init => Inbound!Init /\ Outbound!Init
  BY DEF Init, Inbound!Init, Outbound!Init
<1>2. Init => OutInv
  BY PortAssumption DEF Init, OutInv
<1>3. PortInv /\ [Next]_vars => [Inbound!Next]_Inbound!vars
  <2> SUFFICES ASSUME PortInv, SentNext PROVE [Inbound!Next]_Inbound!vars
    BY SentStep
  <2> QED BY DEF SentNext, Sent, Coming, Inbound!Next, Inbound!Put, Inbound!Take, Inbound!vars
<1>4. OutInv /\ [Next]_vars => [Outbound!Next]_Outbound!vars
  <2> SUFFICES ASSUME WrittenNext PROVE [Outbound!Next]_Outbound!vars
    BY WrittenStep
  <2> QED BY DEF WrittenNext, Written, Received, Outbound!Next, Outbound!Put,
                 Outbound!Take, Outbound!vars
<1>5. OutInv /\ [Next]_vars => OutInv'
  BY WrittenStep
<1>6. Spec => Inbound!Spec
  BY <1>1, <1>3, PortInvariant, PTL DEF Spec, Inbound!Spec
<1>7. Spec => Outbound!Spec
  BY <1>1, <1>2, <1>4, <1>5, PTL DEF Spec, Outbound!Spec
<1> QED BY <1>6, <1>7 DEF WordsArrive

-----------------------------------------------------------------------------
(* The other variables *)

CountInv ==
  /\ stalls \in {0, 1} /\ commands \in {0, 1} /\ irqs \in 0 .. MaxIrqs
  /\ left \in 0 .. LongestWait

FlagInv ==
  /\ booted \in BOOLEAN /\ jumped \in BOOLEAN /\ stalled \in BOOLEAN
  /\ unasked \in BOOLEAN
  /\ op \in {"idle", "word", "command", "isr", "rx", "sync"}
  /\ status \in {"none", "busy", "txde", "trdy"}

LastInv == fed \in Words \cup {None} /\ got \in Words \cup {None}

LEMMA LongestIs ==
  /\ LongestWait \in Nat
  /\ Clamp <= LongestWait /\ IsrClamp <= LongestWait /\ Quantum <= LongestWait
<1> DEFINE W == {Clamp, IsrClamp, Quantum}
<1>1. \E n \in W : \A k \in W : k <= n
  BY PortAssumption
<1>2. LongestWait \in W /\ \A k \in W : k <= LongestWait
  BY <1>1 DEF LongestWait
<1> QED BY <1>2, PortAssumption

LEMMA LeftOfAccess ==
  ASSUME NEW n, n = 0 \/ n = Clamp \/ n = IsrClamp \/ n \in 1 .. Quantum
  PROVE  n \in 0 .. LongestWait
BY LongestIs, PortAssumption

LEMMA CountStep ==
  CountInv /\ [Next]_vars => CountInv'
<1> SUFFICES ASSUME CountInv, [Next]_vars PROVE CountInv'
  OBVIOUS
<1> USE LongestIs DEF CountInv
<1>1. ASSUME NEW n, left' = n, n \in 0 .. LongestWait, UNCHANGED <<stalls, commands, irqs>>
      PROVE  CountInv'
  BY <1>1
<1>2. CASE \E w \in Words : SendWord(w)
  <2>1. left' = 0 /\ UNCHANGED <<stalls, commands, irqs>>
    BY <1>2 DEF SendWord, Access, Call, dsp
  <2> QED BY <2>1
<1>3. CASE SendCommand \/ PollIsr \/ ReadEmpty
  <2>1. left' \in {0, Clamp, IsrClamp} /\ UNCHANGED <<stalls, commands, irqs>>
    BY <1>3 DEF SendCommand, PollIsr, ReadEmpty, Access, Call, dsp
  <2>2. left' \in 0 .. LongestWait
    BY <2>1, LeftOfAccess
  <2> QED BY <2>1, <2>2
<1>4. CASE Sync
  <2>1. left' \in 1 .. Quantum /\ UNCHANGED <<stalls, commands, irqs>>
    BY <1>4 DEF Sync, Call, dsp
  <2>2. left' \in 0 .. LongestWait
    BY <2>1, LeftOfAccess
  <2> QED BY <2>1, <2>2
<1>5. CASE Turn
  <2>1. /\ left' = IF left > 0 THEN left - 1 ELSE 0
        /\ stalls' = stalls
        /\ \/ UNCHANGED <<commands, irqs>>
           \/ commands > 0 /\ commands' = commands - 1 /\ UNCHANGED irqs
           \/ irqs > 0 /\ irqs' = irqs - 1 /\ UNCHANGED commands
           \/ irqs < MaxIrqs /\ irqs' = irqs + 1 /\ UNCHANGED commands
    BY <1>5 DEF Turn, Spend, ReadWord, WriteWord, Interrupts, Compute
  <2>2. left' \in 0 .. LongestWait
    BY <2>1
  <2>3. commands' \in {0, 1} /\ irqs' \in 0 .. MaxIrqs
    BY <2>1, PortAssumption
  <2> QED BY <2>1, <2>2, <2>3
<1>6. CASE Stall \/ ArmBoot
  <2>1. /\ left' \in {left, 0} /\ stalls' \in {stalls, 1 - stalls}
        /\ UNCHANGED <<commands, irqs>>
    BY <1>6 DEF Stall, ArmBoot, ReturnFromRun
  <2>2. left' \in 0 .. LongestWait /\ stalls' \in {0, 1}
    BY <2>1
  <2> QED BY <2>1, <2>2
<1>7. CASE FeedBoot \/ CallHostWord \/ WriteRx \/ TakeWord
  <2>1. UNCHANGED <<left, stalls, commands, irqs>>
    BY <1>7 DEF FeedBoot, CallHostWord, WriteRx, TakeWord, dsp
  <2> QED BY <2>1
<1>8. CASE EndCommand
  <2>1. /\ left' = 0 /\ UNCHANGED <<stalls, irqs>>
        /\ commands' = commands \/ (~Pending /\ commands' = commands + 1)
    BY <1>8 DEF EndCommand, EndAccess, dsp
  <2>2. commands' \in {0, 1}
    BY <2>1, PortAssumption DEF Pending
  <2> QED BY <2>1, <2>2
<1>9. CASE EndIsr \/ EndRun
  <2>1. left' = 0 /\ UNCHANGED <<stalls, commands, irqs>>
    BY <1>9 DEF EndIsr, EndRun, EndAccess, dsp
  <2> QED BY <2>1
<1>10. CASE UNCHANGED vars
  BY <1>10 DEF vars
<1> QED
  BY <1>2, <1>3, <1>4, <1>5, <1>6, <1>7, <1>8, <1>9, <1>10 DEF Next, Begin, Proceed

LEMMA FlagStep ==
  FlagInv /\ [Next]_vars => FlagInv'
<1> SUFFICES ASSUME FlagInv, [Next]_vars PROVE FlagInv'
  OBVIOUS
<1> USE DEF FlagInv
<1>1. CASE \E w \in Words : SendWord(w)
  BY <1>1, Zenon DEF SendWord, Access, Call, dsp
<1>2. CASE SendCommand \/ PollIsr \/ ReadEmpty
  BY <1>2, Zenon DEF SendCommand, PollIsr, ReadEmpty, Access, Call, dsp
<1>3. CASE Sync
  BY <1>3, Zenon DEF Sync, Call, dsp
<1>4. CASE TakeWord
  BY <1>4, Zenon DEF TakeWord, dsp
<1>5. CASE Turn
  <2>1. UNCHANGED <<booted, op, status, unasked>>
    BY <1>5, Zenon DEF Turn
  <2>2. jumped' \in BOOLEAN /\ stalled' \in BOOLEAN
    BY <1>5, Zenon DEF Turn, ReadWord, WriteWord, Interrupts, Compute
  <2> QED BY <2>1, <2>2, Zenon
<1>6. CASE Stall
  BY <1>6, Zenon DEF Stall
<1>7. CASE ArmBoot
  BY <1>7, Zenon DEF ArmBoot
<1>8. CASE FeedBoot \/ WriteRx
  <2>1. UNCHANGED <<jumped, stalled, status, unasked>> /\ booted' \in BOOLEAN
    BY <1>8, Zenon DEF FeedBoot, WriteRx, dsp
  <2>2. op' = "idle" \/ op' = op
    BY <1>8 DEF FeedBoot, WriteRx, Delivered
  <2> QED BY <2>1, <2>2, Zenon
<1>9. CASE CallHostWord
  BY <1>9, Zenon DEF CallHostWord, dsp
<1>10. CASE EndCommand
  BY <1>10, Zenon DEF EndCommand, EndAccess, dsp
<1>11. CASE EndIsr
  <2>1. UNCHANGED <<booted, jumped, stalled, unasked>> /\ op' = "idle"
    BY <1>11, Zenon DEF EndIsr, EndAccess, dsp
  <2>2. status' \in {"busy", "txde", "trdy"}
    BY <1>11 DEF EndIsr
  <2> QED BY <2>1, <2>2, Zenon
<1>12. CASE EndRun
  BY <1>12, Zenon DEF EndRun, EndAccess, dsp
<1>13. CASE UNCHANGED vars
  BY <1>13, Zenon DEF vars
<1> QED
  BY <1>1, <1>2, <1>3, <1>4, <1>5, <1>6, <1>7, <1>8, <1>9, <1>10, <1>11, <1>12, <1>13,
     Zenon DEF Next, Begin, Proceed

LEMMA LastStep ==
  PortInv /\ OutInv /\ LastInv /\ [Next]_vars => LastInv'
<1> SUFFICES ASSUME PortInv, OutInv, LastInv, [Next]_vars PROVE LastInv'
  OBVIOUS
<1>1. fed' \in Words \cup {None}
  <2>1. CASE Sent # <<>> /\ fed' = Head(Sent)
    <3>1. Sent \in Seq(Words)
      BY SentLength
    <3>2. Head(Sent) \in Words
      BY <2>1, <3>1, FirstAndRest
    <3> QED BY <2>1, <3>2
  <2>2. CASE fed' = fed
    BY <2>2 DEF LastInv
  <2> QED BY <2>1, <2>2, SentStep DEF SentNext
<1>2. got' \in Words \cup {None}
  <2>1. CASE Written # <<>> /\ got' = Head(Written)
    <3>1. Written \in Seq(Words)
      BY WrittenType
    <3>2. Head(Written) \in Words
      BY <2>1, <3>1, FirstAndRest
    <3> QED BY <2>1, <3>2
  <2>2. CASE got' = got
    BY <2>2 DEF LastInv
  <2> QED BY <2>1, <2>2, WrittenStep DEF WrittenNext
<1> QED BY <1>1, <1>2 DEF LastInv

(* Every variable of the port stays in its type: no more words than the    *)
(* bounds are on their way, no wait lasts longer than the longest of the   *)
(* limits and at most one host command is pending.                         *)
THEOREM PortTypes == Spec => []TypeOK
<1>1. Init => OutInv /\ CountInv /\ FlagInv /\ LastInv
  <2>1. Init => OutInv /\ CountInv
    BY PortAssumption, LongestIs DEF Init, OutInv, CountInv
  <2>2. Init => FlagInv /\ LastInv
    BY DEF Init, FlagInv, LastInv
  <2> QED BY <2>1, <2>2
<1>2. OutInv /\ [Next]_vars => OutInv'
  BY WrittenStep
<1>3. Spec => [](PortInv /\ OutInv /\ CountInv /\ FlagInv /\ LastInv)
  BY <1>1, <1>2, CountStep, FlagStep, LastStep, PortInvariant, PTL DEF Spec
<1>4. PortInv /\ OutInv /\ CountInv /\ FlagInv /\ LastInv => TypeOK
  BY DEF PortInv, OnTheWay, OutInv, CountInv, FlagInv, LastInv, TypeOK
<1> QED BY <1>3, <1>4, PTL

=============================================================================
