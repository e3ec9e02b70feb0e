---------------------------- MODULE BoundedQueue ----------------------------
(***************************************************************************)
(* A bounded first-in first-out queue between one writer and one reader.   *)
(* An item that is taken is the oldest item that was put and not yet       *)
(* taken: FrameRing promises its threads no less, and neither do the two   *)
(* directions of a DSP's host port.                                        *)
(***************************************************************************)
EXTENDS Naturals, Sequences

CONSTANTS Items,     \* what may be put
          Capacity,  \* items the queue holds
          None       \* nothing has been taken yet

VARIABLES queue,     \* the items in the queue, oldest first
          taken      \* the item that was taken last

vars == <<queue, taken>>

Init == queue = <<>> /\ taken = None

Put(f) ==
  /\ Len(queue) < Capacity
  /\ queue' = Append(queue, f)
  /\ UNCHANGED taken

Take ==
  /\ queue # <<>>
  /\ taken' = Head(queue)
  /\ queue' = Tail(queue)

Next == Take \/ \E f \in Items : Put(f)

Spec == Init /\ [][Next]_vars
=============================================================================
