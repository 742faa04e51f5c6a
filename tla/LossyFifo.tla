------------------------------ MODULE LossyFifo ------------------------------
(***************************************************************************)
(* What the parameter and MIDI channels of SharedAudioRing promise: a      *)
(* bounded queue whose writer never waits.  When it is full, the oldest    *)
(* event makes room for the next; what is delivered comes out once, whole  *)
(* and in order.                                                           *)
(***************************************************************************)
EXTENDS Naturals, Sequences

CONSTANTS Event, Capacity

VARIABLES queue, got

vars == <<queue, got>>

Init == queue = <<>> /\ got \notin Event

\* Room is made only in a full queue, and only at the old end.
DropOldest ==
  /\ Len(queue) = Capacity
  /\ queue' = Tail(queue)
  /\ UNCHANGED got

Append1(e) ==
  /\ Len(queue) < Capacity
  /\ queue' = Append(queue, e)
  /\ UNCHANGED got

Deliver ==
  /\ queue # <<>>
  /\ got' = Head(queue)
  /\ queue' = Tail(queue)

Next == DropOldest \/ (\E e \in Event : Append1(e)) \/ Deliver

Spec == Init /\ [][Next]_vars
=============================================================================
