----------------------------- MODULE BoundedFifo -----------------------------
(***************************************************************************)
(* What RingBuffer promises: a bounded queue.  push() accepts a value in   *)
(* order or refuses it because the queue is full; pop() returns the oldest *)
(* accepted value.                                                         *)
(***************************************************************************)
EXTENDS Naturals, Sequences

CONSTANTS Item, Bound

VARIABLES queue, popped, refused

vars == <<queue, popped, refused>>

Init == queue = <<>> /\ popped = <<>> /\ refused = 0

Accept(v) ==
  /\ Len(queue) < Bound
  /\ queue' = Append(queue, v)
  /\ UNCHANGED <<popped, refused>>

Refuse ==
  /\ Len(queue) = Bound
  /\ refused' = refused + 1
  /\ UNCHANGED <<queue, popped>>

Take ==
  /\ queue # <<>>
  /\ popped' = Append(popped, Head(queue))
  /\ queue' = Tail(queue)
  /\ UNCHANGED refused

Next == (\E v \in Item : Accept(v)) \/ Refuse \/ Take

Spec == Init /\ [][Next]_vars
=============================================================================
