------------------------------- MODULE SpscRing -------------------------------
(***************************************************************************)
(* RingBuffer, the lock-free ring the engine uses for transport commands,  *)
(* telemetry and live MIDI: masked indices, one slot always left empty, a  *)
(* full ring refuses the newest.  Its header allows exactly one thread in  *)
(* push() and one in pop().  The set of pushing threads is a parameter:    *)
(* the command ring has several (the control loop, and the WebSocket       *)
(* server's connection threads).                                           *)
(***************************************************************************)
EXTENDS Integers, Sequences

CONSTANTS
  Size,       \* Capacity: a power of two
  Pusher,     \* the threads that call push()
  MaxPush     \* bound: calls of push() by each thread

ASSUME SpscRingAssumption ==
  Size \in Nat \ {0, 1} /\ MaxPush \in Nat

VARIABLES
  head, tail,   \* head_, tail_
  buffer,       \* buffer_
  ppc,          \* each pusher: "idle", "check", "write", "publish"
  seenHead,     \* current_head of each pusher
  calls,        \* values each pusher has tried to push
  accepted,     \* values for which push() returned true
  refused,      \* how many push() calls returned false
  cpc, seenTail, taken,  \* consumer: "idle", "read", "publish"; current_tail; value
  popped        \* what pop() returned, in order

ringVars == <<head, tail, buffer>>
pushVars == <<ppc, seenHead, calls, accepted, refused>>
popVars == <<cpc, seenTail, taken, popped>>
vars == <<ringVars, pushVars, popVars>>

Value == Pusher \X (1 .. MaxPush)
NoValue == <<>>
Index == 0 .. Size - 1
Masked(i) == i % Size

TypeOK ==
  /\ head \in Index /\ tail \in Index
  /\ buffer \in [Index -> Value \cup {NoValue}]
  /\ ppc \in [Pusher -> {"idle", "check", "write", "publish"}]
  /\ seenHead \in [Pusher -> Index]
  /\ calls \in [Pusher -> 0 .. MaxPush]
  /\ accepted \subseteq Value
  /\ refused \in Nat
  /\ cpc \in {"idle", "read", "publish"}
  /\ seenTail \in Index
  /\ taken \in Value \cup {NoValue}
  /\ popped \in Seq(Value)

Init ==
  /\ head = 0 /\ tail = 0
  /\ buffer = [i \in Index |-> NoValue]
  /\ ppc = [p \in Pusher |-> "idle"]
  /\ seenHead = [p \in Pusher |-> 0]
  /\ calls = [p \in Pusher |-> 0]
  /\ accepted = {} /\ refused = 0
  /\ cpc = "idle" /\ seenTail = 0 /\ taken = NoValue /\ popped = <<>>

-----------------------------------------------------------------------------
(* push() *)

LoadHead(p) ==
  /\ ppc[p] = "idle" /\ calls[p] < MaxPush
  /\ calls' = [calls EXCEPT ![p] = @ + 1]
  /\ seenHead' = [seenHead EXCEPT ![p] = head]
  /\ ppc' = [ppc EXCEPT ![p] = "check"]
  /\ UNCHANGED <<ringVars, accepted, refused, popVars>>

\* Mutant: the slot kept empty is used.
FullAtSize(p) == FALSE

Full(p) == Masked(seenHead[p] + 1) = tail

CheckFull(p) ==
  /\ ppc[p] = "check"
  /\ IF Full(p)
       THEN refused' = refused + 1 /\ ppc' = [ppc EXCEPT ![p] = "idle"]
       ELSE ppc' = [ppc EXCEPT ![p] = "write"] /\ UNCHANGED refused
  /\ UNCHANGED <<ringVars, seenHead, calls, accepted, popVars>>

WriteSlot(p) ==
  /\ ppc[p] = "write"
  /\ buffer' = [buffer EXCEPT ![seenHead[p]] = <<p, calls[p]>>]
  /\ ppc' = [ppc EXCEPT ![p] = "publish"]
  /\ UNCHANGED <<head, tail, seenHead, calls, accepted, refused, popVars>>

NextHead(p) == Masked(seenHead[p] + 1)

PublishHead(p) ==
  /\ ppc[p] = "publish"
  /\ head' = NextHead(p)
  /\ accepted' = accepted \cup {<<p, calls[p]>>}
  /\ ppc' = [ppc EXCEPT ![p] = "idle"]
  /\ UNCHANGED <<tail, buffer, seenHead, calls, refused, popVars>>

-----------------------------------------------------------------------------
(* pop() *)

\* Mutant: the last value is left in the ring.
NonEmptyButOne == Masked(tail + 1) # head /\ tail # head

NonEmpty == tail # head

LoadTail ==
  /\ cpc = "idle" /\ NonEmpty
  /\ seenTail' = tail
  /\ cpc' = "read"
  /\ UNCHANGED <<ringVars, pushVars, taken, popped>>

ReadSlot ==
  /\ cpc = "read"
  /\ taken' = buffer[seenTail]
  /\ cpc' = "publish"
  /\ UNCHANGED <<ringVars, pushVars, seenTail, popped>>

PublishTail ==
  /\ cpc = "publish"
  /\ tail' = Masked(seenTail + 1)
  /\ popped' = Append(popped, taken)
  /\ cpc' = "idle"
  /\ UNCHANGED <<head, buffer, pushVars, seenTail, taken>>

-----------------------------------------------------------------------------
PushStep(p) == CheckFull(p) \/ WriteSlot(p) \/ PublishHead(p)
PopStep == LoadTail \/ ReadSlot \/ PublishTail

Next == (\E p \in Pusher : LoadHead(p) \/ PushStep(p)) \/ PopStep

Spec == Init /\ [][Next]_vars

\* A push that began ends; the callback drains its commands again and again.
FairSpec ==
  Spec /\ (\A p \in Pusher : WF_vars(PushStep(p))) /\ WF_vars(PopStep)

-----------------------------------------------------------------------------
(* Properties *)

Pending == (head - tail) % Size
Contents == [i \in 1 .. Pending |-> buffer[Masked(tail + i - 1)]]

\* With one pusher the ring is the bounded queue: it refuses only when full,
\* and never loses, repeats or reorders what it accepted.
Abstract == INSTANCE BoundedFifo WITH
  Item <- Value,
  Bound <- Size - 1,
  queue <- Contents

ImplementsBoundedFifo == Abstract!Spec

\* What push() promises its caller: true means the consumer will get the value.
AcceptedIsPopped ==
  \A v \in Value : v \in accepted ~> \E i \in DOMAIN popped : popped[i] = v
=============================================================================
