---------------------------- MODULE OverwriteFifo ----------------------------
(***************************************************************************)
(* The event channels of SharedAudioRing: parameters (PluginBridge::       *)
(* setParam and the child's drain) and MIDI (pushMidiEvent, popMidiEvent). *)
(* One writer that never waits, one reader in another process that may die *)
(* and be restarted on the same segment.  Indices only grow; the fields of *)
(* a slot are plain memory, written and read one after the other, here two *)
(* of them.  Event n is the n-th pushed; it carries n in both fields.      *)
(***************************************************************************)
EXTENDS Integers, Sequences

CONSTANTS
  Capacity,   \* kParamQueueSlots, kMidiQueueSlots
  MaxPush,    \* bound: events pushed
  MaxLives    \* bound: child processes

OverwriteFifoAssumption ==
  Capacity \in Nat \ {0} /\ MaxPush \in Nat /\ MaxLives \in Nat \ {0}

VARIABLES
  writeIdx, readIdx,   \* the shared indices
  slots,               \* the plain fields of each slot
  wpc,                 \* writer: "idle", "load", "room", "first", "second", "publish"
  seenRead,            \* the read index the writer loaded
  rpc,                 \* reader: "idle", "first", "second", "claim", or "dead"
  at, tmp,             \* the index the reader loaded, the fields it copied
  got,                 \* the last event delivered to process()
  gotLife,             \* the child life it was delivered to
  life,                \* which child process this is
  bornAt               \* writeIdx when this life was spawned

memVars == <<writeIdx, readIdx, slots>>
writerVars == <<wpc, seenRead>>
readerVars == <<rpc, at, tmp, got, gotLife>>
lifeVars == <<life, bornAt>>
vars == <<memVars, writerVars, readerVars, lifeVars>>

Fields == [a : Nat, b : Nat]
Empty == [a |-> 0, b |-> 0]
Whole(n) == [a |-> n, b |-> n]
SlotOf(i) == i % Capacity

TypeOK ==
  /\ writeIdx \in Nat /\ readIdx \in Nat
  /\ slots \in [0 .. Capacity - 1 -> Fields]
  /\ wpc \in {"idle", "room", "first", "second", "publish"}
  /\ seenRead \in Nat
  /\ rpc \in {"idle", "first", "second", "claim", "dead"}
  /\ at \in Nat /\ tmp \in Fields /\ got \in Fields
  /\ gotLife \in 0 .. MaxLives /\ life \in 1 .. MaxLives
  /\ bornAt \in Nat
  /\ readIdx <= writeIdx

Init ==
  /\ writeIdx = 0 /\ readIdx = 0
  /\ slots = [k \in 0 .. Capacity - 1 |-> Empty]
  /\ wpc = "idle" /\ seenRead = 0
  /\ rpc = "idle" /\ at = 0 /\ tmp = Empty /\ got = Empty /\ gotLife = 0
  /\ life = 1 /\ bornAt = 0

-----------------------------------------------------------------------------
(* The writer *)

BeginPush ==
  /\ wpc = "idle"
  /\ writeIdx < MaxPush
  /\ seenRead' = readIdx
  /\ wpc' = IF writeIdx - readIdx >= Capacity THEN "room" ELSE "first"
  /\ UNCHANGED <<memVars, readerVars, lifeVars>>

AdvancedRead == IF readIdx = seenRead THEN seenRead + 1 ELSE readIdx

\* compare_exchange: a reader that moved meanwhile has made the room itself.
MakeRoom ==
  /\ wpc = "room"
  /\ readIdx' = AdvancedRead
  /\ wpc' = "first"
  /\ UNCHANGED <<writeIdx, slots, seenRead, readerVars, lifeVars>>

WriteFirst ==
  /\ wpc = "first"
  /\ slots' = [slots EXCEPT ![SlotOf(writeIdx)].a = writeIdx + 1]
  /\ wpc' = "second"
  /\ UNCHANGED <<writeIdx, readIdx, seenRead, readerVars, lifeVars>>

WriteSecond ==
  /\ wpc = "second"
  /\ slots' = [slots EXCEPT ![SlotOf(writeIdx)].b = writeIdx + 1]
  /\ wpc' = "publish"
  /\ UNCHANGED <<writeIdx, readIdx, seenRead, readerVars, lifeVars>>

PublishPush ==
  /\ wpc = "publish"
  /\ writeIdx' = writeIdx + 1
  /\ wpc' = "idle"
  /\ UNCHANGED <<readIdx, slots, seenRead, readerVars, lifeVars>>

-----------------------------------------------------------------------------
(* The reader *)

Pending == readIdx < writeIdx

BeginPop ==
  /\ rpc = "idle"
  /\ Pending
  /\ at' = readIdx
  /\ rpc' = "first"
  /\ UNCHANGED <<memVars, writerVars, tmp, got, gotLife, lifeVars>>

ReadFirst ==
  /\ rpc = "first"
  /\ tmp' = [tmp EXCEPT !.a = slots[SlotOf(at)].a]
  /\ rpc' = "second"
  /\ UNCHANGED <<memVars, writerVars, at, got, gotLife, lifeVars>>

ReadSecond ==
  /\ rpc = "second"
  /\ tmp' = [tmp EXCEPT !.b = slots[SlotOf(at)].b]
  /\ rpc' = "claim"
  /\ UNCHANGED <<memVars, writerVars, at, got, gotLife, lifeVars>>

\* Mutant: the copy is trusted whether or not the claim succeeds.
ClaimSucceedsAlways == TRUE

ClaimSucceeds == readIdx = at

\* compare_exchange: the copy is trusted only if the slot was still the
\* reader's; otherwise the writer went past it and the reader starts over.
Claim ==
  /\ rpc = "claim"
  /\ IF ClaimSucceeds
       THEN readIdx' = at + 1 /\ got' = tmp /\ gotLife' = life
       ELSE UNCHANGED <<readIdx, got, gotLife>>
  /\ rpc' = "idle"
  /\ UNCHANGED <<writeIdx, slots, writerVars, at, tmp, lifeVars>>

ChildDies ==
  /\ rpc # "dead"
  /\ rpc' = "dead"
  /\ UNCHANGED <<memVars, writerVars, at, tmp, got, gotLife, lifeVars>>

\* restartChild: the segment, its indices included, is left as it is.
ChildRestarts ==
  /\ rpc = "dead" /\ life < MaxLives
  /\ life' = life + 1 /\ bornAt' = writeIdx
  /\ rpc' = "idle" /\ at' = 0 /\ tmp' = Empty
  /\ UNCHANGED <<memVars, writerVars, got, gotLife>>

-----------------------------------------------------------------------------
WriterStep == MakeRoom \/ WriteFirst \/ WriteSecond \/ PublishPush
ReaderStep == BeginPop \/ ReadFirst \/ ReadSecond \/ Claim

Next == BeginPush \/ WriterStep \/ ReaderStep \/ ChildDies \/ ChildRestarts

Spec == Init /\ [][Next]_vars

\* A push that began ends, a live child drains its queue.
FairSpec == Spec /\ WF_vars(WriterStep) /\ WF_vars(ReaderStep)

-----------------------------------------------------------------------------
(* Properties *)

\* Events do not linger: a live child ends with an empty queue.
QueueDrains == <>[](rpc # "dead" /\ wpc = "idle" => readIdx = writeIdx)

Contents == [i \in 1 .. writeIdx - readIdx |-> slots[SlotOf(readIdx + i - 1)]]

\* The channel implements the lossy queue: only the oldest event is lost, and
\* only when Capacity are pending; no delivery is torn, repeated or reordered.
Abstract == INSTANCE LossyFifo WITH
  Event <- {Whole(n) : n \in 1 .. MaxPush},
  queue <- Contents

ImplementsLossyFifo == Abstract!Spec /\ QueueDrains

\* What the comment on the MIDI channel promises: a restarted child never gets
\* an event pushed before it was spawned.
RestartIsClean == gotLife = life => got.a > bornAt
=============================================================================
