------------------------------ MODULE Rings_proofs ------------------------------
(***************************************************************************)
(* The two channels of the audio thread, for every capacity and every      *)
(* number of pushes and child lives: the ring with one pushing thread      *)
(* implements the bounded queue, the channel of the child the lossy one.   *)
(*                                                                         *)
(* Each has an inductive invariant of its own and one lemma per step, that *)
(* says which step of the abstract queue it is, or none.  The invariants   *)
(* say what a thread may still believe of an index it has read: in the     *)
(* ring, everything (only it moves its index, and the other end only makes *)
(* room or fills); in the channel, what it copied, as long as the read     *)
(* index has not moved.                                                    *)
(***************************************************************************)
EXTENDS MCRings, SequenceTheorems, TLAPS

USE SpscRingAssumption

-----------------------------------------------------------------------------
(* Arithmetic modulo the size, and sequences                                *)

\* Quotient and remainder of a counter by the number of slots.
LEMMA Division ==
  ASSUME NEW n \in Nat \ {0}, NEW x \in Int
  PROVE  /\ x \div n \in Int /\ x % n \in 0 .. n - 1
         /\ x = n * (x \div n) + (x % n)
  OBVIOUS

\* No multiple of the number of slots lies strictly between 0 and it.
LEMMA Multiples ==
  ASSUME NEW n \in Nat \ {0}, NEW k \in Int
  PROVE  /\ n * k \in Int
         /\ k > 0 => n * k >= n
         /\ k < 0 => n * k <= 0 - n
         /\ k = 0 => n * k = 0
<1>1. n * k \in Int /\ (k = 0 => n * k = 0)
  OBVIOUS
<1>2. k > 0 => n * k >= n
  OBVIOUS
<1>3. k < 0 => n * k <= 0 - n
  OBVIOUS
<1> QED BY <1>1, <1>2, <1>3

\* Two remainders of one number are equal.
LEMMA Remainder ==
  ASSUME NEW n \in Nat \ {0}, NEW x \in Int, NEW y \in Int, x - y \in {0, n, 0 - n}
  PROVE  x % n = y % n
<1> DEFINE p == x \div n
           q == y \div n
<1>1. p \in Int /\ q \in Int /\ x = n * p + (x % n) /\ y = n * q + (y % n)
  BY Division
<1>2. x % n \in 0 .. n - 1 /\ y % n \in 0 .. n - 1
  BY Division
<1> HIDE DEF p, q
<1>3. PICK d \in {0, 1, -1} : x - y = n * d
  BY Multiples
<1>4. n * (p - q - d) = n * p - n * q - n * d
  BY <1>1, <1>3
<1>5. n * p \in Int /\ n * q \in Int /\ n * d \in Int /\ p - q - d \in Int
  BY <1>1, <1>3
<1>6. n * (p - q - d) = (y % n) - (x % n)
  <2> DEFINE np == n * p
             nq == n * q
             nd == n * d
             a == x % n
             b == y % n
  <2>1. x = np + a /\ y = nq + b /\ x - y = nd
    BY <1>1, <1>3
  <2>2. np \in Int /\ nq \in Int /\ nd \in Int /\ a \in Int /\ b \in Int
    BY <1>2, <1>5
  <2> HIDE DEF np, nq, nd, a, b
  <2>3. np - nq - nd = b - a
    BY <2>1, <2>2
  <2> QED BY <2>3, <1>4 DEF np, nq, nd, a, b
<1>7. n * (p - q - d) = 0
  BY <1>2, <1>5, <1>6, Multiples
<1> QED BY <1>2, <1>6, <1>7

\* Numbers less than n apart differ modulo n.
LEMMA DistinctRemainders ==
  ASSUME NEW n \in Nat \ {0}, NEW x \in Int, NEW y \in Int, x < y, y < x + n
  PROVE  x % n # y % n
<1> SUFFICES ASSUME x % n = y % n PROVE FALSE
  OBVIOUS
<1> DEFINE p == x \div n
           q == y \div n
           np == n * p
           nq == n * q
           a == x % n
<1>1. p \in Int /\ q \in Int /\ x = np + a /\ y = nq + a /\ a \in Int
  BY Division
<1>2. np \in Int /\ nq \in Int /\ nq - np = n * (q - p)
  BY <1>1
<1> HIDE DEF p, q, np, nq, a
<1>3. n * (q - p) = y - x
  BY <1>1, <1>2
<1> QED BY <1>1, <1>3, Multiples

\* An index below the number of slots is its own slot.
LEMMA SmallRemainder == ASSUME NEW n \in Nat \ {0}, NEW x \in 0 .. n - 1 PROVE x % n = x
  BY Division, Multiples

\* A function over 1 .. n is a sequence of length n.
LEMMA AsSequence ==
  ASSUME NEW S, NEW n \in Nat, NEW f \in [1 .. n -> S]
  PROVE  f \in Seq(S) /\ Len(f) = n /\ DOMAIN f = 1 .. n
  OBVIOUS

\* A sequence that is another with one more at its end.
LEMMA IsAppend ==
  ASSUME NEW S, NEW q \in Seq(S), NEW r \in Seq(S), NEW v \in S,
         Len(r) = Len(q) + 1, r[Len(r)] = v, \A i \in 1 .. Len(q) : r[i] = q[i]
  PROVE  r = Append(q, v)
  BY AppendProperties, SeqEqual

\* A sequence that is another without its head.
LEMMA IsTail ==
  ASSUME NEW S, NEW q \in Seq(S), NEW r \in Seq(S),
         Len(q) = Len(r) + 1, \A i \in 1 .. Len(r) : r[i] = q[i + 1]
  PROVE  q # <<>> /\ Head(q) = q[1] /\ r = Tail(q)
<1>1. q # <<>> /\ Head(q) = q[1]
  OBVIOUS
<1> QED BY <1>1, HeadTailProperties, SeqEqual

-----------------------------------------------------------------------------
(* RingBuffer with one pushing thread                                       *)

OnePusher == \A p, q \in Pusher : p = q

\* What push() has read and checked stays true: only the consumer moves
\* meanwhile, and it makes room.
Pushing ==
  \A p \in Pusher :
    /\ ppc[p] # "idle" => seenHead[p] = head /\ calls[p] > 0
    /\ ppc[p] \in {"write", "publish"} => Masked(head + 1) # tail
    /\ ppc[p] = "publish" => buffer[head] = <<p, calls[p]>>

\* So does what pop() has read.
Popping ==
  /\ cpc # "idle" => seenTail = tail /\ tail # head
  /\ cpc = "publish" => taken = buffer[tail]

\* The slots between the indices hold values.
Filled == \A i \in 1 .. Pending : buffer[Masked(tail + i - 1)] \in Value

RingInv == TypeOK /\ Pushing /\ Popping /\ Filled

\* The index of a ring after it is advanced.
LEMMA Wraps ==
  ASSUME NEW x \in Nat, x < Size + Size
  PROVE  Masked(x) = (IF x < Size THEN x ELSE x - Size) /\ Masked(x) \in Index
<1>1. CASE x < Size
  BY <1>1, SmallRemainder DEF Masked, Index
<1>2. CASE x >= Size
  <2>1. x - Size \in 0 .. Size - 1 /\ x - (x - Size) = Size
    BY <1>2
  <2>2. x % Size = (x - Size) % Size
    BY <2>1, Remainder
  <2> QED BY <1>2, <2>1, <2>2, SmallRemainder DEF Masked, Index
<1> QED BY <1>1, <1>2

\* How far one index of a ring is from another.
LEMMA Distance ==
  ASSUME NEW h \in Index, NEW t \in Index
  PROVE  /\ (h - t) % Size = (IF h >= t THEN h - t ELSE h - t + Size)
         /\ (h - t) % Size \in 0 .. Size - 1
<1>1. CASE h >= t
  BY <1>1, SmallRemainder DEF Index
<1>2. CASE h < t
  <2>1. h - t + Size \in 0 .. Size - 1
    BY <1>2 DEF Index
  <2>2. (h - t) % Size = (h - t + Size) % Size
    BY Remainder DEF Index
  <2> QED BY <1>2, <2>1, <2>2, SmallRemainder DEF Index
<1> QED BY <1>1, <1>2 DEF Index

\* How many elements the ring holds.
LEMMA PendingIs ==
  ASSUME head \in Index, tail \in Index
  PROVE  /\ Pending = (IF head >= tail THEN head - tail ELSE head - tail + Size)
         /\ Pending \in 0 .. Size - 1
  BY Distance DEF Pending

\* The slots between the indices, and the free one the next push writes.
LEMMA Window ==
  ASSUME head \in Index, tail \in Index
  PROVE  /\ \A i \in 1 .. Pending : Masked(tail + i - 1) \in Index \ {head}
         /\ Masked(tail + (Pending + 1) - 1) = head
  BY PendingIs, Wraps DEF Index

\* As a sequence.
LEMMA ContentsIsSequence ==
  ASSUME TypeOK, Filled
  PROVE  Contents \in Seq(Value) /\ Len(Contents) = Pending
<1>1. Pending \in Nat
  BY PendingIs DEF TypeOK
<1>2. Contents \in [1 .. Pending -> Value]
  BY DEF Contents, Filled
<1> QED BY <1>1, <1>2, AsSequence

\* The empty ring is the empty queue.
LEMMA RingInit == Init => RingInv /\ Abstract!Init
<1> SUFFICES ASSUME Init PROVE RingInv /\ Abstract!Init
  OBVIOUS
<1>1. TypeOK
  BY DEF Init, TypeOK, Index
<1>2. Pending = 0
  BY <1>1, PendingIs DEF Init, TypeOK
<1>3. Contents = <<>>
  BY <1>2 DEF Contents
<1>4. Pushing /\ Popping /\ Filled
  BY <1>2 DEF Init, Pushing, Popping, Filled, Pending
<1> QED BY <1>1, <1>3, <1>4 DEF Init, RingInv, Abstract!Init

\* Loads and checks leave the abstract queue alone; a full ring refuses.
LEMMA LoadHeadStep ==
  ASSUME OnePusher, RingInv, NEW p \in Pusher, LoadHead(p)
  PROVE  RingInv' /\ UNCHANGED Abstract!vars
<1> USE DEF RingInv, LoadHead, ringVars, popVars
<1>1. TypeOK'
  BY DEF TypeOK
<1>2. Pushing' /\ Popping' /\ Filled'
  BY DEF TypeOK, OnePusher, Pushing, Popping, Filled, Pending
<1>3. UNCHANGED Abstract!vars
  BY DEF Abstract!vars, Contents, Pending
<1> QED BY <1>1, <1>2, <1>3

\* The check of a push: the ring may still hold elements already popped.
LEMMA CheckFullStep ==
  ASSUME OnePusher, RingInv, NEW p \in Pusher, CheckFull(p)
  PROVE  RingInv' /\ (Abstract!Refuse \/ UNCHANGED Abstract!vars)
<1> USE DEF RingInv, CheckFull, ringVars, popVars
<1>1. TypeOK'
  <2>1. refused' \in Nat /\ ppc' \in [Pusher -> {"idle", "check", "write", "publish"}]
    BY SMTT(20) DEF TypeOK
  <2> QED BY <2>1 DEF TypeOK
<1>2. Pushing' /\ Popping' /\ Filled'
  BY DEF TypeOK, OnePusher, Pushing, Popping, Filled, Pending, Full
<1>3. Contents' = Contents
  BY DEF Contents, Pending
<1>4. CASE Full(p)
  <2>1. Masked(head + 1) = tail
    BY <1>4 DEF Full, Pushing
  <2>2. Pending = Size - 1
    BY <2>1, PendingIs, Wraps DEF TypeOK, Index
  <2> QED
    BY <1>1, <1>2, <1>3, <1>4, <2>2, ContentsIsSequence DEF Abstract!Refuse
<1>5. CASE ~Full(p)
  BY <1>1, <1>2, <1>3, <1>5 DEF Abstract!vars
<1> QED BY <1>4, <1>5

\* The slot written is the free one.
LEMMA WriteSlotStep ==
  ASSUME OnePusher, RingInv, NEW p \in Pusher, WriteSlot(p)
  PROVE  RingInv' /\ UNCHANGED Abstract!vars
<1> USE DEF RingInv, WriteSlot, popVars
<1>1. seenHead[p] = head /\ head \in Index /\ tail \in Index /\ <<p, calls[p]>> \in Value
  BY DEF TypeOK, Pushing, Value
<1>2. TypeOK'
  BY <1>1 DEF TypeOK
<1>3. \A i \in 1 .. Pending : buffer'[Masked(tail + i - 1)] = buffer[Masked(tail + i - 1)]
  BY <1>1, Window DEF TypeOK
<1>4. Pending' = Pending /\ \A i : Masked(tail' + i - 1) = Masked(tail + i - 1)
  BY DEF Pending, Masked
<1>5. Contents' = Contents /\ Filled'
  BY <1>3, <1>4 DEF Contents, Filled
<1>6. Pushing'
  BY <1>1 DEF TypeOK, OnePusher, Pushing, Index
<1>7. Popping'
  BY <1>1 DEF TypeOK, Popping
<1> QED BY <1>2, <1>5, <1>6, <1>7 DEF Abstract!vars

\* The value becomes the youngest of the queue, which had room.
LEMMA PublishHeadStep ==
  ASSUME OnePusher, RingInv, NEW p \in Pusher, PublishHead(p)
  PROVE  RingInv' /\ \E v \in Value : Abstract!Accept(v)
<1> USE DEF RingInv, PublishHead, popVars
<1>1. /\ head \in Index /\ tail \in Index /\ <<p, calls[p]>> \in Value
      /\ head' = Masked(head + 1) /\ head' # tail /\ buffer[head] = <<p, calls[p]>>
  BY SMTT(20) DEF TypeOK, Pushing, Value, NextHead
<1>2. head' \in Index
  BY <1>1, Wraps DEF Index
<1>3. TypeOK'
  BY <1>1, <1>2 DEF TypeOK
<1>4. Pending < Size - 1 /\ Pending' = Pending + 1
  <2>1. head' = IF head + 1 < Size THEN head + 1 ELSE head + 1 - Size
    BY <1>1, Wraps DEF Index
  <2>2. Pending' = IF head' >= tail THEN head' - tail ELSE head' - tail + Size
    BY <1>2, <1>1, Distance DEF Pending
  <2> QED BY <1>1, <2>1, <2>2, PendingIs DEF Index
<1>5. Filled'
  BY <1>1, <1>4, Window, PendingIs DEF Filled
<1>6. Pushing'
  BY <1>1 DEF TypeOK, OnePusher, Pushing
<1>7. Popping'
  BY <1>1 DEF TypeOK, Popping
<1>8. Contents' = Append(Contents, <<p, calls[p]>>)
  <2>1. Contents' \in Seq(Value) /\ Len(Contents') = Pending'
    <3>1. Contents' \in [1 .. Pending' -> Value]
      BY <1>5 DEF Contents, Filled
    <3>2. Pending' \in Nat
      BY <1>1, <1>4, PendingIs
    <3> QED BY <3>1, <3>2, AsSequence
  <2>2. Contents'[Pending'] = <<p, calls[p]>>
    BY <1>1, <1>4, Window, PendingIs DEF Contents
  <2>3. \A i \in 1 .. Pending : Contents'[i] = Contents[i]
    BY <1>4, PendingIs, <1>1 DEF Contents
  <2> QED BY <1>1, <1>4, <2>1, <2>2, <2>3, ContentsIsSequence, IsAppend
<1> QED
  BY <1>1, <1>3, <1>4, <1>5, <1>6, <1>7, <1>8, ContentsIsSequence DEF Abstract!Accept

\* pop() up to its last step.
LEMMA ReadingStep ==
  ASSUME RingInv, LoadTail \/ ReadSlot
  PROVE  RingInv' /\ UNCHANGED Abstract!vars
<1> USE DEF RingInv, LoadTail, ReadSlot, NonEmpty, ringVars, pushVars
<1>1. TypeOK'
  <2>1. taken' \in Value \cup {NoValue}
    BY DEF TypeOK
  <2> QED BY <2>1 DEF TypeOK
<1>2. Pushing' /\ Popping' /\ Filled'
  BY DEF TypeOK, Pushing, Popping, Filled, Pending
<1>3. UNCHANGED Abstract!vars
  BY DEF Abstract!vars, Contents, Pending
<1> QED BY <1>1, <1>2, <1>3

\* It returns the oldest value of the queue.
LEMMA PublishTailStep ==
  ASSUME RingInv, PublishTail
  PROVE  RingInv' /\ Abstract!Take
<1> USE DEF RingInv, PublishTail, pushVars
<1>1. /\ head \in Index /\ tail \in Index /\ tail # head
      /\ tail' = Masked(tail + 1) /\ taken = buffer[tail]
  BY DEF TypeOK, Popping
<1>2. tail' = (IF tail + 1 < Size THEN tail + 1 ELSE tail + 1 - Size) /\ tail' \in Index
  BY <1>1, Wraps DEF Index
<1>3. Pending \in Nat /\ Pending > 0 /\ Pending' = Pending - 1
  <2>1. Pending' = IF head >= tail' THEN head - tail' ELSE head - tail' + Size
    BY <1>1, <1>2, Distance DEF Pending
  <2> QED BY <1>1, <1>2, <2>1, PendingIs DEF Index
<1>4. \A i \in 1 .. Pending' : Masked(tail' + i - 1) = Masked(tail + (i + 1) - 1)
  <2> SUFFICES ASSUME NEW i \in 1 .. Pending'
        PROVE Masked(tail' + i - 1) = Masked(tail + (i + 1) - 1)
    OBVIOUS
  <2>1. (tail' + i - 1) - (tail + (i + 1) - 1) \in {0, Size, 0 - Size}
    BY SMTT(20), <1>1, <1>2, <1>3 DEF Index
  <2>2. tail' + i - 1 \in Int /\ tail + (i + 1) - 1 \in Int
    BY <1>1, <1>2, <1>3 DEF Index
  <2> QED BY <2>1, <2>2, Remainder DEF Masked
<1>5. Masked(tail + 1 - 1) = tail
  BY <1>1, Wraps DEF Index
<1>6. taken \in Value
  BY <1>1, <1>3, <1>5, PendingIs DEF Filled
<1>7. TypeOK'
  BY <1>2, <1>6 DEF TypeOK
<1>8. Filled'
  <2>1. \A i \in 1 .. Pending' : i + 1 \in 1 .. Pending
    BY <1>3
  <2> QED BY <1>4, <2>1 DEF Filled
<1>9. Pushing' /\ Popping'
  <2>1. Masked(head + 1) # tail'
    BY <1>1, <1>2, Wraps DEF Index
  <2> QED BY <2>1 DEF Pushing, Popping
<1>10. Contents # <<>> /\ taken = Head(Contents) /\ Contents' = Tail(Contents)
  <2>1. Contents' \in Seq(Value) /\ Len(Contents') = Pending'
    <3>1. Contents' \in [1 .. Pending' -> Value]
      BY <1>8 DEF Contents, Filled
    <3> QED BY <3>1, <1>3, AsSequence
  <2>2. \A i \in 1 .. Pending' : Contents'[i] = Contents[i + 1]
    BY <1>1, <1>3, <1>4, PendingIs DEF Contents
  <2>3. Contents[1] = taken
    BY <1>1, <1>3, <1>5, PendingIs DEF Contents
  <2> QED BY <1>3, <2>1, <2>2, <2>3, ContentsIsSequence, IsTail
<1> QED BY <1>7, <1>8, <1>9, <1>10 DEF Abstract!Take

\* Every step of a ring.
LEMMA RingStep ==
  ASSUME OnePusher, RingInv, [Next]_vars
  PROVE  RingInv' /\ [Abstract!Next]_(Abstract!vars)
<1>1. CASE UNCHANGED vars
  BY <1>1 DEF vars, ringVars, pushVars, popVars, RingInv, TypeOK, Pushing, Popping,
     Filled, Pending, Contents, Abstract!vars
<1>2. CASE Next
  BY <1>2, LoadHeadStep, CheckFullStep, WriteSlotStep, PublishHeadStep, ReadingStep,
     PublishTailStep DEF Next, PushStep, PopStep, Abstract!Next
<1> QED BY <1>1, <1>2

-----------------------------------------------------------------------------
(* The channel to the child                                                 *)

USE ChannelAssumption DEF Channel!OverwriteFifoAssumption

\* The writer has the room it made, and the slot it fills is nobody else's.
Writing ==
  /\ writeIdx - readIdx <= Capacity /\ writeIdx <= MaxEvents
  /\ wpc # "idle" => writeIdx < MaxEvents
  /\ wpc = "room" => seenRead <= readIdx /\ writeIdx - seenRead = Capacity
  /\ wpc \in {"first", "second", "publish"} => writeIdx - readIdx < Capacity
  /\ wpc = "second" => slots[Channel!SlotOf(writeIdx)].a = writeIdx + 1
  /\ wpc = "publish" => slots[Channel!SlotOf(writeIdx)] = Channel!Whole(writeIdx + 1)

\* Pending events are whole.
PendingWhole ==
  \A k \in readIdx .. writeIdx - 1 : slots[Channel!SlotOf(k)] = Channel!Whole(k + 1)

\* As long as the read index has not moved, the copy is of the pending event.
Reading ==
  /\ rpc \in {"first", "second", "claim"} => at <= readIdx /\ at < writeIdx
  /\ rpc = "second" /\ readIdx = at => tmp.a = at + 1
  /\ rpc = "claim" /\ readIdx = at => tmp = Channel!Whole(at + 1)

ChannelInv == Channel!TypeOK /\ Writing /\ PendingWhole /\ Reading

\* A slot of the channel.
LEMMA SlotInRange == ASSUME NEW k \in Nat PROVE Channel!SlotOf(k) \in 0 .. Capacity - 1
  BY Division DEF Channel!SlotOf

\* Two pending entries of the channel lie in different slots.
LEMMA SlotsDiffer ==
  ASSUME NEW k \in Nat, NEW m \in Nat, k < m, m < k + Capacity
  PROVE  Channel!SlotOf(k) # Channel!SlotOf(m)
<1>1. Capacity \in Nat \ {0} /\ k \in Int /\ m \in Int
  OBVIOUS
<1>2. k % Capacity # m % Capacity
  BY ONLY <1>1, k < m, m < k + Capacity, DistinctRemainders
<1> QED BY <1>2 DEF Channel!SlotOf

\* What is pending, as a sequence.
LEMMA PendingIsSequence ==
  ASSUME Channel!TypeOK, PendingWhole
  PROVE  /\ Channel!Contents \in Seq(Channel!Fields)
         /\ Len(Channel!Contents) = writeIdx - readIdx
         /\ \A i \in 1 .. writeIdx - readIdx : Channel!Contents[i] = Channel!Whole(readIdx + i)
<1>1. writeIdx - readIdx \in Nat
  BY DEF Channel!TypeOK
<1>2. \A i \in 1 .. writeIdx - readIdx :
         Channel!Contents[i] = Channel!Whole(readIdx + i)
         /\ Channel!Whole(readIdx + i) \in Channel!Fields
  <2> SUFFICES ASSUME NEW i \in 1 .. writeIdx - readIdx
        PROVE Channel!Contents[i] = Channel!Whole(readIdx + i)
              /\ Channel!Whole(readIdx + i) \in Channel!Fields
    OBVIOUS
  <2>1. readIdx + i - 1 \in readIdx .. writeIdx - 1 /\ (readIdx + i - 1) + 1 = readIdx + i
        /\ readIdx + i \in Nat
    BY DEF Channel!TypeOK
  <2>2. slots[Channel!SlotOf(readIdx + i - 1)] = Channel!Whole((readIdx + i - 1) + 1)
    BY <2>1 DEF PendingWhole
  <2> QED BY <2>1, <2>2 DEF Channel!Contents, Channel!Whole, Channel!Fields
<1>3. Channel!Contents \in [1 .. writeIdx - readIdx -> Channel!Fields]
  BY <1>2 DEF Channel!Contents
<1> QED BY <1>1, <1>2, <1>3, AsSequence

\* The empty channel is the empty queue.
LEMMA ChannelInit == Channel!Init => ChannelInv /\ Channel!Abstract!Init
<1> SUFFICES ASSUME Channel!Init PROVE ChannelInv /\ Channel!Abstract!Init
  OBVIOUS
<1>1. Channel!Empty \in Channel!Fields
  BY DEF Channel!Empty, Channel!Fields
<1>2. Channel!TypeOK
  BY <1>1 DEF Channel!Init, Channel!TypeOK
<1>3. Writing /\ PendingWhole /\ Reading
  BY DEF Channel!Init, Writing, PendingWhole, Reading
<1>4. Channel!Contents = <<>>
  BY DEF Channel!Init, Channel!Contents
<1>5. \A n \in 1 .. MaxEvents : got # Channel!Whole(n)
  BY DEF Channel!Init, Channel!Empty, Channel!Whole
<1> QED BY <1>2, <1>3, <1>4, <1>5 DEF ChannelInv, Channel!Abstract!Init

\* Steps that leave slots and indices alone leave the abstract queue alone.
LEMMA QuietStep ==
  ASSUME UNCHANGED <<slots, readIdx, writeIdx, got>>
  PROVE  UNCHANGED Channel!Abstract!vars
  BY DEF Channel!Abstract!vars, Channel!Contents, Channel!SlotOf

\* A push begins; a pop begins; the child dies and comes back.
LEMMA BeginningStep ==
  ASSUME ChannelInv,
         \/ Channel!BeginPush \/ Channel!BeginPop
         \/ Channel!ChildDies \/ Channel!ChildRestarts
  PROVE  ChannelInv' /\ UNCHANGED Channel!Abstract!vars
<1> USE DEF ChannelInv, Channel!memVars, Channel!readerVars, Channel!writerVars,
        Channel!lifeVars
<1>1. CASE Channel!BeginPush
  <2> USE <1>1 DEF Channel!BeginPush
  <2>1. Channel!TypeOK'
    BY DEF Channel!TypeOK
  <2>2. Writing'
    BY DEF Channel!TypeOK, Writing, Channel!SlotOf
  <2>3. PendingWhole' /\ Reading'
    BY DEF PendingWhole, Reading, Channel!SlotOf, Channel!Whole
  <2> QED BY <2>1, <2>2, <2>3, QuietStep
<1>2. CASE Channel!BeginPop
  <2> USE <1>2 DEF Channel!BeginPop, Channel!Pending
  <2>1. Channel!TypeOK'
    BY DEF Channel!TypeOK
  <2>2. Writing' /\ PendingWhole'
    BY DEF Writing, PendingWhole, Channel!SlotOf, Channel!Whole
  <2>3. Reading'
    BY DEF Channel!TypeOK, Reading
  <2> QED BY <2>1, <2>2, <2>3, QuietStep
<1>3. CASE Channel!ChildDies \/ Channel!ChildRestarts
  <2> USE <1>3 DEF Channel!ChildDies, Channel!ChildRestarts
  <2>1. Channel!TypeOK'
    <3>1. Channel!Empty \in Channel!Fields
      BY DEF Channel!Empty, Channel!Fields
    <3> QED BY <3>1 DEF Channel!TypeOK
  <2>2. Writing' /\ PendingWhole'
    BY DEF Writing, PendingWhole, Channel!SlotOf, Channel!Whole
  <2>3. Reading'
    BY DEF Reading
  <2> QED BY <2>1, <2>2, <2>3, QuietStep
<1> QED BY <1>1, <1>2, <1>3

\* The oldest event makes room, unless a pop has made it meanwhile.
LEMMA MakeRoomStep ==
  ASSUME ChannelInv, Channel!MakeRoom
  PROVE  ChannelInv' /\ (Channel!Abstract!DropOldest \/ UNCHANGED Channel!Abstract!vars)
<1> USE DEF ChannelInv, Channel!MakeRoom, Channel!readerVars, Channel!lifeVars
<1>1. /\ readIdx \in Nat /\ readIdx' \in Nat /\ readIdx <= readIdx' /\ readIdx' <= writeIdx
      /\ writeIdx \in Nat /\ writeIdx - readIdx' < Capacity
  BY DEF Channel!TypeOK, Writing, Channel!AdvancedRead
<1>2. Channel!TypeOK'
  BY <1>1 DEF Channel!TypeOK
<1>3. Writing'
  BY <1>1 DEF Writing
<1>4. PendingWhole'
  <2>1. \A k \in readIdx' .. writeIdx - 1 : k \in readIdx .. writeIdx - 1
    BY <1>1
  <2>2. \A k \in readIdx' .. writeIdx - 1 :
           slots[Channel!SlotOf(k)] = Channel!Whole(k + 1)
    BY <2>1 DEF PendingWhole
  <2> QED BY <2>2 DEF PendingWhole, Channel!SlotOf, Channel!Whole
<1>5. Reading'
  BY <1>1 DEF Channel!TypeOK, Reading
<1>6. CASE readIdx = seenRead
  <2>1. readIdx' = readIdx + 1 /\ writeIdx - readIdx = Capacity
    BY <1>6 DEF Writing, Channel!AdvancedRead
  <2>2. Channel!Contents' \in Seq(Channel!Fields)
        /\ Len(Channel!Contents') = writeIdx - readIdx'
        /\ \A i \in 1 .. writeIdx - readIdx' :
              Channel!Contents'[i] = Channel!Contents[i + 1]
    <3>1. \A i \in 1 .. writeIdx - readIdx' :
             Channel!Contents'[i] = Channel!Contents[i + 1]
      <4> SUFFICES ASSUME NEW i \in 1 .. writeIdx - readIdx'
            PROVE Channel!Contents'[i] = Channel!Contents[i + 1]
        OBVIOUS
      <4>1. readIdx' + i - 1 = readIdx + (i + 1) - 1 /\ i + 1 \in 1 .. writeIdx - readIdx
        BY <1>1, <2>1
      <4> QED BY <4>1 DEF Channel!Contents, Channel!SlotOf
    <3>2. \A i \in 1 .. writeIdx - readIdx' : i + 1 \in 1 .. writeIdx - readIdx
      BY <1>1, <2>1
    <3>3. \A i \in 1 .. writeIdx - readIdx' : Channel!Contents'[i] \in Channel!Fields
      BY <3>1, <3>2, PendingIsSequence
    <3>4. Channel!Contents' \in [1 .. writeIdx - readIdx' -> Channel!Fields]
      BY <3>3 DEF Channel!Contents
    <3>5. writeIdx - readIdx' \in Nat
      BY <1>1
    <3> QED BY <3>1, <3>4, <3>5, AsSequence
  <2>3. Channel!Contents' = Tail(Channel!Contents)
    BY SMTT(20), <1>1, <2>1, <2>2, PendingIsSequence, IsTail
  <2> QED
    BY <1>2, <1>3, <1>4, <1>5, <2>1, <2>3, PendingIsSequence DEF Channel!Abstract!DropOldest
<1>7. CASE readIdx # seenRead
  BY <1>2, <1>3, <1>4, <1>5, <1>7, QuietStep DEF Channel!AdvancedRead
<1> QED BY <1>6, <1>7

\* The fields are written into the free slot, which is not pending and which
\* no reader's copy that can still be claimed is of.
LEMMA WriteStep ==
  ASSUME ChannelInv, Channel!WriteFirst \/ Channel!WriteSecond
  PROVE  ChannelInv' /\ UNCHANGED Channel!Abstract!vars
<1> USE DEF ChannelInv, Channel!WriteFirst, Channel!WriteSecond, Channel!readerVars,
        Channel!lifeVars
<1> DEFINE w == Channel!SlotOf(writeIdx)
<1>1. writeIdx \in Nat /\ readIdx \in Nat /\ w \in 0 .. Capacity - 1
      /\ writeIdx - readIdx < Capacity
  BY SlotInRange DEF Channel!TypeOK, Writing
<1>2. \A k \in readIdx .. writeIdx - 1 : Channel!SlotOf(k) # w
  BY <1>1, SlotsDiffer
<1>3. slots[w] \in Channel!Fields
  BY <1>1 DEF Channel!TypeOK
<1>4. \E r \in Channel!Fields :
        /\ slots' = [slots EXCEPT ![w] = r]
        /\ wpc = "first" => r.a = writeIdx + 1
        /\ wpc = "second" => r = Channel!Whole(writeIdx + 1)
  <2>1. CASE Channel!WriteFirst
    <3>1. [slots[w] EXCEPT !.a = writeIdx + 1] = [a |-> writeIdx + 1, b |-> slots[w].b]
      BY <1>3 DEF Channel!Fields
    <3>2. [a |-> writeIdx + 1, b |-> slots[w].b] \in Channel!Fields
      BY <1>1, <1>3 DEF Channel!Fields
    <3>3. slots' = [slots EXCEPT ![w] = [a |-> writeIdx + 1, b |-> slots[w].b]]
      BY <2>1, <3>1
    <3> QED BY <2>1, <3>2, <3>3
  <2>2. CASE Channel!WriteSecond
    <3>1. [slots[w] EXCEPT !.b = writeIdx + 1] = Channel!Whole(writeIdx + 1)
      BY <1>3, <2>2 DEF Channel!Fields, Channel!Whole, Writing
    <3>2. Channel!Whole(writeIdx + 1) \in Channel!Fields
      BY <1>1 DEF Channel!Fields, Channel!Whole
    <3>3. slots' = [slots EXCEPT ![w] = Channel!Whole(writeIdx + 1)]
      BY <2>2, <3>1
    <3> QED BY <2>2, <3>2, <3>3
  <2> QED BY <2>1, <2>2
<1>5. PICK r \in Channel!Fields :
        /\ slots' = [slots EXCEPT ![w] = r]
        /\ wpc = "first" => r.a = writeIdx + 1
        /\ wpc = "second" => r = Channel!Whole(writeIdx + 1)
  BY <1>4
<1>6. slots'[w] = r /\ \A k \in readIdx .. writeIdx - 1 :
                          slots'[Channel!SlotOf(k)] = slots[Channel!SlotOf(k)]
  <2>1. \A k \in readIdx .. writeIdx - 1 : Channel!SlotOf(k) \in 0 .. Capacity - 1
    BY <1>1, SlotInRange
  <2> QED BY <1>1, <1>2, <1>5, <2>1 DEF Channel!TypeOK
<1> HIDE DEF w
<1>7. Channel!TypeOK'
  BY <1>5 DEF Channel!TypeOK
<1>8. Writing'
  BY <1>1, <1>5, <1>6 DEF Writing, w, Channel!SlotOf, Channel!Whole
<1>9. PendingWhole'
  BY <1>6 DEF PendingWhole, Channel!SlotOf, Channel!Whole
<1>10. Reading'
  BY DEF Reading, Channel!Whole
<1>11. Channel!Contents' = Channel!Contents
  <2>1. \A i \in 1 .. writeIdx - readIdx : readIdx + i - 1 \in readIdx .. writeIdx - 1
    BY <1>1
  <2> QED BY <1>6, <2>1 DEF Channel!Contents, Channel!SlotOf
<1> QED BY <1>7, <1>8, <1>9, <1>10, <1>11 DEF Channel!Abstract!vars

\* The event written becomes the youngest that is pending.
LEMMA PublishPushStep ==
  ASSUME ChannelInv, Channel!PublishPush
  PROVE  ChannelInv' /\ \E e \in {Channel!Whole(n) : n \in 1 .. MaxEvents} :
                          Channel!Abstract!Append1(e)
<1> USE DEF ChannelInv, Channel!PublishPush, Channel!readerVars, Channel!lifeVars
<1>1. /\ writeIdx \in Nat /\ readIdx \in Nat /\ writeIdx < MaxEvents
      /\ readIdx <= writeIdx /\ writeIdx - readIdx < Capacity
      /\ slots[Channel!SlotOf(writeIdx)] = Channel!Whole(writeIdx + 1)
  BY DEF Channel!TypeOK, Writing
<1>2. Channel!TypeOK'
  BY DEF Channel!TypeOK
<1>3. Writing'
  BY <1>1 DEF Writing
<1>4. PendingWhole'
  <2>1. \A k \in readIdx .. writeIdx :
           slots[Channel!SlotOf(k)] = Channel!Whole(k + 1)
    <3>1. \A k \in readIdx .. writeIdx : k \in readIdx .. writeIdx - 1 \/ k = writeIdx
      BY <1>1
    <3> QED BY <1>1, <3>1 DEF PendingWhole
  <2>2. (writeIdx + 1) - 1 = writeIdx
    BY <1>1
  <2> QED BY <2>1, <2>2 DEF PendingWhole, Channel!SlotOf, Channel!Whole
<1>5. Reading'
  BY DEF Channel!TypeOK, Reading, Channel!Whole
<1>6. Channel!Contents' = Append(Channel!Contents, Channel!Whole(writeIdx + 1))
  <2> DEFINE n == writeIdx - readIdx
  <2>1. n \in Nat /\ writeIdx' - readIdx' = n + 1 /\ readIdx + (n + 1) - 1 = writeIdx
    BY <1>1
  <2>2. Channel!Whole(writeIdx + 1) \in Channel!Fields
    BY <1>1 DEF Channel!Whole, Channel!Fields
  <2>3. \A i \in 1 .. n : Channel!Contents'[i] = Channel!Contents[i]
    BY <2>1 DEF Channel!Contents, Channel!SlotOf
  <2>4. Channel!Contents'[n + 1] = Channel!Whole(writeIdx + 1)
    <3>1. n + 1 \in 1 .. n + 1
      BY <2>1
    <3> QED BY <1>1, <2>1, <3>1 DEF Channel!Contents, Channel!SlotOf
  <2>5. \A i \in 1 .. n + 1 : Channel!Contents'[i] \in Channel!Fields
    <3>1. \A i \in 1 .. n + 1 : i \in 1 .. n \/ i = n + 1
      BY <2>1
    <3>2. \A i \in 1 .. n : Channel!Contents[i] \in Channel!Fields
      BY PendingIsSequence, ElementOfSeq
    <3> QED BY <2>2, <2>3, <2>4, <3>1, <3>2
  <2>6. Channel!Contents' \in [1 .. n + 1 -> Channel!Fields]
    BY <2>1, <2>5 DEF Channel!Contents
  <2>7. Channel!Contents' \in Seq(Channel!Fields) /\ Len(Channel!Contents') = n + 1
    BY <2>1, <2>6, AsSequence
  <2> QED BY <2>1, <2>2, <2>3, <2>4, <2>7, PendingIsSequence, IsAppend
<1>7. Channel!Abstract!Append1(Channel!Whole(writeIdx + 1))
  BY <1>1, <1>6, PendingIsSequence DEF Channel!Abstract!Append1
<1>8. writeIdx + 1 \in 1 .. MaxEvents
  BY <1>1
<1> QED BY <1>2, <1>3, <1>4, <1>5, <1>7, <1>8

\* The reader copies the fields one by one.
LEMMA CopyStep ==
  ASSUME ChannelInv, Channel!ReadFirst \/ Channel!ReadSecond
  PROVE  ChannelInv' /\ UNCHANGED Channel!Abstract!vars
<1> USE DEF ChannelInv, Channel!ReadFirst, Channel!ReadSecond, Channel!memVars,
        Channel!writerVars, Channel!lifeVars
<1>1. at \in Nat /\ tmp \in Channel!Fields /\ readIdx \in Nat /\ writeIdx \in Nat
      /\ at < writeIdx
  BY DEF Channel!TypeOK, Reading
<1>2. slots[Channel!SlotOf(at)] \in Channel!Fields
  BY <1>1, SlotInRange DEF Channel!TypeOK
<1>3. readIdx = at => slots[Channel!SlotOf(at)] = Channel!Whole(at + 1)
  BY <1>1 DEF PendingWhole
<1>4. /\ tmp' \in Channel!Fields
      /\ rpc = "first" => tmp'.a = slots[Channel!SlotOf(at)].a
      /\ rpc = "second" /\ tmp.a = at + 1 /\ readIdx = at => tmp' = Channel!Whole(at + 1)
  <2>1. CASE Channel!ReadFirst
    <3>1. tmp' = [a |-> slots[Channel!SlotOf(at)].a, b |-> tmp.b]
      BY <1>1, <2>1 DEF Channel!Fields
    <3> QED BY <1>1, <1>2, <2>1, <3>1 DEF Channel!Fields
  <2>2. CASE Channel!ReadSecond
    <3>1. tmp' = [a |-> tmp.a, b |-> slots[Channel!SlotOf(at)].b]
      BY <1>1, <2>2 DEF Channel!Fields
    <3> QED BY <1>1, <1>2, <1>3, <2>2, <3>1 DEF Channel!Fields, Channel!Whole
  <2> QED BY <2>1, <2>2
<1>5. Channel!TypeOK'
  BY <1>4 DEF Channel!TypeOK
<1>6. Writing' /\ PendingWhole'
  BY DEF Writing, PendingWhole, Channel!SlotOf, Channel!Whole
<1>7. Reading'
  BY <1>3, <1>4 DEF Reading, Channel!Whole
<1> QED BY <1>5, <1>6, <1>7, QuietStep

\* A copy is delivered only if its event is still the oldest one pending.
LEMMA ClaimStep ==
  ASSUME ChannelInv, Channel!Claim
  PROVE  ChannelInv' /\ (Channel!Abstract!Deliver \/ UNCHANGED Channel!Abstract!vars)
<1> USE DEF ChannelInv, Channel!Claim, Channel!ClaimSucceeds, Channel!writerVars,
        Channel!lifeVars
<1>1. CASE readIdx # at
  <2>1. Channel!TypeOK'
    BY <1>1 DEF Channel!TypeOK
  <2>2. Writing' /\ PendingWhole' /\ Reading'
    BY <1>1 DEF Writing, PendingWhole, Reading, Channel!SlotOf, Channel!Whole
  <2> QED BY <1>1, <2>1, <2>2, QuietStep
<1>2. CASE readIdx = at
  <2> USE <1>2
  <2>1. /\ readIdx \in Nat /\ writeIdx \in Nat /\ readIdx < writeIdx /\ readIdx' = readIdx + 1
        /\ got' = Channel!Whole(readIdx + 1)
    BY DEF Channel!TypeOK, Reading
  <2>2. Channel!TypeOK'
    <3>1. got' \in Channel!Fields
      BY DEF Channel!TypeOK
    <3>2. gotLife' \in 0 .. MaxLives
      BY DEF Channel!TypeOK
    <3> QED BY <2>1, <3>1, <3>2 DEF Channel!TypeOK
  <2>3. Writing'
    BY <2>1 DEF Writing, Channel!TypeOK, Channel!SlotOf, Channel!Whole
  <2>4. PendingWhole'
    <3>1. \A k \in readIdx' .. writeIdx - 1 : k \in readIdx .. writeIdx - 1
      BY <2>1
    <3>2. \A k \in readIdx' .. writeIdx - 1 :
             slots[Channel!SlotOf(k)] = Channel!Whole(k + 1)
      BY <3>1 DEF PendingWhole
    <3> QED BY <3>2 DEF PendingWhole, Channel!SlotOf, Channel!Whole
  <2>5. Reading'
    BY DEF Reading
  <2>6. Channel!Contents # <<>> /\ got' = Head(Channel!Contents)
        /\ Channel!Contents' = Tail(Channel!Contents)
    <3>1. \A i \in 1 .. writeIdx - readIdx' :
             Channel!Contents'[i] = Channel!Contents[i + 1] /\ i + 1 \in 1 .. writeIdx - readIdx
      <4> SUFFICES ASSUME NEW i \in 1 .. writeIdx - readIdx'
            PROVE Channel!Contents'[i] = Channel!Contents[i + 1]
                  /\ i + 1 \in 1 .. writeIdx - readIdx
        OBVIOUS
      <4>1. readIdx' + i - 1 = readIdx + (i + 1) - 1 /\ i + 1 \in 1 .. writeIdx - readIdx
        BY <2>1
      <4> QED BY <4>1 DEF Channel!Contents, Channel!SlotOf
    <3>2. \A i \in 1 .. writeIdx - readIdx' : Channel!Contents'[i] \in Channel!Fields
      BY <3>1, PendingIsSequence, ElementOfSeq
    <3>3. Channel!Contents' \in [1 .. writeIdx - readIdx' -> Channel!Fields]
      BY <3>2 DEF Channel!Contents
    <3>4. writeIdx - readIdx' \in Nat
      BY <2>1
    <3>5. Channel!Contents' \in Seq(Channel!Fields) /\ Len(Channel!Contents') = writeIdx - readIdx'
      BY <3>3, <3>4, AsSequence
    <3>6. Len(Channel!Contents) = Len(Channel!Contents') + 1 /\ Channel!Contents[1] = got'
      BY <2>1, <3>5, PendingIsSequence
    <3> QED BY <3>1, <3>5, <3>6, PendingIsSequence, IsTail
  <2> QED BY <2>2, <2>3, <2>4, <2>5, <2>6 DEF Channel!Abstract!Deliver
<1> QED BY <1>1, <1>2

\* Every step of the channel.
LEMMA ChannelStep ==
  ASSUME ChannelInv, [Channel!Next]_channelVars
  PROVE  ChannelInv' /\ [Channel!Abstract!Next]_(Channel!Abstract!vars)
<1>1. CASE UNCHANGED channelVars
  <2>1. Channel!TypeOK'
    BY <1>1 DEF channelVars, ChannelInv, Channel!TypeOK
  <2>2. Writing' /\ PendingWhole' /\ Reading'
    BY <1>1 DEF channelVars, ChannelInv, Writing, PendingWhole, Reading, Channel!SlotOf,
       Channel!Whole
  <2> QED BY <1>1, <2>1, <2>2, QuietStep DEF channelVars, ChannelInv
<1>2. CASE Channel!Next
  BY <1>2, BeginningStep, MakeRoomStep, WriteStep, PublishPushStep, CopyStep, ClaimStep
     DEF Channel!Next, Channel!WriterStep, Channel!ReaderStep, Channel!Abstract!Next
<1> QED BY <1>1, <1>2

-----------------------------------------------------------------------------
(* The audio thread between both                                            *)

\* The inductive invariant of both channels, whatever their capacities.
THEOREM InvariantHolds == OnePusher => (BothSpec => [](RingInv /\ ChannelInv))
<1> SUFFICES ASSUME OnePusher PROVE BothSpec => [](RingInv /\ ChannelInv)
  OBVIOUS
<1>1. BothInit => RingInv /\ ChannelInv
  BY RingInit, ChannelInit DEF BothInit
<1>2. [BothNext]_bothVars => [Next]_vars /\ [Channel!Next]_channelVars
  BY DEF BothNext, bothVars, Pop, Push, PusherStep, NewPush, ReaderStep, ReaderLives, Next,
     Channel!Next
<1>3. RingInv /\ ChannelInv /\ [BothNext]_bothVars => (RingInv /\ ChannelInv)'
  BY <1>2, RingStep, ChannelStep
<1> QED BY <1>1, <1>3, PTL DEF BothSpec

\* RingBuffer with one pushing thread is the bounded queue that refuses only
\* when full, and the channel of SharedAudioRing the queue that loses only its
\* oldest event and only when full: nothing torn, repeated or out of order,
\* however their threads interleave and children die.
THEOREM QueuesImplemented == OnePusher => (BothSpec => ImplementsQueues)
<1> SUFFICES ASSUME OnePusher PROVE BothSpec => ImplementsQueues
  OBVIOUS
<1>1. BothInit => Abstract!Init /\ Channel!Abstract!Init
  BY RingInit, ChannelInit DEF BothInit
<1>2. [BothNext]_bothVars => [Next]_vars /\ [Channel!Next]_channelVars
  BY DEF BothNext, bothVars, Pop, Push, PusherStep, NewPush, ReaderStep, ReaderLives, Next,
     Channel!Next
<1>3. RingInv /\ ChannelInv /\ [BothNext]_bothVars
      => [Abstract!Next]_(Abstract!vars) /\ [Channel!Abstract!Next]_(Channel!Abstract!vars)
  BY <1>2, RingStep, ChannelStep
<1> QED
  BY InvariantHolds, <1>1, <1>3, PTL
     DEF BothSpec, ImplementsQueues, ImplementsBoundedFifo, Abstract!Spec, Channel!Abstract!Spec
=============================================================================
