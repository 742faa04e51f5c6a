---------------------------- MODULE Callback_proofs ----------------------------
(***************************************************************************)
(* Two states that the audio callback shares with the engine's other       *)
(* threads: the transport (TransportLoop) and the clip launcher            *)
(* (SessionSlots).                                                         *)
(*                                                                         *)
(* The transport, for every size of callback and sub-block, every loop     *)
(* region, seek target and content end, and however the callback, the      *)
(* control loop and the browsers interleave: what is heard follows the     *)
(* braces and the seeks, and nothing is played past a brace.  The braces   *)
(* are stored by two threads, one word at a time, and the invariant says   *)
(* nothing of them but that each is a frame: the proof rests on the        *)
(* callback loading each once and keeping what it loaded, and on a SetLoop *)
(* being tested (Valid) before its region reaches the braces.              *)
(*                                                                         *)
(* The launcher, for every number of tracks, slots of every length, notes, *)
(* quantum and size of block, as long as a launch and the callback do not  *)
(* meet inside a track (~Racing, without which it fails): a slot from the  *)
(* queue starts whole and on the grid of the first launch, and, when notes *)
(* end before their slot does (NotesEndInside, without which it fails), an *)
(* instrument holds no note that its slot does not hold at that moment.    *)
(***************************************************************************)
EXTENDS SessionSlots, MCTransportLoop, FiniteSetTheorems, WellFoundedInduction, TLAPS

-----------------------------------------------------------------------------
(* Remainders                                                              *)

\* Quotient and remainder of a time by a length.
LEMMA Division ==
  ASSUME NEW n \in Nat \ {0}, NEW x \in Int
  PROVE  /\ x \div n \in Int /\ x % n \in 0 .. n - 1
         /\ x = n * (x \div n) + (x % n)
  OBVIOUS

\* No multiple of a length lies strictly between 0 and it.
LEMMA Multiples ==
  ASSUME NEW n \in Nat \ {0}, NEW k \in Int
  PROVE  /\ n * k \in Int
         /\ k > 0 => n * k >= n
         /\ k < 0 => n * k <= 0 - n
         /\ k = 0 => n * k = 0
<1>1. n * k \in Int /\ (k = 0 => n * k = 0)
  OBVIOUS
<1>2. k > 0 => n * k >= n
  OBVIOUS
<1>3. k < 0 => n * k <= 0 - n
  OBVIOUS
<1> QED BY <1>1, <1>2, <1>3

\* Times that differ by a multiple of a length are at the same position of it.
LEMMA SameRemainder ==
  ASSUME NEW n \in Nat \ {0}, NEW x \in Int, NEW y \in Int,
         \E k \in Int : x - y = n * k
  PROVE  x % n = y % n
<1> PICK k \in Int : x - y = n * k
  OBVIOUS
<1> DEFINE p == x \div n
           q == y \div n
           a == x % n
           b == y % n
<1>1. p \in Int /\ q \in Int /\ x = n * p + a /\ y = n * q + b
  BY Division
<1>2. a \in 0 .. n - 1 /\ b \in 0 .. n - 1
  BY Division
<1> HIDE DEF p, q, a, b
<1>3. n * (p - q - k) = n * p - n * q - n * k
  BY <1>1
<1>4. n * p \in Int /\ n * q \in Int /\ n * k \in Int /\ p - q - k \in Int
  BY <1>1
<1> DEFINE np == n * p
           nq == n * q
           nk == n * k
<1>5. np - nq - nk = b - a
  <2>1. x = np + a /\ y = nq + b /\ x - y = nk
    BY <1>1
  <2>2. np \in Int /\ nq \in Int /\ nk \in Int
    BY <1>4
  <2> HIDE DEF np, nq, nk
  <2> QED BY <2>1, <2>2, <1>2
<1>6. n * (p - q - k) = b - a
  BY <1>3, <1>5
<1>7. p - q - k = 0
  BY <1>2, <1>4, <1>6, Multiples
<1>8. b - a = 0
  BY <1>6, <1>7
<1> QED BY <1>2, <1>8 DEF a, b

\* A multiple of a length is one as large.
LEMMA Divides ==
  ASSUME NEW n \in Nat \ {0}, NEW m \in Nat \ {0}, m % n = 0
  PROVE  n <= m /\ \E k \in Int : m = n * k
<1> DEFINE k == m \div n
<1>1. k \in Int /\ m = n * k
  BY Division
<1> HIDE DEF k
<1>2. k > 0
  BY <1>1, Multiples
<1> QED BY <1>1, <1>2, Multiples

\* A time a whole number of periods away is at the same position.
LEMMA PeriodsApart ==
  ASSUME NEW n \in Nat \ {0}, Period % n = 0,
         NEW x \in Int, NEW y \in Int,
         x - y = 0 \/ x - y = Period \/ x - y = 0 - Period
  PROVE  x % n = y % n
<1>1. PICK k \in Int : Period = n * k
  <2>1. Period \in Nat \ {0}
    BY SessionSlotsAssumption
  <2> QED BY <2>1, Divides
<1>2. n * 0 = 0 /\ n * (0 - k) = 0 - n * k
  BY <1>1
<1>3. 0 - Period = n * (0 - k) /\ 0 - k \in Int
  BY <1>1, <1>2
<1>4. PICK j \in {k, 0, 0 - k} : x - y = n * j
  <2>1. CASE x - y = 0
    BY <1>2, <2>1
  <2>2. CASE x - y = Period
    BY <1>1, <2>2
  <2>3. CASE x - y = 0 - Period
    BY <1>3, <2>3
  <2> QED BY <2>1, <2>2, <2>3
<1>5. j \in Int
  BY <1>1, <1>4
<1>6. \E i \in Int : x - y = n * i
  BY <1>4, <1>5, Zenon
<1> QED BY <1>6, SameRemainder, Zenon

\* Less than a length on, the position is that much further, or wraps once.
LEMMA Further ==
  ASSUME NEW n \in Nat \ {0}, NEW x \in Int, NEW d \in 0 .. n
  PROVE  (x + d) % n = IF (x % n) + d < n THEN (x % n) + d ELSE (x % n) + d - n
<1> DEFINE a == x % n
           q == x \div n
           z == IF a + d < n THEN a + d ELSE a + d - n
<1>1. a \in 0 .. n - 1 /\ q \in Int /\ x = n * q + a
  BY Division
<1>2. z \in 0 .. n - 1
  BY <1>1
<1> HIDE DEF a, q, z
<1>3. PICK k \in Int : x + d - z = n * k
  <2>1. CASE a + d < n
    <3>1. n * q \in Int
      BY <1>1
    <3> DEFINE nq == n * q
    <3>2. nq \in Int /\ x = nq + a
      BY <1>1, <3>1
    <3> HIDE DEF nq
    <3>3. x + d - z = nq
      BY <1>1, <2>1, <3>2 DEF z
    <3> QED BY <1>1, <3>3 DEF nq
  <2>2. CASE ~(a + d < n)
    <3>1. n * (q + 1) = n * q + n
      BY <1>1
    <3> DEFINE nq == n * q
    <3>2. nq \in Int /\ x = nq + a
      BY <1>1
    <3> HIDE DEF nq
    <3>3. x + d - z = nq + n
      BY <1>1, <2>2, <3>2 DEF z
    <3>4. x + d - z = n * (q + 1) /\ q + 1 \in Int
      BY <1>1, <3>1, <3>3 DEF nq
    <3> QED BY <3>4
  <2> QED BY <2>1, <2>2
<1>4. z % n = z
  BY <1>2
<1>5. (x + d) % n = z % n
  <2> DEFINE w == x + d
  <2>1. w \in Int /\ z \in Int
    BY <1>2
  <2>2. w - z = n * k
    BY <1>3, <2>1
  <2> HIDE DEF w
  <2>3. w % n = z % n
    BY <2>1, <2>2, SameRemainder
  <2> QED BY <2>3 DEF w
<1> QED BY <1>4, <1>5 DEF a, z

\* The next point of the grid is on the grid, not in the past, and less than a
\* step away.
LEMMA GridPoint ==
  ASSUME NEW now \in Int, NEW from \in Int, NEW step \in Nat \ {0}
  PROVE  LET s == NextQuantumStart(now, from, step) IN
         /\ s \in Int /\ (s - from) % step = 0
         /\ s >= now /\ (s = from \/ s < now + step)
<1> DEFINE s == NextQuantumStart(now, from, step)
<1>1. CASE now <= from
  <2>1. s = from
    BY <1>1 DEF NextQuantumStart
  <2> QED BY <1>1, <2>1
<1>2. CASE ~(now <= from)
  <2> DEFINE d == now - from + step - 1
             k == d \div step
             r == d % step
             m == step * k
  <2>1. d \in Int /\ k \in Int /\ r \in 0 .. step - 1 /\ d = m + r
    <3>1. d \in Int
      OBVIOUS
    <3> HIDE DEF d
    <3> QED BY <3>1, Division
  <2>2. m \in Int /\ k * step = m
    BY <2>1
  <2>3. s = from + m
    BY <1>2, <2>2 DEF NextQuantumStart
  <2>4. m % step = 0
    <3>1. m - 0 = step * k
      BY <2>2
    <3>2. 0 % step = 0
      OBVIOUS
    <3> HIDE DEF m, k, d, r
    <3> QED BY <2>1, <2>2, <3>1, <3>2, SameRemainder
  <2>5. d = now - from + step - 1
    OBVIOUS
  <2> HIDE DEF s, d, k, r, m
  <2>6. s - from = m /\ s \in Int
    BY <2>2, <2>3
  <2>7. s >= now /\ s < now + step
    BY <2>1, <2>2, <2>3, <2>5
  <2> QED BY <2>4, <2>6, <2>7 DEF s
<1> QED BY <1>1, <1>2

\* A set of numbers has a least one.
LEMMA Least ==
  ASSUME NEW T \in SUBSET Nat, T # {}
  PROVE  \E x \in T : \A y \in T : x <= y
<1>1. PICK x \in T : \A y \in T : ~(<<y, x>> \in OpToRel(<, Nat))
  BY NatLessThanWellFounded, WFMin
<1>2. \A y \in T : ~(y < x)
  BY <1>1 DEF OpToRel
<1> QED BY <1>2

\* A set of numbers with an upper bound has a greatest one.
LEMMA Greatest ==
  ASSUME NEW S \in SUBSET Int, S # {}, NEW b \in Int, \A x \in S : x <= b
  PROVE  Max(S) \in S /\ \A x \in S : x <= Max(S)
<1> DEFINE T == {b - x : x \in S}
<1>1. T \in SUBSET Nat /\ T # {}
  <2>1. \A x \in S : b - x \in Nat
    OBVIOUS
  <2> QED BY <2>1
<1>2. PICK y \in T : \A z \in T : y <= z
  BY <1>1, Least
<1>3. PICK m \in S : y = b - m
  BY <1>2
<1>4. \A x \in S : m >= x
  BY <1>2, <1>3
<1> QED BY <1>4 DEF Max

-----------------------------------------------------------------------------
(* What the instrument of a track hears in a block                         *)

\* The notes of a slot: each begins, and ends before the slot does.
GoodSlot(slot) ==
  /\ slot.len \in Nat \ {0}
  /\ \A n \in slot.notes : {n.start, n.end} \subseteq Nat /\ n.start < n.end /\ n.end < slot.len

\* The pitches of the notes a slot holds at a position.
HeldAt(slot, x) == {n.pitch : n \in {m \in slot.notes : m.start < x /\ m.end >= x}}

OnEvent(n, at) == [pitch |-> n.pitch, on |-> TRUE, offset |-> at]
OffEvent(n, at) == [pitch |-> n.pitch, on |-> FALSE, offset |-> at]

\* The events of a block, one by one.
LEMMA EventsInBlock ==
  ASSUME NEW slot, GoodSlot(slot), NEW base \in Nat, NEW frames \in 0 .. slot.len
  PROVE  LET local == base % slot.len
             end == local + frames
         IN
         /\ \A n \in slot.notes, k \in {0, slot.len} :
              n.start + k >= local /\ n.start + k < end
                => OnEvent(n, n.start + k - local) \in Events(slot, base, frames)
         /\ \A n \in slot.notes, k \in {0, slot.len} :
              n.end + k >= local /\ n.end + k < end
                => OffEvent(n, n.end + k - local) \in Events(slot, base, frames)
         /\ end > slot.len =>
              \A n \in slot.notes : OffEvent(n, slot.len - local) \in Events(slot, base, frames)
         /\ \A e \in Events(slot, base, frames) :
              /\ e.offset \in Int /\ e.offset < frames
              /\ e.on => \E n \in slot.notes, k \in {0, slot.len} :
                           /\ e = OnEvent(n, n.start + k - local)
                           /\ n.start + k >= local /\ n.start + k < end
<1> DEFINE local == base % slot.len
           end == local + frames
           at == {<<n, k>> : n \in slot.notes, k \in {0, slot.len}}
           inBlock(x) == x >= local /\ x < end
           seam == IF end > slot.len THEN {slot.len - local} ELSE {}
           Ons == {OnEvent(x[1], x[1].start + x[2] - local) :
                     x \in {y \in at : inBlock(y[1].start + y[2])}}
           Offs == {OffEvent(x[1], x[1].end + x[2] - local) :
                      x \in {y \in at : inBlock(y[1].end + y[2])}}
           Seams == {OffEvent(n, o) : n \in slot.notes, o \in seam}
<1>1. Events(slot, base, frames) = Ons \cup Offs \cup Seams
  BY DEF Events, OnEvent, OffEvent
<1>2. local \in 0 .. slot.len - 1
  BY Division DEF GoodSlot
<1>3. \A n \in slot.notes : n.start \in Nat /\ n.end \in Nat
  BY DEF GoodSlot
<1>4. slot.len \in Nat
  BY DEF GoodSlot
<1> HIDE DEF local
<1>5. \A n \in slot.notes, k \in {0, slot.len} :
        inBlock(n.start + k) => OnEvent(n, n.start + k - local) \in Ons
  <2> SUFFICES ASSUME NEW n \in slot.notes, NEW k \in {0, slot.len}, inBlock(n.start + k)
        PROVE  OnEvent(n, n.start + k - local) \in Ons
    OBVIOUS
  <2> DEFINE y == <<n, k>>
  <2>1. y \in at /\ y[1] = n /\ y[2] = k
    OBVIOUS
  <2> HIDE DEF y, at
  <2>2. y \in {z \in at : inBlock(z[1].start + z[2])}
    BY <2>1
  <2> HIDE DEF inBlock
  <2> QED BY <2>1, <2>2
<1>6. \A n \in slot.notes, k \in {0, slot.len} :
        inBlock(n.end + k) => OffEvent(n, n.end + k - local) \in Offs
  <2> SUFFICES ASSUME NEW n \in slot.notes, NEW k \in {0, slot.len}, inBlock(n.end + k)
        PROVE  OffEvent(n, n.end + k - local) \in Offs
    OBVIOUS
  <2> DEFINE y == <<n, k>>
  <2>1. y \in at /\ y[1] = n /\ y[2] = k
    OBVIOUS
  <2> HIDE DEF y, at
  <2>2. y \in {z \in at : inBlock(z[1].end + z[2])}
    BY <2>1
  <2> HIDE DEF inBlock
  <2> QED BY <2>1, <2>2
<1>7. end > slot.len => \A n \in slot.notes : OffEvent(n, slot.len - local) \in Seams
  OBVIOUS
<1>8. \A e \in Ons :
        \E n \in slot.notes, k \in {0, slot.len} :
          e = OnEvent(n, n.start + k - local) /\ inBlock(n.start + k)
  OBVIOUS
<1>9. \A e \in Offs :
        \E n \in slot.notes, k \in {0, slot.len} :
          e = OffEvent(n, n.end + k - local) /\ inBlock(n.end + k)
  OBVIOUS
<1>10. \A e \in Seams : end > slot.len /\ \E n \in slot.notes : e = OffEvent(n, slot.len - local)
  OBVIOUS
<1> HIDE DEF Ons, Offs, Seams
<1>11. ASSUME NEW e \in Ons \cup Offs \cup Seams
       PROVE  /\ e.offset \in Int /\ e.offset < frames
              /\ e.on => \E n \in slot.notes, k \in {0, slot.len} :
                           /\ e = OnEvent(n, n.start + k - local)
                           /\ n.start + k >= local /\ n.start + k < end
  <2>1. CASE e \in Ons
    <3>1. PICK n \in slot.notes, k \in {0, slot.len} :
            e = OnEvent(n, n.start + k - local) /\ inBlock(n.start + k)
      BY <1>8, <2>1
    <3>2. e.offset = n.start + k - local
      BY <3>1 DEF OnEvent
    <3>3. e.offset \in Int /\ e.offset < frames
      BY <1>2, <1>3, <1>4, <3>1, <3>2
    <3> QED BY <3>1, <3>3
  <2>2. CASE e \in Offs
    <3>1. PICK n \in slot.notes, k \in {0, slot.len} :
            e = OffEvent(n, n.end + k - local) /\ inBlock(n.end + k)
      BY <1>9, <2>2
    <3>2. e.offset = n.end + k - local /\ ~e.on
      BY <3>1 DEF OffEvent
    <3>3. e.offset \in Int /\ e.offset < frames
      BY <1>2, <1>3, <1>4, <3>1, <3>2
    <3> QED BY <3>2, <3>3
  <2>3. CASE e \in Seams
    <3>1. PICK n \in slot.notes : e = OffEvent(n, slot.len - local)
      BY <1>10, <2>3
    <3>2. e.offset = slot.len - local /\ ~e.on
      BY <3>1 DEF OffEvent
    <3>3. e.offset \in Int /\ e.offset < frames
      BY <1>2, <1>4, <1>10, <2>3, <3>2
    <3> QED BY <3>2, <3>3
  <2> QED BY <1>11, <2>1, <2>2, <2>3
<1> HIDE DEF end, inBlock, at, seam
<1>12. /\ \A n \in slot.notes, k \in {0, slot.len} :
            n.start + k >= local /\ n.start + k < end
              => OnEvent(n, n.start + k - local) \in Events(slot, base, frames)
       /\ \A n \in slot.notes, k \in {0, slot.len} :
            n.end + k >= local /\ n.end + k < end
              => OffEvent(n, n.end + k - local) \in Events(slot, base, frames)
  BY <1>1, <1>5, <1>6 DEF inBlock
<1> QED BY <1>1, <1>7, <1>11, <1>12 DEF local, end

\* What an instrument holds after a block of a slot are notes the slot holds at
\* the position it has then come to, if it held only such notes before.
LEMMA PlayedIsHeld ==
  ASSUME NEW slot, GoodSlot(slot), NEW base \in Nat, NEW frames \in 0 .. slot.len,
         NEW t, NEW held, held \subseteq HeldAt(slot, base % slot.len)
  PROVE  Played(t, held, Events(slot, base, frames))
           \subseteq HeldAt(slot, (base + frames) % slot.len)
<1> DEFINE len == slot.len
           local == base % len
           end == local + frames
           q == (base + frames) % len
           events == Events(slot, base, frames)
           of(p) == {e \in events : e.pitch = p}
           offsets(p) == {e.offset : e \in of(p)}
<1> SUFFICES ASSUME NEW p \in Played(t, held, events) PROVE p \in HeldAt(slot, q)
  OBVIOUS
<1>1. len \in Nat \ {0} /\ local \in 0 .. len - 1
  <2>1. len \in Nat \ {0}
    BY DEF GoodSlot
  <2> HIDE DEF len
  <2> QED BY <2>1, Division
<1>2. q = IF end < len THEN end ELSE end - len
  <2>1. frames \in 0 .. len /\ base \in Int
    OBVIOUS
  <2> HIDE DEF len
  <2>2. (base + frames) % len = IF (base % len) + frames < len THEN (base % len) + frames
                                ELSE (base % len) + frames - len
    BY <1>1, <2>1, Further
  <2> QED BY <1>1, <2>1, <2>2
<1>3. /\ \A n \in slot.notes, k \in {0, len} :
           n.end + k >= local /\ n.end + k < end
             => OffEvent(n, n.end + k - local) \in events
      /\ end > len => \A n \in slot.notes : OffEvent(n, len - local) \in events
      /\ \A e \in events :
           /\ e.offset \in Int /\ e.offset < frames
           /\ e.on => \E n \in slot.notes, k \in {0, len} :
                        /\ e = OnEvent(n, n.start + k - local)
                        /\ n.start + k >= local /\ n.start + k < end
  BY EventsInBlock
<1>4. \A n \in slot.notes :
        n.start \in Nat /\ n.end \in Nat /\ n.start < n.end /\ n.end < len
  BY DEF GoodSlot
<1>5. IF of(p) = {} THEN p \in held
      ELSE \E e \in of(p) : e.offset = Max(offsets(p)) /\ e.on
  BY DEF Played
<1> HIDE DEF len, local, q, events
<1>6. CASE of(p) = {}
  <2>1. PICK m \in slot.notes : m.pitch = p /\ m.start < local /\ m.end >= local
    BY <1>5, <1>6 DEF HeldAt, local, len
  <2>2. \A at : OffEvent(m, at) \notin events
    BY <1>6, <2>1 DEF OffEvent
  <2>3. end <= len
    BY <1>1, <1>3, <2>2
  <2>4. m.end >= end
    <3>1. m.end + 0 = m.end
      BY <1>4
    <3> QED BY <1>1, <1>3, <1>4, <2>1, <2>2, <3>1
  <2>5. q = end /\ m.start < q /\ m.end >= q
    BY <1>1, <1>2, <1>4, <2>1, <2>3, <2>4
  <2> QED BY <2>1, <2>5 DEF HeldAt
<1>7. CASE of(p) # {}
  <2>1. PICK e \in of(p) : e.offset = Max(offsets(p)) /\ e.on
    BY <1>5, <1>7
  <2>2. \A f \in of(p) : f.offset <= e.offset
    <3>1. offsets(p) \in SUBSET Int /\ offsets(p) # {} /\ \A x \in offsets(p) : x <= frames
      BY <1>3, <1>7
    <3> HIDE DEF offsets
    <3>2. \A x \in offsets(p) : x <= Max(offsets(p))
      BY <3>1, Greatest
    <3> QED BY <2>1, <3>2 DEF offsets
  <2>3. PICK n \in slot.notes, k \in {0, len} :
          /\ e = OnEvent(n, n.start + k - local)
          /\ n.start + k >= local /\ n.start + k < end
    BY <1>3, <2>1
  <2>4. n.pitch = p /\ e.offset = n.start + k - local
    BY <2>1, <2>3 DEF OnEvent
  <2>5. \A at \in Int : at > e.offset => OffEvent(n, at) \notin events
    <3> SUFFICES ASSUME NEW at \in Int, at > e.offset, OffEvent(n, at) \in events PROVE FALSE
      OBVIOUS
    <3>1. OffEvent(n, at) \in of(p) /\ OffEvent(n, at).offset = at
      BY <2>4 DEF OffEvent
    <3>2. at <= e.offset
      BY <2>2, <3>1
    <3> QED BY <1>1, <1>4, <2>3, <2>4, <3>2
  <2>6. n.end + k >= end
    <3>1. n.end + k - local > e.offset /\ n.end + k - local \in Int /\ n.end + k >= local
      BY <1>1, <1>4, <2>3, <2>4
    <3>2. OffEvent(n, n.end + k - local) \notin events
      BY <2>5, <3>1
    <3> QED BY <1>1, <1>3, <1>4, <3>1, <3>2
  <2>7. n.start < q /\ n.end >= q
    <3>1. CASE k = 0
      BY <1>1, <1>2, <1>4, <2>3, <2>6, <3>1
    <3>2. CASE k = len
      BY <1>1, <1>2, <1>4, <2>3, <2>6, <3>2
    <3> QED BY <3>1, <3>2
  <2> QED BY <2>4, <2>7 DEF HeldAt
<1> QED BY <1>6, <1>7

-----------------------------------------------------------------------------
(* The inductive invariant                                                 *)

\* launched_count_ counts the tracks with a launched or a queued slot.
Engaged == {t \in Track : launched[t].slot # 0 \/ queued[t].slot # 0}
Counted == count = Cardinality(Engaged)

\* What launchSlot loaded is still there when it stores.
Called ==
  [todo : Seq(Track), scene : Scene \cup {Anything}, stop : BOOLEAN, quantize : BOOLEAN,
   loaded : BOOLEAN, launched : Nat, queued : Nat, anchor : BOOLEAN]
CallIsFresh ==
  /\ call \in Called
  /\ call.loaded => /\ call.todo # <<>> /\ seen = NoSlot
                    /\ call.launched = launched[Head(call.todo)].slot
                    /\ call.queued = queued[Head(call.todo)].slot
                    /\ call.anchor <=> count = 0

\* So is what processTrack loaded.
SeenIsFresh == seen # NoSlot => turn \in Track /\ seen = queued[turn]

\* -1 has no start.
EmptyIsEmpty ==
  \A t \in Track : /\ launched[t].slot = 0 => launched[t] = NoSlot
                   /\ queued[t].slot = 0 => queued[t] = NoSlot

\* The sample up to which a track is processed.
Now(t) == IF turn > 0 /\ t >= turn THEN -Block ELSE 0

Times == -(Period + 2 * Block) .. 0
Clocks == {graphClock, epoch} \subseteq Times /\ (turn > 0 => graphClock = -Block)

\* A boundary that was still to come has not gone by, a launch has.
OnTime ==
  \A t \in Track : /\ queued[t].fit => queued[t].start >= Now(t)
                   /\ launched[t].slot # 0 => launched[t].start <= Now(t)

\* While anything is launched or queued there is a grid, and the queue is on it.
OnGrid ==
  count > 0 =>
    /\ quantum > 0 /\ Period % quantum = 0
    /\ \A t \in Track :
         /\ queued[t].slot # 0 => (queued[t].start - epoch) % quantum = 0
         /\ launched[t].fit => (launched[t].start - epoch) % quantum = 0

\* A track that plays no slot holds no note, and one that does only the slot's.
Quiet == \A t \in Track : prev[t] = 0 /\ t \notin disturbed => sounding[t] = {}
At(t) == (Now(t) - launched[t].start) % Slot(t, launched[t].slot).len
InTune ==
  \A t \in Track :
    launched[t].slot = prev[t] /\ prev[t] # 0 /\ t \notin disturbed
      => sounding[t] \subseteq HeldAt(Slot(t, launched[t].slot), At(t))

SlotInv ==
  /\ TypeOK /\ Counted /\ CallIsFresh /\ SeenIsFresh /\ EmptyIsEmpty
  /\ Clocks /\ OnTime /\ OnGrid /\ Quiet /\ (NotesEndInside => InTune)

-----------------------------------------------------------------------------
(* Lemmas about its parts                                                  *)

\* A track's slots.
LEMMA SlotFacts ==
  ASSUME NEW t \in Track, NEW i \in SlotOf(t)
  PROVE  /\ Slot(t, i) \in AllSlots
         /\ Slot(t, i).len \in Nat \ {0} /\ Slot(t, i).len >= Block
         /\ Period % Slot(t, i).len = 0
         /\ NotesEndInside => GoodSlot(Slot(t, i))
<1>1. Slots[t] \in Seq(AllSlots)
  BY SessionSlotsAssumption
<1>2. Slot(t, i) \in AllSlots
  BY <1>1 DEF SlotOf, Slot
<1>3. Slot(t, i).len \in Nat \ {0} /\ Slot(t, i).len >= Block /\ Period % Slot(t, i).len = 0
  BY <1>2, SessionSlotsAssumption
<1> QED BY <1>2, <1>3 DEF NotesEndInside, GoodSlot

\* What gets older by a block stays in range.
LEMMA Aging ==
  ASSUME NEW x \in -(Period + 2 * Block) .. Period
  PROVE  /\ Older(x) \in -(Period + 2 * Block) .. Period
         /\ Older(x) \in {x - Block, x - Block + Period}
         /\ x <= 0 => Older(x) <= -Block /\ Older(x) \in Times
         /\ x >= 0 => Older(x) = x - Block
<1>1. Block \in Nat \ {0} /\ Period \in Nat \ {0} /\ Block <= Period
  BY SessionSlotsAssumption, Divides
<1> QED BY <1>1 DEF Older, Times

\* Two times keep their distance, up to whole periods.
LEMMA AgedDistance ==
  ASSUME NEW x \in -(Period + 2 * Block) .. Period, NEW y \in -(Period + 2 * Block) .. Period,
         NEW n \in Nat \ {0}, Period % n = 0
  PROVE  (Older(x) - Older(y)) % n = (x - y) % n
<1>1. Block \in Nat \ {0} /\ Period \in Nat \ {0}
  BY SessionSlotsAssumption
<1> DEFINE a == Older(x) - Older(y)
           b == x - y
<1>2. a \in Int /\ b \in Int /\ (a - b = 0 \/ a - b = Period \/ a - b = 0 - Period)
  BY <1>1, Aging
<1> HIDE DEF a, b
<1>3. a % n = b % n
  BY <1>1, <1>2, PeriodsApart, Zenon
<1> QED BY <1>3 DEF a, b

\* A block on, a slot is where it was when the block began.
LEMMA AgedPosition ==
  ASSUME NEW x \in -(Period + 2 * Block) .. Period, NEW n \in Nat \ {0}, Period % n = 0
  PROVE  (-Block - Older(x)) % n = (0 - x) % n
<1>1. Block \in Nat \ {0} /\ Period \in Nat \ {0}
  BY SessionSlotsAssumption
<1> DEFINE a == -Block - Older(x)
           b == 0 - x
<1>2. a \in Int /\ b \in Int /\ (a - b = 0 \/ a - b = Period \/ a - b = 0 - Period)
  BY <1>1, Aging
<1> HIDE DEF a, b
<1>3. a % n = b % n
  BY <1>1, <1>2, PeriodsApart, Zenon
<1> QED BY <1>3 DEF a, b

\* The engaged tracks are finitely many.
LEMMA EngagedFinite == IsFiniteSet(Engaged) /\ IsFiniteSet(Engaged') /\ Cardinality(Engaged) \in Nat
<1>1. IsFiniteSet(Track)
  <2>1. Tracks \in Int /\ 1 \in Int
    BY SessionSlotsAssumption
  <2>2. IsFiniteSet(1 .. Tracks)
    BY <2>1, FS_Interval
  <2> QED BY <2>2 DEF Track
<1>2. Engaged \subseteq Track /\ Engaged' \subseteq Track
  BY DEF Engaged
<1> QED BY <1>1, <1>2, FS_Subset, FS_CardinalityType

\* The count is 0 only if no track has a slot ...
LEMMA NobodyEngaged ==
  ASSUME Counted, count = 0
  PROVE  \A t \in Track : launched[t].slot = 0 /\ queued[t].slot = 0
<1>1. Engaged = {}
  BY EngagedFinite, FS_EmptySet DEF Counted
<1> QED BY <1>1 DEF Engaged

\* ... so that a track with a slot keeps the grid.
LEMMA SomebodyEngaged ==
  ASSUME Counted, NEW t \in Track, launched[t].slot # 0 \/ queued[t].slot # 0
  PROVE  count > 0
<1>1. Engaged # {}
  BY DEF Engaged
<1>2. Cardinality(Engaged) # 0
  BY <1>1, EngagedFinite, FS_EmptySet
<1> QED BY <1>2, EngagedFinite DEF Counted

\* The next track of a command.
LEMMA NextCallIsFresh ==
  ASSUME call \in Called, call.todo # <<>>
  PROVE  NextCall \in Called /\ ~NextCall.loaded
<1>1. NoCall \in Called /\ ~NoCall.loaded
  BY DEF NoCall, Called
<1>2. CASE Len(call.todo) # 1
  <2> DEFINE rest == Tail(call.todo)
  <2>1. rest \in Seq(Track)
    BY DEF Called
  <2>2. NextCall = [call EXCEPT !.todo = rest, !.loaded = FALSE, !.launched = 0,
                                !.queued = 0, !.anchor = FALSE]
    BY <1>2 DEF NextCall
  <2> HIDE DEF rest
  <2> QED BY <2>1, <2>2 DEF Called
<1> QED BY <1>1, <1>2 DEF NextCall

\* A track has been processed.
LEMMA TurnOver ==
  ASSUME turn \in Track, turn' = NextTurn
  PROVE  /\ turn' \in 0 .. Tracks
         /\ \A t \in Track : Now(t)' = IF t = turn THEN 0 ELSE Now(t)
<1>1. Tracks \in Nat \ {0}
  BY SessionSlotsAssumption
<1>2. CASE turn < Tracks
  <2>1. turn' = turn + 1
    BY <1>1, <1>2 DEF Track, NextTurn
  <2> QED BY <1>1, <1>2, <2>1 DEF Now, Track
<1>3. CASE turn = Tracks
  <2>1. turn' = 0
    BY <1>1, <1>3 DEF Track, NextTurn
  <2> QED BY <1>1, <1>3, <2>1 DEF Now, Track
<1> QED BY <1>1, <1>2, <1>3 DEF Track

-----------------------------------------------------------------------------
(* The users' steps                                                        *)

\* Nothing is launched before the first command.
LEMMA SlotInitEstablishes == Init => SlotInv
<1> SUFFICES ASSUME Init PROVE SlotInv
  OBVIOUS
<1>1. Block \in Nat \ {0} /\ Period \in Nat \ {0} /\ Tracks \in Nat \ {0} /\ MaxActs \in Nat
  BY SessionSlotsAssumption
<1>2. NoSlot \in Held
  BY <1>1 DEF NoSlot, Held
<1>3. TypeOK
  BY <1>1, <1>2 DEF Init, TypeOK, NoSlot
<1>4. Counted
  <2>1. Engaged = {}
    BY DEF Init, Engaged, NoSlot
  <2> QED BY <2>1, FS_EmptySet DEF Init, Counted
<1>5. CallIsFresh /\ SeenIsFresh /\ EmptyIsEmpty
  BY DEF Init, CallIsFresh, Called, NoCall, SeenIsFresh, EmptyIsEmpty
<1>6. Clocks /\ OnTime /\ OnGrid
  BY <1>1 DEF Init, Clocks, Times, OnTime, OnGrid, Now, NoSlot
<1>7. Quiet /\ InTune
  BY DEF Init, Quiet, InTune
<1> QED BY <1>3, <1>4, <1>5, <1>6, <1>7 DEF SlotInv

\* Steps that leave the slots, the grid and the sound alone.
Untouched == UNCHANGED <<slotVars, gridVars, graphClock, prev, turn, soundVars>>

\* They leave every part of the invariant but what is loaded alone.
LEMMA UntouchedPreserves ==
  ASSUME SlotInv, Untouched
  PROVE  /\ (playing' \in BOOLEAN /\ muted' \subseteq Track /\ acts' \in 0 .. MaxActs
              /\ seen' \in Held) => TypeOK'
         /\ Counted' /\ EmptyIsEmpty' /\ Clocks' /\ OnTime' /\ OnGrid' /\ Quiet'
         /\ NotesEndInside => InTune'
<1> USE DEF SlotInv, Untouched, slotVars, gridVars, soundVars
<1>1. (playing' \in BOOLEAN /\ muted' \subseteq Track /\ acts' \in 0 .. MaxActs
         /\ seen' \in Held) => TypeOK'
  BY DEF TypeOK
<1>2. Counted' /\ EmptyIsEmpty' /\ Clocks'
  BY DEF Counted, Engaged, EmptyIsEmpty, Clocks
<1>3. OnTime' /\ OnGrid'
  BY DEF OnTime, Now, OnGrid
<1>4. Quiet' /\ (NotesEndInside => InTune')
  BY DEF Quiet, InTune, At, Now
<1> QED BY <1>1, <1>2, <1>3, <1>4

\* The users' acts are bounded.
LEMMA ActIsCounted == ASSUME SlotInv, Act PROVE acts' \in 0 .. MaxActs
  BY SessionSlotsAssumption DEF SlotInv, TypeOK, Act

\* A command lists tracks.
LEMMA TargetsAreTracks == ASSUME NEW todo \in Targets PROVE todo \in Seq(Track)
<1>1. Tracks \in Nat
  BY SessionSlotsAssumption
<1>2. CASE todo = [i \in Track |-> i]
  BY <1>1, <1>2 DEF Track
<1>3. CASE \E t \in Track : todo = <<t>>
  BY <1>3
<1> QED BY <1>2, <1>3 DEF Targets

\* A command lists its tracks and has loaded nothing.
LEMMA CommandPreserves == ASSUME SlotInv, SessionLaunch PROVE SlotInv'
<1>1. PICK todo \in Targets, scene \in Scene \cup {Anything}, stop \in BOOLEAN,
           quantize \in BOOLEAN : Command(todo, scene, stop, quantize)
  BY DEF SessionLaunch
<1> USE DEF Command, callbackVars
<1>2. Untouched /\ seen' = seen /\ playing' = playing /\ muted' = muted
  BY <1>1 DEF Untouched
<1>3. acts' \in 0 .. MaxActs
  BY <1>1, ActIsCounted
<1>4. call' \in Called /\ ~call'.loaded
  <2>1. NoCall \in Called /\ todo \in Seq(Track)
    BY TargetsAreTracks DEF NoCall, Called
  <2>2. call' = [NoCall EXCEPT !.todo = todo, !.scene = scene, !.stop = stop,
                               !.quantize = quantize]
    BY <1>1
  <2> QED BY <2>1, <2>2 DEF Called, NoCall
<1>5. CallIsFresh' /\ SeenIsFresh'
  BY <1>2, <1>4 DEF CallIsFresh, SlotInv, SeenIsFresh, Untouched, slotVars
<1>6. TypeOK'
  BY <1>2, <1>3, UntouchedPreserves DEF SlotInv, TypeOK
<1> QED BY <1>2, <1>5, <1>6, UntouchedPreserves DEF SlotInv

\* Playing, stopping and muting touch no slot.
LEMMA UsersPreserve == ASSUME SlotInv, PlayOrStop \/ \E t \in Track : Mute(t) PROVE SlotInv'
<1> USE DEF PlayOrStop, Mute, callbackVars
<1>1. Untouched /\ seen' = seen /\ call' = call /\ Act
  BY DEF Untouched
<1>2. playing' \in BOOLEAN /\ muted' \subseteq Track
  BY DEF SlotInv, TypeOK
<1>3. CallIsFresh' /\ SeenIsFresh'
  BY <1>1 DEF CallIsFresh, SlotInv, SeenIsFresh, Untouched, slotVars, gridVars
<1>4. TypeOK'
  BY <1>1, <1>2, ActIsCounted, UntouchedPreserves DEF SlotInv, TypeOK
<1> QED BY <1>1, <1>3, <1>4, UntouchedPreserves DEF SlotInv

-----------------------------------------------------------------------------
(* launchSlot                                                              *)

\* launchSlot loads outside of processTrack.
LEMMA LoadPreserves == ASSUME ~Racing, SlotInv, LoadSlots PROVE SlotInv'
<1> USE DEF LoadSlots, callbackVars, userVars
<1>1. Untouched /\ UNCHANGED <<seen, playing, muted, acts>>
  BY DEF Untouched
<1> DEFINE t == Head(call.todo)
<1>2. call.todo # <<>> /\ call \in Called /\ seen = NoSlot
  BY DEF CallbackIsInTrack, SlotInv, CallIsFresh
<1>3. t \in Track
  BY <1>2 DEF Called
<1>4. launched[t].slot \in Nat /\ queued[t].slot \in Nat
  BY <1>3 DEF SlotInv, TypeOK, Held
<1>5. call' = [call EXCEPT !.loaded = TRUE, !.launched = launched[t].slot,
                           !.queued = queued[t].slot, !.anchor = (count = 0)]
  OBVIOUS
<1> HIDE DEF t
<1>6. call' \in Called /\ call'.todo = call.todo /\ call'.launched = launched[t].slot
      /\ call'.queued = queued[t].slot /\ (call'.anchor <=> count = 0)
  BY <1>2, <1>4, <1>5 DEF Called
<1>7. CallIsFresh'
  BY <1>1, <1>2, <1>6 DEF CallIsFresh, Untouched, slotVars, gridVars, t
<1>8. SeenIsFresh'
  BY <1>1 DEF SeenIsFresh, SlotInv, Untouched, slotVars
<1>9. TypeOK'
  BY <1>1, UntouchedPreserves DEF SlotInv, TypeOK
<1> QED BY <1>1, <1>7, <1>8, <1>9, UntouchedPreserves DEF SlotInv

\* A track without the scene is passed over.
LEMMA NoSuchSlotPreserves == ASSUME SlotInv, NoSuchSlot PROVE SlotInv'
<1> USE DEF NoSuchSlot, callbackVars, userVars
<1>1. Untouched /\ UNCHANGED <<seen, playing, muted, acts>>
  BY DEF Untouched
<1>2. call' \in Called /\ ~call'.loaded
  BY NextCallIsFresh DEF SlotInv, CallIsFresh
<1>3. CallIsFresh' /\ SeenIsFresh'
  BY <1>1, <1>2 DEF CallIsFresh, SeenIsFresh, SlotInv, Untouched, slotVars
<1>4. TypeOK'
  BY <1>1, UntouchedPreserves DEF SlotInv, TypeOK
<1> QED BY <1>1, <1>3, <1>4, UntouchedPreserves DEF SlotInv

\* A stop silences and dequeues what is in its scene.
LEMMA StopPreserves == ASSUME SlotInv, Stop PROVE SlotInv'
<1> USE DEF callbackVars, userVars, soundVars
<1> DEFINE t == Head(call.todo)
           dequeues == call.queued # 0 /\ InScene(t, call.queued)
           silences == call.launched # 0 /\ InScene(t, call.launched)
<1>1. call.todo # <<>> /\ call \in Called /\ seen = NoSlot
      /\ call.launched = launched[t].slot /\ call.queued = queued[t].slot
  BY DEF Stop, SlotInv, CallIsFresh
<1>2. t \in Track
  BY <1>1 DEF Called
<1>3. /\ queued' = IF dequeues THEN [queued EXCEPT ![t] = NoSlot] ELSE queued
      /\ launched' = IF silences THEN [launched EXCEPT ![t] = NoSlot] ELSE launched
      /\ count' = IF WasEngaged /\ ~StaysEngaged(t) THEN count - 1 ELSE count
      /\ call' = NextCall
      /\ UNCHANGED <<epoch, quantum, callbackVars, userVars, soundVars>>
  BY DEF Stop
<1>4. WasEngaged <=> t \in Engaged
  BY <1>1, <1>2 DEF WasEngaged, Engaged
<1>5. StaysEngaged(t) <=> (call.launched # 0 /\ ~silences) \/ (call.queued # 0 /\ ~dequeues)
  BY DEF StaysEngaged
<1>6. NoSlot \in Held /\ NoSlot.slot = 0 /\ NoSlot.fit = FALSE
  <2>1. Block \in Nat \ {0} /\ Period \in Nat \ {0}
    BY SessionSlotsAssumption
  <2> QED BY <2>1 DEF NoSlot, Held
<1> HIDE DEF t, dequeues, silences
<1>7. launched \in [Track -> Held] /\ queued \in [Track -> Held]
  BY DEF SlotInv, TypeOK
<1>8. \A u \in Track :
        /\ queued'[u] = IF u = t /\ dequeues THEN NoSlot ELSE queued[u]
        /\ launched'[u] = IF u = t /\ silences THEN NoSlot ELSE launched[u]
  BY <1>3, <1>7
<1>9. Engaged' = IF WasEngaged /\ ~StaysEngaged(t) THEN Engaged \ {t} ELSE Engaged
  BY <1>1, <1>2, <1>4, <1>5, <1>6, <1>8 DEF Engaged
<1>10. Counted' /\ count' \in Nat /\ count' <= count
  <2>1. CASE WasEngaged /\ ~StaysEngaged(t)
    <3>1. Engaged' = Engaged \ {t} /\ t \in Engaged
      BY <1>4, <1>9, <2>1
    <3>2. Cardinality(Engaged') = Cardinality(Engaged) - 1 /\ Cardinality(Engaged') \in Nat
      BY <3>1, EngagedFinite, FS_RemoveElement, FS_CardinalityType
    <3>3. count' = count - 1
      BY <1>3, <2>1
    <3> QED BY <3>2, <3>3 DEF Counted, SlotInv, TypeOK
  <2>2. CASE ~(WasEngaged /\ ~StaysEngaged(t))
    BY <1>3, <1>9, <2>2 DEF Counted, SlotInv, TypeOK
  <2> QED BY <2>1, <2>2
<1>11. TypeOK'
  <2>1. launched' \in [Track -> Held] /\ queued' \in [Track -> Held]
    BY <1>2, <1>3, <1>6, <1>7
  <2>2. \A u \in Track : {launched'[u].slot, queued'[u].slot} \subseteq {0} \cup SlotOf(u)
    BY <1>6, <1>8 DEF SlotInv, TypeOK
  <2> QED BY <1>3, <1>10, <2>1, <2>2 DEF SlotInv, TypeOK
<1>12. CallIsFresh' /\ SeenIsFresh'
  BY <1>1, <1>3, NextCallIsFresh DEF CallIsFresh, SeenIsFresh
<1>13. EmptyIsEmpty' /\ Clocks'
  BY <1>3, <1>8 DEF SlotInv, EmptyIsEmpty, Clocks
<1>14. \A u \in Track : Now(u)' = Now(u)
  BY <1>3 DEF Now
<1>15. OnTime'
  BY <1>6, <1>8, <1>14 DEF SlotInv, OnTime
<1>16. OnGrid'
  <2> SUFFICES ASSUME count' > 0 PROVE OnGrid'
    BY DEF OnGrid
  <2>1. count > 0
    BY <1>10 DEF SlotInv, TypeOK
  <2> QED BY <1>3, <1>6, <1>8, <2>1 DEF SlotInv, OnGrid
<1>17. Quiet'
  BY <1>3 DEF SlotInv, Quiet
<1>18. NotesEndInside => InTune'
  <2> SUFFICES ASSUME NotesEndInside, NEW u \in Track, launched'[u].slot = prev[u],
                      prev[u] # 0, u \notin disturbed
        PROVE  sounding[u] \subseteq HeldAt(Slot(u, launched'[u].slot), At(u)')
    BY <1>3 DEF InTune
  <2>1. launched'[u] = launched[u]
    BY <1>6, <1>8
  <2>2. At(u)' = At(u)
    BY <1>14, <2>1 DEF At
  <2> QED BY <2>1, <2>2 DEF SlotInv, InTune
<1> QED BY <1>10, <1>11, <1>12, <1>13, <1>15, <1>16, <1>17, <1>18 DEF SlotInv

\* The slot of a scene on a track, if it has one.
LEMMA SlotOfScene ==
  ASSUME NEW t \in Track, Indices(t) # {}
  PROVE  Min(Indices(t)) \in SlotOf(t)
<1>1. Indices(t) \in SUBSET Nat
  BY DEF Indices, SlotOf
<1>2. \E i \in Indices(t) : \A j \in Indices(t) : i <= j
  BY <1>1, Least
<1>3. Min(Indices(t)) \in Indices(t)
  BY <1>2 DEF Min
<1> QED BY <1>3 DEF Indices

\* A launch lays the grid, or queues its slot for the next point of it.
LEMMA LaunchPreserves == ASSUME SlotInv, Launch PROVE SlotInv'
<1> USE DEF callbackVars, userVars
<1> DEFINE t == Head(call.todo)
           i == Min(Indices(t))
           start == NextQuantumStart(graphClock, epoch, quantum)
           atOnce == [slot |-> i, start |-> graphClock, fit |-> FALSE]
           later == [slot |-> i, start |-> start, fit |-> start >= 0]
           waits == ~call.anchor /\ call.quantize
<1>1. call.loaded /\ call.todo # <<>> /\ call \in Called /\ seen = NoSlot
      /\ call.launched = launched[t].slot /\ call.queued = queued[t].slot
      /\ (call.anchor <=> count = 0)
  BY DEF Launch, SlotInv, CallIsFresh
<1>2. t \in Track
  BY <1>1 DEF Called
<1>3. /\ Indices(t) # {}
      /\ IF call.anchor
           THEN /\ epoch' = graphClock
                /\ quantum' = IF Quantum > 0 THEN Quantum ELSE Slot(t, i).len
           ELSE UNCHANGED <<epoch, quantum>>
      /\ waits => /\ queued' = [queued EXCEPT ![t] = later]
                  /\ UNCHANGED <<launched, disturbed>>
      /\ ~waits => /\ queued' = [queued EXCEPT ![t] = NoSlot]
                   /\ launched' = [launched EXCEPT ![t] = atOnce]
                   /\ disturbed' = IF prev[t] = i THEN disturbed \cup {t} ELSE disturbed
      /\ count' = IF WasEngaged THEN count ELSE count + 1
      /\ call' = NextCall
      /\ UNCHANGED <<callbackVars, userVars, sounding>>
  BY DEF Launch
<1>4. WasEngaged <=> t \in Engaged
  BY <1>1, <1>2 DEF WasEngaged, Engaged
<1>5. i \in SlotOf(t) /\ i \in Nat \ {0}
  BY <1>2, <1>3, SlotOfScene DEF SlotOf
<1>6. Block \in Nat \ {0} /\ Period \in Nat \ {0} /\ Quantum \in Nat
  BY SessionSlotsAssumption
<1>7. graphClock \in Times /\ epoch \in Times /\ count \in Nat /\ quantum \in Nat
      /\ launched \in [Track -> Held] /\ queued \in [Track -> Held]
  BY DEF SlotInv, TypeOK, Clocks
<1>8. Slot(t, i).len \in Nat \ {0} /\ Period % Slot(t, i).len = 0
  BY <1>2, <1>5, SlotFacts
<1> HIDE DEF t, i, start, atOnce, later, waits
<1>9. NoSlot \in Held /\ NoSlot.slot = 0 /\ NoSlot.fit = FALSE
  BY <1>6 DEF NoSlot, Held
<1>10. atOnce \in Held /\ atOnce.slot = i /\ atOnce.start = graphClock /\ atOnce.fit = FALSE
  BY <1>5, <1>6, <1>7 DEF atOnce, Held, Times
<1>11. ASSUME waits
       PROVE  /\ count > 0 /\ start \in -(Period + 2 * Block) .. Period
              /\ quantum > 0 /\ (start - epoch) % quantum = 0
  <2>1. count > 0
    BY <1>1, <1>7, <1>11 DEF waits
  <2>2. quantum \in Nat \ {0} /\ Period % quantum = 0
    BY <1>7, <2>1 DEF SlotInv, OnGrid
  <2>3. quantum <= Period
    BY <1>6, <2>2, Divides
  <2>4. graphClock \in Int /\ epoch \in Int
    BY <1>6, <1>7 DEF Times
  <2>5. start \in Int /\ (start - epoch) % quantum = 0
        /\ start >= graphClock /\ (start = epoch \/ start < graphClock + quantum)
    BY <2>2, <2>4, GridPoint DEF start
  <2>6. start \in -(Period + 2 * Block) .. Period
    BY <1>6, <1>7, <2>2, <2>3, <2>5 DEF Times
  <2> QED BY <2>1, <2>2, <2>5, <2>6
<1>12. waits => later \in Held /\ later.slot = i /\ later.start = start
                /\ (later.fit <=> start >= 0)
  <2> DEFINE fits == start >= 0
  <2>1. fits \in BOOLEAN /\ i \in Nat
    BY <1>5
  <2>2. later = [slot |-> i, start |-> start, fit |-> fits]
    BY DEF later
  <2> HIDE DEF fits
  <2>3. later.slot = i /\ later.start = start /\ later.fit = fits
    BY <2>2
  <2>4. waits => later \in Held
    BY <1>11, <2>1, <2>2 DEF Held
  <2> QED BY <2>3, <2>4 DEF fits
<1>13. \A u \in Track :
        /\ queued'[u] = IF u # t THEN queued[u] ELSE IF waits THEN later ELSE NoSlot
        /\ launched'[u] = IF u = t /\ ~waits THEN atOnce ELSE launched[u]
  BY <1>3, <1>7
<1>14. Engaged' = Engaged \cup {t}
  BY <1>2, <1>5, <1>10, <1>12, <1>13 DEF Engaged
<1>15. Counted' /\ count' \in Nat
  <2>1. CASE WasEngaged
    <3>1. Engaged' = Engaged
      BY <1>4, <1>14, <2>1
    <3> QED BY <1>3, <1>7, <2>1, <3>1 DEF SlotInv, Counted
  <2>2. CASE ~WasEngaged
    <3>1. t \notin Engaged
      BY <1>4, <2>2
    <3>2. Cardinality(Engaged') = Cardinality(Engaged) + 1
      BY <1>14, <3>1, EngagedFinite, FS_AddElement
    <3>3. count' = count + 1
      BY <1>3, <2>2
    <3> QED BY <1>7, <3>2, <3>3 DEF SlotInv, Counted
  <2> QED BY <2>1, <2>2
<1>16. TypeOK'
  <2>1. launched' \in [Track -> Held] /\ queued' \in [Track -> Held]
    BY <1>2, <1>3, <1>7, <1>9, <1>10, <1>12
  <2>2. \A u \in Track : {launched'[u].slot, queued'[u].slot} \subseteq {0} \cup SlotOf(u)
    BY <1>5, <1>9, <1>10, <1>12, <1>13 DEF SlotInv, TypeOK
  <2>3. epoch' \in Int /\ quantum' \in Nat
    BY <1>3, <1>6, <1>7, <1>8 DEF Times
  <2> QED BY <1>3, <1>15, <2>1, <2>2, <2>3 DEF SlotInv, TypeOK
<1>17. CallIsFresh' /\ SeenIsFresh'
  BY <1>1, <1>3, NextCallIsFresh DEF CallIsFresh, SeenIsFresh
<1>18. EmptyIsEmpty' /\ Clocks'
  <2>1. EmptyIsEmpty'
    BY <1>5, <1>9, <1>10, <1>12, <1>13 DEF SlotInv, EmptyIsEmpty
  <2> QED BY <1>3, <1>7, <2>1 DEF SlotInv, Clocks
<1>19. \A u \in Track : Now(u)' = Now(u)
  BY <1>3 DEF Now
<1>20. OnTime'
  <2>1. graphClock <= Now(t) /\ Now(t) <= 0
    BY <1>6, <1>7 DEF SlotInv, Clocks, Now, Times
  <2>2. Now(t) \in Int
    BY <1>6 DEF Now
  <2>3. ASSUME NEW u \in Track
        PROVE  /\ queued'[u].fit => queued'[u].start >= Now(u)
               /\ launched'[u].slot # 0 => launched'[u].start <= Now(u)
    <3>1. CASE u # t
      BY <1>13, <3>1 DEF SlotInv, OnTime
    <3>2. CASE u = t /\ waits
      <4>1. launched'[u] = launched[u] /\ queued'[u] = later
        BY <1>13, <3>2
      <4>2. later.fit => later.start >= Now(u)
        BY <1>11, <1>12, <2>1, <2>2, <3>2
      <4> QED BY <4>1, <4>2 DEF SlotInv, OnTime
    <3>3. CASE u = t /\ ~waits
      BY <1>9, <1>10, <1>13, <2>1, <3>3
    <3> QED BY <3>1, <3>2, <3>3
  <2> QED BY <1>19, <2>3 DEF OnTime
<1>21. OnGrid'
  <2>1. CASE waits
    <3>1. epoch' = epoch /\ quantum' = quantum
      BY <1>3, <2>1 DEF waits
    <3>2. /\ quantum > 0 /\ Period % quantum = 0
          /\ \A u \in Track :
               /\ queued[u].slot # 0 => (queued[u].start - epoch) % quantum = 0
               /\ launched[u].fit => (launched[u].start - epoch) % quantum = 0
      BY <1>11, <2>1 DEF SlotInv, OnGrid
    <3> QED BY <1>11, <1>12, <1>13, <2>1, <3>1, <3>2 DEF OnGrid
  <2>2. CASE ~waits /\ count = 0
    <3>1. \A u \in Track : queued[u].slot = 0 /\ launched[u] = NoSlot
      BY <2>2, NobodyEngaged DEF SlotInv, EmptyIsEmpty
    <3>2. \A u \in Track : queued'[u].slot = 0 /\ ~launched'[u].fit
      BY <1>9, <1>10, <1>13, <2>2, <3>1
    <3>3. quantum' > 0 /\ Period % quantum' = 0
      BY <1>1, <1>3, <1>6, <1>8, <2>2, SessionSlotsAssumption
    <3> QED BY <3>2, <3>3 DEF OnGrid
  <2>3. CASE ~waits /\ count # 0
    <3>1. epoch' = epoch /\ quantum' = quantum /\ count > 0
      BY <1>1, <1>3, <1>7, <2>3
    <3>2. /\ quantum > 0 /\ Period % quantum = 0
          /\ \A u \in Track :
               /\ queued[u].slot # 0 => (queued[u].start - epoch) % quantum = 0
               /\ launched[u].fit => (launched[u].start - epoch) % quantum = 0
      BY <3>1 DEF SlotInv, OnGrid
    <3> QED BY <1>9, <1>10, <1>13, <2>3, <3>1, <3>2 DEF OnGrid
  <2> QED BY <2>1, <2>2, <2>3
<1>22. Quiet'
  BY <1>3 DEF SlotInv, Quiet
<1>23. NotesEndInside => InTune'
  <2> SUFFICES ASSUME NotesEndInside, NEW u \in Track, launched'[u].slot = prev[u],
                      prev[u] # 0, u \notin disturbed'
        PROVE  sounding[u] \subseteq HeldAt(Slot(u, launched'[u].slot), At(u)')
    BY <1>3 DEF InTune
  <2>1. launched'[u] = launched[u] /\ u \notin disturbed
    BY <1>3, <1>10, <1>13
  <2>2. At(u)' = At(u)
    BY <1>19, <2>1 DEF At
  <2> QED BY <2>1, <2>2 DEF SlotInv, InTune
<1> QED BY <1>15, <1>16, <1>17, <1>18, <1>20, <1>21, <1>22, <1>23 DEF SlotInv

-----------------------------------------------------------------------------
(* The audio callback                                                      *)

\* A block older, every slot is in the same place of its loop and of the grid.
LEMMA SlotsAge ==
  ASSUME SlotInv, TimePasses
  PROVE  /\ launched' \in [Track -> Held] /\ queued' \in [Track -> Held]
         /\ epoch' = Older(epoch) /\ epoch' \in Times
         /\ \A t \in Track :
              /\ launched'[t].slot = launched[t].slot /\ launched'[t].fit = launched[t].fit
              /\ queued'[t].slot = queued[t].slot /\ queued'[t].fit = queued[t].fit
              /\ launched[t].slot = 0 => launched'[t] = NoSlot
              /\ queued[t].slot = 0 => queued'[t] = NoSlot
              /\ launched[t].slot # 0 => launched'[t].start = Older(launched[t].start)
              /\ queued[t].slot # 0 => queued'[t].start = Older(queued[t].start)
<1>1. Block \in Nat \ {0} /\ Period \in Nat \ {0}
  BY SessionSlotsAssumption
<1>2. NoSlot \in Held /\ NoSlot.slot = 0
  BY <1>1 DEF NoSlot, Held
<1>3. ASSUME NEW held \in [Track -> Held], NEW t \in Track
      PROVE  /\ OlderSlots(held)[t] \in Held
             /\ held[t] = NoSlot => OlderSlots(held)[t] = NoSlot
             /\ held[t] # NoSlot => OlderSlots(held)[t] =
                  [slot |-> held[t].slot, start |-> Older(held[t].start), fit |-> held[t].fit]
  <2> DEFINE o == Older(held[t].start)
  <2>1. held[t] \in Held /\ held[t].start \in -(Period + 2 * Block) .. Period
    BY DEF Held
  <2>2. o \in -(Period + 2 * Block) .. Period
    BY <2>1, Aging
  <2>3. OlderSlots(held)[t] = IF held[t] = NoSlot THEN NoSlot ELSE [held[t] EXCEPT !.start = o]
    BY DEF OlderSlots
  <2> HIDE DEF o
  <2>4. [held[t] EXCEPT !.start = o] = [slot |-> held[t].slot, start |-> o, fit |-> held[t].fit]
    BY <2>1 DEF Held
  <2>5. [held[t] EXCEPT !.start = o] \in Held
    BY <2>1, <2>2 DEF Held
  <2> QED BY <1>2, <2>3, <2>4, <2>5 DEF o
<1>4. launched \in [Track -> Held] /\ queued \in [Track -> Held] /\ epoch \in Times
  BY DEF SlotInv, TypeOK, Clocks
<1>5. launched' = OlderSlots(launched) /\ queued' = OlderSlots(queued) /\ epoch' = Older(epoch)
  BY DEF TimePasses
<1>6. epoch' \in Times
  BY <1>1, <1>4, <1>5, Aging DEF Times
<1>7. launched' \in [Track -> Held] /\ queued' \in [Track -> Held]
  <2>1. launched' = [t \in Track |-> launched'[t]] /\ queued' = [t \in Track |-> queued'[t]]
    BY <1>5 DEF OlderSlots
  <2> QED BY <1>3, <1>4, <1>5, <2>1
<1>8. \A t \in Track : /\ launched[t] # NoSlot <=> launched[t].slot # 0
                       /\ queued[t] # NoSlot <=> queued[t].slot # 0
  BY <1>2 DEF SlotInv, EmptyIsEmpty
<1>9. ASSUME NEW held \in [Track -> Held], NEW t \in Track,
             held[t] # NoSlot <=> held[t].slot # 0
      PROVE  /\ OlderSlots(held)[t].slot = held[t].slot /\ OlderSlots(held)[t].fit = held[t].fit
             /\ held[t].slot = 0 => OlderSlots(held)[t] = NoSlot
             /\ held[t].slot # 0 => OlderSlots(held)[t].start = Older(held[t].start)
  <2>1. CASE held[t] = NoSlot
    BY <1>3, <1>9, <2>1, Zenon
  <2>2. CASE held[t] # NoSlot
    <3>1. OlderSlots(held)[t] =
            [slot |-> held[t].slot, start |-> Older(held[t].start), fit |-> held[t].fit]
      BY <1>3, <2>2
    <3> QED BY <1>9, <2>2, <3>1
  <2> QED BY <2>1, <2>2
<1>10. ASSUME NEW t \in Track
       PROVE  /\ launched'[t].slot = launched[t].slot /\ launched'[t].fit = launched[t].fit
              /\ queued'[t].slot = queued[t].slot /\ queued'[t].fit = queued[t].fit
              /\ launched[t].slot = 0 => launched'[t] = NoSlot
              /\ queued[t].slot = 0 => queued'[t] = NoSlot
              /\ launched[t].slot # 0 => launched'[t].start = Older(launched[t].start)
              /\ queued[t].slot # 0 => queued'[t].start = Older(queued[t].start)
  <2>1. (launched[t] # NoSlot <=> launched[t].slot # 0) /\ (queued[t] # NoSlot <=> queued[t].slot # 0)
    BY <1>8
  <2>2. /\ launched'[t].slot = launched[t].slot /\ launched'[t].fit = launched[t].fit
        /\ launched[t].slot = 0 => launched'[t] = NoSlot
        /\ launched[t].slot # 0 => launched'[t].start = Older(launched[t].start)
    BY <1>4, <1>5, <1>9, <2>1, Zenon
  <2>3. /\ queued'[t].slot = queued[t].slot /\ queued'[t].fit = queued[t].fit
        /\ queued[t].slot = 0 => queued'[t] = NoSlot
        /\ queued[t].slot # 0 => queued'[t].start = Older(queued[t].start)
    BY <1>4, <1>5, <1>9, <2>1, Zenon
  <2> QED BY <2>2, <2>3
<1> QED BY <1>5, <1>6, <1>7, <1>10

\* What both kinds of block leave of the invariant.
LEMMA BlockPreserves ==
  ASSUME SlotInv, ~call.loaded, turn = 0, TimePasses, graphClock' \in Times,
         UNCHANGED <<count, quantum, prev, seen, userVars, call, soundVars>>,
         turn' = 1 => graphClock' = -Block, turn' \in {0, 1}
  PROVE  /\ TypeOK' /\ Counted' /\ CallIsFresh' /\ SeenIsFresh' /\ EmptyIsEmpty'
         /\ Clocks' /\ OnGrid' /\ Quiet'
<1> USE DEF userVars, soundVars
<1>1. Block \in Nat \ {0} /\ Period \in Nat \ {0} /\ Tracks \in Nat \ {0}
  BY SessionSlotsAssumption
<1>2. seen = NoSlot
  BY DEF SlotInv, SeenIsFresh, Track
<1>3. TypeOK'
  <2>1. \A t \in Track : {launched'[t].slot, queued'[t].slot} \subseteq {0} \cup SlotOf(t)
    BY SlotsAge DEF SlotInv, TypeOK
  <2>2. epoch' \in Int /\ graphClock' \in Int /\ turn' \in 0 .. Tracks
    BY <1>1, SlotsAge DEF Times
  <2> QED BY <2>1, <2>2, SlotsAge DEF SlotInv, TypeOK
<1>4. Counted'
  <2>1. Engaged' = Engaged
    BY SlotsAge DEF Engaged
  <2> QED BY <2>1 DEF SlotInv, Counted
<1>5. CallIsFresh' /\ SeenIsFresh'
  BY <1>2 DEF SlotInv, CallIsFresh, SeenIsFresh
<1>6. EmptyIsEmpty' /\ Clocks'
  BY <1>1, SlotsAge DEF EmptyIsEmpty, Clocks
<1>7. OnGrid'
  <2> SUFFICES ASSUME count > 0 PROVE OnGrid'
    BY DEF OnGrid
  <2>1. /\ quantum > 0 /\ Period % quantum = 0
        /\ \A t \in Track :
             /\ queued[t].slot # 0 => (queued[t].start - epoch) % quantum = 0
             /\ launched[t].fit => (launched[t].start - epoch) % quantum = 0
    BY DEF SlotInv, OnGrid
  <2>2. quantum \in Nat \ {0}
    BY <2>1 DEF SlotInv, TypeOK
  <2>3. epoch \in -(Period + 2 * Block) .. Period
    BY <1>1 DEF SlotInv, Clocks, Times
  <2>4. ASSUME NEW x \in -(Period + 2 * Block) .. Period
        PROVE  (Older(x) - Older(epoch)) % quantum = (x - epoch) % quantum
    BY <2>1, <2>2, <2>3, AgedDistance
  <2>5. \A t \in Track : /\ launched[t].start \in -(Period + 2 * Block) .. Period
                         /\ queued[t].start \in -(Period + 2 * Block) .. Period
    BY DEF SlotInv, TypeOK, Held
  <2>6. ASSUME NEW t \in Track
        PROVE  /\ queued'[t].slot # 0 => (queued'[t].start - epoch') % quantum' = 0
               /\ launched'[t].fit => (launched'[t].start - epoch') % quantum' = 0
    <3>1. epoch' = Older(epoch) /\ quantum' = quantum
      BY SlotsAge
    <3>2. ASSUME queued'[t].slot # 0 PROVE (queued'[t].start - epoch') % quantum' = 0
      <4>1. queued[t].slot # 0 /\ queued'[t].start = Older(queued[t].start)
        BY <3>2, SlotsAge
      <4>2. (queued[t].start - epoch) % quantum = 0
        BY <2>1, <4>1
      <4> QED BY <2>4, <2>5, <3>1, <4>1, <4>2
    <3>3. ASSUME launched'[t].fit PROVE (launched'[t].start - epoch') % quantum' = 0
      <4>1. launched[t].fit
        BY <3>3, SlotsAge
      <4>2. launched[t].slot # 0
        BY <4>1 DEF SlotInv, EmptyIsEmpty, NoSlot
      <4>3. launched'[t].start = Older(launched[t].start)
        BY <4>2, SlotsAge
      <4>4. (launched[t].start - epoch) % quantum = 0
        BY <2>1, <4>1
      <4> QED BY <2>4, <2>5, <3>1, <4>3, <4>4
    <3> QED BY <3>2, <3>3
  <2> QED BY <2>1, <2>6 DEF OnGrid
<1>8. Quiet'
  BY DEF SlotInv, Quiet
<1> QED BY <1>3, <1>4, <1>5, <1>6, <1>7, <1>8

\* A block nobody hears goes by.
LEMMA IdlePreserves == ASSUME SlotInv, ~call.loaded, IdleBlock PROVE SlotInv'
<1> USE DEF IdleBlock
<1>1. graphClock \in Times /\ Block \in Nat \ {0} /\ Period \in Nat \ {0} /\ count \in Nat
  BY SessionSlotsAssumption DEF SlotInv, Clocks, TypeOK
<1>2. graphClock' \in Times
  BY <1>1, Aging DEF Times
<1>3. \A t \in Track : launched[t].slot = 0 /\ queued[t].slot = 0
  <2>1. count = 0
    BY <1>1 DEF GraphRuns
  <2> QED BY <2>1, NobodyEngaged DEF SlotInv
<1>4. \A t \in Track : launched'[t] = NoSlot /\ queued'[t] = NoSlot
  BY <1>3, SlotsAge
<1>5. OnTime' /\ (NotesEndInside => InTune')
  BY <1>4 DEF OnTime, InTune, NoSlot
<1>6. /\ TypeOK' /\ Counted' /\ CallIsFresh' /\ SeenIsFresh' /\ EmptyIsEmpty'
      /\ Clocks' /\ OnGrid' /\ Quiet'
  BY <1>2, BlockPreserves
<1> QED BY <1>5, <1>6 DEF SlotInv

\* A block begins: every track is a block behind.
LEMMA BeginPreserves == ASSUME SlotInv, ~call.loaded, BeginBlock PROVE SlotInv'
<1> USE DEF BeginBlock
<1>1. Block \in Nat \ {0} /\ Period \in Nat \ {0} /\ turn = 0 /\ turn' = 1
  BY SessionSlotsAssumption
<1>2. \A t \in Track : Now(t) = 0 /\ Now(t)' = -Block
  BY <1>1 DEF Now, Track
<1>3. OnTime'
  <2> SUFFICES ASSUME NEW t \in Track
               PROVE  /\ queued'[t].fit => queued'[t].start >= -Block
                      /\ launched'[t].slot # 0 => launched'[t].start <= -Block
    BY <1>2 DEF OnTime
  <2>1. /\ launched[t].start \in -(Period + 2 * Block) .. Period
        /\ queued[t].start \in -(Period + 2 * Block) .. Period
    BY DEF SlotInv, TypeOK, Held
  <2>2. /\ queued[t].fit => queued[t].start >= 0
        /\ launched[t].slot # 0 => launched[t].start <= 0
    BY <1>2 DEF SlotInv, OnTime
  <2>3. ASSUME queued'[t].fit PROVE queued'[t].start >= -Block
    <3>1. queued[t].fit
      BY <2>3, SlotsAge
    <3>2. queued[t].slot # 0
      BY <3>1 DEF SlotInv, EmptyIsEmpty, NoSlot
    <3>3. queued'[t].start = queued[t].start - Block
      BY <2>1, <2>2, <3>1, <3>2, SlotsAge, Aging
    <3> QED BY <1>1, <2>1, <2>2, <3>1, <3>3
  <2>4. ASSUME launched'[t].slot # 0 PROVE launched'[t].start <= -Block
    <3>1. launched[t].slot # 0 /\ launched'[t].start = Older(launched[t].start)
      BY <2>4, SlotsAge
    <3> QED BY <2>1, <2>2, <3>1, Aging
  <2> QED BY <2>3, <2>4
<1>4. NotesEndInside => InTune'
  <2> SUFFICES ASSUME NotesEndInside, NEW t \in Track, launched'[t].slot = prev[t],
                      prev[t] # 0, t \notin disturbed
        PROVE  sounding[t] \subseteq HeldAt(Slot(t, launched'[t].slot), At(t)')
    BY DEF InTune, soundVars
  <2>1. launched'[t].slot = launched[t].slot /\ launched[t].slot # 0
        /\ launched'[t].start = Older(launched[t].start)
    BY SlotsAge
  <2>2. launched[t].slot \in SlotOf(t) /\ launched[t].start \in -(Period + 2 * Block) .. Period
    BY <2>1 DEF SlotInv, TypeOK, Held
  <2>3. (-Block - Older(launched[t].start)) % Slot(t, launched[t].slot).len
          = (0 - launched[t].start) % Slot(t, launched[t].slot).len
    BY <2>2, SlotFacts, AgedPosition
  <2>4. At(t)' = At(t)
    BY <1>2, <2>1, <2>3 DEF At
  <2> QED BY <2>1, <2>4 DEF SlotInv, InTune
<1>5. graphClock' \in Times
  BY <1>1 DEF Times
<1>6. /\ TypeOK' /\ Counted' /\ CallIsFresh' /\ SeenIsFresh' /\ EmptyIsEmpty'
      /\ Clocks' /\ OnGrid' /\ Quiet'
  BY <1>5, BlockPreserves
<1> QED BY <1>3, <1>4, <1>6 DEF SlotInv

\* The queue of a silenced track misses its block, and its notes are not told.
LEMMA SkipPreserves == ASSUME SlotInv, ~call.loaded, SkipTrack PROVE SlotInv'
<1> USE DEF SkipTrack, gridVars, userVars
<1>1. Block \in Nat \ {0} /\ Period \in Nat \ {0} /\ turn \in Track /\ turn > 0
      /\ turn' = NextTurn
  BY SessionSlotsAssumption DEF SlotInv, TypeOK, Track
<1>2. queued \in [Track -> Held] /\ launched \in [Track -> Held]
  BY DEF SlotInv, TypeOK
<1>3. NoSlot = [NoSlot EXCEPT !.fit = FALSE] /\ NoSlot.slot = 0
  <2> DEFINE h == NoSlot
  <2>1. h \in [slot : Int, start : Int, fit : BOOLEAN] /\ h.fit = FALSE /\ h.slot = 0
    BY DEF NoSlot
  <2> HIDE DEF h
  <2>2. h = [h EXCEPT !.fit = FALSE]
    BY <2>1
  <2> QED BY <2>1, <2>2 DEF h
<1>4. [queued[turn] EXCEPT !.fit = FALSE] \in Held
      /\ [queued[turn] EXCEPT !.fit = FALSE].slot = queued[turn].slot
      /\ [queued[turn] EXCEPT !.fit = FALSE].start = queued[turn].start
      /\ [queued[turn] EXCEPT !.fit = FALSE].fit = FALSE
  BY <1>1, <1>2 DEF Held
<1>5. /\ queued' \in [Track -> Held]
      /\ \A t \in Track : /\ queued'[t].slot = queued[t].slot
                          /\ queued'[t].start = queued[t].start
                          /\ queued'[t].fit => queued[t].fit /\ t # turn
                          /\ queued[t] = NoSlot => queued'[t] = NoSlot
  BY <1>1, <1>2, <1>3, <1>4
<1>6. TypeOK'
  BY <1>1, <1>5, TurnOver DEF SlotInv, TypeOK
<1>7. Counted'
  <2>1. Engaged' = Engaged
    BY <1>5 DEF Engaged
  <2> QED BY <2>1 DEF SlotInv, Counted
<1>8. CallIsFresh' /\ SeenIsFresh' /\ EmptyIsEmpty'
  BY <1>5 DEF SlotInv, CallIsFresh, SeenIsFresh, EmptyIsEmpty
<1>9. Clocks'
  BY <1>1 DEF SlotInv, Clocks
<1>10. OnTime'
  <2> SUFFICES ASSUME NEW t \in Track
               PROVE  /\ queued'[t].fit => queued'[t].start >= Now(t)'
                      /\ launched[t].slot # 0 => launched[t].start <= Now(t)'
    BY DEF OnTime
  <2>1. Now(t) = -Block \/ Now(t) = 0
    BY DEF Now
  <2>2. Now(t)' = IF t = turn THEN 0 ELSE Now(t)
    BY <1>1, TurnOver
  <2>3. launched[t].slot # 0 => launched[t].start <= Now(t) /\ launched[t].start \in Int
    BY <1>2 DEF SlotInv, OnTime, Held
  <2>4. queued'[t].fit => queued[t].start >= Now(t) /\ t # turn
    BY <1>5 DEF SlotInv, OnTime
  <2> QED BY <1>1, <1>5, <2>1, <2>2, <2>3, <2>4
<1>11. OnGrid'
  BY <1>5 DEF SlotInv, OnGrid
<1>12. Quiet'
  BY DEF SlotInv, Quiet
<1>13. NotesEndInside => InTune'
  <2> SUFFICES ASSUME NotesEndInside, NEW t \in Track, launched[t].slot = prev[t],
                      prev[t] # 0, t \notin disturbed'
        PROVE  sounding[t] \subseteq HeldAt(Slot(t, launched[t].slot), At(t)')
    BY DEF InTune
  <2>1. t # turn /\ t \notin disturbed
    OBVIOUS
  <2>2. At(t)' = At(t)
    BY <1>1, <2>1, TurnOver DEF At
  <2> QED BY <2>1, <2>2 DEF SlotInv, InTune
<1> QED BY <1>6, <1>7, <1>8, <1>9, <1>10, <1>11, <1>12, <1>13 DEF SlotInv

\* processTrack loads the queue outside of launchSlot.
LEMMA LoadQueuedPreserves == ASSUME SlotInv, ~call.loaded, LoadQueued PROVE SlotInv'
<1> USE DEF LoadQueued, userVars
<1>1. Untouched /\ UNCHANGED <<playing, muted, acts, call>>
  BY DEF Untouched
<1>2. turn \in Track /\ seen' = queued[turn]
  BY DEF SlotInv, TypeOK
<1>3. seen' \in Held
  BY <1>2 DEF SlotInv, TypeOK
<1>4. TypeOK'
  BY <1>1, <1>3, UntouchedPreserves DEF SlotInv, TypeOK
<1>5. CallIsFresh' /\ SeenIsFresh'
  BY <1>1, <1>2 DEF SlotInv, CallIsFresh, SeenIsFresh, Untouched, slotVars
<1> QED BY <1>1, <1>4, <1>5, UntouchedPreserves DEF SlotInv

\* A new graph knows of no launch.
LEMMA RebuildPreserves == ASSUME SlotInv, Rebuild PROVE SlotInv'
<1> USE DEF Rebuild
<1>1. Block \in Nat \ {0} /\ Period \in Nat \ {0} /\ Period % Block = 0 /\ turn = 0
  BY SessionSlotsAssumption
<1>2. graphClock' \in Times
  <2> DEFINE blocks == Period \div Block
  <2>1. blocks \in Int /\ Period = Block * blocks
    BY <1>1, Division
  <2>2. PICK past \in 0 .. blocks - 1 : graphClock' = -past * Block
    OBVIOUS
  <2> HIDE DEF blocks
  <2>3. Block * past \in Int /\ Block * past >= 0
    BY <1>1, <2>2
  <2>4. Block * (blocks - past) = Block * blocks - Block * past
    BY <1>1, <2>1, <2>2
  <2>5. Block * (blocks - past) >= 0
    BY <1>1, <2>1, <2>2
  <2>6. -past * Block = 0 - Block * past
    BY <1>1, <2>2
  <2> DEFINE p == Block * past
  <2>7. p <= Period /\ p >= 0 /\ p \in Int /\ graphClock' = 0 - p
    BY <1>1, <2>1, <2>2, <2>3, <2>4, <2>5, <2>6
  <2> HIDE DEF p
  <2> QED BY <1>1, <2>7 DEF Times
<1>3. NoSlot \in Held /\ NoSlot.slot = 0 /\ NoSlot.fit = FALSE
  BY <1>1 DEF NoSlot, Held
<1>4. \A t \in Track : launched'[t] = NoSlot /\ queued'[t] = NoSlot
  OBVIOUS
<1>5. TypeOK'
  <2>1. acts' \in 0 .. MaxActs
    BY ActIsCounted
  <2>2. graphClock' \in Int
    BY <1>1, <1>2 DEF Times
  <2> QED BY <1>3, <1>4, <2>1, <2>2 DEF SlotInv, TypeOK
<1>6. Counted'
  <2>1. Engaged' = {}
    BY <1>3, <1>4 DEF Engaged
  <2> QED BY <2>1, FS_EmptySet DEF Counted
<1>7. CallIsFresh' /\ SeenIsFresh' /\ EmptyIsEmpty'
  BY <1>1, <1>4 DEF SlotInv, CallIsFresh, NoCall, SeenIsFresh, EmptyIsEmpty, Track
<1>8. Clocks'
  BY <1>1, <1>2 DEF Clocks, Times
<1>9. OnTime' /\ OnGrid'
  BY <1>3, <1>4 DEF OnTime, OnGrid
<1>10. Quiet' /\ InTune'
  BY DEF Quiet, InTune
<1> QED BY <1>5, <1>6, <1>7, <1>8, <1>9, <1>10 DEF SlotInv

\* The slot a track plays in this block.
Playing == IF Due THEN [seen EXCEPT !.fit = TRUE] ELSE launched[turn]

\* It is the queued one, due in this block, or the launched one, begun before it.
LEMMA PlayingFacts ==
  ASSUME SlotInv, PlayTrack
  PROVE  /\ turn \in Track /\ graphClock = -Block /\ Now(turn) = -Block
         /\ Playing \in Held /\ Playing.slot \in {0} \cup SlotOf(turn)
         /\ Playing.slot = 0 => ~Due /\ Playing = NoSlot
         /\ Playing.slot # 0 => Playing.start <= IF Due THEN -1 ELSE -Block
         /\ Due => /\ seen = queued[turn] /\ queued[turn].slot # 0
                   /\ Playing.slot = queued[turn].slot /\ Playing.start = queued[turn].start
         /\ ~Due => /\ Playing = launched[turn]
                    /\ queued[turn].fit => queued[turn].start >= 0
<1> USE DEF PlayTrack
<1>1. Block \in Nat \ {0} /\ Period \in Nat \ {0} /\ turn \in Track /\ turn > 0
  BY SessionSlotsAssumption DEF Track
<1>2. graphClock = -Block /\ Now(turn) = -Block
  BY <1>1 DEF SlotInv, Clocks, Now, Track
<1>3. launched[turn] \in Held /\ queued[turn] \in Held
      /\ {launched[turn].slot, queued[turn].slot} \subseteq {0} \cup SlotOf(turn)
  BY <1>1 DEF SlotInv, TypeOK
<1>4. NoSlot.slot = 0 /\ NoSlot.fit = FALSE
  BY DEF NoSlot
<1>5. /\ launched[turn].slot = 0 => launched[turn] = NoSlot
      /\ queued[turn].slot = 0 => queued[turn] = NoSlot
      /\ launched[turn].slot # 0 => launched[turn].start <= -Block
  BY <1>1, <1>2 DEF SlotInv, EmptyIsEmpty, OnTime
<1>6. CASE Due
  <2>1. seen = queued[turn] /\ queued[turn] # NoSlot /\ seen.start < graphClock + Block
    BY <1>6 DEF Due, SlotInv, SeenIsFresh
  <2>2. queued[turn].slot # 0 /\ queued[turn].start < 0
    BY <1>1, <1>2, <1>5, <2>1
  <2>3. Playing = [queued[turn] EXCEPT !.fit = TRUE]
    BY <1>6, <2>1 DEF Playing
  <2>4. Playing \in Held /\ Playing.slot = queued[turn].slot /\ Playing.start = queued[turn].start
    BY <1>3, <2>3 DEF Held
  <2>5. Playing.start <= -1
    BY <1>1, <1>3, <2>2, <2>4 DEF Held
  <2> QED BY <1>1, <1>2, <1>3, <1>6, <2>1, <2>2, <2>4, <2>5
<1>7. CASE ~Due
  <2>1. Playing = launched[turn]
    BY <1>7 DEF Playing
  <2>2. queued[turn].fit => queued[turn].start >= 0
    <3>1. CASE seen = NoSlot
      BY <1>4, <3>1
    <3>2. CASE seen # NoSlot
      <4>1. seen = queued[turn]
        BY <3>2 DEF SlotInv, SeenIsFresh
      <4>2. ~(seen.start < graphClock + Block)
        BY <1>7, <3>2 DEF Due
      <4> QED BY <1>1, <1>2, <1>3, <4>1, <4>2 DEF Held
    <3> QED BY <3>1, <3>2
  <2> QED BY <1>1, <1>2, <1>3, <1>5, <1>7, <2>1, <2>2
<1> QED BY <1>6, <1>7

\* What the instrument holds after the block is in its slot.
LEMMA PlayingInTune ==
  ASSUME SlotInv, PlayTrack, NotesEndInside, Playing.slot # 0, turn \notin disturbed'
  PROVE  sounding'[turn] \subseteq
           HeldAt(Slot(turn, Playing.slot), (0 - Playing.start) % Slot(turn, Playing.slot).len)
<1> DEFINE t == turn
           start == Playing.start
           slot == Slot(t, Playing.slot)
           kept == KeptNotes(t, Playing.slot)
           late == start - graphClock
<1>1. Block \in Nat \ {0} /\ Period \in Nat \ {0} /\ t \in Track /\ graphClock = -Block
      /\ Now(t) = -Block /\ start \in Int /\ Playing.slot \in SlotOf(t)
  BY SessionSlotsAssumption, PlayingFacts DEF Held
<1>2. slot.len \in Nat \ {0} /\ slot.len >= Block /\ GoodSlot(slot)
  BY <1>1, SlotFacts
<1>3. Playing # NoSlot
  BY DEF NoSlot
<1>4. sounding'[t] = Played(t, kept, SlotEvents(Playing, t))
  <2>1. sounding \in [Track -> SUBSET UNION {Pitches(u) : u \in Track}]
    BY DEF SlotInv, TypeOK
  <2>2. sounding' = [sounding EXCEPT ![t] = Played(t, kept, SlotEvents(Playing, t))]
    BY <1>3 DEF PlayTrack, Playing
  <2> HIDE DEF kept
  <2> QED BY <1>1, <2>1, <2>2
<1>5. /\ start <= -1
      /\ ~Due => start <= -Block
  BY <1>1, PlayingFacts
<1>6. disturbed' = IF Playing.slot # prev[t] THEN disturbed \ {t}
                   ELSE IF Due THEN disturbed \cup {t} ELSE disturbed
  BY DEF PlayTrack, Playing
<1>7. kept = {} \/ (~Due /\ kept \subseteq HeldAt(slot, (-Block - start) % slot.len))
  <2>1. CASE Playing.slot # prev[t]
    BY <2>1 DEF KeptNotes
  <2>2. CASE Playing.slot = prev[t]
    <3>1. ~Due /\ t \notin disturbed
      BY <1>6, <2>2
    <3>2. Playing = launched[t] /\ kept = sounding[t]
      BY <2>2, <3>1, PlayingFacts DEF KeptNotes
    <3>3. sounding[t] \subseteq HeldAt(Slot(t, launched[t].slot), At(t))
      BY <1>1, <2>2, <3>1, <3>2 DEF SlotInv, InTune
    <3>4. At(t) = (-Block - start) % slot.len
      BY <1>1, <3>2 DEF At
    <3> QED BY <3>1, <3>2, <3>3, <3>4
  <2> QED BY <2>1, <2>2
<1>8. SlotEvents(Playing, t) = IF late <= 0 THEN Events(slot, -late, Block)
                               ELSE IF late < Block THEN Events(slot, 0, Block - late) ELSE {}
  BY DEF SlotEvents
<1> HIDE DEF t, slot, kept, start
<1>9. CASE late <= 0
  <2> DEFINE base == -late
  <2>1. base \in Nat /\ base = -Block - start /\ base + Block = 0 - start
    BY <1>1, <1>9
  <2>2. kept \subseteq HeldAt(slot, base % slot.len)
    BY <1>7, <2>1
  <2>3. Block \in 0 .. slot.len
    BY <1>1, <1>2
  <2>4. SlotEvents(Playing, t) = Events(slot, base, Block)
    BY <1>8, <1>9
  <2> HIDE DEF base
  <2>5. Played(t, kept, Events(slot, base, Block)) \subseteq HeldAt(slot, (base + Block) % slot.len)
    BY <1>2, <2>1, <2>2, <2>3, PlayedIsHeld
  <2> QED BY <1>4, <2>1, <2>4, <2>5 DEF t, slot, start
<1>10. CASE late > 0
  <2> DEFINE frames == 0 - start
  <2>1. frames \in Nat /\ frames < Block /\ Block - late = frames /\ ~(late <= 0) /\ late < Block
    BY <1>1, <1>5, <1>10
  <2>2. Due
    BY <1>1, <1>5, <1>10
  <2>3. kept = {}
    BY <1>7, <2>2
  <2>4. frames \in 0 .. slot.len /\ 0 \in Nat
    BY <1>1, <1>2, <2>1
  <2>5. SlotEvents(Playing, t) = Events(slot, 0, frames)
    BY <1>8, <2>1
  <2> HIDE DEF frames
  <2>6. kept \subseteq HeldAt(slot, 0 % slot.len)
    BY <2>3
  <2>7. Played(t, kept, Events(slot, 0, frames)) \subseteq HeldAt(slot, (0 + frames) % slot.len)
    BY <1>2, <2>4, <2>6, PlayedIsHeld
  <2>8. 0 + frames = 0 - start
    BY <2>1 DEF frames
  <2> QED BY <1>4, <2>5, <2>7, <2>8 DEF t, slot, start
<1> QED BY <1>1, <1>9, <1>10

\* A track is processed: its queue is promoted if it is due, and it plays.
LEMMA PlayPreserves == ASSUME SlotInv, ~call.loaded, PlayTrack PROVE SlotInv'
<1> USE DEF gridVars, userVars
<1> DEFINE t == turn
<1>1. Block \in Nat \ {0} /\ Period \in Nat \ {0} /\ t \in Track /\ t > 0
  BY SessionSlotsAssumption, PlayingFacts DEF Track
<1>2. /\ launched' = [launched EXCEPT ![t] = Playing]
      /\ queued' = IF Due THEN [queued EXCEPT ![t] = NoSlot] ELSE queued
      /\ prev' = [prev EXCEPT ![t] = Playing.slot]
      /\ sounding' = [sounding EXCEPT ![t] =
           IF Playing = NoSlot THEN KeptNotes(t, Playing.slot)
           ELSE Played(t, KeptNotes(t, Playing.slot), SlotEvents(Playing, t))]
      /\ disturbed' = IF Playing.slot # prev[t] THEN disturbed \ {t}
                      ELSE IF Due THEN disturbed \cup {t} ELSE disturbed
      /\ seen' = NoSlot /\ turn' = NextTurn
      /\ UNCHANGED <<gridVars, graphClock, userVars, call>>
  BY DEF PlayTrack, Playing
<1>3. launched \in [Track -> Held] /\ queued \in [Track -> Held] /\ prev \in [Track -> Nat]
      /\ sounding \in [Track -> SUBSET UNION {Pitches(u) : u \in Track}]
  BY DEF SlotInv, TypeOK
<1>4. NoSlot \in Held /\ NoSlot.slot = 0 /\ NoSlot.fit = FALSE
  BY <1>1 DEF NoSlot, Held
<1>5. Playing \in Held /\ Playing.slot \in {0} \cup SlotOf(t) /\ Playing.slot \in Nat
      /\ (Playing.slot = 0 => ~Due /\ Playing = NoSlot)
  BY PlayingFacts DEF Held
<1>6. \A u \in Track :
        /\ launched'[u] = IF u = t THEN Playing ELSE launched[u]
        /\ queued'[u] = IF u = t /\ Due THEN NoSlot ELSE queued[u]
        /\ prev'[u] = IF u = t THEN Playing.slot ELSE prev[u]
        /\ u # t => sounding'[u] = sounding[u] /\ (u \in disturbed' <=> u \in disturbed)
  BY <1>2, <1>3
<1>7. TypeOK'
  <2>1. launched' \in [Track -> Held] /\ queued' \in [Track -> Held] /\ prev' \in [Track -> Nat]
        /\ seen' \in Held
    BY <1>1, <1>2, <1>3, <1>4, <1>5
  <2>2. \A u \in Track : {launched'[u].slot, queued'[u].slot} \subseteq {0} \cup SlotOf(u)
    BY <1>4, <1>5, <1>6 DEF SlotInv, TypeOK
  <2>3. sounding' \in [Track -> SUBSET UNION {Pitches(u) : u \in Track}]
    <3> DEFINE s == IF Playing = NoSlot THEN KeptNotes(t, Playing.slot)
                    ELSE Played(t, KeptNotes(t, Playing.slot), SlotEvents(Playing, t))
               all == UNION {Pitches(u) : u \in Track}
    <3>1. KeptNotes(t, Playing.slot) \subseteq all
      BY <1>1, <1>3 DEF KeptNotes
    <3>2. Pitches(t) \subseteq all
      BY <1>1
    <3>3. Played(t, KeptNotes(t, Playing.slot), SlotEvents(Playing, t)) \subseteq Pitches(t)
      BY DEF Played
    <3>4. s \subseteq all
      BY <3>1, <3>2, <3>3
    <3>5. sounding' = [sounding EXCEPT ![t] = s] /\ sounding \in [Track -> SUBSET all]
      BY <1>2, <1>3
    <3> HIDE DEF s, all
    <3>6. sounding' \in [Track -> SUBSET all]
      BY <1>1, <3>4, <3>5
    <3> QED BY <3>6 DEF all
  <2>4. turn' \in 0 .. Tracks
    BY <1>1, <1>2, TurnOver
  <2> QED BY <1>2, <2>1, <2>2, <2>3, <2>4 DEF SlotInv, TypeOK
<1>8. Counted'
  <2>1. Due => queued[t].slot # 0 /\ Playing.slot # 0
    BY <1>5, PlayingFacts
  <2>2. ~Due => Playing = launched[t]
    BY PlayingFacts
  <2>3. Engaged' = Engaged
    BY <1>1, <1>4, <1>6, <2>1, <2>2 DEF Engaged
  <2> QED BY <1>2, <2>3 DEF SlotInv, Counted
<1>9. CallIsFresh' /\ SeenIsFresh'
  BY <1>2 DEF SlotInv, CallIsFresh, SeenIsFresh
<1>10. EmptyIsEmpty'
  BY <1>5, <1>6 DEF SlotInv, EmptyIsEmpty
<1>11. Clocks'
  BY <1>1, <1>2 DEF SlotInv, Clocks
<1>12. \A u \in Track : Now(u)' = IF u = t THEN 0 ELSE Now(u)
  BY <1>1, <1>2, TurnOver
<1>13. OnTime'
  <2> SUFFICES ASSUME NEW u \in Track
               PROVE  /\ queued'[u].fit => queued'[u].start >= Now(u)'
                      /\ launched'[u].slot # 0 => launched'[u].start <= Now(u)'
    BY DEF OnTime
  <2>1. CASE u # t
    BY <1>6, <1>12, <2>1 DEF SlotInv, OnTime
  <2>2. CASE u = t
    <3>1. Now(u)' = 0 /\ launched'[u] = Playing
      BY <1>6, <1>12, <2>2
    <3>2. Playing.slot # 0 => Playing.start <= 0
      BY <1>1, <1>5, PlayingFacts DEF Held
    <3>3. queued'[u].fit => queued'[u].start >= 0
      BY <1>4, <1>6, <2>2, PlayingFacts
    <3> QED BY <3>1, <3>2, <3>3
  <2> QED BY <2>1, <2>2
<1>14. OnGrid'
  <2> SUFFICES ASSUME count > 0 PROVE OnGrid'
    BY <1>2 DEF OnGrid
  <2>1. /\ quantum > 0 /\ Period % quantum = 0
        /\ \A u \in Track :
             /\ queued[u].slot # 0 => (queued[u].start - epoch) % quantum = 0
             /\ launched[u].fit => (launched[u].start - epoch) % quantum = 0
    BY DEF SlotInv, OnGrid
  <2>2. Playing.fit => (Playing.start - epoch) % quantum = 0
    BY <1>1, <2>1, PlayingFacts
  <2> QED BY <1>2, <1>4, <1>6, <2>1, <2>2 DEF OnGrid
<1>15. Quiet'
  <2> SUFFICES ASSUME NEW u \in Track, prev'[u] = 0, u \notin disturbed'
               PROVE  sounding'[u] = {}
    BY DEF Quiet
  <2>1. CASE u # t
    BY <1>6, <2>1 DEF SlotInv, Quiet
  <2>2. CASE u = t
    <3>1. Playing.slot = 0 /\ Playing = NoSlot /\ ~Due
      BY <1>5, <1>6, <2>2
    <3>2. sounding'[t] = KeptNotes(t, 0)
      BY <1>1, <1>2, <1>3, <3>1
    <3>3. CASE prev[t] = 0
      BY <1>1, <1>2, <2>2, <3>1, <3>2, <3>3 DEF SlotInv, Quiet, KeptNotes
    <3>4. CASE prev[t] # 0
      BY <2>2, <3>2, <3>4 DEF KeptNotes
    <3> QED BY <3>3, <3>4
  <2> QED BY <2>1, <2>2
<1>16. NotesEndInside => InTune'
  <2> SUFFICES ASSUME NotesEndInside, NEW u \in Track, launched'[u].slot = prev'[u],
                      prev'[u] # 0, u \notin disturbed'
        PROVE  sounding'[u] \subseteq HeldAt(Slot(u, launched'[u].slot), At(u)')
    BY DEF InTune
  <2>1. CASE u # t
    <3>1. At(u)' = At(u)
      BY <1>6, <1>12, <2>1 DEF At
    <3> QED BY <1>6, <2>1, <3>1 DEF SlotInv, InTune
  <2>2. CASE u = t
    <3>1. launched'[u] = Playing /\ Playing.slot # 0
      BY <1>6, <2>2
    <3>2. At(u)' = (0 - Playing.start) % Slot(t, Playing.slot).len
      BY <1>12, <2>2, <3>1 DEF At
    <3> QED BY <2>2, <3>1, <3>2, PlayingInTune
  <2> QED BY <2>1, <2>2
<1> QED BY <1>7, <1>8, <1>9, <1>10, <1>11, <1>13, <1>14, <1>15, <1>16 DEF SlotInv

-----------------------------------------------------------------------------
(* The theorems                                                            *)

\* A callback that does not run inside a launch finds nothing half done.
LEMMA SlotNextPreserves == ASSUME ~Racing PROVE SlotInv /\ [Next]_vars => SlotInv'
<1> SUFFICES ASSUME SlotInv, [Next]_vars PROVE SlotInv'
  OBVIOUS
<1>1. CASE SessionLaunch
  BY <1>1, CommandPreserves
<1>2. CASE PlayOrStop \/ \E t \in Track : Mute(t)
  BY <1>2, UsersPreserve
<1>3. CASE Rebuild
  BY <1>3, RebuildPreserves
<1>4. CASE CallStep
  BY <1>4, LoadPreserves, StopPreserves, LaunchPreserves, NoSuchSlotPreserves DEF CallStep
<1>5. CASE Callback
  BY <1>5, IdlePreserves, BeginPreserves, SkipPreserves, LoadQueuedPreserves,
     PlayPreserves
     DEF Callback
<1>6. CASE UNCHANGED vars
  <2> USE <1>6 DEF vars, userVars, callbackVars
  <2>1. Untouched /\ UNCHANGED <<seen, playing, muted, acts, call>>
    BY DEF Untouched
  <2>2. TypeOK'
    BY <2>1, UntouchedPreserves DEF SlotInv, TypeOK
  <2>3. CallIsFresh' /\ SeenIsFresh'
    BY <2>1 DEF SlotInv, CallIsFresh, SeenIsFresh, Untouched, slotVars, gridVars
  <2> QED BY <2>1, <2>2, <2>3, UntouchedPreserves DEF SlotInv
<1> QED BY <1>1, <1>2, <1>3, <1>4, <1>5, <1>6 DEF Next

\* Counts, clocks, loads, grid and sound fit together in every reachable state
\* (launchSlot, stopSlot and processTrack of audio_graph.cpp).
THEOREM SlotInvariantHolds == ASSUME ~Racing PROVE Spec => []SlotInv
<1>1. Init => SlotInv
  BY SlotInitEstablishes
<1>2. SlotInv /\ [Next]_vars => SlotInv'
  BY SlotNextPreserves
<1> QED BY <1>1, <1>2, PTL DEF Spec

\* What is launched from the queue is on the grid, and what is queued is served.
LEMMA InvariantOnGrid == SlotInv => TypeOK /\ InPhase /\ QueueIsServed
<1> SUFFICES ASSUME SlotInv PROVE InPhase /\ QueueIsServed
  BY DEF SlotInv
<1>1. NoSlot.slot = 0 /\ NoSlot.fit = FALSE
  BY DEF NoSlot
<1>2. InPhase
  <2> SUFFICES ASSUME NEW t \in Track, launched[t].fit
               PROVE  (launched[t].start - epoch) % quantum = 0
    BY DEF InPhase
  <2>1. launched[t].slot # 0
    BY <1>1 DEF SlotInv, EmptyIsEmpty
  <2>2. count > 0
    BY <2>1, SomebodyEngaged DEF SlotInv
  <2> QED BY <2>2 DEF SlotInv, OnGrid
<1>3. QueueIsServed
  <2> SUFFICES ASSUME NEW t \in Track, queued[t] # NoSlot, turn = 0
               PROVE  GraphRuns /\ (queued[t].fit => queued[t].start >= 0)
    BY DEF QueueIsServed
  <2>1. queued[t].slot # 0
    BY DEF SlotInv, EmptyIsEmpty
  <2>2. count > 0
    BY <2>1, SomebodyEngaged DEF SlotInv
  <2>3. Now(t) = 0
    BY DEF Now
  <2> QED BY <2>2, <2>3 DEF GraphRuns, SlotInv, OnTime
<1> QED BY <1>2, <1>3

\* Only processTrack promotes what it loaded, and it loaded what was in time.
LEMMA PromotedWhole == ASSUME ~Racing PROVE SlotInv /\ [Next]_vars => StartsWhole
<1> SUFFICES ASSUME SlotInv, [Next]_vars, seen.fit, seen' = NoSlot,
                    launched'[turn] # launched[turn]
             PROVE  launched'[turn].start >= graphClock
  BY DEF StartsWhole
<1>1. seen # NoSlot
  BY DEF NoSlot
<1>2. turn \in Track /\ seen = queued[turn] /\ turn # 0
  BY <1>1, SessionSlotsAssumption DEF SlotInv, SeenIsFresh, Track
<1>3. ~call.loaded
  BY <1>1 DEF SlotInv, CallIsFresh
<1>4. launched' # launched
  OBVIOUS
<1>5. CASE PlayTrack
  <2>1. launched' = [launched EXCEPT ![turn] = Playing]
    BY <1>5 DEF PlayTrack, Playing
  <2>2. launched'[turn] = Playing
    BY <1>2, <2>1 DEF SlotInv, TypeOK
  <2>3. Due /\ Playing.start = queued[turn].start
    BY <1>5, <2>2, PlayingFacts
  <2>4. graphClock = Now(turn)
    BY <1>5, PlayingFacts
  <2>5. queued[turn].start >= Now(turn)
    BY <1>2 DEF SlotInv, OnTime
  <2> QED BY <2>2, <2>3, <2>4, <2>5
<1>6. CASE SessionLaunch \/ PlayOrStop \/ \E t \in Track : Mute(t)
  BY <1>2, <1>4, <1>6 DEF SessionLaunch, Command, PlayOrStop, Mute, slotVars
<1>7. CASE Rebuild
  BY <1>2, <1>7 DEF Rebuild
<1>8. CASE CallStep
  BY <1>3, <1>4, <1>8 DEF CallStep, LoadSlots, Stop, Launch, NoSuchSlot, slotVars
<1>9. CASE IdleBlock \/ BeginBlock \/ SkipTrack \/ LoadQueued
  BY <1>2, <1>4, <1>9 DEF IdleBlock, BeginBlock, SkipTrack, LoadQueued, slotVars
<1>10. CASE UNCHANGED vars
  BY <1>4, <1>10 DEF vars, slotVars
<1> QED BY <1>5, <1>6, <1>7, <1>8, <1>9, <1>10 DEF Next, Callback

\* After every step queued launches are in phase with the grid, start with their
\* first sample and are waited for by a running callback (processTrack's
\* promotion, launched_count_).
THEOREM OnTheGridHolds == ASSUME ~Racing PROVE Spec => OnTheGrid
<1>1. SlotInv /\ [Next]_vars => SlotInv'
  BY SlotNextPreserves
<1>2. SlotInv' => TypeOK' /\ InPhase' /\ QueueIsServed'
  BY InvariantOnGrid, PTL
<1>3. SlotInv /\ [Next]_vars => StartsWhole
  BY PromotedWhole
<1>4. SlotInv /\ [Next]_vars => [TypeOK' /\ InPhase' /\ StartsWhole /\ QueueIsServed']_vars
  BY <1>1, <1>2, <1>3
<1>5. Spec => []SlotInv
  BY SlotInvariantHolds
<1> QED BY <1>4, <1>5, PTL DEF Spec, OnTheGrid

\* At the end of a block an instrument holds only notes of its slot that sound at
\* this place of the loop: seams, changes of slot and late starts leave none over
\* (emitSessionLoop).
THEOREM HoldsItsNotesHolds ==
  ASSUME ~Racing, NotesEndInside PROVE Spec => []HoldsItsNotes
<1>1. SlotInv => HoldsItsNotes
  <2> SUFFICES ASSUME SlotInv, NEW t \in Track, turn = 0, launched[t].slot = prev[t],
                      t \notin disturbed
               PROVE  sounding[t] \subseteq NotesHere(t)
    BY DEF HoldsItsNotes
  <2>1. CASE launched[t] = NoSlot
    <3>1. prev[t] = 0
      BY <2>1 DEF NoSlot
    <3> QED BY <3>1 DEF SlotInv, Quiet
  <2>2. CASE launched[t] # NoSlot
    <3>1. prev[t] # 0
      BY <2>2 DEF SlotInv, EmptyIsEmpty
    <3>2. sounding[t] \subseteq HeldAt(Slot(t, launched[t].slot), At(t))
      BY <3>1 DEF SlotInv, InTune
    <3>3. launched[t].start \in Int
      BY SessionSlotsAssumption DEF SlotInv, TypeOK, Held
    <3>4. At(t) = Position(t)
      <4>1. Now(t) = 0
        BY DEF Now
      <4>2. Now(t) - launched[t].start = -launched[t].start
        BY <3>3, <4>1
      <4> QED BY <4>2 DEF At, Position
    <3>5. HeldAt(Slot(t, launched[t].slot), At(t)) = NotesHere(t)
      BY <2>2, <3>4, Zenon DEF HeldAt, NotesHere
    <3> QED BY <3>2, <3>5
  <2> QED BY <2>1, <2>2
<1>2. Spec => []SlotInv
  BY SlotInvariantHolds
<1> QED BY <1>1, <1>2, PTL

-----------------------------------------------------------------------------
(* The transport                                                           *)

USE LoopAssumption DEF Loop!TransportLoopAssumption

\* The command the callback is applying is a SetLoop, between its first store and
\* its last.
LoopCommand ==
  [op : {"loop"}, clear : BOOLEAN, region : Regions \cup {<<>>}, on : BOOLEAN]

CommandHeld == apc \in {"flag", "content", "start", "end", "toggle"} => cmd \in LoopCommand

\* What is about to be stored are frames, never a negative position.
BracesWellFormed == braces \in Nat \X Nat

\* The last sub-block ended at or before the end it was cut to.
HeardUncrossed == heard.end # 0 => heard.from + heard.len <= heard.end

\* The frame a listener expects next is the one the transport stands at: in the
\* callback's local position from the moment it was loaded, in position_ before
\* and after.
MidCallback == apc \in {"loadstart", "loadend", "block", "publish"}

ExpectedIsHere == expected = IF MidCallback THEN here.pos ELSE position

LoopInv == Loop!TypeOK /\ HeardUncrossed /\ CommandHeld /\ BracesWellFormed /\ ExpectedIsHere

-----------------------------------------------------------------------------
\* The engine starts stopped, at 0, with nothing in the ring.
LEMMA LoopInitEstablishes == ASSUME Loop!Init PROVE LoopInv
<1> USE DEF Loop!Init
<1>1. Loop!TypeOK
  <2>1. here \in Loop!Here
    BY DEF Loop!Here
  <2>2. heard \in Loop!Heard
    BY DEF Loop!Heard
  <2>3. queue \in Seq(Loop!Queued)
    OBVIOUS
  <2> QED BY <2>1, <2>2, <2>3 DEF Loop!TypeOK
<1>2. HeardUncrossed
  BY DEF HeardUncrossed
<1>3. CommandHeld /\ BracesWellFormed /\ ExpectedIsHere
  BY DEF CommandHeld, BracesWellFormed, ExpectedIsHere, MidCallback
<1> QED BY <1>1, <1>2, <1>3 DEF LoopInv

\* What the two kinds of command that are looked into carry.
LEMMA QueuedFields ==
  ASSUME NEW c \in Loop!Queued
  PROVE  (c.op = "loop" => c \in LoopCommand) /\ (c.op = "seek" => c.to \in Int)
<1>1. CASE c \in [op : {"play", "stop"}]
  BY <1>1
<1>2. CASE c \in [op : {"seek"}, to : SeekTargets]
  BY <1>2
<1>3. CASE c \in [op : {"seek"}, to : {0}]
  BY <1>3
<1>4. CASE c \in LoopCommand
  BY <1>4 DEF LoopCommand
<1> QED BY <1>1, <1>2, <1>3, <1>4 DEF Loop!Queued, Loop!Command, LoopCommand

\* A browser's command changes the ring only.
LEMMA SendPreserves == ASSUME LoopInv, Loop!Send PROVE LoopInv'
<1>1. queue' \in Seq(Loop!Queued)
  <2>1. PICK c \in Loop!Command : queue' = Append(queue, c)
    BY DEF Loop!Send
  <2>2. c \in Loop!Queued /\ queue \in Seq(Loop!Queued)
    BY DEF Loop!Queued, LoopInv, Loop!TypeOK
  <2> QED BY <2>1, <2>2
<1>2. Loop!TypeOK'
  <2>1. sent' \in Nat
    BY DEF LoopInv, Loop!TypeOK, Loop!Send
  <2>3. clean' \in BOOLEAN
    BY Zenon DEF Loop!Send
  <2>2. UNCHANGED <<Loop!transport, apc, here, cpc, cend, turns, expected, heard>>
    BY DEF Loop!Send
  <2> QED BY <1>1, <2>1, <2>3, <2>2 DEF LoopInv, Loop!TypeOK, Loop!transport
<1>3. HeardUncrossed' /\ CommandHeld' /\ BracesWellFormed' /\ ExpectedIsHere'
  BY DEF LoopInv, HeardUncrossed, CommandHeld, BracesWellFormed, ExpectedIsHere,
     MidCallback, Loop!Send, Loop!transport
<1> QED BY <1>2, <1>3 DEF LoopInv

\* A seek moves the position and what the listener expects together; a negative
\* one moves neither.
LEMMA PopPreserves == ASSUME LoopInv, Loop!PopCommand PROVE LoopInv'
<1> DEFINE c == Head(queue)
<1>1. c \in Loop!Queued /\ Tail(queue) \in Seq(Loop!Queued)
  BY DEF LoopInv, Loop!TypeOK, Loop!PopCommand
<1> HIDE DEF c
<1>2. (c.op = "loop" => c \in LoopCommand) /\ (c.op = "seek" => c.to \in Int)
  BY <1>1, QueuedFields
<1>3. /\ queue' \in Seq(Loop!Queued)
      /\ position' = IF c.op = "seek" /\ c.to >= 0 THEN c.to ELSE position
      /\ expected' = IF c.op = "seek" /\ c.to >= 0 THEN c.to ELSE expected
      /\ IF c.op = "loop" THEN cmd' = c /\ apc' = "flag" ELSE UNCHANGED <<cmd, apc>>
  BY <1>1 DEF Loop!PopCommand, c
<1>4. running' \in BOOLEAN
  <2>1. CASE c.op \in {"play", "stop"}
    BY <2>1 DEF Loop!PopCommand, c
  <2>2. CASE c.op \notin {"play", "stop"}
    BY <2>2 DEF Loop!PopCommand, c, LoopInv, Loop!TypeOK
  <2> QED BY <2>1, <2>2
<1>5. position' \in Nat /\ expected' \in Nat
  BY <1>2, <1>3 DEF LoopInv, Loop!TypeOK
<1>6. apc = "commands" /\ apc' \in {"commands", "flag"}
      /\ UNCHANGED <<looping, loopStart, loopEnd, contentEnd, userLoop, sent, braces,
                     here, cpc, cend, turns, heard, region, clean>>
  BY <1>3 DEF Loop!PopCommand
<1>7. Loop!TypeOK'
  BY <1>3, <1>4, <1>5, <1>6 DEF LoopInv, Loop!TypeOK
<1>8. CommandHeld'
  BY <1>2, <1>3, <1>6 DEF CommandHeld
<1>9. HeardUncrossed' /\ BracesWellFormed' /\ ExpectedIsHere'
  BY <1>3, <1>6 DEF LoopInv, HeardUncrossed, BracesWellFormed, ExpectedIsHere, MidCallback
<1> QED BY <1>7, <1>8, <1>9 DEF LoopInv

\* SetLoop stores a tested region, or the content, and touches no position.
LEMMA SetLoopPreserves == ASSUME LoopInv, Loop!SetLoop PROVE LoopInv'
<1>1. CASE Loop!LoopFlag
  <2>1. cmd.region \in (Int \X Int) \cup {<<>>}
    BY <1>1 DEF Loop!LoopFlag, LoopCommand, LoopInv, CommandHeld
  <2>2. Loop!Valid(cmd.region) => cmd.region \in Nat \X Nat
    BY <2>1 DEF Loop!Valid
  <2>3. BracesWellFormed'
    BY <1>1, <2>2 DEF Loop!LoopFlag, LoopInv, BracesWellFormed
  <2>4. Loop!TypeOK'
    BY <1>1 DEF Loop!LoopFlag, LoopInv, Loop!TypeOK
  <2> QED
    BY <1>1, <2>3, <2>4 DEF Loop!LoopFlag, LoopInv, HeardUncrossed, CommandHeld,
       ExpectedIsHere, MidCallback
<1>2. CASE Loop!LoopContent \/ Loop!LoopStoreStart \/ Loop!LoopStoreEnd \/ Loop!LoopToggle
  <2> USE DEF Loop!LoopContent, Loop!LoopStoreStart, Loop!LoopStoreEnd, Loop!LoopToggle,
         Loop!transport, Loop!ghosts
  <2>1. looping' \in BOOLEAN
    BY <1>2 DEF LoopInv, Loop!TypeOK, CommandHeld, LoopCommand
  <2>2. BracesWellFormed' /\ loopStart' \in Nat /\ loopEnd' \in Nat
    BY SMTT(20), <1>2 DEF LoopInv, Loop!TypeOK, BracesWellFormed
  <2>3. Loop!TypeOK'
    BY <1>2, <2>1, <2>2 DEF LoopInv, Loop!TypeOK
  <2> QED
    BY <1>2, <2>2, <2>3 DEF LoopInv, HeardUncrossed, CommandHeld, ExpectedIsHere,
       MidCallback
<1> QED BY <1>1, <1>2 DEF Loop!SetLoop

\* The callback goes on from position_, loaded once.
LEMMA LoadBracesPreserves ==
  ASSUME LoopInv, Loop!CallbackEnter \/ Loop!LoadTransport \/ Loop!LoadStart \/ Loop!LoadEnd
  PROVE  LoopInv'
<1> USE DEF Loop!CallbackEnter, Loop!LoadTransport, Loop!LoadStart, Loop!LoadEnd,
       Loop!transport, Loop!ghosts
<1>1. here' \in Loop!Here
  <2>1. CASE Loop!CallbackEnter
    BY <2>1 DEF LoopInv, Loop!TypeOK
  <2>2. CASE Loop!LoadTransport
    <3>1. here' = [pos |-> position, looping |-> looping, start |-> here.start,
                   end |-> here.end, written |-> 0]
      BY <2>2 DEF LoopInv, Loop!TypeOK, Loop!Here
    <3> QED BY <3>1 DEF LoopInv, Loop!TypeOK, Loop!Here
  <2>3. CASE Loop!LoadStart
    BY <2>3 DEF LoopInv, Loop!TypeOK, Loop!Here
  <2>4. CASE Loop!LoadEnd
    BY <2>4 DEF LoopInv, Loop!TypeOK, Loop!Here
  <2> QED BY <2>1, <2>2, <2>3, <2>4
<1>2. Loop!TypeOK'
  BY <1>1 DEF LoopInv, Loop!TypeOK
<1>3. ExpectedIsHere'
  BY DEF LoopInv, Loop!TypeOK, Loop!Here, ExpectedIsHere, MidCallback
<1> QED BY <1>2, <1>3 DEF LoopInv, HeardUncrossed, CommandHeld, BracesWellFormed

\* A sub-block is never empty, never longer than what was asked for, and stays
\* within the bounds the callback loaded, whatever pair of braces that is.
LEMMA ChunkBounds ==
  ASSUME Loop!TypeOK, here.written < Frames, Loop!AtEnd => Loop!Wraps
  PROVE  /\ Loop!From \in Nat /\ Loop!Chunk \in 1 .. SubBlock /\ Loop!Chunk <= Frames - here.written
         /\ Loop!Bounded => Loop!From + Loop!Chunk <= here.end
<1>1. /\ here.pos \in Nat /\ here.start \in Nat /\ here.end \in Nat
      /\ here.written \in Nat /\ here.written <= Frames
  BY DEF Loop!TypeOK, Loop!Here
<1>2. Loop!From \in Nat /\ (Loop!Bounded => Loop!From < here.end)
  BY <1>1 DEF Loop!From, Loop!AtEnd, Loop!Wraps, Loop!Bounded
<1> DEFINE whole == Loop!Least(SubBlock, Frames - here.written)
<1>3. whole \in 1 .. SubBlock /\ whole <= Frames - here.written
  BY <1>1 DEF Loop!Least
<1> HIDE DEF whole
<1>4. Loop!Chunk = IF Loop!Bounded THEN Loop!Least(whole, here.end - Loop!From) ELSE whole
  BY DEF Loop!Chunk, whole
<1> QED BY <1>1, <1>2, <1>3, <1>4 DEF Loop!Least

\* Each sub-block moves the local position by what was heard, and that is the
\* position published.
LEMMA BlocksPreserve ==
  ASSUME LoopInv, Loop!Park \/ Loop!ProcessBlock \/ Loop!LastBlock \/ Loop!PublishPosition
  PROVE  LoopInv'
<1>1. CASE Loop!Park
  <2>1. here.end \in Nat /\ here' \in Loop!Here /\ here'.pos = here.end
    BY <1>1 DEF Loop!Park, LoopInv, Loop!TypeOK, Loop!Here
  <2>2. Loop!TypeOK'
    BY <1>1, <2>1 DEF Loop!Park, LoopInv, Loop!TypeOK
  <2>3. ExpectedIsHere'
    BY <1>1, <2>1 DEF Loop!Park, ExpectedIsHere, MidCallback
  <2> QED
    BY <1>1, <2>2, <2>3 DEF Loop!Park, LoopInv, HeardUncrossed, CommandHeld,
       BracesWellFormed
<1>2. CASE Loop!ProcessBlock
  <2>1. /\ Loop!From \in Nat /\ Loop!Chunk \in 1 .. SubBlock /\ Loop!Chunk <= Frames - here.written
        /\ Loop!Bounded => Loop!From + Loop!Chunk <= here.end
    BY <1>2, ChunkBounds DEF Loop!ProcessBlock, LoopInv
  <2>2. /\ heard' = [from |-> Loop!From, len |-> Loop!Chunk, end |-> IF Loop!Bounded THEN here.end ELSE 0]
        /\ expected' = Loop!From + Loop!Chunk
        /\ here' = [here EXCEPT !.pos = Loop!From + Loop!Chunk, !.written = @ + Loop!Chunk]
    BY <1>2 DEF Loop!ProcessBlock
  <2> HIDE DEF Loop!From, Loop!Chunk, Loop!Bounded
  <2>3. here' \in Loop!Here /\ here'.pos = Loop!From + Loop!Chunk
    <3>1. here' = [pos |-> Loop!From + Loop!Chunk, looping |-> here.looping, start |-> here.start,
                   end |-> here.end, written |-> here.written + Loop!Chunk]
      BY <2>2 DEF LoopInv, Loop!TypeOK, Loop!Here
    <3>2. here.written + Loop!Chunk \in 0 .. Frames /\ Loop!From + Loop!Chunk \in Nat
      BY <2>1 DEF LoopInv, Loop!TypeOK, Loop!Here
    <3> QED BY <3>1, <3>2 DEF LoopInv, Loop!TypeOK, Loop!Here
  <2>4. heard' \in Loop!Heard /\ HeardUncrossed'
    <3>1. here.end \in Nat /\ Loop!Chunk \in 0 .. SubBlock
      BY <2>1 DEF LoopInv, Loop!TypeOK, Loop!Here
    <3>2. heard' \in Loop!Heard
      BY <2>1, <2>2, <3>1 DEF Loop!Heard
    <3>3. HeardUncrossed'
      BY <2>1, <2>2 DEF HeardUncrossed
    <3> QED BY <3>2, <3>3
  <2>5. Loop!TypeOK'
    BY SMTT(20), <1>2, <2>1, <2>2, <2>3, <2>4 DEF Loop!ProcessBlock, LoopInv,
       Loop!TypeOK, Loop!transport
  <2>6. ExpectedIsHere'
    BY <1>2, <2>2, <2>3 DEF Loop!ProcessBlock, ExpectedIsHere, MidCallback
  <2> QED
    BY <1>2, <2>4, <2>5, <2>6 DEF Loop!ProcessBlock, LoopInv, CommandHeld,
       BracesWellFormed
<1>3. CASE Loop!LastBlock \/ Loop!PublishPosition
  <2> USE DEF Loop!LastBlock, Loop!PublishPosition, Loop!PublishedPosition,
         Loop!transport, Loop!ghosts
  <2>1. position' \in Nat
    BY <1>3 DEF LoopInv, Loop!TypeOK, Loop!Here
  <2>2. Loop!TypeOK'
    BY <1>3, <2>1 DEF LoopInv, Loop!TypeOK
  <2> QED
    BY <1>3, <2>2 DEF LoopInv, HeardUncrossed, CommandHeld, BracesWellFormed,
       ExpectedIsHere, MidCallback
<1> QED BY <1>1, <1>2, <1>3

\* The steps of the control loop.
ControlStep == Loop!SetContentEnd \/ Loop!BeginSwitch \/ Loop!InsideControl

\* The control loop stores frames only, and neither position_ nor the callback's
\* locals.
LEMMA ControlPreserves == ASSUME LoopInv, ControlStep PROVE LoopInv'
<1> USE DEF ControlStep, Loop!InsideControl, Loop!SetContentEnd, Loop!FollowContent,
       Loop!ControlStoreStart, Loop!ControlStoreEnd, Loop!BeginSwitch, Loop!SwitchSeek,
       Loop!SwitchFlag, Loop!SwitchContent, Loop!transport, Loop!ghosts
<1>1. queue' \in Seq(Loop!Queued)
  <2>1. CASE Loop!SwitchSeek
    <3>1. [op |-> "seek", to |-> 0] \in Loop!Queued
      BY DEF Loop!Queued
    <3> QED BY <2>1, <3>1 DEF LoopInv, Loop!TypeOK
  <2>2. CASE ~Loop!SwitchSeek
    BY <2>2 DEF LoopInv, Loop!TypeOK
  <2> QED BY <2>1, <2>2
<1>2. loopStart' \in Nat /\ loopEnd' \in Nat /\ contentEnd' \in Nat /\ cend' \in Nat
  BY DEF LoopInv, Loop!TypeOK
<1>3. running' \in BOOLEAN /\ userLoop' \in BOOLEAN /\ clean' \in BOOLEAN
  BY DEF LoopInv, Loop!TypeOK
<1>4. /\ UNCHANGED <<position, looping, sent, apc, cmd, braces, here, expected, heard>>
      /\ turns' \in {turns, turns + 1}
      /\ cpc' \in {"idle", "follow", "start", "end", "seek", "flag", "content"}
  OBVIOUS
<1>5. Loop!TypeOK'
  BY <1>1, <1>2, <1>3, <1>4 DEF LoopInv, Loop!TypeOK
<1> QED
  BY <1>4, <1>5 DEF LoopInv, HeardUncrossed, CommandHeld, BracesWellFormed,
     ExpectedIsHere, MidCallback

\* Every step of the system keeps the invariant.
LEMMA LoopNextPreserves == ASSUME LoopInv, [Loop!Next]_(Loop!vars) PROVE LoopInv'
<1>1. CASE UNCHANGED Loop!vars
  BY <1>1 DEF Loop!vars, Loop!transport, Loop!ghosts, LoopInv, Loop!TypeOK,
     HeardUncrossed, CommandHeld, BracesWellFormed, ExpectedIsHere, MidCallback
<1> QED
  BY <1>1, SendPreserves, PopPreserves, SetLoopPreserves, LoadBracesPreserves,
     BlocksPreserve, ControlPreserves DEF Loop!Next, Loop!InsideCallback,
     Loop!InsideControl, ControlStep

-----------------------------------------------------------------------------
\* The transport is well formed in every reachable state: types, braces, and the
\* listener standing where the transport does (transport_state.h, the callback).
THEOREM LoopInvariantHolds == Loop!Spec => []LoopInv
  BY LoopInitEstablishes, LoopNextPreserves, PTL DEF Loop!Spec

\* Where the invariant holds, a sub-block starts where the last one ended, or at
\* the loop start once the loop end is reached.
LEMMA StepContinues ==
  ASSUME LoopInv, Loop!ProcessBlock
  PROVE  \/ heard'.from = expected
         \/ expected >= here.end /\ heard'.from = here.start
  BY DEF LoopInv, Loop!TypeOK, Loop!Here, ExpectedIsHere, MidCallback, Loop!ProcessBlock,
     Loop!From, Loop!Wraps, Loop!AtEnd

\* Playback follows the braces and the seeks: no hole and no repeat, and no frame
\* past the brace or the end of content (the sub-block loop of the callback).
THEOREM PlaybackFollows == Loop!Spec => PlaysAsTold
<1>1. Loop!Spec => [][Loop!BraceNeverCrossed']_(Loop!vars)
  <2>1. LoopInv => Loop!BraceNeverCrossed
    BY DEF LoopInv, Loop!BraceNeverCrossed, HeardUncrossed
  <2> QED BY <2>1, LoopInvariantHolds, PTL DEF Loop!Spec
<1>2. Loop!Spec => Loop!PlaysContinuously
  BY LoopInvariantHolds, StepContinues, PTL DEF Loop!Spec, Loop!PlaysContinuously
<1> QED BY <1>1, <1>2, PTL DEF PlaysAsTold, Loop!PlaysAsTold
=============================================================================
