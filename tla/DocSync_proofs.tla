----------------------------- MODULE DocSync_proofs -----------------------------
(***************************************************************************)
(* DocSync for every set of tabs and engines, every number of changes,     *)
(* broken connections, aborted sessions and crashes, and every capacity of *)
(* the broadcast channel: what others know is on the server's disk with    *)
(* all it builds on, no edit is lost by a merge, and a tab that holds      *)
(* changes back has a resync pending.                                      *)
(*                                                                         *)
(* The last one rests on applyChange's test, which counts missing          *)
(* dependencies and looks at the direct ones only.  That this is enough    *)
(* needs an argument about the whole history: in a document that holds     *)
(* nothing back, the latest change missing from the past of another is one *)
(* of its direct dependencies (MissingIsNoticed).                          *)
(***************************************************************************)
EXTENDS DocSync, FiniteSetTheorems, WellFoundedInduction, TLAPS

USE DocSyncAssumption

\* What a replica made itself.
Own(r) == {x \in known[r] : log[x].by = r}

\* A change builds on earlier ones only.
LogWellFormed ==
  /\ known \in [Replica -> SUBSET Made]
  /\ \A x \in Made : Past(x) \subseteq 1 .. x - 1

\* What is on its way to the server was made; what comes from it is stored.
Carried ==
  /\ stored \subseteq Made
  /\ outbox \in [Replica -> Seq(Made)]
  /\ up \in [Replica \X Slot -> Seq(Made)]
  /\ unsent \in [Replica \X Slot -> SUBSET stored]
  /\ down \in [Replica -> Seq(stored)]

\* The document a session sends first is one that was on disk.
SnapshotsAreClosed ==
  \A r \in Replica : snapshot[r] \subseteq stored
                     /\ \A x \in snapshot[r] : Past(x) \subseteq snapshot[r]

\* It holds all that the replica learnt over earlier connections.
SnapshotCovers ==
  \A r \in Replica : session[r] = "loaded" /\ link[r] = "await" =>
    known[r] \ Own(r) \subseteq snapshot[r]

\* An engine that has no document yet has made nothing.
FirstThingsFirst ==
  \A r \in Engine : ~met[r] => \A x \in Made : log[x].by # r

\* A replica never holds back its own changes.
OwnApplied == \A r \in Replica : \A x \in Own(r) : Past(x) \subseteq known[r]

\* What a replica knows of others' work is on disk.
Durable == \A r \in Replica : \A x \in known[r] : log[x].by = r \/ x \in stored

IInv ==
  /\ TypeOK /\ Durable /\ StoredIsClosed /\ EditsSurvive /\ HeldBackMeansResync
  /\ LogWellFormed /\ Carried
  /\ SnapshotsAreClosed /\ SnapshotCovers
  /\ FirstThingsFirst /\ OwnApplied

-----------------------------------------------------------------------------
\* A sequence over a set is one over a larger set.
LEMMA SeqGrows == ASSUME NEW S, NEW T, S \subseteq T, NEW q \in Seq(S) PROVE q \in Seq(T)
  OBVIOUS

\* The elements of a sequence.
LEMMA SeqElements == ASSUME NEW S, NEW q \in Seq(S) PROVE \A i \in 1 .. Len(q) : q[i] \in S
  OBVIOUS

\* Nobody is connected and nothing was made.
LEMMA InitEstablishes == ASSUME Init PROVE IInv
<1> USE DEF Init
<1>1. TypeOK
  <2>1. log \in Seq([by : Replica, past : SUBSET Change]) /\ Len(log) <= MaxChanges
    OBVIOUS
  <2>2. \A S : <<>> \in Seq(S)
    OBVIOUS
  <2>3. outbox \in [Replica -> Seq(Change)] /\ down \in [Replica -> Seq(Change)]
        /\ up \in [Replica \X Slot -> Seq(Change)]
    BY <2>2
  <2>4. /\ known \in [Replica -> SUBSET Change] /\ snapshot \in [Replica -> SUBSET Change]
        /\ unsent \in [Replica \X Slot -> SUBSET Change]
    OBVIOUS
  <2>5. /\ cycles \in [Replica -> 0 .. 2] /\ slot \in [Replica -> Slot]
        /\ link \in [Replica -> {"down", "await", "open"}]
        /\ session \in [Replica -> {"none", "joined", "loaded"}]
    BY DEF Slot
  <2>6. met \in [Replica -> BOOLEAN] /\ resync \in [Replica -> BOOLEAN] /\ lagged \in BOOLEAN
    BY Zenon
  <2>7. failures \in Nat /\ stored \subseteq Change
    OBVIOUS
  <2> QED BY <2>1, <2>3, <2>4, <2>5, <2>6, <2>7 DEF TypeOK
<1>2. Made = {}
  BY DEF Made
<1>3. EditsSurvive /\ LogWellFormed /\ FirstThingsFirst /\ OwnApplied
  BY <1>2 DEF EditsSurvive, LogWellFormed, FirstThingsFirst, OwnApplied, Own
<1>4. Carried
  BY <1>2 DEF Carried
<1>5. HeldBackMeansResync
  BY DEF HeldBackMeansResync, Replica
<1>6. Durable /\ StoredIsClosed /\ SnapshotsAreClosed /\ SnapshotCovers
  BY DEF Durable, StoredIsClosed, SnapshotsAreClosed, SnapshotCovers
<1> QED BY <1>1, <1>3, <1>4, <1>5, <1>6 DEF IInv

-----------------------------------------------------------------------------
\* A change is made: it gets the next number, and builds on its author's document.
LEMMA LogAppended ==
  ASSUME TypeOK, LogWellFormed, NEW r \in Replica, Make(r)
  PROVE  /\ Len(log) \in Nat /\ Len(log)' = Len(log) + 1
         /\ Made = 1 .. Len(log) /\ Made' = 1 .. Len(log) + 1
         /\ Len(log) + 1 \in Change
         /\ \A x \in Made : log'[x] = log[x]
         /\ log'[Len(log) + 1].by = r /\ log'[Len(log) + 1].past = Doc(r)
         /\ Doc(r) \subseteq known[r]
         /\ known' = [known EXCEPT ![r] = @ \cup {Len(log) + 1}]
<1>1. Len(log) \in Nat /\ log \in Seq([by : Replica, past : SUBSET Change])
  BY DEF TypeOK
<1>2. log' = Append(log, [by |-> r, past |-> Doc(r)]) /\ Len(log) < MaxChanges
  BY DEF Make
<1>3. Doc(r) \subseteq known[r]
  BY DEF Doc, Applied
<1>4. Len(log)' = Len(log) + 1
  BY <1>1, <1>2
<1>5. \A x \in 1 .. Len(log) : log'[x] = log[x]
  BY <1>1, <1>2
<1>6. log'[Len(log) + 1] = [by |-> r, past |-> Doc(r)]
  BY <1>1, <1>2
<1>7. known' = [known EXCEPT ![r] = @ \cup {Len(log) + 1}]
  BY DEF Make
<1>8. Made = 1 .. Len(log) /\ Made' = 1 .. Len(log) + 1 /\ Len(log) + 1 \in Change
  BY <1>1, <1>2, <1>4 DEF Made, Change
<1>9. log'[Len(log) + 1].by = r /\ log'[Len(log) + 1].past = Doc(r)
  BY <1>6
<1> QED BY <1>1, <1>3, <1>4, <1>5, <1>7, <1>8, <1>9

\* A replica makes a change and queues it, sends it or keeps it.
LEMMA MakePreserves == ASSUME IInv, NEW r \in Replica, Make(r) PROVE IInv'
<1> DEFINE x0 == Len(log) + 1
<1>0. /\ Len(log) \in Nat /\ Made = 1 .. Len(log) /\ Made' = 1 .. x0 /\ x0 \in Change /\ x0 \in Nat
      /\ \A x \in Made : log'[x] = log[x]
      /\ log'[x0].by = r /\ log'[x0].past = Doc(r)
      /\ Doc(r) \subseteq known[r]
      /\ known' = [known EXCEPT ![r] = @ \cup {x0}]
      /\ known \in [Replica -> SUBSET Made]
  BY LogAppended DEF IInv, LogWellFormed
<1>a. x0 \notin Made /\ Made \subseteq Made' /\ x0 \in Made' /\ Made' = Made \cup {x0}
  BY <1>0
<1>b. Here(r) \in Replica \X Slot
  BY DEF IInv, TypeOK, Here
<1> HIDE DEF x0
<1>1. TypeOK'
  <2>1. log' \in Seq([by : Replica, past : SUBSET Change]) /\ Len(log') <= MaxChanges
    <3>1. [by |-> r, past |-> Doc(r)] \in [by : Replica, past : SUBSET Change]
      BY <1>0 DEF IInv, TypeOK
    <3>2. log' = Append(log, [by |-> r, past |-> Doc(r)]) /\ Len(log) < MaxChanges
      BY DEF Make
    <3> QED BY <3>1, <3>2 DEF IInv, TypeOK
  <2>2. known' \in [Replica -> SUBSET Change]
    BY <1>0 DEF IInv, TypeOK
  <2>3. outbox' \in [Replica -> Seq(Change)]
    BY <1>0 DEF IInv, TypeOK, Make, x0
  <2>4. up' \in [Replica \X Slot -> Seq(Change)]
    BY <1>0, <1>b DEF IInv, TypeOK, Make, x0
  <2> QED BY <2>1, <2>2, <2>3, <2>4 DEF IInv, TypeOK, Make, server
<1>2. Durable' /\ EditsSurvive'
  <2>1. \A q \in Replica : \A x \in known'[q] : (x = x0 /\ q = r) \/ (x \in known[q] /\ x \in Made)
    BY <1>0
  <2>2. Durable'
    BY <1>0, <2>1 DEF IInv, Durable, Make, server
  <2>3. \A x \in Made : log[x].by \in Replica
    <3>1. log \in Seq([by : Replica, past : SUBSET Change])
      BY DEF IInv, TypeOK
    <3>2. \A x \in Made : log[x] \in [by : Replica, past : SUBSET Change]
      BY <1>0, <3>1, SeqElements
    <3> QED BY <3>2
  <2>4. \A q \in Replica : known[q] \subseteq known'[q]
    BY <1>0
  <2>5. x0 \in known'[r]
    BY <1>0
  <2>6. EditsSurvive'
    BY <1>0, <1>a, <2>3, <2>4, <2>5 DEF IInv, EditsSurvive
  <2> QED BY <2>2, <2>6
<1>3. StoredIsClosed' /\ SnapshotsAreClosed'
  BY SMTT(20), <1>0 DEF IInv, StoredIsClosed, SnapshotsAreClosed, Carried, Make, server, Past
<1>4. LogWellFormed'
  <2>1. known' \in [Replica -> SUBSET Made']
    BY <1>0, <1>a
  <2>2. \A x \in Made : log'[x].past \subseteq 1 .. x - 1
    BY <1>0 DEF IInv, LogWellFormed, Past
  <2>3. log'[x0].past \subseteq 1 .. x0 - 1
    BY <1>0 DEF x0
  <2> QED BY <1>a, <2>1, <2>2, <2>3 DEF LogWellFormed, Past
<1>5. Carried'
  <2>1. outbox' \in [Replica -> Seq(Made')]
    <3>1. outbox \in [Replica -> Seq(Made')]
      BY <1>a, SeqGrows DEF IInv, Carried
    <3>2. outbox' = outbox \/ outbox' = [outbox EXCEPT ![r] = Append(outbox[r], x0)]
      BY DEF Make, x0
    <3>3. Append(outbox[r], x0) \in Seq(Made')
      BY <1>a, <3>1
    <3> QED BY <3>1, <3>2, <3>3
  <2>2. up' \in [Replica \X Slot -> Seq(Made')]
    <3>1. up \in [Replica \X Slot -> Seq(Made')]
      BY <1>a, SeqGrows DEF IInv, Carried
    <3>2. up' = up \/ up' = [up EXCEPT ![Here(r)] = Append(up[Here(r)], x0)]
      BY DEF Make, x0
    <3>3. Append(up[Here(r)], x0) \in Seq(Made')
      BY <1>a, <1>b, <3>1
    <3> QED BY <3>1, <3>2, <3>3
  <2>3. stored' = stored /\ unsent' = unsent /\ down' = down
    BY DEF Make, server
  <2> QED BY <1>a, <2>1, <2>2, <2>3 DEF IInv, Carried
<1>6. SnapshotCovers'
  <2> SUFFICES ASSUME NEW q \in Replica, session[q] = "loaded", link[q] = "await",
                      NEW x \in known'[q], log'[x].by # q
               PROVE  x \in snapshot[q]
    BY DEF SnapshotCovers, Own, Make
  <2>1. x \in known[q]
    BY <1>0
  <2>2. log'[x] = log[x]
    BY <1>0, <2>1
  <2> QED BY <2>1, <2>2 DEF IInv, SnapshotCovers, Own
<1>7. FirstThingsFirst'
  BY <1>0, <1>a DEF IInv, FirstThingsFirst, Make
<1>8. OwnApplied'
  <2> SUFFICES ASSUME NEW q \in Replica, NEW x \in known'[q], log'[x].by = q
               PROVE  log'[x].past \subseteq known'[q]
    BY DEF OwnApplied, Own, Past
  <2>1. known[q] \subseteq known'[q]
    BY <1>0
  <2>2. CASE x = x0
    BY <1>0, <2>1, <2>2
  <2>3. CASE x # x0
    <3>1. x \in known[q] /\ x \in Made
      BY <1>0, <2>3
    <3> QED BY <1>0, <2>1, <3>1 DEF IInv, OwnApplied, Own, Past
  <2> QED BY <2>2, <2>3
<1>9. HeldBackMeansResync'
  <2> SUFFICES ASSUME NEW q \in Tab, link[q] = "open", ~resync[q]
               PROVE  Doc(q)' = known'[q]
    BY DEF HeldBackMeansResync, Make
  <2>1. q \in Replica /\ Doc(q) = known[q]
    BY DEF IInv, HeldBackMeansResync, Replica
  <2>2. \A x \in known[q] : log[x].past \subseteq known[q] /\ x \in Made
    BY <1>0, <2>1 DEF Doc, Applied, Past
  <2>3. \A x \in known'[q] : log'[x].past \subseteq known'[q]
    <3>1. known[q] \subseteq known'[q] /\ (\A x \in known'[q] : x \in known[q] \/ (x = x0 /\ q = r))
      BY <1>0, <2>1
    <3> QED BY <1>0, <2>2, <3>1
  <2> QED BY <2>3 DEF Doc, Applied, Past
<1> QED BY <1>1, <1>2, <1>3, <1>4, <1>5, <1>6, <1>7, <1>8, <1>9 DEF IInv

-----------------------------------------------------------------------------
\* Steps that leave log, known and met alone.
LEMMA WorkKept ==
  ASSUME IInv, UNCHANGED replica
  PROVE  LogWellFormed' /\ EditsSurvive' /\ FirstThingsFirst' /\ OwnApplied'
  BY DEF replica, IInv, LogWellFormed, EditsSurvive, FirstThingsFirst, OwnApplied, Own, Past, Made

\* A connection begins; the session is subscribed and has loaded nothing.
LEMMA ConnectPreserves == ASSUME IInv, NEW r \in Replica, Connect(r) PROVE IInv'
<1> USE DEF Connect, replica, server
<1>1. TypeOK'
  BY DEF IInv, TypeOK
<1>2. LogWellFormed' /\ EditsSurvive' /\ FirstThingsFirst' /\ OwnApplied'
  BY WorkKept
<1>3. Durable' /\ StoredIsClosed' /\ SnapshotsAreClosed' /\ Carried'
  BY DEF IInv, Durable, StoredIsClosed, SnapshotsAreClosed, Carried, Past, Made
<1>4. HeldBackMeansResync'
  BY DEF IInv, TypeOK, HeldBackMeansResync, Doc, Applied, Past, Replica
<1>5. SnapshotCovers'
  BY DEF IInv, TypeOK, SnapshotCovers, Own
<1> QED BY <1>1, <1>2, <1>3, <1>4, <1>5 DEF IInv

\* The document read is on disk, so it is closed and covers what was learnt.
LEMMA LoadPreserves == ASSUME IInv, NEW r \in Replica, Load(r) PROVE IInv'
<1> USE DEF Load, replica, server
<1>1. TypeOK'
  BY DEF IInv, TypeOK
<1>2. LogWellFormed' /\ EditsSurvive' /\ FirstThingsFirst' /\ OwnApplied'
  BY WorkKept
<1>3. Durable' /\ StoredIsClosed' /\ Carried'
  BY DEF IInv, Durable, StoredIsClosed, Carried, Past, Made
<1>4. SnapshotsAreClosed'
  BY DEF IInv, TypeOK, StoredIsClosed, SnapshotsAreClosed, Past
<1>5. HeldBackMeansResync'
  BY DEF IInv, HeldBackMeansResync, Doc, Applied, Past
<1>6. SnapshotCovers'
  BY DEF IInv, TypeOK, Durable, SnapshotCovers, Own
<1> QED BY <1>1, <1>2, <1>3, <1>4, <1>5, <1>6 DEF IInv

\* A connection ends: what was on its way to the replica is gone.
LEMMA DisconnectedPreserves ==
  ASSUME IInv, NEW r \in Replica, Disconnected(r),
         UNCHANGED <<replica, server, lagged>>,
         failures' \in Nat,
         resync' = resync \/ resync' = [resync EXCEPT ![r] = FALSE],
         up' \in [Replica \X Slot -> Seq(Made)]
  PROVE  IInv'
<1> USE DEF Disconnected, replica, server
<1>1. TypeOK'
  <2>1. up' \in [Replica \X Slot -> Seq(Change)]
    <3>1. Made \subseteq Change
      BY DEF IInv, TypeOK, Made, Change
    <3> QED BY <3>1, SeqGrows
  <2>2. /\ link' \in [Replica -> {"down", "await", "open"}]
        /\ session' \in [Replica -> {"none", "joined", "loaded"}]
        /\ snapshot' \in [Replica -> SUBSET Change]
        /\ slot' \in [Replica -> Slot]
    BY DEF IInv, TypeOK, Slot
  <2>3. down' \in [Replica -> Seq(Change)]
    BY DEF IInv, TypeOK
  <2>4. resync' \in [Replica -> BOOLEAN]
    BY DEF IInv, TypeOK
  <2> QED BY <2>1, <2>2, <2>3, <2>4 DEF IInv, TypeOK
<1>2. LogWellFormed' /\ EditsSurvive' /\ FirstThingsFirst' /\ OwnApplied'
  BY WorkKept
<1>3. Durable' /\ StoredIsClosed'
  BY DEF IInv, Durable, StoredIsClosed, Past
<1>4. SnapshotsAreClosed'
  BY DEF IInv, TypeOK, SnapshotsAreClosed, Past
<1>5. Carried'
  <2>1. Made' = Made
    BY DEF Made
  <2>2. down' \in [Replica -> Seq(stored)]
    BY DEF IInv, Carried
  <2> QED BY <2>1, <2>2 DEF IInv, Carried
<1>6. HeldBackMeansResync'
  <2> SUFFICES ASSUME NEW q \in Tab, link'[q] = "open", Doc(q) # known[q]
               PROVE  resync'[q]
    BY DEF HeldBackMeansResync, Doc, Applied, Past
  <2>1. q # r /\ link[q] = "open"
    BY DEF IInv, TypeOK, Replica
  <2>2. resync[q]
    BY <2>1 DEF IInv, HeldBackMeansResync
  <2> QED BY <2>1, <2>2 DEF IInv, TypeOK, Replica
<1>7. SnapshotCovers'
  BY DEF IInv, TypeOK, SnapshotCovers, Own
<1> QED BY <1>1, <1>2, <1>3, <1>4, <1>5, <1>6, <1>7 DEF IInv

\* The resync timer ends the connection, so that nothing is held back on it.
LEMMA ResyncPreserves == ASSUME IInv, NEW r \in Replica, Resync(r) PROVE IInv'
<1>1. CASE link[r] # "down"
  <2>1. failures' \in Nat /\ up' \in [Replica \X Slot -> Seq(Made)]
    BY DEF Resync, IInv, TypeOK, Carried
  <2> QED BY <1>1, <2>1, DisconnectedPreserves DEF Resync
<1>2. CASE link[r] = "down"
  <2> USE DEF Resync, replica, server
  <2>1. TypeOK'
    BY <1>2 DEF IInv, TypeOK
  <2>2. LogWellFormed' /\ EditsSurvive' /\ FirstThingsFirst' /\ OwnApplied'
    BY WorkKept
  <2>3. Durable' /\ StoredIsClosed' /\ SnapshotsAreClosed' /\ Carried' /\ SnapshotCovers'
    BY <1>2 DEF IInv, Durable, StoredIsClosed, SnapshotsAreClosed, Carried, SnapshotCovers,
                Own, Past, Made
  <2>4. HeldBackMeansResync'
    BY <1>2 DEF IInv, TypeOK, HeldBackMeansResync, Doc, Applied, Past, Replica
  <2> QED BY <2>1, <2>2, <2>3, <2>4 DEF IInv
<1> QED BY <1>1, <1>2

\* The connection breaks, and part of what was sent is handled late.
LEMMA DropPreserves == ASSUME IInv, NEW r \in Replica, Drop(r) PROVE IInv'
<1>1. Here(r) \in Replica \X Slot
  BY DEF IInv, TypeOK, Here
<1>2. PICK n \in 0 .. Len(up[Here(r)]) : up' = [up EXCEPT ![Here(r)] = SubSeq(@, 1, n)]
  BY DEF Drop
<1>3. SubSeq(up[Here(r)], 1, n) \in Seq(Made)
  BY <1>1 DEF IInv, Carried
<1>4. up' \in [Replica \X Slot -> Seq(Made)]
  BY <1>1, <1>2, <1>3 DEF IInv, Carried
<1>5. failures' \in Nat
  BY DEF Drop, IInv, TypeOK
<1> QED BY <1>4, <1>5, DisconnectedPreserves DEF Drop

\* What is pushed are changes that were made.
LEMMA OrderedType ==
  ASSUME NEW S \in SUBSET Made, Len(log) \in Nat, NEW q \in InOrder(S)
  PROVE  q \in Seq(Made)
<1>1. IsFiniteSet(S)
  <2>1. IsFiniteSet(1 .. Len(log))
    BY FS_Interval
  <2> QED BY <2>1, FS_Subset DEF Made
<1>2. Cardinality(S) \in Nat
  BY <1>1, FS_CardinalityType
<1>3. q \in [1 .. Cardinality(S) -> S]
  BY DEF InOrder
<1> QED BY <1>2, <1>3

\* The snapshot is adopted or merged, the rest pushed.  Whatever was held back is
\* in the snapshot with its past, and the replica's own work stays.
LEMMA DocumentArrivesPreserves ==
  ASSUME IInv, NEW r \in Replica, DocumentArrives(r) PROVE IInv'
<1> DEFINE merged == IF Adopts(r) THEN snapshot[r] ELSE known[r] \cup snapshot[r]
<1>0. Len(log) \in Nat
  BY DEF IInv, TypeOK
<1>1. /\ known' = [known EXCEPT ![r] = merged]
      /\ link' = [link EXCEPT ![r] = "open"]
      /\ snapshot' = [snapshot EXCEPT ![r] = {}]
      /\ met' = [met EXCEPT ![r] = TRUE]
      /\ link[r] = "await" /\ session[r] = "loaded"
      /\ UNCHANGED <<log, stored, unsent, slot, session, down, lagged, failures>>
  BY DEF DocumentArrives, server
<1>2. snapshot[r] \subseteq stored /\ stored \subseteq Made /\ known[r] \subseteq Made
  BY DEF IInv, SnapshotsAreClosed, Carried, LogWellFormed
<1>3. Own(r) \subseteq merged
  <2>1. CASE Adopts(r) /\ r \in Engine
    BY <1>2, <2>1 DEF IInv, FirstThingsFirst, Own, Adopts
  <2>2. CASE Adopts(r) /\ r \notin Engine
    BY <2>2 DEF Adopts, Own
  <2>3. CASE ~Adopts(r)
    BY <2>3 DEF Own
  <2> QED BY <2>1, <2>2, <2>3
<1>4. merged \subseteq snapshot[r] \cup Own(r)
  BY <1>1 DEF IInv, SnapshotCovers
<1>5. snapshot[r] \subseteq merged /\ merged \subseteq Made
  BY <1>2
<1> HIDE DEF merged
<1>6. \A x \in merged : Past(x) \subseteq merged
  <2>1. \A x \in snapshot[r] : Past(x) \subseteq merged
    BY <1>5 DEF IInv, SnapshotsAreClosed
  <2>2. CASE Own(r) = {}
    BY <1>4, <2>1, <2>2
  <2>3. CASE Own(r) # {}
    <3>1. ~Adopts(r)
      BY <1>2, <2>3 DEF IInv, FirstThingsFirst, Own, Adopts
    <3>2. known[r] \subseteq merged
      BY <3>1 DEF merged
    <3>3. \A x \in Own(r) : Past(x) \subseteq merged
      BY <3>2 DEF IInv, OwnApplied
    <3> QED BY <1>4, <2>1, <3>3
  <2> QED BY <2>2, <2>3
<1>7. TypeOK'
  <2>1. known' \in [Replica -> SUBSET Change] /\ snapshot' \in [Replica -> SUBSET Change]
    <3>1. Made \subseteq Change
      BY DEF IInv, TypeOK, Made, Change
    <3> QED BY <1>1, <1>5, <3>1 DEF IInv, TypeOK
  <2>2. up' \in [Replica \X Slot -> Seq(Change)] /\ outbox' \in [Replica -> Seq(Change)]
    <3>1. PICK pushed \in InOrder(Pushes(r)) :
             up' = [up EXCEPT ![Here(r)] = @ \o pushed \o outbox[r]]
      BY DEF DocumentArrives
    <3>2. Pushes(r) \in SUBSET Made
      BY <1>2 DEF Pushes, Applied
    <3>a. Made \subseteq Change
      BY DEF IInv, TypeOK, Made, Change
    <3>3. pushed \in Seq(Made) /\ Made \subseteq Change
      BY <1>0, <3>1, <3>2, <3>a, OrderedType
    <3>4. pushed \in Seq(Change) /\ outbox[r] \in Seq(Change) /\ Here(r) \in Replica \X Slot
      BY <3>3, SeqGrows DEF IInv, TypeOK, Here
    <3>5. up[Here(r)] \o pushed \o outbox[r] \in Seq(Change)
      BY <3>4 DEF IInv, TypeOK
    <3>6. outbox' = [outbox EXCEPT ![r] = <<>>]
      BY DEF DocumentArrives
    <3> QED BY <3>1, <3>4, <3>5, <3>6 DEF IInv, TypeOK
  <2>3. met' \in [Replica -> BOOLEAN] /\ link' \in [Replica -> {"down", "await", "open"}]
    BY <1>1 DEF IInv, TypeOK
  <2>4. Cycles(r) \in 0 .. 2
    BY DEF IInv, TypeOK, Cycles
  <2>5. cycles' \in [Replica -> 0 .. 2]
    BY <2>4 DEF DocumentArrives, IInv, TypeOK
  <2>6. resync' \in [Replica -> BOOLEAN]
    <3>1. resync' = [resync EXCEPT
                       ![r] = resync[r] \/ (~Adopts(r) /\ r \in Tab /\ Cycles(r) > 0)]
      BY DEF DocumentArrives
    <3> QED BY <3>1 DEF IInv, TypeOK
  <2> QED BY <1>1, <2>1, <2>2, <2>3, <2>5, <2>6 DEF IInv, TypeOK
<1>8. Durable' /\ StoredIsClosed'
  BY <1>1, <1>2, <1>4 DEF IInv, Durable, StoredIsClosed, Past, Own
<1>9. EditsSurvive'
  <2> SUFFICES ASSUME NEW x \in Made PROVE x \in known'[log[x].by]
    BY <1>1 DEF EditsSurvive, Made
  <2>1. x \in known[log[x].by]
    BY DEF IInv, EditsSurvive
  <2>2. CASE log[x].by = r
    BY <1>1, <1>3, <2>1, <2>2 DEF Own, IInv, TypeOK
  <2>3. CASE log[x].by # r
    BY <1>1, <2>1, <2>3 DEF IInv, TypeOK
  <2> QED BY <2>2, <2>3
<1>10. LogWellFormed'
  BY <1>1, <1>5 DEF IInv, LogWellFormed, Past, Made
<1>11. Carried'
  <2>1. Made' = Made
    BY <1>1 DEF Made
  <2>2. PICK pushed \in InOrder(Pushes(r)) :
           up' = [up EXCEPT ![Here(r)] = @ \o pushed \o outbox[r]]
    BY DEF DocumentArrives
  <2>3. Pushes(r) \in SUBSET Made
    BY <1>2 DEF Pushes, Applied
  <2>4. pushed \in Seq(Made) /\ outbox[r] \in Seq(Made) /\ Here(r) \in Replica \X Slot
    BY <1>0, <2>2, <2>3, OrderedType DEF IInv, TypeOK, Carried, Here
  <2>5. up[Here(r)] \o pushed \o outbox[r] \in Seq(Made)
    BY <2>4 DEF IInv, Carried
  <2>6. outbox' = [outbox EXCEPT ![r] = <<>>]
    BY DEF DocumentArrives
  <2> QED BY <1>1, <2>1, <2>2, <2>4, <2>5, <2>6 DEF IInv, Carried
<1>12. SnapshotsAreClosed'
  BY <1>1 DEF IInv, TypeOK, SnapshotsAreClosed, Past
<1>13. SnapshotCovers'
  BY <1>1 DEF IInv, TypeOK, SnapshotCovers, Own
<1>14. FirstThingsFirst'
  BY <1>1 DEF IInv, TypeOK, FirstThingsFirst, Made, Replica
<1>15. OwnApplied'
  <2> SUFFICES ASSUME NEW q \in Replica, NEW x \in known'[q], log[x].by = q
               PROVE  Past(x) \subseteq known'[q]
    BY <1>1 DEF OwnApplied, Own, Past
  <2>1. CASE q = r
    BY <1>1, <1>6, <2>1 DEF IInv, TypeOK
  <2>2. CASE q # r
    BY <1>1, <2>2 DEF IInv, TypeOK, OwnApplied, Own
  <2> QED BY <2>1, <2>2
<1>16. HeldBackMeansResync'
  <2> SUFFICES ASSUME NEW q \in Tab, link'[q] = "open", Doc(q)' # known'[q]
               PROVE  resync'[q]
    BY DEF HeldBackMeansResync
  <2>1. q # r
    <3>1. known'[r] = merged
      BY <1>1 DEF IInv, TypeOK
    <3>2. \A x \in known'[r] : Past(x)' \subseteq known'[r]
      BY <1>1, <1>6, <3>1 DEF Past
    <3>3. Doc(r)' = known'[r]
      BY <3>2 DEF Doc, Applied
    <3> QED BY <3>3
  <2>2. q \in Replica /\ known'[q] = known[q] /\ link[q] = "open" /\ resync'[q] = resync[q]
    BY <1>1, <2>1 DEF IInv, TypeOK, Replica, DocumentArrives
  <2>3. Doc(q)' = Doc(q)
    BY <1>1, <2>2 DEF Doc, Applied, Past
  <2> QED BY <2>2, <2>3 DEF IInv, HeldBackMeansResync
<1> QED
  BY <1>7, <1>8, <1>9, <1>10, <1>11, <1>12, <1>13, <1>14, <1>15, <1>16 DEF IInv

-----------------------------------------------------------------------------
\* The server stores a change whose past is stored, and drops another.
LEMMA ReceivePreserves ==
  ASSUME IInv, NEW r \in Replica, NEW k \in Slot, Receive(r, k) PROVE IInv'
<1> DEFINE x0 == Head(up[<<r, k>>])
<1> USE DEF replica
<1>1. /\ x0 \in Made /\ Tail(up[<<r, k>>]) \in Seq(Made) /\ <<r, k>> \in Replica \X Slot
  BY DEF Receive, IInv, Carried
<1> HIDE DEF x0
<1>2. /\ stored' = (IF Storable(x0) THEN stored \cup {x0} ELSE stored)
      /\ unsent' = (IF Storable(x0) THEN [unsent EXCEPT ![<<r, k>>] = {x0}] ELSE unsent)
      /\ up' = [up EXCEPT ![<<r, k>>] = Tail(up[<<r, k>>])]
      /\ UNCHANGED <<replica, link, resync, slot, session, snapshot, down, lagged, failures>>
  BY DEF Receive, Broadcasts, x0
<1>3. stored \subseteq stored' /\ stored' \subseteq Made
  BY <1>1, <1>2 DEF IInv, Carried
<1>4. LogWellFormed' /\ EditsSurvive' /\ FirstThingsFirst' /\ OwnApplied'
  BY <1>2, WorkKept
<1>5. Carried'
  <2>1. Made' = Made
    BY <1>2 DEF Made
  <2>2. up' \in [Replica \X Slot -> Seq(Made)]
    BY <1>1, <1>2 DEF IInv, Carried
  <2>3. down' \in [Replica -> Seq(stored')]
    BY <1>2, <1>3, SeqGrows DEF IInv, Carried
  <2>4. unsent' \in [Replica \X Slot -> SUBSET stored']
    BY <1>1, <1>2, <1>3 DEF IInv, Carried
  <2> QED BY <1>2, <1>3, <2>1, <2>2, <2>3, <2>4 DEF IInv, Carried
<1>6. TypeOK'
  <2>1. Made \subseteq Change
    BY DEF IInv, TypeOK, Made, Change
  <2>2. up' \in [Replica \X Slot -> Seq(Change)]
    <3>1. Tail(up[<<r, k>>]) \in Seq(Change)
      BY <1>1, <2>1, SeqGrows
    <3> QED BY <1>1, <1>2, <3>1 DEF IInv, TypeOK
  <2>3. unsent' \in [Replica \X Slot -> SUBSET Change]
    BY <1>1, <1>2, <2>1 DEF IInv, TypeOK
  <2>4. stored' \subseteq Change
    BY <1>3, <2>1
  <2> QED BY <1>2, <2>2, <2>3, <2>4 DEF IInv, TypeOK
<1>7. Durable' /\ SnapshotsAreClosed'
  BY <1>2, <1>3 DEF IInv, Durable, SnapshotsAreClosed, Past
<1>8. StoredIsClosed'
  BY <1>2, <1>3 DEF IInv, StoredIsClosed, Storable, Past
<1>9. SnapshotCovers' /\ HeldBackMeansResync'
  BY <1>2 DEF IInv, SnapshotCovers, HeldBackMeansResync, Own, Doc, Applied, Past
<1> QED BY <1>4, <1>5, <1>6, <1>7, <1>8, <1>9 DEF IInv

\* A full channel forgets a message; the others are kept.
LEMMA PushType ==
  ASSUME NEW S, NEW x \in S, NEW q \in Seq(S)
  PROVE  Push(q, x) \in Seq(S)
<1>1. CASE Len(q) = Capacity
  <2>1. Tail(q) \in Seq(S)
    BY <1>1
  <2> QED BY <1>1, <2>1 DEF Push
<1>2. CASE Len(q) # Capacity
  BY <1>2 DEF Push
<1> QED BY <1>1, <1>2

\* What is broadcast is stored.
LEMMA BroadcastPreserves ==
  ASSUME IInv, NEW r \in Replica, NEW k \in Slot, Broadcast(r, k) PROVE IInv'
<1>1. PICK x0 \in unsent[<<r, k>>] :
         down' = [q \in Replica |-> IF Subscribed(q) THEN Push(down[q], x0) ELSE down[q]]
  BY DEF Broadcast
<1>2. x0 \in stored /\ <<r, k>> \in Replica \X Slot
  BY DEF IInv, Carried
<1>3. \A q \in Replica : Push(down[q], x0) \in Seq(stored)
  BY <1>2, PushType DEF IInv, Carried
<1>4. down' \in [Replica -> Seq(stored)]
  BY <1>1, <1>3 DEF IInv, Carried
<1>5. unsent' = [unsent EXCEPT ![<<r, k>>] = {}] /\ lagged' \in BOOLEAN
      /\ UNCHANGED <<replica, stored, link, resync, slot, session, snapshot, up, failures>>
  <2>1. CASE lagged \/ (\E q \in Replica : Subscribed(q) /\ Len(down[q]) = Capacity)
    BY <2>1 DEF Broadcast
  <2>2. CASE ~(lagged \/ (\E q \in Replica : Subscribed(q) /\ Len(down[q]) = Capacity))
    BY <2>2 DEF Broadcast
  <2> QED BY <2>1, <2>2
<1> USE DEF replica
<1>6. LogWellFormed' /\ EditsSurvive' /\ FirstThingsFirst' /\ OwnApplied'
  BY <1>5, WorkKept
<1>7. Carried'
  BY <1>2, <1>4, <1>5 DEF IInv, Carried, Made
<1>8. TypeOK'
  <2>1. stored \subseteq Change
    BY DEF IInv, TypeOK
  <2>2. down' \in [Replica -> Seq(Change)]
    BY <1>4, <2>1, SeqGrows
  <2>3. unsent' \in [Replica \X Slot -> SUBSET Change]
    BY <1>2, <1>5 DEF IInv, TypeOK
  <2> QED BY <1>5, <2>2, <2>3 DEF IInv, TypeOK
<1>9. Durable' /\ SnapshotsAreClosed' /\ StoredIsClosed'
  BY <1>5 DEF IInv, Durable, SnapshotsAreClosed, StoredIsClosed, Past
<1>10. SnapshotCovers' /\ HeldBackMeansResync'
  BY <1>5 DEF IInv, SnapshotCovers, HeldBackMeansResync, Own, Doc, Applied, Past
<1> QED BY <1>6, <1>7, <1>8, <1>9, <1>10 DEF IInv

-----------------------------------------------------------------------------
\* A set of numbers has a least one: there is no infinite descent.
LEMMA LeastExists ==
  ASSUME NEW T \in SUBSET Nat, T # {}
  PROVE  \E x \in T : \A y \in T : x <= y
<1>1. PICK x \in T : \A y \in T : ~(<<y, x>> \in OpToRel(<, Nat))
  BY NatLessThanWellFounded, WFMin
<1>2. \A y \in T : ~(y < x)
  BY <1>1 DEF OpToRel
<1> QED BY <1>2

\* A bounded set of numbers has a greatest one.
LEMMA GreatestExists ==
  ASSUME NEW n \in Nat, NEW S \in SUBSET (1 .. n), S # {}
  PROVE  \E x \in S : \A y \in S : y <= x
<1> DEFINE T == {n - x : x \in S}
<1>1. T \in SUBSET Nat /\ T # {}
  <2>1. \A x \in S : n - x \in Nat
    OBVIOUS
  <2>2. PICK x \in S : TRUE
    OBVIOUS
  <2>3. n - x \in T
    OBVIOUS
  <2> QED BY <2>1, <2>3
<1>2. PICK m \in T : \A y \in T : m <= y
  BY <1>1, LeastExists
<1>3. PICK x \in S : m = n - x
  OBVIOUS
<1>4. \A y \in S : n - x <= n - y
  BY <1>2, <1>3
<1>5. \A y \in S : y <= x
  BY <1>4
<1> QED BY <1>5

\* What is missing of a document: dependencies that are not there.
LEMMA MissingIs ==
  ASSUME NEW S, NEW y
  PROVE  y \in Missing(S) <=> y \notin S /\ \E z \in S : y \in Deps(z)
  BY Zenon DEF Missing

\* In a document that holds nothing back, a change whose past is not there adds
\* a missing dependency: applyChange fails.
LEMMA MissingIsNoticed ==
  ASSUME IInv, NEW r \in Replica, Doc(r) = known[r],
         NEW x \in Made, ~(Past(x) \subseteq known[r])
  PROVE  Fails(r, x)
<1>0. Len(log) \in Nat /\ Made = 1 .. Len(log) /\ known[r] \subseteq Made
  BY SMTT(20) DEF IInv, TypeOK, Made, LogWellFormed
<1>1. \A y \in known[r] : Past(y) \subseteq known[r]
  BY DEF Doc, Applied
<1>2. \A y \in Made : Past(y) \subseteq 1 .. y - 1
  BY DEF IInv, LogWellFormed
<1>3. Missing(known[r]) = {}
  <2>1. \A y \in known[r] : Deps(y) \subseteq known[r]
    BY <1>1 DEF Deps
  <2> QED BY <2>1, MissingIs
<1> DEFINE lacking == Past(x) \ known[r]
<1>4. lacking \in SUBSET (1 .. Len(log)) /\ lacking # {}
  BY <1>0, <1>2
<1>5. PICK y \in lacking : \A z \in lacking : z <= y
  BY <1>0, <1>4, GreatestExists
<1>6. y \in Past(x) /\ y \notin known[r] /\ y \in Nat /\ y < x
  BY <1>0, <1>2, <1>5
<1>7. \A z \in Past(x) : y \notin Past(z)
  <2> SUFFICES ASSUME NEW z \in Past(x), y \in Past(z) PROVE FALSE
    OBVIOUS
  <2>1. z \in Made /\ y < z /\ z \in Nat
    BY <1>0, <1>2
  <2>2. z \in known[r]
    BY <1>5, <1>6, <2>1
  <2> QED BY <1>1, <1>6, <2>2
<1>8. y \in Missing(known[r] \cup {x})
  <2>1. y \in Deps(x)
    BY <1>6, <1>7 DEF Deps
  <2>2. y \notin known[r] \cup {x}
    BY <1>0, <1>6
  <2> QED BY <2>1, <2>2, MissingIs
<1>9. IsFiniteSet(Missing(known[r] \cup {x}))
  <2>1. Missing(known[r] \cup {x}) \in SUBSET (1 .. Len(log))
    <3>1. \A z \in known[r] \cup {x} : Deps(z) \subseteq 1 .. Len(log)
      BY <1>0, <1>2 DEF Deps
    <3> QED BY <3>1, MissingIs
  <2>2. IsFiniteSet(1 .. Len(log))
    BY <1>0, FS_Interval
  <2> QED BY <2>1, <2>2, FS_Subset
<1>10. Cardinality(Missing(known[r] \cup {x})) \in Nat \ {0}
  BY <1>8, <1>9, FS_CardinalityType, FS_EmptySet
<1>11. Cardinality(Missing(known[r])) = 0
  BY <1>3, FS_EmptySet
<1> QED BY <1>10, <1>11 DEF Fails

\* A broadcast change is applied, or held back and a resync asked for.
LEMMA ChangeArrivesPreserves ==
  ASSUME IInv, NEW r \in Replica, ChangeArrives(r) PROVE IInv'
<1> DEFINE x0 == Head(down[r])
<1>1. x0 \in stored /\ Tail(down[r]) \in Seq(stored)
  BY DEF ChangeArrives, IInv, Carried
<1> HIDE DEF x0
<1>2. /\ known' = [known EXCEPT ![r] = known[r] \cup {x0}]
      /\ resync' = [resync EXCEPT ![r] = resync[r] \/ (r \in Tab /\ Fails(r, x0))]
      /\ down' = [down EXCEPT ![r] = Tail(down[r])]
      /\ link[r] = "open"
      /\ UNCHANGED <<log, met, outbox, cycles, server, link, slot, session, snapshot, up,
                     lagged, failures>>
  BY DEF ChangeArrives, x0
<1> USE DEF server
<1>3. x0 \in Made /\ stored \subseteq Change /\ Made' = Made
  BY <1>1, <1>2 DEF IInv, Carried, TypeOK, Made
<1>4. TypeOK'
  <2>1. known' \in [Replica -> SUBSET Change]
    BY <1>1, <1>2, <1>3 DEF IInv, TypeOK
  <2>2. down' \in [Replica -> Seq(Change)]
    <3>1. Tail(down[r]) \in Seq(Change)
      BY <1>1, <1>3, SeqGrows
    <3> QED BY <1>2, <3>1 DEF IInv, TypeOK
  <2>3. resync' \in [Replica -> BOOLEAN]
    BY <1>2 DEF IInv, TypeOK
  <2> QED BY <1>2, <2>1, <2>2, <2>3 DEF IInv, TypeOK
<1>5. Durable' /\ StoredIsClosed' /\ SnapshotsAreClosed'
  BY <1>1, <1>2 DEF IInv, TypeOK, Durable, StoredIsClosed, SnapshotsAreClosed, Past
<1>6. EditsSurvive'
  <2>1. \A q \in Replica : known[q] \subseteq known'[q]
    BY <1>2 DEF IInv, TypeOK
  <2>2. \A x \in Made : log[x].by \in Replica
    <3>1. log \in Seq([by : Replica, past : SUBSET Change])
      BY DEF IInv, TypeOK
    <3>2. \A x \in Made : log[x] \in [by : Replica, past : SUBSET Change]
      BY <3>1, SeqElements DEF Made
    <3> QED BY <3>2
  <2> QED BY <1>2, <1>3, <2>1, <2>2 DEF IInv, EditsSurvive
<1>7. LogWellFormed'
  BY <1>2, <1>3 DEF IInv, LogWellFormed, Past
<1>8. Carried'
  BY <1>1, <1>2, <1>3 DEF IInv, Carried
<1>9. SnapshotCovers'
  BY <1>2 DEF IInv, TypeOK, SnapshotCovers, Own
<1>10. FirstThingsFirst'
  BY <1>2, <1>3 DEF IInv, FirstThingsFirst
<1>11. OwnApplied'
  <2>1. \A q \in Replica : known[q] \subseteq known'[q]
    BY <1>2 DEF IInv, TypeOK
  <2>2. \A q \in Replica : \A x \in known'[q] : log[x].by = q => x \in known[q]
    BY <1>2, <1>3 DEF IInv, TypeOK, EditsSurvive
  <2> QED BY <1>2, <2>1, <2>2 DEF IInv, OwnApplied, Own, Past
<1>12. HeldBackMeansResync'
  <2> SUFFICES ASSUME NEW q \in Tab, link[q] = "open", Doc(q)' # known'[q]
               PROVE  resync'[q]
    BY <1>2 DEF HeldBackMeansResync
  <2>0. q \in Replica
    BY DEF Replica
  <2>1. CASE q # r
    <3>1. known'[q] = known[q] /\ resync'[q] = resync[q] /\ Doc(q)' = Doc(q)
      BY <1>2, <2>0, <2>1 DEF IInv, TypeOK, Doc, Applied, Past
    <3> QED BY <3>1 DEF IInv, HeldBackMeansResync
  <2>2. CASE q = r
    <3>1. known'[r] = known[r] \cup {x0} /\ resync'[r] = (resync[r] \/ Fails(r, x0))
      BY <1>2, <2>2 DEF IInv, TypeOK
    <3>2. CASE Doc(r) # known[r]
      BY <2>2, <3>1, <3>2 DEF IInv, HeldBackMeansResync
    <3>3. CASE Doc(r) = known[r]
      <4>1. ~(Past(x0) \subseteq known[r])
        <5> SUFFICES ASSUME Past(x0) \subseteq known[r] PROVE FALSE
          OBVIOUS
        <5>1. \A x \in known'[r] : Past(x) \subseteq known'[r]
          BY <3>1, <3>3 DEF Doc, Applied
        <5>2. Doc(r)' = known'[r]
          BY <1>2, <5>1 DEF Doc, Applied, Past
        <5> QED BY <2>2, <5>2
      <4>2. Fails(r, x0)
        BY <1>3, <3>3, <4>1, MissingIsNoticed
      <4> QED BY <2>2, <3>1, <4>2
    <3> QED BY <3>2, <3>3
  <2> QED BY <2>1, <2>2
<1> QED BY <1>4, <1>5, <1>6, <1>7, <1>8, <1>9, <1>10, <1>11, <1>12 DEF IInv

\* A session that ended forgets what it had to do; what it stored stays stored.
LEMMA AbandonPreserves ==
  ASSUME IInv, NEW r \in Replica, NEW k \in Slot, Abandon(r, k) PROVE IInv'
<1> USE DEF replica
<1>1. /\ up' = [up EXCEPT ![<<r, k>>] = <<>>]
      /\ unsent' = [unsent EXCEPT ![<<r, k>>] = {}]
      /\ failures' = failures + 1
      /\ UNCHANGED <<replica, stored, link, resync, slot, session, snapshot, down, lagged>>
      /\ <<r, k>> \in Replica \X Slot
  BY DEF Abandon
<1>2. TypeOK'
  <2>1. up' \in [Replica \X Slot -> Seq(Change)]
    BY <1>1 DEF IInv, TypeOK
  <2>2. unsent' \in [Replica \X Slot -> SUBSET Change] /\ failures' \in Nat
    BY <1>1 DEF IInv, TypeOK
  <2> QED BY <1>1, <2>1, <2>2 DEF IInv, TypeOK
<1>3. LogWellFormed' /\ EditsSurvive' /\ FirstThingsFirst' /\ OwnApplied'
  BY <1>1, WorkKept
<1>4. Carried'
  <2>1. up' \in [Replica \X Slot -> Seq(Made)]
    BY <1>1 DEF IInv, Carried
  <2> QED BY <1>1, <2>1 DEF IInv, Carried, Made
<1>5. Durable' /\ SnapshotsAreClosed' /\ StoredIsClosed'
  BY <1>1 DEF IInv, Durable, SnapshotsAreClosed, StoredIsClosed, Past
<1>6. SnapshotCovers' /\ HeldBackMeansResync'
  BY <1>1 DEF IInv, SnapshotCovers, HeldBackMeansResync, Own, Doc, Applied, Past
<1> QED BY <1>2, <1>3, <1>4, <1>5, <1>6 DEF IInv

\* A crash takes every connection and spares the project file.
LEMMA CrashPreserves == ASSUME IInv, Crash PROVE IInv'
<1> USE DEF replica
<1>1. TypeOK'
  <2>1. \A S : <<>> \in Seq(S)
    OBVIOUS
  <2>2. up' \in [Replica \X Slot -> Seq(Change)] /\ down' \in [Replica -> Seq(Change)]
    BY <2>1 DEF Crash
  <2>3. /\ link' \in [Replica -> {"down", "await", "open"}]
        /\ session' \in [Replica -> {"none", "joined", "loaded"}]
        /\ snapshot' \in [Replica -> SUBSET Change]
        /\ unsent' \in [Replica \X Slot -> SUBSET Change]
        /\ slot' \in [Replica -> Slot] /\ failures' \in Nat
    BY DEF Crash, IInv, TypeOK, Slot
  <2>4. UNCHANGED <<replica, stored, resync, lagged>>
    BY DEF Crash
  <2> QED BY <2>2, <2>3, <2>4 DEF IInv, TypeOK
<1>2. LogWellFormed' /\ EditsSurvive' /\ FirstThingsFirst' /\ OwnApplied'
  BY WorkKept DEF Crash
<1>3. Carried'
  <2>1. \A S : <<>> \in Seq(S)
    OBVIOUS
  <2>2. up' \in [Replica \X Slot -> Seq(Made)] /\ down' \in [Replica -> Seq(stored)]
    BY <2>1 DEF Crash
  <2> QED BY <2>2 DEF Crash, IInv, Carried, Made
<1>4. Durable' /\ StoredIsClosed' /\ SnapshotsAreClosed'
  BY DEF Crash, IInv, Durable, SnapshotsAreClosed, StoredIsClosed, Past
<1>5. SnapshotCovers' /\ HeldBackMeansResync'
  BY DEF Crash, SnapshotCovers, HeldBackMeansResync, Replica
<1> QED BY <1>1, <1>2, <1>3, <1>4, <1>5 DEF IInv

\* Every step of the replicas, the network and the server keeps the invariant.
LEMMA NextPreserves == ASSUME IInv, [Next]_vars PROVE IInv'
<1>1. CASE UNCHANGED vars
  <2> USE <1>1 DEF vars, replica, server, wire
  <2>1. TypeOK' /\ Durable' /\ Carried'
    BY DEF IInv, TypeOK, Durable, Carried, Made
  <2>2. LogWellFormed' /\ EditsSurvive' /\ FirstThingsFirst' /\ OwnApplied'
    BY WorkKept
  <2>3. StoredIsClosed' /\ SnapshotsAreClosed' /\ SnapshotCovers' /\ HeldBackMeansResync'
    BY DEF IInv, StoredIsClosed, SnapshotsAreClosed, SnapshotCovers, HeldBackMeansResync,
           Own, Doc, Applied, Past
  <2> QED BY <2>1, <2>2, <2>3 DEF IInv
<1> QED
  BY <1>1, MakePreserves, ConnectPreserves, LoadPreserves, DocumentArrivesPreserves,
     ReceivePreserves, BroadcastPreserves, ChangeArrivesPreserves, ResyncPreserves,
     DropPreserves, AbandonPreserves, CrashPreserves DEF Next, Handle, Serve

-----------------------------------------------------------------------------
\* Documents, queues, wires and disk agree in every reachable state (wiring.ts,
\* server_client.ts, websocket.rs).
THEOREM InvariantHolds == Spec => []IInv
  BY InitEstablishes, NextPreserves, PTL DEF Spec

\* What a replica learnt from others is on the server's disk, with its past
\* (websocket.rs: "Persist FIRST"; file_store.rs, A4-1).
THEOREM DurabilityHolds == Spec => []DurableAndClosed
<1>1. IInv => DurableAndClosed
  BY DEF IInv, DurableAndClosed, OthersAreDurable, Durable
<1> QED BY <1>1, InvariantHolds, PTL

\* A replica keeps its own work through first contact and every reconnection
\* (wiring.ts: "MERGE, never replace").
THEOREM EditsHold == Spec => []EditsSurvive
<1>1. IInv => EditsSurvive
  BY DEF IInv
<1> QED BY <1>1, InvariantHolds, PTL

\* Missing dependencies are never a silent state in a connected tab (project.ts,
\* A4-2).
THEOREM HeldBackIsNoticed == Spec => []HeldBackMeansResync
<1>1. IInv => HeldBackMeansResync
  BY DEF IInv
<1> QED BY <1>1, InvariantHolds, PTL
=============================================================================
