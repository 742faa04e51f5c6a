------------------------ MODULE GraphRetirement_proofs ------------------------
(***************************************************************************)
(* GraphRetirement for every set of graphs, plugins and readers: no thread *)
(* ever points at a freed graph, no reachable graph has a proxy node on an *)
(* unmapped ring, telemetry never reads an evicted handle.  All of it      *)
(* follows from IInv, which every action preserves; there is one lemma per *)
(* action (or per thread, when its actions disturb the same conjuncts) and *)
(* one step per conjunct of IInv.                                          *)
(***************************************************************************)
EXTENDS GraphRetirement, TLAPS

USE GraphRetirementAssumption
    DEF cbVars, swapVars, pluginVars, docVars, memVars

\* The initial state satisfies the inductive invariant.
LEMMA InitEstablishes == Init => IInv
<1> SUFFICES ASSUME Init PROVE IInv
  OBVIOUS
<1> USE DEF Init
<1>1. TypeOK
  BY DEF TypeOK, GraphOrNull, RetiredGraph
<1>2. GenerationMarksCallback /\ SwapProgress
  BY DEF GenerationMarksCallback, SwapProgress
<1>3. Ownership /\ CallbackGraphGuarded /\ ReadersHoldLiveGraphs
  BY DEF Ownership, InRetired, CallbackGraphGuarded, ReadersHoldLiveGraphs
<1>4. RingsOwned /\ TelemetryHandleAlive
  BY DEF RingsOwned, TelemetryHandleAlive
<1> QED BY <1>1, <1>2, <1>3, <1>4 DEF IInv

\* Entering, loading, leaving: the loaded pointer comes from the raw slot, and
\* the generation that entry published stands until the exit.
LEMMA CallbackPreserves == ASSUME IInv, Callback PROVE IInv'
<1> USE DEF IInv, TypeOK, Callback, CallbackEnter, CallbackLoad, CallbackExit
<1>1. TypeOK'
  BY DEF GraphOrNull, RetiredGraph
<1>2. GenerationMarksCallback' /\ SwapProgress'
  BY DEF GenerationMarksCallback, SwapProgress
<1>3. Ownership'
  BY DEF SwapProgress, Ownership, InRetired, GraphOrNull, RetiredGraph
<1>4. CallbackGraphGuarded'
  BY DEF SwapProgress, Ownership, InRetired, CallbackGraphGuarded,
     GenerationMarksCallback, GraphOrNull, RetiredGraph
<1>5. ReadersHoldLiveGraphs'
  BY DEF SwapProgress, Ownership, InRetired, ReadersHoldLiveGraphs,
     GraphOrNull, RetiredGraph
<1>6. RingsOwned' /\ TelemetryHandleAlive'
  BY DEF SwapProgress, Ownership, InRetired, RingsOwned, TelemetryHandleAlive,
     GraphOrNull, RetiredGraph
<1> QED BY <1>1, <1>2, <1>3, <1>4, <1>5, <1>6

\* A reader copies the slot, whose graph is allocated.
LEMMA ReaderPreserves == ASSUME IInv, NEW rd0 \in Reader,
  ReaderAcquire(rd0) \/ ReaderRelease(rd0) PROVE IInv'
<1> USE DEF IInv, TypeOK, ReaderAcquire, ReaderRelease
<1>1. TypeOK'
  BY DEF GraphOrNull, RetiredGraph
<1>2. GenerationMarksCallback' /\ SwapProgress'
  BY DEF GenerationMarksCallback, SwapProgress
<1>3. Ownership'
  BY DEF SwapProgress, Ownership, InRetired, GraphOrNull, RetiredGraph
<1>4. CallbackGraphGuarded'
  BY DEF SwapProgress, Ownership, InRetired, CallbackGraphGuarded,
     GenerationMarksCallback, GraphOrNull, RetiredGraph
<1>5. ReadersHoldLiveGraphs'
  BY DEF SwapProgress, Ownership, InRetired, ReadersHoldLiveGraphs,
     GraphOrNull, RetiredGraph
<1>6. RingsOwned' /\ TelemetryHandleAlive'
  BY DEF SwapProgress, Ownership, InRetired, RingsOwned, TelemetryHandleAlive,
     GraphOrNull, RetiredGraph
<1> QED BY <1>1, <1>2, <1>3, <1>4, <1>5, <1>6

\* The network thread touches the document only.
LEMMA NetworkPreserves == ASSUME IInv, Network PROVE IInv'
<1> USE DEF IInv, TypeOK, Network, ApplyChange, BumpVersion
<1>1. TypeOK'
  BY DEF GraphOrNull, RetiredGraph
<1>2. GenerationMarksCallback' /\ SwapProgress'
  BY DEF GenerationMarksCallback, SwapProgress
<1>3. Ownership'
  BY DEF SwapProgress, Ownership, InRetired, GraphOrNull, RetiredGraph
<1>4. CallbackGraphGuarded'
  BY DEF SwapProgress, Ownership, InRetired, CallbackGraphGuarded,
     GenerationMarksCallback, GraphOrNull, RetiredGraph
<1>5. ReadersHoldLiveGraphs'
  BY DEF SwapProgress, Ownership, InRetired, ReadersHoldLiveGraphs,
     GraphOrNull, RetiredGraph
<1>6. RingsOwned' /\ TelemetryHandleAlive'
  BY DEF SwapProgress, Ownership, InRetired, RingsOwned, TelemetryHandleAlive,
     GraphOrNull, RetiredGraph
<1> QED BY <1>1, <1>2, <1>3, <1>4, <1>5, <1>6

\* Steps of the loop that move no pointer.
LEMMA IdleLoopPreserves == ASSUME IInv,
  \/ BeginRebuild \/ NoRebuild \/ TakeSnapshot \/ PollTelemetry
  \/ SwitchProject \/ BeginShutdown
  PROVE IInv'
<1> USE DEF IInv, TypeOK, BeginRebuild, NoRebuild, TakeSnapshot,
         PollTelemetry, SwitchProject, BeginShutdown, Wirings
<1>1. TypeOK'
  BY DEF GraphOrNull, RetiredGraph
<1>2. GenerationMarksCallback' /\ SwapProgress'
  BY DEF GenerationMarksCallback, SwapProgress
<1>3. Ownership'
  BY DEF SwapProgress, Ownership, InRetired, GraphOrNull, RetiredGraph
<1>4. CallbackGraphGuarded'
  BY DEF SwapProgress, Ownership, InRetired, CallbackGraphGuarded,
     GenerationMarksCallback, GraphOrNull, RetiredGraph
<1>5. ReadersHoldLiveGraphs'
  BY DEF SwapProgress, Ownership, InRetired, ReadersHoldLiveGraphs,
     GraphOrNull, RetiredGraph
<1>6. RingsOwned' /\ TelemetryHandleAlive'
  BY DEF SwapProgress, Ownership, InRetired, RingsOwned, TelemetryHandleAlive,
     GraphOrNull, RetiredGraph
<1> QED BY <1>1, <1>2, <1>3, <1>4, <1>5, <1>6

\* The new graph is at a free address and its rings are in the registry.
LEMMA BuildPreserves == ASSUME IInv, BuildGraph PROVE IInv'
<1> USE DEF IInv, TypeOK, BuildGraph
<1>1. TypeOK'
  BY DEF GraphOrNull, RetiredGraph
<1>2. GenerationMarksCallback' /\ SwapProgress'
  BY DEF GenerationMarksCallback, SwapProgress
<1>3. Ownership'
  BY DEF SwapProgress, Ownership, InRetired, GraphOrNull, RetiredGraph
<1>4. CallbackGraphGuarded'
  BY DEF SwapProgress, Ownership, InRetired, CallbackGraphGuarded,
     GenerationMarksCallback, GraphOrNull, RetiredGraph
<1>5. ReadersHoldLiveGraphs'
  BY DEF SwapProgress, Ownership, InRetired, ReadersHoldLiveGraphs,
     GraphOrNull, RetiredGraph
<1>6. RingsOwned' /\ TelemetryHandleAlive'
  BY DEF SwapProgress, Ownership, InRetired, RingsOwned, TelemetryHandleAlive,
     GraphOrNull, RetiredGraph
<1> QED BY <1>1, <1>2, <1>3, <1>4, <1>5, <1>6

\* Between the two swaps a callback may load either graph; both are allocated.
LEMMA SwapPreserves == ASSUME IInv, SwapSlot \/ SwapRaw PROVE IInv'
<1> USE DEF IInv, TypeOK, SwapSlot, SwapRaw
<1>1. TypeOK'
  BY DEF GraphOrNull, RetiredGraph
<1>2. GenerationMarksCallback' /\ SwapProgress'
  BY DEF GenerationMarksCallback, SwapProgress
<1>3. Ownership'
  BY DEF SwapProgress, Ownership, InRetired, GraphOrNull, RetiredGraph
<1>4. CallbackGraphGuarded'
  BY DEF SwapProgress, Ownership, InRetired, CallbackGraphGuarded,
     GenerationMarksCallback, GraphOrNull, RetiredGraph
<1>5. ReadersHoldLiveGraphs'
  BY DEF SwapProgress, Ownership, InRetired, ReadersHoldLiveGraphs,
     GraphOrNull, RetiredGraph
<1>6. RingsOwned' /\ TelemetryHandleAlive'
  BY DEF SwapProgress, Ownership, InRetired, RingsOwned, TelemetryHandleAlive,
     GraphOrNull, RetiredGraph
<1> QED BY <1>1, <1>2, <1>3, <1>4, <1>5, <1>6

\* The swapped-out graph moves from old_sp to the queue with the generation
\* read after the raw swap: a callback still on it published that very value.
LEMMA RetirePreserves == ASSUME IInv, Retire PROVE IInv'
<1> USE DEF IInv, TypeOK, GraphOrNull, RetiredGraph, Retire
<1>1. old = current /\ new # NoGraph /\ new # current /\ new \in Graph
  BY DEF SwapProgress, Ownership
<1>2. GenerationMarksCallback' /\ SwapProgress'
  BY <1>1 DEF GenerationMarksCallback, SwapProgress
<1>3. RingsOwned' /\ TelemetryHandleAlive' /\ ReadersHoldLiveGraphs'
  BY <1>1 DEF RingsOwned, TelemetryHandleAlive, ReadersHoldLiveGraphs
<1>4. CASE current = NoGraph
  <2>1. retired' = retired
    BY <1>1, <1>4 DEF RetiredEntries
  <2>2. InRetired' = InRetired
    BY <2>1 DEF InRetired
  <2>3. TypeOK'
    BY <2>1, <1>1 DEF BuiltVersion
  <2>4. Ownership'
    BY <2>1, <2>2, <1>1, <1>4 DEF Ownership
  <2>5. CallbackGraphGuarded'
    BY <2>1, <1>1, <1>4 DEF CallbackGraphGuarded, SwapProgress
  <2> HIDE DEF TypeOK
  <2> QED BY <2>3, <2>4, <2>5, <1>2, <1>3
<1>5. CASE current # NoGraph
  <2> DEFINE e == [graph |-> current, gen |-> gen]
  <2>1. retired' = retired \cup {e} /\ e \in RetiredGraph
    BY <1>1, <1>5 DEF RetiredEntries
  <2>2. InRetired' = InRetired \cup {current}
    <3>1. \A g : g \in InRetired' <=> \E r \in retired \cup {e} : g = r.graph
      BY <2>1 DEF InRetired
    <3>2. \A g : g \in InRetired <=> \E r \in retired : g = r.graph
      BY DEF InRetired
    <3>3. e.graph = current
      OBVIOUS
    <3>4. \A g : g \in InRetired' <=> g \in InRetired \/ g = current
      BY <3>1, <3>2, <3>3
    <3> QED BY <3>4
  <2>3. current \notin InRetired /\ new \notin InRetired /\ NoGraph \notin InRetired
    BY DEF Ownership, InRetired
  <2>4. TypeOK'
    BY <2>1, <1>1 DEF BuiltVersion
  <2>5. Ownership'
    <3>1. \A r, s \in retired' : r.graph = s.graph => r = s
      BY <2>1, <2>3 DEF Ownership, InRetired
    <3>2. InRetired' \cap {current, new}' = {}
      BY <2>2, <2>3, <1>1, <1>5
    <3>3. alive' = ({current, new}' \cup InRetired') \ {NoGraph}
      BY <2>2, <1>1, <1>5 DEF Ownership
    <3> QED BY <3>1, <3>2, <3>3, <1>1 DEF Ownership
  <2>6. CallbackGraphGuarded'
    <3>1. CASE cbGraph = old
      <4>1. e \in retired' /\ e.graph = cbGraph' /\ e.gen = gen'
        BY <2>1, <3>1, <1>1
      <4> QED BY <4>1, <3>1 DEF CallbackGraphGuarded
    <3>2. CASE cbGraph # old
      BY <3>2, <2>1, <1>1 DEF CallbackGraphGuarded, SwapProgress
    <3> QED BY <3>1, <3>2
  <2> HIDE DEF TypeOK
  <2> QED BY <2>4, <2>5, <2>6, <1>2, <1>3
<1> QED BY <1>4, <1>5

\* What the gate and the reference count let go, nobody points at.
LEMMA ReclaimPreserves == ASSUME IInv, Reclaim PROVE IInv'
<1> USE DEF IInv, TypeOK, Reclaim, RetireSafe, OnlyQueueHolds
<1>1. TypeOK'
  BY DEF GraphOrNull, RetiredGraph
<1>2. GenerationMarksCallback' /\ SwapProgress'
  BY DEF GenerationMarksCallback, SwapProgress
<1>3. Ownership'
  BY DEF SwapProgress, Ownership, InRetired, GraphOrNull, RetiredGraph
<1>4. CallbackGraphGuarded'
  BY DEF SwapProgress, Ownership, InRetired, CallbackGraphGuarded,
     GenerationMarksCallback, GraphOrNull, RetiredGraph
<1>5. ReadersHoldLiveGraphs'
  BY DEF SwapProgress, Ownership, InRetired, ReadersHoldLiveGraphs,
     GraphOrNull, RetiredGraph
<1>6. RingsOwned' /\ TelemetryHandleAlive'
  BY DEF SwapProgress, Ownership, InRetired, RingsOwned, TelemetryHandleAlive,
     GraphOrNull, RetiredGraph
<1> QED BY <1>1, <1>2, <1>3, <1>4, <1>5, <1>6

\* With the queue empty the current graph alone is allocated, and its rings
\* are kept.
LEMMA EvictPreserves == ASSUME IInv, Evict PROVE IInv'
<1> USE DEF IInv, TypeOK, Evict, MayEvict, StillPending, Rewired, Wirings
<1>1. TypeOK'
  BY DEF GraphOrNull, RetiredGraph
<1>2. GenerationMarksCallback' /\ SwapProgress'
  BY DEF GenerationMarksCallback, SwapProgress
<1>3. Ownership'
  BY DEF SwapProgress, Ownership, InRetired, GraphOrNull, RetiredGraph
<1>4. CallbackGraphGuarded'
  BY DEF SwapProgress, Ownership, InRetired, CallbackGraphGuarded,
     GenerationMarksCallback, GraphOrNull, RetiredGraph
<1>5. ReadersHoldLiveGraphs'
  BY DEF SwapProgress, Ownership, InRetired, ReadersHoldLiveGraphs,
     GraphOrNull, RetiredGraph
<1>6. RingsOwned' /\ TelemetryHandleAlive'
  BY DEF SwapProgress, Ownership, InRetired, RingsOwned, TelemetryHandleAlive,
     GraphOrNull, RetiredGraph
<1> QED BY <1>1, <1>2, <1>3, <1>4, <1>5, <1>6

\* Once every thread is joined the queue can be cleared.
LEMMA FinishShutdownPreserves == ASSUME IInv, FinishShutdown PROVE IInv'
<1> USE DEF IInv, TypeOK, FinishShutdown
<1>1. TypeOK'
  BY DEF GraphOrNull, RetiredGraph
<1>2. GenerationMarksCallback' /\ SwapProgress'
  BY DEF GenerationMarksCallback, SwapProgress
<1>3. Ownership'
  BY DEF SwapProgress, Ownership, InRetired, GraphOrNull, RetiredGraph
<1>4. CallbackGraphGuarded'
  BY DEF SwapProgress, Ownership, InRetired, CallbackGraphGuarded,
     GenerationMarksCallback, GraphOrNull, RetiredGraph
<1>5. ReadersHoldLiveGraphs'
  BY DEF SwapProgress, Ownership, InRetired, ReadersHoldLiveGraphs,
     GraphOrNull, RetiredGraph
<1>6. RingsOwned' /\ TelemetryHandleAlive'
  BY DEF SwapProgress, Ownership, InRetired, RingsOwned, TelemetryHandleAlive,
     GraphOrNull, RetiredGraph
<1> QED BY <1>1, <1>2, <1>3, <1>4, <1>5, <1>6

\* The inductive step.
LEMMA NextPreserves == IInv /\ [Next]_vars => IInv'
<1> SUFFICES ASSUME IInv, [Next]_vars PROVE IInv'
  OBVIOUS
<1>1. CASE Callback
  BY <1>1, CallbackPreserves
<1>2. CASE \E r \in Reader : ReaderAcquire(r) \/ ReaderRelease(r)
  BY <1>2, ReaderPreserves
<1>3. CASE Network
  BY <1>3, NetworkPreserves
<1>4. CASE Loop
  BY <1>4, IdleLoopPreserves, BuildPreserves, SwapPreserves, RetirePreserves,
     ReclaimPreserves, EvictPreserves DEF Loop
<1>5. CASE SwitchProject \/ BeginShutdown \/ FinishShutdown
  BY <1>5, IdleLoopPreserves, FinishShutdownPreserves
<1>6. CASE UNCHANGED vars
  <2> USE <1>6 DEF vars, IInv
  <2>1. TypeOK' /\ GenerationMarksCallback' /\ SwapProgress'
    BY DEF TypeOK, GenerationMarksCallback, SwapProgress
  <2>2. Ownership' /\ CallbackGraphGuarded' /\ ReadersHoldLiveGraphs'
    BY DEF Ownership, InRetired, CallbackGraphGuarded, ReadersHoldLiveGraphs
  <2>3. RingsOwned' /\ TelemetryHandleAlive'
    BY DEF RingsOwned, TelemetryHandleAlive
  <2> QED BY <2>1, <2>2, <2>3
<1> QED BY <1>1, <1>2, <1>3, <1>4, <1>5, <1>6 DEF Next, Down

\* IInv is an invariant: it carries every safety result below.
THEOREM Invariant == Spec => []IInv
  BY InitEstablishes, NextPreserves, PTL DEF Spec

\* Every variable keeps its type, the queue holding real graphs only.
THEOREM TypeCorrect == Spec => []TypeOK
<1>1. IInv => TypeOK
  BY DEF IInv
<1> QED BY <1>1, Invariant, PTL

\* Every pointer a thread can follow is accounted for by IInv.
LEMMA PointersLive == IInv => NoUseAfterFree
<1> SUFFICES ASSUME IInv PROVE NoUseAfterFree
  OBVIOUS
<1> USE DEF IInv, TypeOK, GraphOrNull
<1>1. {slot, raw, current} \subseteq alive \cup {NoGraph}
  BY DEF SwapProgress, Ownership
<1>2. cbGraph \in alive \cup {NoGraph}
  BY DEF CallbackGraphGuarded, SwapProgress, Ownership, InRetired
<1>3. \A r \in Reader : held[r] \in alive \cup {NoGraph}
  BY DEF ReadersHoldLiveGraphs
<1> QED BY <1>1, <1>2, <1>3 DEF NoUseAfterFree

\* No thread ever points at a freed graph (GenGuard, isRetireSafe, use_count):
\* a callback on an older graph is guarded by the queue entry that recorded
\* its generation.
THEOREM Safety == Spec => []NoUseAfterFree
  BY PointersLive, Invariant, PTL

\* Eviction never unmaps a ring that a reachable graph's proxy node uses.
THEOREM RingSafety == Spec => []RingsStayMapped
<1>1. IInv => RingsStayMapped
  BY PointersLive DEF IInv, NoUseAfterFree, RingsOwned, RingsStayMapped
<1> QED BY <1>1, Invariant, PTL

\* The handle telemetry reads is registered whenever it may read it.
THEOREM TelemetrySafety == Spec => []TelemetryHandleAlive
<1>1. IInv => TelemetryHandleAlive
  BY DEF IInv
<1> QED BY <1>1, Invariant, PTL
=============================================================================
