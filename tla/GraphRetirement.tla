--------------------------- MODULE GraphRetirement ---------------------------
(***************************************************************************)
(* The engine's audio graph: one callback thread plays it without a lock   *)
(* while the control loop replaces it, retires the old one, and stops the  *)
(* plugin children no document node needs any more.                        *)
(*                                                                         *)
(*   - the audio callback marks itself inside with an odd generation, then *)
(*     loads the raw graph pointer (audio_callback.cpp);                   *)
(*   - the control loop builds a graph from a document snapshot, swaps the *)
(*     shared_ptr slot, swaps the raw pointer, snapshots the generation    *)
(*     (audio_device.cpp), and frees what it retired once the generation   *)
(*     gate and the reference count allow (main.cpp);                      *)
(*   - WebSocket threads hold shared_ptr copies taken from the slot;       *)
(*   - the network thread applies changes to the document, then bumps      *)
(*     doc_version;                                                        *)
(*   - when the engine follows its tab to another project, the control     *)
(*     loop joins the network thread and empties the document without a    *)
(*     bump: the graph stays until the new project's first document.       *)
(*                                                                         *)
(* buildGraph always returns a graph, so the control loop's branch for a   *)
(* failed build is never taken and has no action here.                     *)
(*                                                                         *)
(* One atomic access per action: the built targets order these accesses    *)
(* totally (the raw swap, the entry increment and the snapshot are         *)
(* seq_cst).                                                               *)
(***************************************************************************)
EXTENDS Integers, FiniteSets

CONSTANTS
  Graph,       \* addresses a graph can be built at; a freed one is reused
  NoGraph,     \* nullptr
  Plugin,      \* document node ids of vst3 processors
  Pinned,      \* node ids of the debug proxy: never evicted
  NoPlugin,    \* telemetry wired to nothing
  Reader,      \* WebSocket connection threads
  MaxGen,      \* bound: callback entries and exits
  MaxVersion   \* bound: document changes

ASSUME GraphRetirementAssumption ==
  /\ NoGraph \notin Graph
  /\ NoPlugin \notin Plugin
  /\ Pinned \subseteq Plugin
  /\ MaxGen \in Nat
  /\ MaxVersion \in Nat

VARIABLES
  gen,         \* callback_generation_: odd while a callback is inside
  cbPc,        \* "out", "in" (entered), "run" (graph pointer loaded)
  cbGraph,     \* the pointer the callback loaded
  slot,        \* active_graph_, the shared_ptr slot
  raw,         \* active_graph_raw_
  held,        \* the shared_ptr copy each reader holds
  running,     \* device state Running
  cpc,         \* control loop
  target,      \* target_version
  snapshot,    \* vst3 nodes of the ProjectDef snapshot
  new,         \* the graph under construction or being installed
  old,         \* old_sp, held by setActiveGraph
  current,     \* current_graph
  retired,     \* retired_graphs: [graph, gen]
  lastBuilt,   \* last_built_version
  alive,       \* graphs whose memory is allocated
  uses,        \* the bridge rings a graph's proxy nodes point at
  content,     \* the vst3 nodes of the document a graph was built from
  registry,    \* PluginInstanceRegistry: handles with a mapped ring
  keep,        \* eviction_keep
  pending,     \* eviction_pending
  wired,       \* the handle telemetry reads
  doc,         \* vst3 nodes of the document
  docVersion,  \* doc_version
  netPc        \* "idle"; "bump": change applied, version not yet bumped;
               \* "away": project switched, its first document not yet here

cbVars == <<gen, cbPc, cbGraph>>
swapVars == <<slot, raw, new, old, current>>
pluginVars == <<registry, keep, pending, wired>>
docVars == <<doc, docVersion, netPc>>
memVars == <<alive, uses, content>>
vars == <<cbVars, swapVars, pluginVars, docVars, memVars, held, running, cpc,
          target, snapshot, retired, lastBuilt>>

GraphOrNull == Graph \cup {NoGraph}
RetiredGraph == [graph : Graph, gen : Nat]

TypeOK ==
  /\ gen \in Nat
  /\ cbPc \in {"out", "in", "run"}
  /\ cbGraph \in GraphOrNull
  /\ slot \in GraphOrNull
  /\ raw \in GraphOrNull
  /\ held \in [Reader -> GraphOrNull]
  /\ running \in BOOLEAN
  /\ cpc \in {"top", "snap", "build", "slot", "raw", "retire",
              "reclaim", "evict", "poll", "stopping", "down"}
  /\ target \in Nat
  /\ snapshot \subseteq Plugin
  /\ new \in GraphOrNull
  /\ old \in GraphOrNull
  /\ current \in GraphOrNull
  /\ retired \subseteq RetiredGraph
  /\ lastBuilt \in Nat
  /\ alive \subseteq Graph
  /\ uses \in [Graph -> SUBSET Plugin]
  /\ content \in [Graph -> SUBSET Plugin]
  /\ registry \subseteq Plugin
  /\ keep \subseteq Plugin
  /\ pending \in BOOLEAN
  /\ wired \in Plugin \cup {NoPlugin}
  /\ doc \subseteq Plugin
  /\ docVersion \in Nat
  /\ netPc \in {"idle", "bump", "away"}

Init ==
  /\ gen = 0 /\ cbPc = "out" /\ cbGraph = NoGraph
  /\ slot = NoGraph /\ raw = NoGraph /\ current = NoGraph
  /\ new = NoGraph /\ old = NoGraph
  /\ held = [r \in Reader |-> NoGraph]
  /\ running = FALSE
  /\ cpc = "top"
  /\ target = 0 /\ snapshot = {} /\ lastBuilt = 0
  /\ retired = {}
  /\ alive = {} /\ uses = [g \in Graph |-> {}] /\ content = [g \in Graph |-> {}]
  /\ registry = Pinned /\ keep = {} /\ pending = FALSE /\ wired = NoPlugin
  /\ doc = {} /\ docVersion = 0 /\ netPc = "idle"

-----------------------------------------------------------------------------
(* The audio callback *)

CallbackEnter ==
  /\ running /\ cbPc = "out"
  /\ gen + 1 < MaxGen
  /\ gen' = gen + 1
  /\ cbPc' = "in"
  /\ UNCHANGED <<cbGraph, swapVars, pluginVars, docVars, memVars, held,
                 running, cpc, target, snapshot, retired, lastBuilt>>

CallbackLoad ==
  /\ cbPc = "in"
  /\ cbGraph' = raw
  /\ cbPc' = "run"
  /\ UNCHANGED <<gen, swapVars, pluginVars, docVars, memVars, held,
                 running, cpc, target, snapshot, retired, lastBuilt>>

CallbackExit ==
  /\ cbPc = "run"
  /\ gen' = gen + 1
  /\ cbPc' = "out"
  /\ cbGraph' = NoGraph
  /\ UNCHANGED <<swapVars, pluginVars, docVars, memVars, held,
                 running, cpc, target, snapshot, retired, lastBuilt>>

-----------------------------------------------------------------------------
(* WebSocket threads *)

ReaderAcquire(r) ==
  /\ held[r] = NoGraph
  /\ slot # NoGraph
  /\ cpc \notin {"stopping", "down"}
  /\ held' = [held EXCEPT ![r] = slot]
  /\ UNCHANGED <<cbVars, swapVars, pluginVars, docVars, memVars,
                 running, cpc, target, snapshot, retired, lastBuilt>>

ReaderRelease(r) ==
  /\ held[r] # NoGraph
  /\ held' = [held EXCEPT ![r] = NoGraph]
  /\ UNCHANGED <<cbVars, swapVars, pluginVars, docVars, memVars,
                 running, cpc, target, snapshot, retired, lastBuilt>>

-----------------------------------------------------------------------------
(* The network thread: document first, version second *)

\* A change, or the document of a first contact or of a switch, adopted.
ApplyChange ==
  /\ netPc # "bump"
  /\ cpc \notin {"stopping", "down"}
  /\ docVersion < MaxVersion
  /\ doc' \in SUBSET Plugin
  /\ netPc' = "bump"
  /\ UNCHANGED <<cbVars, swapVars, pluginVars, docVersion, memVars, held,
                 running, cpc, target, snapshot, retired, lastBuilt>>

BumpVersion ==
  /\ netPc = "bump"
  /\ docVersion' = docVersion + 1
  /\ netPc' = "idle"
  /\ UNCHANGED <<cbVars, swapVars, pluginVars, doc, memVars, held,
                 running, cpc, target, snapshot, retired, lastBuilt>>

-----------------------------------------------------------------------------
(* The control loop *)

\* The engine follows its tab: disconnect() joins the network thread, then the
\* document is replaced by an empty one and doc_version left alone.
SwitchProject ==
  /\ cpc = "top"
  /\ netPc # "bump"
  /\ doc' = {}
  /\ netPc' = "away"
  /\ UNCHANGED <<cbVars, swapVars, pluginVars, docVersion, memVars, held,
                 running, cpc, target, snapshot, retired, lastBuilt>>

\* The bound on Graph: a rebuild waits for a free address.
RebuildDue ==
  docVersion # 0 /\ docVersion # lastBuilt /\ alive # Graph

BeginRebuild ==
  /\ cpc = "top" /\ RebuildDue
  /\ target' = docVersion
  /\ cpc' = "snap"
  /\ UNCHANGED <<cbVars, swapVars, pluginVars, docVars, memVars, held,
                 running, snapshot, retired, lastBuilt>>

NoRebuild ==
  /\ cpc = "top" /\ ~RebuildDue
  /\ cpc' = "reclaim"
  /\ UNCHANGED <<cbVars, swapVars, pluginVars, docVars, memVars, held,
                 running, target, snapshot, retired, lastBuilt>>

TakeSnapshot ==
  /\ cpc = "snap"
  /\ snapshot' = doc \cup Pinned
  /\ cpc' = "build"
  /\ UNCHANGED <<cbVars, swapVars, pluginVars, docVars, memVars, held,
                 running, target, retired, lastBuilt>>

\* ensureVst3Child re-attaches the existing handles and starts a child for the
\* missing ones; a node whose child does not start is skipped.
BuildGraph ==
  /\ cpc = "build"
  /\ registry' \in {registry \cup started : started \in SUBSET snapshot}
  /\ \E g \in Graph \ alive :
       /\ new' = g
       /\ alive' = alive \cup {g}
       /\ uses' = [uses EXCEPT ![g] = snapshot \cap registry']
       /\ content' = [content EXCEPT ![g] = snapshot]
  /\ cpc' = "slot"
  /\ UNCHANGED <<cbVars, slot, raw, old, current, keep, pending, wired, docVars,
                 held, running, target, snapshot, retired, lastBuilt>>

SwapSlot ==
  /\ cpc = "slot"
  /\ old' = slot
  /\ slot' = new
  /\ cpc' = "raw"
  /\ UNCHANGED <<cbVars, raw, new, current, pluginVars, docVars, memVars, held,
                 running, target, snapshot, retired, lastBuilt>>

SwapRaw ==
  /\ cpc = "raw"
  /\ raw' = new
  /\ cpc' = "retire"
  /\ UNCHANGED <<cbVars, slot, new, old, current, pluginVars, docVars, memVars,
                 held, running, target, snapshot, retired, lastBuilt>>

\* Mutant: no null check on the retired pointer.
RetiredEntriesUnchecked == {[graph |-> old, gen |-> gen]}

\* What setActiveGraph returns, queued unless it is null: the generation is
\* read after the raw exchange.
RetiredEntries == {[graph |-> g, gen |-> gen] : g \in {old} \ {NoGraph}}

\* Mutant: the newest version is recorded, not the one the snapshot was for.
BuiltVersionNewest == docVersion

BuiltVersion == target

\* The hand-over to retired_graphs and the staged eviction; the first graph
\* starts the device, which may fail.
Retire ==
  /\ cpc = "retire"
  /\ retired' = retired \cup RetiredEntries
  /\ current' = new
  /\ new' = NoGraph
  /\ old' = NoGraph
  /\ lastBuilt' = BuiltVersion
  /\ keep' = snapshot
  /\ pending' = TRUE
  /\ running' \in IF current = NoGraph THEN BOOLEAN ELSE {running}
  /\ cpc' = "reclaim"
  /\ UNCHANGED <<cbVars, slot, raw, registry, wired, docVars, memVars, held,
                 target, snapshot>>

\* Mutant: the gate opens one generation early.
RetireSafeEarly(r) == ~running \/ r.gen % 2 = 0 \/ gen >= r.gen
\* isRetireSafe
RetireSafe(r) ==
  \/ ~running
  \/ r.gen % 2 = 0
  \/ gen > r.gen

\* use_count() == 1
OnlyQueueHolds(r) == \A rd \in Reader : held[rd] # r.graph

\* Both conditions stay true once true of a retired graph, so testing the
\* whole queue in one step loses no behaviour.
Reclaim ==
  /\ cpc = "reclaim"
  /\ LET freed == {r \in retired : RetireSafe(r) /\ OnlyQueueHolds(r)}
     IN /\ retired' = retired \ freed
        /\ alive' = alive \ {r.graph : r \in freed}
  /\ cpc' = "evict"
  /\ UNCHANGED <<cbVars, swapVars, pluginVars, docVars, uses, content, held,
                 running, target, snapshot, lastBuilt>>

\* wirePluginTelemetry: some handle of the registry, or nothing.
Wirings == IF registry = {} THEN {NoPlugin} ELSE registry

\* Mutant: eviction does not wait for the queue.
MayEvictEager == pending

MayEvict == pending /\ retired = {}

\* Mutant: a request that has to wait is forgotten.
StillPendingNever == FALSE

StillPending == pending /\ ~MayEvict

\* Mutant: telemetry keeps its old handle.
RewiredNever == {wired}

Rewired == IF registry' # registry THEN Wirings' ELSE {wired}

\* evictMissing: stop() unmaps the ring of every handle not kept; telemetry
\* is re-wired in the same iteration if one was evicted.
Evict ==
  /\ cpc = "evict"
  /\ registry' = IF MayEvict THEN registry \cap keep ELSE registry
  /\ pending' = StillPending
  /\ wired' \in Rewired
  /\ cpc' = "poll"
  /\ UNCHANGED <<cbVars, swapVars, keep, docVars, memVars, held,
                 running, target, snapshot, retired, lastBuilt>>

\* The telemetry tick is rate-limited: an iteration may skip it.
PollTelemetry ==
  /\ cpc = "poll"
  /\ wired' \in Wirings \cup {wired}
  /\ cpc' = "top"
  /\ UNCHANGED <<cbVars, swapVars, registry, keep, pending, docVars, memVars, held,
                 running, target, snapshot, retired, lastBuilt>>

\* g_running cleared: the WebSocket server stops taking callbacks.
BeginShutdown ==
  /\ cpc = "top"
  /\ cpc' = "stopping"
  /\ UNCHANGED <<cbVars, swapVars, pluginVars, docVars, memVars, held,
                 running, target, snapshot, retired, lastBuilt>>

\* ws_server.stop and server_client.disconnect join their threads, device.stop
\* waits for the callback; then the queue is cleared unconditionally.
FinishShutdown ==
  /\ cpc = "stopping"
  /\ \A r \in Reader : held[r] = NoGraph
  /\ netPc # "bump"
  /\ cbPc = "out"
  /\ running' = FALSE
  /\ alive' = alive \ {r.graph : r \in retired}
  /\ retired' = {}
  /\ cpc' = "down"
  /\ UNCHANGED <<cbVars, swapVars, pluginVars, docVars, uses, content, held,
                 target, snapshot, lastBuilt>>

Down == cpc = "down" /\ UNCHANGED vars

-----------------------------------------------------------------------------
Callback == CallbackEnter \/ CallbackLoad \/ CallbackExit

Network == ApplyChange \/ BumpVersion

Loop ==
  \/ BeginRebuild \/ NoRebuild \/ TakeSnapshot \/ BuildGraph
  \/ SwapSlot \/ SwapRaw \/ Retire
  \/ Reclaim \/ Evict \/ PollTelemetry

Next ==
  \/ Callback
  \/ \E r \in Reader : ReaderAcquire(r) \/ ReaderRelease(r)
  \/ Network
  \/ Loop
  \/ SwitchProject
  \/ BeginShutdown
  \/ FinishShutdown
  \/ Down

Spec == Init /\ [][Next]_vars

\* Every thread that is inside finishes; the control loop keeps turning.
\* Nothing makes a callback, a reader, a document change, a project switch or a
\* shutdown begin.
Fairness ==
  /\ WF_vars(CallbackLoad \/ CallbackExit)
  /\ \A r \in Reader : WF_vars(ReaderRelease(r))
  /\ WF_vars(BumpVersion)
  /\ WF_vars(Loop)
  /\ WF_vars(FinishShutdown)

FairSpec == Spec /\ Fairness

-----------------------------------------------------------------------------
(* Properties *)

\* No thread ever holds a pointer to a freed graph: the callback through the
\* raw pointer it loaded, a reader through its shared_ptr copy, the next
\* callback or reader through the two slots (GenGuard, isRetireSafe).
NoUseAfterFree ==
  LET pointers == {slot, raw, current, cbGraph} \cup {held[r] : r \in Reader}
  IN pointers \subseteq alive \cup {NoGraph}

\* No graph that a thread can still run has a proxy node on an unmapped ring:
\* eviction waits for the retirement queue (main.cpp, the staged eviction).
RingsStayMapped ==
  LET reachable == ({slot, raw, cbGraph} \cup {held[r] : r \in Reader}) \ {NoGraph}
  IN \A g \in reachable : uses[g] \subseteq registry

\* The handle telemetry reads on the next broadcast is in the registry.
TelemetryHandleAlive == wired # NoPlugin => wired \in registry

\* Last state wins: once changes stop, the audio thread's graph is the one
\* built from the document as it is (target_version is read before the
\* snapshot, doc_version is bumped after the document changed).  A switch whose
\* first document never comes (server down) leaves the old project playing.
DocumentReachesAudio ==
  <>[](\/ cpc \in {"stopping", "down"}
       \/ docVersion = 0
       \/ netPc = "away"
       \/ raw # NoGraph /\ content[raw] = doc \cup Pinned)

\* A retired graph is freed in the end, whatever the readers and the callback
\* were doing with it.
RetiredIsFreed ==
  \A g \in Graph : (\E r \in retired : r.graph = g) ~> (g \notin alive)

\* A child whose node left the document is stopped in the end (no zombie), also
\* when it left with the whole project, once the next one's document is there.
RemovedChildIsStopped ==
  <>[](\/ cpc \in {"stopping", "down"}
       \/ docVersion = 0
       \/ netPc = "away"
       \/ registry \subseteq doc \cup Pinned)

\* What a rebuild leaves behind, the old graph and the children of removed
\* nodes, is released.
ResourcesAreReleased == RetiredIsFreed /\ RemovedChildIsStopped

-----------------------------------------------------------------------------
(* The inductive invariant behind NoUseAfterFree and RingsStayMapped *)

InRetired == {r.graph : r \in retired}

\* The generation is odd exactly while the callback is inside, and the device
\* that runs it has had a graph.
GenerationMarksCallback ==
  /\ cbPc = "out" <=> gen % 2 = 0
  /\ ~running => cbPc = "out"
  /\ running => current # NoGraph

\* Where the swap stands: which of the two slots already holds the new graph.
SwapProgress ==
  /\ new # NoGraph <=> cpc \in {"slot", "raw", "retire"}
  /\ old = IF cpc \in {"raw", "retire"} THEN current ELSE NoGraph
  /\ slot = IF cpc \in {"raw", "retire"} THEN new ELSE current
  /\ raw = IF cpc = "retire" THEN new ELSE current

\* Memory is owned, each retired graph by one entry of the queue.
Ownership ==
  /\ alive = ({current, new} \cup InRetired) \ {NoGraph}
  /\ InRetired \cap {current, new} = {}
  /\ new # NoGraph => new # current
  /\ \A r, s \in retired : r.graph = s.graph => r = s

\* A callback that runs an older graph than the raw slot's entered before the
\* swap: the generation it published is the one the queue recorded.
CallbackGraphGuarded ==
  /\ cbPc # "run" => cbGraph = NoGraph
  /\ \/ cbGraph \in {NoGraph, raw}
     \/ cpc = "retire" /\ cbGraph = old
     \/ \E r \in retired : r.graph = cbGraph /\ r.gen = gen

ReadersHoldLiveGraphs ==
  \A rd \in Reader : held[rd] \in alive \cup {NoGraph}

\* The staged eviction keeps what the current graph uses.
RingsOwned ==
  /\ \A g \in alive : uses[g] \subseteq registry
  /\ current # NoGraph => uses[current] \subseteq keep
  /\ new # NoGraph => uses[new] \subseteq snapshot

\* Inductive: every disjunct of Next preserves it.
IInv ==
  /\ TypeOK
  /\ GenerationMarksCallback
  /\ SwapProgress
  /\ Ownership
  /\ CallbackGraphGuarded
  /\ ReadersHoldLiveGraphs
  /\ RingsOwned
  /\ TelemetryHandleAlive
=============================================================================
