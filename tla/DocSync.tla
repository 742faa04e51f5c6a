------------------------------- MODULE DocSync -------------------------------
(***************************************************************************)
(* Replicas of one project: browser tabs and engines, each with a local    *)
(* Automerge document, and the server that stores and relays changes.  A   *)
(* connection brings a snapshot first and the broadcast changes after it;  *)
(* it may fail at any moment, with what was under way lost or, on its way  *)
(* to the server, handled late by the old session.                         *)
(*                                                                         *)
(* Changes are numbered as they are made, so the order of numbers extends  *)
(* the causal order; a document is the set of its changes.  Storing one    *)
(* change is a single step here (see ProjectStore).                        *)
(***************************************************************************)
EXTENDS Naturals, Sequences, FiniteSets

CONSTANTS
  Tab, Engine,     \* the replicas: tabs queue offline, engines do not
  Capacity,        \* messages the broadcast channel keeps for a session
  AbandonMidway,   \* may a session end between storing and broadcasting?
  MaxChanges,      \* bound: changes made by all replicas together
  MaxFailures      \* bound: broken connections, aborted sessions and crashes

ASSUME DocSyncAssumption ==
  /\ Tab \cap Engine = {}
  /\ Capacity \in Nat \ {0} /\ AbandonMidway \in BOOLEAN
  /\ MaxChanges \in Nat /\ MaxFailures \in Nat

Replica == Tab \cup Engine
Change == 1 .. MaxChanges

\* Sessions of one replica at the server: its connection and the one before.
Slot == {0, 1}

VARIABLES
  log,        \* the changes made: author and causal past
  known,      \* changes a replica received or made, held-back ones included
  met,        \* it has been given a first document
  link,       \* its connection as it sees it
  outbox,     \* a tab's queue of unsent changes
  resync,     \* a tab's resync timer is set
  cycles,     \* verification cycles it still owes
  stored,     \* the changes in the project file
  slot,       \* which of a replica's sessions is the connected one
  session,    \* the server's side of the connection
  snapshot,   \* the document the session sends first
  up,         \* messages to the server, per session
  unsent,     \* stored by a session and not broadcast yet
  down,       \* broadcast messages waiting for a replica
  lagged,     \* some receiver skipped a message
  failures

replica == <<log, known, met, outbox, cycles>>
server == <<stored, unsent>>
wire == <<link, resync, slot, session, snapshot, up, down>>
vars == <<replica, server, wire, lagged, failures>>

TypeOK ==
  /\ log \in Seq([by : Replica, past : SUBSET Change])
  /\ Len(log) <= MaxChanges
  /\ known \in [Replica -> SUBSET Change]
  /\ met \in [Replica -> BOOLEAN]
  /\ link \in [Replica -> {"down", "await", "open"}]
  /\ outbox \in [Replica -> Seq(Change)]
  /\ resync \in [Replica -> BOOLEAN] /\ cycles \in [Replica -> 0 .. 2]
  /\ stored \subseteq Change
  /\ slot \in [Replica -> Slot]
  /\ session \in [Replica -> {"none", "joined", "loaded"}]
  /\ snapshot \in [Replica -> SUBSET Change]
  /\ up \in [Replica \X Slot -> Seq(Change)]
  /\ unsent \in [Replica \X Slot -> SUBSET Change]
  /\ down \in [Replica -> Seq(Change)]
  /\ lagged \in BOOLEAN /\ failures \in Nat

Init ==
  /\ log = <<>> /\ stored = {}
  /\ known = [r \in Replica |-> {}]
  /\ met = [r \in Replica |-> FALSE]
  /\ link = [r \in Replica |-> "down"]
  /\ outbox = [r \in Replica |-> <<>>]
  /\ resync = [r \in Replica |-> FALSE]
  /\ cycles = [r \in Replica |-> 0]
  /\ slot = [r \in Replica |-> 0]
  /\ session = [r \in Replica |-> "none"]
  /\ snapshot = [r \in Replica |-> {}]
  /\ up = [x \in Replica \X Slot |-> <<>>]
  /\ unsent = [x \in Replica \X Slot |-> {}]
  /\ down = [r \in Replica |-> <<>>]
  /\ lagged = FALSE /\ failures = 0

-----------------------------------------------------------------------------
(* Documents                                                                *)

Past(x) == log[x].past

\* Automerge holds a change back until its causal past is there.
Applied(S) == {x \in S : Past(x) \subseteq S}
Doc(r) == Applied(known[r])

\* The direct dependencies of a change: the heads of its past.
Deps(x) == {y \in Past(x) : \A z \in Past(x) : y \notin Past(z)}
Missing(S) == (UNION {Deps(x) : x \in S}) \ S

Here(r) == <<r, slot[r]>>

-----------------------------------------------------------------------------
(* Making changes                                                           *)

\* Tabs queue while there is no open connection or no document yet.
Queues(r) == r \in Tab /\ link[r] # "open"

\* An engine writes what it derives from a document, and sends it on any
\* connection, before its first document too.
Sends(r) == link[r] = "open" \/ (r \in Engine /\ link[r] = "await")

Make(r) ==
  /\ Len(log) < MaxChanges
  /\ r \in Engine => met[r]
  /\ LET x == Len(log) + 1 IN
     /\ log' = Append(log, [by |-> r, past |-> Doc(r)])
     /\ known' = [known EXCEPT ![r] = @ \cup {x}]
     /\ outbox' = IF Queues(r) THEN [outbox EXCEPT ![r] = Append(@, x)] ELSE outbox
     /\ up' = IF Sends(r) THEN [up EXCEPT ![Here(r)] = Append(@, x)] ELSE up
  /\ UNCHANGED <<met, cycles, server, link, resync, slot, session, snapshot, down, lagged, failures>>

-----------------------------------------------------------------------------
(* Connecting                                                               *)

WoundUp(r, k) == up[<<r, k>>] = <<>> /\ unsent[<<r, k>>] = {}

\* The session before may still be at work, the one before it no more.
Connect(r) ==
  /\ link[r] = "down"
  /\ \E k \in Slot :
       /\ WoundUp(r, k) /\ (k = 1 => ~WoundUp(r, 0))
       /\ slot' = [slot EXCEPT ![r] = k]
  /\ link' = [link EXCEPT ![r] = "await"]
  /\ session' = [session EXCEPT ![r] = "joined"]
  /\ UNCHANGED <<replica, server, resync, snapshot, up, down, lagged, failures>>

\* A mutated handle_socket that subscribes once the document is sent.
SubscribedLate(r) == link[r] = "open"

\* Subscribed from the start, before the document is read.
Subscribed(r) == session[r] # "none"

Load(r) ==
  /\ session[r] = "joined"
  /\ snapshot' = [snapshot EXCEPT ![r] = stored]
  /\ session' = [session EXCEPT ![r] = "loaded"]
  /\ UNCHANGED <<replica, server, link, resync, slot, up, down, lagged, failures>>

\* A mutated first contact: load() replaces whatever was edited before.
AdoptsAlways(r) == ~met[r]

\* An untouched placeholder, or an engine's first document, is replaced.
Adopts(r) == ~met[r] /\ (r \in Engine \/ (known[r] = {} /\ outbox[r] = <<>>))

\* A mutated reconnection without the push half of anti-entropy.
PushesNothing(r) == {}

\* The local changes the server's document lacks.
Pushes(r) ==
  IF Adopts(r) THEN {} ELSE Applied(known[r] \cup snapshot[r]) \ snapshot[r]

\* Changes in causal order: there is one such sequence of a set.
InOrder(S) ==
  LET place == 1 .. Cardinality(S)
  IN {q \in [place -> S] : \A i, j \in place : i < j => q[i] < q[j]}

Moved(r) ==
  \/ met[r] /\ Doc(r) # Applied(known[r] \cup snapshot[r])
  \/ outbox[r] # <<>>
  \/ Pushes(r) # {}

\* A mutated handler that goes on until something moves.
CyclesForEver(r) == IF Moved(r) \/ cycles[r] = 0 THEN 2 ELSE cycles[r]

Cycles(r) ==
  IF r \in Engine \/ Adopts(r) THEN cycles[r]
  ELSE IF Moved(r) THEN 2
  ELSE IF cycles[r] > 0 THEN cycles[r] - 1 ELSE 0

DocumentArrives(r) ==
  /\ link[r] = "await" /\ session[r] = "loaded"
  /\ link' = [link EXCEPT ![r] = "open"]
  /\ known' = [known EXCEPT ![r] = IF Adopts(r) THEN snapshot[r] ELSE @ \cup snapshot[r]]
  /\ met' = [met EXCEPT ![r] = TRUE]
  /\ \E pushed \in InOrder(Pushes(r)) :
       up' = [up EXCEPT ![Here(r)] = @ \o pushed \o outbox[r]]
  /\ outbox' = [outbox EXCEPT ![r] = <<>>]
  /\ cycles' = [cycles EXCEPT ![r] = Cycles(r)]
  /\ resync' = [resync EXCEPT ![r] = @ \/ (~Adopts(r) /\ r \in Tab /\ Cycles(r) > 0)]
  /\ snapshot' = [snapshot EXCEPT ![r] = {}]
  /\ UNCHANGED <<log, server, slot, session, down, lagged, failures>>

-----------------------------------------------------------------------------
(* The server                                                               *)

Storable(x) == Past(x) \subseteq stored

\* A mutated handler that broadcasts before it persists.
BroadcastsAnything(x) == TRUE

\* A change is broadcast once it is stored.
Broadcasts(x) == Storable(x)

\* The receiving loop of a session starts once the document was sent.
Receives(r, k) == k # slot[r] \/ link[r] = "down" \/ session[r] = "loaded"

\* A refused change is dropped; a stored one waits to be broadcast.
Receive(r, k) ==
  /\ up[<<r, k>>] # <<>> /\ unsent[<<r, k>>] = {} /\ Receives(r, k)
  /\ LET x == Head(up[<<r, k>>]) IN
       /\ stored' = IF Storable(x) THEN stored \cup {x} ELSE stored
       /\ unsent' = IF Broadcasts(x) THEN [unsent EXCEPT ![<<r, k>>] = {x}] ELSE unsent
  /\ up' = [up EXCEPT ![<<r, k>>] = Tail(@)]
  /\ UNCHANGED <<replica, link, resync, slot, session, snapshot, down, lagged, failures>>

\* A full channel forgets its oldest message: the receiver lagged.
Push(queue, x) == Append(IF Len(queue) = Capacity THEN Tail(queue) ELSE queue, x)

Broadcast(r, k) ==
  /\ unsent[<<r, k>>] # {}
  /\ \E x \in unsent[<<r, k>>] :
       down' = [q \in Replica |-> IF Subscribed(q) THEN Push(down[q], x) ELSE down[q]]
  /\ lagged' = (lagged \/ \E q \in Replica : Subscribed(q) /\ Len(down[q]) = Capacity)
  /\ unsent' = [unsent EXCEPT ![<<r, k>>] = {}]
  /\ UNCHANGED <<replica, stored, link, resync, slot, session, snapshot, up, failures>>

\* A mutated applyChange that trusts Automerge to complain.
FailsNever(r, x) == FALSE

\* applyChange: only a change that adds a missing dependency fails.
Fails(r, x) == Cardinality(Missing(known[r] \cup {x})) > Cardinality(Missing(known[r]))

ChangeArrives(r) ==
  /\ link[r] = "open" /\ down[r] # <<>>
  /\ LET x == Head(down[r]) IN
     /\ known' = [known EXCEPT ![r] = @ \cup {x}]
     /\ resync' = [resync EXCEPT ![r] = @ \/ (r \in Tab /\ Fails(r, x))]
  /\ down' = [down EXCEPT ![r] = Tail(@)]
  /\ UNCHANGED <<log, met, outbox, cycles, server, link, slot, session, snapshot, up, lagged, failures>>

-----------------------------------------------------------------------------
(* Ends                                                                     *)

\* Without a connection both slots are old sessions.
Disconnected(r) ==
  /\ link' = [link EXCEPT ![r] = "down"]
  /\ session' = [session EXCEPT ![r] = "none"]
  /\ snapshot' = [snapshot EXCEPT ![r] = {}]
  /\ down' = [down EXCEPT ![r] = <<>>]
  /\ slot' = [slot EXCEPT ![r] = 0]

\* close() delivers what was sent before it; without a connection the timer
\* does nothing.
Resync(r) ==
  /\ resync[r]
  /\ resync' = [resync EXCEPT ![r] = FALSE]
  /\ IF link[r] = "down" THEN UNCHANGED <<link, slot, session, snapshot, down>> ELSE Disconnected(r)
  /\ UNCHANGED <<replica, server, up, lagged, failures>>

\* The connection breaks; what the server has of it is handled late.
Drop(r) ==
  /\ link[r] # "down" /\ failures < MaxFailures
  /\ failures' = failures + 1
  /\ Disconnected(r)
  /\ \E n \in 0 .. Len(up[Here(r)]) : up' = [up EXCEPT ![Here(r)] = SubSeq(@, 1, n)]
  /\ UNCHANGED <<replica, server, resync, lagged>>

\* A session that ended is aborted with what it still had to do.
Abandon(r, k) ==
  /\ k # slot[r] \/ link[r] = "down"
  /\ up[<<r, k>>] # <<>> \/ unsent[<<r, k>>] # {}
  /\ AbandonMidway \/ unsent[<<r, k>>] = {}
  /\ failures < MaxFailures
  /\ failures' = failures + 1
  /\ up' = [up EXCEPT ![<<r, k>>] = <<>>]
  /\ unsent' = [unsent EXCEPT ![<<r, k>>] = {}]
  /\ UNCHANGED <<replica, stored, link, resync, slot, session, snapshot, down, lagged>>

\* The project file survives.
Crash ==
  /\ failures < MaxFailures
  /\ failures' = failures + 1
  /\ link' = [r \in Replica |-> "down"]
  /\ session' = [r \in Replica |-> "none"]
  /\ snapshot' = [r \in Replica |-> {}]
  /\ up' = [x \in Replica \X Slot |-> <<>>]
  /\ unsent' = [x \in Replica \X Slot |-> {}]
  /\ down' = [r \in Replica |-> <<>>]
  /\ slot' = [r \in Replica |-> 0]
  /\ UNCHANGED <<replica, stored, resync, lagged>>

Handle(r) ==
  \/ Connect(r) \/ Load(r) \/ DocumentArrives(r) \/ ChangeArrives(r) \/ Resync(r)

Serve(r, k) == Receive(r, k) \/ Broadcast(r, k)

Next ==
  \/ \E r \in Replica : Make(r) \/ Handle(r) \/ Drop(r)
  \/ \E r \in Replica, k \in Slot : Serve(r, k) \/ Abandon(r, k)
  \/ Crash

Spec == Init /\ [][Next]_vars

\* Event loops run, the network delivers, timers fire, clients reconnect.
FairSpec ==
  /\ Spec
  /\ \A r \in Replica : WF_vars(Handle(r)) /\ WF_vars(Resync(r))
  /\ \A r \in Replica, k \in Slot : WF_vars(Serve(r, k))

-----------------------------------------------------------------------------
(* Properties                                                               *)

Made == 1 .. Len(log)

\* What a replica knows of others' work is on the server's disk: a restart of
\* the server takes nothing back (websocket.rs: "Persist FIRST"). Every
\* variable has its type.
OthersAreDurable ==
  TypeOK /\ \A r \in Replica : \A x \in known[r] : log[x].by = r \/ x \in stored

\* The stored document holds the past of everything in it, whatever arrived
\* out of order or from an aborted session (file_store.rs, A4-1).
StoredIsClosed == \A x \in stored : Past(x) \subseteq stored

\* The server's disk is what the session rests on: it holds whatever anyone
\* learnt from others, with everything that builds on.
DurableAndClosed == OthersAreDurable /\ StoredIsClosed

\* A replica keeps its own work through first contact and reconnections
\* (wiring.ts: "MERGE, never replace").
EditsSurvive == \A x \in Made : x \in known[log[x].by]

\* A tab that holds a change back is about to ask for the document again:
\* missing dependencies are never a silent state (project.ts, A4-2).
HeldBackMeansResync ==
  \A r \in Tab : link[r] = "open" /\ Doc(r) # known[r] => resync[r]

\* The verification cycles end (wiring.ts: two no-op exchanges in a row).
CyclesEnd == \A r \in Tab : <>[](cycles[r] = 0 /\ ~resync[r])

\* Everything made ends up stored and in every replica, broken connections,
\* offline edits and crashes notwithstanding; not so after a lag.  And it is
\* noticed: nobody goes on verifying.
Converged == \A r \in Replica : stored = Made /\ link[r] = "open" /\ Doc(r) = Made
Convergence == <>[](Converged \/ lagged) /\ CyclesEnd

\* After a lag too (server_client.ts: "resync covers the residual holes: a
\* lagged broadcast channel skipping messages").
LagIsRecovered == <>[]Converged
=============================================================================
