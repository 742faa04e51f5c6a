-------------------------------- MODULE Outbox --------------------------------
(***************************************************************************)
(* The queue of unsent changes of a browser tab, mirrored to a localStorage*)
(* key of its own, and the adoption of the keys other tabs left behind.    *)
(* The tabs of one browser share the storage and run in parallel; a tab    *)
(* may be closed or killed at any step.  The server and the network are    *)
(* reduced to what is stored and what was handed to a socket (see DocSync).*)
(*                                                                         *)
(* A queue is the set of its changes: a change sent twice is stored once,  *)
(* and the order of changes is DocSync's.                                  *)
(***************************************************************************)
EXTENDS Naturals

CONSTANTS
  Tab, Change,
  Parallel,      \* may other tabs use the storage during an adoption?
  QuotaFails,    \* may setItem throw?
  MaxDrops       \* bound: connections that break

OutboxAssumption ==
  Parallel \in BOOLEAN /\ QuotaFails \in BOOLEAN /\ MaxDrops \in Nat

VARIABLES
  life,      \* unopened, open or closed: a tab id is used once
  link,      \* its connection
  pc,        \* its position in the handler of the first document
  doc,       \* the changes in its document
  queue,     \* outbox
  adopted, keys,   \* what it read of other tabs' keys, and which
  storage,   \* localStorage: tab id -> queue, empty when there is no key
  wire,      \* handed to the socket, not at the server yet
  stored,    \* the server's document
  persisted, \* changes that ever were in the storage
  handed,    \* changes a tab ever handed to a socket
  drops

tabs == <<life, link, pc, doc, queue, adopted, keys>>
ghosts == <<persisted, handed>>
vars == <<tabs, storage, wire, stored, ghosts, drops>>

TypeOK ==
  /\ life \in [Tab -> {"unopened", "open", "closed"}]
  /\ link \in [Tab -> {"down", "open"}]
  /\ pc \in [Tab -> {"idle", "read", "persist", "remove", "flush"}]
  /\ doc \in [Tab -> SUBSET Change]
  /\ queue \in [Tab -> SUBSET Change] /\ adopted \in [Tab -> SUBSET Change]
  /\ keys \in [Tab -> SUBSET Tab]
  /\ storage \in [Tab -> SUBSET Change]
  /\ wire \in [Tab -> SUBSET Change]
  /\ stored \subseteq Change /\ persisted \subseteq Change
  /\ handed \in [Tab -> SUBSET Change]
  /\ drops \in Nat

Init ==
  /\ life = [t \in Tab |-> "unopened"]
  /\ link = [t \in Tab |-> "down"]
  /\ pc = [t \in Tab |-> "idle"]
  /\ doc = [t \in Tab |-> {}]
  /\ queue = [t \in Tab |-> {}] /\ adopted = [t \in Tab |-> {}]
  /\ keys = [t \in Tab |-> {}]
  /\ storage = [t \in Tab |-> {}]
  /\ wire = [t \in Tab |-> {}]
  /\ stored = {} /\ persisted = {} /\ drops = 0
  /\ handed = [t \in Tab |-> {}]

-----------------------------------------------------------------------------

\* The event loop of a tab is free, and the storage too.
Turn(t) == life[t] = "open" /\ pc[t] = "idle" /\ (Parallel \/ \A u \in Tab : pc[u] = "idle")
During(t, step) == life[t] = "open" /\ pc[t] = step

\* The queue is in the storage, or setItem threw and was ignored.
Persist(t, S) ==
  \/ /\ storage' = [storage EXCEPT ![t] = S]
     /\ persisted' = persisted \cup S
  \/ /\ QuotaFails /\ S # {}
     /\ UNCHANGED <<storage, persisted>>

Hand(t, S) ==
  /\ wire' = [wire EXCEPT ![t] = @ \cup S]
  /\ handed' = [handed EXCEPT ![t] = @ \cup S]

Open(t) ==
  /\ life[t] = "unopened"
  /\ life' = [life EXCEPT ![t] = "open"]
  /\ UNCHANGED <<link, pc, doc, queue, adopted, keys, storage, wire, stored, ghosts, drops>>

Handed == UNION {handed[t] : t \in Tab}

\* A new change, sent or queued.
SendChange(t, c) ==
  /\ Turn(t)
  /\ \A u \in Tab : c \notin doc[u]
  /\ c \notin stored \cup persisted \cup Handed
  /\ doc' = [doc EXCEPT ![t] = @ \cup {c}]
  /\ IF link[t] = "open"
       THEN Hand(t, {c}) /\ UNCHANGED <<queue, storage, persisted>>
       ELSE /\ queue' = [queue EXCEPT ![t] = @ \cup {c}]
            /\ Persist(t, queue[t] \cup {c})
            /\ UNCHANGED <<wire, handed>>
  /\ UNCHANGED <<life, link, pc, adopted, keys, stored, drops>>

\* The server's document is merged, what it lacks is pushed; the adoption
\* and the flush follow in the same task.
Document(t) ==
  /\ Turn(t) /\ link[t] = "down"
  /\ link' = [link EXCEPT ![t] = "open"]
  /\ doc' = [doc EXCEPT ![t] = @ \cup stored]
  /\ Hand(t, doc[t] \ stored)
  /\ pc' = [pc EXCEPT ![t] = "read"]
  /\ UNCHANGED <<life, queue, adopted, keys, storage, stored, persisted, drops>>

\* A mutated adoption that lists its own key only.
AdoptableOwn(t) == {}

\* The keys of other tabs, alive or not.
Adoptable(t) == {u \in Tab \ {t} : storage[u] # {}}

\* A mutated adoption that removes the keys before it re-persists.
FirstRemoves == "remove"

\* First the merged queue under the own key, then the removal.
First == "persist"
Second == IF First = "persist" THEN "remove" ELSE "persist"

After(step) == IF step = First THEN Second ELSE "flush"

ReadKeys(t) ==
  /\ During(t, "read")
  /\ keys' = [keys EXCEPT ![t] = Adoptable(t)]
  /\ adopted' = [adopted EXCEPT ![t] = UNION {storage[u] : u \in Adoptable(t)}]
  /\ pc' = [pc EXCEPT ![t] = IF Adoptable(t) = {} THEN "flush" ELSE First]
  /\ UNCHANGED <<life, link, doc, queue, storage, wire, stored, ghosts, drops>>

PersistMerged(t) ==
  /\ During(t, "persist")
  /\ queue' = [queue EXCEPT ![t] = adopted[t] \cup @]
  /\ Persist(t, adopted[t] \cup queue[t])
  /\ adopted' = [adopted EXCEPT ![t] = {}]
  /\ pc' = [pc EXCEPT ![t] = After("persist")]
  /\ UNCHANGED <<life, link, doc, keys, wire, stored, handed, drops>>

RemoveKeys(t) ==
  /\ During(t, "remove")
  /\ storage' = [u \in Tab |-> IF u \in keys[t] THEN {} ELSE storage[u]]
  /\ keys' = [keys EXCEPT ![t] = {}]
  /\ pc' = [pc EXCEPT ![t] = After("remove")]
  /\ UNCHANGED <<life, link, doc, queue, adopted, wire, stored, ghosts, drops>>

\* Nothing to flush: the key is left as it is.
Flush(t) ==
  /\ During(t, "flush")
  /\ Hand(t, queue[t])
  /\ storage' = IF queue[t] = {} THEN storage ELSE [storage EXCEPT ![t] = {}]
  /\ queue' = [queue EXCEPT ![t] = {}]
  /\ pc' = [pc EXCEPT ![t] = "idle"]
  /\ UNCHANGED <<life, link, doc, adopted, keys, stored, persisted, drops>>

\* The server stores a message and broadcasts it to the tabs.
Store(t) ==
  /\ \E c \in wire[t] :
       /\ stored' = stored \cup {c}
       /\ doc' = [u \in Tab |-> IF link[u] = "open" THEN doc[u] \cup {c} ELSE doc[u]]
       /\ wire' = [wire EXCEPT ![t] = @ \ {c}]
  /\ UNCHANGED <<life, link, pc, queue, adopted, keys, storage, ghosts, drops>>

\* The socket was dead: what was handed to it is gone.
Drop(t) ==
  /\ life[t] = "open" /\ pc[t] = "idle" /\ link[t] = "open" /\ drops < MaxDrops
  /\ link' = [link EXCEPT ![t] = "down"]
  /\ wire' = [wire EXCEPT ![t] = {}]
  /\ drops' = drops + 1
  /\ UNCHANGED <<life, pc, doc, queue, adopted, keys, storage, stored, ghosts>>

\* The tab is closed or killed, between two steps too; its key stays.
Close(t) ==
  /\ life[t] = "open"
  /\ life' = [life EXCEPT ![t] = "closed"]
  /\ link' = [link EXCEPT ![t] = "down"]
  /\ pc' = [pc EXCEPT ![t] = "idle"]
  /\ doc' = [doc EXCEPT ![t] = {}]
  /\ queue' = [queue EXCEPT ![t] = {}]
  /\ adopted' = [adopted EXCEPT ![t] = {}]
  /\ keys' = [keys EXCEPT ![t] = {}]
  /\ UNCHANGED <<storage, wire, stored, ghosts, drops>>

Steps(t) ==
  ReadKeys(t) \/ PersistMerged(t) \/ RemoveKeys(t) \/ Flush(t) \/ Store(t) \/ Document(t)

Next ==
  \E t \in Tab :
    \/ Open(t) \/ Steps(t) \/ Drop(t) \/ Close(t)
    \/ \E c \in Change : SendChange(t, c)

Spec == Init /\ [][Next]_vars

\* A tab's task runs on, tabs reconnect and the server answers; every tab is
\* opened some day.
FairSpec ==
  Spec /\ \A t \in Tab : WF_vars(Open(t)) /\ WF_vars(Steps(t)) /\ SF_vars(Document(t))

-----------------------------------------------------------------------------
(* Properties                                                               *)

InStorage == UNION {storage[t] : t \in Tab}
Live == {t \in Tab : life[t] = "open"}
InMemory == UNION {queue[t] \cup adopted[t] : t \in Live}

\* What was once in the storage and never handed to a socket is in the
\* storage still, or in the memory of a tab that lives (server_client.ts: "a
\* crash between those steps leaves duplicates, never losses"). Every variable
\* has its type.
QueuedIsKept == TypeOK /\ \A c \in persisted \ Handed : c \in InStorage \cup InMemory

\* What a living tab handed to a socket reaches the server, or is still where
\* a later connection takes it from (flushOutbox: "Whatever slips through
\* anyway is caught by the reconnection PUSH").
FlushedIsRecoverable ==
  \A t \in Live : \A c \in handed[t] :
    \/ c \in stored \cup InStorage \cup InMemory \cup doc[t]
    \/ \E u \in Tab : c \in wire[u]

\* A queue that is in the storage when a tab opens is delivered if the tab
\* and its connection stay (server_client.ts: "ORPHAN queues ... are adopted by
\* the next connection to the same project").
OrphansDelivered ==
  \A t \in Tab : \A c \in Change :
    life[t] = "unopened" /\ c \in InStorage ~> c \in stored \/ life[t] = "closed" \/ drops > 0
=============================================================================
