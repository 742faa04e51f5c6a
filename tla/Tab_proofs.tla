------------------------------- MODULE Tab_proofs -------------------------------
(***************************************************************************)
(* What a browser tab keeps going by itself: the connection to its engine  *)
(* (EngineClient), the queue of its unsent changes (Outbox), the journal   *)
(* of undo (UndoJournal) and the hand over it (Gestures).                  *)
(*                                                                         *)
(* The connection, for every number of projects, of lives of the engine,   *)
(* of failures and of acts: one thing at a time leads to the engine - a    *)
(* socket, the reconnection timer, or a token that is being fetched -, so  *)
(* that two sockets never serve one tab.                                   *)
(*                                                                         *)
(* The queue, for every set of tabs and changes and every number of broken *)
(* connections, as long as one tab at a time adopts (~Parallel) and the    *)
(* storage has room (~QuotaFails): a change that was queued and never      *)
(* handed to a socket is never lost, wherever tabs are killed.  Without    *)
(* either hypothesis Outbox.cfg is violated.  The argument follows a change*)
(* from the key that holds it into the key of the tab that adopts it:      *)
(* between the two writes it is under both.                                *)
(*                                                                         *)
(* The journal and the hand, for every document, capacity and sequence of  *)
(* acts: the stacks are bounded and without empty entries, and a gesture   *)
(* is one entry at most, with nothing left pending when the hand is off.   *)
(***************************************************************************)
EXTENDS EngineClient, MCOutbox, FiniteSetTheorems, TLAPS

USE EngineClientAssumption

-----------------------------------------------------------------------------
(* The connection to the engine                                            *)

\* readyState is what connect() and the three handlers of a WebSocket make it.
ReadyStates == ready \in [Socket -> {"free", "connecting", "open"}]

\* One thing at a time leads to the engine: a socket, the timer, or a token that
\* is being fetched.
SocketAlone ==
  /\ timer = 0 /\ refreshing = 0
  /\ \E s \in Socket : \A r \in Socket : Live(r) <=> r = s
WaitsAlone ==
  {timer, refreshing} = {0, 1} /\ \A s \in Socket : ~Live(s)
OneAttempt == SocketAlone \/ WaitsAlone

\* The second connection of a burst is the one after the refresh, whose budget
\* is spent until the timer fires or the engine is heard.
Budget ==
  /\ burst \in 0 .. 2 /\ refreshedOnce \in BOOLEAN
  /\ burst = 2 => refreshedOnce
  /\ refreshing = 1 => refreshedOnce /\ burst <= 1

SocketInv == ReadyStates /\ OneAttempt /\ Budget

\* The page connects as it loads.
LEMMA SocketInitEstablishes == Init => SocketInv
<1> SUFFICES ASSUME Init PROVE SocketInv
  OBVIOUS
<1>1. ReadyStates /\ Budget
  <2>1. burst \in 0 .. 2 /\ burst # 2 /\ refreshing # 1
    BY DEF Init
  <2> QED BY <2>1, Zenon DEF Init, ReadyStates, Budget
<1>2. \A r \in Socket : Live(r) <=> r = 1
  BY DEF Init, Live
<1>3. SocketAlone
  BY <1>2 DEF Init, SocketAlone, Socket
<1> QED BY <1>1, <1>3 DEF SocketInv, OneAttempt

\* connect() with nothing else under way.
LEMMA ConnectPreserves ==
  ASSUME SocketInv, ~SocketAlone, NEW attempt \in 1 .. 2, Connect(attempt),
         timer' = 0, refreshing' = 0,
         refreshedOnce' \in BOOLEAN, attempt = 2 => refreshedOnce'
  PROVE  SocketInv'
  BY DEF Connect, SocketInv, ReadyStates, OneAttempt, SocketAlone, WaitsAlone, Budget,
     Socket, Live

\* onerror and onclose of a connection that never opened: one timer, not two.
LEMMA RefusedPreserves == ASSUME SocketInv, NEW s \in Socket, Refused(s) PROVE SocketInv'
  BY DEF Refused, Scheduled, SocketInv, ReadyStates, OneAttempt, SocketAlone,
     WaitsAlone, Budget, Socket, Live

\* A connection ends: the token is fetched again if that was not tried in this
\* burst, or the timer starts.
LEMMA ClosedPreserves == ASSUME SocketInv, NEW s \in Socket, Closed(s) PROVE SocketInv'
<1>1. timer = 0 /\ refreshing = 0 /\ \A r \in Socket : Live(r) => r = s
  BY DEF Closed, SocketInv, OneAttempt, SocketAlone, WaitsAlone, Live
<1>2. ReadyStates' /\ \A r \in Socket : ~Live(r)'
  BY <1>1 DEF Closed, SocketInv, ReadyStates, Live
<1>3. {timer', refreshing'} = {0, 1} /\ burst' = burst
  BY <1>1 DEF Closed, Scheduled
<1>4. Budget'
  <2>1. CASE ~refreshedOnce /\ refreshedOnce' = TRUE
    <3>1. burst \in 0 .. 2 /\ burst # 2
      BY <2>1, Zenon DEF SocketInv, Budget
    <3>2. burst <= 1
      BY <3>1
    <3> QED BY <1>3, <2>1, <3>1, <3>2, Zenon DEF Budget
  <2>2. CASE refreshedOnce' = refreshedOnce /\ refreshing' = refreshing
    BY <1>3, <2>2, Zenon DEF SocketInv, Budget
  <2> QED BY <2>1, <2>2, Zenon DEF Closed, SpendRefresh
<1> QED BY <1>2, <1>3, <1>4 DEF SocketInv, OneAttempt, WaitsAlone

\* onopen changes nothing but the state of its own socket.
LEMMA OpenedPreserves == ASSUME SocketInv, NEW s \in Socket, Opened(s) PROVE SocketInv'
  BY DEF Opened, client, SocketInv, ReadyStates, OneAttempt, SocketAlone, WaitsAlone,
     Budget, Socket, Live

\* The engine is heard: the budget of the burst is whole again.
LEMMA ReceivesPreserves == ASSUME SocketInv, NEW s \in Socket, TabReceives(s) PROVE SocketInv'
<1>1. SocketAlone
  BY DEF TabReceives, SocketInv, OneAttempt, WaitsAlone, Live
<1>2. SocketAlone' /\ ReadyStates'
  BY <1>1 DEF TabReceives, SocketInv, SocketAlone, ReadyStates, Live
<1>3. Budget'
  <2>1. 0 \in 0 .. 2 /\ 0 # 2 /\ refreshing' # 1
    BY <1>2 DEF SocketAlone
  <2> QED BY <2>1, Zenon DEF TabReceives, Budget
<1> QED BY <1>2, <1>3 DEF SocketInv, OneAttempt

\* The token is there: the second connection of the burst, and the last.
LEMMA RefreshedPreserves == ASSUME SocketInv, Refreshed PROVE SocketInv'
<1>1. refreshing = 1 /\ timer = 0 /\ ~SocketAlone /\ refreshedOnce /\ burst \in 0 .. 1
  BY DEF Refreshed, SocketInv, OneAttempt, SocketAlone, WaitsAlone, Budget
<1> QED BY <1>1, ConnectPreserves DEF Refreshed

\* The timer fires: the first connection of the next burst.
LEMMA TimerPreserves == ASSUME SocketInv, TimerFires PROVE SocketInv'
<1>1. refreshing = 0 /\ timer = 1 /\ ~SocketAlone
  BY DEF TimerFires, SocketInv, OneAttempt, SocketAlone, WaitsAlone
<1>2. Connect(1) /\ timer' = 0 /\ refreshing' = 0
  BY <1>1 DEF TimerFires
<1>3. refreshedOnce' \in BOOLEAN
  BY DEF TimerFires, NewBudget
<1> QED BY <1>1, <1>2, <1>3, ConnectPreserves

\* Without a token there is the timer.
LEMMA RefreshFailsPreserves == ASSUME SocketInv, RefreshFails PROVE SocketInv'
  BY DEF RefreshFails, Scheduled, wire, SocketInv, ReadyStates, OneAttempt, SocketAlone,
     WaitsAlone, Budget, Socket, Live

\* A page that is loaded again starts anew.
LEMMA ReloadPreserves == ASSUME SocketInv, NEW p, Reload(p) PROVE SocketInv'
<1>1. ReadyStates' /\ Budget'
  <2>1. burst' \in 0 .. 2 /\ burst' # 2 /\ refreshing' # 1
    BY DEF Reload
  <2>2. refreshedOnce' = FALSE /\ ReadyStates'
    BY DEF Reload, ReadyStates
  <2> QED BY <2>1, <2>2, Zenon DEF Budget
<1>2. \A r \in Socket : Live(r)' <=> r = 1
  BY DEF Reload, Live
<1>3. SocketAlone'
  BY <1>2 DEF Reload, SocketAlone, Socket
<1> QED BY <1>1, <1>3 DEF SocketInv, OneAttempt

\* All other steps leave the connection, the timer and the budget alone.
Other == UNCHANGED <<ready, timer, refreshing, refreshedOnce, burst>>

\* So they leave the invariant alone.
LEMMA OtherPreserves == SocketInv /\ Other => SocketInv'
  BY DEF Other, SocketInv, ReadyStates, OneAttempt, SocketAlone, WaitsAlone, Budget, Live


\* Which steps these are.
LEMMA Others ==
  \/ ToggleLoop \/ DrawRegion \/ ClearRegion \/ ClaimEngine \/ Export
  \/ EngineStarts \/ EngineDies \/ OtherTabExports \/ OtherTabSwitches
  \/ \E s \in Socket : Drop(s) \/ EngineReceives(s)
  \/ JobEnds \/ Broadcast \/ FetchEnds \/ WatchFires \/ GuardPolls
  \/ UNCHANGED vars
  => Other
<1> USE DEF Other, client
<1>1. ToggleLoop \/ DrawRegion \/ ClearRegion \/ ClaimEngine \/ Export => Other
  BY DEF ToggleLoop, DrawRegion, ClearRegion, ClaimEngine, Export, SendBinary
<1>2. EngineStarts \/ EngineDies \/ OtherTabExports \/ OtherTabSwitches => Other
  BY DEF EngineStarts, EngineDies, OtherTabExports, OtherTabSwitches, wire
<1>3. (\E s \in Socket : Drop(s) \/ EngineReceives(s)) => Other
  BY DEF Drop, EngineReceives
<1>4. JobEnds \/ Broadcast \/ FetchEnds \/ WatchFires \/ GuardPolls => Other
  BY DEF JobEnds, Broadcast, FetchEnds, WatchFires, GuardPolls, wire
<1>5. UNCHANGED vars => Other
  BY DEF vars, wire
<1> QED BY <1>1, <1>2, <1>3, <1>4, <1>5

\* Every step of the tab, of its engine and of the network.
LEMMA SocketNextPreserves == SocketInv /\ [Next]_vars => SocketInv'
  BY OtherPreserves, Others, RefusedPreserves, ClosedPreserves, OpenedPreserves,
     ReceivesPreserves, RefreshedPreserves, TimerPreserves, RefreshFailsPreserves,
     ReloadPreserves
  DEF Next, User, World, Client, Engine, Connection, JoinEngine, VersionReload

\* One thing at a time leads to the engine, in every reachable state (connect,
\* onclose and scheduleReconnect of engine_client.ts).
THEOREM SocketInvariantHolds == Spec => []SocketInv
  BY SocketInitEstablishes, SocketNextPreserves, PTL DEF Spec

\* Then there are never two of them.
LEMMA Alone == SocketInv => SingleConnection
<1> SUFFICES ASSUME SocketInv PROVE SingleConnection
  OBVIOUS
<1> DEFINE L == {s \in Socket : Live(s)}
<1>1. burst <= 2
  BY DEF SocketInv, Budget
<1>2. CASE SocketAlone
  <2>1. PICK s \in Socket : L = {s}
    BY <1>2 DEF SocketAlone
  <2>2. Cardinality(L) = 1
    BY <2>1, FS_Singleton
  <2> QED BY <1>1, <1>2, <2>2 DEF SocketAlone, SingleConnection
<1>3. CASE WaitsAlone
  <2>1. L = {}
    BY <1>3 DEF WaitsAlone
  <2>2. Cardinality(L) = 0
    BY <2>1, FS_EmptySet
  <2>3. refreshing + timer = 1
    BY <1>3 DEF WaitsAlone
  <2>4. {timer, refreshing} \subseteq Int
    BY <1>3 DEF WaitsAlone
  <2> HIDE DEF L
  <2> QED BY <1>1, <2>2, <2>3, <2>4 DEF SingleConnection, L
<1> QED BY <1>2, <1>3 DEF SocketInv, OneAttempt

\* A tab never has two live connections, two timers, or a timer beside a
\* connection, and a burst ends after the second try (engine_client.ts,
\* scheduleReconnect and the refresh of the token).
THEOREM SingleConnectionHolds == Spec => []SingleConnection
  BY SocketInvariantHolds, Alone, PTL

-----------------------------------------------------------------------------
(* The queue of unsent changes                                             *)

USE MailAssumption DEF Mail!OutboxAssumption

\* Only a living tab is in an adoption, and only one.
OneAdopts ==
  \A t, u \in Tab : pc[t] # "idle" => tabLife[t] = "open" /\ (pc[u] # "idle" => t = u)

\* A tab that never lived has no key.
Fresh == \A t \in Tab : tabLife[t] = "unopened" => storage[t] = {}

\* The key of a living tab holds no more than its queue.
Mirrored == \A t \in Tab : tabLife[t] = "open" => storage[t] \subseteq queue[t]

\* The keys an adoption removes are others', read whole, and re-persisted
\* before they are removed.
Adopting ==
  \A t \in Tab :
    /\ pc[t] \in {"persist", "remove"} => t \notin keys[t]
    /\ pc[t] = "persist" => \A u \in keys[t] : storage[u] \subseteq adopted[t]
    /\ pc[t] = "remove" => \A u \in keys[t] : storage[u] \subseteq storage[t]

\* No need of a tab's memory: the storage alone has it.
KeptInStorage ==
  \A c \in persisted : \E t \in Tab : c \in storage[t] \/ c \in handed[t]

MailInv == Mail!TypeOK /\ OneAdopts /\ Fresh /\ Mirrored /\ Adopting /\ KeptInStorage

\* Nothing is waiting at the start.
LEMMA MailInitEstablishes == Mail!Init => MailInv
<1> SUFFICES ASSUME Mail!Init PROVE MailInv
  OBVIOUS
<1>1. Mail!TypeOK
  BY DEF Mail!Init, Mail!TypeOK
<1>2. OneAdopts /\ Fresh /\ Mirrored /\ Adopting /\ KeptInStorage
  BY DEF Mail!Init, OneAdopts, Fresh, Mirrored, Adopting, KeptInStorage
<1> QED BY <1>1, <1>2 DEF MailInv

\* A tab opens without a key of its own.
LEMMA OpenPreserves == ASSUME ~Parallel, ~QuotaFails, MailInv,
  NEW t0 \in Tab, Mail!Open(t0) PROVE MailInv'
<1> USE DEF MailInv, Mail!Open, Mail!tabs, Mail!ghosts
<1>1. Mail!TypeOK'
  BY DEF Mail!TypeOK
<1>2. OneAdopts'
  BY DEF Mail!TypeOK, OneAdopts
<1>3. Fresh' /\ Mirrored'
  BY DEF Mail!TypeOK, OneAdopts, Fresh, Mirrored
<1>4. Adopting'
  BY DEF Mail!TypeOK, OneAdopts, Adopting
<1>5. KeptInStorage'
  BY DEF Mail!TypeOK, KeptInStorage
<1> QED BY <1>1, <1>2, <1>3, <1>4, <1>5

\* A change is queued and persisted, or handed to the socket.
LEMMA SendPreserves == ASSUME ~Parallel, ~QuotaFails, MailInv,
  NEW t0 \in Tab, NEW c0 \in Change,
  Mail!SendChange(t0, c0) PROVE MailInv'
<1> USE DEF MailInv, Mail!SendChange, Mail!Turn, Mail!Persist, Mail!Hand
<1>1. Mail!TypeOK'
  BY DEF Mail!TypeOK
<1>2. OneAdopts'
  BY DEF Mail!TypeOK, OneAdopts
<1>3. Fresh' /\ Mirrored'
  BY DEF Mail!TypeOK, OneAdopts, Fresh, Mirrored
<1>4. Adopting'
  BY DEF Mail!TypeOK, OneAdopts, Adopting
<1>5. KeptInStorage'
  <2> SUFFICES ASSUME NEW c \in persisted'
        PROVE \E t \in Tab : c \in storage'[t] \/ c \in handed'[t]
    BY DEF KeptInStorage
  <2>1. CASE c \in persisted
    <3>1. PICK t \in Tab : c \in storage[t] \/ c \in handed[t]
      BY <2>1 DEF KeptInStorage
    <3>2. storage[t] \subseteq storage'[t] /\ handed[t] \subseteq handed'[t]
      BY DEF Mail!TypeOK, Mirrored
    <3> QED BY <3>1, <3>2
  <2>2. CASE c \notin persisted
    BY <2>2 DEF Mail!TypeOK
  <2> QED BY <2>1, <2>2
<1> QED BY <1>1, <1>2, <1>3, <1>4, <1>5

\* The first document changes neither the storage nor a queue.
LEMMA DocumentPreserves == ASSUME ~Parallel, ~QuotaFails, MailInv,
  NEW t0 \in Tab, Mail!Document(t0) PROVE MailInv'
<1> USE DEF MailInv, Mail!Document, Mail!Turn, Mail!Hand
<1>1. Mail!TypeOK'
  BY DEF Mail!TypeOK
<1>2. OneAdopts'
  BY DEF Mail!TypeOK, OneAdopts
<1>3. Fresh' /\ Mirrored'
  BY DEF Mail!TypeOK, OneAdopts, Fresh, Mirrored
<1>4. Adopting'
  BY DEF Mail!TypeOK, OneAdopts, Adopting
<1>5. KeptInStorage'
  BY DEF Mail!TypeOK, KeptInStorage
<1> QED BY <1>1, <1>2, <1>3, <1>4, <1>5

\* A tab reads the keys of all others, none of which writes now.
LEMMA ReadPreserves == ASSUME ~Parallel, ~QuotaFails, MailInv,
  NEW t0 \in Tab, Mail!ReadKeys(t0) PROVE MailInv'
<1> USE DEF MailInv, Mail!ReadKeys, Mail!During, Mail!Adoptable, Mail!First, Mail!tabs,
            Mail!ghosts
<1>1. Mail!TypeOK'
  BY DEF Mail!TypeOK
<1>2. OneAdopts'
  BY DEF Mail!TypeOK, OneAdopts
<1>3. Fresh' /\ Mirrored'
  BY DEF Mail!TypeOK, OneAdopts, Fresh, Mirrored
<1>4. Adopting'
  BY DEF Mail!TypeOK, OneAdopts, Adopting
<1>5. KeptInStorage'
  BY DEF Mail!TypeOK, KeptInStorage
<1> QED BY <1>1, <1>2, <1>3, <1>4, <1>5

\* The merged queue replaces the key, which held no more than the queue.
LEMMA PersistPreserves == ASSUME ~Parallel, ~QuotaFails, MailInv,
  NEW t0 \in Tab, Mail!PersistMerged(t0) PROVE MailInv'
<1> USE DEF MailInv, Mail!PersistMerged, Mail!During, Mail!Persist, Mail!After,
            Mail!First, Mail!Second
<1>1. Mail!TypeOK'
  BY DEF Mail!TypeOK
<1>2. OneAdopts'
  BY DEF Mail!TypeOK, OneAdopts
<1>3. Fresh' /\ Mirrored'
  BY DEF Mail!TypeOK, OneAdopts, Fresh, Mirrored
<1>4. Adopting'
  BY DEF Mail!TypeOK, OneAdopts, Adopting
<1>5. KeptInStorage'
  <2> SUFFICES ASSUME NEW c \in persisted'
        PROVE \E t \in Tab : c \in storage'[t] \/ c \in handed'[t]
    BY DEF KeptInStorage
  <2>1. CASE c \in persisted
    <3>1. PICK t \in Tab : c \in storage[t] \/ c \in handed[t]
      BY <2>1 DEF KeptInStorage
    <3>2. storage[t] \subseteq storage'[t] /\ handed' = handed
      BY DEF Mail!TypeOK, Mirrored
    <3> QED BY <3>1, <3>2
  <2>2. CASE c \notin persisted
    BY <2>2 DEF Mail!TypeOK
  <2> QED BY <2>1, <2>2
<1> QED BY <1>1, <1>2, <1>3, <1>4, <1>5

\* What the removed keys held is under the own key.
LEMMA RemovePreserves == ASSUME ~Parallel, ~QuotaFails, MailInv,
  NEW t0 \in Tab, Mail!RemoveKeys(t0) PROVE MailInv'
<1> USE DEF MailInv, Mail!RemoveKeys, Mail!During, Mail!After, Mail!First, Mail!Second,
            Mail!tabs, Mail!ghosts
<1>1. Mail!TypeOK'
  BY DEF Mail!TypeOK
<1>2. OneAdopts'
  BY DEF Mail!TypeOK, OneAdopts
<1>3. Fresh' /\ Mirrored'
  BY DEF Mail!TypeOK, OneAdopts, Fresh, Mirrored
<1>4. Adopting'
  BY DEF Mail!TypeOK, OneAdopts, Adopting
<1>5. KeptInStorage'
  <2> SUFFICES ASSUME NEW c \in persisted'
        PROVE \E t \in Tab : c \in storage'[t] \/ c \in handed'[t]
    BY DEF KeptInStorage
  <2>1. PICK t \in Tab : c \in storage[t] \/ c \in handed[t]
    BY DEF KeptInStorage
  <2>2. CASE t \in keys[t0] /\ c \in storage[t]
    BY <2>2 DEF Mail!TypeOK, Adopting
  <2>3. CASE t \notin keys[t0] \/ c \in handed[t]
    BY <2>1, <2>3 DEF Mail!TypeOK
  <2> QED BY <2>1, <2>2, <2>3
<1> QED BY <1>1, <1>2, <1>3, <1>4, <1>5

\* The own key is removed once its changes were handed to the socket.
LEMMA FlushPreserves == ASSUME ~Parallel, ~QuotaFails, MailInv,
  NEW t0 \in Tab, Mail!Flush(t0) PROVE MailInv'
<1> USE DEF MailInv, Mail!Flush, Mail!During, Mail!Hand
<1>1. Mail!TypeOK'
  BY DEF Mail!TypeOK
<1>2. OneAdopts'
  BY DEF Mail!TypeOK, OneAdopts
<1>3. Fresh' /\ Mirrored'
  BY DEF Mail!TypeOK, OneAdopts, Fresh, Mirrored
<1>4. Adopting'
  BY DEF Mail!TypeOK, OneAdopts, Adopting
<1>5. KeptInStorage'
  <2> SUFFICES ASSUME NEW c \in persisted'
        PROVE \E t \in Tab : c \in storage'[t] \/ c \in handed'[t]
    BY DEF KeptInStorage
  <2>1. PICK t \in Tab : c \in storage[t] \/ c \in handed[t]
    BY DEF KeptInStorage
  <2>2. handed[t] \subseteq handed'[t] /\ (t # t0 => storage'[t] = storage[t])
    BY DEF Mail!TypeOK
  <2>3. storage[t0] \subseteq handed'[t0]
    BY DEF Mail!TypeOK, Mirrored
  <2> QED BY <2>1, <2>2, <2>3
<1> QED BY <1>1, <1>2, <1>3, <1>4, <1>5

\* The network touches neither storage nor queues.
LEMMA NetworkPreserves == ASSUME ~Parallel, ~QuotaFails, MailInv,
  NEW t0 \in Tab, Mail!Store(t0) \/ Mail!Drop(t0) PROVE MailInv'
<1> USE DEF MailInv, Mail!Store, Mail!Drop, Mail!ghosts
<1>1. Mail!TypeOK'
  BY DEF Mail!TypeOK
<1>2. OneAdopts'
  BY DEF Mail!TypeOK, OneAdopts
<1>3. Fresh' /\ Mirrored'
  BY DEF Mail!TypeOK, OneAdopts, Fresh, Mirrored
<1>4. Adopting'
  BY DEF Mail!TypeOK, OneAdopts, Adopting
<1>5. KeptInStorage'
  BY DEF Mail!TypeOK, KeptInStorage
<1> QED BY <1>1, <1>2, <1>3, <1>4, <1>5

\* A tab that is killed leaves its key.
LEMMA ClosePreserves == ASSUME ~Parallel, ~QuotaFails, MailInv,
  NEW t0 \in Tab, Mail!Close(t0) PROVE MailInv'
<1> USE DEF MailInv, Mail!Close, Mail!ghosts
<1>1. Mail!TypeOK'
  BY DEF Mail!TypeOK
<1>2. OneAdopts'
  BY DEF Mail!TypeOK, OneAdopts
<1>3. Fresh' /\ Mirrored'
  BY DEF Mail!TypeOK, OneAdopts, Fresh, Mirrored
<1>4. Adopting'
  BY DEF Mail!TypeOK, OneAdopts, Adopting
<1>5. KeptInStorage'
  BY DEF Mail!TypeOK, KeptInStorage
<1> QED BY <1>1, <1>2, <1>3, <1>4, <1>5

\* Every step of the outbox.
LEMMA MailNextPreserves ==
  ~Parallel /\ ~QuotaFails /\ MailInv /\ [Mail!Next]_(Mail!vars) => MailInv'
<1> SUFFICES ASSUME ~Parallel, ~QuotaFails, MailInv, [Mail!Next]_(Mail!vars) PROVE MailInv'
  OBVIOUS
<1>1. CASE UNCHANGED Mail!vars
  BY <1>1 DEF Mail!vars, Mail!tabs, Mail!ghosts, MailInv, Mail!TypeOK, OneAdopts, Fresh,
     Mirrored, Adopting, KeptInStorage
<1>2. CASE Mail!Next
  <2>1. PICK t \in Tab :
           \/ Mail!Open(t) \/ Mail!Steps(t) \/ Mail!Drop(t) \/ Mail!Close(t)
           \/ \E c \in Change : Mail!SendChange(t, c)
    BY <1>2 DEF Mail!Next
  <2> QED
    BY <2>1, OpenPreserves, SendPreserves, DocumentPreserves, ReadPreserves,
       PersistPreserves, RemovePreserves, FlushPreserves, NetworkPreserves,
       ClosePreserves DEF Mail!Steps
<1> QED BY <1>1, <1>2

\* Every conjunct of the inductive invariant holds whenever one tab at a time
\* adopts and setItem does not throw.
THEOREM MailInvariantHolds == ~Parallel /\ ~QuotaFails => (Mail!Spec => []MailInv)
<1> SUFFICES ASSUME ~Parallel, ~QuotaFails PROVE Mail!Spec => []MailInv
  OBVIOUS
<1>1. MailInv /\ [Mail!Next]_(Mail!vars) => MailInv'
  BY MailNextPreserves
<1> QED BY MailInitEstablishes, <1>1, PTL DEF Mail!Spec

\* A change that was in the storage and never handed to a socket is in the
\* storage still (server_client.ts: "a crash between those steps leaves
\* duplicates, never losses").
THEOREM QueuedHolds == ~Parallel /\ ~QuotaFails => (Mail!Spec => []QueuedIsKept)
<1> SUFFICES ASSUME ~Parallel, ~QuotaFails PROVE Mail!Spec => []QueuedIsKept
  OBVIOUS
<1>1. MailInv => QueuedIsKept
  BY DEF MailInv, KeptInStorage, QueuedIsKept, Mail!QueuedIsKept, Mail!InStorage,
     Mail!Handed
<1> QED BY MailInvariantHolds, <1>1, PTL

-----------------------------------------------------------------------------
(* The journal of undo and the hand over it                                *)

CONSTANTS
  Absent, DefaultTempo, MaxEntries, Start, Types, RemoteTypes, Value, Length,
  MaxEdits, MaxIds, Kinds, Orders, Level, MinGap, Scale, PointInPeace, MaxDeeds,
  MaxMoves
VARIABLES
  project, undoStack, redoStack, open, group, undoDocs, redoDocs, origin, exact,
  others, edited, edits, screen, sel, hand, frame, base, deeds, moves

\* The document is called project here, the acts of the user deeds.
History == INSTANCE UndoJournal WITH doc <- project
Hand == INSTANCE Gestures WITH doc <- project, acts <- deeds, MaxActs <- MaxDeeds

\* What Journal assumes of MAX_ENTRIES: an entry that was just made is kept.
HasRoom == MaxEntries \in Nat \ {0}

List(s) == \E S : s \in Seq(S)
\* A stack of undo.ts: bounded, and no entry is empty.
Stack(s) == List(s) /\ Len(s) <= MaxEntries /\ \A i \in 1 .. Len(s) : s[i] # << >>


\* clear() and a journal that was just made.
LEMMA EmptyStacks ==
  ASSUME HasRoom
  PROVE  Stack(<< >>) /\ List(<< >>) /\ Len(<< >>) = 0
<1>1. << >> \in Seq({}) /\ Len(<< >>) = 0
  OBVIOUS
<1> QED BY <1>1 DEF HasRoom, List, Stack

\* What is pushed is on top, on all that still has room.
LEMMA Push ==
  ASSUME HasRoom, NEW s, List(s), Len(s) <= MaxEntries, NEW g, NEW x
  PROVE  LET p == History!Pushed(s, g, x) IN
         /\ List(p) /\ Len(p) <= MaxEntries
         /\ Len(p) = IF g = << >> \/ Len(s) = MaxEntries THEN Len(s) ELSE Len(s) + 1
         /\ Stack(s) /\ (x = << >> => g = << >>) => Stack(p)
<1> USE DEF HasRoom
<1>1. PICK S : s \in Seq(S)
  BY DEF List
<1> DEFINE a == Append(s, x)
<1>2. a \in Seq(S \cup {x}) /\ Len(a) = Len(s) + 1 /\ a[Len(a)] = x
      /\ \A i \in 1 .. Len(s) : a[i] = s[i]
  BY <1>1
<1>3. CASE g = << >>
  BY <1>3 DEF History!Pushed
<1>4. CASE g # << >> /\ Len(s) < MaxEntries
  <2>1. History!Pushed(s, g, x) = a
    BY <1>1, <1>2, <1>4 DEF History!Pushed, History!Bounded
  <2> HIDE DEF a
  <2> QED BY <1>1, <1>2, <1>4, <2>1 DEF List, Stack
<1>5. CASE g # << >> /\ Len(s) = MaxEntries
  <2>1. History!Pushed(s, g, x) = Tail(a)
    BY <1>1, <1>2, <1>5 DEF History!Pushed, History!Bounded
  <2> HIDE DEF a
  <2>2. Tail(a) \in Seq(S \cup {x}) /\ Len(Tail(a)) = Len(s)
        /\ \A i \in 1 .. Len(s) : Tail(a)[i] = a[i + 1]
    BY <1>1, <1>2, <1>5
  <2> QED BY <1>1, <1>2, <1>5, <2>1, <2>2 DEF List, Stack
<1> QED BY <1>1, <1>3, <1>4, <1>5

\* What is popped leaves the rest.
LEMMA Pop ==
  ASSUME HasRoom, NEW s, List(s), s # << >>
  PROVE  LET p == History!Front(s) IN
         /\ List(p) /\ Len(p) = Len(s) - 1 /\ (Stack(s) => Stack(p))
<1>1. PICK S : s \in Seq(S)
  BY DEF List
<1>2. Len(s) \in Nat \ {0}
  BY <1>1
<1>3. History!Front(s) = SubSeq(s, 1, Len(s) - 1)
  BY DEF History!Front
<1> DEFINE p == SubSeq(s, 1, Len(s) - 1)
<1>4. p \in Seq(S) /\ Len(p) = Len(s) - 1 /\ \A i \in 1 .. Len(p) : p[i] = s[i]
  <2>1. \A i \in 1 .. Len(s) - 1 : s[i] \in S
    BY <1>1, <1>2
  <2>2. p = [i \in 1 .. Len(s) - 1 |-> s[i]]
    BY <1>1, <1>2
  <2>3. Len(s) - 1 \in Nat
    BY <1>2
  <2> DEFINE n == Len(s) - 1
  <2> HIDE DEF p, n
  <2>4. p \in [1 .. n -> S]
    BY <2>1, <2>2 DEF n
  <2>5. p \in Seq(S) /\ Len(p) = n
    BY <2>3, <2>4 DEF n
  <2>6. \A i \in 1 .. n : p[i] = s[i]
    BY <2>2 DEF n
  <2> QED BY <2>5, <2>6 DEF n
<1> HIDE DEF p
<1>5. List(p)
  BY <1>4 DEF List
<1>6. Stack(s) => Stack(p)
  BY <1>2, <1>4, <1>5 DEF HasRoom, Stack
<1> QED BY <1>3, <1>4, <1>5, <1>6 DEF p

-----------------------------------------------------------------------------
\* The journal: with the ghost that tells, for every entry, which document it
\* leads back to. Outside a group no inverse waits.
JournalInv ==
  /\ Stack(undoStack) /\ Stack(redoStack) /\ List(undoDocs) /\ List(redoDocs)
  /\ Len(undoStack) = Len(undoDocs) /\ Len(redoStack) = Len(redoDocs)
  /\ open \/ group = << >>

\* The journal of a project that was just opened is empty.
LEMMA JournalInitEstablishes == ASSUME HasRoom, History!Init PROVE JournalInv
  BY EmptyStacks DEF History!Init, JournalInv

\* The stacks and the documents their entries lead back to move together.
Pushes(stack, docs, stack2, docs2) ==
  \E g, x : /\ stack2 = History!Pushed(stack, g, g)
            /\ docs2 = History!Pushed(docs, g, x)

LEMMA PushTogether ==
  ASSUME HasRoom, NEW s, NEW d, NEW s2, NEW d2, Stack(s), List(d), Len(s) = Len(d), Pushes(s, d, s2, d2)
  PROVE  Stack(s2) /\ List(d2) /\ Len(s2) = Len(d2)
<1>1. PICK g, x : s2 = History!Pushed(s, g, g) /\ d2 = History!Pushed(d, g, x)
  BY DEF Pushes
<1>2. List(s) /\ Len(s) <= MaxEntries /\ Len(d) <= MaxEntries
  BY DEF Stack
<1>3. /\ Stack(s2)
      /\ Len(s2) = IF g = << >> \/ Len(s) = MaxEntries THEN Len(s) ELSE Len(s) + 1
  BY <1>1, <1>2, Push
<1>4. /\ List(d2)
      /\ Len(d2) = IF g = << >> \/ Len(d) = MaxEntries THEN Len(d) ELSE Len(d) + 1
  BY <1>1, <1>2, Push
<1> QED BY <1>3, <1>4

\* Every operation of undo.ts, and the merge of a change of others.
LEMMA JournalNextPreserves ==
  ASSUME HasRoom, JournalInv, [History!Next]_(History!vars)
  PROVE  JournalInv'
<1>1. CASE History!Edit
  <2>1. PICK op : LET m == History!Mutate(project, op) IN
       /\ IF open
            THEN /\ group' = History!Kept(group, m.captured)
                 /\ UNCHANGED <<undoStack, undoDocs>>
            ELSE /\ undoStack' = History!Pushed(undoStack, m.captured, m.captured)
                 /\ undoDocs' = History!Pushed(undoDocs, m.captured, History!Before)
                 /\ UNCHANGED group
       /\ IF History!RedoAfter(m.captured) THEN redoStack' = << >> /\ redoDocs' = << >>
                                   ELSE UNCHANGED <<redoStack, redoDocs>>
    BY <1>1 DEF History!Edit
  <2>2. open' = open
    BY <1>1 DEF History!Edit
  <2>3. Stack(redoStack)' /\ List(redoDocs)' /\ (Len(redoStack) = Len(redoDocs))'
    BY <2>1, EmptyStacks DEF JournalInv, Stack, List
  <2>4. CASE open
    BY <2>1, <2>2, <2>3, <2>4 DEF JournalInv, Stack, List
  <2>5. CASE ~open
    <3>1. Pushes(undoStack, undoDocs, undoStack', undoDocs') /\ group' = group
      BY <2>1, <2>5 DEF Pushes
    <3>2. Stack(undoStack') /\ List(undoDocs') /\ Len(undoStack') = Len(undoDocs')
      BY <3>1, PushTogether DEF JournalInv
    <3> QED BY <2>2, <2>3, <2>5, <3>1, <3>2 DEF JournalInv, Stack, List
  <2> QED BY <2>4, <2>5
<1>2. CASE History!Gesture
  <2>1. Pushes(undoStack, undoDocs, undoStack', undoDocs')
    BY <1>2 DEF History!Gesture, Pushes
  <2>2. redoStack' = << >> /\ redoDocs' = << >> /\ group' = << >>
    BY <1>2 DEF History!Gesture
  <2>3. Stack(undoStack') /\ List(undoDocs') /\ Len(undoStack') = Len(undoDocs')
    BY <2>1, PushTogether DEF JournalInv
  <2> QED BY <2>2, <2>3, EmptyStacks DEF JournalInv, Stack, List
<1>3. CASE History!BeginGroup
  BY <1>3 DEF History!BeginGroup, JournalInv, Stack, List
<1>4. CASE History!EndGroup
  <2>1. Pushes(undoStack, undoDocs, undoStack', undoDocs')
    BY <1>4 DEF History!EndGroup, Pushes
  <2>2. Stack(undoStack') /\ List(undoDocs') /\ Len(undoStack') = Len(undoDocs')
    BY <2>1, PushTogether DEF JournalInv
  <2> QED BY <1>4, <2>2 DEF History!EndGroup, JournalInv, Stack, List
<1>5. CASE History!Undo
  <2>1. Pushes(redoStack, redoDocs, redoStack', redoDocs')
    BY <1>5 DEF History!Undo, Pushes
  <2>2. Stack(redoStack') /\ List(redoDocs') /\ Len(redoStack') = Len(redoDocs')
    BY <2>1, PushTogether DEF JournalInv
  <2>3. undoStack # << >> /\ undoDocs # << >>
    BY <1>5 DEF History!Undo, JournalInv, Stack, List
  <2>4. undoStack' = History!Front(undoStack) /\ undoDocs' = History!Front(undoDocs)
    BY <1>5 DEF History!Undo
  <2>5. Stack(undoStack') /\ List(undoDocs') /\ Len(undoStack') = Len(undoDocs')
    BY <2>3, <2>4, Pop DEF JournalInv, Stack
  <2> QED BY <1>5, <2>2, <2>5 DEF History!Undo, JournalInv, Stack, List
<1>6. CASE History!Redo
  <2>1. Pushes(undoStack, undoDocs, undoStack', undoDocs')
    BY <1>6 DEF History!Redo, Pushes
  <2>2. Stack(undoStack') /\ List(undoDocs') /\ Len(undoStack') = Len(undoDocs')
    BY <2>1, PushTogether DEF JournalInv
  <2>3. redoStack # << >> /\ redoDocs # << >>
    BY <1>6 DEF History!Redo, JournalInv, Stack, List
  <2>4. redoStack' = History!Front(redoStack) /\ redoDocs' = History!Front(redoDocs)
    BY <1>6 DEF History!Redo
  <2>5. Stack(redoStack') /\ List(redoDocs') /\ Len(redoStack') = Len(redoDocs')
    BY <2>3, <2>4, Pop DEF JournalInv, Stack
  <2> QED BY <1>6, <2>2, <2>5 DEF History!Redo, JournalInv, Stack, List
<1>7. CASE History!RemoteChange
  <2>1. /\ undoDocs' = [i \in DOMAIN undoDocs |-> Start]
        /\ redoDocs' = [i \in DOMAIN redoDocs |-> Start]
        /\ UNCHANGED <<undoStack, redoStack, open, group>>
    BY <1>7 DEF History!RemoteChange, History!journal
  <2>2. ASSUME NEW d, List(d)
        PROVE  List([i \in DOMAIN d |-> Start]) /\ Len([i \in DOMAIN d |-> Start]) = Len(d)
    <3>1. PICK S : d \in Seq(S)
      BY <2>2 DEF List
    <3>2. DOMAIN d = 1 .. Len(d) /\ Len(d) \in Nat
      BY <3>1
    <3>3. [i \in DOMAIN d |-> Start] \in Seq({Start}) /\ Len([i \in DOMAIN d |-> Start]) = Len(d)
      BY <3>2
    <3> QED BY <3>3 DEF List
  <2>3. List(undoDocs') /\ List(redoDocs') /\ Len(undoDocs') = Len(undoDocs) /\ Len(redoDocs') = Len(redoDocs)
    BY <2>1, <2>2 DEF JournalInv
  <2> QED BY <2>1, <2>3 DEF JournalInv, Stack, List
<1>8. CASE UNCHANGED History!vars
  BY <1>8 DEF History!vars, History!journal, History!ghosts, JournalInv, Stack, List
<1> QED BY <1>1, <1>2, <1>3, <1>4, <1>5, <1>6, <1>7, <1>8 DEF History!Next

\* The stacks of undo.ts after any sequence of edits, gestures, groups, undos,
\* redos and changes of others: never more than MAX_ENTRIES entries, none of them
\* empty (an undo that does nothing), entry and document it leads back to in step
\* even where the oldest are dropped, and no inverse left over once the group is
\* closed. For every capacity, every document and every list of mutators.
THEOREM StacksHold == HasRoom => (History!Spec => []History!StacksOK)
<1> SUFFICES ASSUME HasRoom PROVE History!Spec => []History!StacksOK
  OBVIOUS
<1>1. History!Init => JournalInv
  BY JournalInitEstablishes
<1>2. JournalInv /\ [History!Next]_(History!vars) => JournalInv'
  BY JournalNextPreserves
<1>3. JournalInv => History!StacksOK
  <2> SUFFICES ASSUME JournalInv PROVE History!StacksOK
    OBVIOUS
  <2>1. ASSUME NEW s, Stack(s) PROVE Len(s) <= MaxEntries /\ << >> \notin History!ToSet(s)
    BY <2>1 DEF Stack, List, History!ToSet
  <2> QED BY <2>1 DEF JournalInv, History!StacksOK
<1> QED BY <1>1, <1>2, <1>3, PTL DEF History!Spec

-----------------------------------------------------------------------------
\* The push of the hand's journal is that of the journal.
LEMMA SamePush == \A s, g, x : Hand!Pushed(s, g, x) = History!Pushed(s, g, x)
  BY DEF Hand!Pushed, Hand!Bounded, History!Pushed, History!Bounded

\* So is the pop.
LEMMA SameFront == \A s : Hand!Front(s) = History!Front(s)
  BY DEF Hand!Front, History!Front

\* The hand between two turns of the event loop: a drag has a group open as long
\* as a frame is due, a point and a fader as long as they are held; until it is
\* released the gesture left the stack as it found it.
Held == "kind" \in DOMAIN hand /\ (hand = Hand!None <=> hand.kind = "none")
Ghost == {"stack", "calm"} \subseteq DOMAIN base
GroupIsOpen ==
  /\ hand.kind \in {"point", "fader"} => open
  /\ frame # Hand!None => open /\ ~Hand!Idle
NotYet == ~Hand!Idle /\ base.calm => Hand!Unwritten

HandInv ==
  /\ Stack(undoStack) /\ Stack(redoStack) /\ Held /\ Ghost /\ GroupIsOpen /\ NotYet
  /\ Hand!NothingPending /\ Hand!OneEntry

\* Whatever is taken in the hand has a kind.
LEMMA GripsHaveKinds == \A g \in Hand!Grips : "kind" \in DOMAIN g /\ g.kind # "none"
<1> DEFINE Known(g) == "kind" \in DOMAIN g /\ g.kind # "none"
<1>1. \A k, t, id, from : k # "none" => Known(Hand!Grip(k, t, id, from))
  BY DEF Hand!Grip
<1>2. \A g, a, b, c : Known(g) => Known([g EXCEPT !.lot = a, !.additive = b, !.was = c])
  OBVIOUS
<1>3. \A g, a : Known(g) => /\ Known([g EXCEPT !.additive = a]) /\ Known([g EXCEPT !.from = a])
                            /\ Known([g EXCEPT !.seen = a])
  OBVIOUS
<1> HIDE DEF Known
<1>4. \A g \in Hand!DragGrips : Known(g)
  <2>1. \A x, b : Known(Hand!DragGrip(x, b))
    BY <1>1, <1>2 DEF Hand!DragGrip
  <2>2. \A g \in Hand!DragGrips : \E x, b : g = Hand!DragGrip(x, b)
    BY SMT DEF Hand!DragGrips
  <2> QED BY <2>1, <2>2
<1>5. \A g \in Hand!ResizeGrips \cup Hand!FadeGrips : Known(g)
  <2>1. \A g \in Hand!ResizeGrips : \E k, t, id, from : k # "none" /\ g = Hand!Grip(k, t, id, from)
    BY Zenon DEF Hand!ResizeGrips
  <2>2. \A g \in Hand!FadeGrips : \E k, t, id, from : k # "none" /\ g = Hand!Grip(k, t, id, from)
    BY Zenon DEF Hand!FadeGrips
  <2> QED BY <1>1, <2>1, <2>2
<1>6. \A g \in Hand!TrackGrips \cup Hand!DeviceGrips : Known(g)
  BY <1>1 DEF Hand!TrackGrips, Hand!DeviceGrips
<1>7. \A g \in Hand!LassoGrips \cup Hand!SlotGrips : Known(g)
  <2> DEFINE Lasso(b) == [Hand!Grip("lasso", Absent, Absent, Absent) EXCEPT !.additive = b]
  <2>1. \A g \in Hand!LassoGrips : \E b : g = Lasso(b)
    BY Zenon DEF Hand!LassoGrips
  <2>2. \A b : Known(Lasso(b))
    BY <1>1, <1>3
  <2>3. \A g \in Hand!SlotGrips : \E t, id, a :
          g = [Hand!Grip("slot", t, id, Absent) EXCEPT !.from = a]
    BY Zenon DEF Hand!SlotGrips
  <2>4. \A t, id, a : Known([Hand!Grip("slot", t, id, Absent) EXCEPT !.from = a])
    BY <1>1, <1>3
  <2> HIDE DEF Lasso
  <2>5. \A g \in Hand!LassoGrips : Known(g)
    BY <2>1, <2>2
  <2>6. \A g \in Hand!SlotGrips : Known(g)
    <3> SUFFICES ASSUME NEW g \in Hand!SlotGrips PROVE Known(g)
      OBVIOUS
    <3>1. PICK t, id, a : g = [Hand!Grip("slot", t, id, Absent) EXCEPT !.from = a]
      BY <2>3
    <3> QED BY <2>4, <3>1
  <2> QED BY <2>5, <2>6
<1>8. \A g \in Hand!NoteGrips \cup Hand!PointGrips : Known(g)
  <2>1. \A g \in Hand!NoteGrips : \E k, t, id, from : k # "none" /\ g = Hand!Grip(k, t, id, from)
    <3>1. ASSUME NEW g \in Hand!NoteGrips PROVE \E k \in {"note", "shape"} : \E notes : g = Hand!NotesGrip(k, notes)
      BY <3>1, SMT DEF Hand!NoteGrips
    <3>2. ASSUME NEW g \in Hand!NoteGrips
          PROVE \E k, t, id, from : k # "none" /\ g = Hand!Grip(k, t, id, from)
      <4>1. PICK k \in {"note", "shape"} : \E notes : g = Hand!NotesGrip(k, notes)
        BY <3>1
      <4>2. PICK notes : g = Hand!NotesGrip(k, notes)
        BY <4>1
      <4>3. PICK t, id, from : g = Hand!Grip(k, t, id, from)
        BY <4>2, Zenon DEF Hand!NotesGrip
      <4>4. k # "none"
        OBVIOUS
      <4> QED BY <4>3, <4>4, Zenon
    <3> QED BY <3>2, Zenon
  <2>2. ASSUME NEW g \in Hand!PointGrips PROVE Known(g)
    <3>1. PICK x \in Hand!In1(project, "lanes") :
            g \in {[Hand!Grip("point", x[1], x[2], <<p.t, p.v>>) EXCEPT !.seen = {<<p.t, p.v>>}] :
                    p \in Hand!ToSet(Hand!In(project, x[1], "lanes", x[2]).points)}
      BY Zenon DEF Hand!PointGrips
    <3>2. PICK p : g = [Hand!Grip("point", x[1], x[2], <<p.t, p.v>>) EXCEPT !.seen = {<<p.t, p.v>>}]
      BY <3>1, Zenon
    <3>3. Known(Hand!Grip("point", x[1], x[2], <<p.t, p.v>>))
      BY <1>1
    <3> QED BY <1>3, <3>2, <3>3
  <2> QED BY <1>1, <2>1, <2>2
<1>9. \A g \in Hand!FaderGrips : Known(g)
  BY <1>1 DEF Hand!FaderGrips
<1> QED BY <1>4, <1>5, <1>6, <1>7, <1>8, <1>9 DEF Hand!Grips, Known

\* A tab that was just opened.
LEMMA HandInitEstablishes == ASSUME HasRoom, Hand!Init PROVE HandInv
  BY EmptyStacks DEF Hand!Init, HandInv, Held, Ghost, GroupIsOpen, NotYet, Hand!Idle, Hand!None,
     Hand!NothingPending, Hand!OneEntry, Hand!Unwritten, Stack, List

\* pointerdown: what a gesture takes note of.
LEMMA DownPreserves == ASSUME HasRoom, HandInv, Hand!PointerDown PROVE HandInv'
  BY GripsHaveKinds DEF Hand!PointerDown, HandInv, Held, Ghost, GroupIsOpen, NotYet,
     Hand!Idle, Hand!None, Hand!NothingPending, Hand!OneEntry, Hand!Unwritten, Stack, List

\* While the group is open what is written joins it.
LEMMA WrittenJoins ==
  ASSUME HasRoom, HandInv, NEW calls, Hand!Written(calls), open
  PROVE  undoStack' = undoStack /\ Stack(redoStack')
<1>1. undoStack' = undoStack /\ redoStack' \in {<< >>, redoStack}
  BY DEF Hand!Written
<1> QED BY <1>1, EmptyStacks DEF HandInv

\* A group that is closed is an entry, or leaves none.
LEMMA EnteredOnce ==
  ASSUME HasRoom, HandInv, NEW calls, Hand!Entered(calls)
  PROVE  /\ Stack(undoStack') /\ Stack(redoStack') /\ open' = FALSE /\ group' = << >>
         /\ undoStack' = undoStack \/
              /\ undoStack' # << >>
              /\ undoStack' = Hand!Bounded(Append(undoStack, Hand!Last(undoStack')))
<1>1. PICK g : undoStack' = Hand!Pushed(undoStack, g, g)
  BY DEF Hand!Entered
<1>2. redoStack' \in {<< >>, redoStack} /\ open' = FALSE /\ group' = << >>
  BY DEF Hand!Entered
<1>3. Stack(undoStack')
  BY <1>1, Push, SamePush DEF HandInv, Stack
<1>4. CASE g = << >>
  BY <1>1, <1>2, <1>3, <1>4, EmptyStacks DEF Hand!Pushed, HandInv
<1>5. CASE g # << >>
  <2>1. PICK S : undoStack \in Seq(S)
    BY DEF HandInv, Stack, List
  <2> DEFINE a == Append(undoStack, g)
  <2>2. a \in Seq(S \cup {g}) /\ Len(a) = Len(undoStack) + 1 /\ a[Len(a)] = g /\ Len(undoStack) \in Nat
    BY <2>1
  <2>3. undoStack' = Hand!Bounded(a)
    BY <1>1, <1>5 DEF Hand!Pushed
  <2> HIDE DEF a
  <2>4. CASE Len(a) > MaxEntries
    <3>1. undoStack' = Tail(a) /\ Len(a) >= 2
      BY <2>2, <2>3, <2>4 DEF HasRoom, Hand!Bounded
    <3>2. Len(Tail(a)) = Len(a) - 1 /\ Tail(a) # << >> /\ Tail(a)[Len(a) - 1] = a[Len(a)]
      BY <2>2, <3>1
    <3>3. undoStack' # << >> /\ Hand!Last(undoStack') = g
      BY <2>2, <3>1, <3>2 DEF Hand!Last
    <3> QED BY <1>2, <1>3, <2>3, <3>3, EmptyStacks DEF a, HandInv
  <2>5. CASE ~(Len(a) > MaxEntries)
    <3>1. undoStack' = a
      BY <2>3, <2>5 DEF Hand!Bounded
    <3>2. a # << >> /\ Hand!Last(a) = g
      BY <2>2 DEF Hand!Last
    <3> QED BY <1>2, <1>3, <2>3, <3>1, <3>2, EmptyStacks DEF a, HandInv
  <2> QED BY <2>4, <2>5
<1> QED BY <1>4, <1>5

\* The hand keeps its kind while it moves.
LEMMA SameKind ==
  ASSUME Held, ~Hand!Idle, NEW h, DOMAIN h = DOMAIN hand, h.kind = hand.kind, hand' = h
  PROVE  Held' /\ ~Hand!Idle' /\ hand'.kind = hand.kind
  BY DEF Held, Hand!Idle, Hand!None

\* So it does when it aims somewhere.
LEMMA AimsKeepKind ==
  ASSUME Held, NEW aim
  PROVE  LET h == Hand!Aimed(hand, aim) IN DOMAIN h = DOMAIN hand /\ h.kind = hand.kind
  BY DEF Held, Hand!Aimed

\* pointermove: a drag schedules a write, a note, a point and a fader write.
LEMMA MovePreserves == ASSUME HasRoom, HandInv, Hand!Move PROVE HandInv'
<1>1. base' = base /\ Held
  BY DEF Hand!Move, HandInv
<1>2. ASSUME ~Hand!Idle, hand'.kind = hand.kind, Held', ~Hand!Idle', Stack(undoStack'), Stack(redoStack'),
             undoStack' = undoStack, open' = TRUE \/ open' = open, frame' = frame \/ open' = TRUE
      PROVE  HandInv'
  BY <1>1, <1>2 DEF HandInv, Ghost, GroupIsOpen, NotYet, Hand!Unwritten, Hand!NothingPending, Hand!OneEntry
<1>3. ASSUME NEW x PROVE /\ DOMAIN [hand EXCEPT !.moved = TRUE] = DOMAIN hand
                         /\ [hand EXCEPT !.moved = TRUE].kind = hand.kind
  BY <1>1 DEF Held
<1>4. CASE Hand!MoveDrag
  <2>1. PICK aim : hand' = Hand!Aimed(hand, aim)
    BY <1>4 DEF Hand!MoveDrag
  <2>2. DOMAIN hand' = DOMAIN hand /\ hand'.kind = hand.kind
    BY <1>1, <2>1, AimsKeepKind
  <2>4. ~Hand!Idle
    BY <1>4 DEF Hand!MoveDrag
  <2>5. Held' /\ ~Hand!Idle' /\ hand'.kind = hand.kind
    BY <1>1, <2>2, <2>4, SameKind
  <2>6. undoStack' = undoStack /\ redoStack' = redoStack /\ open' = TRUE
    BY <1>4 DEF Hand!MoveDrag
  <2> QED BY <1>2, <2>4, <2>5, <2>6 DEF HandInv
<1>5. CASE Hand!MoveOver
  <2>1. PICK aim : hand' = Hand!Aimed(hand, aim)
    BY <1>5 DEF Hand!MoveOver
  <2>2. DOMAIN hand' = DOMAIN hand /\ hand'.kind = hand.kind
    BY <1>1, <2>1, AimsKeepKind
  <2>4. ~Hand!Idle
    BY <1>5 DEF Hand!MoveOver
  <2>5. Held' /\ ~Hand!Idle' /\ hand'.kind = hand.kind
    BY <1>1, <2>2, <2>4, SameKind
  <2>6. undoStack' = undoStack /\ redoStack' = redoStack /\ open' = open /\ frame' = frame
    BY <1>5 DEF Hand!MoveOver, Hand!journal
  <2> QED BY <1>2, <2>4, <2>5, <2>6 DEF HandInv
<1>6. CASE Hand!MoveLasso
  <2>1. ~Hand!Idle /\ hand' = [hand EXCEPT !.moved = TRUE]
    BY <1>6 DEF Hand!MoveLasso
  <2>2. Held' /\ ~Hand!Idle' /\ hand'.kind = hand.kind
    BY <1>1, <1>3, <2>1, SameKind
  <2>3. undoStack' = undoStack /\ redoStack' = redoStack /\ open' = open /\ frame' = frame
    BY <1>6 DEF Hand!MoveLasso, Hand!journal
  <2> QED BY <1>2, <2>1, <2>2, <2>3 DEF HandInv
<1>7. CASE Hand!MoveNote
  <2>1. ~Hand!Idle /\ hand' = [hand EXCEPT !.moved = TRUE]
    BY <1>7 DEF Hand!MoveNote
  <2>2. Held' /\ ~Hand!Idle' /\ hand'.kind = hand.kind
    BY <1>1, <1>3, <2>1, SameKind
  <2>3. undoStack' = undoStack /\ redoStack' \in {<< >>, redoStack} /\ open' = TRUE /\ frame' = frame
    BY <1>7 DEF Hand!MoveNote
  <2> QED BY <1>2, <2>1, <2>2, <2>3, EmptyStacks DEF HandInv
<1>8. CASE Hand!MovePoint
  <2>1. PICK p : hand' = IF Hand!PointCalls(project, hand, p) = << >> THEN [hand EXCEPT !.moved = TRUE]
                         ELSE [hand EXCEPT !.moved = TRUE, !.to = p, !.seen = @ \cup {p}]
    BY <1>8 DEF Hand!MovePoint
  <2>2. ~Hand!Idle /\ hand.kind = "point" /\ \E calls : Hand!Written(calls)
    BY <1>8 DEF Hand!MovePoint
  <2>3. DOMAIN hand' = DOMAIN hand /\ hand'.kind = hand.kind
    BY <1>1, <2>1 DEF Held
  <2>4. Held' /\ ~Hand!Idle' /\ hand'.kind = hand.kind
    BY <1>1, <2>2, <2>3, SameKind
  <2>5. undoStack' = undoStack /\ Stack(redoStack')
    BY <2>2, WrittenJoins DEF HandInv, GroupIsOpen
  <2>6. open' = open /\ frame' = frame
    BY <1>8 DEF Hand!MovePoint
  <2> QED BY <1>2, <2>2, <2>4, <2>5, <2>6 DEF HandInv
<1>9. CASE Hand!MoveFader
  <2>1. ~Hand!Idle /\ hand' = [hand EXCEPT !.moved = TRUE]
    BY <1>9 DEF Hand!MoveFader
  <2>2. Held' /\ ~Hand!Idle' /\ hand'.kind = hand.kind
    BY <1>1, <1>3, <2>1, SameKind
  <2>3. undoStack' = undoStack /\ Stack(redoStack')
    BY <1>9, WrittenJoins DEF Hand!MoveFader, HandInv, GroupIsOpen
  <2>4. open' = open /\ frame' = frame
    BY <1>9 DEF Hand!MoveFader
  <2> QED BY <1>2, <2>1, <2>2, <2>3, <2>4 DEF HandInv
<1> QED BY <1>4, <1>5, <1>6, <1>7, <1>8, <1>9 DEF Hand!Move

\* requestAnimationFrame: the drag writes into its group.
LEMMA FramePreserves == ASSUME HasRoom, HandInv, Hand!Frame PROVE HandInv'
<1>1. open /\ ~Hand!Idle /\ \E calls : Hand!Written(calls)
  BY DEF Hand!Frame, HandInv, GroupIsOpen
<1>2. undoStack' = undoStack /\ Stack(redoStack')
  BY <1>1, WrittenJoins
<1>3. open' = open /\ hand' = hand /\ base' = base /\ frame' = Hand!None
  BY DEF Hand!Frame
<1> QED BY <1>1, <1>2, <1>3 DEF HandInv, Held, Ghost, GroupIsOpen, NotYet, Hand!Idle,
       Hand!NothingPending, Hand!OneEntry, Hand!Unwritten

\* The hand is off.
Off == hand' = Hand!None /\ frame' = Hand!None

\* What was pending is written, then the group is closed.
LEMMA OffPreserves ==
  ASSUME HasRoom, HandInv, ~Hand!Idle, Off, NEW calls, Hand!Entered(calls),
         base'.stack = base.stack, base'.calm = base.calm, DOMAIN base' = DOMAIN base
  PROVE  HandInv'
<1>1. Hand!Idle' /\ hand'.kind = "none" /\ "kind" \in DOMAIN hand'
  BY DEF Off, Hand!Idle, Hand!None
<1>2. base.calm => undoStack = base.stack
  BY DEF HandInv, NotYet, Hand!Unwritten
<1>3. base'.calm => Hand!Unwritten' \/ Hand!OneMore'
  BY <1>2, EnteredOnce DEF Hand!Unwritten, Hand!OneMore
<1> QED BY <1>1, <1>3, EnteredOnce DEF Off, HandInv, Held, Ghost, GroupIsOpen, NotYet,
       Hand!NothingPending, Hand!OneEntry

\* pointerup and Escape.
LEMMA ReleasePreserves == ASSUME HasRoom, HandInv, Hand!Release \/ Hand!Escape PROVE HandInv'
<1>1. ~Hand!Idle /\ Off /\ \E calls : Hand!Entered(calls)
  BY DEF Hand!Release, Hand!Escape, Off, Hand!Cancel
<1>2. base' = base \/ base' = [base EXCEPT !.escaped = TRUE]
  BY DEF Hand!Release, Hand!Escape
<1>3. base'.stack = base.stack /\ base'.calm = base.calm /\ DOMAIN base' = DOMAIN base
  BY <1>2 DEF HandInv, Ghost
<1> QED BY <1>1, <1>3, OffPreserves

\* What is done with the hand off, or by others.
LEMMA OverPreserves ==
  ASSUME HandInv, base' = Hand!Over(base), Held', Stack(undoStack'), Stack(redoStack'),
         GroupIsOpen', Hand!NothingPending'
  PROVE  HandInv'
<1>1. base'.calm = FALSE /\ DOMAIN base' = DOMAIN base
  BY DEF HandInv, Ghost, Hand!Over
<1> QED BY <1>1 DEF HandInv, Ghost, NotYet, Hand!OneEntry

\* A command is a gesture of one turn.
LEMMA CommandPreserves == ASSUME HasRoom, HandInv, Hand!Command PROVE HandInv'
<1>1. Hand!Idle /\ frame = Hand!None /\ UNCHANGED <<hand, frame>> /\ base' = Hand!Over(base)
  BY DEF Hand!Command
<1>2. \E calls : Hand!Entered(calls)
  BY DEF Hand!Command
<1>3. Stack(undoStack') /\ Stack(redoStack') /\ open' = FALSE /\ group' = << >>
  BY <1>2, EnteredOnce
<1>4. Held' /\ GroupIsOpen' /\ Hand!NothingPending'
  BY <1>1, <1>3 DEF HandInv, Held, GroupIsOpen, Hand!NothingPending, Hand!Idle, Hand!None
<1> QED BY <1>1, <1>3, <1>4, OverPreserves

\* Undo and redo move an entry across.
LEMMA HistoryPreserves == ASSUME HasRoom, HandInv, Hand!Undo \/ Hand!Redo PROVE HandInv'
<1>1. /\ Hand!Idle /\ frame = Hand!None /\ UNCHANGED <<hand, frame, open, group>>
      /\ base' = Hand!Over(base)
  BY DEF Hand!Undo, Hand!Redo
<1>2. Stack(undoStack') /\ Stack(redoStack')
  <2>1. ASSUME NEW s, Stack(s), s # << >> PROVE Stack(Hand!Front(s))
    BY <2>1, Pop, SameFront DEF Stack
  <2>2. ASSUME NEW s, Stack(s), NEW g PROVE Stack(Hand!Pushed(s, g, g))
    BY <2>2, Push, SamePush DEF Stack
  <2>3. CASE Hand!Undo
    <3>1. PICK g : redoStack' = Hand!Pushed(redoStack, g, g)
      BY <2>3 DEF Hand!Undo
    <3>2. undoStack # << >> /\ undoStack' = Hand!Front(undoStack)
      BY <2>3 DEF Hand!Undo
    <3> QED BY <2>1, <2>2, <3>1, <3>2 DEF HandInv
  <2>4. CASE Hand!Redo
    <3>1. PICK g : undoStack' = Hand!Pushed(undoStack, g, g)
      BY <2>4 DEF Hand!Redo
    <3>2. redoStack # << >> /\ redoStack' = Hand!Front(redoStack)
      BY <2>4 DEF Hand!Redo
    <3> QED BY <2>1, <2>2, <3>1, <3>2 DEF HandInv
  <2> QED BY <2>3, <2>4
<1>3. Held' /\ GroupIsOpen' /\ Hand!NothingPending'
  BY <1>1 DEF HandInv, Held, GroupIsOpen, Hand!NothingPending, Hand!Idle, Hand!None
<1> QED BY <1>1, <1>2, <1>3, OverPreserves

\* A change of others takes an element off the screen, at most.
LEMMA RemotePreserves == ASSUME HasRoom, HandInv, PointInPeace, Hand!RemoteChange PROVE HandInv'
<1>1. base' = Hand!Over(base) /\ UNCHANGED <<undoStack, redoStack, open, group, frame>>
      /\ hand' = Hand!TornBy(sel)
  BY DEF Hand!RemoteChange, Hand!journal
<1>2. Hand!Idle \/ hand.kind # "point"
  BY DEF Hand!RemoteChange
<1>3. hand' = hand \/ (~Hand!Idle /\ hand' = [hand EXCEPT !.torn = TRUE])
  BY <1>1, <1>2 DEF Hand!TornBy
<1>4. Held' /\ (Hand!Idle' <=> Hand!Idle) /\ hand'.kind = hand.kind
  <2>1. CASE hand' = hand
    BY <2>1 DEF HandInv, Held, Hand!Idle
  <2>2. CASE ~Hand!Idle /\ hand' = [hand EXCEPT !.torn = TRUE]
    <3>1. DOMAIN hand' = DOMAIN hand /\ hand'.kind = hand.kind
      BY <2>2 DEF HandInv, Held
    <3> QED BY <2>2, <3>1, SameKind DEF HandInv
  <2> QED BY <1>3, <2>1, <2>2
<1>5. GroupIsOpen' /\ Hand!NothingPending'
  BY <1>1, <1>4 DEF HandInv, GroupIsOpen, Hand!NothingPending
<1>6. Stack(undoStack') /\ Stack(redoStack')
  BY <1>1 DEF HandInv
<1> QED BY <1>1, <1>4, <1>5, <1>6, OverPreserves

\* A gesture over the journal, with every handler of the pointer, every command,
\* and the changes of others arriving between any two of them: nothing waits for
\* an animation frame, no group is open and no inverse is left over once the hand
\* is off (a later edit would join the wrong entry); and a gesture nobody
\* interfered with left one entry on the stack as it was, or none - also where the
\* stack was full and the oldest entry fell out. It needs PointInPeace: a rebuild
\* of the lane drops a point that is held with its group open.
THEOREM GestureIsOneEntry ==
  HasRoom /\ PointInPeace => (Hand!Spec => [](Hand!NothingPending /\ Hand!OneEntry))
<1> SUFFICES ASSUME HasRoom, PointInPeace
             PROVE  Hand!Spec => [](Hand!NothingPending /\ Hand!OneEntry)
  OBVIOUS
<1>1. HandInv /\ [Hand!Next]_(Hand!vars) => HandInv'
  <2> SUFFICES ASSUME HandInv, [Hand!Next]_(Hand!vars) PROVE HandInv'
    OBVIOUS
  <2>1. CASE UNCHANGED Hand!vars
    BY <2>1 DEF Hand!vars, Hand!journal, HandInv, Held, Ghost, GroupIsOpen, NotYet, Hand!Idle,
       Hand!NothingPending, Hand!OneEntry, Hand!Unwritten, Hand!OneMore
  <2> QED BY <2>1, DownPreserves, MovePreserves, FramePreserves, ReleasePreserves,
         CommandPreserves, HistoryPreserves, RemotePreserves DEF Hand!Next
<1>2. Hand!Init => HandInv
  BY HandInitEstablishes
<1>3. HandInv => Hand!NothingPending /\ Hand!OneEntry
  BY DEF HandInv
<1> QED BY <1>1, <1>2, <1>3, PTL DEF Hand!Spec

=============================================================================
