------------------------------ MODULE JamSession ------------------------------
(* The jam (jam.ts): browser tabs of one project negotiate audio connections *)
(* over the signal relay of the server (server_client.ts, websocket.rs). A   *)
(* tab that broadcasts makes a connection for every listener that asks; the  *)
(* handlers of signals await the browser in the middle, the relay loses what *)
(* is sent to a tab that reconnects, listeners ask again every 5 s.          *)
(*                                                                           *)
(* A page that is loaded again is a new tab: its id is drawn at every load.  *)
(* A connection of the browser is named by its number in its tab. Its        *)
(* negotiation is kept (which offer met which answer); ICE candidates travel *)
(* behind the descriptions and are left out: when they are lost, or the      *)
(* networks refuse, the connection fails.                                    *)
EXTENDS Naturals, Sequences, FiniteSets

CONSTANTS
  Tabs,          \* how many pages are loaded; the first two are open at the start
  MaxEvents,     \* how often a user acts, the network fails or a timer is early
  Urls,          \* what the addresses of the two may ask for: pairs of [jam, sync]
  Crowd          \* whether two tabs may listen at the same time

Roles == {"idle", "listening", "broadcasting"}
ASSUME JamAssumption ==
  /\ Tabs \in Nat /\ Tabs >= 2 /\ MaxEvents \in Nat /\ Crowd \in BOOLEAN
  /\ Urls \subseteq [1 .. 2 -> [jam : Roles, sync : BOOLEAN]]

Tab == 1 .. Tabs
None == 0     \* no connection

VARIABLES
  open,         \* the pages that are open
  url,          \* what the address of a page asks for: [jam, sync]
  role,         \* idle, broadcasting or listening
  starting,     \* how often startBroadcastWithAudio awaits its stream
  peers,        \* the connection a tab holds for another, NoPc when it has none
  opened,       \* the connections of a tab that are not closed
  made,         \* how many it made
  relay,        \* relay[u][t]: signals from u under way to t
  mishaps,      \* failures and early timers so far
  acts          \* and what users did

jam == <<open, url, role, starting, peers, opened, made, relay>>

(* A connection: n is its number, st its negotiation, other the number of the *)
(* other tab's connection it was negotiated with.                            *)
Pc(n, st, other) == [n |-> n, st |-> st, other |-> other, conn |-> "new"]
NoPc == Pc(None, "none", None)
Has(t, u) == peers[t][u].n # None
Connected(t, u) == Has(t, u) /\ peers[t][u].conn = "connected"
PeerCount(t) == Cardinality({u \in Tab : Connected(t, u)})

Join == [kind |-> "join"]
Bye == [kind |-> "bye"]
Offer(n) == [kind |-> "offer", sdp |-> n]
Answer(n) == [kind |-> "answer", sdp |-> n]

(* sendSignal: every open tab hears it; directed ones are told by to.         *)
SentTo(q, t, us, ms) ==
  [q EXCEPT ![t] = [u \in Tab |-> IF u \in us \ {t} THEN @[u] \o ms ELSE @[u]]]
Said(q, t, ms) == SentTo(q, t, open, ms)

Act == acts + mishaps < MaxEvents /\ acts' = acts + 1
Mishap == acts + mishaps < MaxEvents /\ mishaps' = mishaps + 1
Calm == UNCHANGED <<acts, mishaps>>

NoPeers == [u \in Tab |-> NoPc]

(* Two listeners that wait answer each other's JOIN with a JOIN, without end: *)
(* it cannot be told from the announcement of a broadcaster.                 *)
MayListen(l) == Crowd \/ Cardinality(l) <= 1

FirstRole(t) == IF t \in open /\ url[t].jam = "listening" THEN "listening" ELSE "idle"
FirstStarting(t) == IF t \in open /\ url[t].jam = "broadcasting" THEN 1 ELSE 0

(* A page listens from its load on, with ?jam=listen, or never. *)
JamInit ==
  /\ open = {1, 2}
  /\ \E pair \in Urls : url = [t \in Tab |-> pair[IF t \in open THEN t ELSE 1]]
  /\ MayListen({t \in open : url[t].jam = "listening"})
  /\ role = [t \in Tab |-> FirstRole(t)] /\ starting = [t \in Tab |-> FirstStarting(t)]
  /\ peers = [t \in Tab |-> NoPeers]
  /\ opened = [t \in Tab |-> {}] /\ made = [t \in Tab |-> 0]
  /\ relay = [t \in Tab |-> [u \in Tab |->
       IF role[t] = "listening" /\ u \in open \ {t} THEN <<Join>> ELSE <<>>]]
  /\ acts = 0 /\ mishaps = 0

-----------------------------------------------------------------------------
(* The user                                                                  *)

(* stop: a bye, and every connection closed. *)
StopJam(t) ==
  /\ role' = [role EXCEPT ![t] = "idle"]
  /\ relay' = Said(relay, t, <<Bye>>)
  /\ peers' = [peers EXCEPT ![t] = NoPeers]
  /\ opened' = [opened EXCEPT ![t] = @ \ {peers[t][u].n : u \in {v \in Tab : Has(t, v)}}]

(* The JAM button: stops a broadcast; else leaves the jam it listens to and  *)
(* asks for a stream to broadcast.                                           *)
PressJam(t) ==
  /\ Act /\ t \in open /\ starting[t] < 2
  /\ IF role[t] = "idle" THEN UNCHANGED <<role, relay, peers, opened>> ELSE StopJam(t)
  /\ starting' = [starting EXCEPT ![t] = IF role[t] = "broadcasting" THEN @ ELSE @ + 1]
  /\ UNCHANGED <<open, url, made, mishaps>>

(* The stream is there: startBroadcast clears what is stale and announces. *)
StreamReady(t) ==
  /\ starting[t] > 0
  /\ starting' = [starting EXCEPT ![t] = @ - 1]
  /\ IF role[t] = "idle"
     THEN role' = [role EXCEPT ![t] = "broadcasting"] /\ relay' = Said(relay, t, <<Bye, Join>>)
     ELSE UNCHANGED <<role, relay>>
  /\ UNCHANGED <<open, url, peers, opened, made>> /\ Calm

(* The page is loaded again, without a bye: a new tab at the same address;    *)
(* words is what it says before its JOIN.                                    *)
Reload(t, u, words) ==
  /\ Act /\ t \in open /\ u \notin open /\ u - 1 \in open /\ \A v \in open : v < u
  /\ open' = (open \ {t}) \cup {u}
  /\ url' = [url EXCEPT ![u] = url[t]]
  /\ role' = [role EXCEPT ![t] = "idle", ![u] = (FirstRole(u))']
  /\ starting' = [starting EXCEPT ![t] = 0, ![u] = (FirstStarting(u))']
  /\ relay' = SentTo([v \in Tab |-> [relay[v] EXCEPT ![t] = <<>>]], u, open',
                     IF role'[u] = "listening" THEN words \o <<Join>> ELSE words)
  /\ peers' = [peers EXCEPT ![t] = NoPeers] /\ opened' = [opened EXCEPT ![t] = {}]
  /\ UNCHANGED <<made, mishaps>>

-----------------------------------------------------------------------------
(* Signals                                                                   *)

(* The connections that stay open when the one held for u is replaced; a     *)
(* mutant forgets to close it.                                               *)
StillOpen(t, u) == opened[t]
NotReplaced(t, u) == IF Has(t, u) THEN opened[t] \ {peers[t][u].n} ELSE opened[t]
NewPeer(t, u, st, other) ==
  /\ made' = [made EXCEPT ![t] = @ + 1]
  /\ peers' = [peers EXCEPT ![t][u] = Pc(made'[t], st, other)]
  /\ opened' = [opened EXCEPT ![t] = NotReplaced(t, u) \cup {made'[t]}]

(* Whom a broadcaster answers: not the one it is connected to already; mutants *)
(* that answer everybody, and nobody they ever had a connection for.           *)
Welcomed(t, u) == TRUE
WelcomedOnce(t, u) == ~Has(t, u)
Welcome(t, u) == ~Connected(t, u)

NothingElse == UNCHANGED <<role, peers, opened, made>>

(* An empty offer: somebody asks to join, or a broadcaster announces itself. *)
HearJoin(t, u, q) ==
  \/ /\ role[t] = "listening" /\ PeerCount(t) = 0 /\ ~Has(t, u)
     /\ relay' = Said(q, t, <<Join>>) /\ NothingElse
  \/ /\ role[t] = "broadcasting" /\ Welcome(t, u)
     /\ NewPeer(t, u, "making", None)
     /\ relay' = q /\ UNCHANGED role
  \/ /\ ~(role[t] = "listening" /\ PeerCount(t) = 0 /\ ~Has(t, u))
     /\ ~(role[t] = "broadcasting" /\ Welcome(t, u))
     /\ relay' = q /\ NothingElse

HearOffer(t, u, n, q) ==
  /\ IF role[t] = "listening"
     THEN NewPeer(t, u, "answering", n) /\ UNCHANGED role
     ELSE NothingElse
  /\ relay' = q

(* The answer is taken for the offer this tab made last, whichever it answers; *)
(* out of turn the browser refuses it and the handler only warns.              *)
HearAnswer(t, u, n, q) ==
  /\ IF Has(t, u) /\ peers[t][u].st = "offered"
     THEN /\ peers' = [peers EXCEPT ![t][u].st = "stable", ![t][u].other = n]
          /\ UNCHANGED <<role, opened, made>>
     ELSE NothingElse
  /\ relay' = q

HearBye(t, u, q) ==
  /\ opened' = [opened EXCEPT ![t] = NotReplaced(t, u)]
  /\ peers' = [peers EXCEPT ![t][u] = NoPc]
  /\ relay' = q
  /\ UNCHANGED <<role, made>>

Signals == {"join", "offer", "answer", "bye"}

(* handleSignal, up to its first await. *)
HearSignal(t, u) ==
  /\ t \in open /\ relay[u][t] # <<>> /\ Head(relay[u][t]).kind \in Signals
  /\ LET m == Head(relay[u][t])
         q == [relay EXCEPT ![u][t] = Tail(@)] IN
     \/ m.kind = "join" /\ HearJoin(t, u, q)
     \/ m.kind = "offer" /\ HearOffer(t, u, m.sdp, q)
     \/ m.kind = "answer" /\ HearAnswer(t, u, m.sdp, q)
     \/ m.kind = "bye" /\ HearBye(t, u, q)
  /\ UNCHANGED <<open, url, starting>> /\ Calm

(* The description is made, if the connection was not closed meanwhile.      *)
Described(t, u) ==
  /\ Has(t, u) /\ peers[t][u].st \in {"making", "answering"}
  /\ LET pc == peers[t][u]
         making == pc.st = "making" IN
     /\ peers' = [peers EXCEPT ![t][u].st = IF making THEN "offered" ELSE "stable"]
     /\ relay' = SentTo(relay, t, open \cap {u}, <<IF making THEN Offer(pc.n) ELSE Answer(pc.n)>>)
  /\ UNCHANGED <<open, url, role, starting, opened, made>> /\ Calm

-----------------------------------------------------------------------------
(* Connections: two that were negotiated with each other find each other.    *)
(* Each end has a state of its own: disconnected while it hears nothing from *)
(* the other, failed when the browser has given up.                          *)

Paired(t, u) ==
  /\ Has(t, u) /\ Has(u, t)
  /\ peers[t][u].st = "stable" /\ peers[t][u].other = peers[u][t].n
  /\ peers[u][t].st = "stable" /\ peers[u][t].other = peers[t][u].n

Connect(t, u) ==
  /\ Paired(t, u)
  /\ peers[t][u].conn = "new" /\ peers[u][t].conn # "failed"
  /\ peers' = [peers EXCEPT ![t][u].conn = "connected"]
  /\ UNCHANGED <<open, url, role, starting, opened, made, relay>> /\ Calm

(* The browser finds out that the other end is gone. *)
PeerLost(t, u) ==
  /\ Connected(t, u) /\ ~(Paired(t, u) /\ peers[u][t].conn # "failed")
  /\ peers' = [peers EXCEPT ![t][u].conn = "failed"]
  /\ UNCHANGED <<open, url, role, starting, opened, made, relay>> /\ Calm

(* The network fails one end: what was connected may come back.              *)
NetworkFails(t, u) ==
  /\ Mishap /\ Paired(t, u) /\ peers[t][u].conn \in {"new", "connected"}
  /\ peers' = [peers EXCEPT ![t][u].conn = IF @ = "connected" THEN "disconnected" ELSE "failed"]
  /\ UNCHANGED <<open, url, role, starting, opened, made, relay, acts>>

(* It does, when the other end is still there, or it is given up. *)
Resume(t, u) ==
  /\ Has(t, u) /\ peers[t][u].conn = "disconnected"
  /\ \E conn \in {"failed"} \cup
         (IF Paired(t, u) /\ peers[u][t].conn # "failed" THEN {"connected"} ELSE {}) :
       peers' = [peers EXCEPT ![t][u].conn = conn]
  /\ UNCHANGED <<open, url, role, starting, opened, made, relay>> /\ Calm

(* A slow receiver skips a signal; a tab that reconnects misses what was sent *)
(* to it meanwhile, and asks again (reassert).                               *)
Skip(t, u) ==
  /\ Mishap /\ relay[u][t] # <<>>
  /\ relay' = [relay EXCEPT ![u][t] = Tail(@)]
  /\ UNCHANGED <<open, url, role, starting, peers, opened, made, acts>>
Asking(t) == role[t] = "listening" /\ PeerCount(t) = 0
Reconnect(t) ==
  /\ Mishap /\ t \in open
  /\ relay' = Said([v \in Tab |-> [relay[v] EXCEPT ![t] = <<>>]], t,
                   IF Asking(t) THEN <<Join>> ELSE <<>>)
  /\ UNCHANGED <<open, url, role, starting, peers, opened, made, acts>>

(* The 5 s timer of a listener. Nothing is under way any more when it fires, *)
(* or it is early.                                                           *)
Settled ==
  \A t, u \in open :
    /\ \A i \in DOMAIN relay[u][t] : relay[u][t][i].kind \notin Signals
    /\ Has(t, u) => peers[t][u].st \notin {"making", "answering"}
    /\ ~(Paired(t, u) /\ peers[t][u].conn = "new" /\ peers[u][t].conn # "failed")
    /\ ~(Connected(t, u) /\ ~Paired(t, u))
Retry(t) ==
  /\ t \in open /\ Asking(t)
  /\ IF Settled THEN Calm ELSE Mishap /\ UNCHANGED acts
  /\ relay' = Said(relay, t, <<Join>>)
  /\ UNCHANGED <<open, url, role, starting, peers, opened, made>>

-----------------------------------------------------------------------------

JamWorks(t) ==
  \/ StreamReady(t) \/ Retry(t)
  \/ \E u \in Tab : HearSignal(t, u) \/ Described(t, u) \/ Connect(t, u)
                  \/ PeerLost(t, u) \/ Resume(t, u)

(* -------------------------------- properties ------------------------------- *)

(* A tab keeps no connection it has lost sight of (it would go on sending the *)
(* jam to somebody), and none once it is out of the jam: newPeer, stop and bye *)
(* close what they replace, also while a handler awaits the browser.          *)
NoStrayConnection ==
  \A t \in Tab : opened[t] = {peers[t][u].n : u \in {v \in Tab : Has(t, v) /\ role[t] # "idle"}}

(* "A retried JOIN from an ALREADY-CONNECTED peer must not tear its live      *)
(* connection down" (jam.ts:212): what both ends see connected ends only when *)
(* the network fails or one of them stops, says bye or closes.                *)
Live(t, u) == Paired(t, u) /\ Connected(t, u) /\ Connected(u, t)
LiveUnlessLeft(t, u) ==
  Live(t, u) => \/ (Live(t, u))'
                \/ mishaps' # mishaps \/ role'[t] # role[t] \/ role'[u] # role[u]
                \/ open' # open
                \/ ~(Has(t, u))' \/ ~(Has(u, t))'

(* A listener that goes on listening to a tab that goes on broadcasting is    *)
(* connected in the end, whatever was lost, replaced or answered out of turn. *)
ListenerHears(t, u) ==
  <>[](t \in open /\ role[t] = "listening" /\ u \in open /\ role[u] = "broadcasting")
    => <>[]Live(t, u)
=============================================================================
