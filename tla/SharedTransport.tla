--------------------------- MODULE SharedTransport ---------------------------
(* The session of browser tabs: the jam (JamSession) and the shared transport *)
(* (transport_sync.ts, session_clock.ts) over one relay. Play and stop travel *)
(* as anchors, the newest wins, ties go to the larger peer id; a tab that     *)
(* switches SYNC on asks the others where the performance is; who listens to  *)
(* the jam is not driven.                                                    *)
(*                                                                           *)
(* A time is a number of publications: two may happen at the same time. The  *)
(* position of an anchor is a function of its time and is left out. A tab    *)
(* translates times with its estimate of the sender's clock, wrong by a      *)
(* member of Error. Each tab has an engine of its own.                       *)
EXTENDS JamSession, Integers

CONSTANTS
  Error,    \* by how much an estimate of a clock may be wrong
  Hasty     \* whether users press buttons before they see the effect of others

ASSUME TransportAssumption == Error \subseteq Int /\ Hasty \in BOOLEAN

VARIABLES
  armed,      \* SYNC is on
  link,       \* the engine is connected
  playing,    \* the engine of the tab plays
  last,       \* the last anchor the tab took, in its own time
  pending,    \* an anchor that waits for the estimate of a clock
  clock,      \* clock[t][u]: the error of t's estimate of u's clock, once there is one
  now,        \* the time
  newest,     \* the newest anchor published
  audience    \* the tabs that heard it or are going to

transport == <<armed, link, playing, last, pending, clock, now, newest, audience>>
vars == <<jam, acts, mishaps, transport>>

NoAnchor == [kind |-> "none", playing |-> FALSE, at |-> 0, from |-> None]
Anchor(kind, t, p, at) == [kind |-> kind, playing |-> p, at |-> at, from |-> t]
Where == [kind |-> "where"]

Listening(t) == role[t] = "listening"
Driven(t) == armed[t] /\ link[t] /\ ~Listening(t)

Init ==
  /\ JamInit
  /\ armed = [t \in Tab |-> t \in open /\ url[t].sync]
  /\ link = [t \in Tab |-> t \in open]
  /\ playing = [t \in Tab |-> FALSE]
  /\ last = [t \in Tab |-> NoAnchor] /\ pending = last
  /\ clock \in [Tab -> [Tab -> {{}} \cup {{e} : e \in Error}]]
  /\ \A t, u \in Tab : clock[t][u] = {} <=> ~(t # u /\ {t, u} \subseteq open)
  /\ now = 0 /\ newest = NoAnchor /\ audience = {}

-----------------------------------------------------------------------------
(* Users. One who is not hasty waits until what is asked and answered has     *)
(* arrived, and sees the engine's state (telemetry) before acting on it.     *)
(* The jam and the transport share the relay and the roles only: what users  *)
(* do for one of them waits until the other is at rest.                      *)

UnderWay(kinds) == \E t, u \in Tab : \E i \in DOMAIN relay[u][t] : relay[u][t][i].kind \in kinds
Waiting == \E t \in Tab : pending[t] # NoAnchor
JamRests == Settled /\ \A t \in Tab : starting[t] = 0
TransportRests == ~UnderWay({"where", "rejoin", "anchor"}) /\ ~Waiting
MayPress == JamRests /\ (Hasty \/ ~UnderWay({"where", "rejoin"}))
MayArm == JamRests /\ (Hasty \/ TransportRests)
SeenPlaying(t) == IF Hasty THEN BOOLEAN ELSE {playing[t]}

ToggleSync(t) ==
  /\ Act /\ t \in open
  /\ armed[t] \/ MayArm
  /\ armed' = [armed EXCEPT ![t] = ~@]
  /\ pending' = [pending EXCEPT ![t] = IF armed[t] THEN NoAnchor ELSE @]
  /\ relay' = IF armed[t] THEN relay ELSE Said(relay, t, <<Where>>)
  /\ audience' = audience \ {t}
  /\ UNCHANGED <<open, url, role, starting, peers, opened, made, mishaps,
                 link, playing, last, clock, now, newest>>

(* When something is said: after whatever the tab has heard, but an anchor    *)
(* under way may have been said at the same time (crossing). Hasty users may *)
(* be as quick as the relay.                                                 *)
Moment(crossing) ==
  IF Hasty \/ (crossing /\ UnderWay({"anchor"})) THEN {now, now + 1} ELSE {now + 1}
Newer(a, b) == a.at > b.at \/ (a.at = b.at /\ a.from > b.from)

(* publish: no tab hears an anchor before the time it was published at. *)
Publish(t, p) ==
  IF ~armed[t] THEN UNCHANGED <<relay, last, now, newest, audience>>
  ELSE \E at \in Moment(last[t].at < now) :
         LET mine == Anchor("anchor", t, p, at) IN
         /\ now' = at
         /\ relay' = Said(relay, t, <<mine>>)
         /\ last' = [last EXCEPT ![t] = mine]
         /\ IF Newer(mine, newest)
            THEN /\ newest' = mine
                 /\ audience' = {u \in open : armed[u] /\ link[u] /\ ~Listening(u)} \cup {t}
            ELSE UNCHANGED <<newest, audience>>

(* startPlayback: refused to a listener. *)
Play(t) ==
  /\ Act /\ t \in open /\ link[t] /\ ~Listening(t) /\ MayPress
  /\ playing' = [playing EXCEPT ![t] = TRUE]
  /\ Publish(t, TRUE)
  /\ UNCHANGED <<open, url, role, starting, peers, opened, made, mishaps,
                 armed, link, pending, clock>>

(* stopPlayback: stops what the tab has seen playing; else goes home.  *)
Stop(t) ==
  /\ Act /\ t \in open /\ link[t] /\ MayPress
  /\ \E seen \in SeenPlaying(t) :
       playing' = [playing EXCEPT ![t] = IF seen THEN FALSE ELSE @]
  /\ Publish(t, FALSE)
  /\ UNCHANGED <<open, url, role, starting, peers, opened, made, mishaps,
                 armed, link, pending, clock>>

-----------------------------------------------------------------------------
(* Anchors                                                                   *)

(* Whether an anchor is older than the one taken last; a mutant that forgets *)
(* whom ties go to.                                                          *)
OlderUntied(from, at, taken) == taken.kind # "none" /\ at < taken.at
Older(from, at, taken) ==
  taken.kind # "none" /\ (at < taken.at \/ (at = taken.at /\ from < taken.from))

(* Whether the transport of a tab is out of the game. *)
Suspended(t) == Listening(t)

(* tryApply, once the sender's clock is estimated. *)
Apply(t, a) ==
  \E e \in clock[t][a.from] :
    LET at == a.at + e
        taken == ~Older(a.from, at, last[t]) IN
    /\ last' = IF taken THEN [last EXCEPT ![t] = [a EXCEPT !.at = at, !.kind = "anchor"]] ELSE last
    /\ playing' = IF taken /\ ~Suspended(t) /\ link[t]
                  THEN [playing EXCEPT ![t] = a.playing] ELSE playing

(* One slot: an anchor that waits is replaced by the next one. *)
TakeAnchor(t, a) ==
  IF ~armed[t] THEN UNCHANGED <<pending, last, playing>>
  ELSE IF clock[t][a.from] = {}
  THEN pending' = [pending EXCEPT ![t] = a] /\ UNCHANGED <<last, playing>>
  ELSE pending' = [pending EXCEPT ![t] = NoAnchor] /\ Apply(t, a)

(* A request is answered from the live engine, by who is armed and plays.    *)
AnswerWhere(t, u, q) ==
  \E seen \in SeenPlaying(t) :
    IF ~armed[t] \/ Suspended(t) \/ ~link[t] \/ ~seen
    THEN relay' = q /\ UNCHANGED <<now, newest, audience>>
    ELSE \E at \in Moment(TRUE) :
           LET a == Anchor("rejoin", t, TRUE, at)
               asking == {t} \cup {v \in {u} \cap open : Driven(v)} IN
           /\ now' = at
           /\ relay' = SentTo(q, t, open \cap {u}, <<a>>)
           /\ IF Newer(a, newest)
              THEN newest' = a /\ audience' = asking \cup IF newest.playing THEN audience ELSE {}
              ELSE UNCHANGED <<newest, audience>>

HearTransport(t, u) ==
  /\ t \in open /\ relay[u][t] # <<>>
  /\ LET m == Head(relay[u][t])
         q == [relay EXCEPT ![u][t] = Tail(@)] IN
     \/ /\ m.kind = "where" /\ AnswerWhere(t, u, q)
        /\ UNCHANGED <<pending, last, playing>>
     \/ /\ m.kind \in {"anchor", "rejoin"} /\ relay' = q
        /\ TakeAnchor(t, m)
        /\ UNCHANGED <<now, newest, audience>>
  /\ UNCHANGED <<open, url, role, starting, peers, opened, made, acts, mishaps,
                 armed, link, clock>>

(* The retry of an anchor that waited, once a pong has come. *)
RetryApply(t) ==
  /\ pending[t] # NoAnchor /\ clock[t][pending[t].from] # {}
  /\ pending' = [pending EXCEPT ![t] = NoAnchor]
  /\ Apply(t, pending[t])
  /\ UNCHANGED <<jam, acts, mishaps, armed, link, clock, now, newest, audience>>

(* A pong, looked at when an anchor waits for it: an estimate that was there  *)
(* when the anchor came does the same.                                       *)
Measure(t, u) ==
  /\ {t, u} \subseteq open /\ pending[t].from = u /\ clock[t][u] = {}
  /\ \E e \in Error : clock' = [clock EXCEPT ![t][u] = {e}]
  /\ UNCHANGED <<jam, acts, mishaps, armed, link, playing, last, pending, now, newest, audience>>

-----------------------------------------------------------------------------
(* Engines                                                                   *)

(* The page connects to the engine after it has joined the session; the jam   *)
(* does not depend on when.                                                  *)
EngineLinks(t) ==
  /\ t \in open /\ ~link[t] /\ (JamRests \/ ~TransportRests)
  /\ link' = [link EXCEPT ![t] = TRUE]
  /\ UNCHANGED <<jam, acts, mishaps, armed, playing, last, pending, clock, now, newest, audience>>

(* A page loaded again finds its engine as it left it. *)
ReloadPage(t, u) ==
  /\ Reload(t, u, IF url[t].sync THEN <<Where>> ELSE <<>>)
  /\ url[t].sync => MayArm
  /\ armed' = [armed EXCEPT ![t] = FALSE, ![u] = url[t].sync]
  /\ link' = [link EXCEPT ![t] = FALSE]
  /\ playing' = [playing EXCEPT ![t] = FALSE, ![u] = playing[t]]
  /\ last' = [last EXCEPT ![t] = NoAnchor] /\ pending' = [pending EXCEPT ![t] = NoAnchor]
  /\ clock' = [v \in Tab |-> IF v = t THEN [w \in Tab |-> {}] ELSE clock[v]]
  /\ audience' = {v \in audience \ {t} : clock[v][t] # {}}
  /\ UNCHANGED <<now, newest>>

(* The jam leaves the transport alone but for its queues. Who missed a signal *)
(* is no longer in the audience.                                             *)
JamStep(t) == JamWorks(t) \/ (TransportRests /\ PressJam(t)) \/ \E u \in Tab : NetworkFails(t, u)
Missed(t) == Reconnect(t) \/ \E u \in Tab : Skip(t, u)

Next ==
  \E t \in Tab :
    \/ JamStep(t) /\ UNCHANGED transport
    \/ /\ Missed(t) /\ audience' = audience \ {t}
       /\ UNCHANGED <<armed, link, playing, last, pending, clock, now, newest>>
    \/ ToggleSync(t) \/ Play(t) \/ Stop(t)
    \/ RetryApply(t) \/ EngineLinks(t)
    \/ \E u \in Tab : HearTransport(t, u) \/ Measure(t, u) \/ ReloadPage(t, u)

(* Signals are handled as they come, the timer of a listener fires, browsers *)
(* describe, connect and notice.                                             *)
Fairness ==
  \A t \in Tab :
    /\ WF_vars(StreamReady(t) /\ UNCHANGED transport)
    /\ WF_vars(Retry(t) /\ UNCHANGED transport)
    /\ \A u \in Tab : /\ WF_vars(HearSignal(t, u) /\ UNCHANGED transport)
                     /\ WF_vars(HearTransport(t, u))
                     /\ WF_vars(Described(t, u) /\ UNCHANGED transport)
                     /\ WF_vars(Connect(t, u) /\ UNCHANGED transport)
                     /\ WF_vars((PeerLost(t, u) \/ Resume(t, u)) /\ UNCHANGED transport)

Spec == Init /\ [][Next]_vars /\ Fairness

-----------------------------------------------------------------------------

ListenersHear == \A t, u \in Tab : ListenerHears(t, u)

(* "A retried JOIN from an ALREADY-CONNECTED peer must not tear its live      *)
(* connection down" (jam.ts:212): what both ends see connected ends only when *)
(* the network fails or one of them stops, says bye or closes.  And          *)
(* "anchors are counted (suppressed) but never applied" (:22-24): an engine   *)
(* does not start while its tab listens to the jam.                          *)
NotDriven(t) == t \in open /\ Listening(t) /\ (Listening(t))' /\ ~playing[t] => ~playing'[t]
SessionHolds ==
  [][(\A t, u \in Tab : LiveUnlessLeft(t, u)) /\ (\A t \in Tab : NotDriven(t))]_vars

(* "LWW: the newest anchor in local time wins, ties by peer id" (:12): once    *)
(* nothing is under way to it, every engine that heard the newest anchor does *)
(* what it says, in whatever order anchors arrived, whoever joined meanwhile. *)
Quiet(t) ==
  /\ pending[t] = NoAnchor
  /\ \A u \in Tab : \A i \in DOMAIN relay[u][t] : relay[u][t][i].kind \in Signals
AnchorsConverge == \A t \in audience : Quiet(t) /\ link[t] => playing[t] = newest.playing
=============================================================================
