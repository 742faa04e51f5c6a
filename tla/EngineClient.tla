---------------------------- MODULE EngineClient ----------------------------
(* The connection of a tab to its audio engine (engine_client.ts), with what   *)
(* hangs on it: the token and its refresh, the reconnection timer, the state   *)
(* re-asserted at every connection (wiring.ts), the loop region (loop_region.ts), *)
(* the project guard (project_guard.ts), the export of a mixdown (export.ts),  *)
(* and reloads of the page (version_guard.ts).  The engine is another process: *)
(* it starts, dies, is switched to other projects and exports for other tabs   *)
(* too.  The frames are those of Protocol, reduced to what an end decides on.  *)
EXTENDS Integers, Sequences, FiniteSets

CONSTANTS
  Project,      \* projects of the server
  Home,         \* the project this tab shows when first opened
  None,         \* no project, no job, no socket
  MaxLives,     \* how often the engine starts
  MaxDrops,     \* how many connections break, token fetches fail
  MaxActs       \* how often somebody acts: the user, another tab

ASSUME EngineClientAssumption ==
  /\ Home \in Project /\ None \notin Project
  /\ MaxLives \in Nat \ {0} /\ MaxDrops \in Nat /\ MaxActs \in Nat

Socket == {1, 2}   \* the one in use, and one more if something goes wrong

VARIABLES
  up, life,              \* the engine process: does it run, its life (and its token)
  song, engineLoop, engineRegion,   \* what it plays, and how: a region is none, set,
                         \* or dropped at a switch of projects
  job,                   \* project its export job renders, None when idle
  ready,                 \* readyState of a WebSocket, as the tab sees it
  peer,                  \* the same connection as the engine sees it
  toEngine, toTab,       \* frames under way
  ws, token, refreshedOnce, timer, refreshing,   \* EngineClient
  knownSong,             \* engineProjectId_: as of the last telemetry
  shown, banner, claimed,  \* PROJECT_ID; the project the banner names; its button pressed
  loopOn, region,        \* aria-pressed of the loop button, ctx.loopRegion
  busy, watched, fetching,  \* export: button, 60 s timer of this request, and the
                         \* projects of the WAVs that are being downloaded
  burst,                 \* connections tried since the timer last fired or data came
  drops, acts            \* budgets used

engine == <<up, life, song, engineLoop, engineRegion, job>>
wire == <<ready, peer, toEngine, toTab>>
client == <<ws, token, refreshedOnce, timer, refreshing, burst>>
guard == <<knownSong, shown, banner, claimed>>
loop == <<loopOn, region>>
export == <<busy, watched, fetching>>
vars == <<engine, wire, client, guard, loop, export, drops, acts>>

(* ------------------------------ frames ------------------------------- *)

Auth(t) == [type |-> "auth", token |-> t]
Loop(on, r) == [type |-> "loop", on |-> on, region |-> r]   \* r: set, none or keep
Command(type) == [type |-> type]
Switch(p) == [type |-> "switch", to |-> p]
Telemetry == [type |-> "telemetry", song |-> song]
Render(status, p) == [type |-> "render", status |-> status, of |-> p]

Live(s) == ready[s] \in {"connecting", "open"}
Connected == ws # None /\ ready[ws] = "open"
Authenticated == ws # None /\ peer[ws] = "authed"

(* What ws.send makes of frames: nothing when the socket is not OPEN, and lost *)
(* without a word when the other end is gone.                                  *)
Deliver(queue, s, frames) ==
  IF peer[s] \in {"pending", "authed"} THEN [queue EXCEPT ![s] = @ \o frames] ELSE queue
SendBinary(frames) ==
  /\ toEngine' = IF Connected THEN Deliver(toEngine, ws, frames) ELSE toEngine
  /\ UNCHANGED <<ready, peer, toTab>>
SendToAll(frames) ==
  toTab' = [s \in Socket |-> IF peer[s] = "authed" THEN toTab[s] \o frames ELSE toTab[s]]

Act == acts < MaxActs /\ acts' = acts + 1

(* ---------------------------- connecting ----------------------------- *)

(* connect(): a new WebSocket becomes ws; attempt counts it in the burst. *)
Connect(attempt) ==
  \E s \in Socket :
    /\ ready[s] = "free"
    /\ ready' = [ready EXCEPT ![s] = "connecting"]
    /\ peer' = [peer EXCEPT ![s] = "none"]
    /\ toEngine' = [toEngine EXCEPT ![s] = <<>>]
    /\ toTab' = [toTab EXCEPT ![s] = <<>>]
    /\ ws' = s
    /\ burst' = attempt

(* A mutant that forgets the region, and:                                       *)
ReassertedButton == IF loopOn THEN <<Loop(TRUE, "keep")>> ELSE <<>>
(* What onConnect sends again: a region, which carries the loop with it, or else *)
(* the loop when its button is pressed.                                          *)
Reasserted ==
  IF region THEN <<Loop(TRUE, "set")>>
  ELSE IF loopOn THEN <<Loop(TRUE, "keep")>> ELSE <<>>

(* onopen: the token first, then onConnect. *)
Opened(s) ==
  /\ ready[s] = "connecting" /\ up
  /\ ready' = [ready EXCEPT ![s] = "open"]
  /\ peer' = [peer EXCEPT ![s] = "pending"]
  /\ toEngine' = [toEngine EXCEPT ![s] = <<Auth(token)>> \o Reasserted]
  /\ UNCHANGED <<toTab, engine, client, guard, loop, export, drops, acts>>

(* scheduleReconnect: no second timer while one is pending; and without the guard. *)
ScheduledAgain(pending) == pending + 1
Scheduled(pending) == IF pending > 0 THEN pending ELSE 1

(* onerror and onclose of a connection that never opened: both schedule. *)
Refused(s) ==
  /\ ready[s] = "connecting" /\ ~up
  /\ ready' = [ready EXCEPT ![s] = "free"]
  /\ timer' = Scheduled(Scheduled(timer))
  /\ UNCHANGED <<peer, toEngine, toTab, engine, ws, token, refreshedOnce, refreshing, burst,
                 guard, loop, export, drops, acts>>

(* The budget of one refresh: spent by a refusal, given back by the timer; or kept. *)
SpendRefresh == refreshedOnce' = TRUE
KeepBudget == UNCHANGED refreshedOnce
NewBudget == refreshedOnce' = FALSE

(* onclose: a refused token is fetched anew, once; anything else waits 3 s. *)
Closed(s) ==
  /\ ready[s] = "open" /\ peer[s] \in {"refused", "gone"} /\ toTab[s] = <<>>
  /\ ready' = [ready EXCEPT ![s] = "free"]
  /\ toEngine' = [toEngine EXCEPT ![s] = <<>>]
  /\ IF peer[s] = "refused" /\ ~refreshedOnce
     THEN SpendRefresh /\ refreshing' = refreshing + 1 /\ UNCHANGED timer
     ELSE timer' = Scheduled(timer) /\ UNCHANGED <<refreshedOnce, refreshing>>
  /\ UNCHANGED <<peer, toTab, engine, ws, token, burst, guard, loop, export, drops, acts>>

(* The token endpoint answers with the token of the engine that started last. *)
Refreshed ==
  /\ refreshing > 0
  /\ refreshing' = refreshing - 1
  /\ token' = life
  /\ Connect(burst + 1)
  /\ UNCHANGED <<engine, refreshedOnce, timer, guard, loop, export, drops, acts>>

RefreshFails ==
  /\ refreshing > 0 /\ drops < MaxDrops
  /\ drops' = drops + 1
  /\ refreshing' = refreshing - 1
  /\ timer' = Scheduled(timer)
  /\ UNCHANGED <<engine, wire, ws, token, refreshedOnce, burst, guard, loop, export, acts>>

(* The timer of scheduleReconnect gives back the budget of one refresh. *)
TimerFires ==
  /\ timer > 0
  /\ timer' = timer - 1
  /\ NewBudget
  /\ Connect(1)
  /\ UNCHANGED <<engine, token, refreshing, guard, loop, export, drops, acts>>

(* ----------------------------- the engine ---------------------------- *)

Gone == [s \in Socket |-> IF peer[s] \in {"pending", "authed"} THEN "gone" ELSE peer[s]]

(* It starts with a token of its own, on the project it was launched with. *)
EngineStarts ==
  /\ ~up /\ life < MaxLives
  /\ up' = TRUE /\ life' = life + 1
  /\ song' \in Project
  /\ engineLoop' = FALSE /\ engineRegion' = "none" /\ job' = None
  /\ UNCHANGED <<wire, client, guard, loop, export, drops, acts>>

EngineDies ==
  /\ up /\ life < MaxLives
  /\ up' = FALSE
  /\ peer' = Gone
  /\ toEngine' = [s \in Socket |-> <<>>]
  /\ UNCHANGED <<life, song, engineLoop, engineRegion, job, ready, toTab,
                 client, guard, loop, export, drops, acts>>

(* The connection breaks: what was under way is lost, both ways. *)
Drop(s) ==
  /\ drops < MaxDrops /\ drops' = drops + 1
  /\ peer[s] \in {"pending", "authed"}
  /\ peer' = [peer EXCEPT ![s] = "gone"]
  /\ toEngine' = [toEngine EXCEPT ![s] = <<>>]
  /\ toTab' = [toTab EXCEPT ![s] = <<>>]
  /\ UNCHANGED <<engine, ready, client, guard, loop, export, acts>>

(* The control loop switches projects: the user's region is cleared. *)
SwitchTo(p) ==
  /\ song' = p
  /\ engineRegion' = IF p = song THEN engineRegion ELSE "dropped"

(* A render request: STARTED, or FAILED while another one runs. *)
StartJob ==
  IF job = None THEN job' = song /\ SendToAll(<<Render("started", song)>>)
  ELSE SendToAll(<<Render("failed", None)>>) /\ UNCHANGED job

(* A frame at the engine: the first must be the token, others need it accepted. *)
EngineReceives(s) ==
  /\ toEngine[s] # <<>> /\ peer[s] \in {"pending", "authed"}
  /\ LET m == Head(toEngine[s]) IN
     /\ toEngine' = [toEngine EXCEPT ![s] = Tail(@)]
     /\ \/ /\ peer[s] = "pending"
           /\ peer' = [peer EXCEPT ![s] =
                         IF m.type = "auth" /\ m.token = life THEN "authed" ELSE "refused"]
           /\ UNCHANGED <<song, engineLoop, engineRegion, job, toTab>>
        \/ /\ peer[s] = "authed" /\ m.type = "loop"
           /\ engineLoop' = m.on
           /\ engineRegion' = IF m.region = "keep" THEN engineRegion ELSE m.region
           /\ UNCHANGED <<peer, song, job, toTab>>
        \/ /\ peer[s] = "authed" /\ m.type = "switch"
           /\ SwitchTo(m.to)
           /\ UNCHANGED <<peer, engineLoop, job, toTab>>
        \/ /\ peer[s] = "authed" /\ m.type = "render"
           /\ StartJob
           /\ UNCHANGED <<peer, song, engineLoop, engineRegion>>
  /\ UNCHANGED <<up, life, ready, client, guard, loop, export, drops, acts>>

(* Telemetry, 30 times a second; one frame under way stands for any number. *)
Broadcast ==
  /\ up /\ \E s \in Socket : peer[s] = "authed" /\ toTab[s] = <<>>
  /\ toTab' = [s \in Socket |-> IF peer[s] = "authed" /\ toTab[s] = <<>>
                                 THEN <<Telemetry>> ELSE toTab[s]]
  /\ UNCHANGED <<engine, ready, peer, toEngine, client, guard, loop, export, drops, acts>>

(* The worker of the export ends: everybody hears of it. *)
JobEnds ==
  /\ up /\ job # None
  /\ job' = None
  /\ \E status \in {"done", "failed"} : SendToAll(<<Render(status, job)>>)
  /\ UNCHANGED <<up, life, song, engineLoop, engineRegion, ready, peer, toEngine,
                 client, guard, loop, export, drops, acts>>

(* Another tab on the same engine exports, or moves it to another project. *)
OtherTabExports ==
  /\ up /\ Act /\ StartJob
  /\ UNCHANGED <<up, life, song, engineLoop, engineRegion, ready, peer, toEngine,
                 client, guard, loop, export, drops>>
OtherTabSwitches ==
  /\ up /\ Act /\ \E p \in Project \ {song} : SwitchTo(p)
  /\ UNCHANGED <<up, life, engineLoop, job, wire, client, guard, loop, export, drops>>

(* ------------------------ frames at the tab --------------------------- *)

(* The project named by telemetry, and a mutant that keeps the first one heard. *)
LearntOnce(m) == IF knownSong = None THEN m.song ELSE knownSong
Learnt(m) == m.song

(* Only an end takes the 60 s timer away; and a mutant where STARTED does.      *)
WatchUntilStart(status) == FALSE
WatchAfter(status) == watched /\ status = "started"

(* handleMessage: any frame says that the token was accepted. *)
TabReceives(s) ==
  /\ ready[s] = "open" /\ toTab[s] # <<>>
  /\ toTab' = [toTab EXCEPT ![s] = Tail(@)]
  /\ refreshedOnce' = FALSE /\ burst' = 0
  /\ LET m == Head(toTab[s]) IN
     \/ /\ m.type = "telemetry"
        /\ knownSong' = Learnt(m)
        /\ UNCHANGED export
     \/ /\ m.type = "render"
        /\ UNCHANGED knownSong
        /\ watched' = WatchAfter(m.status)
        /\ busy' = (busy /\ m.status # "failed")
        /\ fetching' = IF m.status = "done" THEN fetching \cup {m.of} ELSE fetching
  /\ UNCHANGED <<engine, ready, peer, toEngine, ws, token, timer, refreshing, shown, banner,
                 claimed, loop, drops, acts>>

(* The download of a WAV ends, one way or the other. *)
FetchEnds ==
  \E p \in fetching :
    /\ fetching' = fetching \ {p}
    /\ busy' = FALSE
    /\ UNCHANGED <<engine, wire, client, guard, loop, watched, drops, acts>>

(* No answer within 60 s. *)
WatchFires ==
  /\ watched
  /\ watched' = FALSE /\ busy' = FALSE
  /\ UNCHANGED <<engine, wire, client, guard, loop, fetching, drops, acts>>

(* The poll of the project guard. *)
Mismatch == knownSong # None /\ knownSong # shown
GuardPolls ==
  /\ banner' = IF Mismatch THEN knownSong ELSE None
  /\ banner' # banner
  /\ claimed' = FALSE
  /\ UNCHANGED <<knownSong, shown, engine, wire, client, loop, export, drops, acts>>

(* ------------------------------ the user ------------------------------ *)

(* The loop button works while connected. *)
ToggleLoop ==
  /\ Act /\ Connected
  /\ loopOn' = ~loopOn
  /\ SendBinary(<<Loop(~loopOn, "keep")>>)
  /\ UNCHANGED <<region, engine, client, guard, export, drops>>

(* A region drawn on the ruler turns the loop on; a double click clears both. *)
DrawRegion ==
  /\ Act
  /\ region' = TRUE /\ loopOn' = TRUE
  /\ SendBinary(<<Loop(TRUE, "set")>>)
  /\ UNCHANGED <<engine, client, guard, export, drops>>
ClearRegion ==
  /\ Act /\ region
  /\ region' = FALSE /\ loopOn' = FALSE
  /\ SendBinary(<<Loop(FALSE, "none")>>)
  /\ UNCHANGED <<engine, client, guard, export, drops>>

(* The two buttons of the banner: the engine comes here, or the tab goes there. *)
ClaimEngine ==
  /\ Act /\ banner # None /\ ~claimed
  /\ claimed' = TRUE
  /\ SendBinary(<<Switch(shown)>>)
  /\ UNCHANGED <<knownSong, shown, banner, engine, client, loop, export, drops>>

Export ==
  /\ Act /\ ~busy /\ Connected /\ ~Mismatch
  /\ busy' = TRUE /\ watched' = TRUE
  /\ SendBinary(<<Command("render")>>)
  /\ UNCHANGED <<fetching, engine, client, guard, loop, drops>>

(* The page starts over: by the version guard, or on the engine's project. *)
Reload(p) ==
  /\ Act
  /\ shown' = p
  /\ ready' = [s \in Socket |-> IF s = 1 THEN "connecting" ELSE "free"]
  /\ peer' = [s \in Socket |-> "none"]
  /\ toEngine' = [s \in Socket |-> <<>>] /\ toTab' = [s \in Socket |-> <<>>]
  /\ ws' = 1 /\ token' \in {0, life}
  /\ refreshedOnce' = FALSE /\ timer' = 0 /\ refreshing' = 0 /\ burst' = 1
  /\ knownSong' = None /\ banner' = None /\ claimed' = FALSE
  /\ loopOn' = FALSE /\ region' = FALSE
  /\ busy' = FALSE /\ watched' = FALSE /\ fetching' = {}
  /\ UNCHANGED <<engine, drops>>
JoinEngine == banner # None /\ Reload(banner)
VersionReload == Reload(shown)

(* --------------------------- specification ---------------------------- *)

Init ==
  /\ up = TRUE /\ life = 1
  /\ song \in Project /\ engineLoop = FALSE /\ engineRegion = "none"
  /\ job = None
  /\ ready = [s \in Socket |-> IF s = 1 THEN "connecting" ELSE "free"]
  /\ peer = [s \in Socket |-> "none"]
  /\ toEngine = [s \in Socket |-> <<>>] /\ toTab = [s \in Socket |-> <<>>]
  /\ ws = 1 /\ token \in {0, 1}
  /\ refreshedOnce = FALSE /\ timer = 0 /\ refreshing = 0 /\ burst = 1
  /\ knownSong = None
  /\ shown = Home /\ banner = None /\ claimed = FALSE
  /\ loopOn = FALSE /\ region = FALSE
  /\ busy = FALSE /\ watched = FALSE /\ fetching = {}
  /\ drops = 0 /\ acts = 0

Connection(s) == Opened(s) \/ Refused(s) \/ Closed(s) \/ TabReceives(s)
Client == Refreshed \/ TimerFires \/ FetchEnds \/ WatchFires \/ GuardPolls
Engine == JobEnds \/ Broadcast \/ \E s \in Socket : EngineReceives(s)
User == ToggleLoop \/ DrawRegion \/ ClearRegion \/ ClaimEngine \/ Export
        \/ JoinEngine \/ VersionReload
World == EngineStarts \/ EngineDies \/ RefreshFails \/ OtherTabExports \/ OtherTabSwitches
         \/ \E s \in Socket : Drop(s)
Next == User \/ World \/ Client \/ Engine \/ \E s \in Socket : Connection(s)

Spec == Init /\ [][Next]_vars

(* The network delivers on a connection that lives, event loops turn, timers *)
(* fire, downloads end, the engine works and reports.                        *)
Fairness ==
  /\ \A s \in Socket :
       /\ WF_vars(Opened(s)) /\ WF_vars(Refused(s)) /\ WF_vars(Closed(s))
       /\ WF_vars(TabReceives(s)) /\ WF_vars(EngineReceives(s))
  /\ WF_vars(Refreshed \/ RefreshFails) /\ WF_vars(TimerFires)
  /\ WF_vars(FetchEnds) /\ WF_vars(WatchFires) /\ WF_vars(GuardPolls)
  /\ WF_vars(JobEnds) /\ WF_vars(Broadcast)
FairSpec == Spec /\ Fairness

(* ----------------------------- properties ----------------------------- *)

(* The tab never holds two connections, and while it waits to try again (for the *)
(* timer or for a fresh token) it holds none: the guards of scheduleReconnect    *)
(* and the single way out of onclose.  "ONE silent retry, never a loop" (:45):    *)
(* between two firings of the timer, without data from the engine, at most two   *)
(* connections are tried.                                                        *)
SingleConnection ==
  /\ Cardinality({s \in Socket : Live(s)}) + refreshing + timer = 1
  /\ burst <= 2

(* An engine that stays up gets its tab back, whatever restarts, stale tokens and *)
(* failed token fetches came before.                                              *)
ConnectsForGood == <>[]up => <>[]Authenticated

(* The loop and the region the tab shows are, in the end, the engine's: an engine *)
(* that restarted, or never heard of them, is told at the next connection.  Only a *)
(* switch of projects drops a region for good (main.cpp clears it).               *)
LoopComesBack ==
  <>[]up => /\ <>[](region => engineRegion \in {"set", "dropped"})
            /\ <>[](loopOn => engineLoop)

(* In the end the banner tells the truth about the engine's project. *)
BannerTellsTheTruth ==
  <>[]up => <>[](banner = IF song = shown THEN None ELSE song)

(* A WAV is handed to the user under the name of the project shown: it should be *)
(* that project's.  The engine tells every tab of every export, so that it is not *)
(* (see the README).                                                       *)
NoSurpriseWav == fetching \subseteq {shown}

(* "ONLY the explicit ON is asserted" (wiring.ts:226): the tab turns the engine's *)
(* loop on only while its button says on.  A region left with the loop turned off *)
(* turns it on at the next connection (see the README).                  *)
OnlyOnIsAsserted ==
  [][\A s \in Socket :
       Len(toEngine'[s]) > Len(toEngine[s]) =>
         LET m == toEngine'[s][Len(toEngine'[s])] IN m.type = "loop" /\ m.on => loopOn']_vars

(* The export button comes back, also when the engine dies with the job. *)
ExportEnds == busy ~> ~busy
=============================================================================
