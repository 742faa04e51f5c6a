---------------------------- MODULE SessionSlots ----------------------------
(***************************************************************************)
(* The clip launcher of the engine: AudioGraph::launchSlot, called by the  *)
(* WebSocket server's threads, against processTrack, called by the audio   *)
(* callback block after block.  They share, per track, the launched and    *)
(* the queued slot, and, for the graph, the count of engaged tracks and    *)
(* the grid that the first launch (the anchor) lays.                       *)
(*                                                                         *)
(* Time is counted from the sample the next block starts at, and what lies *)
(* more than Period in the past is brought back by Period: the code only   *)
(* takes differences of times, and their remainders by lengths that divide *)
(* Period.  A slot and its start are stored and loaded together; every     *)
(* block is Block samples long (the loop braces do not cut it).            *)
(***************************************************************************)
EXTENDS Integers, Sequences, FiniteSets, FiniteSetsExt, Functions

CONSTANTS
  Tracks,      \* number of tracks, processed in the order 1 .. Tracks
  Slots,       \* session_slots of each track: [scene, len, notes]
  Quantum,     \* musical_quantum_, 0 for a project without musical time
  Block,       \* frames of a block
  Period,      \* a common multiple of Block, Quantum and the lengths
  MaxActs,     \* bound: commands of the users
  Racing       \* may a launch and the callback interleave inside a track?

Track == 1 .. Tracks
Slot(t, i) == Slots[t][i]
SlotOf(t) == 1 .. Len(Slots[t])
AllSlots == UNION {Range(Slots[t]) : t \in Track}
Scene == {s.scene : s \in AllSlots}
Anything == "any"       \* an empty scene_id

ASSUME SessionSlotsAssumption ==
  /\ {Tracks, Block, Period} \subseteq Nat \ {0} /\ {Quantum, MaxActs} \subseteq Nat
  /\ Period % Block = 0 /\ (Quantum > 0 => Period % Quantum = 0)
  /\ Slots \in [Track -> Seq(AllSlots)]
  /\ \A s \in AllSlots : s.len \in Nat /\ s.len >= Block /\ Period % s.len = 0

VARIABLES
  launched,    \* launched_slot and launch_clock; history: came from the queue?
  queued,      \* queued_slot and queued_start; history: was it in time?
  count,       \* launched_count_
  epoch, quantum,   \* session_epoch_, session_quantum_
  graphClock,  \* session_clock_: the start of the last block processed
  prev,        \* prev_launched
  turn,        \* the track the callback is at, 0 between blocks
  seen,        \* the queued slot the callback loaded
  playing,     \* the transport plays
  muted,       \* tracks that are muted, or silenced by a solo
  call,        \* the command being executed
  acts,        \* commands so far
  sounding,    \* pitches each instrument holds because of its slots
  disturbed    \* history: tracks silenced, rebuilt, or with the same slot started anew

slotVars == <<launched, queued>>
gridVars == <<count, epoch, quantum>>
callbackVars == <<graphClock, prev, turn, seen>>
soundVars == <<sounding, disturbed>>
userVars == <<playing, muted, acts>>
vars == <<slotVars, gridVars, callbackVars, userVars, call, soundVars>>

NoSlot == [slot |-> 0, start |-> 0, fit |-> FALSE]
NoCall == [todo |-> <<>>, scene |-> Anything, stop |-> TRUE, quantize |-> FALSE,
           loaded |-> FALSE, launched |-> 0, queued |-> 0, anchor |-> FALSE]

Pitches(t) == UNION {{n.pitch : n \in s.notes} : s \in Range(Slots[t])}
Held == [slot : Nat, start : -(Period + 2 * Block) .. Period, fit : BOOLEAN]

TypeOK ==
  /\ launched \in [Track -> Held] /\ queued \in [Track -> Held] /\ seen \in Held
  /\ \A t \in Track : {launched[t].slot, queued[t].slot} \subseteq {0} \cup SlotOf(t)
  /\ count \in Nat /\ epoch \in Int /\ quantum \in Nat /\ graphClock \in Int
  /\ prev \in [Track -> Nat] /\ turn \in 0 .. Tracks
  /\ playing \in BOOLEAN /\ muted \subseteq Track /\ acts \in 0 .. MaxActs
  /\ sounding \in [Track -> SUBSET UNION {Pitches(t) : t \in Track}]

Init ==
  /\ launched = [t \in Track |-> NoSlot] /\ queued = [t \in Track |-> NoSlot]
  /\ count = 0 /\ epoch = 0 /\ quantum = 0 /\ graphClock = 0
  /\ prev = [t \in Track |-> 0] /\ turn = 0 /\ seen = NoSlot
  /\ playing \in BOOLEAN /\ muted = {} /\ acts = 0
  /\ call = NoCall /\ sounding = [t \in Track |-> {}] /\ disturbed = {}

-----------------------------------------------------------------------------
(* The users: a scene or one track's slot is launched or stopped; the      *)
(* transport and the mutes change.                                         *)

Act == acts < MaxActs /\ acts' = acts + 1

Command(todo, scene, stop, quantize) ==
  /\ Act /\ call = NoCall /\ turn = 0
  /\ call' = [NoCall EXCEPT !.todo = todo, !.scene = scene, !.stop = stop,
                            !.quantize = quantize]
  /\ UNCHANGED <<slotVars, gridVars, callbackVars, playing, muted, soundVars>>

Targets == {[i \in Track |-> i]} \cup {<<t>> : t \in Track}

SessionLaunch ==
  \E todo \in Targets, quantize \in BOOLEAN :
    \/ \E scene \in Scene : Command(todo, scene, FALSE, quantize)
    \/ \E scene \in Scene \cup {Anything} : Command(todo, scene, TRUE, FALSE)

PlayOrStop ==
  /\ Act /\ turn = 0
  /\ playing' = ~playing
  /\ UNCHANGED <<slotVars, gridVars, callbackVars, muted, call, soundVars>>

Mute(t) ==
  /\ Act /\ turn = 0
  /\ muted' = IF t \in muted THEN muted \ {t} ELSE muted \cup {t}
  /\ UNCHANGED <<slotVars, gridVars, callbackVars, playing, call, soundVars>>

-----------------------------------------------------------------------------
(* launchSlot, track after track: its loads, then its stores.              *)

CallbackIsInTrack == seen # NoSlot

LoadSlots ==
  LET t == Head(call.todo) IN
  /\ call.todo # <<>> /\ ~call.loaded
  /\ Racing \/ ~CallbackIsInTrack
  /\ call' = [call EXCEPT !.loaded = TRUE, !.launched = launched[t].slot,
                          !.queued = queued[t].slot, !.anchor = count = 0]
  /\ UNCHANGED <<slotVars, gridVars, callbackVars, userVars, soundVars>>

InScene(t, i) == call.scene = Anything \/ (i # 0 /\ Slot(t, i).scene = call.scene)

WasEngaged == call.launched # 0 \/ call.queued # 0

\* Mutant: what the stop leaves in place is not looked at.
StaysEngagedNever(t) == FALSE

StaysEngaged(t) ==
  \E i \in {call.launched, call.queued} : i # 0 /\ ~InScene(t, i)

NextCall ==
  IF Len(call.todo) = 1 THEN NoCall
  ELSE [call EXCEPT !.todo = Tail(@), !.loaded = FALSE, !.launched = 0,
                    !.queued = 0, !.anchor = FALSE]

Stop ==
  LET t == Head(call.todo)
      dequeues == call.queued # 0 /\ InScene(t, call.queued)
      silences == call.launched # 0 /\ InScene(t, call.launched)
  IN
  /\ call.loaded /\ call.stop
  /\ queued' = IF dequeues THEN [queued EXCEPT ![t] = NoSlot] ELSE queued
  /\ launched' = IF silences THEN [launched EXCEPT ![t] = NoSlot] ELSE launched
  /\ count' = IF WasEngaged /\ ~StaysEngaged(t) THEN count - 1 ELSE count
  /\ call' = NextCall
  /\ UNCHANGED <<epoch, quantum, callbackVars, userVars, soundVars>>

\* The next point of the grid, now included.
NextQuantumStart(now, from, step) ==
  IF step <= 0 THEN now
  ELSE IF now <= from THEN from
  ELSE from + ((now - from + step - 1) \div step) * step

Indices(t) == {i \in SlotOf(t) : Slot(t, i).scene = call.scene}

Launch ==
  LET t == Head(call.todo)
      i == Min(Indices(t))
      start == NextQuantumStart(graphClock, epoch, quantum)
  IN
  /\ call.loaded /\ ~call.stop /\ Indices(t) # {}
  /\ IF call.anchor
       THEN /\ epoch' = graphClock
            /\ quantum' = IF Quantum > 0 THEN Quantum ELSE Slot(t, i).len
       ELSE UNCHANGED <<epoch, quantum>>
  /\ IF ~call.anchor /\ call.quantize
       THEN /\ queued' = [queued EXCEPT ![t] =
                 [slot |-> i, start |-> start, fit |-> start >= 0]]
            /\ UNCHANGED <<launched, disturbed>>
       ELSE /\ queued' = [queued EXCEPT ![t] = NoSlot]
            /\ launched' = [launched EXCEPT ![t] =
                 [slot |-> i, start |-> graphClock, fit |-> FALSE]]
            /\ disturbed' = IF prev[t] = i THEN disturbed \cup {t} ELSE disturbed
  /\ count' = IF WasEngaged THEN count ELSE count + 1
  /\ call' = NextCall
  /\ UNCHANGED <<callbackVars, userVars, sounding>>

NoSuchSlot ==
  /\ call.loaded /\ ~call.stop /\ Indices(Head(call.todo)) = {}
  /\ call' = NextCall
  /\ UNCHANGED <<slotVars, gridVars, callbackVars, userVars, soundVars>>

CallStep == LoadSlots \/ Stop \/ Launch \/ NoSuchSlot

-----------------------------------------------------------------------------
(* The audio callback *)

\* A block goes by: everything that is past gets older.
Older(x) == IF x - Block < -(Period + Block) THEN x - Block + Period ELSE x - Block
OlderSlots(held) ==
  [t \in Track |-> IF held[t] = NoSlot THEN NoSlot
                   ELSE [held[t] EXCEPT !.start = Older(@)]]

TimePasses ==
  /\ launched' = OlderSlots(launched) /\ queued' = OlderSlots(queued)
  /\ epoch' = Older(epoch)

GraphRuns == playing \/ count > 0

\* Nothing to play: the callback counts the block, the graph does not see it.
IdleBlock ==
  /\ turn = 0 /\ ~GraphRuns
  /\ TimePasses /\ graphClock' = Older(graphClock)
  /\ UNCHANGED <<count, quantum, prev, turn, seen, userVars, call, soundVars>>

BeginBlock ==
  /\ turn = 0 /\ GraphRuns
  /\ TimePasses /\ graphClock' = -Block
  /\ turn' = 1
  /\ UNCHANGED <<count, quantum, prev, seen, userVars, call, soundVars>>

NextTurn == (turn + 1) % (Tracks + 1)

\* A silenced track is not processed: its queue waits, its notes stay as they are.
SkipTrack ==
  /\ turn \in muted /\ seen = NoSlot
  /\ queued' = [queued EXCEPT ![turn].fit = FALSE]
  /\ disturbed' = disturbed \cup {turn}
  /\ turn' = NextTurn
  /\ UNCHANGED <<launched, gridVars, graphClock, prev, seen, userVars, call, sounding>>

LoadQueued ==
  /\ turn \in Track \ muted /\ seen = NoSlot /\ queued[turn] # NoSlot
  /\ seen' = queued[turn]
  /\ UNCHANGED <<slotVars, gridVars, graphClock, prev, turn, userVars, call, soundVars>>

\* Mutant: the end of the block is forgotten.
DueLate == seen # NoSlot /\ seen.start < graphClock

Due == seen # NoSlot /\ seen.start < graphClock + Block

-----------------------------------------------------------------------------
(* emitSessionLoop: the events of frames samples from the base-th on.      *)

Events(slot, base, frames) ==
  LET local == base % slot.len
      end == local + frames
      at == {<<n, k>> : n \in slot.notes, k \in {0, slot.len}}
      inBlock(x) == x >= local /\ x < end
      seam == IF end > slot.len THEN {slot.len - local} ELSE {}
  IN {[pitch |-> x[1].pitch, on |-> TRUE, offset |-> x[1].start + x[2] - local] :
        x \in {y \in at : inBlock(y[1].start + y[2])}}
     \cup {[pitch |-> x[1].pitch, on |-> FALSE, offset |-> x[1].end + x[2] - local] :
        x \in {y \in at : inBlock(y[1].end + y[2])}}
     \cup {[pitch |-> n.pitch, on |-> FALSE, offset |-> o] : n \in slot.notes, o \in seam}

\* The events are sorted, a note-off before a note-on at the same offset: a
\* pitch ends held when its last event holds a note-on.
Played(t, held, events) ==
  LET of(p) == {e \in events : e.pitch = p}
      last(p) == Max({e.offset : e \in of(p)})
  IN {p \in Pitches(t) : IF of(p) = {} THEN p \in held
                    ELSE \E e \in of(p) : e.offset = last(p) /\ e.on}

SlotEvents(held, t) ==
  LET slot == Slot(t, held.slot)
      late == held.start - graphClock
  IN IF late <= 0 THEN Events(slot, -late, Block)
     ELSE IF late < Block THEN Events(slot, 0, Block - late)
     ELSE {}

\* Mutant: a change of slot leaves the notes of the last one held.
KeptNotesAlways(t, slot) == sounding[t]

\* A transition releases everything.
KeptNotes(t, slot) == IF slot = prev[t] THEN sounding[t] ELSE {}

PlayTrack ==
  LET t == turn
      now == IF Due THEN [seen EXCEPT !.fit = TRUE] ELSE launched[t]
      kept == KeptNotes(t, now.slot)
  IN
  /\ turn \in Track
  /\ seen # NoSlot \/ (queued[t] = NoSlot /\ t \notin muted)
  /\ launched' = [launched EXCEPT ![t] = now]
  /\ queued' = IF Due THEN [queued EXCEPT ![t] = NoSlot] ELSE queued
  /\ prev' = [prev EXCEPT ![t] = now.slot]
  /\ sounding' = [sounding EXCEPT ![t] =
       IF now = NoSlot THEN kept ELSE Played(t, kept, SlotEvents(now, t))]
  /\ disturbed' = IF now.slot # prev[t] THEN disturbed \ {t}
                  ELSE IF Due THEN disturbed \cup {t} ELSE disturbed
  /\ seen' = NoSlot
  /\ turn' = NextTurn
  /\ UNCHANGED <<gridVars, graphClock, userVars, call>>

\* A rebuild, after any edit, installs a graph that knows of no launch, with a
\* clock at 0; the plugins and the notes they hold stay, the mutes are copied.
Rebuild ==
  /\ Act /\ turn = 0 /\ call = NoCall
  /\ launched' = [t \in Track |-> NoSlot] /\ queued' = [t \in Track |-> NoSlot]
  /\ prev' = [t \in Track |-> 0]
  /\ count' = 0 /\ epoch' = 0 /\ quantum' = 0
  /\ \E past \in 0 .. Period \div Block - 1 : graphClock' = -past * Block
  /\ disturbed' = Track
  /\ UNCHANGED <<turn, seen, playing, muted, call, sounding>>

Callback ==
  /\ Racing \/ ~call.loaded
  /\ IdleBlock \/ BeginBlock \/ SkipTrack \/ LoadQueued \/ PlayTrack

-----------------------------------------------------------------------------
Next ==
  SessionLaunch \/ PlayOrStop \/ (\E t \in Track : Mute(t)) \/ Rebuild
  \/ CallStep \/ Callback

Spec == Init /\ [][Next]_vars

-----------------------------------------------------------------------------
(* Properties *)

\* Whatever was launched, stopped, muted and launched again, the slots that
\* came from the queue are in phase with the grid of the anchor.
InPhase ==
  \A t \in Track :
    launched[t].fit => (launched[t].start - epoch) % quantum = 0

\* A place where loops are safe: every note begins, and ends before its slot does
\* (LastNoteToTheEnd of MCSessionSlots is the other case).
NotesEndInside ==
  \A s \in AllSlots : \A n \in s.notes :
    {n.start, n.end} \subseteq Nat /\ n.start < n.end /\ n.end < s.len

\* A slot queued for a boundary that was still to come is heard from its
\* first sample on: it is promoted in the very block the boundary falls in.
StartsWhole ==
  seen.fit /\ seen' = NoSlot /\ launched'[turn] # launched[turn]
    => launched'[turn].start >= graphClock

\* An instrument holds only notes that its slot holds at this point of its
\* loop: none is left over from a seam, a change of slot or a stop.  Excepted
\* is a track silenced or rebuilt in between, or whose slot was launched again.
Position(t) == (-launched[t].start) % Slot(t, launched[t].slot).len
NotesHere(t) ==
  IF launched[t] = NoSlot THEN {}
  ELSE {n.pitch : n \in {m \in Slot(t, launched[t].slot).notes :
                           m.start < Position(t) /\ m.end >= Position(t)}}
HoldsItsNotes ==
  \A t \in Track :
    turn = 0 /\ launched[t].slot = prev[t] /\ t \notin disturbed /\ launched[t].start <= 0
      => sounding[t] \subseteq NotesHere(t)

\* A queued slot gets its turn, even when the transport does not play: the
\* callback runs for it, and its boundary has not gone by.
QueueIsServed ==
  \A t \in Track :
    queued[t] # NoSlot /\ turn = 0 /\ call = NoCall
      => GraphRuns /\ (queued[t].fit => queued[t].start >= 0)

\* After every step queued launches are in phase, whole and served, and every
\* variable has its type.
OnTheGrid == [][TypeOK' /\ InPhase' /\ StartsWhole /\ QueueIsServed']_vars

\* A graph that has not run a slot yet holds no note of one: the code does not
\* keep this over a rebuild.
QuietWithoutSlots ==
  \A t \in Track : launched[t] = NoSlot /\ prev[t] = 0 => sounding[t] = {}

\* The grid's own first slot, and any slot launched at once, starts with its
\* first note: the code does not keep this.
LaunchesAtOnce ==
  \A t \in Track : launched'[t].slot # 0 /\ turn = 0 => launched'[t].start >= 0
StartsAtOnce ==
  [][launched' # launched /\ call.loaded => LaunchesAtOnce]_vars
=============================================================================
