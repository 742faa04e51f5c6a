------------------------------- MODULE Gestures -------------------------------
(* The hand of a user on the pages of a tab: the pointer gestures of          *)
(* web/src/app (clips, fades, lasso, reordering of tracks, devices and        *)
(* slots), of the piano roll, of an automation lane and of a fader, and the   *)
(* commands of the keyboard and of the menus, over the undo journal and the   *)
(* screen, while the changes of others arrive.                                *)
(*                                                                            *)
(* A gesture is several turns of the event loop: the pointer goes down on     *)
(* something the screen shows, moves, is released or the gesture is cancelled *)
(* with Escape. Drags write at most once per animation frame, what they wrote *)
(* last when released; everything between is one entry of the journal. What a *)
(* gesture took note of at its start may be gone when it writes.              *)
(*                                                                            *)
(* Positions are units of the grid, whatever the zoom and the domain of the   *)
(* clip; a move puts the pointer anywhere it can be. The user gives no        *)
(* command while a button is down.                                            *)
EXTENDS Screen

CONSTANTS
  Start,        \* the document at the start
  Kinds,        \* the gestures the user makes
  Orders,       \* the commands he gives, by name
  RemoteTypes,  \* what the others do
  Value,        \* positions in time, fades
  Level,        \* gains, values of an envelope
  Length,       \* lengths of clips
  MinGap,       \* MIN_GAP of track_reorder.ts, on the same scale as Scale
  PointInPeace, \* no change of others arrives while a point is held
  MaxActs,      \* gestures, commands and changes of others: a bound of the instance
  MaxMoves      \* moves in a gesture: a bound of the instance

VARIABLES
  doc, undoStack, redoStack, open, group,
  screen, sel,
  hand,     \* the gesture under way
  frame,    \* the gesture whose write waits for the next animation frame
  base,     \* ghost: the document and the journal when the last gesture began,
            \* whether nobody else changed it since, and how it ended
  acts, moves

journal == <<undoStack, redoStack, open, group>>
vars == <<doc, journal, screen, sel, hand, frame, base, acts, moves>>

None == [kind |-> "none"]
Idle == hand = None

\* What the handlers close over. Lot holds the other selected clips with their
\* starts; from is what Escape puts back; to is what is to be written; drop is
\* the track, the slot or the cell aimed at; torn tells that the element was
\* taken off the screen by a rebuild.
Grip(kind, t, id, from) ==
  [kind |-> kind, t |-> t, id |-> id, from |-> from, to |-> from, lot |-> << >>,
   drop |-> Absent, additive |-> FALSE, was |-> FALSE, moved |-> FALSE, torn |-> FALSE,
   seen |-> {}]

Init ==
  /\ doc = Start
  /\ undoStack = << >> /\ redoStack = << >> /\ open = FALSE /\ group = << >>
  /\ sel = TrackKept(doc, [lot |-> << >>, clip |-> Absent, track |-> Absent])
  /\ screen = Screen(doc, sel.track)
  /\ hand = None /\ frame = None
  /\ base = [doc |-> Start, stack |-> << >>, calm |-> FALSE, escaped |-> FALSE]
  /\ acts = 0 /\ moves = 0

-----------------------------------------------------------------------------
(* What is under the pointer                                                  *)

ShownClips == UNION {{<<r.t, c>> : c \in ToSet(r.clips)} : r \in ToSet(screen.rows)}

\* The clips of the screen the document still has.
Clips == {x \in ShownClips : HasIn(doc, x[1], "clips", x[2])}
ClipOf(x) == In(doc, x[1], "clips", x[2])

LotBut(d, s, c) ==
  LET others == SelectSeq(SelectedClips(d, s), LAMBDA x : x.clip.id # c)
  IN [i \in DOMAIN others |->
       [t |-> others[i].t, id |-> others[i].clip.id, from |-> others[i].clip.start[2]]]

\* beginClipDrag: a clip outside the lot is selected first.
SelectedFor(x, additive) ==
  IF Contains(sel.lot, x[2]) THEN sel ELSE SelectClip(sel, x[2], x[1], additive)

DragGrip(x, b) ==
  [Grip("drag", x[1], x[2], ClipOf(x).start[2]) EXCEPT
     !.lot = LotBut(doc, SelectedFor(x, b), x[2]), !.additive = b,
     !.was = Contains(sel.lot, x[2])]
DragGrips == {DragGrip(x, b) : x \in Clips, b \in BOOLEAN}

\* beginClipResize: the start and the length. beginFadeDrag: a fade.
ResizeGrips ==
  {Grip("resize", x[1], x[2], <<ClipOf(x).start[2], ClipOf(x).len>>) : x \in Clips}
FadeGrips == {Grip("fade", x[1], x[2], ClipOf(x).fade) : x \in Clips}

LassoGrips == {[Grip("lasso", Absent, Absent, Absent) EXCEPT !.additive = b] : b \in BOOLEAN}

TrackGrips == {Grip("track", r.t, Absent, Absent) : r \in ToSet(screen.rows)}

\* The track of a device is looked up in the document.
DeviceGrips ==
  {Grip("device", x[1], x[2], Absent) : x \in {y \in In1(doc, "chain") :
     Contains(screen.rack, y[2])}}

\* Only a full cell can be taken.
SlotGrips ==
  {[Grip("slot", x[1], screen.cells[x], Absent) EXCEPT !.from = x[2]] :
     x \in {y \in DOMAIN screen.cells : screen.cells[y] # Absent}}

\* Notes of the clip in the piano roll, moved or reshaped together; from keeps
\* each as it was. One field stands for the velocity and the length of a note.
NotesGrip(kind, notes) ==
  Grip(kind, screen.roll[1], screen.roll[2],
       [i \in {n.id : n \in notes} |-> CHOOSE n \in notes : n.id = i])
NoteGrips ==
  IF screen.roll = Absent \/ ~HasIn(doc, screen.roll[1], "clips", screen.roll[2]) THEN {}
  ELSE LET notes == ClipOf(screen.roll).notes IN
    {NotesGrip(kind, chosen) : kind \in {"note", "shape"}, chosen \in SUBSET notes \ {{}}}

\* A point of an enabled or bypassed lane, told by its time and value.
PointGrips ==
  UNION {{[Grip("point", x[1], x[2], <<p.t, p.v>>) EXCEPT !.seen = {<<p.t, p.v>>}] :
            p \in ToSet(In(doc, x[1], "lanes", x[2]).points)} : x \in In1(doc, "lanes")}

FaderGrips ==
  {Grip("fader", r.t, Absent, Absent) : r \in {q \in ToSet(screen.rows) : Has(doc.tracks, q.t)}}

Grips ==
  {g \in DragGrips \cup ResizeGrips \cup FadeGrips \cup LassoGrips \cup TrackGrips
         \cup DeviceGrips \cup SlotGrips \cup NoteGrips \cup PointGrips \cup FaderGrips :
     g.kind \in Kinds}

-----------------------------------------------------------------------------
(* What a gesture calls                                                       *)

Positive(n) == IF n < 0 THEN 0 ELSE n

\* writeLot: every clip of the lot by the same distance, none before zero.
DragCalls(h, v) ==
  <<[type |-> "setClipStart", t |-> h.t, c |-> h.id, v |-> v]>> \o
  [i \in DOMAIN h.lot |-> [type |-> "setClipStart", t |-> h.lot[i].t, c |-> h.lot[i].id,
                           v |-> Positive(h.lot[i].from + v - h.from)]]

\* moveClipToTrack: the clip is deleted and made again, unless either end is
\* gone. A mutated one does not look at the target.
TransferUnseen(d, t, c, to, v) ==
  IF ~HasIn(d, t, "clips", c) THEN << >>
  ELSE <<[type |-> "deleteClip", t |-> t, c |-> c],
         [type |-> "addClip", t |-> to, clip |-> [In(d, t, "clips", c) EXCEPT !.start[2] = v]]>>
Transfer(d, t, c, to, v) ==
  IF ~HasIn(d, t, "clips", c) \/ ~Has(d.tracks, to) THEN << >>
  ELSE <<[type |-> "deleteClip", t |-> t, c |-> c],
         [type |-> "addClip", t |-> to, clip |-> [In(d, t, "clips", c) EXCEPT !.start[2] = v]]>>

Writes(h) ==
  CASE h.kind = "drag" -> DragCalls(h, h.to)
    [] h.kind = "resize" ->
         <<[type |-> "setClipBounds", t |-> h.t, c |-> h.id, v |-> h.to[1], len |-> h.to[2]]>>
    [] h.kind = "fade" -> <<[type |-> "setClipFades", t |-> h.t, c |-> h.id, v |-> h.to]>>
    [] OTHER -> << >>

\* applyDrop of track_reorder.ts: between its new neighbours, or all the tracks
\* numbered again when there is no room. Slots are counted from 0; one that
\* tracks removed meanwhile have left beyond the end is no place.
ReorderCalls(d, h) ==
  LET shown == IdsOf(OrderedTracks(d))
      others == Dropped(shown, h.t)
  IN IF ~Contains(shown, h.t) THEN << >>
     ELSE LET src == SelectInSeq(shown, LAMBDA x : x = h.t) - 1
              at == IF h.drop > src THEN h.drop - 1 ELSE h.drop
              Order(t, v) == [type |-> "setTrackOrder", t |-> t, v |-> v]
              before == OrderKey(d, others[at])
              after == OrderKey(d, others[at + 1])
              target == InsertAt(others, at + 1, h.t)
          IN CASE h.drop \in {src, src + 1} \/ others = << >> -> << >>
               [] at > Len(others) -> << >>
               [] at = 0 -> <<Order(h.t, OrderKey(d, others[1]) - Scale)>>
               [] at = Len(others) -> <<Order(h.t, OrderKey(d, Last(others)) + Scale)>>
               [] after - before < MinGap ->
                    [i \in DOMAIN target |-> Order(target[i], Scale * i)]
               [] OTHER -> <<Order(h.t, (before + after) \div 2)>>

\* applyDrop of device_reorder.ts: the source is looked up again.
DeviceCalls(d, h) ==
  IF ~HasIn(d, h.t, "chain", h.id) THEN << >>
  ELSE LET src == At(Of(d, h.t, "chain"), h.id) - 1 IN
       IF h.drop \in {src, src + 1} THEN << >>
       ELSE <<[type |-> "moveProcessor", t |-> h.t, p |-> h.id,
               to |-> IF h.drop > src THEN h.drop ELSE h.drop + 1]>>

\* applyDrop of slot_reorder.ts: the scene changes before the track, which the
\* move copies from the clip as it is then. The cell is empty on the screen.
SlotCalls(d, h) ==
  LET t == h.drop[1]
      s == h.drop[2]
      scene == IF s = h.from THEN << >>
               ELSE <<[type |-> "setClipScene", t |-> h.t, c |-> h.id, scene |-> s]>>
      there == Run(d, scene, << >>).doc
  IN IF ~HasIn(d, h.t, "clips", h.id) THEN << >>
     ELSE scene \o (IF t = h.t THEN << >>
                    ELSE Transfer(there, h.t, h.id, t, In(d, h.t, "clips", h.id).start[2]))

\* The calls of the release.
Final(d, h) ==
  IF ~h.moved THEN << >>
  ELSE CASE h.kind = "drag" /\ h.drop # Absent -> Transfer(d, h.t, h.id, h.drop, h.to)
         [] h.kind \in {"drag", "resize", "fade"} -> Writes(h)
         [] h.kind = "track" /\ h.drop # Absent -> ReorderCalls(d, h)
         [] h.kind = "device" /\ h.drop # Absent -> DeviceCalls(d, h)
         [] h.kind = "slot" /\ h.drop # Absent -> SlotCalls(d, h)
         [] OTHER -> << >>

-----------------------------------------------------------------------------
(* Writing and drawing                                                        *)

\* Calls captured in the group that is open, or each for itself.
Written(calls) ==
  LET r == Run(doc, calls, group) IN
  /\ doc' = r.doc
  /\ IF open THEN group' = r.group /\ UNCHANGED undoStack
     ELSE undoStack' = FoldLeft(LAMBDA s, op : Pushed(s, <<op>>, <<op>>), undoStack, r.group)
          /\ UNCHANGED group
  /\ redoStack' = IF r.any THEN << >> ELSE redoStack

\* Calls whose group, opened here or before, is closed after them.
Entered(calls) ==
  LET r == Run(doc, calls, group) IN
  /\ doc' = Drawn(r.doc, calls)
  /\ undoStack' = Pushed(undoStack, r.group, r.group)
  /\ redoStack' = IF r.any THEN << >> ELSE redoStack
  /\ open' = FALSE /\ group' = << >>

Rolling == hand.kind \in {"note", "shape"} /\ hand.moved

\* renderTracks with the selection s. What a rebuild takes off the screen under
\* the hand is torn: a point held there never hears of its release.
Drawing(s, force) ==
  LET r == Rendered(screen, doc', s, force, Rolling) IN screen' = r.screen /\ sel' = r.sel

TornBy(s) ==
  IF Idle \/ ~Rebuilds(screen, doc', s, FALSE) \/ Rolling THEN hand
  ELSE IF hand.kind = "point" THEN None
  ELSE [hand EXCEPT !.torn = TRUE]

\* The ghost of a gesture ends with the next thing done.
Over(b) == [b EXCEPT !.calm = FALSE]

-----------------------------------------------------------------------------
(* The gestures                                                               *)

\* A point and a fader open their group at once.
PointerDown ==
  /\ Idle /\ acts < MaxActs
  /\ \E g \in Grips :
       /\ hand' = g
       /\ open' = (g.kind \in {"point", "fader"})
       /\ sel' = IF g.kind = "drag" THEN Pruned(doc, SelectedFor(<<g.t, g.id>>, g.additive))
                 ELSE sel
  /\ base' = [doc |-> doc, stack |-> undoStack, calm |-> TRUE, escaped |-> FALSE]
  /\ acts' = acts + 1 /\ moves' = 0
  /\ UNCHANGED <<doc, undoStack, redoStack, group, screen, frame>>

\* A drag of one clip aims at the track under the pointer, another than its own.
Lanes(h) ==
  {Absent} \cup (IF h.lot # << >> THEN {}
                 ELSE {r.t : r \in ToSet(screen.rows)} \ {h.t})

\* The right edge changes the length, the left one the start with it.
Edges(h) ==
  {<<h.from[1], n>> : n \in Length}
  \cup {<<v, h.from[1] + h.from[2] - v>> : v \in {u \in Value : u < h.from[1] + h.from[2]}}

\* A slot next to where the source is shown is no promise.
SlotsBetween(h, ids, id) ==
  LET src == IF h.torn THEN -1 ELSE SelectInSeq(ids, LAMBDA x : x = id) - 1
  IN {Absent} \cup ((0 .. Len(ids)) \ {src, src + 1})

\* Only an empty cell of another track or scene promises a drop.
EmptyCells(h) ==
  {Absent} \cup {x \in DOMAIN screen.cells : screen.cells[x] = Absent /\ x # <<h.t, h.from>>}

\* Where a drag can take what it holds and what it aims at, where any other
\* gesture can aim.
Aims(h) ==
  CASE h.kind = "drag" -> Value \X Lanes(h)
    [] h.kind = "resize" -> Edges(h) \X {h.drop}
    [] h.kind = "fade" -> Value \X {h.drop}
    [] h.kind = "track" ->
         {h.to} \X SlotsBetween(h, [k \in DOMAIN screen.rows |-> screen.rows[k].t], h.t)
    [] h.kind = "device" -> {h.to} \X SlotsBetween(h, screen.rack, h.id)
    [] h.kind = "slot" -> {h.to} \X EmptyCells(h)

Aimed(h, aim) == [h EXCEPT !.to = aim[1], !.drop = aim[2], !.moved = TRUE]

\* Coalesced: a frame is asked for unless one is, and reads what is there then.
MoveDrag ==
  /\ ~Idle /\ hand.kind \in {"drag", "resize", "fade"}
  /\ \E aim \in Aims(hand) : hand' = Aimed(hand, aim)
  /\ frame' = hand'
  /\ open' = TRUE
  /\ UNCHANGED <<doc, undoStack, redoStack, group, sel>>

\* Nothing is written before the drop.
MoveOver ==
  /\ ~Idle /\ hand.kind \in {"track", "device", "slot"}
  /\ \E aim \in Aims(hand) : hand' = Aimed(hand, aim)
  /\ UNCHANGED <<doc, journal, sel, frame>>

\* The clips the rectangle touches, in the order of the screen.
MoveLasso ==
  /\ ~Idle /\ hand.kind = "lasso"
  /\ \E hit \in SUBSET {x[2] : x \in ShownClips} :
       sel' = SelectClips(sel,
                SelectSeq(FlattenSeq([i \in DOMAIN screen.rows |-> screen.rows[i].clips]),
                          LAMBDA c : c \in hit), hand.additive)
  /\ hand' = [hand EXCEPT !.moved = TRUE]
  /\ UNCHANGED <<doc, journal, frame>>

\* The chosen notes move by one distance that keeps them all in the grid; none
\* is put on a note that was not chosen.
Collides(d, h, delta) ==
  \E n \in In(d, h.t, "clips", h.id).notes :
    /\ n.id \notin DOMAIN h.from
    /\ \E i \in DOMAIN h.from : n.at = h.from[i].at + delta

\* One call for each of the chosen notes still there that its patch changes.
Patched(d, h, patches) ==
  LET ids == SetToSeq({n.id : n \in {m \in In(d, h.t, "clips", h.id).notes :
                         m.id \in DOMAIN patches /\ patches[m.id] @@ m # m}})
  IN [i \in DOMAIN ids |-> [type |-> "updateNote", t |-> h.t, c |-> h.id, n |-> ids[i],
                            patch |-> patches[ids[i]]]]

\* A shape is kept in its range for each note by itself.
InLevel(v) == Max({Min(Level), Min({Max(Level), v})})

NoteCalls(d, h, delta) ==
  IF ~HasIn(d, h.t, "clips", h.id) THEN << >>
  ELSE IF h.kind = "shape"
       THEN Patched(d, h, [i \in DOMAIN h.from |-> [vel |-> InLevel(h.from[i].vel + delta)]])
       ELSE IF Collides(d, h, delta) THEN << >>
            ELSE Patched(d, h, [i \in DOMAIN h.from |-> [at |-> h.from[i].at + delta]])

\* A grid rebuilt before its first move hears of none.
MoveNote ==
  /\ ~Idle /\ hand.kind \in {"note", "shape"} /\ ~hand.torn
  /\ \E delta \in -1 .. 1 :
       /\ hand.kind = "note" => \A i \in DOMAIN hand.from : hand.from[i].at + delta \in Value
       /\ LET r == Run(doc, NoteCalls(doc, hand, delta), group) IN
          /\ doc' = r.doc /\ group' = r.group
          /\ redoStack' = IF r.any THEN << >> ELSE redoStack
  /\ open' = TRUE
  /\ hand' = [hand EXCEPT !.moved = TRUE]
  /\ UNCHANGED <<undoStack, sel, frame>>

\* The point is found by what was written last, and goes where it was not yet.
PointCalls(d, h, p) ==
  IF ~HasIn(d, h.t, "lanes", h.id) THEN << >>
  ELSE LET points == In(d, h.t, "lanes", h.id).points
           hit == {i \in DOMAIN points : <<points[i].t, points[i].v>> = h.to}
       IN IF hit = {} THEN << >>
          ELSE <<[type |-> "moveAutomationPoint", t |-> h.t, l |-> h.id,
                  index |-> Min(hit), at |-> p[1], v |-> p[2]]>>

MovePoint ==
  /\ ~Idle /\ hand.kind = "point"
  /\ \E p \in (Value \X Level) \ hand.seen :
       /\ Written(PointCalls(doc, hand, p))
       /\ hand' = IF PointCalls(doc, hand, p) = << >> THEN [hand EXCEPT !.moved = TRUE]
                  ELSE [hand EXCEPT !.moved = TRUE, !.to = p, !.seen = @ \cup {p}]
  /\ UNCHANGED <<open, sel, frame>>

MoveFader ==
  /\ ~Idle /\ hand.kind = "fader" /\ ~hand.torn
  /\ \E v \in Level : Written(<<[type |-> "setTrackGain", t |-> hand.t, v |-> v]>>)
  /\ hand' = [hand EXCEPT !.moved = TRUE]
  /\ UNCHANGED <<open, sel, frame>>

Move ==
  /\ moves < MaxMoves /\ moves' = moves + 1
  /\ \/ MoveDrag \/ MoveOver \/ MoveLasso \/ MoveNote \/ MovePoint \/ MoveFader
  /\ UNCHANGED <<screen, base, acts>>

\* requestAnimationFrame.
Frame ==
  /\ frame # None
  /\ Written(Writes(frame))
  /\ frame' = None
  /\ UNCHANGED <<open, screen, sel, hand, base, acts, moves>>

\* The frame asked for is cancelled. A mutated release leaves it.
CancelLate(f) == f
Cancel(f) == None

\* What a release without a move selects: a click.
Clicked(h) ==
  CASE h.kind = "drag" /\ ~h.additive -> SelectClip(sel, h.id, h.t, FALSE)
    [] h.kind = "drag" /\ h.additive /\ h.was -> SelectClip(sel, h.id, h.t, TRUE)
    [] h.kind \in {"resize", "fade"} -> SelectClip(sel, h.id, h.t, h.additive)
    [] h.kind = "track" -> [ClearClips(sel) EXCEPT !.track = h.t]
    [] h.kind = "slot" -> [sel EXCEPT !.track = h.t]
    [] OTHER -> sel

\* The track of the first clip of the lot that a lasso took.
Lassoed(d, s) ==
  LET lot == SelectedClips(d, s)
  IN IF lot = << >> THEN Pruned(d, s) ELSE [Pruned(d, s) EXCEPT !.track = Head(lot).t]

Released(h) ==
  IF h.kind = "lasso" /\ h.moved THEN Lassoed(doc, sel)
  ELSE IF h.moved THEN sel ELSE Clicked(h)

\* A drop that calls nothing, a device that was not moved and a fader draw nothing.
Draws(h) ==
  IF h.kind \in {"track", "device", "slot"} /\ h.moved THEN Final(doc, h) # << >>
  ELSE IF h.kind = "track" THEN Clicked(h) # sel
  ELSE IF h.kind \in {"device", "lasso", "note", "shape"} THEN h.moved
  ELSE h.kind # "fader"

Release ==
  /\ ~Idle
  /\ Entered(Final(doc, hand))
  /\ IF Draws(hand)
       THEN LET r == Rendered(screen, doc', Released(hand), TRUE, FALSE)
            IN screen' = r.screen /\ sel' = r.sel
       ELSE UNCHANGED <<screen, sel>>
  /\ hand' = None /\ frame' = Cancel(frame)
  /\ UNCHANGED <<base, acts, moves>>

\* Escape puts a dragged clip and its lot back where they were.
PutBack(h) == IF h.kind = "drag" /\ h.moved THEN DragCalls(h, h.from) ELSE << >>

Escape ==
  /\ ~Idle /\ hand.kind \in {"drag", "track", "device", "slot"}
  /\ Entered(PutBack(hand))
  /\ IF hand.kind = "drag" /\ hand.moved THEN Drawing(sel, TRUE) ELSE UNCHANGED <<screen, sel>>
  /\ hand' = None /\ frame' = Cancel(frame)
  /\ base' = [base EXCEPT !.escaped = TRUE]
  /\ UNCHANGED <<acts, moves>>

-----------------------------------------------------------------------------
(* The commands of the keyboard, the menus and the buttons: what each calls,  *)
(* the selection after it and whether it renders by force.                    *)

Does(name, calls, s, force) == [name |-> name, calls |-> calls, sel |-> s, force |-> force]
Delete(t, c) == [type |-> "deleteClip", t |-> t, c |-> c]
Make(t, clip) == [type |-> "addClip", t |-> t, clip |-> clip]
End(clip) == clip.start[2] + clip.len
Lot == SelectedClips(doc, sel)
OnTrack(t) == [sel EXCEPT !.track = t]

\* Delete: the whole lot. Ctrl+D: the lot as a block, after itself, and the
\* copies are selected. Ctrl+E: the main clip, at the marker.
LotCommands ==
  IF sel.clip = Absent \/ Lot = << >> THEN {}
  ELSE LET shift == Max({End(x.clip) : x \in ToSet(Lot)})
                    - Min({x.clip.start[2] : x \in ToSet(Lot)})
           copies == [i \in DOMAIN Lot |->
             [Lot[i].clip EXCEPT !.id = doc.born + i, !.start[2] = @ + shift]]
       IN {Does("delete", [i \in DOMAIN Lot |-> Delete(Lot[i].t, Lot[i].clip.id)],
                ClearClips(sel), TRUE),
           Does("duplicate", [i \in DOMAIN Lot |-> Make(Lot[i].t, copies[i])],
                SelectClips(sel, IdsOf(copies), FALSE), TRUE)}
          \cup {Does("split", calls, sel, TRUE) :
                  calls \in {g \in SplitCalls(doc) : g[1].c = sel.clip}}

\* addDeviceToTrack: on a track, or with a new one, which is selected. The rack
\* writes to the track selected now, whichever it was drawn for; every step of
\* a knob is an entry of its own.
Device == [id |-> New(doc), param |-> Absent]
DeviceCommands ==
  {Does("add device", <<[type |-> "addProcessor", t |-> t, proc |-> Device, index |-> i]>>,
        OnTrack(t), TRUE) :
     t \in TrackIds(doc), i \in 1 .. Len(screen.rack) + 1}
  \cup {Does("add device", <<[type |-> "addTrack", track |-> NewTrack(New(doc) + 1)],
               [type |-> "addProcessor", t |-> New(doc) + 1, proc |-> Device, index |-> 1]>>,
             OnTrack(New(doc) + 1), TRUE)}
  \cup {Does("remove device", <<[type |-> "removeProcessor", t |-> sel.track, p |-> p]>>,
             sel, TRUE) : p \in ToSet(screen.rack)}
  \cup {Does("knob", <<[type |-> "setProcessorParam", t |-> sel.track, p |-> p, v |-> v]>>,
             sel, FALSE) : p \in ToSet(screen.rack), v \in Level}

ClipCommands ==
  {Does("copy clip", <<Make(x[1], [ClipOf(x) EXCEPT !.id = New(doc), !.start[2] = End(ClipOf(x))])>>,
        sel, TRUE) : x \in Clips}
  \cup {Does("delete clip", <<Delete(x[1], x[2])>>, sel, TRUE) : x \in Clips}
  \cup {Does("clip domain", <<[type |-> "setClipTiming", t |-> x[1], c |-> x[2],
               start |-> <<IF ClipOf(x).start[1] = "tick" THEN "sample" ELSE "tick",
                           ClipOf(x).start[2]>>,
               len |-> ClipOf(x).len]>>, sel, TRUE) :
          x \in {y \in Clips : ClipOf(y).scene = Absent /\ ClipOf(y).notes = {}}}

\* A sample on a lane, unless there is one at this very place: drawn unforced.
\* A new MIDI clip, musical. A clip in an empty cell.
BirthCommands ==
  {Does("place", <<Make(x[1], [NewClip(New(doc), Absent) EXCEPT !.start[2] = x[2]])>>,
        sel, FALSE) :
     x \in {y \in TrackIds(doc) \X Value :
       \A c \in ToSet(Of(doc, y[1], "clips")) :
         c.scene # Absent \/ c.start # <<"sample", y[2]>>}}
  \cup {Does("add midi", <<Make(t, [NewClip(New(doc), Absent) EXCEPT !.start[1] = "tick"])>>,
             OnTrack(t), TRUE) : t \in TrackIds(doc)}
  \cup {Does("add slot", <<Make(x[1], NewClip(New(doc), x[2]))>>, OnTrack(x[1]), TRUE) :
          x \in {y \in DOMAIN screen.cells : screen.cells[y] = Absent}}

TrackCommands ==
  {Does("delete track", <<[type |-> "deleteTrack", t |-> t]>>, sel, TRUE) : t \in TrackIds(doc)}
  \cup {Does("click", << >>, [ClearClips(sel) EXCEPT !.track = t], TRUE) :
          t \in {u \in TrackIds(doc) : u # sel.track \/ sel.clip # Absent}}
  \cup {Does("gain", <<[type |-> "setTrackGain", t |-> t, v |-> 0]>>, sel, FALSE) :
          t \in TrackIds(doc)}
  \cup {Does("add track", <<[type |-> "addTrack", track |-> NewTrack(New(doc))]>>,
             OnTrack(New(doc)), TRUE)}
  \cup {Does("tempo", <<[type |-> "setTempo", v |-> v]>>, sel, TRUE) : v \in Level}

SceneCommands ==
  {Does("add scene", <<[type |-> "addScene", s |-> New(doc)]>>, sel, FALSE)}
  \cup {Does("copy scene", calls, sel, TRUE) : calls \in DuplicateCalls(doc)}
  \cup {Does("delete scene", <<[type |-> "deleteScene", s |-> s]>>, sel, TRUE) :
          s \in Ids(doc.scenes)}

\* addAt and deleteSelection of the piano roll.
RollCommands ==
  IF screen.roll = Absent \/ ~HasIn(doc, screen.roll[1], "clips", screen.roll[2]) THEN {}
  ELSE LET t == screen.roll[1]
           c == screen.roll[2]
           notes == ClipOf(screen.roll).notes
           Toggle(n) == [type |-> "toggleNote", t |-> t, c |-> c, note |-> n]
       IN {Does("add note", <<Toggle([id |-> Absent, at |-> v, vel |-> 0])>>, sel, TRUE) :
             v \in Value \ {n.at : n \in notes}}
          \cup {Does("delete notes",
                     [i \in DOMAIN SetToSeq(chosen) |-> Toggle(SetToSeq(chosen)[i])], sel, TRUE) :
                  chosen \in SUBSET notes \ {{}}}

\* A notch of the wheel on notes.
WheelCommands ==
  {Does("wheel", NoteCalls(doc, g, notch), sel, FALSE) :
     g \in {h \in NoteGrips : h.kind = "shape"}, notch \in {-1, 1}}

\* A double click makes the lane with its first point.
LaneCommands ==
  {LET lanes == Of(doc, x[1], "lanes")
       made == lanes # << >>
       lane == IF made THEN lanes[1].id ELSE New(doc)
   IN Does("add point",
           (IF made THEN << >> ELSE <<[type |-> "addAutomationLane", t |-> x[1], l |-> lane]>>)
           \o <<[type |-> "addAutomationPoint", t |-> x[1], l |-> lane, at |-> x[2], v |-> 0,
                 obj |-> New(doc) + 1]>>, sel, TRUE) : x \in TrackIds(doc) \X Value}
  \cup {Does("bypass lane", <<[type |-> "setAutomationLaneEnabled", t |-> x[1], l |-> x[2],
               on |-> ~In(doc, x[1], "lanes", x[2]).on]>>, sel, TRUE) : x \in In1(doc, "lanes")}
  \cup {Does("delete lane", <<[type |-> "deleteAutomationLane", t |-> x[1], l |-> x[2]]>>,
             sel, TRUE) : x \in In1(doc, "lanes")}

Commands ==
  {c \in LotCommands \cup DeviceCommands \cup ClipCommands \cup BirthCommands
         \cup TrackCommands \cup SceneCommands \cup RollCommands \cup WheelCommands
         \cup LaneCommands :
     c.name \in Orders}

\* A new scene only draws the session, a knob or the wheel nothing.
Command ==
  /\ Idle /\ frame = None /\ acts < MaxActs
  /\ \E c \in Commands :
       /\ Entered(c.calls)
       /\ CASE c.name = "add scene" -> screen' = SessionRendered(screen, doc') /\ sel' = c.sel
            [] c.name \in {"knob", "wheel"} -> UNCHANGED <<screen, sel>>
            [] OTHER -> Drawing(c.sel, c.force)
  /\ base' = Over(base) /\ acts' = acts + 1
  /\ UNCHANGED <<hand, frame, moves>>

Undo ==
  /\ Idle /\ frame = None /\ acts < MaxActs
  /\ undoStack # << >>
  /\ LET r == Replayed(doc, Last(undoStack)) IN
     /\ doc' = r.doc
     /\ redoStack' = Pushed(redoStack, r.group, r.group)
  /\ undoStack' = Front(undoStack)
  /\ Drawing(sel, TRUE)
  /\ base' = Over(base) /\ acts' = acts + 1
  /\ UNCHANGED <<open, group, hand, frame, moves>>

\* An undo is an act; redoing it is none.
Redo ==
  /\ Idle /\ frame = None
  /\ redoStack # << >>
  /\ LET r == Replayed(doc, Last(redoStack)) IN
     /\ doc' = r.doc
     /\ undoStack' = Pushed(undoStack, r.group, r.group)
  /\ redoStack' = Front(redoStack)
  /\ Drawing(sel, TRUE)
  /\ base' = Over(base)
  /\ UNCHANGED <<open, group, hand, frame, acts, moves>>

-----------------------------------------------------------------------------
(* The others: a change is applied and drawn unforced.                        *)

\* A clip dragged to another track by somebody else, and two such drags made
\* while he was offline: they arrive as one change.
MovedTo(x, t) == Transfer(doc, x[1], x[2], t, ClipOf(x).start[2])
RemoteMoves ==
  LET apart == {p \in In1(doc, "clips") \X In1(doc, "clips") : p[1][1] # p[2][1]}
  IN (IF "transfer" \notin RemoteTypes THEN {}
      ELSE UNION {{MovedTo(x, t) : t \in TrackIds(doc) \ {x[1]}} : x \in In1(doc, "clips")})
     \cup (IF "exchange" \notin RemoteTypes THEN {}
           ELSE {MovedTo(p[1], p[2][1]) \o MovedTo(p[2], p[1][1]) : p \in apart})

RemoteCalls ==
  RemoteMoves \cup
  {g \in {<<Delete(x[1], x[2])>> : x \in In1(doc, "clips")}
         \cup {<<[type |-> "setClipStart", t |-> x[1], c |-> x[2], v |-> v]>> :
                 x \in In1(doc, "clips"), v \in Value}
         \cup {<<[type |-> "deleteTrack", t |-> t]>> : t \in TrackIds(doc)}
         \cup {<<[type |-> "setTrackOrder", t |-> t, v |-> 0]>> : t \in TrackIds(doc)}
         \cup {<<[type |-> "removeProcessor", t |-> x[1], p |-> x[2]]>> : x \in In1(doc, "chain")}
         \cup {<<[type |-> "moveProcessor", t |-> x[1], p |-> x[2], to |-> 1]>> :
                 x \in In1(doc, "chain")}
         \cup {<<[type |-> "deleteScene", s |-> s]>> : s \in Ids(doc.scenes)} :
     g[1].type \in RemoteTypes}

RemoteChange ==
  /\ acts < MaxActs
  /\ ~Idle /\ hand.kind = "point" => ~PointInPeace
  /\ \E g \in RemoteCalls : doc' = Run(doc, g, << >>).doc
  /\ doc' # doc
  /\ Drawing(sel, FALSE)
  /\ hand' = TornBy(sel)
  /\ base' = Over(base) /\ acts' = acts + 1
  /\ UNCHANGED <<journal, frame, moves>>

Next ==
  \/ PointerDown \/ Move \/ Frame \/ Release \/ Escape
  \/ Command \/ Undo \/ Redo
  \/ RemoteChange

Spec == Init /\ [][Next]_vars

-----------------------------------------------------------------------------
(* Properties                                                                 *)

\* When the hand is off nothing is left of the gesture: no group is open and no
\* write waits for a frame.
NothingPending == Idle => ~open /\ group = << >> /\ frame = None

\* The journal as it was when the last gesture began, or with one entry on top.
Unwritten == undoStack = base.stack
OneMore ==
  undoStack # << >> /\ undoStack = Bounded(Append(base.stack, Last(undoStack)))

\* As long as nobody else wrote, the whole gesture is at most one entry.
OneEntry == Idle /\ base.calm => Unwritten \/ OneMore

\* Undoing this entry shows the document of before, and a gesture cancelled with
\* Escape already shows it.
UndoneAsBefore ==
  Idle /\ base.calm =>
    /\ \/ Unwritten /\ View(doc) = View(base.doc)
       \/ OneMore /\ View(Replayed(doc, Last(undoStack)).doc) = View(base.doc)
    /\ base.escaped => View(doc) = View(base.doc)

\* Together: one gesture, one undo (gestures.ts, undo.ts).
GestureIsOneUndo == NothingPending /\ OneEntry /\ UndoneAsBefore

\* The screen shows the tracks in their order with as many clips as they have,
\* and the rack the devices of the track it was drawn for in their order, whoever
\* changed them last (render.ts, the comparison of structures). A gesture in
\* the piano roll holds the rack.
ShownAsIs ==
  /\ LET rows == Rows(doc) IN
     /\ Len(screen.rows) = Len(rows)
     /\ \A i \in DOMAIN rows : /\ screen.rows[i].t = rows[i].t
                               /\ Len(screen.rows[i].clips) = Len(rows[i].clips)
  /\ Rolling \/ screen.rack = Rack(doc, screen.track)

\* The clips shown are the clips there are. Not so in general: the comparison
\* counts them.
ShownClipsAreThere == Rows(doc) = screen.rows

\* What the hand does never loses a clip nor makes two of one, wherever it is
\* dropped and whatever the others removed meanwhile (project.ts,
\* moveClipToTrack; slot_reorder.ts), and puts no note on another
\* (piano_roll.ts).
Places(d) == UNION {{<<c.id, t.id>> : c \in ToSet(t.clips)} : t \in ToSet(d.tracks)}
Existing(d) == {x[1] : x \in Places(d)}
NotesApart(d) ==
  \A x \in In1(d, "clips") : \A m, n \in In(d, x[1], "clips", x[2]).notes : m.at = n.at => m = n
NothingLost ==
  [][(~Idle \/ frame # None) /\ acts' = acts =>
       /\ Existing(doc') = Existing(doc)
       /\ Cardinality(Places(doc')) = Cardinality(Existing(doc'))
       /\ NotesApart(doc) => NotesApart(doc')]_vars

\* The main clip is in the lot, or there is neither (clip_selection.ts).
MainInLot ==
  IF sel.clip = Absent THEN sel.lot = << >> ELSE Contains(sel.lot, sel.clip)
=============================================================================
