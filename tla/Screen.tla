-------------------------------- MODULE Screen --------------------------------
(* What a tab shows of its document, and what is selected on it:              *)
(* web/src/app/render.ts and clip_selection.ts. The screen is a cache: a      *)
(* render that finds the structure unchanged only refreshes values in place,  *)
(* any other one rebuilds it. Gestures read the screen, never the document,   *)
(* to know what is under the pointer.                                         *)
(*                                                                            *)
(* The screen is [rows, track, rack, roll, cells]: the tracks in the order    *)
(* shown with the identifiers of their clips, the track that was selected,    *)
(* its devices, the clip in the piano roll and the clip in each cell of the   *)
(* session.                                                                   *)
EXTENDS Journal

CONSTANT Scale   \* the distance between the implicit orders of two tracks

\* The fractional order of a track: its own, or its index in the list.
OrderKey(d, t) ==
  LET i == At(d.tracks, t)
  IN IF d.tracks[i].order = Absent THEN Scale * i ELSE d.tracks[i].order

\* orderedTracks: by key, then by creation.
OrderedTracks(d) ==
  LET key == [i \in DOMAIN d.tracks |-> OrderKey(d, d.tracks[i].id)]
      Before(i) == {j \in DOMAIN key : key[j] < key[i] \/ (key[j] = key[i] /\ j < i)}
  IN [n \in DOMAIN key |-> d.tracks[CHOOSE i \in DOMAIN key : Cardinality(Before(i)) = n - 1]]

IdsOf(list) == [i \in DOMAIN list |-> list[i].id]

-----------------------------------------------------------------------------
(* The selection: a set of clips in the order they were added, one of them    *)
(* the main one, and a track.                                                 *)

Dropped(lot, id) == SelectSeq(lot, LAMBDA x : x # id)
Added(lot, id) == IF Contains(lot, id) THEN lot ELSE Append(lot, id)
LastOf(lot) == IF lot = << >> THEN Absent ELSE Last(lot)

\* A click on a selected clip takes it off the lot, unless it is the only one.
UnselectClip(sel, c) ==
  [sel EXCEPT !.lot = Dropped(@, c),
              !.clip = IF @ = c THEN LastOf(Dropped(sel.lot, c)) ELSE @]

SelectClip(sel, c, t, additive) ==
  IF additive /\ Contains(sel.lot, c) /\ Len(sel.lot) > 1
  THEN [UnselectClip(sel, c) EXCEPT !.track = t]
  ELSE [lot |-> IF additive THEN Added(sel.lot, c) ELSE <<c>>, clip |-> c, track |-> t]

ClearClips(sel) == [sel EXCEPT !.lot = << >>, !.clip = Absent]

\* The lasso replaces the lot or adds to it; the last one hit is the main one.
SelectClips(sel, ids, additive) ==
  LET kept == IF additive THEN sel.lot ELSE << >> IN
  [sel EXCEPT !.lot = FoldLeft(Added, kept, ids),
              !.clip = IF ids # << >> THEN Last(ids) ELSE IF kept = << >> THEN Absent ELSE @]

\* The selected clips the document still has, in its order.
SelectedClips(d, sel) ==
  FlattenSeq([i \in DOMAIN d.tracks |->
    LET hit == SelectSeq(d.tracks[i].clips, LAMBDA c : Contains(sel.lot, c.id))
    IN [j \in DOMAIN hit |-> [t |-> d.tracks[i].id, clip |-> hit[j]]]])

\* Looking the lot up takes off it the clips that are gone; the main clip gives
\* way to the last one left.
Pruned(d, sel) ==
  LET there == IdsOf([i \in DOMAIN SelectedClips(d, sel) |-> SelectedClips(d, sel)[i].clip])
  IN [sel EXCEPT !.lot = SelectSeq(@, LAMBDA c : Contains(there, c)),
                 !.clip = IF @ = Absent \/ Contains(there, @) THEN @ ELSE LastOf(there)]

\* A selected track that is gone gives way to the first one shown.
TrackKept(d, sel) ==
  IF Has(d.tracks, sel.track) THEN sel
  ELSE [sel EXCEPT !.track = IF d.tracks = << >> THEN Absent ELSE Head(OrderedTracks(d)).id]

\* After a rebuild a clip that is not on the screen is not selected. A mutated
\* rebuild leaves it the main clip.
OnScreenMain(d, sel) ==
  [sel EXCEPT !.lot = SelectSeq(@, LAMBDA c : \E t \in ToSet(d.tracks) : Has(t.clips, c))]
OnScreen(d, sel) ==
  LET all == IF sel.clip = Absent THEN sel.lot ELSE Added(sel.lot, sel.clip)
      lot == SelectSeq(all, LAMBDA c : \E t \in ToSet(d.tracks) : Has(t.clips, c))
  IN [sel EXCEPT !.lot = lot, !.clip = IF Contains(lot, @) THEN @ ELSE LastOf(lot)]

-----------------------------------------------------------------------------
(* The render.                                                                *)

Rows(d) ==
  LET shown == OrderedTracks(d)
  IN [i \in DOMAIN shown |-> [t |-> shown[i].id, clips |-> IdsOf(shown[i].clips)]]

Rack(d, t) == IF Has(d.tracks, t) THEN IdsOf(Of(d, t, "chain")) ELSE << >>

\* The first clip without an asset of the selected track.
Roll(d, t) ==
  LET clips == IF Has(d.tracks, t) THEN SelectSeq(Of(d, t, "clips"), Midi) ELSE << >>
  IN IF clips = << >> THEN Absent ELSE <<t, Head(clips).id>>

\* Each scene has a cell for each track; it shows the first of its clips.
Cells(d) ==
  [x \in TrackIds(d) \X Ids(d.scenes) |->
    LET slots == SelectSeq(Of(d, x[1], "clips"), LAMBDA c : c.scene = x[2])
    IN IF slots = << >> THEN Absent ELSE Head(slots).id]

Screen(d, t) ==
  [rows |-> Rows(d), track |-> t, rack |-> Rack(d, t), roll |-> Roll(d, t), cells |-> Cells(d)]

\* The structure the screen is compared on: tracks in order, how many clips
\* each has, the devices in order. A mutated comparison counts the devices.
SameStructureCounting(screen, d, t) ==
  LET rows == Rows(d) IN
  /\ Len(rows) = Len(screen.rows)
  /\ \A i \in DOMAIN rows : /\ rows[i].t = screen.rows[i].t
                            /\ Len(rows[i].clips) = Len(screen.rows[i].clips)
  /\ Len(Rack(d, t)) = Len(screen.rack)
SameStructure(screen, d, t) ==
  LET rows == Rows(d) IN
  /\ Len(rows) = Len(screen.rows)
  /\ \A i \in DOMAIN rows : /\ rows[i].t = screen.rows[i].t
                            /\ Len(rows[i].clips) = Len(screen.rows[i].clips)
  /\ Rack(d, t) = screen.rack

\* renderTracks: the screen and the selection after it. A gesture in the
\* piano roll keeps the rack and the roll as they are.
Rebuilds(screen, d, sel, force) == force \/ ~SameStructure(screen, d, TrackKept(d, sel).track)

Rendered(screen, d, sel, force, rolling) ==
  LET kept == TrackKept(d, sel)
      new == Screen(d, kept.track)
  IN IF ~Rebuilds(screen, d, sel, force) THEN [screen |-> screen, sel |-> kept]
     ELSE [screen |-> IF rolling THEN [new EXCEPT !.track = screen.track, !.rack = screen.rack,
                                              !.roll = screen.roll]
                                 ELSE new,
           sel |-> OnScreen(d, kept)]

\* renderSession alone.
SessionRendered(screen, d) == [screen EXCEPT !.cells = Cells(d)]
=============================================================================
