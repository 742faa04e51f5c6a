---------------------------- MODULE ProjectEdits ----------------------------
(* The document a tab edits and the mutators of web/src/document/project.ts. *)
(* Every local mutation goes through one of them: it looks its target up,    *)
(* returns without a trace when the target is gone, captures the operation   *)
(* that reverts it (an InverseOp of undo.ts), and applies the change.        *)
(* Undo and redo replay captured operations through the very same mutators.  *)
(*                                                                           *)
(* A mutator is an operator from the document and its arguments to the       *)
(* captured inverse (none when it returned early) and the document after.    *)
(* One field stands for the fields handled alike: gain for gain, pan, names, *)
(* bypass and fades pairs; order for the optional fields; tempo for the ones *)
(* whose absence reads as a default. Identifiers are numbers drawn in order  *)
(* (newId); numbers are legal values, so clamping to a range is the identity *)
(* except where a bound depends on the document: fades are cut to half the   *)
(* length of their clip.                                                     *)
EXTENDS Integers, FiniteSets, SequencesExt

CONSTANTS Absent,      \* an optional field that is not there
          DefaultTempo

-----------------------------------------------------------------------------
(* Lists of identified objects.                                              *)

Has(list, id) == \E i \in DOMAIN list : list[i].id = id

\* Index of the object with this id (findIndex; ids are unique in a list).
At(list, id) == CHOOSE i \in DOMAIN list : list[i].id = id

\* splice(i, 0, x), or push when the captured index is out of range.
Placed(list, i, x) ==
  IF i \in 1 .. Len(list) + 1 THEN InsertAt(list, i, x) ELSE Append(list, x)

\* splice(i, 1) where i is the index of the object.
Without(list, id) == RemoveAt(list, At(list, id))

\* A field of a track, and the document with that field changed.
Of(d, t, f) == d.tracks[At(d.tracks, t)][f]
With(d, t, f, x) == [d EXCEPT !.tracks[At(d.tracks, t)][f] = x]

HasIn(d, t, f, id) == Has(d.tracks, t) /\ Has(Of(d, t, f), id)
In(d, t, f, id) == Of(d, t, f)[At(Of(d, t, f), id)]
Put(d, t, f, x) == With(d, t, f, [Of(d, t, f) EXCEPT ![At(Of(d, t, f), x.id)] = x])

\* A mutator that captured its inverse and applied, and one that returned
\* early: the target is gone, maybe remotely, or there is nothing to do.
Done(inverse, d) == [captured |-> <<inverse>>, doc |-> d]
Refused(d) == [captured |-> << >>, doc |-> d]

-----------------------------------------------------------------------------
(* Fields of the project and of a track.                                     *)

SetTrackGain(d, op) ==
  IF ~Has(d.tracks, op.t) THEN Refused(d)
  ELSE Done([op EXCEPT !.v = Of(d, op.t, "gain")], With(d, op.t, "gain", op.v))

\* The inverse of a first tempo writes the default down: absent and explicit
\* 120000 read the same.
SetTempo(d, op) ==
  IF d.tempo = op.v THEN Refused(d)
  ELSE Done([op EXCEPT !.v = IF d.tempo = Absent THEN DefaultTempo ELSE d.tempo],
            [d EXCEPT !.tempo = op.v])

SetTrackOrder(d, op) ==
  IF ~Has(d.tracks, op.t) \/ Of(d, op.t, "order") = op.v THEN Refused(d)
  ELSE Done(IF Of(d, op.t, "order") = Absent
              THEN [type |-> "clearTrackOrder", t |-> op.t]
              ELSE [op EXCEPT !.v = Of(d, op.t, "order")],
            With(d, op.t, "order", op.v))

ClearTrackOrder(d, op) ==
  IF ~Has(d.tracks, op.t) \/ Of(d, op.t, "order") = Absent THEN Refused(d)
  ELSE Done([type |-> "setTrackOrder", t |-> op.t, v |-> Of(d, op.t, "order")],
            With(d, op.t, "order", Absent))

\* The new track goes to the end of the list, wherever it was deleted from.
AddTrack(d, op) ==
  Done([type |-> "deleteTrack", t |-> op.track.id],
       [d EXCEPT !.tracks = Append(@, op.track)])

DeleteTrack(d, op) ==
  IF ~Has(d.tracks, op.t) THEN Refused(d)
  ELSE Done([type |-> "addTrack", track |-> d.tracks[At(d.tracks, op.t)]],
            [d EXCEPT !.tracks = Without(@, op.t)])

-----------------------------------------------------------------------------
(* The chain of devices: its order is the order of the signal.               *)

\* The inverse of a parameter's creation is its removal.
SetProcessorParam(d, op) ==
  IF ~HasIn(d, op.t, "chain", op.p) THEN Refused(d)
  ELSE LET proc == In(d, op.t, "chain", op.p) IN
       Done(IF proc.param = Absent
              THEN [type |-> "removeProcessorParam", t |-> op.t, p |-> op.p]
              ELSE [op EXCEPT !.v = proc.param],
            Put(d, op.t, "chain", [proc EXCEPT !.param = op.v]))

RemoveProcessorParam(d, op) ==
  IF ~HasIn(d, op.t, "chain", op.p) \/ In(d, op.t, "chain", op.p).param = Absent
  THEN Refused(d)
  ELSE LET proc == In(d, op.t, "chain", op.p) IN
       Done([type |-> "setProcessorParam", t |-> op.t, p |-> op.p, v |-> proc.param],
            Put(d, op.t, "chain", [proc EXCEPT !.param = Absent]))

AddProcessor(d, op) ==
  IF ~Has(d.tracks, op.t) \/ Has(Of(d, op.t, "chain"), op.proc.id) THEN Refused(d)
  ELSE Done([type |-> "removeProcessor", t |-> op.t, p |-> op.proc.id],
            With(d, op.t, "chain", Placed(Of(d, op.t, "chain"), op.index, op.proc)))

RemoveProcessor(d, op) ==
  IF ~HasIn(d, op.t, "chain", op.p) THEN Refused(d)
  ELSE Done([type |-> "addProcessor", t |-> op.t, proc |-> In(d, op.t, "chain", op.p),
             index |-> At(Of(d, op.t, "chain"), op.p)],
            With(d, op.t, "chain", Without(Of(d, op.t, "chain"), op.p)))

\* One change removes the device and puts a copy at its final index.
MoveProcessor(d, op) ==
  IF ~HasIn(d, op.t, "chain", op.p) THEN Refused(d)
  ELSE LET chain == Of(d, op.t, "chain")
           from == At(chain, op.p)
           to == IF op.to > Len(chain) THEN Len(chain) ELSE op.to
       IN IF to = from THEN Refused(d)
          ELSE Done([op EXCEPT !.to = from],
                    With(d, op.t, "chain",
                         InsertAt(Without(chain, op.p), to, chain[from])))

-----------------------------------------------------------------------------
(* Clips: a start in one of two domains, a length, a fade-out, notes.        *)

\* The timing of a clip, whatever its domain: the captured photo restores it.
SetClipTiming(d, op) ==
  IF ~HasIn(d, op.t, "clips", op.c) THEN Refused(d)
  ELSE LET clip == In(d, op.t, "clips", op.c) IN
       Done([op EXCEPT !.start = clip.start, !.len = clip.len],
            Put(d, op.t, "clips", [clip EXCEPT !.start = op.start, !.len = op.len]))

Timing(op, start, len) ==
  [type |-> "setClipTiming", t |-> op.t, c |-> op.c, start |-> start, len |-> len]

\* A musical clip moves in ticks: the target of the gesture is converted.
SetClipStart(d, op) ==
  IF ~HasIn(d, op.t, "clips", op.c) THEN Refused(d)
  ELSE LET clip == In(d, op.t, "clips", op.c) IN
       IF clip.start[1] = "tick"
       THEN SetClipTiming(d, Timing(op, <<"tick", op.v>>, clip.len))
       ELSE Done([op EXCEPT !.v = clip.start[2]],
                 Put(d, op.t, "clips", [clip EXCEPT !.start = <<"sample", op.v>>]))

SetClipBounds(d, op) ==
  IF ~HasIn(d, op.t, "clips", op.c) THEN Refused(d)
  ELSE LET clip == In(d, op.t, "clips", op.c) IN
       IF clip.start[1] = "tick"
       THEN SetClipTiming(d, Timing(op, <<"tick", op.v>>, op.len))
       ELSE Done([op EXCEPT !.v = clip.start[2], !.len = clip.len],
                 Put(d, op.t, "clips",
                     [clip EXCEPT !.start = <<"sample", op.v>>, !.len = op.len]))

\* A fade is cut to half the length the clip has at this moment.
SetClipFades(d, op) ==
  IF ~HasIn(d, op.t, "clips", op.c) THEN Refused(d)
  ELSE LET clip == In(d, op.t, "clips", op.c)
           half == clip.len \div 2
       IN Done([op EXCEPT !.v = clip.fade],
               Put(d, op.t, "clips",
                   [clip EXCEPT !.fade = IF op.v > half THEN half ELSE op.v]))

AddClip(d, op) ==
  IF ~Has(d.tracks, op.t) THEN Refused(d)
  ELSE Done([type |-> "deleteClip", t |-> op.t, c |-> op.clip.id],
            With(d, op.t, "clips", Append(Of(d, op.t, "clips"), op.clip)))

DeleteClip(d, op) ==
  IF ~HasIn(d, op.t, "clips", op.c) THEN Refused(d)
  ELSE Done([type |-> "addClip", t |-> op.t, clip |-> In(d, op.t, "clips", op.c)],
            With(d, op.t, "clips", Without(Of(d, op.t, "clips"), op.c)))

\* Only a slot of the session changes scene.
SetClipScene(d, op) ==
  IF ~HasIn(d, op.t, "clips", op.c) THEN Refused(d)
  ELSE LET clip == In(d, op.t, "clips", op.c) IN
       IF clip.scene \in {Absent, op.scene} THEN Refused(d)
       ELSE Done([op EXCEPT !.scene = clip.scene],
                 Put(d, op.t, "clips", [clip EXCEPT !.scene = op.scene]))

\* A note is toggled by its address (pitch and start); one that is born
\* without an id is given a new one.
ToggleNote(d, op) ==
  IF ~HasIn(d, op.t, "clips", op.c) THEN Refused(d)
  ELSE LET clip == In(d, op.t, "clips", op.c)
           there == {n \in clip.notes : n.at = op.note.at}
           born == IF op.note.id = Absent THEN [op.note EXCEPT !.id = d.born + 1]
                                          ELSE op.note
       IN IF there # {}
          THEN Done(op, Put(d, op.t, "clips", [clip EXCEPT !.notes = @ \ there]))
          ELSE Done(op, [Put(d, op.t, "clips", [clip EXCEPT !.notes = @ \cup {born}])
                           EXCEPT !.born = IF op.note.id = Absent THEN @ + 1 ELSE @])

\* A note is edited by its id, whatever became of its address. The inverse
\* holds the fields the patch holds.
UpdateNote(d, op) ==
  IF ~HasIn(d, op.t, "clips", op.c) THEN Refused(d)
  ELSE LET clip == In(d, op.t, "clips", op.c)
           hit == {n \in clip.notes : n.id = op.n}
       IN IF hit = {} THEN Refused(d)
          ELSE Done([op EXCEPT !.patch = Restrict(CHOOSE n \in hit : TRUE, DOMAIN op.patch)],
                    Put(d, op.t, "clips",
                        [clip EXCEPT !.notes = (@ \ hit) \cup {op.patch @@ n : n \in hit}]))

-----------------------------------------------------------------------------
(* Scenes of the session: a scene takes its slots with it.                   *)

\* The slots of a scene with their tracks, tracks and clips in order.
Slots(d, s) ==
  FlattenSeq([i \in DOMAIN d.tracks |->
    LET slots == SelectSeq(d.tracks[i].clips, LAMBDA c : c.scene = s)
    IN [j \in DOMAIN slots |-> [t |-> d.tracks[i].id, clip |-> slots[j]]]])

AddScene(d, op) ==
  Done([type |-> "deleteScene", s |-> op.s], [d EXCEPT !.scenes = Append(@, [id |-> op.s])])

DeleteScene(d, op) ==
  IF ~Has(d.scenes, op.s) THEN Refused(d)
  ELSE Done([type |-> "restoreScene", s |-> op.s, index |-> At(d.scenes, op.s),
             clips |-> Slots(d, op.s)],
            [d EXCEPT !.scenes = Without(@, op.s),
                      !.tracks = [i \in DOMAIN @ |-> [@[i] EXCEPT
                        !.clips = SelectSeq(@, LAMBDA c : c.scene # op.s)]]])

\* Back in its place, with the slots whose track is there and that are not.
RestoreScene(d, op) ==
  IF Has(d.scenes, op.s) THEN Refused(d)
  ELSE Done([type |-> "deleteScene", s |-> op.s],
            [FoldLeft(LAMBDA e, slot :
               IF Has(e.tracks, slot.t) /\ ~HasIn(e, slot.t, "clips", slot.clip.id)
                 THEN With(e, slot.t, "clips", Append(Of(e, slot.t, "clips"), slot.clip))
                 ELSE e, d, op.clips)
               EXCEPT !.scenes = Placed(@, op.index, [id |-> op.s])])

-----------------------------------------------------------------------------
(* Automation: a lane is a list of points sorted by time. A point has no id  *)
(* in the code and is addressed by its index; obj tells which point it is,   *)
(* wherever it has moved, and only the properties look at it.                *)

\* The lane is created with an id drawn by the caller.
AddAutomationLane(d, op) ==
  IF ~Has(d.tracks, op.t) THEN Refused(d)
  ELSE Done([type |-> "deleteAutomationLane", t |-> op.t, l |-> op.l],
            With(d, op.t, "lanes", Append(Of(d, op.t, "lanes"),
                 [id |-> op.l, on |-> TRUE, points |-> << >>])))

DeleteAutomationLane(d, op) ==
  IF ~HasIn(d, op.t, "lanes", op.l) THEN Refused(d)
  ELSE Done([type |-> "restoreAutomationLane", t |-> op.t,
             lane |-> In(d, op.t, "lanes", op.l), index |-> At(Of(d, op.t, "lanes"), op.l)],
            With(d, op.t, "lanes", Without(Of(d, op.t, "lanes"), op.l)))

RestoreAutomationLane(d, op) ==
  IF ~Has(d.tracks, op.t) \/ HasIn(d, op.t, "lanes", op.lane.id) THEN Refused(d)
  ELSE Done([type |-> "deleteAutomationLane", t |-> op.t, l |-> op.lane.id],
            With(d, op.t, "lanes", Placed(Of(d, op.t, "lanes"), op.index, op.lane)))

SetAutomationLaneEnabled(d, op) ==
  IF ~HasIn(d, op.t, "lanes", op.l) THEN Refused(d)
  ELSE LET lane == In(d, op.t, "lanes", op.l) IN
       Done([op EXCEPT !.on = lane.on], Put(d, op.t, "lanes", [lane EXCEPT !.on = op.on]))

\* The index of a point at time t among points: after those of the same time.
SortedIndex(points, t) == Cardinality({i \in DOMAIN points : points[i].t <= t}) + 1

AddAutomationPoint(d, op) ==
  IF ~HasIn(d, op.t, "lanes", op.l) THEN Refused(d)
  ELSE LET lane == In(d, op.t, "lanes", op.l)
           at == SortedIndex(lane.points, op.at)
           point == [t |-> op.at, v |-> op.v, obj |-> op.obj]
       IN Done([type |-> "deleteAutomationPoint", t |-> op.t, l |-> op.l, index |-> at],
               Put(d, op.t, "lanes", [lane EXCEPT !.points = InsertAt(@, at, point)]))

\* Rewritten in place, or taken out and inserted again when it passes another.
MoveAutomationPoint(d, op) ==
  IF ~HasIn(d, op.t, "lanes", op.l) \/ op.index > Len(In(d, op.t, "lanes", op.l).points)
  THEN Refused(d)
  ELSE LET lane == In(d, op.t, "lanes", op.l)
           old == lane.points[op.index]
           others == RemoveAt(lane.points, op.index)
           new == SortedIndex(others, op.at)
           point == [t |-> op.at, v |-> op.v, obj |-> old.obj]
       IN Done([op EXCEPT !.index = new, !.at = old.t, !.v = old.v],
               Put(d, op.t, "lanes", [lane EXCEPT !.points = InsertAt(others, new, point)]))

DeleteAutomationPoint(d, op) ==
  IF ~HasIn(d, op.t, "lanes", op.l) \/ op.index > Len(In(d, op.t, "lanes", op.l).points)
  THEN Refused(d)
  ELSE LET lane == In(d, op.t, "lanes", op.l)
           old == lane.points[op.index]
       IN Done([type |-> "addAutomationPoint", t |-> op.t, l |-> op.l, at |-> old.t,
                v |-> old.v, obj |-> old.obj],
               Put(d, op.t, "lanes", [lane EXCEPT !.points = RemoveAt(@, op.index)]))

-----------------------------------------------------------------------------
(* The operations the journal holds, and what replaying one does.            *)

Mutate(d, op) ==
  CASE op.type = "setTrackGain" -> SetTrackGain(d, op)
    [] op.type = "setTempo" -> SetTempo(d, op)
    [] op.type = "setTrackOrder" -> SetTrackOrder(d, op)
    [] op.type = "clearTrackOrder" -> ClearTrackOrder(d, op)
    [] op.type = "addTrack" -> AddTrack(d, op)
    [] op.type = "deleteTrack" -> DeleteTrack(d, op)
    [] op.type = "setProcessorParam" -> SetProcessorParam(d, op)
    [] op.type = "removeProcessorParam" -> RemoveProcessorParam(d, op)
    [] op.type = "addProcessor" -> AddProcessor(d, op)
    [] op.type = "removeProcessor" -> RemoveProcessor(d, op)
    [] op.type = "moveProcessor" -> MoveProcessor(d, op)
    [] op.type = "setClipTiming" -> SetClipTiming(d, op)
    [] op.type = "setClipStart" -> SetClipStart(d, op)
    [] op.type = "setClipBounds" -> SetClipBounds(d, op)
    [] op.type = "setClipFades" -> SetClipFades(d, op)
    [] op.type = "addClip" -> AddClip(d, op)
    [] op.type = "deleteClip" -> DeleteClip(d, op)
    [] op.type = "setClipScene" -> SetClipScene(d, op)
    [] op.type = "toggleNote" -> ToggleNote(d, op)
    [] op.type = "updateNote" -> UpdateNote(d, op)
    [] op.type = "addScene" -> AddScene(d, op)
    [] op.type = "deleteScene" -> DeleteScene(d, op)
    [] op.type = "restoreScene" -> RestoreScene(d, op)
    [] op.type = "addAutomationLane" -> AddAutomationLane(d, op)
    [] op.type = "deleteAutomationLane" -> DeleteAutomationLane(d, op)
    [] op.type = "restoreAutomationLane" -> RestoreAutomationLane(d, op)
    [] op.type = "setAutomationLaneEnabled" -> SetAutomationLaneEnabled(d, op)
    [] op.type = "addAutomationPoint" -> AddAutomationPoint(d, op)
    [] op.type = "moveAutomationPoint" -> MoveAutomationPoint(d, op)
    [] op.type = "deleteAutomationPoint" -> DeleteAutomationPoint(d, op)

\* The identity of what an inverse restores: within a gesture only the first
\* inverse of each is kept. A point is told by the time and value it had.
TargetKey(op) ==
  CASE op.type = "setTrackGain" -> <<"gain", op.t>>
    [] op.type = "setTempo" -> <<"tempo">>
    [] op.type \in {"setTrackOrder", "clearTrackOrder"} -> <<"order", op.t>>
    [] op.type = "addTrack" -> <<"track", op.track.id>>
    [] op.type = "deleteTrack" -> <<"track", op.t>>
    [] op.type \in {"setProcessorParam", "removeProcessorParam"} -> <<"param", op.t, op.p>>
    [] op.type = "addProcessor" -> <<"proc", op.t, op.proc.id>>
    [] op.type = "removeProcessor" -> <<"proc", op.t, op.p>>
    [] op.type = "moveProcessor" -> <<"procmove", op.t, op.p>>
    [] op.type \in {"setClipStart", "setClipTiming"} -> <<"clipstart", op.t, op.c>>
    [] op.type = "setClipBounds" -> <<"clipbounds", op.t, op.c>>
    [] op.type = "setClipFades" -> <<"clipfades", op.t, op.c>>
    [] op.type = "addClip" -> <<"clip", op.t, op.clip.id>>
    [] op.type = "deleteClip" -> <<"clip", op.t, op.c>>
    [] op.type = "setClipScene" -> <<"clipscene", op.t, op.c>>
    [] op.type = "toggleNote" -> <<"note", op.t, op.c, op.note.at>>
    [] op.type = "updateNote" -> <<"noteid", op.t, op.c, op.n>>
    [] op.type \in {"deleteScene", "restoreScene"} -> <<"scene", op.s>>
    [] op.type = "deleteAutomationLane" -> <<"alane", op.t, op.l>>
    [] op.type = "restoreAutomationLane" -> <<"alane", op.t, op.lane.id>>
    [] op.type = "setAutomationLaneEnabled" -> <<"alaneon", op.t, op.l>>
    [] op.type \in {"addAutomationPoint", "moveAutomationPoint"} ->
         <<"apoint", op.t, op.l, op.at, op.v>>
    [] op.type = "deleteAutomationPoint" -> <<"apoint-i", op.t, op.l, op.index>>

\* What a user sees of the document: identifiers of notes and points, the
\* order of clips in a track and the writing down of a default do not show.
View(d) ==
  [tempo |-> IF d.tempo = Absent THEN DefaultTempo ELSE d.tempo,
   scenes |-> d.scenes,
   tracks |-> [i \in DOMAIN d.tracks |-> LET track == d.tracks[i] IN
     [track EXCEPT
        !.clips = {[c EXCEPT !.notes = {<<n.at, n.vel>> : n \in @}] : c \in ToSet(@)},
        !.lanes = [j \in DOMAIN @ |-> [@[j] EXCEPT
                     !.points = [k \in DOMAIN @ |-> <<@[k].t, @[k].v>>]]]]]]
=============================================================================
