----------------------------- MODULE UndoJournal -----------------------------
(* The undo journal of one tab (web/src/document/undo.ts) under the user's   *)
(* gestures and the changes of the other replicas. The journal holds         *)
(* inverse operations, never documents: undo and redo replay them as new     *)
(* changes through the mutators of ProjectEdits, and what the mutators       *)
(* capture meanwhile is the entry of the opposite stack.                     *)
(*                                                                           *)
(* One step is one turn of the event loop. A drag is a gesture of several    *)
(* turns: a group is opened at its start and closed when the pointer is      *)
(* released. Changes of others are applied to the document as it is.         *)
EXTENDS Journal

CONSTANTS
  Start,        \* the document at the start
  Types,        \* the mutators the user calls
  RemoteTypes,  \* the mutators the others call
  Value,        \* gains, tempi, orders, parameters, starts, velocities, times
  Length,       \* lengths of clips
  MaxEdits,     \* edits made here, and by others: a bound of the instance
  MaxIds        \* identifiers drawn: a bound of the instance (a note toggled again
                \* by a redo draws one)

VARIABLES
  doc,
  undoStack, redoStack,  \* sequences of entries, each a sequence of inverses
  open, group,           \* the group of the gesture under way
  undoDocs, redoDocs,    \* ghost: the document each entry leads back to
  origin,                \* ghost: the document before the gesture under way
  exact,                 \* ghost: nobody else edited
  others, edited,        \* ghost: ids drawn elsewhere, and those edited here
  edits

journal == <<undoStack, redoStack, open, group>>
ghosts == <<undoDocs, redoDocs, origin, exact, others, edited>>
vars == <<doc, journal, ghosts, edits>>

Init ==
  /\ doc = Start
  /\ undoStack = << >> /\ redoStack = << >>
  /\ open = FALSE /\ group = << >>
  /\ undoDocs = << >> /\ redoDocs = << >>
  /\ origin = Start /\ exact = TRUE
  /\ others = {} /\ edited = {}
  /\ edits = 0

-----------------------------------------------------------------------------
(* The calls a user interface makes                                          *)

TrackCalls(d) ==
  {[type |-> y, t |-> t, v |-> v] :
     y \in {"setTrackGain", "setTrackOrder"}, t \in TrackIds(d), v \in Value}
  \cup {[type |-> "setTempo", v |-> v] : v \in Value}
  \cup {[type |-> "addTrack", track |-> NewTrack(New(d))]}
  \cup {[type |-> "deleteTrack", t |-> t] : t \in TrackIds(d)}

ChainCalls(d) ==
  {[type |-> "setProcessorParam", t |-> x[1], p |-> x[2], v |-> v] :
     x \in In1(d, "chain"), v \in Value}
  \cup {[type |-> "addProcessor", t |-> t, proc |-> [id |-> New(d), param |-> Absent],
         index |-> i] : t \in TrackIds(d), i \in 0 .. 1}
  \cup {[type |-> "removeProcessor", t |-> x[1], p |-> x[2]] : x \in In1(d, "chain")}
  \cup {[type |-> "moveProcessor", t |-> x[1], p |-> x[2], to |-> i] :
         x \in In1(d, "chain"), i \in 1 .. 2}

ClipCalls(d) ==
  {[type |-> "setClipStart", t |-> x[1], c |-> x[2], v |-> v] : x \in In1(d, "clips"), v \in Value}
  \cup {[type |-> "setClipTiming", t |-> x[1], c |-> x[2], start |-> <<"tick", v>>, len |-> n] :
         x \in In1(d, "clips"), v \in Value, n \in Length}
  \cup {[type |-> "setClipBounds", t |-> x[1], c |-> x[2], v |-> v, len |-> n] :
         x \in In1(d, "clips"), v \in Value, n \in Length}
  \cup {[type |-> "setClipFades", t |-> x[1], c |-> x[2], v |-> v] :
         x \in In1(d, "clips"), v \in Value}
  \cup {[type |-> "addClip", t |-> t, clip |-> NewClip(New(d), s)] :
         t \in TrackIds(d), s \in Ids(d.scenes) \cup {Absent}}
  \cup {[type |-> "deleteClip", t |-> x[1], c |-> x[2]] : x \in In1(d, "clips")}
  \cup {[type |-> "setClipScene", t |-> x[1], c |-> x[2], scene |-> s] :
         x \in In1(d, "clips"), s \in Ids(d.scenes)}

\* A note is put on an empty cell of the grid, or taken off as it is.
NoteCalls(d) ==
  UNION {LET notes == In(d, x[1], "clips", x[2]).notes IN
    {[type |-> "toggleNote", t |-> x[1], c |-> x[2], note |-> n] :
       n \in notes \cup {[id |-> Absent, at |-> v, vel |-> 0] : v \in Value \ {m.at : m \in notes}}}
    \cup {[type |-> "updateNote", t |-> x[1], c |-> x[2], n |-> n.id, patch |-> [vel |-> v]] :
       n \in notes, v \in Value} : x \in In1(d, "clips")}

SceneCalls(d) ==
  {[type |-> "addScene", s |-> New(d)]}
  \cup {[type |-> "deleteScene", s |-> s] : s \in Ids(d.scenes)}

LaneCalls(d) ==
  {[type |-> "addAutomationLane", t |-> t, l |-> New(d)] : t \in TrackIds(d)}
  \cup {[type |-> "deleteAutomationLane", t |-> x[1], l |-> x[2]] : x \in In1(d, "lanes")}
  \cup {[type |-> "setAutomationLaneEnabled", t |-> x[1], l |-> x[2], on |-> b] :
         x \in In1(d, "lanes"), b \in BOOLEAN}
  \cup {[type |-> "addAutomationPoint", t |-> x[1], l |-> x[2], at |-> v, v |-> 0,
          obj |-> New(d)] : x \in In1(d, "lanes"), v \in Value}
  \cup UNION {{[type |-> "moveAutomationPoint", t |-> x[1], l |-> x[2], index |-> i,
                at |-> v, v |-> 0] :
           i \in DOMAIN In(d, x[1], "lanes", x[2]).points, v \in Value} : x \in In1(d, "lanes")}
  \cup UNION {{[type |-> "deleteAutomationPoint", t |-> x[1], l |-> x[2], index |-> i] :
           i \in DOMAIN In(d, x[1], "lanes", x[2]).points} : x \in In1(d, "lanes")}

Calls(d, types) ==
  {op \in TrackCalls(d) \cup ChainCalls(d) \cup ClipCalls(d) \cup NoteCalls(d)
          \cup SceneCalls(d) \cup LaneCalls(d) : op.type \in types}

\* The mutators a drag calls again and again while the pointer moves.
Drags == {"setTrackGain", "setTrackOrder", "setProcessorParam", "setClipStart",
          "setClipBounds", "setClipFades", "updateNote", "moveAutomationPoint"}

\* Gestures that call several mutators in one turn: move a clip to another
\* track. A slot dropped on a cell of another scene changes scene first.
MoveCalls(d) ==
  {LET x == z[1]
       y == z[2]
       clip == In(d, x[1], "clips", x[2])
       moved == [clip EXCEPT !.scene = IF y[2] = Absent THEN @ ELSE y[2]]
   IN (IF y[2] \in {Absent, clip.scene} THEN << >>
       ELSE <<[type |-> "setClipScene", t |-> x[1], c |-> x[2], scene |-> y[2]]>>)
      \o <<[type |-> "deleteClip", t |-> x[1], c |-> x[2]],
           [type |-> "addClip", t |-> y[1], clip |-> moved]>> :
     z \in {m \in In1(d, "clips") \X (TrackIds(d) \X (Ids(d.scenes) \cup {Absent})) :
       /\ m[2][1] # m[1][1]
       /\ m[2][2] = Absent <=> In(d, m[1][1], "clips", m[1][2]).scene = Absent}}

Gestures(d) ==
  {g \in SplitCalls(d) \cup MoveCalls(d) \cup DuplicateCalls(d) :
     \A i \in DOMAIN g : g[i].type \in Types}

-----------------------------------------------------------------------------
(* What the properties look at                                               *)

\* Every object with the containers it is in.
Objects(d) ==
  UNION {LET t == d.tracks[i] IN
    {[id |-> t.id, in |-> {}, what |-> <<t.gain, t.order>>]}
    \cup {[id |-> p.id, in |-> {t.id}, what |-> <<p.param>>] : p \in ToSet(t.chain)}
    \cup {[id |-> c.id, in |-> {t.id, c.scene}, what |-> <<c.start, c.len, c.fade>>] :
            c \in ToSet(t.clips)}
    \cup UNION {{[id |-> n.id, in |-> {t.id, c.id, c.scene}, what |-> <<n.at, n.vel>>] :
                   n \in c.notes} : c \in ToSet(t.clips)}
    \cup {[id |-> l.id, in |-> {t.id}, what |-> <<l.on>>] : l \in ToSet(t.lanes)}
    \cup UNION {{[id |-> q.obj, in |-> {t.id, l.id}, what |-> <<q.t, q.v>>] :
                   q \in ToSet(l.points)} : l \in ToSet(t.lanes)} : i \in DOMAIN d.tracks}
  \cup {[id |-> s.id, in |-> {}, what |-> << >>] : s \in ToSet(d.scenes)}

There(d) == {x.id : x \in Objects(d)}

Theirs == others \ edited

\* Ids of objects that are no longer as they were.
Changed(d, e) == {x.id : x \in Objects(d) \ Objects(e)}

-----------------------------------------------------------------------------
(* Actions                                                                   *)

\* The document before the gesture under way, as long as nobody else edits.
Before == IF ~exact THEN Start ELSE IF open THEN origin ELSE doc

Edited ==
  /\ edits' = edits + 1
  /\ edited' = edited \cup Changed(doc, doc')
  /\ UNCHANGED others

\* Any call outside a gesture is an entry of its own; in a drag it joins the
\* group, and the user does nothing else: his hand is on the pointer.
Edit ==
  /\ edits < MaxEdits
  /\ \E op \in Calls(doc, IF open THEN Types \cap Drags ELSE Types) :
       LET m == Mutate(doc, op) IN
       /\ doc' = Drawn(m.doc, <<op>>)
       /\ IF open
            THEN /\ group' = Kept(group, m.captured)
                 /\ UNCHANGED <<undoStack, undoDocs>>
            ELSE /\ undoStack' = Pushed(undoStack, m.captured, m.captured)
                 /\ undoDocs' = Pushed(undoDocs, m.captured, Before)
                 /\ UNCHANGED group
       /\ IF RedoAfter(m.captured) THEN redoStack' = << >> /\ redoDocs' = << >>
                                   ELSE UNCHANGED <<redoStack, redoDocs>>
  /\ Edited
  /\ UNCHANGED <<open, origin, exact>>

\* endGroup closes whatever group is open: the drag of a clip that ends on
\* another track is closed by the move.
Gesture ==
  /\ edits < MaxEdits
  /\ \E calls \in Gestures(doc) :
       LET r == Run(doc, calls, group) IN
       /\ open => /\ calls \in MoveCalls(doc)
                  /\ Keys(group) = {<<"clipstart", calls[1].t, calls[1].c>>}
       /\ r.group # << >>
       /\ doc' = Drawn(r.doc, calls)
       /\ undoStack' = Pushed(undoStack, r.group, r.group)
       /\ undoDocs' = Pushed(undoDocs, r.group, Before)
       /\ redoStack' = << >> /\ redoDocs' = << >>
  /\ open' = FALSE /\ group' = << >> /\ origin' = Start
  /\ Edited
  /\ UNCHANGED exact

BeginGroup ==
  /\ ~open /\ edits < MaxEdits
  /\ open' = TRUE /\ origin' = IF exact THEN doc ELSE Start
  /\ UNCHANGED <<doc, undoStack, redoStack, group, undoDocs, redoDocs, exact, others, edited, edits>>

EndGroup ==
  /\ open
  /\ undoStack' = Pushed(undoStack, group, group)
  /\ undoDocs' = Pushed(undoDocs, group, Before)
  /\ open' = FALSE /\ group' = << >> /\ origin' = Start
  /\ UNCHANGED <<doc, redoStack, redoDocs, exact, others, edited, edits>>

\* A mutated undo that puts back the document it remembers.
UndoToSnapshot ==
  /\ undoStack # << >> /\ ~open /\ doc.born < MaxIds
  /\ LET r == Replayed(doc, Last(undoStack)) IN
     /\ doc' = Last(undoDocs)
     /\ redoStack' = Pushed(redoStack, r.group, r.group)
     /\ redoDocs' = Pushed(redoDocs, r.group, Before)
  /\ undoStack' = Front(undoStack) /\ undoDocs' = Front(undoDocs)
  /\ UNCHANGED <<open, group, origin, exact, others, edited, edits>>

\* The replay is a group of its own.
Undo ==
  /\ undoStack # << >> /\ ~open /\ doc.born < MaxIds
  /\ LET r == Replayed(doc, Last(undoStack)) IN
     /\ doc' = r.doc
     /\ redoStack' = Pushed(redoStack, r.group, r.group)
     /\ redoDocs' = Pushed(redoDocs, r.group, Before)
  /\ undoStack' = Front(undoStack) /\ undoDocs' = Front(undoDocs)
  /\ UNCHANGED <<open, group, origin, exact, others, edited, edits>>

Redo ==
  /\ redoStack # << >> /\ ~open /\ doc.born < MaxIds
  /\ LET r == Replayed(doc, Last(redoStack)) IN
     /\ doc' = r.doc
     /\ undoStack' = Pushed(undoStack, r.group, r.group)
     /\ undoDocs' = Pushed(undoDocs, r.group, Before)
  /\ redoStack' = Front(redoStack) /\ redoDocs' = Front(redoDocs)
  /\ UNCHANGED <<open, group, origin, exact, others, edited, edits>>

\* A change of another replica never touches the journal.
RemoteChange ==
  /\ edits < MaxEdits /\ edits' = edits + 1
  /\ \E op \in Calls(doc, RemoteTypes) : doc' = Drawn(Mutate(doc, op).doc, <<op>>)
  /\ others' = others \cup doc.born + 1 .. doc'.born
  /\ exact' = FALSE
  /\ undoDocs' = [i \in DOMAIN undoDocs |-> Start] /\ origin' = Start
  /\ redoDocs' = [i \in DOMAIN redoDocs |-> Start]
  /\ UNCHANGED <<journal, edited>>

Next == Edit \/ Gesture \/ BeginGroup \/ EndGroup \/ Undo \/ Redo \/ RemoteChange

Spec == Init /\ [][Next]_vars

-----------------------------------------------------------------------------
(* Properties                                                                *)

UniqueIds(list) == \A i, j \in DOMAIN list : list[i].id = list[j].id => i = j

\* The stacks hold entries only and no more than they may, a closed group is
\* empty (undo.ts: push, endGroup).
StacksOK ==
  /\ \A s \in {undoStack, redoStack} : Len(s) <= MaxEntries /\ << >> \notin ToSet(s)
  /\ Len(undoStack) = Len(undoDocs) /\ Len(redoStack) = Len(redoDocs)
  /\ open \/ group = << >>

\* So are ids unique, and the points of a lane sorted ("le tri par t est un
\* invariant d'ECRITURE", addAutomationPoint).
TypeOK ==
  /\ StacksOK
  /\ UniqueIds(doc.tracks) /\ UniqueIds(doc.scenes)
  /\ \A t \in ToSet(doc.tracks) :
       /\ UniqueIds(t.chain) /\ UniqueIds(t.clips) /\ UniqueIds(t.lanes)
       /\ \A l \in ToSet(t.lanes) : \A i, j \in DOMAIN l.points :
            i < j => l.points[i].t <= l.points[j].t

\* As long as nobody else edits, undo gives the document before the last
\* gesture and redo the one before the last undo: every mutator's inverse,
\* and the first-capture rule of a drag, restore what the user saw (undo.ts:
\* "Every local mutation captures, BEFORE applying, the operation that
\* reverts it"). The journal and the document are well formed.
HistoryIsExact ==
  /\ TypeOK
  /\ exact /\ ~open =>
       /\ undoStack # << >> =>
            View(Replayed(doc, Last(undoStack)).doc) = View(Last(undoDocs))
       /\ redoStack # << >> =>
            View(Replayed(doc, Last(redoStack)).doc) = View(Last(redoDocs))

\* Undo and redo leave alone what others made and nobody here edited; it goes
\* only with a container that the replay removes (undo.ts: "an undo only
\* rewrites the fields it touched, remote work survives").
RemoteWorkSurvives ==
  [][Undo \/ Redo =>
       \A x \in Objects(doc) :
         x.id \in Theirs /\ x.in \cap There(doc) \subseteq There(doc')
           => x \in Objects(doc')]_vars
=============================================================================
