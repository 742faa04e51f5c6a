------------------------------- MODULE Journal -------------------------------
(* The entries of the undo journal of web/src/document/undo.ts as operators:  *)
(* what a group keeps of the inverses captured in it, what is pushed on a     *)
(* stack, what replaying an entry does. The stacks themselves are variables   *)
(* of the modules that put gestures on top: UndoJournal, with every mutator   *)
(* of the document, and Gestures, with the handlers of the pointer.           *)
EXTENDS ProjectEdits

CONSTANT MaxEntries   \* MAX_ENTRIES

ASSUME JournalAssumption == MaxEntries \in Nat \ {0}

\* The mutators called with a new identifier.
Births == {"addTrack", "addProcessor", "addClip", "addScene", "addAutomationLane",
           "addAutomationPoint"}

Keys(g) == {TargetKey(g[i]) : i \in DOMAIN g}

\* A mutated capture that keeps the last inverse of a target.
KeptLast(g, captured) ==
  IF captured = << >> THEN g
  ELSE SelectSeq(g, LAMBDA op : TargetKey(op) # TargetKey(captured[1])) \o captured

\* In a group only the first inverse of each target counts.
Kept(g, captured) ==
  IF captured = << >> \/ TargetKey(captured[1]) \in Keys(g) THEN g ELSE g \o captured

Bounded(s) == IF Len(s) > MaxEntries THEN Tail(s) ELSE s

\* A group without a capture is no entry.
Pushed(stack, g, x) == IF g = << >> THEN stack ELSE Bounded(Append(stack, x))

\* The calls made one after the other in a group.
Run(d, calls, g) ==
  FoldLeft(LAMBDA acc, op : LET m == Mutate(acc.doc, op)
                            IN [doc |-> m.doc, group |-> Kept(acc.group, m.captured),
                                any |-> acc.any \/ m.captured # << >>],
           [doc |-> d, group |-> g, any |-> FALSE], calls)

\* Identifiers are never drawn twice.
Drawn(d, calls) ==
  [d EXCEPT !.born = @ + Cardinality({i \in DOMAIN calls : calls[i].type \in Births})]

\* popUndo reverses the entry.
ReplayOrder(entry) == Reverse(entry)
Replayed(d, entry) == Run(d, ReplayOrder(entry), << >>)

\* A fresh capture drops what could be redone.
RedoAfter(captured) == captured # << >>

-----------------------------------------------------------------------------
(* What is in a document, and gestures that call several mutators in a turn. *)

Ids(list) == {x.id : x \in ToSet(list)}
TrackIds(d) == Ids(d.tracks)
In1(d, f) == UNION {{<<t.id, i>> : i \in Ids(t[f])} : t \in ToSet(d.tracks)}
New(d) == d.born + 1

NewTrack(i) ==
  [id |-> i, gain |-> 0, order |-> Absent, chain |-> << >>, clips |-> << >>, lanes |-> << >>]
NewClip(i, scene) ==
  [id |-> i, start |-> <<"sample", 0>>, len |-> 1, fade |-> 0, scene |-> scene, notes |-> {}]

\* A clip without an asset: it is born musical, or in a slot of the session.
Midi(clip) == clip.start[1] = "tick" \/ clip.scene # Absent \/ clip.notes # {}

\* Cut a clip in two: not a musical one.
SplitCalls(d) ==
  UNION {LET clip == In(d, x[1], "clips", x[2]) IN
    {<<[type |-> "setClipBounds", t |-> x[1], c |-> x[2], v |-> clip.start[2], len |-> n]>>
     \o (IF clip.fade = 0 THEN << >>
         ELSE <<[type |-> "setClipFades", t |-> x[1], c |-> x[2], v |-> 0]>>)
     \o <<[type |-> "addClip", t |-> x[1], clip |->
             [clip EXCEPT !.id = New(d), !.start = <<"sample", @[2] + n>>, !.len = @ - n]]>> :
       n \in IF Midi(clip) THEN {} ELSE 1 .. clip.len - 1} :
     x \in In1(d, "clips")}

\* Duplicate a scene with the slots a cell shows.
FirstSlots(d, s) ==
  FlattenSeq([i \in DOMAIN d.tracks |->
    LET slots == SelectSeq(d.tracks[i].clips, LAMBDA c : c.scene = s)
    IN IF slots = << >> THEN << >> ELSE <<[t |-> d.tracks[i].id, clip |-> Head(slots)]>>])

DuplicateCalls(d) ==
  {LET slots == FirstSlots(d, s) IN
   <<[type |-> "addScene", s |-> New(d)]>> \o
     [i \in DOMAIN slots |->
        [type |-> "addClip", t |-> slots[i].t, clip |->
          [slots[i].clip EXCEPT !.id = New(d) + i, !.scene = New(d)]]] :
     s \in Ids(d.scenes)}
=============================================================================
