---------------------------- MODULE MCUndoJournal ----------------------------
(* Instances of UndoJournal for TLC. *)
EXTENDS UndoJournal

\* Two tracks; the first has a device, a lane with a point and a slot of the
\* first scene with a note, the second an audio clip with a fade of the given length.
Project(fade) ==
  [tempo |-> Absent, scenes |-> <<[id |-> 9], [id |-> 10]>>, born |-> 10,
   tracks |->
     <<[id |-> 1, gain |-> 0, order |-> Absent,
        chain |-> <<[id |-> 3, param |-> Absent]>>,
        clips |-> <<[id |-> 4, start |-> <<"tick", 0>>, len |-> 1, fade |-> 0,
                     scene |-> 9, notes |-> {[id |-> 5, at |-> 0, vel |-> 0]}]>>,
        lanes |-> <<[id |-> 6, on |-> TRUE, points |-> <<[t |-> 1, v |-> 0, obj |-> 7]>>]>>],
       [id |-> 2, gain |-> 0, order |-> Absent, chain |-> << >>,
        clips |-> <<[id |-> 8, start |-> <<"sample", 0>>, len |-> 2 * fade + 2, fade |-> fade,
                     scene |-> Absent, notes |-> {}]>>,
        lanes |-> << >>]>>]

Plain == Project(0)
Faded == Project(1)
=============================================================================
