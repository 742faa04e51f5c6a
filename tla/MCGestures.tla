------------------------------ MODULE MCGestures ------------------------------
(* An instance of Gestures for TLC. *)
EXTENDS Gestures

\* Three tracks; the first has two devices, an audio clip and a slot with two
\* notes, the second a musical clip and a lane with a point. Between
\* the first and the second there is no room for the order of another one.
Project ==
  [tempo |-> Absent, scenes |-> <<[id |-> 13], [id |-> 14]>>, born |-> 14,
   tracks |->
     <<[id |-> 1, gain |-> 0, order |-> Absent,
        chain |-> <<[id |-> 4, param |-> Absent], [id |-> 5, param |-> Absent]>>,
        clips |-> <<[id |-> 6, start |-> <<"sample", 0>>, len |-> 2, fade |-> 0,
                     scene |-> Absent, notes |-> {}],
                    [id |-> 7, start |-> <<"sample", 0>>, len |-> 1, fade |-> 0,
                     scene |-> 13, notes |-> {[id |-> 8, at |-> 0, vel |-> 0],
                                              [id |-> 9, at |-> 1, vel |-> 0]}]>>,
        lanes |-> << >>],
       [id |-> 2, gain |-> 0, order |-> 3, chain |-> << >>,
        clips |-> <<[id |-> 10, start |-> <<"tick", 1>>, len |-> 2, fade |-> 0,
                     scene |-> Absent, notes |-> {}]>>,
        lanes |-> <<[id |-> 11, on |-> TRUE, points |-> <<[t |-> 1, v |-> 0, obj |-> 12]>>]>>],
       [id |-> 3, gain |-> 0, order |-> Absent, chain |-> << >>, clips |-> << >>,
        lanes |-> << >>]>>]
=============================================================================
