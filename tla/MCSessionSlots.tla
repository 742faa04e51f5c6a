--------------------------- MODULE MCSessionSlots ---------------------------
EXTENDS SessionSlots, MusicalTime

Note(p, s, e) == [pitch |-> p, start |-> s, end |-> e]

\* Every note ends before its slot does; with blocks of two samples, the
\* slots of three put boundaries in the middle of a block.
TwoTracks ==
  <<<<[scene |-> "verse", len |-> 6, notes |-> {Note("c", 0, 2), Note("e", 1, 5)}],
      [scene |-> "chorus", len |-> 3, notes |-> {Note("c", 1, 2)}]>>,
    <<[scene |-> "chorus", len |-> 6, notes |-> {Note("c", 3, 5)}]>>>>

\* The last note ends with its slot.
LastNoteToTheEnd ==
  [TwoTracks EXCEPT ![1][1].notes = {Note("c", 3, 6)}]

\* What a running graph plays was placed in musical time without a gap, an
\* overlap or a drift, and its envelopes follow their points.
PositionsAreSound == GraphRuns => Misplaced = {} /\ Misvalued = {} /\ BarsFit
=============================================================================
