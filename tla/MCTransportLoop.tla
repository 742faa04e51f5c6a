--------------------------- MODULE MCTransportLoop ---------------------------
(***************************************************************************)
(* The transport, under names that the other state of the audio callback,  *)
(* SessionSlots, leaves free: both are proved about in Callback_proofs.    *)
(***************************************************************************)
EXTENDS Integers, Sequences

CONSTANTS
  Frames, Regions, Ends, MaxPos, MaxCommands, MaxControl,   \* as in TransportLoop
  SubBlock, SeekTargets       \* its Block and Targets

VARIABLES
  running,                    \* playing of TransportLoop
  position, looping, loopStart, loopEnd, contentEnd, userLoop, queue, sent, apc, cmd,
  braces, here, cpc, cend, turns, expected, heard, region, clean

Loop == INSTANCE TransportLoop
  WITH playing <- running, Block <- SubBlock, Targets <- SeekTargets

ASSUME LoopAssumption == Loop!TransportLoopAssumption

LoopSpec == Loop!FairSpec

\* Playback is continuous but for seeks and loops, and no sub-block crosses the
\* brace it was cut to (audio_callback.cpp, the loop over sub-blocks).
PlaysAsTold == Loop!PlaysAsTold

\* The callback returns, and playback without a loop ends (audio_callback.cpp).
NothingRunsForEver == Loop!NothingRunsForEver

\* A rebuild spares the region of a user (transport_state.h:107): not always.
UserRegionSurvives == Loop!UserRegionSurvives

\* Without a region the braces follow the content (transport_state.h): not always.
BracesFollowContent == Loop!BracesFollowContent

\* Nothing of the old project outlives a switch (main.cpp:1619): a command may.
SwitchIsClean == Loop!SwitchIsClean

\* A good region, a crossed one, a negative one; frames 0 to 4.
MCRegions == {<<1, 3>>, <<2, 1>>, <<-1, 2>>}
OneRegion == {<<1, 3>>}
MCTargets == {-1, 2}
=============================================================================
