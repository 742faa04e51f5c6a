------------------------------ MODULE MCRings ------------------------------
(***************************************************************************)
(* The audio thread between its two channels: it pops the ring of commands *)
(* and pushes the events of the child's channel, one step of either at a   *)
(* time, never one in the middle of the other.                             *)
(***************************************************************************)
EXTENDS SpscRing

CONSTANTS Capacity, MaxEvents, MaxLives

VARIABLES writeIdx, readIdx, slots, wpc, seenRead, rpc, at, tmp, got, gotLife,
          life, bornAt

Channel == INSTANCE OverwriteFifo WITH MaxPush <- MaxEvents

ASSUME ChannelAssumption == Channel!OverwriteFifoAssumption

channelVars == <<writeIdx, readIdx, slots, wpc, seenRead, rpc, at, tmp, got,
                 gotLife, life, bornAt>>
bothVars == <<vars, channelVars>>

\* The steps of the two modules: of the other threads, and of the audio thread.
Pop == wpc = "idle" /\ PopStep /\ UNCHANGED channelVars
Push ==
  /\ cpc = "idle"
  /\ Channel!WriterStep \/ Channel!BeginPush
  /\ UNCHANGED vars
PusherStep(p) == PushStep(p) /\ UNCHANGED channelVars
NewPush == (\E p \in Pusher : LoadHead(p)) /\ UNCHANGED channelVars
ReaderStep == Channel!ReaderStep /\ UNCHANGED vars
ReaderLives == (Channel!ChildDies \/ Channel!ChildRestarts) /\ UNCHANGED vars

BothNext ==
  Pop \/ Push \/ (\E p \in Pusher : PusherStep(p)) \/ NewPush \/ ReaderStep \/ ReaderLives

BothInit == Init /\ Channel!Init

\* What began ends: a push, a callback, the child's drain.
BothSpec ==
  /\ BothInit
  /\ [][BothNext]_bothVars
  /\ \A p \in Pusher : WF_bothVars(PusherStep(p))
  /\ WF_bothVars(Pop) /\ WF_bothVars(ReaderStep)
  /\ WF_bothVars(wpc # "idle" /\ Push)

\* The command ring is the bounded queue, the child's channel the lossy one.
ImplementsQueues == ImplementsBoundedFifo /\ Channel!Abstract!Spec

\* Neither keeps the other waiting: in the end both are empty, the channel of
\* a dead child excepted.
BothDrain == <>[](head = tail /\ (rpc # "dead" => readIdx = writeIdx))
=============================================================================
