---------------------------- MODULE TransportLoop ----------------------------
(***************************************************************************)
(* The engine's transport: the atomics of TransportState, written by the   *)
(* audio callback (commands popped from the ring, end of content, final    *)
(* position) and by the control loop (content end after each rebuild,      *)
(* project switch), with nothing but the order of single stores between    *)
(* them.  Frames are small numbers; a callback asks for Frames of them and *)
(* processes sub-blocks of at most Block.                                  *)
(*                                                                         *)
(* The command ring is a queue here (see SpscRing for the ring itself).    *)
(***************************************************************************)
EXTENDS Integers, Sequences

CONSTANTS
  Frames, Block,   \* frame_count, INTERNAL_BLOCK_SIZE
  Regions,         \* <<start, end>> of SetLoop commands, ill-formed ones included
  Targets,         \* positions of Seek commands, negative ones included
  Ends,            \* content ends of the documents built
  MaxPos,          \* bound: no callback starts further than this
  MaxCommands,     \* bound: commands the browsers send
  MaxControl       \* bound: rebuilds and project switches

TransportLoopAssumption ==
  /\ Frames \in Nat \ {0} /\ Block \in Nat \ {0}
  /\ Regions \subseteq Int \X Int /\ Targets \subseteq Int /\ Ends \subseteq Nat
  /\ MaxPos \in Nat /\ MaxCommands \in Nat /\ MaxControl \in Nat

VARIABLES
  playing, position, looping,             \* playing_, position_, looping_
  loopStart, loopEnd, contentEnd, userLoop,
  queue, sent,     \* the command ring; how many commands were sent
  apc,             \* callback: see TypeOK
  cmd,             \* the SetLoop being applied
  braces,          \* what setLoopPoints is to store, by the callback
  here,            \* what the callback loaded and where it stands
  cpc, cend,       \* control loop; what it is to store as loop_end
  turns,           \* rebuilds and switches so far
  expected,        \* the frame a listener expects next
  heard,           \* the last sub-block processed
  region,          \* the last region a SetLoop was accepted for
  clean            \* no command was sent since the last project switch began

transport == <<playing, position, looping, loopStart, loopEnd, contentEnd, userLoop>>
ghosts == <<expected, heard, region, clean>>
vars == <<transport, queue, sent, apc, cmd, braces, here, cpc, cend, turns, ghosts>>

Command ==
  [op : {"play", "stop"}] \cup [op : {"seek"}, to : Targets]
  \cup [op : {"loop"}, clear : BOOLEAN, region : Regions \cup {<<>>}, on : BOOLEAN]

\* What the ring holds: commands, and the seek of a project switch.
Queued == Command \cup [op : {"seek"}, to : {0}]

Here == [pos : Nat, looping : BOOLEAN, start : Nat, end : Nat, written : 0 .. Frames]
Heard == [from : Nat, len : 0 .. Block, end : Nat]

TypeOK ==
  /\ playing \in BOOLEAN /\ looping \in BOOLEAN /\ userLoop \in BOOLEAN
  /\ position \in Nat /\ loopStart \in Nat /\ loopEnd \in Nat /\ contentEnd \in Nat
  /\ queue \in Seq(Queued)
  /\ sent \in Nat /\ turns \in Nat
  /\ apc \in {"out", "commands", "flag", "content", "start", "end", "toggle",
              "loadstart", "loadend", "block", "publish"}
  /\ here \in Here
  /\ cpc \in {"idle", "follow", "start", "end", "seek", "flag", "content"}
  /\ cend \in Nat
  /\ expected \in Nat
  /\ heard \in Heard
  /\ clean \in BOOLEAN

Init ==
  /\ playing = FALSE /\ position = 0 /\ looping = FALSE
  /\ loopStart = 0 /\ loopEnd = 0 /\ contentEnd = 0 /\ userLoop = FALSE
  /\ queue = <<>> /\ sent = 0
  /\ apc = "out" /\ cmd = <<>> /\ braces = <<0, 0>>
  /\ here = [pos |-> 0, looping |-> FALSE, start |-> 0, end |-> 0, written |-> 0]
  /\ cpc = "idle" /\ cend = 0 /\ turns = 0
  /\ expected = 0 /\ heard = [from |-> 0, len |-> 0, end |-> 0]
  /\ region = <<>> /\ clean = FALSE

-----------------------------------------------------------------------------
(* A browser's command, through the WebSocket server                        *)

Send ==
  /\ sent < MaxCommands
  /\ \E c \in Command : queue' = Append(queue, c)
  /\ sent' = sent + 1
  /\ clean' = FALSE
  /\ UNCHANGED <<transport, apc, cmd, braces, here, cpc, cend, turns,
                 expected, heard, region>>

-----------------------------------------------------------------------------
(* The audio callback                                                       *)

CallbackEnter ==
  /\ apc = "out" /\ position <= MaxPos
  /\ apc' = "commands"
  /\ UNCHANGED <<transport, queue, sent, cmd, braces, here, cpc, cend, turns, ghosts>>

\* processCommands: play, stop and seek are one store each.
PopCommand ==
  /\ apc = "commands" /\ queue # <<>>
  /\ queue' = Tail(queue)
  /\ LET c == Head(queue)
         sought == c.op = "seek" /\ c.to >= 0
     IN /\ playing' = IF c.op \in {"play", "stop"} THEN c.op = "play" ELSE playing
        /\ position' = IF sought THEN c.to ELSE position
        /\ expected' = IF sought THEN c.to ELSE expected
        /\ IF c.op = "loop" THEN cmd' = c /\ apc' = "flag" ELSE UNCHANGED <<cmd, apc>>
  /\ UNCHANGED <<looping, loopStart, loopEnd, contentEnd, userLoop, sent, braces,
                 here, cpc, cend, turns, heard, region, clean>>

\* Mutant: a region is taken as it comes.
ValidUnchecked(r) == r # <<>>

Valid(r) == r # <<>> /\ r[2] > r[1] /\ r[1] >= 0

\* SetLoop, the flag first: clearUserLoop, setUserLoop, or neither.
LoopFlag ==
  /\ apc = "flag"
  /\ IF cmd.clear
       THEN userLoop' = FALSE /\ apc' = "content" /\ UNCHANGED <<braces, region>>
       ELSE IF Valid(cmd.region)
         THEN userLoop' = TRUE /\ braces' = cmd.region /\ region' = cmd.region
              /\ apc' = "start"
         ELSE apc' = "toggle" /\ UNCHANGED <<userLoop, braces, region>>
  /\ UNCHANGED <<playing, position, looping, loopStart, loopEnd, contentEnd, queue, sent,
                 cmd, here, cpc, cend, turns, expected, heard, clean>>

LoopContent ==
  /\ apc = "content"
  /\ braces' = <<0, contentEnd>>
  /\ apc' = "start"
  /\ UNCHANGED <<transport, queue, sent, cmd, here, cpc, cend, turns, ghosts>>

\* setLoopPoints: two stores.
LoopStoreStart ==
  /\ apc = "start"
  /\ loopStart' = braces[1]
  /\ apc' = "end"
  /\ UNCHANGED <<playing, position, looping, loopEnd, contentEnd, userLoop, queue, sent,
                 cmd, braces, here, cpc, cend, turns, ghosts>>

LoopStoreEnd ==
  /\ apc = "end"
  /\ loopEnd' = braces[2]
  /\ apc' = "toggle"
  /\ UNCHANGED <<playing, position, looping, loopStart, contentEnd, userLoop, queue, sent,
                 cmd, braces, here, cpc, cend, turns, ghosts>>

LoopToggle ==
  /\ apc = "toggle"
  /\ looping' = cmd.on
  /\ apc' = "commands"
  /\ UNCHANGED <<playing, position, loopStart, loopEnd, contentEnd, userLoop, queue, sent,
                 cmd, braces, here, cpc, cend, turns, ghosts>>

\* A stopped transport ends the callback: silence, the position frozen.
LoadTransport ==
  /\ apc = "commands" /\ queue = <<>>
  /\ here' = [here EXCEPT !.pos = position, !.looping = looping, !.written = 0]
  /\ apc' = IF playing THEN "loadstart" ELSE "out"
  /\ UNCHANGED <<transport, queue, sent, cmd, braces, cpc, cend, turns, ghosts>>

LoadStart ==
  /\ apc = "loadstart"
  /\ here' = [here EXCEPT !.start = IF here.looping THEN loopStart ELSE 0]
  /\ apc' = "loadend"
  /\ UNCHANGED <<transport, queue, sent, cmd, braces, cpc, cend, turns, ghosts>>

LoadEnd ==
  /\ apc = "loadend"
  /\ here' = [here EXCEPT !.end = IF here.looping THEN loopEnd ELSE contentEnd]
  /\ apc' = "block"
  /\ UNCHANGED <<transport, queue, sent, cmd, braces, cpc, cend, turns, ghosts>>

Bounded == here.end > here.start

AtEnd == Bounded /\ here.pos >= here.end

\* The end of the content without a loop: stop and park there.
Park ==
  /\ apc = "block" /\ here.written < Frames
  /\ AtEnd /\ ~here.looping
  /\ playing' = FALSE
  /\ here' = [here EXCEPT !.pos = here.end]
  /\ expected' = here.end
  /\ apc' = "publish"
  /\ UNCHANGED <<position, looping, loopStart, loopEnd, contentEnd, userLoop, queue, sent,
                 cmd, braces, cpc, cend, turns, heard, region, clean>>

\* Mutant: the loop is taken whether or not it is on.
WrapsAlways == AtEnd

Wraps == AtEnd /\ here.looping

From == IF Wraps THEN here.start ELSE here.pos

Least(a, b) == IF a <= b THEN a ELSE b

\* Mutant: the sub-block is not cut at the brace.
ChunkUncut == Least(Block, Frames - here.written)

Chunk ==
  LET whole == Least(Block, Frames - here.written)
  IN IF Bounded THEN Least(whole, here.end - From) ELSE whole

ProcessBlock ==
  /\ apc = "block" /\ here.written < Frames
  /\ AtEnd => Wraps
  /\ heard' = [from |-> From, len |-> Chunk, end |-> IF Bounded THEN here.end ELSE 0]
  /\ expected' = From + Chunk
  /\ here' = [here EXCEPT !.pos = From + Chunk, !.written = @ + Chunk]
  /\ UNCHANGED <<transport, queue, sent, apc, cmd, braces, cpc, cend, turns, region, clean>>

LastBlock ==
  /\ apc = "block" /\ here.written >= Frames
  /\ apc' = "publish"
  /\ UNCHANGED <<transport, queue, sent, cmd, braces, here, cpc, cend, turns, ghosts>>

\* Mutant: the position is published only when the callback did not stop.
PublishedPositionIfPlaying == IF playing THEN here.pos ELSE position

PublishedPosition == here.pos

PublishPosition ==
  /\ apc = "publish"
  /\ position' = PublishedPosition
  /\ apc' = "out"
  /\ UNCHANGED <<playing, looping, loopStart, loopEnd, contentEnd, userLoop, queue, sent,
                 cmd, braces, here, cpc, cend, turns, ghosts>>

-----------------------------------------------------------------------------
(* The control loop                                                         *)

\* A rebuild ends with setContentEnd: the end, then the flag, then the braces.
SetContentEnd ==
  /\ cpc = "idle" /\ turns < MaxControl
  /\ \E e \in Ends : contentEnd' = e /\ cend' = e
  /\ turns' = turns + 1
  /\ cpc' = "follow"
  /\ UNCHANGED <<playing, position, looping, loopStart, loopEnd, userLoop, queue, sent,
                 apc, cmd, braces, here, ghosts>>

FollowContent ==
  /\ cpc = "follow"
  /\ cpc' = IF userLoop THEN "idle" ELSE "start"
  /\ UNCHANGED <<transport, queue, sent, apc, cmd, braces, here, cend, turns, ghosts>>

ControlStoreStart ==
  /\ cpc = "start"
  /\ loopStart' = 0
  /\ cpc' = "end"
  /\ UNCHANGED <<playing, position, looping, loopEnd, contentEnd, userLoop, queue, sent,
                 apc, cmd, braces, here, cend, turns, ghosts>>

ControlStoreEnd ==
  /\ cpc = "end"
  /\ loopEnd' = cend
  /\ cpc' = "idle"
  /\ UNCHANGED <<playing, position, looping, loopStart, contentEnd, userLoop, queue, sent,
                 apc, cmd, braces, here, cend, turns, ghosts>>

\* A project switch: stop, a queued seek to 0, clearUserLoop.
BeginSwitch ==
  /\ cpc = "idle" /\ turns < MaxControl
  /\ playing' = FALSE
  /\ turns' = turns + 1 /\ clean' = TRUE
  /\ cpc' = "seek"
  /\ UNCHANGED <<position, looping, loopStart, loopEnd, contentEnd, userLoop, queue, sent,
                 apc, cmd, braces, here, cend, expected, heard, region>>

SwitchSeek ==
  /\ cpc = "seek"
  /\ queue' = Append(queue, [op |-> "seek", to |-> 0])
  /\ cpc' = "flag"
  /\ UNCHANGED <<transport, sent, apc, cmd, braces, here, cend, turns, ghosts>>

SwitchFlag ==
  /\ cpc = "flag"
  /\ userLoop' = FALSE
  /\ cpc' = "content"
  /\ UNCHANGED <<playing, position, looping, loopStart, loopEnd, contentEnd, queue, sent,
                 apc, cmd, braces, here, cend, turns, ghosts>>

SwitchContent ==
  /\ cpc = "content"
  /\ cend' = contentEnd
  /\ cpc' = "start"
  /\ UNCHANGED <<transport, queue, sent, apc, cmd, braces, here, turns, ghosts>>

-----------------------------------------------------------------------------
SetLoop == LoopFlag \/ LoopContent \/ LoopStoreStart \/ LoopStoreEnd \/ LoopToggle

InsideCallback ==
  \/ PopCommand \/ SetLoop
  \/ LoadTransport \/ LoadStart \/ LoadEnd
  \/ Park \/ ProcessBlock \/ LastBlock \/ PublishPosition

InsideControl ==
  \/ FollowContent \/ ControlStoreStart \/ ControlStoreEnd
  \/ SwitchSeek \/ SwitchFlag \/ SwitchContent

Next ==
  \/ Send
  \/ CallbackEnter \/ InsideCallback
  \/ SetContentEnd \/ BeginSwitch \/ InsideControl

Spec == Init /\ [][Next]_vars

\* The device calls back again and again; each thread ends what it began.
FairSpec ==
  Spec /\ WF_vars(CallbackEnter) /\ WF_vars(InsideCallback) /\ WF_vars(InsideControl)

-----------------------------------------------------------------------------
(* Properties *)

\* What is heard goes on where it was, where the last seek said, or at the
\* loop start once the loop end is reached: no hole, no repeat, across
\* callbacks, sub-blocks, stops and concurrent stores to the braces.
PlaysContinuously ==
  [][ProcessBlock =>
       \/ heard'.from = expected
       \/ expected >= here.end /\ heard'.from = here.start]_vars

\* No sub-block runs past the brace or the end of content it was cut to, even
\* when the pair of braces was read half old and half new; every variable has
\* its type.
BraceNeverCrossed == TypeOK /\ (heard.end # 0 => heard.from + heard.len <= heard.end)

\* Together: after every step playback has followed the braces, the seeks and
\* nothing else.
PlaysAsTold == [][BraceNeverCrossed']_vars /\ PlaysContinuously

\* The callback always returns: torn, empty or crossed braces never make it
\* spin (the guard on empty bounds).
CallbackReturns == apc = "commands" ~> apc = "out"

\* Playback without a loop ends at the end of the content.
PlaybackEnds ==
  <>[](~playing \/ looping \/ contentEnd = 0 \/ position > MaxPos)

\* Neither a callback nor a song without a loop goes on for ever.
NothingRunsForEver == CallbackReturns /\ PlaybackEnds

Quiet == apc \in {"out", "commands"} /\ cpc = "idle"

\* What transport_state.h says of a user region: rebuilds do not overwrite it.
UserRegionSurvives == Quiet /\ userLoop => <<loopStart, loopEnd>> = region

\* What transport_state.h says without one: the braces follow the content.
BracesFollowContent == Quiet /\ ~userLoop => <<loopStart, loopEnd>> = <<0, contentEnd>>

\* What main.cpp says of a project switch: stopped, at 0, no user region.
SwitchIsClean ==
  clean /\ Quiet /\ apc = "out" /\ queue = <<>> =>
    ~playing /\ position = 0 /\ ~userLoop
=============================================================================
