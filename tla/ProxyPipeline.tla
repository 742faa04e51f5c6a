---------------------------- MODULE ProxyPipeline ----------------------------
(***************************************************************************)
(* The pipelined audio exchange between the engine's callback (ProxyNode)  *)
(* and an out-of-process plugin child (plugin_host --serve) through the    *)
(* slots of SharedAudioRing.  The engine never waits: while it deposits    *)
(* block seq it collects block seq - Depth, wet if the child stamped it in *)
(* time, dry otherwise.  The child works zero-copy on the slots, so the    *)
(* engine may overwrite an input while it is being processed; the child    *)
(* may die at any step and be restarted cold on the same segment.          *)
(*                                                                         *)
(* A block is copied in halves (the two channels), one access per action.  *)
(* Audio data is represented by the number of the block it belongs to.     *)
(***************************************************************************)
EXTENDS Integers

CONSTANTS
  Slots,     \* kRingSlots
  Depth,     \* the pipeline depth proxyDepthFor granted
  MaxSeq,    \* bound: blocks deposited
  MaxLives   \* bound: child processes

ASSUME ProxyPipelineAssumption ==
  /\ Slots \in Nat /\ Depth \in 1 .. Slots - 2
  /\ MaxSeq \in Nat
  /\ MaxLives \in Nat \ {0}

VARIABLES
  inputSeq,    \* input_seq
  inStamp,     \* in_slot_seq
  outStamp,    \* out_slot_seq
  outputSeq,   \* output_seq
  inData,      \* in[slot]: the block whose samples each half holds
  outData,     \* out[slot]: the input block and the child life of each half
  epc,         \* callback: "idle", "deposit", "stamp", "publish", "choose", "copy"
  ehalf,       \* the half the callback works on
  heard,       \* the block last returned to the graph
  cpc,         \* child: "dead", "idle", "entry", "process", "stamp"
  chalf,       \* the half the child works on
  cur,         \* s, the block the child is at
  lastIn,      \* last_in
  life         \* which child process this is

Slot == 0 .. Slots - 1
Half == 1 .. 2
SlotOf(seq) == seq % Slots

ringVars == <<inputSeq, inStamp, inData>>
resultVars == <<outStamp, outputSeq, outData>>
engineVars == <<epc, ehalf, heard>>
childVars == <<cpc, chalf, cur, lastIn, life>>
vars == <<ringVars, resultVars, engineVars, childVars>>

Part == [seq : Nat, life : Nat]
Heard == [kind : {"silence", "wet", "dry", "bypass"}, want : Nat, parts : [Half -> Part]]

TypeOK ==
  /\ inputSeq \in Nat /\ outputSeq \in Nat
  /\ inStamp \in [Slot -> Nat] /\ outStamp \in [Slot -> Nat]
  /\ inData \in [Slot -> [Half -> Nat]]
  /\ outData \in [Slot -> [Half -> Part]]
  /\ epc \in {"idle", "deposit", "stamp", "publish", "choose", "copy"}
  /\ ehalf \in Half
  /\ heard \in Heard
  /\ cpc \in {"dead", "idle", "entry", "process", "stamp"}
  /\ chalf \in Half
  /\ cur \in Nat /\ lastIn \in Nat
  /\ life \in 1 .. MaxLives

Nothing == [seq |-> 0, life |-> 0]

Init ==
  /\ inputSeq = 0 /\ outputSeq = 0
  /\ inStamp = [k \in Slot |-> 0] /\ outStamp = [k \in Slot |-> 0]
  /\ inData = [k \in Slot |-> [h \in Half |-> 0]]
  /\ outData = [k \in Slot |-> [h \in Half |-> Nothing]]
  /\ epc = "idle" /\ ehalf = 1
  /\ heard = [kind |-> "silence", want |-> 0, parts |-> [h \in Half |-> Nothing]]
  /\ cpc = "idle" /\ chalf = 1 /\ cur = 0 /\ lastIn = 0 /\ life = 1

-----------------------------------------------------------------------------
(* The engine: ProxyNode::process, full blocks.  A partial block touches    *)
(* nothing of the ring.                                                     *)

Seq1 == inputSeq + 1
Want == inputSeq - Depth

BeginBlock ==
  /\ epc = "idle"
  /\ inputSeq < MaxSeq
  /\ epc' = "deposit" /\ ehalf' = 1
  /\ UNCHANGED <<ringVars, resultVars, heard, childVars>>

DepositHalf ==
  /\ epc = "deposit"
  /\ inData' = [inData EXCEPT ![SlotOf(Seq1)][ehalf] = Seq1]
  /\ IF ehalf = 1 THEN ehalf' = 2 /\ UNCHANGED epc ELSE epc' = "stamp" /\ ehalf' = 1
  /\ UNCHANGED <<inputSeq, inStamp, resultVars, heard, childVars>>

StampInput ==
  /\ epc = "stamp"
  /\ inStamp' = [inStamp EXCEPT ![SlotOf(Seq1)] = Seq1]
  /\ epc' = "publish"
  /\ UNCHANGED <<inputSeq, inData, resultVars, ehalf, heard, childVars>>

\* The first Depth blocks return silence: the latency showing.
PublishInput ==
  /\ epc = "publish"
  /\ inputSeq' = Seq1
  /\ IF Seq1 <= Depth
       THEN /\ heard' = [kind |-> "silence", want |-> 0,
                         parts |-> [h \in Half |-> Nothing]]
            /\ epc' = "idle"
       ELSE epc' = "choose" /\ UNCHANGED heard
  /\ UNCHANGED <<inStamp, inData, resultVars, ehalf, childVars>>

\* Mutant: the test of layout v9, output_seq instead of the slot's stamp.
CollectableBySeq == outputSeq >= Want

\* The collect test: the stamp of the wanted block's slot.
Collectable == outStamp[SlotOf(Want)] = Want

\* A node whose document says bypass returns the dry block with the same
\* latency; a rebuild may change that between two blocks.
Choose ==
  /\ epc = "choose"
  /\ \E kind \in {"bypass", IF Collectable THEN "wet" ELSE "dry"} :
       heard' = [heard EXCEPT !.kind = kind, !.want = Want]
  /\ epc' = "copy"
  /\ UNCHANGED <<ringVars, resultVars, ehalf, childVars>>

\* Mutant: the dry samples are those of the block being deposited.
DrySlotNow == SlotOf(inputSeq)

DrySlot == SlotOf(Want)

CopyHalf ==
  /\ epc = "copy"
  /\ heard' = [heard EXCEPT !.parts[ehalf] =
                 IF heard.kind = "wet"
                   THEN outData[SlotOf(Want)][ehalf]
                   ELSE [seq |-> inData[DrySlot][ehalf], life |-> 0]]
  /\ IF ehalf = 1 THEN ehalf' = 2 /\ UNCHANGED epc ELSE epc' = "idle" /\ ehalf' = 1
  /\ UNCHANGED <<ringVars, resultVars, childVars>>

-----------------------------------------------------------------------------
(* The child: the serve loop of plugin_host                                 *)

\* Mutant: catching up jumps to the newest block.
BacklogStartNewest == inputSeq

\* The whole backlog in order, or its last Slots - 2 blocks when behind.
BacklogStart ==
  IF inputSeq >= lastIn + 1 + (Slots - 2)
    THEN inputSeq - (Slots - 2) + 1
    ELSE lastIn + 1

PollInput ==
  /\ cpc = "idle"
  /\ inputSeq # lastIn
  /\ cur' = BacklogStart
  /\ lastIn' = inputSeq
  /\ cpc' = "entry"
  /\ UNCHANGED <<ringVars, resultVars, engineVars, chalf, life>>

EndBacklog ==
  /\ cpc = "entry" /\ cur > lastIn
  /\ cpc' = "idle"
  /\ UNCHANGED <<ringVars, resultVars, engineVars, chalf, cur, lastIn, life>>

SkipOverwritten ==
  /\ cpc = "entry" /\ cur <= lastIn
  /\ inStamp[SlotOf(cur)] # cur
  /\ cur' = cur + 1
  /\ UNCHANGED <<ringVars, resultVars, engineVars, cpc, chalf, lastIn, life>>

BeginProcess ==
  /\ cpc = "entry" /\ cur <= lastIn
  /\ inStamp[SlotOf(cur)] = cur
  /\ cpc' = "process" /\ chalf' = 1
  /\ UNCHANGED <<ringVars, resultVars, engineVars, cur, lastIn, life>>

ProcessHalf ==
  /\ cpc = "process"
  /\ outData' = [outData EXCEPT ![SlotOf(cur)][chalf] =
                   [seq |-> inData[SlotOf(cur)][chalf], life |-> life]]
  /\ IF chalf = 1 THEN chalf' = 2 /\ UNCHANGED cpc ELSE cpc' = "stamp" /\ chalf' = 1
  /\ UNCHANGED <<ringVars, outStamp, outputSeq, engineVars, cur, lastIn, life>>

\* The output is stamped unless the input slot is no longer cur's.
PublishOutput ==
  /\ cpc = "stamp"
  /\ outStamp' = IF inStamp[SlotOf(cur)] = cur
                   THEN [outStamp EXCEPT ![SlotOf(cur)] = cur]
                   ELSE outStamp
  /\ outputSeq' = cur
  /\ cur' = cur + 1
  /\ cpc' = "entry"
  /\ UNCHANGED <<ringVars, outData, engineVars, chalf, lastIn, life>>

\* A crash, or a refused process() (exit 1), at any step.
ChildDies ==
  /\ cpc # "dead"
  /\ cpc' = "dead"
  /\ UNCHANGED <<ringVars, resultVars, engineVars, chalf, cur, lastIn, life>>

\* restartChild: a new process serves the same segment, whose stamps and
\* slots are left as they are.
ChildRestarts ==
  /\ cpc = "dead"
  /\ life < MaxLives
  /\ life' = life + 1
  /\ lastIn' = 0
  /\ cpc' = "idle" /\ chalf' = 1 /\ cur' = 0
  /\ UNCHANGED <<ringVars, resultVars, engineVars>>

-----------------------------------------------------------------------------
EngineStep == DepositHalf \/ StampInput \/ PublishInput \/ Choose \/ CopyHalf

ChildStep ==
  \/ PollInput \/ EndBacklog \/ SkipOverwritten \/ BeginProcess
  \/ ProcessHalf \/ PublishOutput

Next == BeginBlock \/ EngineStep \/ ChildStep \/ ChildDies \/ ChildRestarts

Spec == Init /\ [][Next]_vars

\* A callback that began a block ends it, a live child keeps serving.  Nothing
\* makes a block begin, a child die, or the control loop restart it.
FairSpec == Spec /\ WF_vars(EngineStep) /\ WF_vars(ChildStep)

-----------------------------------------------------------------------------
(* Properties *)

Returned == epc = "idle" /\ inputSeq > Depth

\* A collected block is block Want, whole. A wet one is never a stale slot
\* under a newer number (A4-5), nor a mix of two inputs, though the child may
\* publish one; a dry or bypassed one has the latency of the wet path. Every
\* variable has its type.
CollectedIsWanted ==
  /\ TypeOK
  /\ Returned /\ heard.kind # "silence" =>
       \A h \in Half : heard.parts[h].seq = inputSeq - Depth

\* When deposits pause, a live child ends with every block still collectable
\* stamped: catching up never starves the consumer of a block it had time for.
PauseDrains ==
  LET window == {s \in 1 .. inputSeq : s > inputSeq - (Slots - 2)}
  IN <>[](epc = "idle" /\ cpc # "dead" =>
            \A s \in window : outStamp[SlotOf(s)] = s)

\* What the comment on in_slot_seq promises: an output whose input moved
\* under process() is not published.
PublishedIsUntorn ==
  \A s \in 1 .. inputSeq :
    cpc \in {"idle", "entry"} /\ outStamp[SlotOf(s)] = s =>
      \A h \in Half : outData[SlotOf(s)][h].seq = s

\* A wet block is the output of one process() call: both halves from one life
\* of the child.
WetFromOneLife ==
  Returned /\ heard.kind = "wet" => heard.parts[1].life = heard.parts[2].life
=============================================================================
