-------------------------- MODULE ProxyPipeline_proofs --------------------------
(***************************************************************************)
(* ProxyPipeline for every number of slots, every depth up to Slots - 2,   *)
(* every number of blocks and of child processes: a block the engine       *)
(* collects is the wanted one, whole, whatever block the child is still at *)
(* and wherever it died.                                                   *)
(*                                                                         *)
(* The argument is about slots.  A block is fresh while its slot has not   *)
(* been taken for a later one; what is wanted is always fresh, since Depth *)
(* <= Slots - 2.  A child that fell behind writes into a slot that has     *)
(* changed hands, but it copies that slot's input, so what it leaves in a  *)
(* fresh block's output is that block's: the invariant holds of outputs    *)
(* nobody vouches for yet, which is why the collect test may rely on a     *)
(* stamp read at another moment than the samples.                          *)
(***************************************************************************)
EXTENDS ProxyPipeline, TLAPS

USE ProxyPipelineAssumption

\* A block whose slot the engine has not begun to reuse.
Fresh(s) == 1 <= s /\ s <= inputSeq /\ inputSeq + 1 < s + Slots

\* A fresh block's input is whole: nothing was deposited over it.
InputKept == \A s \in 1 .. inputSeq : Fresh(s) => \A h \in Half : inData[SlotOf(s)][h] = s

\* Every copy starts with the first half.
HalvesInOrder == epc \in {"stamp", "publish", "choose"} => ehalf = 1

\* The halves of the block being deposited that are already there.
Deposited(h) == (epc = "deposit" /\ h < ehalf) \/ epc \in {"stamp", "publish"}

DepositProgress == \A h \in Half : Deposited(h) => inData[SlotOf(Seq1)][h] = Seq1

\* The stamp of a fresh block vouches for its output.
OutputKept ==
  \A s \in 1 .. inputSeq : Fresh(s) /\ outStamp[SlotOf(s)] = s =>
    \A h \in Half : outData[SlotOf(s)][h].seq = s

\* Nothing is stamped before it is deposited, by any child.
NothingAhead ==
  /\ \A k \in Slot : outStamp[k] <= inputSeq
  /\ lastIn <= inputSeq
  /\ cpc \in {"process", "stamp"} => cur <= lastIn

\* The halves of its block the child has done with.
Processed(h) == (cpc = "process" /\ h < chalf) \/ cpc = "stamp"

\* Of a block that is still fresh, what was done is that block.
ProcessProgress ==
  Fresh(cur) => \A h \in Half : Processed(h) => outData[SlotOf(cur)][h].seq = cur

\* What the engine collects is the wanted block; once chosen wet, it stays whole
\* in its slot until both halves are copied.
Collecting ==
  /\ epc \in {"choose", "copy"} => inputSeq > Depth
  /\ epc = "copy" =>
       /\ heard.kind \in {"wet", "dry", "bypass"}
       /\ heard.kind = "wet" => \A h \in Half : outData[SlotOf(Want)][h].seq = Want
       /\ ehalf = 2 => heard.parts[1].seq = Want

\* What the engine returned.
Collected ==
  Returned /\ heard.kind # "silence" => \A h \in Half : heard.parts[h].seq = Want

IInv ==
  /\ TypeOK
  /\ HalvesInOrder
  /\ InputKept /\ DepositProgress
  /\ OutputKept /\ NothingAhead /\ ProcessProgress
  /\ Collecting /\ Collected

-----------------------------------------------------------------------------
\* The assumption on the constants, as the arithmetic below needs it.
LEMMA SlotsPositive ==
  Slots \in Nat /\ Slots >= 3 /\ Depth \in Nat /\ 1 <= Depth /\ Depth <= Slots - 2
  OBVIOUS

\* Every block has a slot of the ring.
LEMMA SlotIsSlot == \A s \in Nat : SlotOf(s) \in Slot
  BY SlotsPositive DEF SlotOf, Slot

\* A multiple of the number of slots is at least that number or not positive.
LEMMA MultipleBounds ==
  ASSUME NEW k \in Int
  PROVE  (k > 0 => Slots * k >= Slots) /\ (k <= 0 => Slots * k <= 0)
  BY SlotsPositive

\* Two blocks fewer than Slots apart have slots of their own.
LEMMA SlotsDiffer ==
  ASSUME NEW s \in Nat, NEW t \in Nat, s < t, t < s + Slots
  PROVE  SlotOf(s) # SlotOf(t)
<1> DEFINE p == s \div Slots
           q == t \div Slots
<1>1. p \in Int /\ q \in Int
  BY SlotsPositive
<1>2. s = Slots * p + (s % Slots) /\ t = Slots * q + (t % Slots)
  BY SlotsPositive
<1>3. s % Slots \in Nat /\ t % Slots \in Nat
  BY SlotsPositive
<1> HIDE DEF p, q
<1>4. Slots * q - Slots * p = Slots * (q - p)
  BY <1>1, SlotsPositive
<1>5. SUFFICES ASSUME s % Slots = t % Slots PROVE FALSE
  BY DEF SlotOf
<1>6. t - s = Slots * (q - p)
  <2>1. Slots * p \in Int /\ Slots * q \in Int
    BY <1>1, SlotsPositive
  <2> QED BY <1>2, <1>3, <1>4, <1>5, <2>1
<1> QED BY <1>1, <1>6, MultipleBounds, SlotsPositive

\* The block being deposited takes no fresh block's slot.
LEMMA DepositSlotFree ==
  ASSUME inputSeq \in Nat, NEW s \in Nat, Fresh(s)
  PROVE  SlotOf(s) # SlotOf(Seq1)
  BY SlotsDiffer, SlotsPositive DEF Fresh, Seq1

\* The block the engine collects is fresh.
LEMMA WantFresh ==
  ASSUME inputSeq \in Nat, inputSeq > Depth
  PROVE  Want \in 1 .. inputSeq /\ Fresh(Want)
  BY SlotsPositive DEF Fresh, Want

\* Replacing the samples of what is heard.
LEMMA PartsReplaced ==
  ASSUME NEW b \in Heard, NEW ps \in [Half -> Part]
  PROVE  LET c == [b EXCEPT !.parts = ps]
         IN c \in Heard /\ c.kind = b.kind /\ c.parts = ps
  BY DEF Heard

\* Nothing is deposited, stamped or heard.
LEMMA InitEstablishes == ASSUME Init PROVE IInv
<1> USE SlotsPositive DEF Init
<1>1. TypeOK /\ HalvesInOrder
  BY DEF TypeOK, Slot, Half, Nothing, Part, Heard, HalvesInOrder
<1>2. InputKept /\ DepositProgress /\ OutputKept /\ Collecting /\ Collected
  BY DEF InputKept, DepositProgress, Deposited, OutputKept, Collecting, Collected, Returned
<1>3. NothingAhead
  BY DEF NothingAhead
<1>4. ProcessProgress
  BY DEF ProcessProgress, Processed
<1> QED BY <1>1, <1>2, <1>3, <1>4 DEF IInv

-----------------------------------------------------------------------------
\* A block begun changes nothing of the ring yet.
LEMMA BeginBlockPreserves == ASSUME IInv, BeginBlock PROVE IInv'
<1> USE DEF BeginBlock, ringVars, resultVars, childVars
<1>1. TypeOK' /\ HalvesInOrder'
  BY DEF IInv, TypeOK, Half, HalvesInOrder
<1>2. InputKept' /\ OutputKept'
  BY DEF IInv, InputKept, OutputKept, Fresh
<1>3. DepositProgress'
  BY DEF DepositProgress, Deposited, Half
<1>4. NothingAhead' /\ ProcessProgress'
  BY DEF IInv, NothingAhead, ProcessProgress, Processed, Fresh
<1>5. Collecting' /\ Collected'
  BY DEF Collecting, Collected, Returned
<1> QED BY <1>1, <1>2, <1>3, <1>4, <1>5 DEF IInv

\* The deposit goes to a slot no fresh block has.
LEMMA DepositHalfPreserves == ASSUME IInv, DepositHalf PROVE IInv'
<1> USE DEF DepositHalf, resultVars, childVars
<1>0. inputSeq \in Nat /\ Seq1 \in Nat /\ SlotOf(Seq1) \in Slot /\ ehalf \in Half
      /\ inData \in [Slot -> [Half -> Nat]]
  BY SlotIsSlot DEF IInv, TypeOK, Seq1
<1>1. TypeOK' /\ HalvesInOrder'
  <2>1. inData' \in [Slot -> [Half -> Nat]]
    BY <1>0
  <2> QED BY <2>1 DEF IInv, TypeOK, Half, HalvesInOrder
<1>2. InputKept'
  <2> SUFFICES ASSUME NEW s \in 1 .. inputSeq, Fresh(s), NEW h \in Half
               PROVE  inData'[SlotOf(s)][h] = s
    BY DEF InputKept, Fresh
  <2>1. SlotOf(s) # SlotOf(Seq1) /\ SlotOf(s) \in Slot
    BY <1>0, DepositSlotFree, SlotIsSlot
  <2> QED BY <1>0, <2>1 DEF IInv, InputKept
<1>3. DepositProgress'
  <2> SUFFICES ASSUME NEW h \in Half, Deposited(h)' PROVE inData'[SlotOf(Seq1)][h] = Seq1
    BY DEF DepositProgress, Seq1
  <2>1. h = ehalf \/ Deposited(h)
    BY <1>0 DEF Deposited, Half
  <2> QED BY <1>0, <2>1 DEF IInv, DepositProgress
<1>4. OutputKept' /\ NothingAhead' /\ ProcessProgress'
  BY DEF IInv, OutputKept, NothingAhead, ProcessProgress, Processed, Fresh
<1>5. Collecting' /\ Collected'
  BY DEF Collecting, Collected, Returned
<1> QED BY <1>1, <1>2, <1>3, <1>4, <1>5 DEF IInv

\* The input's stamp; what is collected does not rest on it.
LEMMA StampInputPreserves == ASSUME IInv, StampInput PROVE IInv'
<1> USE DEF StampInput, resultVars, childVars
<1>1. TypeOK' /\ HalvesInOrder'
  <2>1. Seq1 \in Nat /\ SlotOf(Seq1) \in Slot
    BY SlotIsSlot DEF IInv, TypeOK, Seq1
  <2>2. inStamp' \in [Slot -> Nat]
    BY <2>1 DEF IInv, TypeOK
  <2> QED BY <2>2 DEF IInv, TypeOK, HalvesInOrder
<1>2. InputKept' /\ OutputKept'
  BY DEF IInv, InputKept, OutputKept, Fresh
<1>3. DepositProgress'
  BY DEF IInv, DepositProgress, Deposited, Seq1
<1>4. NothingAhead' /\ ProcessProgress'
  BY DEF IInv, NothingAhead, ProcessProgress, Processed, Fresh
<1>5. Collecting' /\ Collected'
  BY DEF Collecting, Collected, Returned
<1> QED BY <1>1, <1>2, <1>3, <1>4, <1>5 DEF IInv

\* The deposited block becomes fresh, whole and not stamped as processed; another
\* ceases to be fresh.
LEMMA PublishInputPreserves == ASSUME IInv, PublishInput PROVE IInv'
<1> USE DEF PublishInput, resultVars, childVars
<1>0. inputSeq \in Nat /\ inputSeq' = inputSeq + 1 /\ Seq1 = inputSeq + 1 /\ cur \in Nat
      /\ SlotOf(Seq1) \in Slot
  BY SlotIsSlot DEF IInv, TypeOK, Seq1
<1>1. TypeOK' /\ HalvesInOrder'
  <2>1. heard' \in Heard
    BY DEF IInv, TypeOK, Heard, Nothing, Part
  <2> QED BY <1>0, <2>1 DEF IInv, TypeOK, HalvesInOrder
<1>2. \A s \in 1 .. inputSeq : Fresh(s)' => Fresh(s)
  BY <1>0, SlotsPositive DEF Fresh
<1>3. InputKept'
  <2> SUFFICES ASSUME NEW s \in 1 .. inputSeq + 1, Fresh(s)', NEW h \in Half
               PROVE  inData[SlotOf(s)][h] = s
    BY <1>0 DEF InputKept
  <2>1. CASE s = Seq1
    BY <2>1 DEF IInv, DepositProgress, Deposited
  <2>2. CASE s # Seq1
    <3>1. s \in 1 .. inputSeq
      BY <1>0, <2>2
    <3> QED BY <1>2, <3>1 DEF IInv, InputKept
  <2> QED BY <2>1, <2>2
<1>4. OutputKept'
  <2> SUFFICES ASSUME NEW s \in 1 .. inputSeq + 1, Fresh(s)', outStamp[SlotOf(s)] = s,
                      NEW h \in Half
               PROVE  outData[SlotOf(s)][h].seq = s
    BY <1>0 DEF OutputKept
  <2>1. s # Seq1
    BY <1>0 DEF IInv, NothingAhead
  <2>2. s \in 1 .. inputSeq
    BY <1>0, <2>1
  <2> QED BY <1>2, <2>2 DEF IInv, OutputKept
<1>5. DepositProgress'
  BY DEF DepositProgress, Deposited
<1>6. NothingAhead'
  BY <1>0 DEF IInv, TypeOK, NothingAhead
<1>7. ProcessProgress'
  <2> SUFFICES ASSUME Fresh(cur)', NEW h \in Half, Processed(h)
               PROVE  outData[SlotOf(cur)][h].seq = cur
    BY DEF ProcessProgress, Processed
  <2>1. cur <= inputSeq
    BY <1>0 DEF IInv, TypeOK, NothingAhead, Processed
  <2>2. Fresh(cur)
    BY <1>0, <2>1, SlotsPositive DEF Fresh
  <2> QED BY <2>2 DEF IInv, ProcessProgress
<1>8. Collecting' /\ Collected'
  BY <1>0, SlotsPositive DEF Collecting, Collected, Returned
<1> QED BY <1>1, <1>3, <1>4, <1>5, <1>6, <1>7, <1>8 DEF IInv

\* The stamp vouches for the wanted block, which is fresh.
LEMMA ChoosePreserves == ASSUME IInv, Choose PROVE IInv'
<1> USE DEF Choose, ringVars, resultVars, childVars
<1>0. inputSeq \in Nat /\ inputSeq > Depth /\ Want \in 1 .. inputSeq /\ Fresh(Want)
  BY WantFresh DEF IInv, TypeOK, Collecting
<1>1. PICK kind \in {"bypass", IF Collectable THEN "wet" ELSE "dry"} :
         heard' = [heard EXCEPT !.kind = kind, !.want = Want]
  OBVIOUS
<1>2. kind \in {"wet", "dry", "bypass"} /\ (kind = "wet" => Collectable)
  BY <1>1
<1>3. heard' \in Heard /\ heard'.kind = kind
  <2>1. heard' = [kind |-> kind, want |-> Want, parts |-> heard.parts]
    BY <1>1 DEF IInv, TypeOK, Heard
  <2>2. Want \in Nat
    BY <1>0
  <2> QED BY <1>2, <2>1, <2>2 DEF IInv, TypeOK, Heard
<1>4. TypeOK' /\ HalvesInOrder'
  BY <1>3 DEF IInv, TypeOK, HalvesInOrder
<1>5. InputKept' /\ OutputKept' /\ DepositProgress'
  BY DEF IInv, InputKept, OutputKept, DepositProgress, Deposited, Fresh
<1>6. NothingAhead' /\ ProcessProgress'
  BY DEF IInv, NothingAhead, ProcessProgress, Processed, Fresh
<1>7. kind = "wet" => \A h \in Half : outData[SlotOf(Want)][h].seq = Want
  BY <1>0, <1>2 DEF IInv, OutputKept, Collectable
<1>8. Collecting' /\ Collected'
  <2>1. heard'.kind \in {"wet", "dry", "bypass"}
    BY <1>2, <1>3
  <2>2. ehalf = 1
    BY DEF IInv, HalvesInOrder
  <2> QED BY <1>0, <1>3, <1>7, <2>1, <2>2 DEF Collecting, Collected, Returned, Want
<1> QED BY <1>4, <1>5, <1>6, <1>8 DEF IInv

\* Each half copied is the wanted block's, wet or dry.
LEMMA CopyHalfPreserves == ASSUME IInv, CopyHalf PROVE IInv'
<1> USE DEF ringVars, resultVars, childVars
<1> DEFINE part == IF heard.kind = "wet"
                     THEN outData[SlotOf(Want)][ehalf]
                     ELSE [seq |-> inData[DrySlot][ehalf], life |-> 0]
<1>0. /\ inputSeq \in Nat /\ inputSeq > Depth /\ Want \in 1 .. inputSeq /\ Fresh(Want)
      /\ SlotOf(Want) \in Slot /\ ehalf \in Half
  BY WantFresh, SlotIsSlot DEF CopyHalf, IInv, TypeOK, Collecting
<1>1. part \in Part /\ part.seq = Want
  <2>1. CASE heard.kind = "wet"
    BY <1>0, <2>1 DEF IInv, TypeOK, Collecting, CopyHalf
  <2>2. CASE heard.kind # "wet"
    BY <1>0, <2>2 DEF IInv, TypeOK, InputKept, DrySlot, Part
  <2> QED BY <2>1, <2>2
<1>2. heard' = [heard EXCEPT !.parts[ehalf] = part]
  BY DEF CopyHalf
<1> HIDE DEF part
<1>3. /\ heard' = [heard EXCEPT !.parts = [heard.parts EXCEPT ![ehalf] = part]]
      /\ heard.parts \in [Half -> Part]
  BY <1>2 DEF IInv, TypeOK, Heard
<1> DEFINE parts == [heard.parts EXCEPT ![ehalf] = part]
<1>4. heard' \in Heard /\ heard'.kind = heard.kind /\ heard'.parts = parts
  <2>1. parts \in [Half -> Part]
    BY <1>1, <1>3
  <2>2. heard \in Heard /\ heard' = [heard EXCEPT !.parts = parts]
    BY <1>3 DEF IInv, TypeOK
  <2> HIDE DEF parts
  <2> QED BY <2>1, <2>2, PartsReplaced
<1>5. TypeOK' /\ HalvesInOrder'
  BY <1>4 DEF CopyHalf, IInv, TypeOK, HalvesInOrder, Half
<1>6. InputKept' /\ OutputKept' /\ DepositProgress'
  BY DEF CopyHalf, IInv, InputKept, OutputKept, DepositProgress, Deposited, Fresh
<1>7. NothingAhead' /\ ProcessProgress'
  BY DEF CopyHalf, IInv, NothingAhead, ProcessProgress, Processed, Fresh
<1>8. heard'.parts[ehalf].seq = Want
      /\ \A h \in Half : h # ehalf => heard'.parts[h] = heard.parts[h]
  BY <1>0, <1>1, <1>3, <1>4
<1>9. Collecting' /\ Collected'
  <2>1. CASE ehalf = 1
    BY <1>0, <1>4, <1>8, <2>1 DEF CopyHalf, IInv, Collecting, Collected, Returned, Want
  <2>2. CASE ehalf = 2
    <3>1. heard.parts[1].seq = Want
      BY <2>2 DEF CopyHalf, IInv, Collecting
    <3>2. \A h \in Half : heard'.parts[h].seq = Want
      BY <1>8, <2>2, <3>1 DEF Half
    <3> QED BY <2>2, <3>2 DEF CopyHalf, Collecting, Collected, Returned, Want
  <2> QED BY <1>0, <2>1, <2>2 DEF Half
<1> QED BY <1>5, <1>6, <1>7, <1>9 DEF IInv

\* The child polls, skips, begins, dies, is restarted: the ring is untouched.
LEMMA PollPreserves ==
  ASSUME IInv, PollInput \/ EndBacklog \/ SkipOverwritten \/ BeginProcess
               \/ ChildDies \/ ChildRestarts
  PROVE  IInv'
<1> USE DEF PollInput, EndBacklog, SkipOverwritten, BeginProcess, ChildDies, ChildRestarts,
        ringVars, resultVars, engineVars
<1>1. UNCHANGED <<ringVars, resultVars, engineVars>>
  OBVIOUS
<1>2. BacklogStart \in Nat
  BY SlotsPositive DEF IInv, TypeOK, BacklogStart
<1>3. /\ cpc' \in {"dead", "idle", "entry", "process"} /\ chalf' \in Half /\ cur' \in Nat
      /\ lastIn' \in Nat /\ life' \in 1 .. MaxLives
  BY <1>2 DEF IInv, TypeOK, Half
<1>4. TypeOK' /\ HalvesInOrder'
  BY <1>1, <1>3 DEF IInv, TypeOK, HalvesInOrder
<1>5. InputKept' /\ OutputKept' /\ DepositProgress'
  BY <1>1 DEF IInv, InputKept, OutputKept, DepositProgress, Deposited, Fresh, Seq1
<1>6. NothingAhead'
  BY DEF IInv, TypeOK, NothingAhead
<1>7. ProcessProgress'
  BY DEF IInv, ProcessProgress, Processed, Half
<1>8. Collecting' /\ Collected'
  BY <1>1 DEF IInv, Collecting, Collected, Returned, Want
<1> QED BY <1>4, <1>5, <1>6, <1>7, <1>8 DEF IInv

\* A half processed, of the block the child is at or of the one that took its slot.
LEMMA ProcessHalfPreserves == ASSUME IInv, ProcessHalf PROVE IInv'
<1> USE DEF ProcessHalf, ringVars, engineVars
<1> DEFINE part == [seq |-> inData[SlotOf(cur)][chalf], life |-> life]
<1>0. /\ cur \in Nat /\ SlotOf(cur) \in Slot /\ chalf \in Half /\ inputSeq \in Nat
      /\ cur <= inputSeq /\ outData \in [Slot -> [Half -> Part]]
  BY SMTT(20), SlotIsSlot DEF IInv, TypeOK, NothingAhead
<1>1. part \in Part
  BY <1>0 DEF IInv, TypeOK, Part
<1>2. outData' = [outData EXCEPT ![SlotOf(cur)][chalf] = part]
  OBVIOUS
<1>3. \A s \in 1 .. inputSeq : Fresh(s) /\ SlotOf(s) = SlotOf(cur) => part.seq = s
  BY <1>0 DEF IInv, InputKept
<1> HIDE DEF part
<1>4. TypeOK' /\ HalvesInOrder'
  <2>1. outData' \in [Slot -> [Half -> Part]]
    BY <1>0, <1>1, <1>2
  <2> QED BY <2>1 DEF IInv, TypeOK, HalvesInOrder, Half
<1>5. InputKept' /\ DepositProgress'
  BY DEF IInv, InputKept, DepositProgress, Deposited, Fresh, Seq1
<1>6. ASSUME NEW s \in 1 .. inputSeq, Fresh(s), NEW h \in Half,
             outData[SlotOf(s)][h].seq = s \/ (SlotOf(s) = SlotOf(cur) /\ h = chalf)
      PROVE  outData'[SlotOf(s)][h].seq = s
  <2>1. SlotOf(s) \in Slot
    BY <1>0, SlotIsSlot
  <2> QED BY <1>0, <1>1, <1>2, <1>3, <1>6, <2>1
<1>7. OutputKept'
  BY <1>6 DEF IInv, OutputKept, Fresh
<1>8. NothingAhead'
  BY DEF IInv, NothingAhead
<1>9. ProcessProgress'
  <2> SUFFICES ASSUME Fresh(cur), NEW h \in Half, Processed(h)'
               PROVE  outData'[SlotOf(cur)][h].seq = cur
    BY DEF ProcessProgress, Fresh
  <2>1. h = chalf \/ Processed(h)
    BY <1>0 DEF Processed, Half
  <2>2. cur \in 1 .. inputSeq
    BY <1>0 DEF Fresh
  <2> QED BY <1>6, <2>1, <2>2 DEF IInv, ProcessProgress
<1>10. Collecting'
  <2> SUFFICES ASSUME epc = "copy", heard.kind = "wet", NEW h \in Half
               PROVE  outData'[SlotOf(Want)][h].seq = Want
    BY DEF IInv, Collecting, Want
  <2>1. Want \in 1 .. inputSeq /\ Fresh(Want)
    BY <1>0, WantFresh DEF IInv, Collecting
  <2> QED BY <1>6, <2>1 DEF IInv, Collecting
<1>11. Collected'
  BY DEF IInv, Collected, Returned, Want
<1> QED BY <1>4, <1>5, <1>7, <1>8, <1>9, <1>10, <1>11 DEF IInv

\* A stamp is given to a block whose output is whole if it is still fresh.
LEMMA PublishOutputPreserves == ASSUME IInv, PublishOutput PROVE IInv'
<1> USE DEF PublishOutput, ringVars, engineVars
<1>0. cur \in Nat /\ SlotOf(cur) \in Slot /\ inputSeq \in Nat /\ cur <= inputSeq
  BY SlotIsSlot DEF IInv, TypeOK, NothingAhead
<1>1. outStamp' \in [Slot -> Nat] /\ \A k \in Slot : outStamp'[k] \in {outStamp[k], cur}
  BY <1>0 DEF IInv, TypeOK
<1>2. TypeOK' /\ HalvesInOrder'
  BY <1>0, <1>1 DEF IInv, TypeOK, HalvesInOrder
<1>3. InputKept' /\ DepositProgress'
  BY DEF IInv, InputKept, DepositProgress, Deposited, Fresh, Seq1
<1>4. OutputKept'
  <2> SUFFICES ASSUME NEW s \in 1 .. inputSeq, Fresh(s), outStamp'[SlotOf(s)] = s,
                      NEW h \in Half
               PROVE  outData[SlotOf(s)][h].seq = s
    BY DEF OutputKept, Fresh
  <2>1. SlotOf(s) \in Slot
    BY <1>0, SlotIsSlot
  <2>2. CASE s = cur
    BY <2>2 DEF IInv, ProcessProgress, Processed
  <2>3. CASE s # cur
    BY <1>1, <2>1, <2>3 DEF IInv, OutputKept
  <2> QED BY <2>2, <2>3
<1>5. NothingAhead'
  BY <1>0, <1>1 DEF IInv, NothingAhead
<1>6. ProcessProgress'
  BY DEF ProcessProgress, Processed
<1>7. Collecting' /\ Collected'
  BY DEF IInv, Collecting, Collected, Returned, Want
<1> QED BY <1>2, <1>3, <1>4, <1>5, <1>6, <1>7 DEF IInv

\* Every step of the engine and of the child keeps the invariant.
LEMMA NextPreserves == ASSUME IInv, [Next]_vars PROVE IInv'
<1>1. CASE UNCHANGED vars
  BY <1>1 DEF vars, ringVars, resultVars, engineVars, childVars, IInv, TypeOK, HalvesInOrder,
    InputKept, DepositProgress, Deposited, OutputKept, NothingAhead, ProcessProgress, Processed,
    Collecting, Collected, Returned, Fresh, Seq1, Want
<1> QED
  BY <1>1, BeginBlockPreserves, DepositHalfPreserves, StampInputPreserves,
     PublishInputPreserves, ChoosePreserves, CopyHalfPreserves, PollPreserves,
     ProcessHalfPreserves, PublishOutputPreserves DEF Next, EngineStep, ChildStep

-----------------------------------------------------------------------------
\* The slots of the audio ring keep what they vouch for (proxy_node.h and the
\* serve loop of the plugin host).
THEOREM InvariantHolds == Spec => []IInv
  BY InitEstablishes, NextPreserves, PTL DEF Spec

\* A block the callback collects is block Want, whole, never a stale slot under a
\* newer number nor a mix of two inputs (ProxyNode::process).
THEOREM CollectedHolds == Spec => []CollectedIsWanted
<1>1. IInv => CollectedIsWanted
  BY DEF IInv, Collected, CollectedIsWanted, Want
<1> QED BY <1>1, InvariantHolds, PTL
=============================================================================
