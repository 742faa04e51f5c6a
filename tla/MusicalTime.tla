---------------------------- MODULE MusicalTime ----------------------------
(***************************************************************************)
(* Musical time, written twice with integers only (web/src/document/       *)
(* tempo.ts and engine/src/graph/tempo.h), and what is placed with it:     *)
(* clips, notes and automation points (resolve_time.cpp), the bar of the   *)
(* session grid, the value of an envelope (automation.h, automation.ts).   *)
(* Rates and tempos are counted in hundreds of Hz and of milli-BPM: the    *)
(* code takes only their quotient.  A tempo map is a sequence of           *)
(* [tick, bpm] in the order of the ticks.                                  *)
(***************************************************************************)
EXTENDS Integers, Sequences, SequencesExt, FiniteSets

PPQ == 960
MinBpm == 200
MaxBpm == 9990
MaxTick == 16384    \* bound: kMaxTick is 2^36

\* Mutant: the quotient is not rounded.
RoundDivDown(num, den) == num \div den

\* Half up, on the positive numbers.
RoundDiv(num, den) == (2 * num + den) \div (2 * den)

SegSamples(ticks, rate, bpm) == RoundDiv(ticks * rate * 125, 2 * bpm)

Clamped(low, high, x) == IF x < low THEN low ELSE IF x > high THEN high ELSE x

\* The map, from tick 0 on: the register holds until its first point.
EffectiveMap(register, map) ==
  LET clamped == [i \in DOMAIN map |-> [map[i] EXCEPT !.bpm = Clamped(MinBpm, MaxBpm, @)]]
      first == [tick |-> 0, bpm |-> Clamped(MinBpm, MaxBpm, register)]
  IN IF map # <<>> /\ map[1].tick = 0 THEN clamped ELSE <<first>> \o clamped

\* The samples at each breakpoint: one rounding per segment.
BoundaryTable(map, rate) ==
  LET at[j \in DOMAIN map] ==
        IF j = 1 THEN 0
        ELSE at[j - 1] + SegSamples(map[j].tick - map[j - 1].tick, rate, map[j - 1].bpm)
  IN at

\* The last of the growing values that x has reached.
Reached(values, x) ==
  CHOOSE j \in DOMAIN values : values[j] <= x /\ (j = Len(values) \/ values[j + 1] > x)

Breakpoints(map) == [j \in DOMAIN map |-> IF j = 1 THEN 0 ELSE map[j].tick]

SamplesAtTick(map, rate, tick) ==
  LET t == Clamped(0, MaxTick, tick)
      table == BoundaryTable(map, rate)
      j == Reached(Breakpoints(map), t)
  IN table[j] + SegSamples(t - map[j].tick, rate, map[j].bpm)

TickAtSample(map, rate, sample) ==
  LET table == BoundaryTable(map, rate)
      j == Reached(table, sample)
      t == map[j].tick + RoundDiv((sample - table[j]) * 2 * map[j].bpm, rate * 125)
  IN IF t > MaxTick THEN MaxTick ELSE t

\* A length is a difference of positions, of the clip on the timeline and of
\* the note in the clip.
ResolvedClip(map, rate, clip) ==
  LET At(t) == SamplesAtTick(map, rate, t)
      start == At(clip.tick)
  IN [start |-> start, length |-> At(clip.tick + clip.ticks) - start,
      notes |-> {[start |-> At(clip.tick + n.tick) - start,
                  length |-> At(clip.tick + n.tick + n.ticks) - At(clip.tick + n.tick)]
                 : n \in clip.notes}]

\* One bar at the tempo of the register.
SessionQuantumSamples(register, num, den, rate) ==
  SegSamples((4 * PPQ * num) \div den, rate, Clamped(MinBpm, MaxBpm, register))

\* The value of an envelope as a fraction; NoValue leaves it to the manual value.
NoValue == [num |-> 0, den |-> 0]
Whole(v) == [num |-> v, den |-> 1]

AutomationValueAt(lane, t) ==
  LET pts == lane.points
      n == Len(pts)
      i == CHOOSE k \in 2 .. n : t < pts[k].t /\ \A m \in 2 .. k - 1 : t >= pts[m].t
      a == pts[i - 1]
      b == pts[i]
  IN IF ~lane.enabled \/ n = 0 THEN NoValue
     ELSE IF t <= pts[1].t THEN Whole(pts[1].v)
     ELSE IF t >= pts[n].t THEN Whole(pts[n].v)
     ELSE IF b.t <= a.t THEN Whole(b.v)
     ELSE [num |-> a.v * (b.t - a.t) + (b.v - a.v) * (t - a.t), den |-> b.t - a.t]

-----------------------------------------------------------------------------
(* What is checked, over these maps: tempos that divide nothing, clamped   *)
(* ones, a first point at 0 or later, two points at one tick.              *)

P(tick, bpm) == [tick |-> tick, bpm |-> bpm]
Maps ==
  {EffectiveMap(register, map) :
     register \in {1200, 1333, 50},
     map \in {<<>>, <<P(0, 1333), P(960, 1000), P(1283, 99999)>>,
              <<P(961, 917)>>, <<P(7, 9990), P(960, 200), P(960, 1111)>>}}
Rates == {441, 480}
Ticks == (0 .. 10) \cup (955 .. 965) \cup (1280 .. 1286) \cup (3837 .. 3841)

\* From one tick to the next the position advances by the length of a tick,
\* rounded down or up: rounding never accumulates inside a segment, and no
\* breakpoint opens a gap or goes back.
Steady(map, rate, t) ==
  LET bpm == map[Reached(Breakpoints(map), t)].bpm
      step == SamplesAtTick(map, rate, t + 1) - SamplesAtTick(map, rate, t)
      exact == (rate * 125) \div (2 * bpm)
  IN step \in {exact, exact + 1}

\* The ruler leads back to the tick it was drawn from.
RoundTrip(map, rate, t) == TickAtSample(map, rate, SamplesAtTick(map, rate, t)) = t

\* Notes that follow each other in ticks do so in samples, and fill the clip,
\* whatever the tempo does under them.
Seamless(map, rate, t) ==
  LET notes == {[tick |-> 0, ticks |-> 5], [tick |-> 5, ticks |-> 331]}
      clip == ResolvedClip(map, rate, [tick |-> t, ticks |-> 336, notes |-> notes])
  IN \E m, n \in clip.notes :
       /\ m.start = 0 /\ n.start = m.length
       /\ n.start + n.length = clip.length

\* Beyond the bound everything is at the bound.
Total(map, rate) ==
  /\ SamplesAtTick(map, rate, MaxTick + 999) = SamplesAtTick(map, rate, MaxTick)
  /\ SamplesAtTick(map, rate, -1) = 0

\* A clip of one bar at the head of a project without tempo points is as long
\* as the grid of the session: its loop stays in phase.
BarsFit ==
  \A register \in {1200, 1333, 50}, rate \in Rates, sig \in {<<4, 4>>, <<3, 4>>, <<7, 8>>, <<5, 32>>} :
    LET bar == (4 * PPQ * sig[1]) \div sig[2]
        clip == ResolvedClip(EffectiveMap(register, <<>>), rate,
                             [tick |-> 0, ticks |-> bar, notes |-> {}])
    IN clip.length = SessionQuantumSamples(register, sig[1], sig[2], rate)

Misplaced ==
  {<<map, rate, t>> \in Maps \X Rates \X Ticks :
     ~(Steady(map, rate, t) /\ RoundTrip(map, rate, t) /\ Seamless(map, rate, t)
       /\ Total(map, rate))}

\* Envelopes, points in the order of their times, two of them at 5.
Lanes ==
  {[enabled |-> on, points |-> pts] :
     on \in BOOLEAN,
     pts \in {<<>>, <<[t |-> 3, v |-> 7]>>,
              <<[t |-> 0, v |-> 4], [t |-> 5, v |-> 1], [t |-> 5, v |-> 9],
                [t |-> 8, v |-> 3]>>}}

\* On a point the envelope has its value, the second of two at one time (the
\* first of two at the very front); elsewhere it stays between the neighbours;
\* no division is by zero.
Follows(lane, t) ==
  LET value == AutomationValueAt(lane, t)
      pts == lane.points
      upTo == {k \in DOMAIN pts : pts[k].t <= t}
      from == {k \in DOMAIN pts : pts[k].t >= t}
      neighbours ==
        {pts[k].v : k \in {i \in upTo : \A j \in upTo : j <= i}
                    \cup (IF \E i \in upTo : pts[i].t = t THEN {}
                          ELSE {i \in from : \A j \in from : i <= j})}
  IN IF ~lane.enabled \/ pts = <<>> THEN value = NoValue
     ELSE /\ value.den > 0
          /\ \E low, high \in neighbours :
               /\ low * value.den <= value.num
               /\ value.num <= high * value.den

Misvalued == {<<lane, t>> \in Lanes \X (-1 .. 10) : ~Follows(lane, t)}
=============================================================================
