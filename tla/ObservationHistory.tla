-------------------------- MODULE ObservationHistory --------------------------
(***************************************************************************)
(* The bounded history of finished ticks that passive observations are     *)
(* made from (marita-core/src/history.rs).  A frame is [time, samples];    *)
(* the samples of a frame are a function from keys, that is <<kind, id>>,  *)
(* to [pos, radius, temp, area].  A sample that may be missing is a set    *)
(* of at most one.                                                         *)
(***************************************************************************)
EXTENDS Warmth

CONSTANTS
  Light,        \* SPEED_OF_LIGHT
  HistoryRange, \* history_au, as a distance
  Budget        \* history_budget_bytes, in samples

ASSUME HistoryAssumption == Light \in Nat \ {0} /\ HistoryRange \in Nat /\ Budget \in Nat

CeilDiv(a, b) == (a + b - 1) \div b

\* Mutant: only as many frames as light needs for the range.
MaxFramesBare == Most(CeilDiv(HistoryRange, Light * TICK), 2)

MaxFrames == Most(CeilDiv(HistoryRange, Light * TICK) + 2, 2)

BodyKey(b) == <<"body", b.id>>
ShipKey(s) == <<"ship", s.id>>
StationKey(s) == <<"station", s.id>>

Sample(pos, radius, temp, area) == [pos |-> pos, radius |-> radius, temp |-> temp, area |-> area]

\* What is recorded of a state, each sample under its key.
Recorded(bs, ss, sts) ==
  {<<BodyKey(b), Sample(b.pos, b.radius, b.temp, b.area)>> : b \in ToSet(bs)}
    \cup {<<ShipKey(s), Sample(s.pos, ShipRadius, s.temp, ShipArea)>> : s \in ToSet(ss)}
    \cup {<<StationKey(s), Sample(StationPos(s, bs), StationRadius, s.temp, ShipArea)>> :
            s \in ToSet(sts)}

Frame(time, bs, ss, sts) ==
  LET all == Recorded(bs, ss, sts)
  IN  [time |-> time,
       samples |-> [key \in {r[1] : r \in all} |-> (CHOOSE r \in all : r[1] = key)[2]]]

\* How many frames are kept: the light delay's or the budget's.
FrameLimit(frame) ==
  Least(MaxFrames, Most(Budget \div Most(Cardinality(DOMAIN frame.samples), 1), 2))

\* ObservationHistory::append.
Appended(frames, frame) ==
  LET all == Append(frames, frame)
  IN  SubSeq(all, Most(1, Len(all) - FrameLimit(frame) + 1), Len(all))

Newest(frames) == frames[Len(frames)].time

FoundIn(frame, key) == IF key \in DOMAIN frame.samples THEN {frame.samples[key]} ELSE {}

Lerp(a, b, n, of) == a + ((b - a) * n) \div of

Between(a, b, n, of) ==
  [pos |-> Lerp(a.pos, b.pos, n, of), radius |-> Lerp(a.radius, b.radius, n, of),
   temp |-> Lerp(a.temp, b.temp, n, of), area |-> Lerp(a.area, b.area, n, of)]

\* Mutant: the place in the history is rounded down.
UpperFrameFloor(frames, time) ==
  1 + ((time - frames[1].time) * (Len(frames) - 1)) \div Most(Newest(frames) - frames[1].time, 1)

\* The frame at or after a time, from the mean spacing of the frames.
UpperFrame(frames, time) ==
  Least(Len(frames),
        1 + CeilDiv((time - frames[1].time) * (Len(frames) - 1),
                    Most(Newest(frames) - frames[1].time, 1)))

\* ObservationHistory::sample.
SampleAt(frames, key, time) ==
  IF frames = <<>> \/ time < frames[1].time \/ time > Newest(frames) THEN {}
  ELSE LET upper == UpperFrame(frames, time)
           lower == Most(upper - 1, 1)
           span == frames[upper].time - frames[lower].time
       IN  {IF span <= 0 THEN a
            ELSE Between(a, b, Clamped(time - frames[lower].time, 0, span), span) :
              a \in FoundIn(frames[lower], key), b \in FoundIn(frames[upper], key)}

=============================================================================
