------------------------------ MODULE SignalArcs ------------------------------
(***************************************************************************)
(* Signals as growing segments of rings, steps 11, 12, 14, 15 and 16 of a  *)
(* tick: they spread, are cut and thrown back by bodies, are given up when *)
(* nobody can hear them, are sent out, and are limited in number           *)
(* (marita-core/src/signal.rs, tick.rs, station.rs).                       *)
(*                                                                         *)
(* An arc reaches from angle `from` to angle `to` (direction less and plus *)
(* half of angular_width) between the radii inner and outer.  Its power is *)
(* a whole number for each band, of which the share `keep` in a hundred is *)
(* left after a tick; less than one counts as nothing.  `born` is a        *)
(* history: the tick that sent it.                                         *)
(***************************************************************************)
EXTENDS Quadtree

CONSTANTS
  Ring,         \* SPEED_OF_LIGHT times TICK_SIM_TIME
  Boundary,     \* SOLAR_SYSTEM_BOUNDARY
  MaxSignals,   \* max_signals
  NodeSize,     \* capacity of a node of the tree of bodies or of ships
  HullRadius,   \* of a ship
  RadioPower,   \* of a market broadcast
  RadioKeep,    \* what a broadcast keeps of it in a tick
  PlumePower    \* of a plume in both of its bands

ASSUME ArcsAssumption ==
  /\ Ring \in Nat /\ MaxSignals \in Nat /\ HullRadius \in Nat
  /\ RadioPower \in Nat /\ RadioKeep \in Nat /\ PlumePower \in Nat

\* Wavelength bins: of broadcasts, and the two of plumes.
Bands == {"radio", "engine", "infrared"}
Dark == [b \in Bands |-> 0]
PowerType == [Bands -> Nat]
Total(power) == power["radio"] + power["engine"] + power["infrared"]
Share(power, n, of) == [b \in Bands |-> (power[b] * n) \div of]

\* The indices of a list in the order of their keys, of equal ones the earlier
\* first (sort_by).
InOrder(keys) ==
  [k \in 1..Cardinality(DOMAIN keys) |->
     CHOOSE i \in DOMAIN keys :
       Cardinality({j \in DOMAIN keys : keys[j] < keys[i] \/ (keys[j] = keys[i] /\ j < i)}) = k - 1]

At(things, indices) == [i \in DOMAIN indices |-> things[indices[i]]]

\* Some things of a list, in the order of the list (filter).
Those(things, which) == At(things, InOrder([i \in which |-> i]))

NoSource == 0
Silence == "none"   \* no market_payload

\* SignalArc::new: the direction is normalised, not the ends.
NewArc(id, origin, direction, width, power, tick) ==
  [id |-> id, origin |-> origin,
   from |-> Normalized(direction) - width \div 2, to |-> Normalized(direction) + width \div 2,
   inner |-> 0, outer |-> 0, power |-> power, keep |-> [b \in Bands |-> 100],
   source |-> NoSource, generation |-> 0, payload |-> Silence, born |-> tick]

(***************************************************************************)
(* Spreading                                                               *)
(***************************************************************************)

\* Mutant: the inside of the ring stays where it is.
SpreadOutside(arc) ==
  [arc EXCEPT !.outer = @ + Ring,
              !.power = [b \in Bands |-> (arc.power[b] * arc.keep[b]) \div 100]]

Spread(arc) ==
  [arc EXCEPT !.inner = @ + Ring, !.outer = @ + Ring,
              !.power = [b \in Bands |-> (arc.power[b] * arc.keep[b]) \div 100]]

\* propagate.
Propagated(arcs) ==
  LET spread == [i \in DOMAIN arcs |-> Spread(arcs[i])]
  IN  Those(spread, {i \in DOMAIN spread : /\ spread[i].outer <= Boundary
                                           /\ Total(spread[i].power) > 0})

(***************************************************************************)
(* Cutting                                                                 *)
(***************************************************************************)

\* What may stand in the way: bodies are [id, pos, radius, merges, albedo],
\* ships [id, pos, ...], which throw nothing back.
Obstacle(id, pos, radius, merges, albedo) ==
  [id |-> id, pos |-> pos, radius |-> radius, merges |-> merges, albedo |-> albedo]
BodyObstacles(bs) ==
  [i \in DOMAIN bs |-> Obstacle(bs[i].id, bs[i].pos, bs[i].radius, TRUE, bs[i].albedo)]
ShipObstacles(ss) ==
  [i \in DOMAIN ss |-> Obstacle(ss[i].id, ss[i].pos, HullRadius, FALSE, Dark)]

Largest(things) == Max({0} \cup {things[i].radius : i \in DOMAIN things})

Reached(arc, thing) ==
  SquaredLength(Minus(thing.pos, arc.origin)) < (arc.outer + thing.radius) * (arc.outer + thing.radius)

\* What the tree of these things finds in a circle.
Near(things, origin, radius) ==
  At(things, Query(Built([i \in DOMAIN things |-> PointBox(things[i].pos)], NodeSize),
                   CircleBox(origin, radius)))

\* Everything but the source that the front of the arc has come to or passed.
ObstaclesAmong(arc, bodies, hulls) ==
  LET radius == arc.outer + Max({Largest(bodies), Largest(hulls)})
      near == Near(bodies, arc.origin, radius) \o Near(hulls, arc.origin, radius)
  IN  Those(near, {i \in DOMAIN near : near[i].id # arc.source /\ Reached(arc, near[i])})

Obstacles(arc, bs, ss) == ObstaclesAmong(arc, BodyObstacles(bs), ShipObstacles(ss))

Inside(origin, thing) ==
  SquaredLength(Minus(thing.pos, origin)) <= thing.radius * thing.radius

\* angular_occlusion, as the one or two intervals it is taken for: left and
\* right of the line to the obstacle are mistaken for one another.
Unwrapped(start, end) ==
  IF start > end THEN <<<<start, HalfTurn>>, <<-HalfTurn, end>>>> ELSE <<<<start, end>>>>

Hidden(origin, thing) ==
  LET delta == Minus(thing.pos, origin)
      half == HalfAngle(thing.radius, Length(delta))
  IN  IF Inside(origin, thing) THEN <<<<-HalfTurn, HalfTurn>>>>
      ELSE Unwrapped(Normalized(TurnToX(delta) - half), Normalized(TurnToX(delta) + half))

\* add_clipped_interval: nothing at all of an arc across the angle of half a turn.
Capped(interval, start, end) ==
  LET lo == Max({interval[1], start})
      hi == Min({interval[2], end})
  IN  IF lo < hi THEN <<<<lo, hi>>>> ELSE <<>>

\* Mutant: intervals are put in order and not joined.
UnitedShallow(intervals) == At(intervals, InOrder([i \in DOMAIN intervals |-> intervals[i][1]]))

\* union_intervals, from the ends of intervals in the order of their angles.
Ends(intervals) ==
  [k \in 1..(2 * Len(intervals)) |->
     IF k % 2 = 1 THEN [at |-> intervals[(k + 1) \div 2][1], entering |-> TRUE]
     ELSE [at |-> intervals[k \div 2][2], entering |-> FALSE]]

PassedEnd(acc, e) ==
  IF e.entering
  THEN [acc EXCEPT !.depth = @ + 1, !.start = IF acc.depth = 0 THEN e.at ELSE @]
  ELSE [acc EXCEPT !.depth = @ - 1,
                   !.out = IF acc.depth = 1 THEN Append(@, <<acc.start, e.at>>) ELSE @]

United(intervals) ==
  LET ends == Ends(intervals)
  IN  FoldLeft(PassedEnd, [depth |-> 0, start |-> 0, out |-> <<>>],
               At(ends, InOrder([k \in DOMAIN ends |-> ends[k].at]))).out

Occluded(arc, obstacles) ==
  LET hidden == FlattenSeq([i \in DOMAIN obstacles |-> Hidden(arc.origin, obstacles[i])])
  IN  United(FlattenSeq([i \in DOMAIN hidden |->
                           Capped(hidden[i], Normalized(arc.from), Normalized(arc.to))]))

\* subtract_intervals.
PassedInterval(to, acc, i) ==
  IF acc.cursor >= to THEN acc
  ELSE [out |-> IF i[1] > acc.cursor THEN Append(acc.out, <<acc.cursor, i[1]>>) ELSE acc.out,
        cursor |-> Max({acc.cursor, i[2]})]

Visible(arc, occluded) ==
  LET last == FoldLeft(LAMBDA acc, i : PassedInterval(arc.to, acc, i),
                       [out |-> <<>>, cursor |-> arc.from], occluded)
  IN  IF last.cursor < arc.to THEN Append(last.out, <<last.cursor, arc.to>>) ELSE last.out

\* ray_circle_intersection: the obstacles that a ray meets, and the one it meets
\* first.
Hit(origin, angle, thing) ==
  LET delta == Minus(thing.pos, origin)
  IN  \/ Inside(origin, thing)
      \/ Between(angle, Angle(delta)) <= HalfAngle(thing.radius, Length(delta))

Depth(origin, thing) ==
  IF Inside(origin, thing) THEN 0 ELSE Length(Minus(thing.pos, origin)) - thing.radius

Nearer(origin, angle, first, thing) ==
  IF /\ Hit(origin, angle, thing)
     /\ first = <<>> \/ Depth(origin, thing) < Depth(origin, first[1])
  THEN <<thing>> ELSE first

FirstHit(origin, angle, obstacles) ==
  FoldLeft(LAMBDA first, thing : Nearer(origin, angle, first, thing), <<>>, obstacles)

\* The arc thrown back starts beside the obstacle, as large as the one that came.
Echo(arc, id, interval, thing, power) ==
  LET away == Minus(arc.origin, thing.pos)
      mid == (interval[1] + interval[2]) \div 2
      half == (interval[2] - interval[1]) \div 2
      direction == Normalized(mid - 2 * Angle(away))
  IN  [arc EXCEPT !.id = id, !.origin = Plus(thing.pos, Along(away, thing.radius + 1)),
                  !.from = direction - half, !.to = direction + half,
                  !.power = power, !.generation = @ + 1]

\* What the part of an arc in an interval comes to at the obstacle it meets first:
\* a share is absorbed, and a body throws back the rest, three times over at most.
Met(arc, id, interval, thing, power, back) ==
  [absorbed |-> <<[entity |-> thing.id, energy |-> Total(power) - Total(back)]>>,
   reflected |-> IF thing.merges /\ Total(back) > 0 /\ arc.generation < 3
                 THEN <<Echo(arc, id, interval, thing, back)>> ELSE <<>>]

Reflectance(power, albedo) == [b \in Bands |-> (power[b] * albedo[b]) \div 100]

StruckBy(arc, id, interval, first, power) ==
  IF first = <<>> THEN [absorbed |-> <<>>, reflected |-> <<>>]
  ELSE Met(arc, id, interval, first[1], power, Reflectance(power, first[1].albedo))

Struck(arc, id, interval, obstacles) ==
  StruckBy(arc, id, interval,
           FirstHit(arc.origin, (interval[1] + interval[2]) \div 2, obstacles),
           Share(arc.power, interval[2] - interval[1], arc.to - arc.from))

\* clip_arc: every visible piece keeps all of the power and gets an id counted on
\* from the arc's.
Cut(visible, parts, arc) ==
  [remaining |-> [i \in DOMAIN visible |->
                    [arc EXCEPT !.id = arc.id + i, !.from = visible[i][1], !.to = visible[i][2]]],
   reflected |-> FlattenSeq([i \in DOMAIN parts |-> parts[i].reflected]),
   absorbed |-> FlattenSeq([i \in DOMAIN parts |-> parts[i].absorbed])]

CutFrom(arc, obstacles, occluded, visible) ==
  Cut(visible,
      [i \in DOMAIN occluded |-> Struck(arc, arc.id + Len(visible) + 1, occluded[i], obstacles)],
      arc)

Untouched(arc) == [remaining |-> <<arc>>, reflected |-> <<>>, absorbed |-> <<>>]

CutBy(arc, obstacles, occluded) ==
  IF occluded = <<>> THEN Untouched(arc)
  ELSE CutFrom(arc, obstacles, occluded, Visible(arc, occluded))

Clipped(arc, obstacles) == CutBy(arc, obstacles, Occluded(arc, obstacles))

\* clip_against_masses.
Gathered(cuts) ==
  [remaining |-> FlattenSeq([i \in DOMAIN cuts |-> cuts[i].remaining]),
   reflected |-> FlattenSeq([i \in DOMAIN cuts |-> cuts[i].reflected]),
   absorbed |-> FlattenSeq([i \in DOMAIN cuts |-> cuts[i].absorbed])]

ClippedAll(arcs, bs, ss) ==
  Gathered([i \in DOMAIN arcs |-> Clipped(arcs[i], Obstacles(arcs[i], bs, ss))])

(***************************************************************************)
(* Giving up                                                               *)
(***************************************************************************)

\* How far an arc goes until the band that fades slowest is gone; as far as the
\* boundary if none fades.
Lifetime(total, keep) ==
  LET ticks[v \in 0..total] == IF v = 0 THEN 0 ELSE 1 + ticks[(v * keep) \div 100]
  IN  ticks[total]
Reach(arc) ==
  LET fading == {arc.keep[b] : b \in {c \in Bands : arc.keep[c] < 100}}
  IN  IF fading = {} THEN Boundary
      ELSE Min({Boundary, Ring * Lifetime(Total(arc.power), Max(fading))})

\* Mutant: an arc that has passed one listener is not kept for another.
CanReachNearest(arc, positions) ==
  \/ arc.power["engine"] > 0
  \/ \A p \in positions : Length(Minus(p, arc.origin)) >= arc.inner

\* can_reach_sensor: a plume is kept, and what has somebody in its sector, before
\* the front or behind it.
CanReach(arc, positions) ==
  \/ arc.power["engine"] > 0
  \/ \E p \in positions :
       LET delta == Minus(p, arc.origin)
           half == (arc.to - arc.from) \div 2
       IN  /\ Length(delta) <= Reach(arc)
           /\ IF delta = <<0, 0>> THEN half >= HalfTurn \div 2
              ELSE Between(Angle(delta), (arc.from + arc.to) \div 2) <= half

\* cull_signals_past_sensors: without ships and stations nothing is left.
Culled(arcs, positions) == Those(arcs, {i \in DOMAIN arcs : CanReach(arcs[i], positions)})

(***************************************************************************)
(* Sending                                                                 *)
(***************************************************************************)

\* Ships are [id, pos, faces, emitter, ...], with one emitter [angle, width,
\* power] or none, <<>>; `active` are the ships whose emitter is on.
BeamFrom(ship, id, tick) ==
  LET e == ship.emitter[1]
  IN  [NewArc(id, ship.pos, -(ship.faces + e.angle), e.width, e.power, tick)
        EXCEPT !.source = ship.id]

\* The ring of a broadcast is as thick as light goes in a tick.
Broadcast(station, message, id, tick) ==
  [NewArc(id, station.pos, 0, Turn, [Dark EXCEPT !["radio"] = RadioPower], tick)
    EXCEPT !.outer = Ring, !.source = station.id, !.payload = message,
           !.keep = [@ EXCEPT !["radio"] = RadioKeep]]

\* A plume stays where the ship was before it moved, and has no source.
Plume(ship, id, tick) ==
  [NewArc(id, ship.pos, -(ship.faces + HalfTurn), 4,
          [Dark EXCEPT !["engine"] = PlumePower, !["infrared"] = PlumePower \div 2], tick)
    EXCEPT !.keep = [@ EXCEPT !["engine"] = 10, !["infrared"] = 30]]

(***************************************************************************)
(* Limiting                                                                *)
(***************************************************************************)

\* Step 16: the lowest ids go first, of equal ones the earlier.
Limited(arcs) ==
  LET order == InOrder([i \in DOMAIN arcs |-> arcs[i].id])
  IN  IF Len(arcs) <= MaxSignals THEN arcs
      ELSE At(arcs, SubSeq(order, Len(arcs) - MaxSignals + 1, Len(arcs)))

================================================================================
