-------------------------------- MODULE Signals --------------------------------
(***************************************************************************)
(* Signals on the air and who hears them: the steps of a tick from step 11 *)
(* on that deal with arcs (TickExecutor::step in marita-core/src/tick.rs), *)
(* and the sensors (sensor.rs).  Where bodies, ships and stations are at   *)
(* the end of a tick is given, as a course: steps 2 to 9 are in Sky.       *)
(* What stations have to say is given too: see StationEconomy.             *)
(***************************************************************************)
EXTENDS SignalArcs

CONSTANTS
  Courses,      \* a sequence of courses, that is sequences of [bodies, ships, stations],
                \* the first one at tick 0
  Orders,       \* what ships may be told: [firing, beaming], sets of ids
  Messages,     \* what posters may say
  SignalNode,   \* capacity of a node of the tree of arcs
  Gain,         \* aperture times integration time, so that a strength is an integer
  NoiseFloor,
  FirstId       \* SimulationState.next_id

\* Bounds of the model; the code has none.
CONSTANTS
  MaxNews       \* posters of one tick

\* A row of things that are somewhere.
Standing(things) ==
  /\ Len(things) \in Nat /\ DOMAIN things = 1..Len(things)
  /\ \A i \in DOMAIN things : things[i].pos \in Int \X Int

ASSUME SignalsAssumption ==
  /\ Silence \notin Messages
  /\ \A c \in ToSet(Courses) : \A place \in ToSet(c) : \A b \in ToSet(place.bodies) : b.id # NoSource

ASSUME CoursesAssumption ==
  \A c \in DOMAIN Courses :
    /\ Len(Courses[c]) \in Nat \ {0} /\ DOMAIN Courses[c] = 1..Len(Courses[c])
    /\ \A t \in DOMAIN Courses[c] :
         /\ Standing(Courses[c][t].bodies) /\ Standing(Courses[c][t].ships)
         /\ Standing(Courses[c][t].stations)

\* What reflects of a body, and what ships turn to and send.
EmitterType == [angle : Int, width : 0..Turn, power : PowerType]

ASSUME ThingsAssumption ==
  /\ FirstId \in Int /\ MaxNews \in Nat
  /\ \A c \in DOMAIN Courses : \A t \in DOMAIN Courses[c] :
       /\ \A i \in DOMAIN Courses[c][t].bodies :
            /\ Courses[c][t].bodies[i].radius \in Nat
            /\ Courses[c][t].bodies[i].albedo \in PowerType
       /\ \A i \in DOMAIN Courses[c][t].ships :
            /\ Courses[c][t].ships[i].faces \in Int
            /\ Courses[c][t].ships[i].emitter # <<>>
                 => Courses[c][t].ships[i].emitter[1] \in EmitterType

VARIABLES
  course,       \* which one
  now,          \* SimulationState.tick
  signals,      \* SimulationState.signals
  next_id,      \* SimulationState.next_id
  posters,      \* every poster there was: [station, message, broadcasted]
  active,       \* ships whose emitter is on
  absorbed,     \* AbsorbedEnergy of this tick
  heard,        \* detections of this tick that carry a message
  sent,         \* history: broadcasts [message, station, origin, tick]
  crowded       \* history: max_signals was exceeded

vars == <<course, now, signals, next_id, posters, active, absorbed, heard, sent, crowded>>

\* Where things are at the end of a tick.
Places(tick) == Courses[course][tick + 1]
Here == Places(now)

Init ==
  /\ course \in DOMAIN Courses
  /\ now = 0 /\ next_id = FirstId
  /\ signals = <<>> /\ posters = <<>> /\ absorbed = <<>>
  /\ active = {} /\ heard = {} /\ sent = {} /\ crowded = FALSE

(***************************************************************************)
(* Hearing                                                                 *)
(***************************************************************************)

\* Ships look a quarter of a turn, stations all round; least is the signal-to-noise
\* ratio they need, in tenths.  Luna's sensor, which listens as stations do, is
\* left out.
Listener(id, pos, faces, fov, least) ==
  [id |-> id, pos |-> pos, faces |-> faces, fov |-> fov, least |-> least]
Listeners(place) ==
  [i \in DOMAIN place.ships |->
     Listener(place.ships[i].id, place.ships[i].pos, place.ships[i].faces, Turn \div 4, 10)]
    \o [i \in DOMAIN place.stations |->
          Listener(place.stations[i].id, place.stations[i].pos, 0, Turn, 5)]

\* The arcs over a listener, in its field of view.  The sector of an arc is not
\* asked for.
Over(arcs, listener) ==
  LET tree == Built([i \in DOMAIN arcs |-> CircleBox(arcs[i].origin, arcs[i].outer)], SignalNode)
      delta(arc) == Minus(listener.pos, arc.origin)
      r(arc) == Length(delta(arc))
  IN  {i \in ToSet(Query(tree, CircleBox(listener.pos, 1))) :
         /\ r(arcs[i]) >= arcs[i].inner /\ r(arcs[i]) <= arcs[i].outer
         /\ Between(Angle(delta(arcs[i])), listener.faces) <= listener.fov \div 2
         /\ r(arcs[i]) * (arcs[i].to - arcs[i].from) > 0}

Strength(arc, listener, band) ==
  (Gain * arc.power[band]) \div (Length(Minus(listener.pos, arc.origin)) * (arc.to - arc.from))

\* compute_sensor_detections: all other arcs in the band are noise.  Only the
\* radio band carries messages.
Heard(arcs, listener) ==
  LET over == Over(arcs, listener)
      power(i) == Strength(arcs[i], listener, "radio")
      jamming(i) == FoldSet(LAMBDA j, sum : sum + power(j), 0, over \ {i})
  IN  {[listener |-> listener.id, message |-> arcs[i].payload, source |-> arcs[i].source,
        generation |-> arcs[i].generation, dist |-> Length(Minus(listener.pos, arcs[i].origin))] :
         i \in {j \in over : /\ power(j) > 0
                             /\ power(j) * 10 >= listener.least * (NoiseFloor + jamming(j))
                             /\ arcs[j].payload # Silence}}

(***************************************************************************)
(* Ticks                                                                   *)
(***************************************************************************)

OfId(things, id) == things[CHOOSE i \in DOMAIN things : things[i].id = id]

\* emit_signals, emit_market_broadcasts and the plumes, with ids from next_id on.
Emitted(there, beaming, saying, burning, tick) ==
  LET n == Len(beaming)
      m == n + Len(saying)
  IN  [i \in DOMAIN beaming |-> BeamFrom(beaming[i], next_id + i - 1, tick)]
        \o [i \in DOMAIN saying |->
              Broadcast(OfId(there.stations, saying[i].station), saying[i].message,
                        next_id + n + i - 1, tick)]
        \o [i \in DOMAIN burning |-> Plume(burning[i], next_id + m + i - 1, tick)]

\* By station, and for one station in the order they were posted.
Unsent(there, all) ==
  FlattenSeq([k \in DOMAIN there.stations |->
                Those(all, {i \in DOMAIN all : /\ all[i].station = there.stations[k].id
                                               /\ ~ all[i].broadcasted})])

\* Step 14: what cutting has left, where somebody may hear it.
Flying(cut, there) ==
  Culled(cut.remaining \o cut.reflected,
         {there.ships[i].pos : i \in DOMAIN there.ships}
           \cup {there.stations[i].pos : i \in DOMAIN there.stations})

\* Steps 15 and 16: new arcs come, and the list is limited.
Air(flying, emitted) ==
  /\ signals' = Limited(flying \o emitted)
  /\ next_id' = next_id + Len(emitted)
  /\ crowded' = (crowded \/ Len(flying) + Len(emitted) > MaxSignals)

RecordSent(there, saying) ==
  sent' = sent \cup {[message |-> p.message, station |-> p.station, tick |-> now,
                      origin |-> OfId(there.stations, p.station).pos] : p \in ToSet(saying)}

\* A tick with all posters, the ships that fire their engines, and those whose
\* emitter is on.
StepWith(there, cut, all, firing, beaming) ==
  /\ Air(Flying(cut, there),
         Emitted(there,
                 Those(there.ships, {i \in DOMAIN there.ships : /\ there.ships[i].id \in beaming
                                                               /\ there.ships[i].emitter # <<>>}),
                 Unsent(there, all),
                 Those(Here.ships, {i \in DOMAIN Here.ships : Here.ships[i].id \in firing}), now))
  /\ RecordSent(there, Unsent(there, all))
  /\ posters' = [i \in DOMAIN all |-> [all[i] EXCEPT !.broadcasted = TRUE]]
  /\ absorbed' = cut.absorbed
  /\ heard' = UNION {Heard(signals', listener) : listener \in ToSet(Listeners(there))}
  /\ active' = beaming
  /\ now' = now + 1
  /\ UNCHANGED course

Step(news, firing, beaming) ==
  LET there == Places(now + 1)
  IN  StepWith(there, ClippedAll(Propagated(signals), there.bodies, there.ships),
               posters \o news, firing, beaming)

\* A message is posted once; its name stands for the whole of it.
Fresh == Messages \ {posters[i].message : i \in DOMAIN posters}

NextNews ==
  {news \in UNION {[1..n -> [station : {Here.stations[i].id : i \in DOMAIN Here.stations},
                             message : Fresh, broadcasted : {FALSE}]] : n \in 0..MaxNews} :
     \A i, j \in DOMAIN news : i # j => news[i].message # news[j].message}

Next ==
  /\ now + 1 < Len(Courses[course])
  /\ \E news \in NextNews, order \in Orders : Step(news, order.firing, order.beaming)

Spec == Init /\ [][Next]_vars

(***************************************************************************)
(* Properties                                                              *)
(***************************************************************************)

\* The trees lose nothing: a search finds exactly the items whose boxes overlap
\* the box that is searched for, each once (spatial_tree.rs).
Complete(boxes, size, region) ==
  LET found == Query(Built(boxes, size), region)
  IN  /\ ToSet(found) = {i \in DOMAIN boxes : Overlaps(boxes[i], region)}
      /\ Cardinality(ToSet(found)) = Len(found)

SearchFindsAll ==
  LET rings == [i \in DOMAIN signals |-> CircleBox(signals[i].origin, signals[i].outer)]
      things == [i \in DOMAIN Here.bodies |-> PointBox(Here.bodies[i].pos)]
  IN  /\ \A i \in DOMAIN Listeners(Here) :
           Complete(rings, SignalNode, CircleBox(Listeners(Here)[i].pos, 1))
      /\ \A i \in DOMAIN signals :
           Complete(things, NodeSize, CircleBox(signals[i].origin, signals[i].outer))

\* However obstacles overlap, what is cut from an arc and what is left of it cover
\* its sector without gap or overlap, and the cut parts bring no more power to the
\* obstacles than the arc has.  The cut parts are where angular_occlusion puts the
\* obstacles, with left and right of the line to each mistaken for one another,
\* but for one exception: an arc that crosses the angle of half a turn is cut
\* nowhere, whatever stands in its way (signal.rs splits the intervals of the
\* obstacles there, not the sector of the arc).
Cells(interval) == interval[1]..(interval[2] - 1)
Covered(intervals) == UNION {Cells(intervals[i]) : i \in DOMAIN intervals}

CrossesHalfTurn(arc) == Normalized(arc.from) > Normalized(arc.to)

MirroredShadow(arc, obstacles) ==
  Cells(<<Normalized(arc.from), Normalized(arc.to)>>)
    \cap UNION {Covered(Hidden(arc.origin, obstacles[j])) : j \in DOMAIN obstacles}

Tiles(pieces, arc) ==
  /\ Covered(pieces) = Cells(<<arc.from, arc.to>>)
  /\ \A i, j \in DOMAIN pieces : i # j => Cells(pieces[i]) \cap Cells(pieces[j]) = {}

Spares(cut, arc) ==
  SumFunctionOnSet([i \in DOMAIN cut.absorbed |-> cut.absorbed[i].energy], DOMAIN cut.absorbed)
    + SumFunctionOnSet([i \in DOMAIN cut.reflected |-> Total(cut.reflected[i].power)],
                       DOMAIN cut.reflected) <= Total(arc.power)

PiecesTile ==
  \A k \in DOMAIN signals : \A arc \in {Spread(signals[k])} :
    \A obstacles \in {Obstacles(arc, Here.bodies, Here.ships)} :
      /\ \A occluded \in {Occluded(arc, obstacles)} :
           /\ Covered(occluded) = IF CrossesHalfTurn(arc) THEN {}
                                  ELSE MirroredShadow(arc, obstacles)
           /\ Tiles(occluded \o Visible(arc, occluded), arc)
      /\ Spares(Clipped(arc, obstacles), arc)

\* A message comes when light from where it was sent comes, neither earlier nor
\* later, however often its arc was cut on the way (station.rs, signal.rs).
\* The ring of a broadcast is over what is d away.
RingOver(s, d) == (now - 1 - s.tick) * Ring <= d /\ d <= (now - s.tick) * Ring

Distance(listener, s) == Length(Minus(listener.pos, s.origin))

AtTheSpeedOfLight ==
  \A h \in heard : h.generation = 0 =>
    \E s \in sent, listener \in ToSet(Listeners(Here)) :
      /\ s.message = h.message /\ s.station = h.source /\ listener.id = h.listener
      /\ RingOver(s, Distance(listener, s))

\* A station hears a message in the tick light from it comes if nothing that the
\* ring has come to hides it on the way - what is to the left of the line counts
\* as if it were to the right - as long as no arcs were dropped for their number
\* and no others are over the station: only pieces of this message, three at the
\* most, or whole rings, three at the most, of the same station and tick
\* (tick.rs, sensor.rs).
Hides(thing, s, listener) ==
  \E i \in DOMAIN Hidden(s.origin, thing) :
    LET interval == Hidden(s.origin, thing)[i]
        angle == Angle(Minus(listener.pos, s.origin))
    IN  interval[1] <= angle /\ angle <= interval[2]

InTheClear(s, listener) ==
  \A t \in (s.tick + 2)..now :
    \A thing \in ToSet(BodyObstacles(Places(t).bodies) \o ShipObstacles(Places(t).ships)) :
      Reached([origin |-> s.origin, outer |-> (t - s.tick) * Ring], thing)
        => ~ Hides(thing, s, listener)

Undisturbed(s, over) ==
  /\ Cardinality(over) <= 3
  /\ \A a \in over : a.source = s.station /\ a.born = s.tick /\ a.generation = 0
  /\ \/ \A a \in over : a.payload = s.message
     \/ \A a \in over : a.to - a.from = Turn

MessagesArrive ==
  \A s \in sent, listener \in ToSet(Listeners(Here)) :
    LET d == Distance(listener, s)
        due == d > 0 /\ RingOver(s, d) /\ (now - s.tick) * Ring <= Boundary
        over == {signals[k] : k \in Over(signals, listener)}
    IN  listener.fov = Turn /\ due /\ InTheClear(s, listener) /\ ~ crowded /\ Undisturbed(s, over)
          => \E h \in heard : h.listener = listener.id /\ h.message = s.message

\* No message outruns light, not even by way of a body that reflects it (signal.rs,
\* "Signals travel as expanding arc segments (annular sectors) at the speed of
\* light").
NothingOutrunsLight ==
  \A h \in heard : \E s \in sent :
    /\ s.message = h.message
    /\ Distance(OfId(Listeners(Here), h.listener), s) <= (now - s.tick) * Ring

================================================================================
