---------------------------- MODULE PassiveLight ----------------------------
(***************************************************************************)
(* What an observer sees of things that shine or are lit, by light that    *)
(* left them when it had to (marita-core/src/passive_radiation.rs), or at  *)
(* once under the legacy model; and what its sensor reports of it, noise   *)
(* and the glare of other sources counted in (sensor.rs).                  *)
(***************************************************************************)
EXTENDS ObservationHistory

CONSTANTS
  PassiveCap,   \* max_passive_candidates
  Gain,         \* of a sensor, so that a strength is an integer
  NoiseFloor

ASSUME PassiveAssumption == PassiveCap \in Nat /\ Gain \in Nat /\ NoiseFloor \in Nat

(***************************************************************************)
(* Retarded time                                                           *)
(***************************************************************************)

\* When light that arrives at x at this time left a source at pos.
EmissionTime(pos, x, time) == time - Distance(pos, x) \div Light

\* Mutant: the position now is taken for the position then.
RetardedOnce(frames, key, x, time) ==
  IF frames = <<>> THEN {}
  ELSE {[sample |-> s, at |-> EmissionTime(s.pos, x, time), dist |-> Distance(s.pos, x)] :
          s \in SampleAt(frames, key, Newest(frames))}

\* solve_retarded: from the newest sample, three corrections and a last look.
Retarded(frames, key, x, time) ==
  LET left(samples) == {EmissionTime(s.pos, x, time) : s \in samples}
      seen(times) == UNION {SampleAt(frames, key, t) : t \in times}
      first == IF frames = <<>> THEN {} ELSE left(SampleAt(frames, key, Newest(frames)))
      at == left(seen(left(seen(left(seen(first))))))
  IN  {[sample |-> s, at |-> t, dist |-> Distance(s.pos, x)] : t \in at, s \in seen(at)}

(***************************************************************************)
(* Shadows                                                                 *)
(***************************************************************************)

\* Where a body is when light on its way passes it.
Crossing(frames, key, from, to, start, end) ==
  LET along(s) == Clamped((s.pos - from) * Toward(from, to), 0, Distance(from, to))
      when(s) == start + (along(s) * (end - start)) \div Distance(from, to)
  IN  UNION {SampleAt(frames, key, when(s)) :
               s \in {m \in SampleAt(frames, key, (start + end) \div 2) :
                        along(m) < Distance(from, to)}}

\* The percentage of a disc that another one before it leaves: none if it looks
\* as large (circle_overlap_fraction, for discs with one centre).
Uncovered(percent, radius, dist, srcRadius, srcDist) ==
  IF radius * srcDist >= srcRadius * dist THEN 0
  ELSE Least(percent, Most(1, percent - (percent * Square(radius * srcDist))
                                           \div Square(srcRadius * dist)))

\* path_transmission, as a percentage.
Transmission(frames, bs, source, destination, from, to, start, end) ==
  LET srcRadius == FoldSet(LAMBDA s, r : s.radius, 0, SampleAt(frames, source, start))
      shaded(percent, b) ==
        FoldSet(LAMBDA s, p :
                  IF \/ Distance(s.pos, to) >= Distance(from, to)
                     \/ Distance(s.pos, to) <= s.radius
                     \/ Toward(to, s.pos) # Toward(to, from)
                  THEN p ELSE Uncovered(p, s.radius, Distance(s.pos, to), srcRadius,
                                        Distance(from, to)),
                percent,
                IF BodyKey(b) = source \/ b.id = destination THEN {}
                ELSE Crossing(frames, BodyKey(b), from, to, start, end))
  IN  IF from = to THEN 100 ELSE FoldLeft(shaded, 100, bs)

(***************************************************************************)
(* Contributions                                                           *)
(***************************************************************************)

\* What a black thing sends at a distance; a power never vanishes.
Strength(area, temp, percent, d) ==
  IF area * temp = 0 THEN 0
  ELSE Most(1, ((((Gain * area) \div (4 * Most(Square(d), 1))) * percent) \div 100) * Fourth(temp))

Contribution(kind, key, pos, at, d, strength) ==
  [kind |-> kind, key |-> key, pos |-> pos, at |-> at, dist |-> d, strength |-> strength]

\* The light a source emits itself.
Emitted(frames, bs, key, x, own, time) ==
  UNION {LET through == Transmission(frames, bs, key, own, r.sample.pos, x, r.at, time)
             power == Strength(r.sample.area, r.sample.temp, through, r.dist)
         IN  IF through = 0 \/ power = 0 THEN {}
             ELSE {Contribution("emitted", key, r.sample.pos, r.at, r.dist, power)} :
           r \in Retarded(frames, key, x, time)}

\* reflected_sunlight: from the Sun to the body and on to the observer, who
\* sees the lit side or nothing.
Reflected(frames, bs, sun, body, x, own, time) ==
  UNION {UNION {
    LET key == BodyKey(body)
        incoming == Transmission(frames, bs, BodyKey(sun), body.id, s.sample.pos, r.sample.pos,
                                 s.at, r.at)
        outgoing == Transmission(frames, bs, key, own, r.sample.pos, x, r.at, time)
        lit == Toward(r.sample.pos, s.sample.pos) = Toward(r.sample.pos, x)
        incident == Strength(s.sample.area, s.sample.temp, incoming, s.dist)
        power == (((incident * outgoing) \div 100) * Square(r.sample.radius) * body.albedo)
                   \div (400 * Most(Square(r.dist), 1))
    IN  IF incoming = 0 \/ outgoing = 0 \/ ~ lit \/ incident = 0 \/ body.albedo = 0 THEN {}
        ELSE {Contribution("reflected", key, r.sample.pos, s.at, r.dist, Most(1, power))} :
      s \in Retarded(frames, BodyKey(sun), r.sample.pos, r.at)} :
    r \in Retarded(frames, BodyKey(body), x, time)}

\* observe_bodies: nothing without a Sun; bodies first, ships and stations as
\* far as the number of candidates goes, the observer itself left out.
Observed(frames, bs, ss, sts, x, own, time) ==
  LET sun == SelectInSeq(bs, IsSun)
      near == SubSeq(bs, 1, Least(PassiveCap, Len(bs)))
      small == SubSeq([i \in DOMAIN ss |-> ShipKey(ss[i])]
                        \o [i \in DOMAIN sts |-> StationKey(sts[i])],
                      1, Clamped(PassiveCap - Len(bs), 0, Len(ss) + Len(sts)))
      bodyLight(b) == Emitted(frames, bs, BodyKey(b), x, own, time)
                        \cup (IF b = bs[sun] THEN {}
                              ELSE Reflected(frames, bs, bs[sun], b, x, own, time))
      hullLight(key) == {c \in Emitted(frames, bs, key, x, own, time) :
                           \A s \in SampleAt(frames, key, c.at) : c.dist > s.radius}
  IN  IF sun = 0 THEN {}
      ELSE UNION ({bodyLight(b) : b \in {n \in ToSet(near) : n.id # own}}
                    \cup {hullLight(k) : k \in ToSet(small)})

(***************************************************************************)
(* Sensors                                                                 *)
(***************************************************************************)

Bearing(pos, x) == IF pos >= x THEN 1 ELSE -1

\* The contact a causal observer reports a source as; its hash is one to one.
AnonymousContact(observer, id) == <<observer, id>>

\* compute_causal_observer_detections: everything else from the same direction
\* is noise.  The observer is [id, pos, faces, snr], the ratio in tenths.
Detections(observer, light) ==
  LET glare(c) == FoldSet(LAMBDA o, sum : sum + o.strength, 0,
                          {o \in light : /\ o.key # c.key
                                         /\ Bearing(o.pos, observer.pos) = Bearing(c.pos, observer.pos)})
      heard == {c \in light : /\ Bearing(c.pos, observer.pos) \in observer.faces
                              /\ c.strength * 10 >= observer.snr * (NoiseFloor + glare(c))}
  IN  {[contact |-> AnonymousContact(observer.id, c.key[2]), key |-> c.key,
        tick |-> Most(c.at, 0) \div TICK, dist |-> c.dist] : c \in heard}

\* AmbientField::sensor_sources as compute_sensor_detections takes them under the
\* legacy model: as they are now, the Sun first, each against those before it.
LegacyDetections(observer, bs, ss) ==
  LET first == SelectInSeq(bs, IsSun)
      source(m, r) == [id |-> m.id, pos |-> m.pos, radius |-> r, temp |-> m.temp]
      sun == IF first = 0 \/ ~ SunVisible(bs, bs[first], observer.pos) THEN <<>>
             ELSE <<source(bs[first], bs[first].radius)>>
      planets == SelectSeq(bs, WarmBody)
      hulls == SelectSeq(ss, WarmHull)
      all == sun \o [i \in DOMAIN planets |-> source(planets[i], planets[i].radius)]
                 \o [i \in DOMAIN hulls |-> source(hulls[i], ShipRadius)]
      faced == SelectSeq(all, LAMBDA s : Bearing(s.pos, observer.pos) \in observer.faces)
      power(s) == Irradiance(s.radius, s.temp, Distance(s.pos, observer.pos))
      next(acc, s) ==
        [noise |-> acc.noise + power(s),
         out |-> IF power(s) > 0 /\ power(s) * 10 >= observer.snr * acc.noise
                 THEN acc.out \cup {[contact |-> s.id, dist |-> Distance(s.pos, observer.pos)]}
                 ELSE acc.out]
  IN  FoldLeft(next, [noise |-> NoiseFloor, out |-> {}], faced).out

=============================================================================
