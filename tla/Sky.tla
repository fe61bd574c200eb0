-------------------------------- MODULE Sky --------------------------------
(***************************************************************************)
(* The bodies, ships and stations of the engine from its start through its *)
(* ticks (TickExecutor::step in marita-core/src/tick.rs): they fly,        *)
(* collide, warm up and are recorded, and every observer looks.  The       *)
(* process may be started again from a checkpoint of its last state,       *)
(* without its history.                                                    *)
(***************************************************************************)
EXTENDS StartUp, PassiveLight

CONSTANTS
  CommandSets,  \* what a tick may be given: sequences of [ship_id, throttle, gimbal]
  LunaId        \* u64::MAX, the id Luna observes under

ASSUME SkyAssumption ==
  CommandSets \subseteq Seq([ship_id : Nat, throttle : Int, gimbal : Int])

\* Bounds of the model; the code has none.
CONSTANTS
  MaxTick,      \* ticks
  MaxResumes    \* starts from a checkpoint

ASSUME SkyBoundAssumption == MaxTick \in Nat /\ MaxResumes \in Nat

VARIABLES
  observer,     \* --observer-model: "legacy" or "causal"
  now,          \* SimulationState.tick
  frames,       \* the history of the process
  sights,       \* contributions every observer got this tick
  contacts,     \* what the sensors made of them
  flown,        \* history: bodies and ships of this tick before collisions
  past,         \* history: the frames of every tick there was
  born,         \* history: the tick the process started with
  resumes

skyVars == <<observer, now, frames, sights, contacts, flown, past, born, resumes>>
vars == <<startVars, skyVars>>

Init ==
  /\ StartUpInit
  /\ observer \in {"legacy", "causal"}
  /\ now = 0 /\ born = 0 /\ resumes = 0
  /\ frames = <<>> /\ past = <<>>
  /\ sights = <<>> /\ contacts = <<>>
  /\ flown = [bodies |-> bodies, ships |-> ships]

Place == (PlaceStation \/ Begin) /\ UNCHANGED skyVars

\* update_lagrange_offsets: nothing if one of the two bodies is gone.
Tracked(sts, bs) ==
  LET of(id) == SelectInSeq(bs, LAMBDA b : b.id = id)
  IN  [i \in DOMAIN sts |->
         IF of(sts[i].parent) = 0 \/ of(sts[i].secondary) = 0 THEN sts[i]
         ELSE [sts[i] EXCEPT !.offset =
                 LagrangeOffset(bs[of(sts[i].parent)].pos, bs[of(sts[i].secondary)].pos)]]

IsLuna(b) == b.name \in {"Moon", "Luna"}

\* Every ship and station looks from where it is, Luna from its own centre and
\* not at itself.  A ship's sensor faces one way.
Observers(bs, ss, sts) ==
  {[id |-> s.id, pos |-> s.pos, own |-> Nowhere, faces |-> {1}, snr |-> 10] : s \in ToSet(ss)}
    \cup {[id |-> s.id, pos |-> StationPos(s, bs), own |-> Nowhere, faces |-> {1, -1}, snr |-> 5] :
            s \in ToSet(sts)}
    \cup (LET moon == SelectInSeq(bs, IsLuna)
          IN  IF moon = 0 THEN {}
              ELSE {[id |-> LunaId, pos |-> bs[moon].pos, own |-> bs[moon].id,
                     faces |-> {1, -1}, snr |-> 0]})

\* TickExecutor::step.
Step(cmds) ==
  /\ stage = "up"
  /\ now < MaxTick
  /\ flown' = Flown(bodies, ships,
                    [i \in DOMAIN ships |-> ComputeThrust(ships[i], CommandFor(cmds, ships[i]))])
  /\ LET hit == ResolvedCollisions(flown'.bodies, flown'.ships)
     IN  /\ bodies' = WarmedBodies(hit.bodies, hit.ships)
         /\ ships' = WarmedShips(hit.bodies, hit.ships)
         /\ stations' = WarmedStations(hit.bodies, hit.ships, Tracked(stations, hit.bodies))
  /\ now' = now + 1
  /\ LET frame == Frame(now' * TICK, bodies', ships', stations')
     IN  frames' = Appended(frames, frame) /\ past' = Append(past, frame)
  /\ LET all == Observers(bodies', ships', stations')
     IN  /\ sights' = [o \in all |->
                         IF observer = "legacy" THEN {}
                         ELSE Observed(frames', bodies', ships', stations', o.pos, o.own, now' * TICK)]
         /\ contacts' = [o \in all |->
                           IF observer = "legacy" THEN LegacyDetections(o, bodies', ships')
                           ELSE Detections(o, sights'[o])]
  /\ UNCHANGED <<stage, wanted, candidate, observer, born, resumes>>

\* The last state is saved, and another process starts with it.
Resume ==
  /\ stage = "up"
  /\ now > born
  /\ resumes < MaxResumes
  /\ resumes' = resumes + 1
  /\ born' = now
  /\ frames' = <<>>
  /\ sights' = <<>> /\ contacts' = <<>>
  /\ UNCHANGED <<startVars, observer, now, flown, past>>

Next ==
  \/ Place
  \/ \E cmds \in CommandSets : Step(cmds)
  \/ Resume

Spec == Init /\ [][Next]_vars

\* The start is one thread's straight code.
FairSpec == Spec /\ WF_vars(Place)

(***************************************************************************)
(* Properties                                                              *)
(***************************************************************************)

\* The start comes to an end when there are places enough for the stations
\* asked for; otherwise the loop of spawn_stations goes round for ever.
Places == Len(LagrangeStations(bodies))
            + Cardinality({n \in ToSet(Candidates) : Named(bodies, n) # 0})

StartsUp == (wanted <= Places) ~> (stage = "up")

\* Kick, drift, kick is time-symmetric: with all velocities turned round a tick
\* without thrust leads back to where it began.
Turned(ms) == [i \in DOMAIN ms |-> [ms[i] EXCEPT !.vel = -@]]

Reversible ==
  LET idle == [i \in DOMAIN ships |-> [force |-> 0, consumed |-> 0]]
      there == Flown(bodies, ships, idle)
      back == Flown(Turned(there.bodies), Turned(there.ships), idle)
  IN  back.bodies = Turned(bodies) /\ back.ships = Turned(ships)

\* A body is heavier or larger than one of its name was before.
Grew(b, before) ==
  \E o \in ToSet(before) : o.id = b.id /\ (o.mass # b.mass \/ o.radius # b.radius)

Masses(bs) == [i \in DOMAIN bs |-> bs[i].mass]
Momenta(bs) == [i \in DOMAIN bs |-> bs[i].mass * bs[i].vel]
GrownMasses(bs, before) == [i \in DOMAIN bs |-> IF Grew(bs[i], before) THEN bs[i].mass ELSE 0]

\* Bodies that ran into one another lose no matter and, but for rounding, no
\* momentum, however many met; a pair still overlaps afterwards only when one of
\* the two has just grown.
Conserved(before, after) ==
  /\ SumFunction(Masses(after)) = SumFunction(Masses(before))
  /\ Distance(SumFunction(Momenta(after)), SumFunction(Momenta(before)))
       <= (Len(before) - Len(after)) * SumFunction(GrownMasses(after, before))

Parted(before, after) ==
  \A i, j \in DOMAIN after :
    i < j /\ Touch(after[i], after[j]) => Grew(after[i], before) \/ Grew(after[j], before)

\* Collisions are mergers of that kind, in every tick (collision.rs).
MergersConserve ==
  Conserved(flown.bodies, bodies) /\ (now > 0 => Parted(flown.bodies, bodies))

\* Where a thing was at a time, from every frame there ever was.
Known(key, time) ==
  /\ time >= TICK /\ time <= now * TICK
  /\ key \in DOMAIN past[time \div TICK].samples
  /\ key \in DOMAIN past[CeilDiv(time, TICK)].samples
TruePos(key, time) ==
  Lerp(past[time \div TICK].samples[key].pos, past[CeilDiv(time, TICK)].samples[key].pos,
       time % TICK, TICK)

\* The history of the process tells the truth: inside the time it covers it has
\* every thing that is still there, where it really was, and it has nothing
\* of another time, not even of a process before (history.rs).
HistoryIsTrue ==
  frames # <<>> => \A key \in DOMAIN past[now].samples, time \in 0..(now * TICK + 1) :
    LET inside == time >= frames[1].time /\ time <= now * TICK
    IN  /\ frames[1].time > born * TICK
        /\ SampleAt(frames, key, time) # {} <=> inside
        /\ \A s \in SampleAt(frames, key, time) : s.pos = TruePos(key, time)

\* When light left that comes to a place, as if it had come from somewhere the thing
\* really was.
LeftFrom(key, at, x, arrival) ==
  /\ Known(key, at)
  /\ \E t \in TICK..(now * TICK) : Known(key, t) /\ at = EmissionTime(TruePos(key, t), x, arrival)

\* Nobody sees what is yet to come, or what the process does not remember: a
\* passive report is of where the source really was at a time when light left it,
\* by way of the reflector if it was reflected, and never from before the process
\* began to record (passive_radiation.rs).
SeenWhereItWas ==
  \A o \in DOMAIN sights : \A c \in sights[o] :
    /\ c.at > born * TICK
    /\ IF c.kind = "emitted"
       THEN LeftFrom(c.key, c.at, o.pos, now * TICK) /\ c.pos = TruePos(c.key, c.at)
       ELSE \E lit \in c.at..(now * TICK), sun \in {b \in ToSet(bodies) : IsSun(b)} :
              /\ LeftFrom(c.key, lit, o.pos, now * TICK) /\ c.pos = TruePos(c.key, lit)
              /\ LeftFrom(BodyKey(sun), c.at, c.pos, lit)

\* Light takes its time: what is seen is seen where it was, and light from there
\* would have left when the report says, to within one unit of time.
LightTakesItsTime ==
  /\ SeenWhereItWas
  /\ \A o \in DOMAIN sights : \A c \in sights[o] : \E arrival \in {now * TICK} :
       IF c.kind = "emitted"
       THEN Distance(EmissionTime(c.pos, o.pos, arrival), c.at) <= 1
       ELSE \E lit \in c.at..arrival, sun \in {b \in ToSet(bodies) : IsSun(b)} :
              /\ Known(c.key, lit) /\ c.pos = TruePos(c.key, lit)
              /\ Distance(EmissionTime(c.pos, o.pos, arrival), lit) <= 1
              /\ Distance(EmissionTime(TruePos(BodyKey(sun), c.at), c.pos, lit), c.at) <= 1

\* What an observer sees, once the process is as old as the light is long under
\* way: every warm body in range that nothing stood near the line to, and no
\* body that a larger one stood before all the time.
Sight(o, b) == \E c \in sights[o] : c.key = BodyKey(b)

Apart(o, b) == {Distance(f.samples[BodyKey(b)].pos, o.pos) : f \in ToSet(frames)}

Positions(key) == {f.samples[key].pos : f \in ToSet(frames)}

InTheWay(m, x, y) == (m > x /\ m < y) \/ (m > y /\ m < x)

SeenWhenLit ==
  \A o \in DOMAIN sights : \A b \in {c \in ToSet(bodies) : c.id # o.own} :
    LET others == {m \in ToSet(bodies) : m # b /\ m.id # o.own}
        far == CHOOSE d \in Apart(o, b) : \A e \in Apart(o, b) : e <= d
        arrived == /\ far <= HistoryRange
                   /\ (now - born - 1) * TICK > far \div Light
                   /\ FrameLimit(frames[Len(frames)]) = MaxFrames
        clear == \A m \in others : \A p \in Positions(BodyKey(b)), q \in Positions(BodyKey(m)) :
                   ~ InTheWay(q, p, o.pos)
        warm == \A f \in ToSet(frames) : f.samples[BodyKey(b)].temp > 0
        covered == \E m \in others :
                     \A p \in Positions(BodyKey(b)), q \in Positions(BodyKey(m)) :
                       /\ InTheWay(q, p, o.pos)
                       /\ Distance(q, o.pos) > m.radius
                       /\ m.radius * Distance(p, o.pos) >= b.radius * Distance(q, o.pos)
    IN  /\ observer = "causal" /\ Named(bodies, "Sun") # 0 /\ arrived /\ clear /\ warm
             => Sight(o, b)
        /\ covered => ~ Sight(o, b)

\* The body c stands before the Sun seen from x, and looks at least as large.
Before(c, sun, x) == InTheWay(c.pos, x, sun.pos) /\ Distance(c.pos, x) > c.radius

LooksAsLarge(c, sun, x) == c.radius * Distance(sun.pos, x) >= sun.radius * Distance(c.pos, x)

\* The two shadow tests of the code, in a sky that stands still: where the Sun
\* heats (ambient.rs) it can be seen (passive_radiation.rs), and where it can be
\* seen and does not heat, a body before it looks smaller than it does.
ShadowsAgree ==
  LET still(time) == Frame(time, bodies, ships, stations)
      light(sun, x) == Transmission(<<still(0), still(1000)>>, bodies, BodyKey(sun), Nowhere,
                                    sun.pos, x, 0, 1000)
  IN  \A sun \in {b \in ToSet(bodies) : IsSun(b)} :
        \A key \in DOMAIN still(0).samples :
          LET x == still(0).samples[key].pos
          IN  x # sun.pos =>
                /\ SunVisible(bodies, sun, x) => light(sun, x) > 0
                /\ light(sun, x) > 0 /\ ~ SunVisible(bodies, sun, x) =>
                     \E c \in ToSet(bodies) : Before(c, sun, x) /\ ~ LooksAsLarge(c, sun, x)

\* The Sun does not heat a place only if a body covers it (ambient.rs, "A body
\* fully shadows the Sun when its apparent angular radius from `point` is at least
\* the Sun's apparent angular radius plus the angular separation").
SunHiddenIfCovered ==
  \A sun \in {b \in ToSet(bodies) : IsSun(b)} :
    \A x \in {s.pos : s \in ToSet(ships)} \cup {b.pos : b \in ToSet(bodies)} :
      x # sun.pos /\ ~ SunVisible(bodies, sun, x) =>
        \E c \in ToSet(bodies) : Before(c, sun, x) /\ LooksAsLarge(c, sun, x)

=============================================================================
