------------------------------- MODULE Warmth -------------------------------
(***************************************************************************)
(* Steps 10 and 13 of a tick: the radiation of the Sun and of warm things  *)
(* and what it does to temperatures (marita-core/src/ambient.rs, heat.rs). *)
(* Energies are in units of pi times the Stefan-Boltzmann constant;        *)
(* everything is black.  What signal arcs bring is left out.               *)
(***************************************************************************)
EXTENDS Collisions

CONSTANTS
  StationRadius,
  ShipCapacity, \* heat capacity of ships and stations
  ShipArea      \* their radiating area

ASSUME WarmthAssumption == StationRadius \in Nat /\ ShipCapacity \in Nat /\ ShipArea \in Nat

Square(x) == x * x
Fourth(x) == x * x * x * x

IsSun(b) == b.name = "Sun"

(***************************************************************************)
(* The field                                                               *)
(***************************************************************************)

\* AmbientField.thermal_sources: every warm thing but the Sun, no station.
WarmBody(b) == ~ IsSun(b) /\ b.temp > 0
WarmHull(s) == s.temp > 0

\* Mutant: a body shadows what is on it or in it.
ShadowedByOwnBody(c, sun, x) ==
  /\ Distance(c.pos, x) < Distance(sun.pos, x)
  /\ Toward(x, c.pos) = Toward(x, sun.pos)

\* The caster c stands before the Sun seen from x.  The test compares the
\* difference of the two apparent radii with the angle between the centres,
\* which is none on a line: however small it looks, a caster shadows.
Shadowed(c, sun, x) ==
  /\ Distance(c.pos, x) > c.radius
  /\ Distance(c.pos, x) < Distance(sun.pos, x)
  /\ Toward(x, c.pos) = Toward(x, sun.pos)

\* AmbientField::is_sun_visible.
SunVisible(bs, sun, x) ==
  /\ x # sun.pos
  /\ \/ Distance(sun.pos, x) <= sun.radius
     \/ \A c \in ToSet(bs) : ~ IsSun(c) => ~ Shadowed(c, sun, x)

\* Irradiance at x of one source: nothing at its centre.
Irradiance(radius, temp, d) == IF d = 0 THEN 0 ELSE (Square(radius) * Fourth(temp)) \div Square(d)

SolarIrradiance(bs, x) ==
  LET sun == SelectInSeq(bs, IsSun)
  IN  IF sun = 0 \/ ~ SunVisible(bs, bs[sun], x) THEN 0
      ELSE Irradiance(bs[sun].radius, bs[sun].temp, Distance(bs[sun].pos, x))

ThermalIrradiance(bs, ss, x) ==
  LET ofBody == [i \in DOMAIN bs |-> Irradiance(bs[i].radius, bs[i].temp, Distance(bs[i].pos, x))]
      ofShip == [i \in DOMAIN ss |-> Irradiance(ShipRadius, ss[i].temp, Distance(ss[i].pos, x))]
  IN  SumFunctionOnSet(ofBody, {i \in DOMAIN bs : WarmBody(bs[i])})
        + SumFunctionOnSet(ofShip, {i \in DOMAIN ss : WarmHull(ss[i])})

AbsorbedEnergy(bs, ss, x, radius) ==
  Square(radius) * (SolarIrradiance(bs, x) + ThermalIrradiance(bs, ss, x))

(***************************************************************************)
(* Temperatures                                                            *)
(***************************************************************************)

\* update_thermal: one explicit step, never below zero; less than a unit of
\* temperature is dropped.
NewTemp(temp, capacity, area, energyIn) ==
  LET net == energyIn - area * Fourth(temp)
  IN  IF capacity = 0 THEN temp
      ELSE IF net >= 0 THEN temp + net \div capacity ELSE Most(0, temp - (-net) \div capacity)

WarmedBodies(bs, ss) ==
  [i \in DOMAIN bs |-> [bs[i] EXCEPT !.temp =
     NewTemp(@, bs[i].capacity, bs[i].area,
             AbsorbedEnergy(bs, ss, bs[i].pos, bs[i].radius) + bs[i].generation)]]

WarmedShips(bs, ss) ==
  [i \in DOMAIN ss |-> [ss[i] EXCEPT !.temp =
     NewTemp(@, ShipCapacity, ShipArea, AbsorbedEnergy(bs, ss, ss[i].pos, ShipRadius))]]

(***************************************************************************)
(* Stations                                                                *)
(***************************************************************************)

\* Station::position: a station whose body is gone stands at its bare offset.
StationPos(station, bs) ==
  LET parent == SelectInSeq(bs, LAMBDA b : b.id = station.parent)
  IN  station.offset + (IF parent = 0 THEN 0 ELSE bs[parent].pos)

WarmedStations(bs, ss, sts) ==
  [i \in DOMAIN sts |-> [sts[i] EXCEPT !.temp =
     NewTemp(@, ShipCapacity, ShipArea,
             AbsorbedEnergy(bs, ss, StationPos(sts[i], bs), StationRadius))]]

=============================================================================
