------------------------------ MODULE StartUp ------------------------------
(***************************************************************************)
(* How `serve` and `scenario` make their first state: the ephemeris, the   *)
(* ships near Earth and the stations (marita-cli/src/main.rs,              *)
(* marita-core/src/ephemeris.rs).                                          *)
(*                                                                         *)
(* The sky of this model is a line: positions, velocities and offsets are  *)
(* integers, and the orientation of a ship is left out, which no command   *)
(* changes while the only engine mount is the centre of the ship.          *)
(***************************************************************************)
EXTENDS Integers, Sequences, FiniteSets, SequencesExt

CONSTANTS
  Circular,     \* entries [id, name, radius, pos, vel] of CircularOrbitLoader
  Snapshots,    \* what an ephemeris file may hold: sequences of entries
  KnownMass,    \* known_mass: masses by name
  Profile,      \* the radiative catalog: [temp, generation, albedo] by name
  Candidates,   \* surface_candidates, the names in their order
  ShipBase,     \* the id of the first ship (1000)
  StationBase,  \* the id of the first station (2000)
  OneAU,        \* where Earth would be
  Orbit,        \* orbital_radius of the ships
  Height,       \* of a station above the surface
  HeatPerMass,  \* heat capacity of a body per mass
  ShipFuel,     \* fuel_mass of default_ship
  RoomTemp,     \* temperature of ships and stations
  WantedShips,  \* values of --ships; at most two fit on a line
  WantedStations \* values of --stations

Nowhere == -1   \* no lagrange_point

EntryType == [id : Nat, name : STRING, radius : Nat, pos : Int, vel : Int]
SurfaceType == [temp : Nat, generation : Nat, albedo : Nat]

ASSUME StartUpAssumption ==
  /\ Circular \in Seq(EntryType) /\ Snapshots \subseteq Seq(EntryType)
  /\ \A name \in DOMAIN KnownMass : KnownMass[name] \in Nat
  /\ "default" \in DOMAIN Profile
  /\ \A name \in DOMAIN Profile : Profile[name] \in SurfaceType
  /\ Candidates \in Seq(STRING) /\ Candidates # <<>>
  /\ ShipBase \in Nat /\ StationBase \in Nat
  /\ OneAU \in Int /\ Orbit \in Int /\ Height \in Int
  /\ HeatPerMass \in Nat /\ ShipFuel \in Nat /\ RoomTemp \in Nat
  /\ WantedShips \subseteq 0..2 /\ WantedStations \subseteq Nat

VARIABLES
  stage,        \* "placing" stations or "up"
  wanted,       \* --stations
  candidate,    \* candidate_idx, modulo the number of candidates
  bodies, ships, stations

startVars == <<stage, wanted, candidate, bodies, ships, stations>>

\* The catalog entry of a name, or the default.
ProfileOf(name) == IF name \in DOMAIN Profile THEN Profile[name] ELSE Profile["default"]

\* A body the table does not know has no mass.
MassOf(name) == IF name \in DOMAIN KnownMass THEN KnownMass[name] ELSE 0

\* Two bodies without mass would merge into one that is nowhere: merge_bodies
\* divides by their mass.
ASSUME MassAssumption ==
  \A s \in {Circular} \cup Snapshots : \A i, j \in DOMAIN s :
    MassOf(s[i].name) = 0 /\ MassOf(s[j].name) = 0 => i = j

\* Every body of an ephemeris has an id of its own and one is the Sun: by the
\* ids of NAIF (scripts/generate_ephemeris.py) or as CircularOrbitLoader counts.
ASSUME NamesAssumption ==
  \A s \in {Circular} \cup Snapshots : \A i, j \in DOMAIN s :
    s[i].id = s[j].id \/ (s[i].name = "Sun" /\ s[j].name = "Sun") => i = j

MakeBody(e) ==
  [id |-> e.id, name |-> e.name, mass |-> MassOf(e.name), radius |-> e.radius,
   pos |-> e.pos, vel |-> e.vel,
   temp |-> ProfileOf(e.name).temp, generation |-> ProfileOf(e.name).generation,
   capacity |-> MassOf(e.name) * HeatPerMass, area |-> 4 * e.radius * e.radius,
   albedo |-> ProfileOf(e.name).albedo]

\* What --ephemeris may name.
Ephemeris(kind, entries) == [kind |-> kind, entries |-> entries]
Ephemerides == {Ephemeris(k, <<>>) : k \in {"circular", "missing", "broken"}}
                 \cup {Ephemeris("file", s) : s \in Snapshots}

\* A file that is missing or cannot be read stands for the circular orbits.
LoadEphemeris(spec) ==
  LET entries == IF spec.kind = "file" THEN spec.entries ELSE Circular
  IN  [i \in DOMAIN entries |-> MakeBody(entries[i])]

\* The index of the first body of a name, 0 if there is none.
Named(bs, name) == SelectInSeq(bs, LAMBDA b : b.name = name)

ShipId(i) == ShipBase + i - 1

\* The ships stand around Earth, or where Earth would be.
SpawnShips(bs, count) ==
  LET earth == Named(bs, "Earth")
      vel == IF earth = 0 THEN 0 ELSE bs[earth].vel
      pos == IF earth = 0 THEN OneAU ELSE bs[earth].pos
  IN  [i \in 1..count |->
         [id |-> ShipId(i), fuel |-> ShipFuel, temp |-> RoomTemp, vel |-> vel,
          pos |-> pos + (IF i = 1 THEN Orbit ELSE -Orbit)]]

DefaultStation(id, parent, offset, secondary) ==
  [id |-> id, parent |-> parent, offset |-> offset, secondary |-> secondary, temp |-> RoomTemp]

\* A turn by sixty degrees either way, seen along the line.
LagrangeOffset(primary, secondary) == (secondary - primary) \div 2

LagrangeStations(bs) ==
  LET earth == Named(bs, "Earth")
      moon == Named(bs, "Moon")
      at(id) == DefaultStation(id, bs[earth].id, LagrangeOffset(bs[earth].pos, bs[moon].pos),
                               bs[moon].id)
  IN  IF earth = 0 \/ moon = 0 THEN <<>> ELSE <<at(StationBase), at(StationBase + 1)>>

StartUpInit ==
  /\ stage = "placing" /\ candidate = 0
  /\ wanted \in WantedStations
  /\ \E spec \in Ephemerides : bodies = LoadEphemeris(spec)
  /\ \E count \in WantedShips : ships = SpawnShips(bodies, count)
  /\ stations = LagrangeStations(bodies)

SurfaceId(n) == StationBase + 2 + n

\* Mutant: a candidate that is skipped is looked at again.
NextCandidateIfUsed(used) == IF used THEN (candidate + 1) % Len(Candidates) ELSE candidate

NextCandidate(used) == (candidate + 1) % Len(Candidates)

\* The next candidate, unless the ephemeris lacks it or it has a station.
Site == Named(bodies, Candidates[candidate + 1])

Free == Site # 0 /\ \A s \in ToSet(stations) : s.parent # bodies[Site].id

\* One round of the loop of spawn_stations.
PlaceStation ==
  /\ stage = "placing"
  /\ Len(stations) < wanted
  /\ candidate' = NextCandidate(Free)
  /\ stations' = IF Free
                 THEN Append(stations, DefaultStation(SurfaceId(Len(stations)), bodies[Site].id,
                                                      bodies[Site].radius + Height, Nowhere))
                 ELSE stations
  /\ UNCHANGED <<stage, wanted, bodies, ships>>

\* The server starts with the state.
Begin ==
  /\ stage = "placing"
  /\ Len(stations) >= wanted
  /\ stage' = "up"
  /\ UNCHANGED <<wanted, candidate, bodies, ships, stations>>

=============================================================================
