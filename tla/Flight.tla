------------------------------- MODULE Flight -------------------------------
(***************************************************************************)
(* Steps 2 to 7 of a tick: thrust, and the kick, drift and kick of gravity *)
(* (marita-core/src/tick.rs, propulsion.rs and gravity.rs).  One unit of   *)
(* velocity is one of distance in one of time, of which a tick has TICK;   *)
(* an acceleration is what half a tick of it adds to a velocity.           *)
(***************************************************************************)
EXTENDS Integers, Sequences, FiniteSets, SequencesExt, FiniteSetsExt

CONSTANTS
  TICK,         \* TICK_SIM_TIME
  Influencers,  \* bodies that pull on one mass (3 in gravity.rs)
  Softening,    \* GRAVITY_SOFTENING
  DryMass,      \* of a ship
  Isp,          \* specific_impulse times standard gravity
  MaxFlow       \* max_mass_flow of the engine

ASSUME FlightAssumption ==
  /\ TICK \in Nat \ {0} /\ Softening \in Nat \ {0} /\ DryMass \in Nat \ {0}
  /\ Influencers \in Nat /\ Isp \in Nat /\ MaxFlow \in Nat

Least(a, b) == IF a < b THEN a ELSE b
Most(a, b) == IF a > b THEN a ELSE b
Clamped(x, lo, hi) == Most(lo, Least(x, hi))
Distance(x, y) == IF x > y THEN x - y ELSE y - x
Toward(x, y) == IF y > x THEN 1 ELSE IF y < x THEN -1 ELSE 0

ShipMass(ship) == DryMass + ship.fuel

(***************************************************************************)
(* Thrust                                                                  *)
(***************************************************************************)

NoCommand == [throttle |-> 0, gimbal |-> 1]

\* The first command of a tick that names the ship.
CommandFor(cmds, ship) ==
  LET mine == SelectInSeq(cmds, LAMBDA c : c.ship_id = ship.id)
  IN  IF mine = 0 THEN NoCommand ELSE cmds[mine]

\* compute_thrust: the fuel is limited to what is left, the force is not; a
\* plume is given off only while fuel burns.
ComputeThrust(ship, c) ==
  LET flow == Clamped(c.throttle, 0, 1) * MaxFlow
      consumed == Least(flow * TICK, ship.fuel)
  IN  [force |-> c.gimbal * Isp * flow, consumed |-> consumed, plume |-> consumed > 0]

\* Step 6: the fuel goes first, then the lighter ship is pushed.
Burnt(ss, thrust) ==
  [i \in DOMAIN ss |->
     LET lighter == [ss[i] EXCEPT !.fuel = Most(@ - thrust[i].consumed, 0)]
     IN  [lighter EXCEPT !.vel = @ + (thrust[i].force * TICK) \div ShipMass(lighter)]]

(***************************************************************************)
(* Gravity                                                                 *)
(***************************************************************************)

Influence(b, x) ==
  (1000 * b.mass) \div (Distance(b.pos, x) * Distance(b.pos, x) + Softening * Softening)

\* The strongest sources on a mass at x, the earlier of two as strong.
Strongest(bs, x, skip) ==
  LET sources == DOMAIN bs \ skip
      before(j, i) == \/ Influence(bs[j], x) > Influence(bs[i], x)
                      \/ Influence(bs[j], x) = Influence(bs[i], x) /\ j < i
  IN  {i \in sources : Cardinality({j \in sources : before(j, i)}) < Influencers}

\* acceleration_for_target, of one source and of all.
Pull(b, x) ==
  Toward(x, b.pos) *
    (b.mass \div Most(Distance(b.pos, x) * Distance(b.pos, x), Softening * Softening))

Acceleration(bs, x, skip) ==
  FoldLeft(LAMBDA sum, i : sum + Pull(bs[i], x), 0, SetToSeq(Strongest(bs, x, skip)))

\* Ships are pulled and do not pull.
KickedBodies(bs) ==
  [i \in DOMAIN bs |-> [bs[i] EXCEPT !.vel = @ + Acceleration(bs, bs[i].pos, {i})]]
KickedShips(bs, ss) ==
  [i \in DOMAIN ss |-> [ss[i] EXCEPT !.vel = @ + Acceleration(bs, ss[i].pos, {})]]

Drifted(ms) == [i \in DOMAIN ms |-> [ms[i] EXCEPT !.pos = @ + ms[i].vel * TICK]]

\* Mutant: the second kick is the first one again.
FlownWithOldGravity(bs, ss, thrust) ==
  LET pulled == KickedBodies(bs)
      again == [i \in DOMAIN bs |->
                  [pulled[i] EXCEPT !.vel = @ + Acceleration(bs, bs[i].pos, {i})]]
      glided == Burnt(Drifted(KickedShips(bs, ss)), thrust)
  IN  [bodies |-> [i \in DOMAIN bs |-> [again[i] EXCEPT !.pos = @ + pulled[i].vel * TICK]],
       ships |-> [i \in DOMAIN ss |->
                    [glided[i] EXCEPT !.vel = @ + Acceleration(bs, ss[i].pos, {})]]]

\* Kick, drift, thrust, kick.
Flown(bs, ss, thrust) ==
  LET drifted == Drifted(KickedBodies(bs))
      glided == Burnt(Drifted(KickedShips(bs, ss)), thrust)
  IN  [bodies |-> KickedBodies(drifted), ships |-> KickedShips(drifted, glided)]

=============================================================================
