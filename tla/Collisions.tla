----------------------------- MODULE Collisions -----------------------------
(***************************************************************************)
(* Step 9 of a tick: bodies that overlap merge, ships that overlap bounce  *)
(* (marita-core/src/collision.rs).  Every loader makes bodies that merge   *)
(* and every ship bounces with a restitution of one half, so the bounce of *)
(* two bodies and ghosts are not modelled.  The search of a ship for what  *)
(* it may have hit goes by index: up to eight items stay in one node of    *)
(* the tree, in the order they were inserted.                              *)
(***************************************************************************)
EXTENDS Flight

CONSTANTS ShipRadius

ASSUME CollisionAssumption == ShipRadius \in Nat

CubeRoot(v) == CHOOSE r \in 0..v : r * r * r <= v /\ (r + 1) * (r + 1) * (r + 1) > v

Weighted(x, y, a, b) == (x * a.mass + y * b.mass) \div (a.mass + b.mass)

\* Mutant: the velocity of the merged body is the mean of the two.
MergedEvenly(a, b) ==
  [a EXCEPT !.mass = a.mass + b.mass,
            !.vel = (a.vel + b.vel) \div 2,
            !.pos = Weighted(a.pos, b.pos, a, b),
            !.radius = CubeRoot(a.radius * a.radius * a.radius + b.radius * b.radius * b.radius),
            !.temp = Weighted(a.temp, b.temp, a, b)]

\* merge_bodies: a goes on, with its own capacity for heat and its own area.
Merged(a, b) ==
  [a EXCEPT !.mass = a.mass + b.mass,
            !.vel = Weighted(a.vel, b.vel, a, b),
            !.pos = Weighted(a.pos, b.pos, a, b),
            !.radius = CubeRoot(a.radius * a.radius * a.radius + b.radius * b.radius * b.radius),
            !.temp = Weighted(a.temp, b.temp, a, b)]

Touch(a, b) == Distance(a.pos, b.pos) < a.radius + b.radius

\* Body j goes into the present one, which may have grown on the way to it.
Absorbing(bs, acc, j) ==
  IF j \in acc.gone \/ ~ Touch(acc.body, bs[j]) THEN acc
  ELSE [body |-> Merged(acc.body, bs[j]), gone |-> acc.gone \cup {j}]

Indices(from, to) == [k \in 1..(to - from + 1) |-> from + k - 1]

\* resolve_body_collisions.
ResolvedBodies(bs) ==
  LET round(acc, i) ==
        IF i \in acc.gone THEN acc
        ELSE LET grown == FoldLeft(LAMBDA a, j : Absorbing(bs, a, j),
                                   [body |-> bs[i], gone |-> acc.gone], Indices(i + 1, Len(bs)))
             IN  [out |-> Append(acc.out, grown.body), gone |-> grown.gone]
  IN  FoldLeft(round, [out |-> <<>>, gone |-> {}], Indices(1, Len(bs))).out

\* The direction from x to the ship.
Normal(ship, x) == IF ship.pos >= x THEN 1 ELSE -1

\* resolve_ship_bounce: nothing if the two part; otherwise the velocity along
\* the normal is turned back by half, and the ship moves a fifth of the overlap
\* against the normal.
Bounced(ship, mass, vel, normal, overlap) ==
  LET parting == (ship.vel - vel) * normal
  IN  IF parting > 0 THEN ship
      ELSE [ship EXCEPT
              !.vel = @ - normal * ((3 * parting * mass) \div (2 * (ShipMass(ship) + mass))),
              !.pos = @ - normal * (overlap \div 5)]

OffBody(ship, b) ==
  LET overlap == ShipRadius + b.radius - Distance(ship.pos, b.pos)
  IN  IF overlap > 0 THEN Bounced(ship, b.mass, b.vel, Normal(ship, b.pos), overlap) ELSE ship

\* resolve_ship_body_collisions.
OffBodies(ss, bs) == [i \in DOMAIN ss |-> FoldLeft(OffBody, ss[i], bs)]

\* Ship i bounces off the earlier ship j, and then j off i as it is now.
OffShip(ss, i, j) ==
  LET overlap == 2 * ShipRadius - Distance(ss[i].pos, ss[j].pos)
      normal == Normal(ss[i], ss[j].pos)
      first == Bounced(ss[i], ShipMass(ss[j]), ss[j].vel, normal, overlap)
      second == Bounced(ss[j], ShipMass(first), first.vel, -normal, overlap)
  IN  IF overlap > 0 THEN [ss EXCEPT ![i] = first, ![j] = second] ELSE ss

\* resolve_ship_ship_collisions.
OffShips(ss) ==
  FoldLeft(LAMBDA acc, i : FoldLeft(LAMBDA a, j : OffShip(a, i, j), acc, Indices(1, i - 1)),
           ss, Indices(1, Len(ss)))

ResolvedCollisions(bs, ss) ==
  LET merged == ResolvedBodies(bs)
  IN  [bodies |-> merged, ships |-> OffShips(OffBodies(ss, merged))]

=============================================================================
