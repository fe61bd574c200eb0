------------------------------- MODULE MCSky -------------------------------
(***************************************************************************)
(* Instances of Sky for TLC.                                               *)
(***************************************************************************)
EXTENDS Sky

Entry(id, name, radius, pos, vel) ==
  [id |-> id, name |-> name, radius |-> radius, pos |-> pos, vel |-> vel]

\* The Sun, Earth and the Moon behind it, Mars on the other side.
LineOfOrbits ==
  <<Entry(1, "Sun", 12, 0, 0), Entry(4, "Earth", 6, 60, 1), Entry(5, "Mars", 5, -50, -1),
    Entry(11, "Moon", 5, 80, 1)>>

\* The Moon falls on Earth, a stray body without mass follows.
Collision ==
  <<Entry(1, "Sun", 12, 0, 0), Entry(399, "Earth", 6, 60, 1), Entry(301, "Moon", 5, 82, -2),
    Entry(77, "Stray", 4, 102, -3)>>

\* No Earth, and a clear view of the Sun from a far Moon.
OtherPlanets ==
  <<Entry(10, "Sun", 12, 0, 0), Entry(301, "Moon", 5, 105, 0), Entry(499, "Mars", 5, -30, 0),
    Entry(299, "Venus", 6, -60, 0)>>

\* No Sun.
Dark == <<Entry(399, "Earth", 6, 40, 0), Entry(301, "Moon", 5, 70, 0)>>

Files == {Collision, OtherPlanets, Dark}

KnownMasses == [n \in {"Sun", "Earth", "Moon", "Mars", "Venus"} |->
             CASE n = "Sun" -> 800 [] n = "Earth" -> 300 [] n = "Moon" -> 100 [] OTHER -> 150]

Surface(temp, generation, albedo) == [temp |-> temp, generation |-> generation, albedo |-> albedo]

Profiles == [n \in {"Sun", "Earth", "Moon", "Mars", "Venus", "default"} |->
               CASE n = "Sun" -> Surface(4, 147456, 0) [] n = "Earth" -> Surface(2, 100, 30)
                 [] n = "Moon" -> Surface(1, 0, 20) [] OTHER -> Surface(1, 0, 25)]

Surfaces == <<"Mercury", "Venus", "Mars">>

Push(ship, throttle, gimbal) == [ship_id |-> ship, throttle |-> throttle, gimbal |-> gimbal]

\* Nothing, or two commands for the first ship.
Burns == {<<>>, <<Push(1000, 2, -1), Push(1000, 1, 1)>>}
=============================================================================
