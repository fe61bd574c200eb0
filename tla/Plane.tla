--------------------------------- MODULE Plane ---------------------------------
(***************************************************************************)
(* Points of a plane of integers, and directions in 32nds of a turn        *)
(* (normalize_angle of marita-core/src/state.rs).  A    *)
(* direction between points, and half of the angle a disc is seen under,   *)
(* are taken to a 16th of a turn.                                          *)
(***************************************************************************)
EXTENDS Integers, Sequences, FiniteSets, SequencesExt, FiniteSetsExt

Turn == 32
HalfTurn == 16

Magnitude(x) == IF x < 0 THEN -x ELSE x

Plus(u, v) == <<u[1] + v[1], u[2] + v[2]>>
Minus(u, v) == <<u[1] - v[1], u[2] - v[2]>>
SquaredLength(v) == v[1] * v[1] + v[2] * v[2]

Length(v) == CHOOSE r \in 0..SquaredLength(v) :
               r * r <= SquaredLength(v) /\ (r + 1) * (r + 1) > SquaredLength(v)

\* normalize_angle: both ends of [-half a turn, half a turn] stay as they are.
Normalized(a) ==
  IF a > HalfTurn THEN a - Turn * ((a - HalfTurn + Turn - 1) \div Turn)
  ELSE IF a < -HalfTurn THEN a + Turn * ((-HalfTurn - a + Turn - 1) \div Turn)
  ELSE a

\* The smaller angle between two directions, whichever way round.
Between(a, b) == Magnitude(Normalized(a - b))

\* Sines of 0, 1, ..., 4 16ths of a turn, and tangents of the angles half way
\* between them, in hundredths.
Sine == <<0, 38, 71, 92, 100>>
Tangent == <<20, 67, 150, 503>>

\* atan2.
Angle(v) ==
  LET up == 2 * Cardinality({k \in 1..4 : 100 * Magnitude(v[2]) > Tangent[k] * Magnitude(v[1])})
      right == IF v[1] >= 0 THEN up ELSE HalfTurn - up
  IN  IF v[2] >= 0 THEN right ELSE -right

\* v.angle_to(X): the turn from v to the x axis, so that left and right change
\* places.
TurnToX(v) == Normalized(-Angle(v))

\* Half of the angle a disc is seen under.
HalfAngle(radius, d) ==
  2 * Cardinality({k \in 1..4 : Sine[k + 1] * d <= 100 * radius})

\* The point k further along v.
Along(v, k) == <<(v[1] * k) \div Length(v), (v[2] * k) \div Length(v)>>

================================================================================
