---------------------------- MODULE Mergers_proofs ----------------------------
(***************************************************************************)
(* What bodies that run into one another conserve, and its proof: matter,  *)
(* momentum but for rounding, and that those which did not grow part.      *)
(***************************************************************************)
EXTENDS Sky_proofs

(***************************************************************************)
(* One merger                                                              *)
(***************************************************************************)

LEMMA CubesGrow ==
  ASSUME NEW a \in Nat, NEW b \in Nat, a <= b
  PROVE  Cube(a) <= Cube(b)
<1>1. PICK d \in Nat : b = a + d
  <2>1. b - a \in Nat /\ b = a + (b - a)
    OBVIOUS
  <2> QED BY <2>1
<1>2. PICK p \in Nat, q \in Nat : p = a * a /\ q = b * b
  BY Multiplying
<1>3. p <= q
  <2>1. PICK x \in Nat, y \in Nat : x = a * d /\ y = d * d
    BY Multiplying
  <2>2. (a + d) * (a + d) = a * a + a * d + a * d + d * d
    OBVIOUS
  <2> QED BY <1>1, <1>2, <2>1, <2>2
<1>4. p * a <= q * b
  <2>1. PICK e \in Nat : q = p + e
    <3>1. q - p \in Nat /\ q = p + (q - p)
      BY <1>3
    <3> QED BY <3>1
  <2>2. PICK x \in Nat, y \in Nat, z \in Nat, v \in Nat :
          x = p * a /\ y = p * d /\ z = e * a /\ v = e * d
    BY Multiplying
  <2>3. (p + e) * (a + d) = p * a + p * d + e * a + e * d
    OBVIOUS
  <2> QED BY <1>1, <2>1, <2>2, <2>3
<1> QED BY <1>2, <1>4 DEF Cube

\* A ball grows by what it takes in.
LEMMA CubeRootGrows ==
  ASSUME NEW a \in Nat, NEW b \in Nat
  PROVE  CubeRoot(a * a * a + b * b * b) >= a
<1>1. PICK c \in Nat, d \in Nat : c = a * a * a /\ d = b * b * b
  <2>1. \A x \in Nat : x * x * x \in Nat
    <3> SUFFICES ASSUME NEW x \in Nat PROVE x * x * x \in Nat
      OBVIOUS
    <3>1. x * x \in Nat
      BY Multiplying
    <3> QED BY <3>1, Multiplying
  <2> QED BY <2>1
<1>2. PICK v \in Nat : v = c + d
  OBVIOUS
<1>3. PICK q \in Nat : q = CubeRoot(v) /\ Cube(q + 1) > v
  <2>1. CubeRoot(v) \in 0..v /\ Cube(CubeRoot(v) + 1) > v
    BY CubeRootIsNat
  <2> QED BY <2>1
<1>4. Cube(a) = c
  BY <1>1 DEF Cube
<1>5. SUFFICES ASSUME q < a PROVE FALSE
  BY <1>1, <1>2, <1>3
<1>6. q + 1 \in Nat /\ q + 1 <= a
  BY <1>5
<1>7. Cube(q + 1) <= c
  BY <1>4, <1>6, CubesGrow
<1>8. Cube(q + 1) \in Int
  BY <1>6, Multiplying DEF Cube
<1> QED BY <1>2, <1>3, <1>7, <1>8

\* Masses and momenta of bodies by their indices.
MassOver(bs, S) == SumFunctionOnSet(Masses(bs), S)
MomentumOver(bs, S) == SumFunctionOnSet(Momenta(bs), S)

LEMMA OverAnother ==
  ASSUME NEW bs \in Seq(BodyType), NEW S \in SUBSET (DOMAIN bs), IsFiniteSet(S)
  PROVE  /\ MassOver(bs, S) \in Nat /\ MomentumOver(bs, S) \in Int
         /\ \A j \in DOMAIN bs \ S :
              /\ MassOver(bs, S \cup {j}) = MassOver(bs, S) + bs[j].mass
              /\ MomentumOver(bs, S \cup {j}) = MomentumOver(bs, S) + bs[j].mass * bs[j].vel
<1>1. PICK f, g : f = Masses(bs) /\ g = Momenta(bs)
  OBVIOUS
<1>2. \A j \in DOMAIN bs : bs[j].mass \in Nat /\ bs[j].vel \in Int
  BY BodyFields
<1>3. \A j \in DOMAIN bs : f[j] = bs[j].mass /\ g[j] = bs[j].mass * bs[j].vel
  BY <1>1 DEF Masses, Momenta
<1>4. \A j \in DOMAIN bs : f[j] \in Nat /\ f[j] \in Int /\ g[j] \in Int
  <2> SUFFICES ASSUME NEW j \in DOMAIN bs PROVE f[j] \in Nat /\ f[j] \in Int /\ g[j] \in Int
    OBVIOUS
  <2>1. PICK m \in Int, v \in Int : m = bs[j].mass /\ v = bs[j].vel /\ m \in Nat
    BY <1>2
  <2>2. m * v \in Int
    BY Multiplying
  <2> QED BY <1>3, <2>1, <2>2
<1>5. \A j \in S : f[j] \in Nat /\ g[j] \in Int
  BY <1>4
<1>6. SumFunctionOnSet(f, S) \in Nat /\ SumFunctionOnSet(g, S) \in Int
  BY <1>5, SumNat, SumInt
<1>7. ASSUME NEW j \in DOMAIN bs \ S
      PROVE  /\ SumFunctionOnSet(f, S \cup {j}) = SumFunctionOnSet(f, S) + f[j]
             /\ SumFunctionOnSet(g, S \cup {j}) = SumFunctionOnSet(g, S) + g[j]
  <2>1. j \notin S /\ \A x \in S \cup {j} : f[x] \in Int /\ g[x] \in Int
    BY <1>4
  <2> QED BY <2>1, SumPutIn
<1> QED BY <1>1, <1>3, <1>6, <1>7 DEF MassOver, MomentumOver

\* What a merger makes of momentum, place and size.
Momentum(b) == b.mass * b.vel

LEMMA RoundedDown ==
  ASSUME NEW t \in Int, NEW s \in Nat, s > 0
  PROVE  /\ t \div s \in Int /\ s * (t \div s) \in Int
         /\ s * (t \div s) <= t /\ t - s * (t \div s) < s
<1>1. PICK q \in Int, r \in 0..(s - 1) : t = q * s + r
  BY Remainder
<1>2. r \in Int /\ 0 <= r /\ r < s
  OBVIOUS
<1>3. t \div s = q
  BY <1>1, <1>2, Divided
<1>4. PICK p \in Int : p = q * s /\ s * q = p
  BY Multiplying
<1> QED BY <1>1, <1>2, <1>3, <1>4

LEMMA MergedMoves ==
  ASSUME NEW a \in BodyType, NEW b \in BodyType, a.mass + b.mass > 0, NEW m, m = Merged(a, b)
  PROVE  /\ m.radius >= a.radius /\ m.mass = a.mass + b.mass
         /\ Momentum(m) <= Momentum(a) + Momentum(b)
         /\ Momentum(a) + Momentum(b) - Momentum(m) < m.mass
         /\ (b.mass = 0 => m.pos = a.pos /\ Momentum(m) = Momentum(a))
<1>1. /\ a.pos \in Int /\ b.pos \in Int /\ a.vel \in Int /\ b.vel \in Int
      /\ a.radius \in Nat /\ b.radius \in Nat /\ a.mass \in Nat /\ b.mass \in Nat
  BY BodyFields
<1>2. PICK s \in Nat : s = a.mass + b.mass /\ s > 0
  BY <1>1
<1>3. PICK p \in Int, q \in Int : p = a.vel * a.mass /\ q = b.vel * b.mass
  BY <1>1, Multiplying
<1>4. Momentum(a) = p /\ Momentum(b) = q
  BY <1>1, <1>3 DEF Momentum
<1>5. PICK t \in Int : t = p + q
  OBVIOUS
<1>6. m.mass = s /\ m.vel = t \div s /\ m.pos = Weighted(a.pos, b.pos, a, b)
        /\ m.radius = CubeRoot(a.radius * a.radius * a.radius + b.radius * b.radius * b.radius)
  <2>1. Weighted(a.vel, b.vel, a, b) = t \div s
    BY <1>2, <1>3, <1>5 DEF Weighted
  <2>2. DOMAIN a = {"id", "name", "mass", "radius", "pos", "vel", "temp", "generation",
                    "capacity", "area", "albedo"}
    BY DEF BodyType
  <2>3. PICK v, x, r, c : /\ v = Weighted(a.vel, b.vel, a, b) /\ x = Weighted(a.pos, b.pos, a, b)
              /\ r = CubeRoot(a.radius * a.radius * a.radius + b.radius * b.radius * b.radius)
              /\ c = Weighted(a.temp, b.temp, a, b)
    OBVIOUS
  <2>4. m = [a EXCEPT !.mass = s, !.vel = v, !.pos = x, !.radius = r, !.temp = c]
    BY <1>2, <2>3 DEF Merged
  <2>5. m.mass = s /\ m.vel = v /\ m.pos = x /\ m.radius = r
    BY <2>2, <2>4
  <2> QED BY <2>1, <2>3, <2>5
<1>7. m.radius >= a.radius
  BY <1>1, <1>6, CubeRootGrows
<1>8. Momentum(m) = s * (t \div s)
  BY <1>6 DEF Momentum
<1>9. /\ t \div s \in Int /\ s * (t \div s) \in Int
      /\ s * (t \div s) <= t /\ t - s * (t \div s) < s
  BY <1>2, RoundedDown
<1>10. ASSUME b.mass = 0 PROVE m.pos = a.pos /\ Momentum(m) = Momentum(a)
  <2>1. q = 0 /\ b.pos * b.mass = 0
    BY <1>1, <1>3, <1>10
  <2>2. s = a.mass
    BY <1>1, <1>2, <1>10
  <2>3. PICK x \in Int, v \in Int : x = a.pos /\ v = a.vel
    BY <1>1
  <2>4. (x * s + 0) \div s = x /\ (v * s + 0) \div s = v
    BY <1>2, Divided
  <2>5. PICK y \in Int, z \in Int : y = x * s /\ z = v * s
    BY Multiplying
  <2>6. y \div s = x /\ z \div s = v
    BY <2>4, <2>5
  <2>7. t = z
    BY <1>3, <1>5, <2>1, <2>2, <2>3, <2>5
  <2>8. m.pos = x
    <3>1. Weighted(a.pos, b.pos, a, b) = (y + 0) \div s
      BY <1>2, <2>1, <2>2, <2>3, <2>5 DEF Weighted
    <3> QED BY <1>6, <2>5, <2>6, <3>1
  <2>9. s * v = z
    BY <2>5
  <2> QED BY <1>3, <1>4, <1>8, <2>2, <2>3, <2>5, <2>6, <2>7, <2>8, <2>9
<1> QED BY <1>2, <1>4, <1>5, <1>6, <1>7, <1>8, <1>9, <1>10

\* Body i with the bodies of A in it: as heavy as all, as fast as all together
\* but for what was lost in rounding, and where it was if it is as it was.
Lump(bs, b, i, A) ==
  /\ b \in BodyType
  /\ b.mass = MassOver(bs, {i} \cup A)
  /\ Distance(Momentum(b), MomentumOver(bs, {i} \cup A)) <= Cardinality(A) * b.mass
  /\ b.radius >= bs[i].radius /\ b.mass >= bs[i].mass
  /\ b.mass = bs[i].mass /\ b.radius = bs[i].radius =>
       b.pos = bs[i].pos /\ Momentum(b) = MomentumOver(bs, {i} \cup A)

LEMMA BodyIsLump ==
  ASSUME NEW bs \in Seq(BodyType), NEW i \in DOMAIN bs
  PROVE  Lump(bs, bs[i], i, {})
<1>1. PICK b \in BodyType : b = bs[i]
  OBVIOUS
<1>2. b.mass \in Nat /\ b.vel \in Int /\ b.radius \in Nat
  BY BodyFields
<1>3. {} \in SUBSET (DOMAIN bs) /\ IsFiniteSet({}) /\ i \in DOMAIN bs \ {} /\ Cardinality({}) = 0
  BY FS_EmptySet
<1>4. MassOver(bs, {}) = 0 /\ MomentumOver(bs, {}) = 0
  BY SumEmpty DEF MassOver, MomentumOver
<1>5. PICK E, S : E = {} /\ S = E \cup {i} /\ S = {i} \cup {}
  <2>1. {} \cup {i} = {i} \cup {}
    OBVIOUS
  <2> QED BY <2>1
<1>6. /\ MassOver(bs, S) = MassOver(bs, E) + bs[i].mass
      /\ MomentumOver(bs, S) = MomentumOver(bs, E) + bs[i].mass * bs[i].vel
  BY <1>3, <1>5, OverAnother
<1>7. PICK p \in Int : p = Momentum(b)
  BY <1>2, Multiplying DEF Momentum
<1>8. MassOver(bs, S) = b.mass /\ MomentumOver(bs, S) = p
  BY <1>1, <1>2, <1>4, <1>5, <1>6, <1>7 DEF Momentum
<1>9. Distance(p, p) <= 0 * b.mass
  BY <1>2 DEF Distance
<1> QED BY <1>1, <1>2, <1>3, <1>5, <1>7, <1>8, <1>9 DEF Lump

\* Rounding errors add up.
LEMMA ErrorsAdd ==
  ASSUME NEW p \in Int, NEW q \in Int, NEW r \in Int, NEW t \in Int, NEW c \in Nat, NEW m \in Nat,
         NEW n \in Nat, Distance(p, q) <= c * m, t <= p + r, p + r - t < m + n
  PROVE  Distance(t, q + r) <= (c + 1) * (m + n)
<1>1. PICK x \in Nat, y \in Nat : x = c * m /\ y = c * n
  BY Multiplying
<1>2. (c + 1) * (m + n) = x + y + m + n
  BY <1>1
<1> QED BY <1>1, <1>2 DEF Distance

LEMMA LumpGrows ==
  ASSUME NEW bs \in Seq(BodyType), OneMassless(bs), NEW i \in DOMAIN bs, NEW A, IsFiniteSet(A),
         A \subseteq DOMAIN bs, NEW j \in DOMAIN bs, j # i, j \notin A, NEW b, Lump(bs, b, i, A)
  PROVE  Lump(bs, Merged(b, bs[j]), i, A \cup {j})
<1>1. PICK o \in BodyType, a \in BodyType : o = bs[j] /\ a = bs[i]
  OBVIOUS
<1>2. /\ o.mass \in Nat /\ a.mass \in Nat /\ b.mass \in Nat /\ a.radius \in Nat /\ b.radius \in Nat
      /\ o.vel \in Int /\ b.vel \in Int /\ b \in BodyType
  BY BodyFields DEF Lump
<1>3. b.mass + o.mass > 0
  BY <1>1, <1>2 DEF Lump, OneMassless
<1>4. PICK m \in BodyType : m = Merged(b, o)
  BY <1>2, <1>3, MergedGoesOn
<1>5. /\ m.radius >= b.radius /\ m.mass = b.mass + o.mass
      /\ Momentum(m) <= Momentum(b) + Momentum(o)
      /\ Momentum(b) + Momentum(o) - Momentum(m) < m.mass
      /\ (o.mass = 0 => m.pos = b.pos /\ Momentum(m) = Momentum(b))
  BY <1>2, <1>3, <1>4, MergedMoves
<1>6. PICK p \in Int, r \in Int, t \in Int : p = Momentum(b) /\ r = Momentum(o) /\ t = Momentum(m)
  <2>1. m.mass \in Int /\ m.vel \in Int /\ o.mass \in Int /\ b.mass \in Int
    BY <1>2, BodyFields
  <2>2. Momentum(m) \in Int /\ Momentum(b) \in Int /\ Momentum(o) \in Int
    BY <1>2, <2>1, Multiplying DEF Momentum
  <2> QED BY <2>2
<1>7. PICK S, U : S = {i} \cup A /\ U = S \cup {j} /\ U = {i} \cup (A \cup {j})
  <2>1. ({i} \cup A) \cup {j} = {i} \cup (A \cup {j})
    OBVIOUS
  <2> QED BY <2>1
<1>8. IsFiniteSet(S) /\ S \in SUBSET (DOMAIN bs) /\ j \in DOMAIN bs \ S
  <2>1. IsFiniteSet(A \cup {i}) /\ S = A \cup {i}
    BY <1>7, FS_AddElement
  <2> QED BY <1>7, <2>1
<1>9. PICK q \in Int : q = MomentumOver(bs, S)
  BY <1>8, OverAnother
<1>10. MassOver(bs, U) = MassOver(bs, S) + o.mass /\ MomentumOver(bs, U) = q + r
  <2>1. /\ MassOver(bs, S \cup {j}) = MassOver(bs, S) + bs[j].mass
        /\ MomentumOver(bs, S \cup {j}) = MomentumOver(bs, S) + bs[j].mass * bs[j].vel
    BY <1>8, OverAnother
  <2>2. r = bs[j].mass * bs[j].vel
    BY <1>1, <1>6 DEF Momentum
  <2> QED BY <1>1, <1>7, <1>9, <2>1, <2>2
<1>11. PICK c \in Nat : c = Cardinality(A) /\ Cardinality(A \cup {j}) = c + 1
  BY FS_CardinalityType, FS_AddElement
<1>12. /\ b.mass = MassOver(bs, S) /\ Distance(p, q) <= c * b.mass
       /\ b.radius >= a.radius /\ b.mass >= a.mass
       /\ (b.mass = a.mass /\ b.radius = a.radius => b.pos = a.pos /\ p = q)
  BY <1>1, <1>6, <1>7, <1>9, <1>11 DEF Lump
<1>13. Distance(t, q + r) <= (c + 1) * m.mass
  <2>1. PICK x \in Nat, y \in Nat : x = b.mass /\ y = o.mass
    BY <1>2
  <2>2. t <= p + r /\ p + r - t < x + y
    BY <1>5, <1>6, <2>1
  <2>3. Distance(p, q) <= c * x
    BY <1>12, <2>1
  <2>4. Distance(t, q + r) <= (c + 1) * (x + y)
    BY <2>2, <2>3, ErrorsAdd
  <2> QED BY <1>5, <2>1, <2>4
<1>14. m.radius >= a.radius /\ m.mass >= a.mass
  <2>1. m.radius \in Nat
    BY BodyFields
  <2>2. b.radius \in Nat
    BY <1>2, BodyFields
  <2>3. m.radius >= b.radius /\ b.radius >= a.radius
    BY <1>5, <1>12
  <2>4. m.mass = b.mass + o.mass /\ b.mass >= a.mass
    BY <1>5, <1>12
  <2> QED BY <1>2, <2>1, <2>2, <2>3, <2>4, SMTT(30)
<1>15. ASSUME m.mass = a.mass, m.radius = a.radius PROVE m.pos = a.pos /\ t = q + r
  <2>1. o.mass = 0 /\ b.mass = a.mass
    <3>1. m.mass = b.mass + o.mass /\ b.mass >= a.mass
      BY <1>5, <1>12
    <3> QED BY <1>2, <1>15, <3>1
  <2>2. b.radius = a.radius
    <3>1. a.radius >= b.radius /\ b.radius >= a.radius /\ b.radius \in Nat
      BY <1>2, <1>5, <1>12, <1>15, BodyFields
    <3> QED BY <1>2, <3>1
  <2>3. r = 0
    BY <1>2, <1>6, <2>1 DEF Momentum
  <2> QED BY <1>5, <1>6, <1>12, <2>1, <2>2, <2>3
<1>16. m.mass = MassOver(bs, U)
  BY <1>5, <1>10, <1>12
<1> QED BY <1>1, <1>4, <1>6, <1>7, <1>10, <1>11, <1>13, <1>14, <1>15, <1>16 DEF Lump

(***************************************************************************)
(* One round                                                               *)
(***************************************************************************)

\* What body i has absorbed of those up to k that were not gone yet; if it is
\* as it was, none of the others touched it.
Unchanged(b, o) == b.mass = o.mass /\ b.radius = o.radius

LeftAlone(bs, i, k, gone) == \A j \in (i + 1)..k : j \in gone \/ ~ Touch(bs[i], bs[j])

Gathered(bs, i, gone, k, acc, A) ==
  /\ A \subseteq (i + 1)..k /\ A \cap gone = {} /\ acc.gone = gone \cup A
  /\ Lump(bs, acc.body, i, A)
  /\ Unchanged(acc.body, bs[i]) => LeftAlone(bs, i, k, acc.gone)

LEMMA LaterBodies ==
  ASSUME NEW bs \in Seq(BodyType), NEW i \in DOMAIN bs, NEW k \in Nat, k <= Len(bs),
         NEW A, \A x \in A : x \in Nat /\ x > i /\ x <= k
  PROVE  IsFiniteSet(A) /\ A \subseteq DOMAIN bs /\ i \notin A
<1>1. PICK n \in Nat : n = Len(bs) /\ DOMAIN bs = 1..n
  OBVIOUS
<1>2. i \in 1..n /\ k <= n
  BY <1>1
<1>3. A \subseteq 1..n /\ i \notin A
  BY <1>2
<1>4. IsFiniteSet(1..n)
  BY FS_Interval
<1>5. IsFiniteSet(A)
  BY <1>3, <1>4, FS_Subset
<1> QED BY <1>1, <1>3, <1>5

LEMMA GatheredOn ==
  ASSUME NEW bs \in Seq(BodyType), OneMassless(bs), NEW i \in DOMAIN bs, NEW gone, NEW j \in Nat,
         j > i, j <= Len(bs), NEW acc, NEW A, Gathered(bs, i, gone, j - 1, acc, A)
  PROVE  \E B : Gathered(bs, i, gone, j, Absorbing(bs, acc, j), B)
<1>1. i \in Nat /\ j \in DOMAIN bs /\ j - 1 \in Nat /\ j - 1 <= Len(bs)
  OBVIOUS
<1>2. /\ A \subseteq (i + 1)..(j - 1) /\ A \cap gone = {} /\ acc.gone = gone \cup A
      /\ Lump(bs, acc.body, i, A)
      /\ (Unchanged(acc.body, bs[i]) => LeftAlone(bs, i, j - 1, acc.gone))
  BY DEF Gathered
<1>3. IsFiniteSet(A) /\ A \subseteq DOMAIN bs /\ i \notin A
  <2>1. PICK k \in Nat : k = j - 1 /\ k <= Len(bs)
    BY <1>1
  <2>2. \A x \in A : x \in Nat /\ x > i /\ x <= k
    BY <1>1, <1>2, <2>1
  <2> QED BY <2>1, <2>2, LaterBodies
<1>4. A \subseteq (i + 1)..j /\ j \notin A /\ j \in (i + 1)..j
  BY <1>1, <1>2
<1>5. PICK b : b = acc.body
  OBVIOUS
<1>6. CASE j \in acc.gone \/ ~ Touch(b, bs[j])
  <2>1. Absorbing(bs, acc, j) = acc
    BY <1>5, <1>6 DEF Absorbing
  <2>2. ASSUME Unchanged(b, bs[i]) PROVE LeftAlone(bs, i, j, acc.gone)
    <3>1. b.pos = bs[i].pos /\ b.radius = bs[i].radius
      BY <1>2, <1>5, <2>2 DEF Unchanged, Lump
    <3>2. Touch(b, bs[j]) = Touch(bs[i], bs[j])
      BY <3>1 DEF Touch
    <3>3. \A k \in (i + 1)..j : k = j \/ k \in (i + 1)..(j - 1)
      BY <1>1
    <3> QED BY <1>2, <1>5, <1>6, <2>2, <3>2, <3>3 DEF LeftAlone
  <2>3. Gathered(bs, i, gone, j, acc, A)
    BY <1>2, <1>4, <1>5, <2>2 DEF Gathered
  <2> QED BY <2>1, <2>3
<1>7. CASE ~ (j \in acc.gone \/ ~ Touch(b, bs[j]))
  <2>1. PICK m, B, g : m = Merged(b, bs[j]) /\ B = A \cup {j} /\ g = acc.gone \cup {j}
    OBVIOUS
  <2>2. Absorbing(bs, acc, j) = [body |-> m, gone |-> g]
    BY <1>5, <1>7, <2>1 DEF Absorbing
  <2>3. Lump(bs, m, i, B)
    <3>1. j # i
      BY <1>1
    <3> QED BY <1>1, <1>2, <1>3, <1>4, <1>5, <2>1, <3>1, LumpGrows
  <2>4. B \subseteq (i + 1)..j /\ B \cap gone = {} /\ g = gone \cup B
    BY <1>2, <1>4, <1>7, <2>1
  <2>5. ASSUME Unchanged(m, bs[i]) PROVE LeftAlone(bs, i, j, g)
    <3>1. PICK a \in BodyType, o \in BodyType : a = bs[i] /\ o = bs[j]
      BY <1>1
    <3>2. /\ a.mass \in Nat /\ b.mass \in Nat /\ o.mass \in Nat /\ a.radius \in Nat
          /\ b.radius \in Nat /\ b \in BodyType
      BY <1>2, <1>5, BodyFields DEF Lump
    <3>3. b.mass >= a.mass /\ b.radius >= a.radius
      BY <1>2, <1>5, <3>1 DEF Lump
    <3>4. b.mass + o.mass > 0
      <4>1. a.mass > 0 \/ o.mass > 0
        BY <1>1, <3>1, <3>2 DEF OneMassless
      <4> QED BY <3>2, <3>3, <4>1
    <3>5. m.radius >= b.radius /\ m.mass = b.mass + o.mass
      BY <2>1, <3>1, <3>2, <3>4, MergedMoves
    <3>6. m.mass = a.mass /\ m.radius = a.radius
      BY <2>5, <3>1 DEF Unchanged
    <3>7. b.mass = a.mass /\ b.radius = a.radius
      BY <3>2, <3>3, <3>5, <3>6
    <3>8. LeftAlone(bs, i, j - 1, acc.gone)
      BY <1>2, <1>5, <3>1, <3>7 DEF Unchanged
    <3>9. \A k \in (i + 1)..j : k = j \/ k \in (i + 1)..(j - 1)
      BY <1>1
    <3> QED BY <2>1, <3>8, <3>9 DEF LeftAlone
  <2>6. Gathered(bs, i, gone, j, [body |-> m, gone |-> g], B)
    BY <2>3, <2>4, <2>5 DEF Gathered
  <2> QED BY <2>2, <2>6
<1> QED BY <1>6, <1>7

LEMMA AbsorbedGathers ==
  ASSUME NEW bs \in Seq(BodyType), OneMassless(bs), NEW i \in DOMAIN bs,
         NEW gone \in SUBSET (1..Len(bs))
  PROVE  \E A : Gathered(bs, i, gone, Len(bs),
                         AbsorbFold(bs, [body |-> bs[i], gone |-> gone], Indices(i + 1, Len(bs))), A)
<1>1. PICK n \in Nat : n = Len(bs) /\ i \in 1..n
  OBVIOUS
<1>2. PICK S : S = (i + 1)..n
  OBVIOUS
<1>3. PICK seq \in Seq(S) : /\ seq = Indices(i + 1, n) /\ Len(seq) = n - i
                            /\ \A k \in 1..(n - i) : seq[k] = i + k
  <2>1. PICK from \in Nat : from = i + 1 /\ from <= n + 1
    BY <1>1
  <2>2. /\ Indices(from, n) \in Seq(from..n) /\ Len(Indices(from, n)) = n - from + 1
        /\ \A k \in 1..(n - from + 1) : Indices(from, n)[k] = from + k - 1
    BY <2>1, IndicesRange
  <2>3. n - from + 1 = n - i /\ \A k \in 1..(n - i) : from + k - 1 = i + k
    BY <1>1, <2>1
  <2> QED BY <1>2, <2>1, <2>2, <2>3
<1>4. PICK base \in Absorbers(bs, i) : base = [body |-> bs[i], gone |-> gone]
  <2>1. bs[i] \in BodyType
    OBVIOUS
  <2>2. Descends(bs[i], bs[i])
    <3>1. bs[i].mass \in Nat
      BY <2>1, BodyFields
    <3> QED BY <2>1, <3>1 DEF Descends, GoesOn
  <2> QED BY <2>1, <2>2 DEF Absorbers
<1>5. PICK T : T = Absorbers(bs, i)
  OBVIOUS
<1>6. \A e \in S : \A t \in T : Absorbing(bs, t, e) \in T
  BY <1>1, <1>2, <1>5, AbsorbingGoesOn
<1>7. PICK G : AbsorbWalk(bs, T, base, seq, G) /\ AbsorbFold(bs, base, seq) = G[Len(seq)]
  BY <1>4, <1>5, <1>6, AbsorbWalks
<1>8. PICK m \in Nat : m = n - i
  BY <1>1
<1>9. G[0] = base /\ \A k \in 1..m : G[k] = Absorbing(bs, G[k - 1], i + k)
  BY <1>3, <1>7, <1>8 DEF AbsorbWalk
<1> DEFINE P == {k \in 0..m : \E A : Gathered(bs, i, gone, i + k, G[k], A)}
<1>10. 0 \in P
  <2>1. Gathered(bs, i, gone, i + 0, base, {})
    <3>1. Lump(bs, base.body, i, {})
      BY <1>4, BodyIsLump
    <3>2. LeftAlone(bs, i, i + 0, base.gone)
      BY <1>1 DEF LeftAlone
    <3>3. {} \subseteq (i + 1)..(i + 0) /\ {} \cap gone = {} /\ base.gone = gone \cup {}
      BY <1>4
    <3> QED BY <3>1, <3>2, <3>3 DEF Gathered
  <2> QED BY <1>9, <2>1
<1>11. ASSUME NEW k \in 1..m, k - 1 \in P PROVE k \in P
  <2>1. PICK acc : acc = G[k - 1]
    OBVIOUS
  <2>2. PICK j \in Nat : j = i + k /\ j > i /\ j <= Len(bs) /\ j - 1 = i + (k - 1)
    <3>1. /\ i + k \in Nat /\ i + k > i /\ i + k <= n /\ (i + k) - 1 = i + (k - 1)
      BY <1>1, <1>8
    <3> QED BY <1>1, <3>1
  <2>3. PICK A : Gathered(bs, i, gone, i + (k - 1), acc, A)
    BY <1>11, <2>1
  <2>4. Gathered(bs, i, gone, j - 1, acc, A)
    BY <2>2, <2>3
  <2>5. \E B : Gathered(bs, i, gone, j, Absorbing(bs, acc, j), B)
    BY <2>2, <2>4, GatheredOn
  <2>6. G[k] = Absorbing(bs, acc, j) /\ k \in 0..m
    BY <1>9, <2>1, <2>2
  <2> QED BY <2>2, <2>5, <2>6
<1>12. \A k \in 0..m : k \in P
  <2> HIDE DEF P
  <2> QED BY <1>10, <1>11, Upwards
<1>13. \E A : Gathered(bs, i, gone, n, G[m], A)
  <2>1. m \in P /\ i + m = n
    BY <1>1, <1>8, <1>12
  <2> QED BY <2>1
<1> QED BY <1>1, <1>3, <1>4, <1>7, <1>8, <1>13

(***************************************************************************)
(* All rounds                                                              *)
(***************************************************************************)

\* One body more.
LEMMA SumAppended ==
  ASSUME NEW n \in Nat, NEW f, NEW g, DOMAIN f = 1..n, DOMAIN g = 1..(n + 1),
         \A k \in 1..n : f[k] = g[k], \A k \in 1..(n + 1) : g[k] \in Int
  PROVE  SumFunction(f) \in Int /\ SumFunction(g) = SumFunction(f) + g[n + 1]
<1>1. PICK S, e : S = 1..n /\ e = n + 1
  OBVIOUS
<1>2. IsFiniteSet(S)
  BY <1>1, FS_Interval
<1>3. e \notin S /\ S \cup {e} = 1..(n + 1)
  BY <1>1
<1>4. \A x \in S : f[x] = g[x]
  BY <1>1
<1>5. \A x \in S \cup {e} : g[x] \in Int
  BY <1>3
<1>6. \A x \in S : f[x] \in Int
  BY <1>4, <1>5
<1>7. SumFunctionOnSet(g, S \cup {e}) = SumFunctionOnSet(g, S) + g[e]
  BY <1>2, <1>3, <1>5, SumPutIn
<1>8. SumFunctionOnSet(f, S) = SumFunctionOnSet(g, S)
  BY <1>2, <1>4, SumSame
<1>9. SumFunctionOnSet(f, S) \in Int
  BY <1>2, <1>6, SumInt
<1>10. SumFunction(f) = SumFunctionOnSet(f, S) /\ SumFunction(g) = SumFunctionOnSet(g, S \cup {e})
  BY <1>1, <1>3 DEF SumFunction
<1> QED BY <1>1, <1>7, <1>8, <1>9, <1>10

GrownMass(b, before) == IF Grew(b, before) THEN b.mass ELSE 0

AllMass(out) == SumFunction(Masses(out))
AllMomentum(out) == SumFunction(Momenta(out))
AllGrown(out, before) == SumFunction(GrownMasses(out, before))

LEMMA AllAppended ==
  ASSUME NEW out \in Seq(BodyType), NEW b \in BodyType, NEW before
  PROVE  /\ AllMass(out) \in Int /\ AllMass(Append(out, b)) = AllMass(out) + b.mass
         /\ AllMomentum(out) \in Int /\ AllMomentum(Append(out, b)) = AllMomentum(out) + Momentum(b)
         /\ AllGrown(out, before) \in Int
         /\ AllGrown(Append(out, b), before) = AllGrown(out, before) + GrownMass(b, before)
<1>1. PICK n \in Nat : n = Len(out) /\ DOMAIN out = 1..n
  OBVIOUS
<1>2. PICK longer \in Seq(BodyType) : longer = Append(out, b)
  <2>1. PICK T : T = BodyType
    OBVIOUS
  <2>2. Append(out, b) \in Seq(T)
    BY <2>1
  <2> QED BY <2>1, <2>2
<1>3. DOMAIN longer = 1..(n + 1) /\ longer[n + 1] = b /\ \A k \in 1..n : longer[k] = out[k]
  BY <1>1, <1>2
<1>4. ASSUME NEW k \in 1..(n + 1)
      PROVE  longer[k].mass \in Int /\ Momentum(longer[k]) \in Int /\ GrownMass(longer[k], before) \in Int
  <2>1. PICK c \in BodyType : c = longer[k]
    BY <1>3
  <2>2. c.mass \in Int /\ c.vel \in Int
    BY BodyFields
  <2>3. Momentum(c) \in Int
    BY <2>2, Multiplying DEF Momentum
  <2> QED BY <2>1, <2>2, <2>3 DEF GrownMass
<1>5. AllMass(out) \in Int /\ AllMass(longer) = AllMass(out) + b.mass
  <2>1. PICK f, g : f = Masses(out) /\ g = Masses(longer)
    OBVIOUS
  <2>2. DOMAIN f = 1..n /\ DOMAIN g = 1..(n + 1)
    BY <1>1, <1>3, <2>1 DEF Masses
  <2>3. (\A k \in 1..n : f[k] = out[k].mass) /\ (\A k \in 1..(n + 1) : g[k] = longer[k].mass)
    BY <1>1, <1>3, <2>1 DEF Masses
  <2>4. (\A k \in 1..n : f[k] = g[k]) /\ g[n + 1] = b.mass
    BY <1>3, <2>3
  <2>5. \A k \in 1..(n + 1) : g[k] \in Int
    BY <1>4, <2>3
  <2>6. SumFunction(f) \in Int /\ SumFunction(g) = SumFunction(f) + g[n + 1]
    BY <2>2, <2>4, <2>5, SumAppended
  <2> QED BY <2>1, <2>4, <2>6 DEF AllMass
<1>6. AllMomentum(out) \in Int /\ AllMomentum(longer) = AllMomentum(out) + Momentum(b)
  <2>1. PICK f, g : f = Momenta(out) /\ g = Momenta(longer)
    OBVIOUS
  <2>2. DOMAIN f = 1..n /\ DOMAIN g = 1..(n + 1)
    BY <1>1, <1>3, <2>1 DEF Momenta
  <2>3. (\A k \in 1..n : f[k] = Momentum(out[k])) /\ (\A k \in 1..(n + 1) : g[k] = Momentum(longer[k]))
    BY <1>1, <1>3, <2>1 DEF Momenta, Momentum
  <2>4. (\A k \in 1..n : f[k] = g[k]) /\ g[n + 1] = Momentum(b)
    BY <1>3, <2>3
  <2>5. \A k \in 1..(n + 1) : g[k] \in Int
    BY <1>4, <2>3
  <2>6. SumFunction(f) \in Int /\ SumFunction(g) = SumFunction(f) + g[n + 1]
    BY <2>2, <2>4, <2>5, SumAppended
  <2> QED BY <2>1, <2>4, <2>6 DEF AllMomentum
<1>7. /\ AllGrown(out, before) \in Int
      /\ AllGrown(longer, before) = AllGrown(out, before) + GrownMass(b, before)
  <2>1. PICK f, g : f = GrownMasses(out, before) /\ g = GrownMasses(longer, before)
    OBVIOUS
  <2>2. DOMAIN f = 1..n /\ DOMAIN g = 1..(n + 1)
    BY <1>1, <1>3, <2>1 DEF GrownMasses
  <2>3. /\ \A k \in 1..n : f[k] = GrownMass(out[k], before)
        /\ \A k \in 1..(n + 1) : g[k] = GrownMass(longer[k], before)
    BY <1>1, <1>3, <2>1 DEF GrownMasses, GrownMass
  <2>4. (\A k \in 1..n : f[k] = g[k]) /\ g[n + 1] = GrownMass(b, before)
    BY <1>3, <2>3
  <2>5. \A k \in 1..(n + 1) : g[k] \in Int
    BY <1>4, <2>3
  <2>6. SumFunction(f) \in Int /\ SumFunction(g) = SumFunction(f) + g[n + 1]
    BY <2>2, <2>4, <2>5, SumAppended
  <2> QED BY <2>1, <2>4, <2>6 DEF AllGrown
<1> QED BY <1>2, <1>5, <1>6, <1>7

LEMMA AllOfNone ==
  ASSUME NEW before
  PROVE  AllMass(<<>>) = 0 /\ AllMomentum(<<>>) = 0 /\ AllGrown(<<>>, before) = 0
<1>1. \A f : DOMAIN f = {} => SumFunction(f) = 0
  BY SumEmpty DEF SumFunction
<1>2. DOMAIN Masses(<<>>) = {} /\ DOMAIN Momenta(<<>>) = {} /\ DOMAIN GrownMasses(<<>>, before) = {}
  BY DEF Masses, Momenta, GrownMasses
<1> QED BY <1>1, <1>2 DEF AllMass, AllMomentum, AllGrown

\* Every body up to i is either one of those left or in one of them.  Together
\* they are as heavy and, but for what the grown ones lost in rounding, as fast
\* as the bodies they were; one that did not grow is where it was, and none of
\* those after it that are still there touches it.
Cov(i, gone) == (1..i) \cup gone

Balanced(bs, i, out, gone) ==
  /\ AllMass(out) = MassOver(bs, Cov(i, gone))
  /\ Distance(AllMomentum(out), MomentumOver(bs, Cov(i, gone)))
       <= Cardinality(gone) * AllGrown(out, bs)
  /\ Len(out) + Cardinality(gone) = Cardinality(Cov(i, gone))
  /\ AllGrown(out, bs) >= 0

Untouched(bs, out, gone, w) ==
  \A k \in 1..Len(out) :
    /\ w[k] \notin gone
    /\ Unchanged(out[k], bs[w[k]]) =>
         out[k].pos = bs[w[k]].pos /\ LeftAlone(bs, w[k], Len(bs), gone)

Leaves(bs, i, acc, w) ==
  /\ acc \in Accumulators(bs)
  /\ DescendFrom(bs, i, acc.out, w)
  /\ Balanced(bs, i, acc.out, acc.gone)
  /\ Untouched(bs, acc.out, acc.gone, w)

\* One more is left of the rounds, and with it those it gathered are gone.
LEMMA BalancedOn ==
  ASSUME NEW bs \in Seq(BodyType), NEW i \in DOMAIN bs, NEW out \in Seq(BodyType),
         NEW gone \in SUBSET (DOMAIN bs), i \notin gone, Balanced(bs, i - 1, out, gone),
         NEW b, b.id = bs[i].id, NEW A, A \subseteq (i + 1)..Len(bs), A \cap gone = {},
         Lump(bs, b, i, A)
  PROVE  Balanced(bs, i, Append(out, b), gone \cup A)
<1>1. PICK n \in Nat : n = Len(bs) /\ DOMAIN bs = 1..n /\ i \in 1..n /\ i \in Nat
  OBVIOUS
<1>2. IsFiniteSet(gone) /\ IsFiniteSet(A) /\ A \subseteq DOMAIN bs /\ i \notin A
  <2>1. IsFiniteSet(1..n)
    BY FS_Interval
  <2>2. A \subseteq 1..n /\ i \notin A
    BY <1>1
  <2>3. PICK D : D = 1..n
    OBVIOUS
  <2>4. IsFiniteSet(gone) /\ IsFiniteSet(A)
    BY <1>1, <2>1, <2>2, <2>3, FS_Subset
  <2> QED BY <1>1, <2>2, <2>4
<1>3. PICK C, R : C = Cov(i - 1, gone) /\ R = {i} \cup A
  OBVIOUS
<1>4. Cov(i, gone \cup A) = C \cup R
  <2>1. 1..i = (1..(i - 1)) \cup {i}
    BY <1>1
  <2> QED BY <1>3, <2>1 DEF Cov
<1>5. C \in SUBSET (DOMAIN bs) /\ R \in SUBSET (DOMAIN bs) /\ C \cap R = {}
  <2>1. 1..(i - 1) \subseteq 1..n /\ i \notin 1..(i - 1) /\ A \cap (1..(i - 1)) = {}
    BY <1>1
  <2> QED BY <1>1, <1>2, <1>3, <2>1 DEF Cov
<1>6. IsFiniteSet(C) /\ IsFiniteSet(R) /\ Cardinality(R) = Cardinality(A) + 1
  <2>1. PICK j \in Nat : j = i - 1
    <3>1. i - 1 \in Nat
      BY <1>1
    <3> QED BY <3>1
  <2>2. IsFiniteSet(1..j)
    BY FS_Interval
  <2>3. PICK D : D = 1..j
    OBVIOUS
  <2>4. IsFiniteSet(D \cup gone)
    BY <1>2, <2>2, <2>3, FS_Union
  <2>5. IsFiniteSet(C)
    BY <1>3, <2>1, <2>3, <2>4 DEF Cov
  <2>6. R = A \cup {i}
    BY <1>3
  <2>7. IsFiniteSet(R) /\ Cardinality(R) = Cardinality(A) + 1
    BY <1>2, <2>6, FS_AddElement
  <2> QED BY <2>5, <2>7
<1>7. PICK c \in Nat, a \in Nat, d \in Nat :
        c = Cardinality(gone) /\ a = Cardinality(A) /\ d = Cardinality(C)
  BY <1>2, <1>6, FS_CardinalityType
<1>8. Cardinality(gone \cup A) = c + a
  <2>1. gone \cap A = {} /\ Cardinality({}) = 0
    BY FS_EmptySet
  <2>2. Cardinality(gone \cap A) = 0
    <3>1. PICK E : E = gone \cap A
      OBVIOUS
    <3> QED BY <2>1, <3>1
  <2>3. Cardinality(gone \cup A) = Cardinality(gone) + Cardinality(A) - Cardinality(gone \cap A)
    BY <1>2, FS_Union
  <2> QED BY <1>7, <2>2, <2>3
<1>9. Cardinality(C \cup R) = d + a + 1
  <2>1. Cardinality(C \cap R) = 0
    BY <1>5, FS_EmptySet
  <2>2. Cardinality(C \cup R) = Cardinality(C) + Cardinality(R) - Cardinality(C \cap R)
    BY <1>6, FS_Union
  <2> QED BY <1>6, <1>7, <2>1, <2>2
<1>10. /\ MassOver(bs, C \cup R) = MassOver(bs, C) + MassOver(bs, R)
       /\ MomentumOver(bs, C \cup R) = MomentumOver(bs, C) + MomentumOver(bs, R)
       /\ MomentumOver(bs, C) \in Int /\ MomentumOver(bs, R) \in Int
  <2>1. PICK f, g : f = Masses(bs) /\ g = Momenta(bs)
    OBVIOUS
  <2>2. \A x \in DOMAIN bs : f[x] \in Int /\ g[x] \in Int
    <3> SUFFICES ASSUME NEW x \in DOMAIN bs PROVE f[x] \in Int /\ g[x] \in Int
      OBVIOUS
    <3>1. PICK o \in BodyType : o = bs[x]
      OBVIOUS
    <3>2. f[x] = o.mass /\ g[x] = o.mass * o.vel
      BY <2>1, <3>1 DEF Masses, Momenta
    <3>3. o.mass \in Int /\ o.vel \in Int
      BY BodyFields
    <3> QED BY <3>2, <3>3, Multiplying
  <2>3. \A x \in C \cup R : f[x] \in Int /\ g[x] \in Int
    BY <1>5, <2>2
  <2>4. /\ SumFunctionOnSet(f, C \cup R) = SumFunctionOnSet(f, C) + SumFunctionOnSet(f, R)
        /\ SumFunctionOnSet(g, C \cup R) = SumFunctionOnSet(g, C) + SumFunctionOnSet(g, R)
    BY <1>5, <1>6, <2>3, SumApart
  <2>5. SumFunctionOnSet(g, C) \in Int /\ SumFunctionOnSet(g, R) \in Int
    BY <1>6, <2>3, SumInt
  <2> QED BY <2>1, <2>4, <2>5 DEF MassOver, MomentumOver
<1>11. PICK longer, all : longer = Append(out, b) /\ all = gone \cup A
  OBVIOUS
<1>12. /\ AllMass(out) \in Int /\ AllMass(longer) = AllMass(out) + b.mass
       /\ AllMomentum(out) \in Int /\ AllMomentum(longer) = AllMomentum(out) + Momentum(b)
       /\ AllGrown(out, bs) \in Int
       /\ AllGrown(longer, bs) = AllGrown(out, bs) + GrownMass(b, bs)
  BY <1>11, AllAppended DEF Lump
<1>13. Len(longer) = Len(out) + 1 /\ Len(out) \in Nat
  BY <1>11
<1>14. /\ AllMass(out) = MassOver(bs, C) /\ Len(out) + c = d /\ AllGrown(out, bs) >= 0
       /\ Distance(AllMomentum(out), MomentumOver(bs, C)) <= c * AllGrown(out, bs)
  BY <1>3, <1>7 DEF Balanced
<1>15. b.mass = MassOver(bs, R) /\ Distance(Momentum(b), MomentumOver(bs, R)) <= a * b.mass
  BY <1>3, <1>7 DEF Lump
<1>16. b.mass \in Nat /\ Momentum(b) \in Int
  <2>1. b.mass \in Nat /\ b.mass \in Int /\ b.vel \in Int
    BY BodyFields DEF Lump
  <2> QED BY <2>1, Multiplying DEF Momentum
<1>17. /\ GrownMass(b, bs) \in Nat
       /\ Distance(Momentum(b), MomentumOver(bs, R)) <= a * GrownMass(b, bs)
  <2>1. CASE Grew(b, bs)
    BY <1>15, <1>16, <2>1 DEF GrownMass
  <2>2. CASE ~ Grew(b, bs)
    <3>1. bs[i] \in ToSet(bs)
      BY DEF ToSet
    <3>2. Unchanged(b, bs[i])
      BY <2>2, <3>1 DEF Grew, Unchanged
    <3>3. Momentum(b) = MomentumOver(bs, R)
      BY <1>3, <3>2 DEF Lump, Unchanged
    <3>4. Distance(Momentum(b), MomentumOver(bs, R)) = 0
      BY <1>16, <3>3 DEF Distance
    <3>5. GrownMass(b, bs) = 0
      BY <2>2 DEF GrownMass
    <3> QED BY <3>4, <3>5
  <2> QED BY <2>1, <2>2
<1>18. PICK x \in Int, y \in Int, p \in Int, q \in Int, g \in Nat, h \in Nat :
         /\ x = AllMomentum(out) /\ y = MomentumOver(bs, C) /\ p = Momentum(b)
         /\ q = MomentumOver(bs, R) /\ g = AllGrown(out, bs) /\ h = GrownMass(b, bs)
  <2>1. AllGrown(out, bs) \in Nat
    BY <1>12, <1>14
  <2>2. AllMomentum(out) \in Int /\ MomentumOver(bs, C) \in Int /\ Momentum(b) \in Int
          /\ MomentumOver(bs, R) \in Int /\ GrownMass(b, bs) \in Nat
    BY <1>10, <1>12, <1>16, <1>17
  <2> QED BY <2>1, <2>2
<1>19. Distance(x + p, y + q) <= (c + a) * (g + h)
  <2>1. Distance(x, y) <= c * g /\ Distance(p, q) <= a * h
    BY <1>14, <1>17, <1>18
  <2>2. PICK s \in Nat, t \in Nat, u \in Nat, v \in Nat : s = c * g /\ t = a * h /\ u = c * h /\ v = a * g
    BY Multiplying
  <2>3. (c + a) * (g + h) = s + u + v + t
    BY <2>2
  <2> QED BY <2>1, <2>2, <2>3 DEF Distance
<1>20. AllMass(longer) = MassOver(bs, C \cup R)
  BY <1>10, <1>12, <1>14, <1>15
<1>21. AllGrown(longer, bs) = g + h /\ AllMomentum(longer) = x + p
        /\ MomentumOver(bs, C \cup R) = y + q
  BY <1>10, <1>12, <1>18
<1>22. Len(longer) + (c + a) = d + a + 1
  <2>1. Len(out) + c = d
    BY <1>14
  <2> QED BY <1>13, <2>1, SMTT(30)
<1>23. Cov(i, all) = C \cup R /\ Cardinality(all) = c + a
  BY <1>4, <1>8, <1>11
<1>24. /\ AllMass(longer) = MassOver(bs, Cov(i, all))
       /\ Len(longer) + Cardinality(all) = Cardinality(Cov(i, all))
       /\ AllGrown(longer, bs) >= 0
  BY <1>9, <1>20, <1>21, <1>22, <1>23
<1>25. Distance(AllMomentum(longer), MomentumOver(bs, Cov(i, all)))
         <= Cardinality(all) * AllGrown(longer, bs)
  BY <1>19, <1>21, <1>23
<1> QED BY <1>11, <1>24, <1>25 DEF Balanced

LEMMA RoundLeaves ==
  ASSUME NEW bs \in Seq(BodyType), OneMassless(bs), NEW i \in DOMAIN bs, NEW acc, NEW w,
         Leaves(bs, i - 1, acc, w)
  PROVE  \E x : Leaves(bs, i, Rounded(bs, acc, i), x)
<1>1. PICK n \in Nat : n = Len(bs) /\ DOMAIN bs = 1..n /\ i \in 1..n /\ i \in Nat /\ i > 0
  OBVIOUS
<1>2. acc \in Accumulators(bs) /\ i \in 1..Len(bs)
  BY <1>1 DEF Leaves
<1>3. PICK out \in Seq(BodyType), gone \in SUBSET (1..Len(bs)) : out = acc.out /\ gone = acc.gone
  BY <1>2 DEF Accumulators
<1>4. /\ DescendFrom(bs, i - 1, out, w) /\ Balanced(bs, i - 1, out, gone)
      /\ Untouched(bs, out, gone, w)
  BY <1>3 DEF Leaves
<1>5. PICK m \in Nat : m = Len(out)
  BY <1>3
<1>6. \A k \in 1..m : w[k] \in 1..(i - 1)
  BY <1>4, <1>5 DEF DescendFrom
<1>7. Rounded(bs, acc, i) \in Accumulators(bs)
  BY <1>2, RoundStays
<1>8. CASE i \in gone
  <2>1. Rounded(bs, acc, i) = acc
    BY <1>3, <1>8 DEF Rounded
  <2>2. DescendFrom(bs, i, out, w)
    BY <1>1, <1>4, DescendOn
  <2>3. Cov(i, gone) = Cov(i - 1, gone)
    <3>1. 1..i = (1..(i - 1)) \cup {i}
      BY <1>1
    <3> QED BY <1>8, <3>1 DEF Cov
  <2>4. Balanced(bs, i, out, gone)
    BY <1>4, <2>3 DEF Balanced
  <2>5. Leaves(bs, i, acc, w)
    BY <1>2, <1>3, <1>4, <2>2, <2>4 DEF Leaves
  <2> QED BY <2>1, <2>5
<1>9. CASE i \notin gone
  <2>1. PICK grown : grown = AbsorbFold(bs, [body |-> bs[i], gone |-> gone], Indices(i + 1, Len(bs)))
    OBVIOUS
  <2>2. PICK A : Gathered(bs, i, gone, Len(bs), grown, A)
    BY <2>1, AbsorbedGathers
  <2>3. grown \in Absorbers(bs, i)
    BY <2>1, AbsorbedGoesOn
  <2>4. PICK b \in BodyType : b = grown.body /\ Descends(b, bs[i])
    BY <2>3 DEF Absorbers
  <2>5. /\ A \subseteq (i + 1)..Len(bs) /\ A \cap gone = {} /\ grown.gone = gone \cup A
        /\ Lump(bs, b, i, A)
        /\ (Unchanged(b, bs[i]) => LeftAlone(bs, i, Len(bs), gone \cup A))
    BY <2>2, <2>4 DEF Gathered
  <2>6. PICK longer, all : longer = Append(out, b) /\ all = gone \cup A
    OBVIOUS
  <2>7. Rounded(bs, acc, i) = [out |-> longer, gone |-> all]
    BY <1>3, <1>9, <2>1, <2>4, <2>5, <2>6 DEF Rounded
  <2>8. PICK x : x = WithOneMore(w, m, i)
    OBVIOUS
  <2>9. DescendFrom(bs, i, longer, x)
    BY <1>1, <1>4, <1>5, <2>4, <2>6, <2>8, DescendOn
  <2>10. Balanced(bs, i, longer, all)
    <3>1. b.id = bs[i].id
      BY <2>4 DEF Descends, GoesOn
    <3>2. gone \in SUBSET (DOMAIN bs)
      BY <1>1
    <3> QED BY <1>4, <1>9, <2>5, <2>6, <3>1, <3>2, BalancedOn
  <2>11. Untouched(bs, longer, all, x)
    <3>1. Len(longer) = m + 1 /\ longer[m + 1] = b /\ \A k \in 1..m : longer[k] = out[k]
      BY <1>5, <2>6
    <3>2. x[m + 1] = i /\ \A k \in 1..m : x[k] = w[k]
      BY <2>8 DEF WithOneMore
    <3>3. ASSUME NEW k \in 1..m
          PROVE  /\ x[k] \notin all
                 /\ Unchanged(longer[k], bs[x[k]]) =>
                      longer[k].pos = bs[x[k]].pos /\ LeftAlone(bs, x[k], Len(bs), all)
      <4>1. w[k] \notin gone /\ (Unchanged(out[k], bs[w[k]]) =>
              out[k].pos = bs[w[k]].pos /\ LeftAlone(bs, w[k], Len(bs), gone))
        BY <1>4, <1>5 DEF Untouched
      <4>2. w[k] \notin A
        BY <1>1, <1>6, <2>5
      <4> QED BY <2>6, <3>1, <3>2, <4>1, <4>2 DEF LeftAlone
    <3>4. i \notin all
      BY <1>1, <1>9, <2>5, <2>6
    <3>5. Unchanged(b, bs[i]) => b.pos = bs[i].pos /\ LeftAlone(bs, i, Len(bs), all)
      BY <2>5, <2>6 DEF Lump, Unchanged
    <3>6. \A k \in 1..(m + 1) : k \in 1..m \/ k = m + 1
      OBVIOUS
    <3>7. ASSUME NEW k \in 1..(m + 1)
          PROVE  /\ x[k] \notin all
                 /\ Unchanged(longer[k], bs[x[k]]) =>
                      longer[k].pos = bs[x[k]].pos /\ LeftAlone(bs, x[k], Len(bs), all)
      <4>1. CASE k \in 1..m
        BY <3>3, <4>1
      <4>2. CASE k = m + 1
        BY <3>1, <3>2, <3>4, <3>5, <4>2
      <4> QED BY <3>6, <4>1, <4>2
    <3> QED BY <3>1, <3>7 DEF Untouched
  <2>12. Leaves(bs, i, [out |-> longer, gone |-> all], x)
    BY <1>7, <2>7, <2>9, <2>10, <2>11 DEF Leaves
  <2> QED BY <2>7, <2>12
<1> QED BY <1>8, <1>9

LEMMA NothingLeaves ==
  ASSUME NEW bs \in Seq(BodyType)
  PROVE  Leaves(bs, 0, [out |-> <<>>, gone |-> {}], <<>>)
<1>1. PICK out, gone : out = <<>> /\ gone = {}
  OBVIOUS
<1>2. PICK T : T = BodyType
  OBVIOUS
<1>3. out \in Seq(T) /\ Len(out) = 0 /\ gone \in SUBSET (1..Len(bs))
  BY <1>1
<1>4. [out |-> out, gone |-> gone] \in Accumulators(bs)
  BY <1>2, <1>3 DEF Accumulators
<1>5. DescendFrom(bs, 0, <<>>, <<>>)
  BY DEF DescendFrom
<1>6. Cov(0, gone) = {} /\ Cardinality(gone) = 0
  BY <1>1, FS_EmptySet DEF Cov
<1>7. MassOver(bs, {}) = 0 /\ MomentumOver(bs, {}) = 0 /\ Cardinality({}) = 0
  BY SumEmpty, FS_EmptySet DEF MassOver, MomentumOver
<1>8. AllMass(out) = 0 /\ AllMomentum(out) = 0 /\ AllGrown(out, bs) = 0
  BY <1>1, AllOfNone
<1>9. /\ AllMass(out) = MassOver(bs, Cov(0, gone)) /\ AllGrown(out, bs) >= 0
      /\ Len(out) + Cardinality(gone) = Cardinality(Cov(0, gone))
  <2>1. MassOver(bs, Cov(0, gone)) = 0
    BY <1>6, <1>7
  <2>2. Cardinality(Cov(0, gone)) = 0
    BY <1>6, <1>7
  <2>3. Len(out) = 0
    BY <1>3
  <2>4. Len(out) + Cardinality(gone) = 0
    BY <1>6, <2>3
  <2> QED BY <1>8, <2>1, <2>2, <2>4
<1>10. Balanced(bs, 0, out, gone)
  <2>1. Distance(0, 0) = 0 /\ 0 * 0 = 0
    BY DEF Distance
  <2>2. Distance(AllMomentum(out), MomentumOver(bs, Cov(0, gone)))
          <= Cardinality(gone) * AllGrown(out, bs)
    BY <1>6, <1>7, <1>8, <2>1
  <2> QED BY <1>9, <2>2 DEF Balanced
<1>11. Untouched(bs, out, gone, <<>>)
  BY <1>3 DEF Untouched
<1> QED BY <1>1, <1>4, <1>5, <1>10, <1>11 DEF Leaves

LEMMA ResolvedLeaves ==
  ASSUME NEW bs \in Seq(BodyType), OneMassless(bs)
  PROVE  \E gone, w : Leaves(bs, Len(bs), [out |-> ResolvedBodies(bs), gone |-> gone], w)
<1>1. PICK n \in Nat : n = Len(bs) /\ DOMAIN bs = 1..n
  OBVIOUS
<1>2. PICK S : S = 1..n
  OBVIOUS
<1>3. PICK seq \in Seq(S) : seq = Indices(1, n) /\ Len(seq) = n /\ \A k \in 1..n : seq[k] = k
  BY <1>2, IndicesUpTo
<1>4. PICK T : T = Accumulators(bs)
  OBVIOUS
<1>5. PICK base \in T : base = [out |-> <<>>, gone |-> {}]
  BY <1>4, NothingLeaves DEF Leaves
<1>6. \A e \in S : \A t \in T : Rounded(bs, t, e) \in T
  BY <1>1, <1>2, <1>4, RoundStays
<1>7. PICK G : RoundWalk(bs, T, base, seq, G) /\ RoundFold(bs, base, seq) = G[Len(seq)]
  BY <1>6, RoundWalks
<1>8. G \in [0..n -> T] /\ G[0] = base /\ \A i \in 1..n : G[i] = Rounded(bs, G[i - 1], i)
  BY <1>3, <1>7 DEF RoundWalk
<1> DEFINE P == {i \in 0..n : \E w : Leaves(bs, i, G[i], w)}
<1>9. 0 \in P
  <2>1. Leaves(bs, 0, base, <<>>)
    BY <1>5, NothingLeaves
  <2>2. \E w : Leaves(bs, 0, base, w)
    BY <2>1
  <2> QED BY <1>8, <2>2
<1>10. ASSUME NEW i \in 1..n, i - 1 \in P PROVE i \in P
  <2>1. PICK acc : acc = G[i - 1]
    OBVIOUS
  <2>2. PICK w : Leaves(bs, i - 1, acc, w)
    BY <1>10, <2>1
  <2>3. i \in DOMAIN bs /\ G[i] = Rounded(bs, acc, i) /\ i \in 0..n
    BY <1>1, <1>8, <2>1
  <2>4. \E x : Leaves(bs, i, Rounded(bs, acc, i), x)
    BY <2>2, <2>3, RoundLeaves
  <2> QED BY <2>3, <2>4
<1>11. \A i \in 0..n : i \in P
  <2> HIDE DEF P
  <2> QED BY <1>9, <1>10, Upwards
<1>12. PICK w : Leaves(bs, n, G[n], w)
  <2>1. n \in 0..n
    OBVIOUS
  <2> QED BY <1>11, <2>1
<1>13. ResolvedBodies(bs) = G[n].out
  BY <1>1, <1>3, <1>5, <1>7, CollisionsAreFolds
<1>14. G[n] = [out |-> ResolvedBodies(bs), gone |-> G[n].gone]
  BY <1>12, <1>13 DEF Leaves, Accumulators
<1> QED BY <1>1, <1>12, <1>14

LEMMA ResolvedConserves ==
  ASSUME NEW bs \in Seq(BodyType), OneMassless(bs)
  PROVE  Conserved(bs, ResolvedBodies(bs)) /\ Parted(bs, ResolvedBodies(bs))
<1>1. PICK out : out = ResolvedBodies(bs)
  OBVIOUS
<1>2. PICK gone, w : Leaves(bs, Len(bs), [out |-> out, gone |-> gone], w)
  BY <1>1, ResolvedLeaves
<1>3. PICK n \in Nat : n = Len(bs) /\ DOMAIN bs = 1..n
  OBVIOUS
<1>4. /\ out \in Seq(BodyType) /\ gone \subseteq 1..n /\ DescendFrom(bs, n, out, w)
      /\ Balanced(bs, n, out, gone) /\ Untouched(bs, out, gone, w)
  <2>1. PICK acc : acc = [out |-> out, gone |-> gone]
    OBVIOUS
  <2>2. acc.out = out /\ acc.gone = gone
    BY <2>1
  <2>3. out \in Seq(BodyType) /\ gone \in SUBSET (1..Len(bs))
    BY <1>2, <2>1, <2>2 DEF Leaves, Accumulators
  <2> QED BY <1>2, <1>3, <2>1, <2>2, <2>3 DEF Leaves
<1>5. PICK m \in Nat : m = Len(out) /\ DOMAIN out = 1..m
  BY <1>4
<1>6. Cov(n, gone) = 1..n
  BY <1>4 DEF Cov
<1>7. MassOver(bs, 1..n) = AllMass(bs) /\ MomentumOver(bs, 1..n) = AllMomentum(bs)
  <2>1. DOMAIN Masses(bs) = 1..n /\ DOMAIN Momenta(bs) = 1..n
    BY <1>3 DEF Masses, Momenta
  <2> QED BY <2>1 DEF MassOver, MomentumOver, AllMass, AllMomentum, SumFunction
<1>8. Cardinality(gone) = n - m
  <2>1. Cardinality(1..n) = n
    BY FS_Interval
  <2>2. IsFiniteSet(1..n)
    BY FS_Interval
  <2>3. PICK D : D = 1..n
    OBVIOUS
  <2>4. IsFiniteSet(gone)
    BY <1>4, <2>2, <2>3, FS_Subset
  <2>5. Cardinality(gone) \in Nat
    BY <2>4, FS_CardinalityType
  <2>6. m + Cardinality(gone) = n
    BY <1>4, <1>5, <1>6, <2>1 DEF Balanced
  <2> QED BY <2>5, <2>6
<1>9. AllMass(out) = AllMass(bs)
  BY <1>4, <1>6, <1>7 DEF Balanced
<1>10. Distance(AllMomentum(out), AllMomentum(bs)) <= (n - m) * AllGrown(out, bs)
  BY <1>4, <1>6, <1>7, <1>8 DEF Balanced
<1>11. Conserved(bs, out)
  BY <1>3, <1>5, <1>9, <1>10 DEF Conserved, AllMass, AllMomentum, AllGrown
<1>12. ASSUME NEW k \in 1..m, ~ Grew(out[k], bs)
       PROVE  /\ w[k] \in 1..n /\ w[k] \notin gone
              /\ out[k].pos = bs[w[k]].pos /\ out[k].radius = bs[w[k]].radius
              /\ LeftAlone(bs, w[k], n, gone)
  <2>1. w[k] \in 1..n /\ out[k].id = bs[w[k]].id
    BY <1>4, <1>5 DEF DescendFrom, Descends, GoesOn
  <2>2. bs[w[k]] \in ToSet(bs)
    BY <1>3, <2>1 DEF ToSet
  <2>3. Unchanged(out[k], bs[w[k]])
    BY <1>12, <2>1, <2>2 DEF Grew, Unchanged
  <2> QED BY <1>3, <1>4, <1>5, <2>1, <2>3 DEF Untouched, Unchanged
<1>13. ASSUME NEW k \in 1..m, NEW l \in 1..m, k < l, Touch(out[k], out[l]),
              ~ Grew(out[k], bs), ~ Grew(out[l], bs)
       PROVE  FALSE
  <2>1. w[k] < w[l] /\ w[k] \in 1..n /\ w[l] \in 1..n
    BY <1>4, <1>5, <1>12, <1>13 DEF DescendFrom
  <2>2. w[l] \notin gone /\ LeftAlone(bs, w[k], n, gone)
    BY <1>12, <1>13
  <2>3. ~ Touch(bs[w[k]], bs[w[l]])
    <3>1. w[l] \in (w[k] + 1)..n
      BY <2>1
    <3> QED BY <2>2, <3>1 DEF LeftAlone
  <2>4. /\ out[k].pos = bs[w[k]].pos /\ out[k].radius = bs[w[k]].radius
        /\ out[l].pos = bs[w[l]].pos /\ out[l].radius = bs[w[l]].radius
    BY <1>12, <1>13
  <2> QED BY <1>13, <2>3, <2>4 DEF Touch
<1>14. Parted(bs, out)
  <2> SUFFICES ASSUME NEW k \in 1..m, NEW l \in 1..m, k < l, Touch(out[k], out[l])
               PROVE  Grew(out[k], bs) \/ Grew(out[l], bs)
    BY <1>5 DEF Parted
  <2> QED BY <1>13
<1> QED BY <1>1, <1>11, <1>14

(***************************************************************************)
(* The whole tick                                                          *)
(***************************************************************************)

\* Heat changes none of what mergers conserve.
SameMatter(cs, bs) ==
  /\ DOMAIN cs = DOMAIN bs
  /\ \A i \in DOMAIN bs : /\ cs[i].id = bs[i].id /\ cs[i].mass = bs[i].mass
                          /\ cs[i].radius = bs[i].radius /\ cs[i].pos = bs[i].pos
                          /\ cs[i].vel = bs[i].vel

LEMMA SameMatterConserved ==
  ASSUME NEW before, NEW bs \in Seq(BodyType), NEW cs \in Seq(BodyType), SameMatter(cs, bs),
         Conserved(before, bs), Parted(before, bs)
  PROVE  Conserved(before, cs) /\ Parted(before, cs)
<1>1. PICK n \in Nat : n = Len(bs) /\ n = Len(cs) /\ DOMAIN bs = 1..n /\ DOMAIN cs = 1..n
  <2>1. Len(bs) \in Nat /\ DOMAIN bs = 1..Len(bs) /\ Len(cs) \in Nat /\ DOMAIN cs = 1..Len(cs)
    OBVIOUS
  <2>2. Len(bs) = Len(cs)
    BY <2>1 DEF SameMatter
  <2> QED BY <2>1, <2>2
<1>2. \A i \in 1..n : /\ cs[i].id = bs[i].id /\ cs[i].mass = bs[i].mass
                      /\ cs[i].radius = bs[i].radius /\ cs[i].pos = bs[i].pos
                      /\ cs[i].vel = bs[i].vel
  BY <1>1 DEF SameMatter
<1>3. \A i \in 1..n : Grew(cs[i], before) <=> Grew(bs[i], before)
  BY <1>2 DEF Grew
<1>4. Masses(cs) = Masses(bs) /\ Momenta(cs) = Momenta(bs)
  BY <1>1, <1>2 DEF Masses, Momenta
<1>5. GrownMasses(cs, before) = GrownMasses(bs, before)
  <2>1. \A i \in 1..n : GrownMass(cs[i], before) = GrownMass(bs[i], before)
    BY <1>2, <1>3 DEF GrownMass
  <2> QED BY <1>1, <2>1 DEF GrownMasses, GrownMass
<1>6. Conserved(before, cs)
  BY <1>1, <1>4, <1>5 DEF Conserved
<1>7. \A i, j \in 1..n : Touch(cs[i], cs[j]) <=> Touch(bs[i], bs[j])
  BY <1>2 DEF Touch
<1>8. Parted(before, cs)
  BY <1>1, <1>3, <1>7 DEF Parted
<1> QED BY <1>6, <1>8

LEMMA StillConserved ==
  ASSUME NEW bs \in Seq(BodyType)
  PROVE  Conserved(bs, bs)
<1>1. PICK n \in Nat : n = Len(bs)
  OBVIOUS
<1>2. AllMomentum(bs) \in Int /\ AllGrown(bs, bs) \in Int
  <2>1. CASE bs = <<>>
    <3>1. AllMomentum(bs) = 0 /\ AllGrown(bs, bs) = 0
      BY <2>1, AllOfNone
    <3> QED BY <3>1
  <2>2. CASE bs # <<>>
    <3>1. bs[1] \in BodyType
      BY <2>2
    <3> QED BY <3>1, AllAppended
  <2> QED BY <2>1, <2>2
<1>3. PICK x \in Int, g \in Int : x = AllMomentum(bs) /\ g = AllGrown(bs, bs)
  BY <1>2
<1>4. Distance(x, x) <= (n - n) * g
  <2>1. Distance(x, x) = 0 /\ n - n = 0 /\ 0 * g = 0
    BY DEF Distance
  <2> QED BY <2>1
<1> QED BY <1>1, <1>3, <1>4 DEF Conserved, AllMomentum, AllGrown

LEMMA StepConserves ==
  ASSUME SkyTypes, NEW cmds \in CommandSets, Step(cmds)
  PROVE  MergersConserve'
<1>1. PICK cs, us : cs = flown'.bodies /\ us = flown'.ships
  OBVIOUS
<1>2. cs \in Seq(BodyType) /\ OneMassless(cs) /\ us \in Seq(ShipType)
  <2>1. flown'.bodies \in Seq(BodyType) /\ OneMassless(flown'.bodies) /\ flown'.ships \in Seq(ShipType)
    BY StepMakes DEF SkyTypes
  <2> QED BY <1>1, <2>1
<1>3. PICK ds : ds = ResolvedBodies(cs)
  OBVIOUS
<1>4. ds \in Seq(BodyType) /\ Conserved(cs, ds) /\ Parted(cs, ds)
  BY <1>2, <1>3, ResolvedBodiesType, ResolvedConserves
<1>5. PICK vs, ws : vs = OffBodies(us, ds) /\ ws = OffShips(vs)
  OBVIOUS
<1>6. ws \in Seq(ShipType)
  <2>1. vs \in Seq(ShipType)
    BY <1>2, <1>4, <1>5, OffBodiesMoves DEF MovedShips
  <2> QED BY <1>5, <2>1, OffShipsMoves DEF MovedShips
<1>7. PICK es : es = WarmedBodies(ds, ws)
  OBVIOUS
<1>8. bodies' = es
  <2>1. PICK hit : hit = ResolvedCollisions(cs, us)
    OBVIOUS
  <2>2. hit.bodies = ds /\ hit.ships = ws
    BY <1>3, <1>5, <2>1 DEF ResolvedCollisions
  <2>3. bodies' = WarmedBodies(hit.bodies, hit.ships)
    BY <1>1, <2>1 DEF Step
  <2> QED BY <1>7, <2>2, <2>3
<1>9. es \in Seq(BodyType) /\ SameMatter(es, ds)
  BY <1>4, <1>6, <1>7, WarmBodies DEF SameMatter
<1>10. Conserved(cs, es) /\ Parted(cs, es)
  BY <1>4, <1>9, SameMatterConserved
<1> QED BY <1>1, <1>8, <1>10 DEF MergersConserve

\* Mergers lose no matter and, but for the rounding of those that grew, no
\* momentum, however many bodies ran into one another in whatever order, and
\* of two that still overlap one has just grown; in every tick, for every sky
\* (resolve_body_collisions and merge_bodies in collision.rs).
THEOREM MergersConserveMatter == Spec => []MergersConserve
<1>1. Init => MergersConserve
  <2> SUFFICES ASSUME Init PROVE MergersConserve
    OBVIOUS
  <2>1. PICK bs \in Seq(BodyType) : bs = bodies
    BY InitTypes DEF SkyTypes, Placed
  <2>2. flown.bodies = bs /\ now = 0
    BY <2>1 DEF Init
  <2> QED BY <2>1, <2>2, StillConserved DEF MergersConserve
<1>2. SkyTypes /\ MergersConserve /\ [Next]_vars => MergersConserve'
  <2> SUFFICES ASSUME SkyTypes, MergersConserve, [Next]_vars PROVE MergersConserve'
    OBVIOUS
  <2>1. CASE Place
    BY <2>1 DEF Place, PlaceStation, Begin, skyVars, MergersConserve
  <2>2. ASSUME NEW cmds \in CommandSets, Step(cmds) PROVE MergersConserve'
    BY <2>2, StepConserves
  <2>3. CASE Resume
    BY <2>3 DEF Resume, startVars, MergersConserve
  <2>4. CASE UNCHANGED vars
    BY <2>4 DEF vars, startVars, skyVars, MergersConserve
  <2> QED BY <2>1, <2>2, <2>3, <2>4 DEF Next
<1> QED BY <1>1, <1>2, SkyIsTyped, PTL DEF Spec

=============================================================================
