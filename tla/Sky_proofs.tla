------------------------------ MODULE Sky_proofs ------------------------------
(***************************************************************************)
(* Theorems about the sky and their proofs: types, the reversibility of    *)
(* the orbit step, the truth of the observation history and of what is     *)
(* seen by it, and the agreement of the two tests for shadows.             *)
(***************************************************************************)
EXTENDS Sky, SumLemmas, TLAPS

(***************************************************************************)
(* Numbers, sequences and searches                                         *)
(***************************************************************************)

LEMMA Dividing ==
  ASSUME NEW x \in Int, NEW y \in Nat, y > 0
  PROVE  x \div y \in Int /\ (x \in Nat => x \div y \in Nat)
OBVIOUS

LEMMA Multiplying ==
  /\ \A x, y \in Nat : x * y \in Nat /\ (x > 0 /\ y > 0 => x * y > 0)
  /\ \A x, y \in Int : x * y \in Int
OBVIOUS

LEMMA Choosing ==
  ASSUME NEW x \in Int, NEW y \in Int
  PROVE  /\ Least(x, y) \in Int /\ Most(x, y) \in Int
         /\ Distance(x, y) \in Nat /\ Distance(x, y) = Distance(y, x)
         /\ (x # y => Distance(x, y) > 0)
         /\ Toward(x, y) \in Int
         /\ (x \in Nat => Most(x, y) \in Nat) /\ (y \in Nat => Most(x, y) \in Nat)
         /\ (y > 0 => Most(x, y) > 0)
BY DEF Least, Most, Distance, Toward

\* A sequence made place by place of another one.
LEMMA PlaceByPlace ==
  ASSUME NEW S, NEW T, NEW s \in Seq(S), NEW t, t = [i \in DOMAIN s |-> t[i]],
         \A i \in DOMAIN s : t[i] \in T
  PROVE  t \in Seq(T) /\ DOMAIN t = DOMAIN s /\ Len(t) = Len(s)
<1>1. DOMAIN s = 1..Len(s) /\ Len(s) \in Nat
  OBVIOUS
<1>2. PICK n \in Nat : n = Len(s) /\ DOMAIN s = 1..n
  BY <1>1
<1>3. t = [i \in 1..n |-> t[i]] /\ \A i \in 1..n : t[i] \in T
  BY <1>2
<1>4. t \in [1..n -> T]
  BY <1>3
<1>5. t \in Seq(T) /\ Len(t) = n
  BY <1>4
<1> QED BY <1>2, <1>4, <1>5

\* The first index of those that pass a test, or 0.
FirstOf(s, I) == IF I # {} THEN Min(I) ELSE 0

LEMMA FirstIndex ==
  ASSUME NEW S, NEW s \in Seq(S), NEW I, I \subseteq 1..Len(s)
  PROVE  FirstOf(s, I) = 0 \/ (FirstOf(s, I) \in I /\ FirstOf(s, I) \in DOMAIN s /\ FirstOf(s, I) # 0)
<1>1. Len(s) \in Nat /\ DOMAIN s = 1..Len(s)
  OBVIOUS
<1>2. CASE I # {}
  <2>1. PICK n \in Nat : n = Len(s)
    BY <1>1
  <2>2. I \subseteq 0..n
    BY <2>1
  <2>3. \E x \in I : \A y \in I : x <= y
    BY <1>2, <2>1, <2>2, LeastNumber
  <2>4. Min(I) \in I
    BY <2>3 DEF Min
  <2> QED BY <1>1, <1>2, <2>4 DEF FirstOf
<1>3. CASE I = {}
  BY <1>3 DEF FirstOf
<1> QED BY <1>2, <1>3

LEMMA FoundByName ==
  ASSUME NEW S, NEW s \in Seq(S), NEW name
  PROVE  Named(s, name) = 0 \/ Named(s, name) \in DOMAIN s
<1> DEFINE I == {i \in 1..Len(s) : s[i].name = name}
<1>1. Named(s, name) = FirstOf(s, I)
  BY DEF Named, SelectInSeq, FirstOf
<1>2. I \subseteq 1..Len(s)
  OBVIOUS
<1> HIDE DEF I
<1> QED BY <1>1, <1>2, FirstIndex

(***************************************************************************)
(* Types                                                                   *)
(***************************************************************************)

BodyType ==
  [id : Nat, name : STRING, mass : Nat, radius : Nat, pos : Int, vel : Int, temp : Nat,
   generation : Nat, capacity : Nat, area : Nat, albedo : Nat]

ShipType == [id : Nat, fuel : Nat, temp : Nat, vel : Int, pos : Int]

StationType == [id : Nat, parent : Nat, offset : Int, secondary : Nat \cup {Nowhere}, temp : Nat]

\* What a body or a ship is besides where it is and how it moves.
SameBody(a, b) ==
  /\ a.id = b.id /\ a.name = b.name /\ a.mass = b.mass /\ a.radius = b.radius /\ a.temp = b.temp
  /\ a.generation = b.generation /\ a.capacity = b.capacity /\ a.area = b.area
  /\ a.albedo = b.albedo

SameShip(a, b) == a.id = b.id /\ a.temp = b.temp

LEMMA BodyMoves ==
  ASSUME NEW b \in BodyType, NEW x \in Int
  PROVE  /\ [b EXCEPT !.vel = x] \in BodyType /\ SameBody([b EXCEPT !.vel = x], b)
         /\ [b EXCEPT !.vel = x].vel = x /\ [b EXCEPT !.vel = x].pos = b.pos
         /\ [b EXCEPT !.pos = x] \in BodyType /\ SameBody([b EXCEPT !.pos = x], b)
         /\ [b EXCEPT !.pos = x].pos = x /\ [b EXCEPT !.pos = x].vel = b.vel
BY DEF BodyType, SameBody

LEMMA ShipMoves ==
  ASSUME NEW s \in ShipType, NEW x \in Int
  PROVE  /\ [s EXCEPT !.vel = x] \in ShipType /\ SameShip([s EXCEPT !.vel = x], s)
         /\ [s EXCEPT !.vel = x].vel = x /\ [s EXCEPT !.vel = x].pos = s.pos
         /\ [s EXCEPT !.vel = x].fuel = s.fuel
         /\ [s EXCEPT !.pos = x] \in ShipType /\ SameShip([s EXCEPT !.pos = x], s)
         /\ [s EXCEPT !.pos = x].pos = x /\ [s EXCEPT !.pos = x].vel = s.vel
         /\ [s EXCEPT !.pos = x].fuel = s.fuel
BY DEF ShipType, SameShip

\* Two things of a type are the same if all that is known of them is.
LEMMA BodiesEqual ==
  ASSUME NEW a \in BodyType, NEW b \in BodyType, SameBody(a, b), a.pos = b.pos, a.vel = b.vel
  PROVE  a = b
BY DEF BodyType, SameBody

LEMMA ShipsEqual ==
  ASSUME NEW a \in ShipType, NEW b \in ShipType, SameShip(a, b), a.fuel = b.fuel,
         a.pos = b.pos, a.vel = b.vel
  PROVE  a = b
BY DEF ShipType, SameShip

LEMMA BodyFields ==
  ASSUME NEW b \in BodyType
  PROVE  /\ b.id \in Nat /\ b.name \in STRING /\ b.mass \in Nat /\ b.radius \in Nat
         /\ b.pos \in Int /\ b.vel \in Int /\ b.temp \in Nat /\ b.generation \in Nat
         /\ b.capacity \in Nat /\ b.area \in Nat /\ b.albedo \in Nat
BY DEF BodyType

LEMMA ShipFields ==
  ASSUME NEW s \in ShipType
  PROVE  /\ s.id \in Nat /\ s.fuel \in Nat /\ s.temp \in Nat /\ s.vel \in Int /\ s.pos \in Int
         /\ ShipMass(s) \in Nat /\ ShipMass(s) > 0
BY FlightAssumption DEF ShipType, ShipMass

(***************************************************************************)
(* Gravity                                                                 *)
(***************************************************************************)

LEMMA PullIsInt ==
  ASSUME NEW b \in BodyType, NEW x \in Int
  PROVE  Pull(b, x) \in Int
<1>1. b.pos \in Int /\ b.mass \in Int
  BY BodyFields
<1>2. PICK d \in Nat : d = Distance(b.pos, x)
  BY <1>1, Choosing
<1>3. PICK t \in Int : t = Toward(x, b.pos)
  BY <1>1, Choosing
<1>4. PICK q \in Nat : q = d * d
  BY Multiplying
<1>5. PICK r \in Nat : r = Softening * Softening /\ r > 0
  BY Multiplying, FlightAssumption
<1>6. PICK m \in Nat : m = Most(q, r) /\ m > 0
  <2>1. Most(q, r) \in Nat /\ Most(q, r) > 0
    BY <1>5 DEF Most
  <2> QED BY <2>1
<1>7. b.mass \div m \in Int
  BY <1>1, <1>6, Dividing
<1>8. t * (b.mass \div m) \in Int
  BY <1>3, <1>7, Multiplying
<1> QED BY <1>2, <1>3, <1>4, <1>5, <1>6, <1>8 DEF Pull

\* The strongest sources as a sequence of indices.
LEMMA SourcesInOrder ==
  ASSUME NEW n \in Nat, NEW S, S \subseteq 1..n
  PROVE  SetToSeq(S) \in Seq(S)
<1>1. IsFiniteSet(1..n)
  BY FS_Interval
<1>2. IsFiniteSet(S)
  BY <1>1, FS_Subset
<1>3. Cardinality(S) \in Nat /\ ExistsBijection(1..Cardinality(S), S)
  BY <1>2, FS_CardinalityType
<1>4. PICK f \in [1..Cardinality(S) -> S] : IsInjective(f)
  BY <1>3 DEF ExistsBijection, Bijection, Injection, IsInjective
<1>5. SetToSeq(S) \in [1..Cardinality(S) -> S]
  BY <1>4 DEF SetToSeq
<1> QED BY <1>3, <1>5

\* The sum of pulls as the community modules define it: h gathers them.
SumsPulls(bs, x, order, h) ==
  h = [s \in SUBSET (DOMAIN order) |->
         IF s = {} THEN 0 ELSE h[s \ {Max(s)}] + Pull(bs[order[Max(s)]], x)]

LEMMA AccelerationIsFold ==
  ASSUME NEW bs, NEW x, NEW skip
  PROVE  LET order == SetToSeq(Strongest(bs, x, skip))
         IN  Acceleration(bs, x, skip)
               = (CHOOSE h : SumsPulls(bs, x, order, h))[DOMAIN order]
BY DEF Acceleration, FoldLeft, MapThenFoldSet, SumsPulls

\* The pulls of the sources in a sequence, added up one after the other.
AddsPulls(bs, x, order, G) ==
  /\ G \in [0..Len(order) -> Int]
  /\ G[0] = 0
  /\ \A i \in 1..Len(order) : G[i] = G[i - 1] + Pull(bs[order[i]], x)

Sources(bs, x, skip) == SetToSeq(Strongest(bs, x, skip))

LEMMA AccelerationAddsPulls ==
  ASSUME NEW bs \in Seq(BodyType), NEW x \in Int, NEW skip
  PROVE  /\ Sources(bs, x, skip) \in Seq(DOMAIN bs)
         /\ \E G : /\ AddsPulls(bs, x, Sources(bs, x, skip), G)
                   /\ Acceleration(bs, x, skip) = G[Len(Sources(bs, x, skip))]
<1> DEFINE S == Strongest(bs, x, skip)
<1>1. S \subseteq 1..Len(bs) /\ Len(bs) \in Nat /\ DOMAIN bs = 1..Len(bs)
  BY DEF Strongest
<1> HIDE DEF S
<1>2. PICK order : order = Sources(bs, x, skip) /\ order = SetToSeq(S)
  BY DEF S, Sources
<1>3. order \in Seq(S)
  BY <1>1, <1>2, SourcesInOrder
<1>4. PICK n \in Nat : n = Len(order) /\ DOMAIN order = 1..n /\ \A i \in 1..n : order[i] \in S
  BY <1>3
<1> DEFINE f == [i \in 1..n |-> [t \in Int |-> t + Pull(bs[order[i]], x)]]
<1>5. \A i \in 1..n : Pull(bs[order[i]], x) \in Int
  <2> SUFFICES ASSUME NEW i \in 1..n PROVE Pull(bs[order[i]], x) \in Int
    OBVIOUS
  <2>1. order[i] \in DOMAIN bs
    BY <1>1, <1>4
  <2>2. bs[order[i]] \in BodyType
    BY <2>1
  <2> QED BY <2>2, PullIsInt
<1>6. \A i \in 1..n : \A t \in Int : f[i][t] = t + Pull(bs[order[i]], x) /\ f[i][t] \in Int
  BY <1>5
<1> HIDE DEF f
<1>s. Steps(f, Int, n) /\ 0 \in Int
  BY <1>6 DEF Steps
<1>7. PICK g : RunsUpTo(f, Int, 0, n, g)
  BY <1>s, RunExists
<1>8. SumsPulls(bs, x, order, g)
  <2>1. \A s \in SUBSET (1..n) : s # {} => g[s] = g[s \ {Max(s)}] + Pull(bs[order[Max(s)]], x)
    <3> SUFFICES ASSUME NEW s \in SUBSET (1..n), s # {}
                 PROVE  g[s] = g[s \ {Max(s)}] + Pull(bs[order[Max(s)]], x)
      OBVIOUS
    <3>1. Top(s) = Max(s)
      BY DEF Top, Max
    <3>2. Top(s) \in 1..n /\ s \ {Top(s)} \in SUBSET (1..n)
      BY TopIn
    <3>3. g[s \ {Top(s)}] \in Int
      BY <1>7, <3>2 DEF Runs, RunsUpTo
    <3>4. g[s] = f[Top(s)][g[s \ {Top(s)}]]
      BY <1>7 DEF Runs, RunsUpTo
    <3> QED BY <1>6, <3>1, <3>2, <3>3, <3>4
  <2>2. g = [s \in SUBSET (1..n) |-> g[s]] /\ g[{}] = 0
    BY <1>7 DEF Runs, RunsUpTo
  <2> QED BY <1>4, <2>1, <2>2 DEF SumsPulls
<1> DEFINE h == CHOOSE k : SumsPulls(bs, x, order, k)
<1>9. SumsPulls(bs, x, order, h)
  BY <1>8
<1>10. Acceleration(bs, x, skip) = h[1..n]
  BY <1>2, <1>4, AccelerationIsFold DEF S
<1> HIDE DEF h
<1>11. Unfolds(f, Int, 0, n, h)
  <2>1. h = [s \in SUBSET (1..n) |->
               IF s = {} THEN 0 ELSE h[s \ {Max(s)}] + Pull(bs[order[Max(s)]], x)]
    BY <1>4, <1>9 DEF SumsPulls
  <2>2. \A s \in SUBSET (1..n) :
          h[s] = IF s = {} THEN 0 ELSE h[s \ {Max(s)}] + Pull(bs[order[Max(s)]], x)
    BY <2>1
  <2>3. ASSUME NEW s \in SUBSET (1..n), s # {}, h[s \ {Top(s)}] \in Int
        PROVE  h[s] = f[Top(s)][h[s \ {Top(s)}]]
    <3>1. Top(s) = Max(s)
      BY DEF Top, Max
    <3>2. Top(s) \in 1..n
      BY <2>3, TopIn
    <3>3. PICK i, t : i = Top(s) /\ t = h[s \ {Top(s)}]
      OBVIOUS
    <3>4. h[s] = t + Pull(bs[order[i]], x)
      BY <2>2, <2>3, <3>1, <3>3
    <3>5. f[i][t] = t + Pull(bs[order[i]], x)
      BY <1>6, <2>3, <3>2, <3>3
    <3> QED BY <3>3, <3>4, <3>5
  <2>4. h[{}] = 0
    BY <2>2
  <2> QED BY <2>3, <2>4 DEF Unfolds
<1>12. PICK G : Walks(f, Int, 0, n, G) /\ G[n] = h[1..n]
  BY <1>s, <1>11, RunOneByOne
<1>13. AddsPulls(bs, x, order, G)
  <2>1. \A i \in 1..n : G[i - 1] \in Int
    <3>1. \A i \in 1..n : i - 1 \in 0..n
      OBVIOUS
    <3> QED BY <1>12, <3>1 DEF Walks
  <2>2. \A i \in 1..n : G[i] = G[i - 1] + Pull(bs[order[i]], x)
    BY <1>6, <1>12, <2>1 DEF Walks
  <2> QED BY <1>4, <1>12, <2>2 DEF Walks, AddsPulls
<1>14. order \in Seq(DOMAIN bs)
  <2>1. PICK K : K = DOMAIN bs
    OBVIOUS
  <2>2. order = [i \in 1..n |-> order[i]] /\ \A i \in 1..n : order[i] \in K
    BY <1>1, <1>3, <1>4, <2>1
  <2>3. order \in [1..n -> K]
    BY <2>2
  <2> QED BY <2>1, <2>3
<1> QED BY <1>2, <1>4, <1>10, <1>12, <1>13, <1>14

LEMMA AccelerationIsInt ==
  ASSUME NEW bs \in Seq(BodyType), NEW x \in Int, NEW skip
  PROVE  Acceleration(bs, x, skip) \in Int
<1>1. PICK order : order = Sources(bs, x, skip)
  OBVIOUS
<1>2. PICK n : n = Len(order)
  OBVIOUS
<1>3. order \in Seq(DOMAIN bs)
  BY <1>1, AccelerationAddsPulls
<1>4. PICK G : AddsPulls(bs, x, order, G) /\ Acceleration(bs, x, skip) = G[n]
  BY <1>1, <1>2, AccelerationAddsPulls
<1>5. n \in Nat
  BY <1>2, <1>3
<1> QED BY <1>2, <1>4, <1>5 DEF AddsPulls

\* Bodies that are where others are, and as heavy, pull as they do.
SamePlaces(cs, bs) ==
  /\ DOMAIN cs = DOMAIN bs
  /\ \A i \in DOMAIN bs : cs[i].mass = bs[i].mass /\ cs[i].pos = bs[i].pos

LEMMA PullDepends ==
  ASSUME NEW a, NEW b, NEW x, a.mass = b.mass, a.pos = b.pos
  PROVE  Influence(a, x) = Influence(b, x) /\ Pull(a, x) = Pull(b, x)
BY DEF Influence, Pull

LEMMA SamePull ==
  ASSUME NEW cs \in Seq(BodyType), NEW bs \in Seq(BodyType), NEW x \in Int, NEW skip,
         SamePlaces(cs, bs)
  PROVE  Acceleration(cs, x, skip) = Acceleration(bs, x, skip)
<1>1. DOMAIN cs = DOMAIN bs /\ \A i \in DOMAIN bs : /\ Influence(cs[i], x) = Influence(bs[i], x)
                                                   /\ Pull(cs[i], x) = Pull(bs[i], x)
  <2> SUFFICES ASSUME NEW i \in DOMAIN bs
               PROVE  Influence(cs[i], x) = Influence(bs[i], x) /\ Pull(cs[i], x) = Pull(bs[i], x)
    BY DEF SamePlaces
  <2>1. cs[i].mass = bs[i].mass /\ cs[i].pos = bs[i].pos
    BY DEF SamePlaces
  <2> QED BY <2>1, PullDepends
<1>2. Strongest(cs, x, skip) = Strongest(bs, x, skip)
  <2> DEFINE S == DOMAIN bs \ skip
             before(ms, j, i) == \/ Influence(ms[j], x) > Influence(ms[i], x)
                                 \/ Influence(ms[j], x) = Influence(ms[i], x) /\ j < i
  <2>1. \A i, j \in S : before(cs, j, i) <=> before(bs, j, i)
    BY <1>1
  <2> HIDE DEF before
  <2>2. \A i \in S : {j \in S : before(cs, j, i)} = {j \in S : before(bs, j, i)}
    BY <2>1
  <2>3. {i \in S : Cardinality({j \in S : before(cs, j, i)}) < Influencers}
          = {i \in S : Cardinality({j \in S : before(bs, j, i)}) < Influencers}
    BY <2>2
  <2> QED BY <1>1, <2>3 DEF Strongest, before
<1>3. PICK order : order = Sources(cs, x, skip) /\ order = Sources(bs, x, skip)
  BY <1>2 DEF Sources
<1>4. PICK n : n = Len(order)
  OBVIOUS
<1>5. order \in Seq(DOMAIN bs)
  BY <1>3, AccelerationAddsPulls
<1>6. n \in Nat /\ \A i \in 1..n : order[i] \in DOMAIN bs
  BY <1>4, <1>5
<1>7. PICK G : AddsPulls(cs, x, order, G) /\ Acceleration(cs, x, skip) = G[n]
  BY <1>3, <1>4, AccelerationAddsPulls
<1>8. PICK H : AddsPulls(bs, x, order, H) /\ Acceleration(bs, x, skip) = H[n]
  BY <1>3, <1>4, AccelerationAddsPulls
<1> DEFINE P == {i \in 0..n : G[i] = H[i]}
<1>9. 0 \in P
  BY <1>6, <1>7, <1>8 DEF AddsPulls
<1>10. ASSUME NEW i \in 1..n, i - 1 \in P PROVE i \in P
  <2>1. i \in 0..n /\ G[i - 1] = H[i - 1]
    BY <1>6, <1>10
  <2>2. Pull(cs[order[i]], x) = Pull(bs[order[i]], x)
    BY <1>1, <1>6
  <2>3. G[i] = G[i - 1] + Pull(cs[order[i]], x) /\ H[i] = H[i - 1] + Pull(bs[order[i]], x)
    BY <1>4, <1>7, <1>8 DEF AddsPulls
  <2> QED BY <2>1, <2>2, <2>3
<1>11. \A i \in 0..n : i \in P
  <2> HIDE DEF P
  <2> QED BY <1>6, <1>9, <1>10, Upwards
<1>12. n \in 0..n
  BY <1>6
<1> QED BY <1>7, <1>8, <1>11, <1>12

(***************************************************************************)
(* Kick, drift and kick                                                    *)
(***************************************************************************)

\* Bodies and ships after something that only moves them, place by place.
MovedBodies(cs, bs) ==
  cs \in Seq(BodyType) /\ DOMAIN cs = DOMAIN bs /\ \A i \in DOMAIN bs : SameBody(cs[i], bs[i])

MovedShips(ts, ss) ==
  ts \in Seq(ShipType) /\ DOMAIN ts = DOMAIN ss /\ \A i \in DOMAIN ss : SameShip(ts[i], ss[i])

LEMMA KickBodies ==
  ASSUME NEW bs \in Seq(BodyType)
  PROVE  /\ MovedBodies(KickedBodies(bs), bs)
         /\ \A i \in DOMAIN bs :
              /\ KickedBodies(bs)[i].pos = bs[i].pos
              /\ KickedBodies(bs)[i].vel = bs[i].vel + Acceleration(bs, bs[i].pos, {i})
<1>1. PICK cs : cs = KickedBodies(bs)
  OBVIOUS
<1>2. cs = [i \in DOMAIN bs |-> [bs[i] EXCEPT !.vel = @ + Acceleration(bs, bs[i].pos, {i})]]
  BY <1>1 DEF KickedBodies
<1>3. ASSUME NEW i \in DOMAIN bs
      PROVE  /\ cs[i] \in BodyType /\ SameBody(cs[i], bs[i]) /\ cs[i].pos = bs[i].pos
             /\ cs[i].vel = bs[i].vel + Acceleration(bs, bs[i].pos, {i})
  <2>1. bs[i] \in BodyType /\ bs[i].pos \in Int /\ bs[i].vel \in Int
    BY BodyFields
  <2>2. PICK a \in Int : a = Acceleration(bs, bs[i].pos, {i})
    BY <2>1, AccelerationIsInt
  <2>3. PICK v \in Int : v = bs[i].vel + a
    BY <2>1
  <2>4. PICK b \in BodyType : b = bs[i]
    BY <2>1
  <2>5. cs[i] = [b EXCEPT !.vel = v]
    BY <1>2, <2>1, <2>2, <2>3, <2>4 DEF BodyType
  <2>6. /\ [b EXCEPT !.vel = v] \in BodyType /\ SameBody([b EXCEPT !.vel = v], b)
        /\ [b EXCEPT !.vel = v].vel = v
        /\ [b EXCEPT !.vel = v].pos = b.pos
    BY BodyMoves
  <2> QED BY <2>2, <2>3, <2>4, <2>5, <2>6
<1>4. cs = [i \in DOMAIN bs |-> cs[i]]
  BY <1>2
<1>5. cs \in Seq(BodyType) /\ DOMAIN cs = DOMAIN bs
  BY <1>3, <1>4, PlaceByPlace
<1> QED BY <1>1, <1>3, <1>5 DEF MovedBodies

LEMMA KickShips ==
  ASSUME NEW bs \in Seq(BodyType), NEW ss \in Seq(ShipType)
  PROVE  /\ MovedShips(KickedShips(bs, ss), ss)
         /\ \A i \in DOMAIN ss :
              /\ KickedShips(bs, ss)[i].pos = ss[i].pos
              /\ KickedShips(bs, ss)[i].vel = ss[i].vel + Acceleration(bs, ss[i].pos, {})
              /\ KickedShips(bs, ss)[i].fuel = ss[i].fuel
<1>1. PICK ts : ts = KickedShips(bs, ss)
  OBVIOUS
<1>2. ts = [i \in DOMAIN ss |-> [ss[i] EXCEPT !.vel = @ + Acceleration(bs, ss[i].pos, {})]]
  BY <1>1 DEF KickedShips
<1>3. ASSUME NEW i \in DOMAIN ss
      PROVE  /\ ts[i] \in ShipType /\ SameShip(ts[i], ss[i]) /\ ts[i].pos = ss[i].pos
             /\ ts[i].vel = ss[i].vel + Acceleration(bs, ss[i].pos, {}) /\ ts[i].fuel = ss[i].fuel
  <2>1. ss[i] \in ShipType /\ ss[i].pos \in Int /\ ss[i].vel \in Int
    BY ShipFields
  <2>2. PICK a \in Int : a = Acceleration(bs, ss[i].pos, {})
    BY <2>1, AccelerationIsInt
  <2>3. PICK v \in Int : v = ss[i].vel + a
    BY <2>1
  <2>4. PICK s \in ShipType : s = ss[i]
    BY <2>1
  <2>5. ts[i] = [s EXCEPT !.vel = v]
    BY <1>2, <2>1, <2>2, <2>3, <2>4 DEF ShipType
  <2>6. /\ [s EXCEPT !.vel = v] \in ShipType /\ SameShip([s EXCEPT !.vel = v], s)
        /\ [s EXCEPT !.vel = v].vel = v
        /\ [s EXCEPT !.vel = v].pos = s.pos /\ [s EXCEPT !.vel = v].fuel = s.fuel
    BY ShipMoves
  <2> QED BY <2>2, <2>3, <2>4, <2>5, <2>6
<1>4. ts = [i \in DOMAIN ss |-> ts[i]]
  BY <1>2
<1>5. ts \in Seq(ShipType) /\ DOMAIN ts = DOMAIN ss
  BY <1>3, <1>4, PlaceByPlace
<1> QED BY <1>1, <1>3, <1>5 DEF MovedShips

LEMMA DriftBodies ==
  ASSUME NEW bs \in Seq(BodyType)
  PROVE  /\ MovedBodies(Drifted(bs), bs)
         /\ \A i \in DOMAIN bs : /\ Drifted(bs)[i].pos = bs[i].pos + bs[i].vel * TICK
                                 /\ Drifted(bs)[i].vel = bs[i].vel
<1>1. PICK cs : cs = Drifted(bs)
  OBVIOUS
<1>2. cs = [i \in DOMAIN bs |-> [bs[i] EXCEPT !.pos = @ + bs[i].vel * TICK]]
  BY <1>1 DEF Drifted
<1>3. ASSUME NEW i \in DOMAIN bs
      PROVE  /\ cs[i] \in BodyType /\ SameBody(cs[i], bs[i]) /\ cs[i].vel = bs[i].vel
             /\ cs[i].pos = bs[i].pos + bs[i].vel * TICK
  <2>1. bs[i] \in BodyType /\ bs[i].pos \in Int /\ bs[i].vel \in Int /\ TICK \in Int
    BY BodyFields, FlightAssumption
  <2>2. PICK d \in Int : d = bs[i].vel * TICK
    BY <2>1, Multiplying
  <2>3. PICK x \in Int : x = bs[i].pos + d
    BY <2>1
  <2>4. PICK b \in BodyType : b = bs[i]
    BY <2>1
  <2>5. cs[i] = [b EXCEPT !.pos = x]
    BY <1>2, <2>1, <2>2, <2>3, <2>4 DEF BodyType
  <2>6. /\ [b EXCEPT !.pos = x] \in BodyType /\ SameBody([b EXCEPT !.pos = x], b)
        /\ [b EXCEPT !.pos = x].pos = x
        /\ [b EXCEPT !.pos = x].vel = b.vel
    BY BodyMoves
  <2> QED BY <2>2, <2>3, <2>4, <2>5, <2>6
<1>4. cs = [i \in DOMAIN bs |-> cs[i]]
  BY <1>2
<1>5. cs \in Seq(BodyType) /\ DOMAIN cs = DOMAIN bs
  BY <1>3, <1>4, PlaceByPlace
<1> QED BY <1>1, <1>3, <1>5 DEF MovedBodies

LEMMA DriftShips ==
  ASSUME NEW ss \in Seq(ShipType)
  PROVE  /\ MovedShips(Drifted(ss), ss)
         /\ \A i \in DOMAIN ss : /\ Drifted(ss)[i].pos = ss[i].pos + ss[i].vel * TICK
                                 /\ Drifted(ss)[i].vel = ss[i].vel
                                 /\ Drifted(ss)[i].fuel = ss[i].fuel
<1>1. PICK ts : ts = Drifted(ss)
  OBVIOUS
<1>2. ts = [i \in DOMAIN ss |-> [ss[i] EXCEPT !.pos = @ + ss[i].vel * TICK]]
  BY <1>1 DEF Drifted
<1>3. ASSUME NEW i \in DOMAIN ss
      PROVE  /\ ts[i] \in ShipType /\ SameShip(ts[i], ss[i]) /\ ts[i].vel = ss[i].vel
             /\ ts[i].pos = ss[i].pos + ss[i].vel * TICK /\ ts[i].fuel = ss[i].fuel
  <2>1. ss[i] \in ShipType /\ ss[i].pos \in Int /\ ss[i].vel \in Int /\ TICK \in Int
    BY ShipFields, FlightAssumption
  <2>2. PICK d \in Int : d = ss[i].vel * TICK
    BY <2>1, Multiplying
  <2>3. PICK x \in Int : x = ss[i].pos + d
    BY <2>1
  <2>4. PICK s \in ShipType : s = ss[i]
    BY <2>1
  <2>5. ts[i] = [s EXCEPT !.pos = x]
    BY <1>2, <2>1, <2>2, <2>3, <2>4 DEF ShipType
  <2>6. /\ [s EXCEPT !.pos = x] \in ShipType /\ SameShip([s EXCEPT !.pos = x], s)
        /\ [s EXCEPT !.pos = x].pos = x
        /\ [s EXCEPT !.pos = x].vel = s.vel /\ [s EXCEPT !.pos = x].fuel = s.fuel
    BY ShipMoves
  <2> QED BY <2>2, <2>3, <2>4, <2>5, <2>6
<1>4. ts = [i \in DOMAIN ss |-> ts[i]]
  BY <1>2
<1>5. ts \in Seq(ShipType) /\ DOMAIN ts = DOMAIN ss
  BY <1>3, <1>4, PlaceByPlace
<1> QED BY <1>1, <1>3, <1>5 DEF MovedShips

\* What fuel burns leaves a ship where it is; if none burns, as it is.
Thrusts(thrust, ss) ==
  \A i \in DOMAIN ss : thrust[i].force \in Int /\ thrust[i].consumed \in Nat

LEMMA BurnShips ==
  ASSUME NEW ss \in Seq(ShipType), NEW thrust, Thrusts(thrust, ss)
  PROVE  /\ MovedShips(Burnt(ss, thrust), ss)
         /\ \A i \in DOMAIN ss :
              /\ Burnt(ss, thrust)[i].pos = ss[i].pos
              /\ thrust[i].force = 0 /\ thrust[i].consumed = 0 =>
                   Burnt(ss, thrust)[i].vel = ss[i].vel /\ Burnt(ss, thrust)[i].fuel = ss[i].fuel
<1>1. PICK ts : ts = Burnt(ss, thrust)
  OBVIOUS
<1>2. ts = [i \in DOMAIN ss |->
              LET lighter == [ss[i] EXCEPT !.fuel = Most(@ - thrust[i].consumed, 0)]
              IN  [lighter EXCEPT !.vel = @ + (thrust[i].force * TICK) \div ShipMass(lighter)]]
  BY <1>1 DEF Burnt
<1>3. ASSUME NEW i \in DOMAIN ss
      PROVE  /\ ts[i] \in ShipType /\ SameShip(ts[i], ss[i]) /\ ts[i].pos = ss[i].pos
             /\ thrust[i].force = 0 /\ thrust[i].consumed = 0 =>
                  ts[i].vel = ss[i].vel /\ ts[i].fuel = ss[i].fuel
  <2>1. PICK s \in ShipType : s = ss[i]
    OBVIOUS
  <2>2. s.fuel \in Nat /\ s.vel \in Int
    BY ShipFields
  <2>3. PICK force \in Int, consumed \in Nat : force = thrust[i].force /\ consumed = thrust[i].consumed
    BY DEF Thrusts
  <2>4. PICK left \in Nat : left = Most(s.fuel - consumed, 0) /\ (consumed = 0 => left = s.fuel)
    <3>1. Most(s.fuel - consumed, 0) \in Nat /\ (consumed = 0 => Most(s.fuel - consumed, 0) = s.fuel)
      BY <2>2 DEF Most
    <3> QED BY <3>1
  <2>5. PICK lighter : lighter = [s EXCEPT !.fuel = left]
    OBVIOUS
  <2>6. /\ lighter \in ShipType /\ SameShip(lighter, s) /\ lighter.pos = s.pos
        /\ lighter.vel = s.vel /\ lighter.fuel = left
    BY <2>5 DEF ShipType, SameShip
  <2>7. PICK m \in Nat : m = ShipMass(lighter) /\ m > 0
    BY <2>6, ShipFields
  <2>8. PICK p \in Int : p = force * TICK /\ (force = 0 => p = 0)
    <3>1. TICK \in Int
      BY FlightAssumption
    <3>2. force * TICK \in Int
      BY <3>1, Multiplying
    <3>3. 0 * TICK = 0
      BY <3>1
    <3> QED BY <3>2, <3>3
  <2>9. PICK a \in Int : a = p \div m /\ (p = 0 => a = 0)
    <3>1. p \div m \in Int
      BY <2>7, Dividing
    <3>2. 0 \div m = 0
      BY <2>7
    <3> QED BY <3>1, <3>2
  <2>10. PICK v \in Int : v = s.vel + a /\ (a = 0 => v = s.vel)
    BY <2>2
  <2>11. ts[i] = [lighter EXCEPT !.vel = v]
    <3>1. ts[i] = LET light == [s EXCEPT !.fuel = Most(@ - consumed, 0)]
                  IN  [light EXCEPT !.vel = @ + (force * TICK) \div ShipMass(light)]
      BY <1>2, <2>1, <2>3
    <3>2. [s EXCEPT !.fuel = Most(@ - consumed, 0)] = lighter
      BY <2>4, <2>5 DEF ShipType
    <3>3. ts[i] = [lighter EXCEPT !.vel = @ + (force * TICK) \div ShipMass(lighter)]
      BY <3>1, <3>2
    <3>4. ts[i] = [lighter EXCEPT !.vel = lighter.vel + (force * TICK) \div ShipMass(lighter)]
      BY <2>6, <3>3 DEF ShipType
    <3> QED BY <2>6, <2>7, <2>8, <2>9, <2>10, <3>4
  <2>12. /\ [lighter EXCEPT !.vel = v] \in ShipType
         /\ SameShip([lighter EXCEPT !.vel = v], lighter)
         /\ [lighter EXCEPT !.vel = v].vel = v
         /\ [lighter EXCEPT !.vel = v].pos = lighter.pos
         /\ [lighter EXCEPT !.vel = v].fuel = lighter.fuel
    BY <2>6, ShipMoves
  <2>13. SameShip(ts[i], s)
    BY <2>6, <2>11, <2>12 DEF SameShip
  <2> QED BY <2>1, <2>3, <2>4, <2>6, <2>8, <2>9, <2>10, <2>11, <2>12, <2>13
<1>4. ts = [i \in DOMAIN ss |-> ts[i]]
  BY <1>2
<1>5. ts \in Seq(ShipType) /\ DOMAIN ts = DOMAIN ss
  BY <1>3, <1>4, PlaceByPlace
<1> QED BY <1>1, <1>3, <1>5 DEF MovedShips

LEMMA BodiesMovedOn ==
  ASSUME NEW ms, NEW bs, NEW cs, MovedBodies(ms, bs), MovedBodies(bs, cs)
  PROVE  MovedBodies(ms, cs)
BY DEF MovedBodies, SameBody

LEMMA ShipsMovedOn ==
  ASSUME NEW rs, NEW ss, NEW ts, MovedShips(rs, ss), MovedShips(ss, ts)
  PROVE  MovedShips(rs, ts)
BY DEF MovedShips, SameShip

LEMMA TurnBodies ==
  ASSUME NEW bs \in Seq(BodyType)
  PROVE  /\ MovedBodies(Turned(bs), bs)
         /\ \A i \in DOMAIN bs : Turned(bs)[i].pos = bs[i].pos /\ Turned(bs)[i].vel = -bs[i].vel
<1>1. PICK cs : cs = Turned(bs)
  OBVIOUS
<1>2. cs = [i \in DOMAIN bs |-> [bs[i] EXCEPT !.vel = -@]]
  BY <1>1 DEF Turned
<1>3. ASSUME NEW i \in DOMAIN bs
      PROVE  /\ cs[i] \in BodyType /\ SameBody(cs[i], bs[i]) /\ cs[i].pos = bs[i].pos
             /\ cs[i].vel = -bs[i].vel
  <2>1. PICK b \in BodyType : b = bs[i]
    OBVIOUS
  <2>2. PICK v \in Int : v = -b.vel
    <3>1. b.vel \in Int
      BY BodyFields
    <3>2. -b.vel \in Int
      BY <3>1
    <3> QED BY <3>2
  <2>3. cs[i] = [b EXCEPT !.vel = v]
    <3>1. cs[i] = [b EXCEPT !.vel = -@]
      BY <1>2, <2>1
    <3>2. [b EXCEPT !.vel = -@] = [b EXCEPT !.vel = -b.vel]
      BY <2>1 DEF BodyType
    <3> QED BY <2>2, <3>1, <3>2
  <2>4. /\ [b EXCEPT !.vel = v] \in BodyType /\ SameBody([b EXCEPT !.vel = v], b)
        /\ [b EXCEPT !.vel = v].vel = v
        /\ [b EXCEPT !.vel = v].pos = b.pos
    BY BodyMoves
  <2> QED BY <2>1, <2>2, <2>3, <2>4
<1>4. cs = [i \in DOMAIN bs |-> cs[i]]
  BY <1>2
<1>5. cs \in Seq(BodyType) /\ DOMAIN cs = DOMAIN bs
  BY <1>3, <1>4, PlaceByPlace
<1> QED BY <1>1, <1>3, <1>5 DEF MovedBodies

LEMMA TurnShips ==
  ASSUME NEW ss \in Seq(ShipType)
  PROVE  /\ MovedShips(Turned(ss), ss)
         /\ \A i \in DOMAIN ss : /\ Turned(ss)[i].pos = ss[i].pos /\ Turned(ss)[i].vel = -ss[i].vel
                                 /\ Turned(ss)[i].fuel = ss[i].fuel
<1>1. PICK ts : ts = Turned(ss)
  OBVIOUS
<1>2. ts = [i \in DOMAIN ss |-> [ss[i] EXCEPT !.vel = -@]]
  BY <1>1 DEF Turned
<1>3. ASSUME NEW i \in DOMAIN ss
      PROVE  /\ ts[i] \in ShipType /\ SameShip(ts[i], ss[i]) /\ ts[i].pos = ss[i].pos
             /\ ts[i].vel = -ss[i].vel /\ ts[i].fuel = ss[i].fuel
  <2>1. PICK s \in ShipType : s = ss[i]
    OBVIOUS
  <2>2. PICK v \in Int : v = -s.vel
    <3>1. s.vel \in Int
      BY ShipFields
    <3>2. -s.vel \in Int
      BY <3>1
    <3> QED BY <3>2
  <2>3. ts[i] = [s EXCEPT !.vel = v]
    <3>1. ts[i] = [s EXCEPT !.vel = -@]
      BY <1>2, <2>1
    <3>2. [s EXCEPT !.vel = -@] = [s EXCEPT !.vel = -s.vel]
      BY <2>1 DEF ShipType
    <3> QED BY <2>2, <3>1, <3>2
  <2>4. /\ [s EXCEPT !.vel = v] \in ShipType /\ SameShip([s EXCEPT !.vel = v], s)
        /\ [s EXCEPT !.vel = v].vel = v
        /\ [s EXCEPT !.vel = v].pos = s.pos /\ [s EXCEPT !.vel = v].fuel = s.fuel
    BY ShipMoves
  <2> QED BY <2>1, <2>2, <2>3, <2>4
<1>4. ts = [i \in DOMAIN ss |-> ts[i]]
  BY <1>2
<1>5. ts \in Seq(ShipType) /\ DOMAIN ts = DOMAIN ss
  BY <1>3, <1>4, PlaceByPlace
<1> QED BY <1>1, <1>3, <1>5 DEF MovedShips

LEMMA FlownMoves ==
  ASSUME NEW bs \in Seq(BodyType), NEW ss \in Seq(ShipType), NEW thrust, Thrusts(thrust, ss)
  PROVE  MovedBodies(Flown(bs, ss, thrust).bodies, bs) /\ MovedShips(Flown(bs, ss, thrust).ships, ss)
<1>1. PICK ks : ks = KickedBodies(bs)
  OBVIOUS
<1>2. MovedBodies(ks, bs) /\ ks \in Seq(BodyType)
  BY <1>1, KickBodies DEF MovedBodies
<1>3. PICK ds : ds = Drifted(ks)
  OBVIOUS
<1>4. MovedBodies(ds, ks) /\ ds \in Seq(BodyType)
  BY <1>2, <1>3, DriftBodies DEF MovedBodies
<1>5. PICK us : us = KickedShips(bs, ss)
  OBVIOUS
<1>6. MovedShips(us, ss) /\ us \in Seq(ShipType)
  BY <1>5, KickShips DEF MovedShips
<1>7. PICK vs : vs = Drifted(us)
  OBVIOUS
<1>8. MovedShips(vs, us) /\ vs \in Seq(ShipType)
  BY <1>6, <1>7, DriftShips DEF MovedShips
<1>9. Thrusts(thrust, vs)
  BY <1>6, <1>8 DEF MovedShips, Thrusts
<1>10. PICK ws : ws = Burnt(vs, thrust)
  OBVIOUS
<1>11. MovedShips(ws, vs) /\ ws \in Seq(ShipType)
  BY <1>8, <1>9, <1>10, BurnShips DEF MovedShips
<1>12. MovedBodies(KickedBodies(ds), ds)
  BY <1>4, KickBodies
<1>13. MovedShips(KickedShips(ds, ws), ws)
  BY <1>4, <1>11, KickShips
<1>14. MovedBodies(KickedBodies(ds), bs)
  BY <1>2, <1>4, <1>12, BodiesMovedOn
<1>15. MovedShips(KickedShips(ds, ws), ss)
  BY <1>6, <1>8, <1>11, <1>13, ShipsMovedOn
<1>16. Flown(bs, ss, thrust) = [bodies |-> KickedBodies(ds), ships |-> KickedShips(ds, ws)]
  BY <1>1, <1>3, <1>5, <1>7, <1>10 DEF Flown
<1> QED BY <1>14, <1>15, <1>16

LEMMA SameSequence ==
  ASSUME NEW S, NEW s \in Seq(S), NEW t \in Seq(S), DOMAIN s = DOMAIN t, \A i \in DOMAIN t : s[i] = t[i]
  PROVE  s = t
<1>1. s = [i \in DOMAIN s |-> s[i]] /\ t = [i \in DOMAIN t |-> t[i]]
  OBVIOUS
<1> QED BY <1>1

\* There and back again along a line.
LEMMA BackAgain ==
  ASSUME NEW p \in Int, NEW v \in Int, NEW a \in Int, NEW b \in Int, NEW dt \in Nat
  PROVE  /\ -((v + a) + b) + b = -(v + a)
         /\ (p + (v + a) * dt) + (-(v + a)) * dt = p
         /\ -(v + a) + a = -v
<1>1. PICK w \in Int : w = v + a
  OBVIOUS
<1>2. PICK x \in Int : x = w * dt
  BY Multiplying
<1>3. (-w) * dt = -x
  BY <1>2
<1> QED BY <1>1, <1>2, <1>3

\* A tick of the bodies: kick, drift, kick.
SkyFlown(bs) == KickedBodies(Drifted(KickedBodies(bs)))

LEMMA BodiesFlyBack ==
  ASSUME NEW bs \in Seq(BodyType)
  PROVE  LET ds == Drifted(KickedBodies(bs))
             rs == Turned(SkyFlown(bs))
         IN  /\ ds \in Seq(BodyType) /\ rs \in Seq(BodyType) /\ SamePlaces(rs, ds)
             /\ Drifted(KickedBodies(rs)) \in Seq(BodyType)
             /\ SamePlaces(Drifted(KickedBodies(rs)), bs)
             /\ SkyFlown(rs) = Turned(bs)
<1>1. PICK ks : ks = KickedBodies(bs)
  OBVIOUS
<1>2. PICK ds : ds = Drifted(ks)
  OBVIOUS
<1>3. PICK ts : ts = KickedBodies(ds)
  OBVIOUS
<1>4. PICK rs : rs = Turned(ts)
  OBVIOUS
<1>5. PICK us : us = KickedBodies(rs)
  OBVIOUS
<1>6. PICK es : es = Drifted(us)
  OBVIOUS
<1>7. PICK ws : ws = KickedBodies(es)
  OBVIOUS
<1>8. PICK zs : zs = Turned(bs)
  OBVIOUS
<1>11. /\ MovedBodies(ks, bs) /\ ks \in Seq(BodyType) /\ DOMAIN ks = DOMAIN bs
       /\ \A i \in DOMAIN bs : /\ ks[i].pos = bs[i].pos
                               /\ ks[i].vel = bs[i].vel + Acceleration(bs, bs[i].pos, {i})
  BY <1>1, KickBodies DEF MovedBodies
<1>12. /\ MovedBodies(ds, ks) /\ ds \in Seq(BodyType) /\ DOMAIN ds = DOMAIN bs
       /\ \A i \in DOMAIN bs : ds[i].pos = ks[i].pos + ks[i].vel * TICK /\ ds[i].vel = ks[i].vel
  BY <1>2, <1>11, DriftBodies DEF MovedBodies
<1>13. /\ MovedBodies(ts, ds) /\ ts \in Seq(BodyType) /\ DOMAIN ts = DOMAIN bs
       /\ \A i \in DOMAIN bs : /\ ts[i].pos = ds[i].pos
                               /\ ts[i].vel = ds[i].vel + Acceleration(ds, ds[i].pos, {i})
  BY <1>3, <1>12, KickBodies DEF MovedBodies
<1>14. /\ MovedBodies(rs, ts) /\ rs \in Seq(BodyType) /\ DOMAIN rs = DOMAIN bs
       /\ \A i \in DOMAIN bs : rs[i].pos = ts[i].pos /\ rs[i].vel = -ts[i].vel
  BY <1>4, <1>13, TurnBodies DEF MovedBodies
<1>15. /\ MovedBodies(us, rs) /\ us \in Seq(BodyType) /\ DOMAIN us = DOMAIN bs
       /\ \A i \in DOMAIN bs : /\ us[i].pos = rs[i].pos
                               /\ us[i].vel = rs[i].vel + Acceleration(rs, rs[i].pos, {i})
  BY <1>5, <1>14, KickBodies DEF MovedBodies
<1>16. /\ MovedBodies(es, us) /\ es \in Seq(BodyType) /\ DOMAIN es = DOMAIN bs
       /\ \A i \in DOMAIN bs : es[i].pos = us[i].pos + us[i].vel * TICK /\ es[i].vel = us[i].vel
  BY <1>6, <1>15, DriftBodies DEF MovedBodies
<1>17. /\ MovedBodies(ws, es) /\ ws \in Seq(BodyType) /\ DOMAIN ws = DOMAIN bs
       /\ \A i \in DOMAIN bs : /\ ws[i].pos = es[i].pos
                               /\ ws[i].vel = es[i].vel + Acceleration(es, es[i].pos, {i})
  BY <1>7, <1>16, KickBodies DEF MovedBodies
<1>18. /\ MovedBodies(zs, bs) /\ zs \in Seq(BodyType) /\ DOMAIN zs = DOMAIN bs
       /\ \A i \in DOMAIN bs : zs[i].pos = bs[i].pos /\ zs[i].vel = -bs[i].vel
  BY <1>8, TurnBodies DEF MovedBodies
<1>19. SamePlaces(rs, ds)
  <2>1. DOMAIN rs = DOMAIN bs /\ DOMAIN ds = DOMAIN bs /\ DOMAIN ts = DOMAIN bs
    BY <1>12, <1>13, <1>14
  <2>2. ASSUME NEW i \in DOMAIN bs PROVE rs[i].mass = ds[i].mass /\ rs[i].pos = ds[i].pos
    <3>1. rs[i].pos = ts[i].pos /\ ts[i].pos = ds[i].pos
      BY <1>13, <1>14
    <3>2. rs[i].mass = ts[i].mass
      BY <1>14, <2>1 DEF MovedBodies, SameBody
    <3>3. ts[i].mass = ds[i].mass
      BY <1>13, <2>1 DEF MovedBodies, SameBody
    <3> QED BY <3>1, <3>2, <3>3
  <2> QED BY <2>1, <2>2 DEF SamePlaces
<1>20. ASSUME NEW i \in DOMAIN bs
       PROVE  us[i].pos = ds[i].pos /\ us[i].vel = -ks[i].vel /\ es[i].pos = bs[i].pos
  <2>1. PICK p \in Int, v \in Int : p = bs[i].pos /\ v = bs[i].vel
    <3>1. bs[i] \in BodyType
      OBVIOUS
    <3> QED BY <3>1, BodyFields
  <2>2. PICK a \in Int : a = Acceleration(bs, p, {i})
    BY AccelerationIsInt
  <2>3. PICK q \in Int : q = ds[i].pos
    <3>1. ds[i] \in BodyType
      BY <1>12
    <3> QED BY <3>1, BodyFields
  <2>4. PICK b \in Int : b = Acceleration(ds, q, {i}) /\ b = Acceleration(rs, q, {i})
    BY <1>12, <1>14, <1>19, AccelerationIsInt, SamePull
  <2>5. ks[i].pos = p /\ ks[i].vel = v + a
    BY <1>11, <2>1, <2>2
  <2>6. q = p + (v + a) * TICK /\ ds[i].vel = v + a
    BY <1>12, <2>3, <2>5
  <2>7. rs[i].pos = q /\ rs[i].vel = -((v + a) + b)
    BY <1>13, <1>14, <2>3, <2>4, <2>6
  <2>8. us[i].pos = q /\ us[i].vel = -((v + a) + b) + b
    BY <1>15, <2>4, <2>7
  <2>9. TICK \in Nat
    BY FlightAssumption
  <2>10. us[i].vel = -(v + a) /\ es[i].pos = q + (-(v + a)) * TICK
    BY <1>16, <2>8, <2>9, BackAgain
  <2>11. PICK dt \in Nat : dt = TICK
    BY <2>9
  <2>12. (p + (v + a) * dt) + (-(v + a)) * dt = p
    BY BackAgain
  <2>13. es[i].pos = p
    BY <2>6, <2>10, <2>11, <2>12
  <2> QED BY <2>1, <2>3, <2>5, <2>8, <2>10, <2>13
<1>21. \A i \in DOMAIN bs : SameBody(es[i], bs[i])
  BY <1>11, <1>12, <1>13, <1>14, <1>15, <1>16 DEF MovedBodies, SameBody
<1>22. SamePlaces(es, bs)
  BY <1>16, <1>20, <1>21 DEF SamePlaces, SameBody
<1>23. ASSUME NEW i \in DOMAIN bs PROVE ws[i] = zs[i]
  <2>1. PICK p \in Int, v \in Int : p = bs[i].pos /\ v = bs[i].vel
    <3>1. bs[i] \in BodyType
      OBVIOUS
    <3> QED BY <3>1, BodyFields
  <2>2. PICK a \in Int : a = Acceleration(bs, p, {i}) /\ a = Acceleration(es, p, {i})
    BY <1>16, <1>22, AccelerationIsInt, SamePull
  <2>3. es[i].pos = p /\ es[i].vel = -(v + a)
    BY <1>11, <1>16, <1>20, <2>1, <2>2
  <2>4. ws[i].pos = p /\ ws[i].vel = -(v + a) + a
    BY <1>17, <2>2, <2>3
  <2>5. ws[i].vel = -v
    BY <2>4
  <2>6. zs[i].pos = p /\ zs[i].vel = -v
    BY <1>18, <2>1
  <2>7. SameBody(ws[i], zs[i])
    BY <1>17, <1>18, <1>21 DEF MovedBodies, SameBody
  <2>8. ws[i] \in BodyType /\ zs[i] \in BodyType
    BY <1>17, <1>18
  <2> QED BY <2>4, <2>5, <2>6, <2>7, <2>8, BodiesEqual
<1>24. ws = zs
  BY <1>17, <1>18, <1>23, SameSequence
<1> QED BY <1>1, <1>2, <1>3, <1>4, <1>5, <1>6, <1>7, <1>8, <1>12, <1>14, <1>16, <1>19, <1>22, <1>24
        DEF SkyFlown

\* A tick of the ships, pulled from ds at its start and from es at its end.
HullsFlown(ds, ss, thrust, es) == KickedShips(es, Burnt(Drifted(KickedShips(ds, ss)), thrust))

Idle(thrust, ss) == \A i \in DOMAIN ss : thrust[i].force = 0 /\ thrust[i].consumed = 0

\* Without thrust a ship is kicked, drifts and is kicked.
LEMMA HullsCoast ==
  ASSUME NEW ds \in Seq(BodyType), NEW es \in Seq(BodyType), NEW ss \in Seq(ShipType), NEW thrust,
         Idle(thrust, ss)
  PROVE  LET ts == HullsFlown(ds, ss, thrust, es)
         IN  /\ MovedShips(ts, ss)
             /\ \A i \in DOMAIN ss :
                  LET v == ss[i].vel + Acceleration(ds, ss[i].pos, {})
                      x == ss[i].pos + v * TICK
                  IN  ts[i].pos = x /\ ts[i].vel = v + Acceleration(es, x, {})
                        /\ ts[i].fuel = ss[i].fuel
<1>1. PICK ks : ks = KickedShips(ds, ss)
  OBVIOUS
<1>2. PICK hs : hs = Drifted(ks)
  OBVIOUS
<1>3. PICK us : us = Burnt(hs, thrust)
  OBVIOUS
<1>4. PICK ts : ts = KickedShips(es, us)
  OBVIOUS
<1>11. /\ MovedShips(ks, ss) /\ ks \in Seq(ShipType) /\ DOMAIN ks = DOMAIN ss
       /\ \A i \in DOMAIN ss : /\ ks[i].pos = ss[i].pos /\ ks[i].fuel = ss[i].fuel
                               /\ ks[i].vel = ss[i].vel + Acceleration(ds, ss[i].pos, {})
  BY <1>1, KickShips DEF MovedShips
<1>12. /\ MovedShips(hs, ks) /\ hs \in Seq(ShipType) /\ DOMAIN hs = DOMAIN ss
       /\ \A i \in DOMAIN ss : /\ hs[i].pos = ks[i].pos + ks[i].vel * TICK
                               /\ hs[i].vel = ks[i].vel /\ hs[i].fuel = ks[i].fuel
  BY <1>2, <1>11, DriftShips DEF MovedShips
<1>13. Thrusts(thrust, hs)
  BY <1>12 DEF Idle, Thrusts
<1>14. /\ MovedShips(us, hs) /\ us \in Seq(ShipType) /\ DOMAIN us = DOMAIN ss
       /\ \A i \in DOMAIN ss : us[i].pos = hs[i].pos /\ us[i].vel = hs[i].vel
                                 /\ us[i].fuel = hs[i].fuel
  <2>1. MovedShips(us, hs) /\ us \in Seq(ShipType) /\ DOMAIN us = DOMAIN ss
    BY <1>3, <1>12, <1>13, BurnShips DEF MovedShips
  <2>2. ASSUME NEW i \in DOMAIN ss
        PROVE  us[i].pos = hs[i].pos /\ us[i].vel = hs[i].vel /\ us[i].fuel = hs[i].fuel
    <3>1. i \in DOMAIN hs /\ thrust[i].force = 0 /\ thrust[i].consumed = 0
      BY <1>12 DEF Idle
    <3> QED BY <1>3, <1>12, <1>13, <3>1, BurnShips
  <2> QED BY <2>1, <2>2
<1>15. /\ MovedShips(ts, us)
       /\ \A i \in DOMAIN ss : /\ ts[i].pos = us[i].pos /\ ts[i].fuel = us[i].fuel
                               /\ ts[i].vel = us[i].vel + Acceleration(es, us[i].pos, {})
  BY <1>4, <1>14, KickShips
<1>16. MovedShips(ts, ss)
  BY <1>11, <1>12, <1>14, <1>15, ShipsMovedOn
<1>17. ASSUME NEW i \in DOMAIN ss
       PROVE  LET v == ss[i].vel + Acceleration(ds, ss[i].pos, {})
                  x == ss[i].pos + v * TICK
              IN  ts[i].pos = x /\ ts[i].vel = v + Acceleration(es, x, {})
                    /\ ts[i].fuel = ss[i].fuel
  <2>1. PICK v, p : v = ss[i].vel + Acceleration(ds, ss[i].pos, {}) /\ p = ss[i].pos
    OBVIOUS
  <2>2. ks[i].pos = p /\ ks[i].vel = v /\ ks[i].fuel = ss[i].fuel
    BY <1>11, <2>1
  <2>3. PICK x : x = p + v * TICK
    OBVIOUS
  <2>4. hs[i].pos = x /\ hs[i].vel = v /\ hs[i].fuel = ss[i].fuel
    BY <1>12, <2>2, <2>3
  <2>5. us[i].pos = x /\ us[i].vel = v /\ us[i].fuel = ss[i].fuel
    BY <1>14, <2>4
  <2>6. ts[i].pos = x /\ ts[i].vel = v + Acceleration(es, x, {}) /\ ts[i].fuel = ss[i].fuel
    BY <1>15, <2>5
  <2> QED BY <2>1, <2>3, <2>6
<1>18. ts = HullsFlown(ds, ss, thrust, es)
  BY <1>1, <1>2, <1>3, <1>4 DEF HullsFlown
<1> QED BY <1>16, <1>17, <1>18

\* The way back, pulled from rs and from zs, which are where es and ds were.
LEMMA HullsFlyBack ==
  ASSUME NEW ds \in Seq(BodyType), NEW es \in Seq(BodyType),
         NEW rs \in Seq(BodyType), NEW zs \in Seq(BodyType), SamePlaces(rs, es), SamePlaces(zs, ds),
         NEW ss \in Seq(ShipType), NEW thrust, Idle(thrust, ss)
  PROVE  HullsFlown(rs, Turned(HullsFlown(ds, ss, thrust, es)), thrust, zs) = Turned(ss)
<1>1. PICK ts : ts = HullsFlown(ds, ss, thrust, es)
  OBVIOUS
<1>2. PICK us : us = Turned(ts)
  OBVIOUS
<1>3. PICK ws : ws = HullsFlown(rs, us, thrust, zs)
  OBVIOUS
<1>4. PICK xs : xs = Turned(ss)
  OBVIOUS
<1>11. /\ MovedShips(ts, ss) /\ ts \in Seq(ShipType) /\ DOMAIN ts = DOMAIN ss
       /\ \A i \in DOMAIN ss :
            /\ ts[i].pos = ss[i].pos + (ss[i].vel + Acceleration(ds, ss[i].pos, {})) * TICK
            /\ ts[i].vel = (ss[i].vel + Acceleration(ds, ss[i].pos, {}))
                             + Acceleration(es, ts[i].pos, {})
            /\ ts[i].fuel = ss[i].fuel
  BY <1>1, HullsCoast DEF MovedShips
<1>12. /\ MovedShips(us, ts) /\ us \in Seq(ShipType) /\ DOMAIN us = DOMAIN ss
       /\ \A i \in DOMAIN ss : /\ us[i].pos = ts[i].pos /\ us[i].vel = -ts[i].vel
                               /\ us[i].fuel = ts[i].fuel
  BY <1>2, <1>11, TurnShips DEF MovedShips
<1>13. Idle(thrust, us)
  BY <1>12 DEF Idle
<1>14. /\ MovedShips(ws, us) /\ ws \in Seq(ShipType) /\ DOMAIN ws = DOMAIN ss
       /\ \A i \in DOMAIN ss :
            /\ ws[i].pos = us[i].pos + (us[i].vel + Acceleration(rs, us[i].pos, {})) * TICK
            /\ ws[i].vel = (us[i].vel + Acceleration(rs, us[i].pos, {}))
                             + Acceleration(zs, ws[i].pos, {})
            /\ ws[i].fuel = us[i].fuel
  BY <1>3, <1>12, <1>13, HullsCoast DEF MovedShips
<1>15. /\ MovedShips(xs, ss) /\ xs \in Seq(ShipType) /\ DOMAIN xs = DOMAIN ss
       /\ \A i \in DOMAIN ss : /\ xs[i].pos = ss[i].pos /\ xs[i].vel = -ss[i].vel
                               /\ xs[i].fuel = ss[i].fuel
  BY <1>4, TurnShips DEF MovedShips
<1>16. ASSUME NEW i \in DOMAIN ss PROVE ws[i] = xs[i]
  <2>1. PICK p \in Int, v \in Int : p = ss[i].pos /\ v = ss[i].vel
    <3>1. ss[i] \in ShipType
      OBVIOUS
    <3> QED BY <3>1, ShipFields
  <2>2. PICK a \in Int : a = Acceleration(ds, p, {}) /\ a = Acceleration(zs, p, {})
    <3>1. Acceleration(ds, p, {}) \in Int
      BY AccelerationIsInt
    <3>2. Acceleration(ds, p, {}) = Acceleration(zs, p, {})
      BY SamePull
    <3> QED BY <3>1, <3>2
  <2>3. PICK q \in Int : q = ts[i].pos
    <3>1. ts[i] \in ShipType
      BY <1>11
    <3> QED BY <3>1, ShipFields
  <2>4. PICK b \in Int : b = Acceleration(es, q, {}) /\ b = Acceleration(rs, q, {})
    BY AccelerationIsInt, SamePull, SMTT(30)
  <2>5. PICK dt \in Nat : dt = TICK
    BY FlightAssumption
  <2>6. q = p + (v + a) * dt /\ ts[i].vel = (v + a) + b
    BY <1>11, <2>1, <2>2, <2>3, <2>4, <2>5
  <2>7. us[i].pos = q /\ us[i].vel = -((v + a) + b)
    BY <1>12, <2>3, <2>6
  <2>8. us[i].vel + b = -(v + a)
    BY <2>7
  <2>9. ws[i].pos = q + (-(v + a)) * dt
    BY <1>14, <2>4, <2>5, <2>7, <2>8
  <2>10. (p + (v + a) * dt) + (-(v + a)) * dt = p
    BY BackAgain
  <2>11. ws[i].pos = p
    BY <2>6, <2>9, <2>10
  <2>12. ws[i].vel = -(v + a) + a
    BY <1>14, <2>2, <2>4, <2>7, <2>8, <2>11
  <2>13. ws[i].vel = -v
    BY <2>12
  <2>14. xs[i].pos = p /\ xs[i].vel = -v /\ xs[i].fuel = ss[i].fuel
    BY <1>15, <2>1
  <2>15. SameShip(ws[i], xs[i]) /\ ws[i].fuel = xs[i].fuel
    BY <1>11, <1>12, <1>14, <1>15, <2>14 DEF MovedShips, SameShip
  <2>16. ws[i] \in ShipType /\ xs[i] \in ShipType
    BY <1>14, <1>15
  <2> QED BY <2>11, <2>13, <2>14, <2>15, <2>16, ShipsEqual
<1>17. ws = xs
  BY <1>14, <1>15, <1>16, SameSequence
<1> QED BY <1>1, <1>2, <1>3, <1>4, <1>17

\* The orbit step leads back where it came from.
LEMMA FlightIsReversible ==
  ASSUME bodies \in Seq(BodyType), ships \in Seq(ShipType)
  PROVE  Reversible
<1>1. PICK idle : idle = [i \in DOMAIN ships |-> [force |-> 0, consumed |-> 0]]
  OBVIOUS
<1>2. Idle(idle, ships)
  BY <1>1 DEF Idle
<1>3. PICK ds : ds = Drifted(KickedBodies(bodies))
  OBVIOUS
<1>4. PICK rs : rs = Turned(SkyFlown(bodies))
  OBVIOUS
<1>5. PICK es : es = Drifted(KickedBodies(rs))
  OBVIOUS
<1>6. /\ ds \in Seq(BodyType) /\ rs \in Seq(BodyType) /\ es \in Seq(BodyType)
      /\ SamePlaces(rs, ds) /\ SamePlaces(es, bodies) /\ SkyFlown(rs) = Turned(bodies)
  BY <1>3, <1>4, <1>5, BodiesFlyBack
<1>7. PICK hs : hs = HullsFlown(bodies, ships, idle, ds)
  OBVIOUS
<1>8. HullsFlown(rs, Turned(hs), idle, es) = Turned(ships)
  BY <1>2, <1>6, <1>7, HullsFlyBack
<1>9. \A bs, ss : Flown(bs, ss, idle)
                    = [bodies |-> SkyFlown(bs),
                       ships |-> HullsFlown(bs, ss, idle, Drifted(KickedBodies(bs)))]
  BY DEF Flown, SkyFlown, HullsFlown
<1>10. PICK there : there = Flown(bodies, ships, idle)
  OBVIOUS
<1>11. there.bodies = SkyFlown(bodies) /\ there.ships = hs
  BY <1>3, <1>7, <1>9, <1>10
<1>12. PICK back : back = Flown(Turned(there.bodies), Turned(there.ships), idle)
  OBVIOUS
<1>13. back.bodies = Turned(bodies) /\ back.ships = Turned(ships)
  BY <1>4, <1>5, <1>6, <1>8, <1>9, <1>11, <1>12
<1> QED BY <1>1, <1>10, <1>12, <1>13 DEF Reversible

(***************************************************************************)
(* Collisions                                                              *)
(***************************************************************************)

\* What one body absorbs, index after index.
AbsorbFold(bs, base, seq) == FoldLeft(LAMBDA t, e : Absorbing(bs, t, e), base, seq)

AbsorbSums(bs, base, seq, h) ==
  h = [s \in SUBSET (DOMAIN seq) |->
         IF s = {} THEN base ELSE Absorbing(bs, h[s \ {Max(s)}], seq[Max(s)])]

AbsorbWalk(bs, T, base, seq, G) ==
  /\ G \in [0..Len(seq) -> T] /\ G[0] = base
  /\ \A i \in 1..Len(seq) : G[i] = Absorbing(bs, G[i - 1], seq[i])

LEMMA AbsorbWalks ==
  ASSUME NEW bs, NEW S, NEW seq \in Seq(S), NEW T, NEW base \in T,
         \A e \in S : \A t \in T : Absorbing(bs, t, e) \in T
  PROVE  \E G : /\ AbsorbWalk(bs, T, base, seq, G)
               /\ AbsorbFold(bs, base, seq) = G[Len(seq)]
<1>1. PICK n \in Nat : n = Len(seq) /\ DOMAIN seq = 1..n /\ \A i \in 1..n : seq[i] \in S
  OBVIOUS
<1> DEFINE f == [i \in 1..n |-> [t \in T |-> Absorbing(bs, t, seq[i])]]
<1>2. \A i \in 1..n : \A t \in T : f[i][t] = Absorbing(bs, t, seq[i]) /\ f[i][t] \in T
  BY <1>1
<1> HIDE DEF f
<1>3. Steps(f, T, n)
  BY <1>2 DEF Steps
<1>4. PICK g : RunsUpTo(f, T, base, n, g)
  BY <1>3, RunExists
<1>5. AbsorbSums(bs, base, seq, g)
  <2>1. ASSUME NEW s \in SUBSET (1..n), s # {}
        PROVE  g[s] = Absorbing(bs, g[s \ {Max(s)}], seq[Max(s)])
    <3>1. Top(s) = Max(s)
      BY DEF Top, Max
    <3>2. Top(s) \in 1..n /\ s \ {Top(s)} \in SUBSET (1..n)
      BY <2>1, TopIn
    <3>3. g[s \ {Top(s)}] \in T
      BY <1>4, <3>2 DEF Runs, RunsUpTo
    <3>4. g[s] = f[Top(s)][g[s \ {Top(s)}]]
      BY <1>4, <2>1 DEF Runs, RunsUpTo
    <3> QED BY <1>2, <3>1, <3>2, <3>3, <3>4
  <2>2. g = [s \in SUBSET (1..n) |-> g[s]] /\ g[{}] = base
    BY <1>4 DEF Runs, RunsUpTo
  <2> QED BY <1>1, <2>1, <2>2 DEF AbsorbSums
<1> DEFINE h == CHOOSE c : AbsorbSums(bs, base, seq, c)
<1>6. AbsorbSums(bs, base, seq, h)
  BY <1>5
<1>7. AbsorbFold(bs, base, seq) = h[1..n]
  BY <1>1 DEF AbsorbFold, FoldLeft, MapThenFoldSet, AbsorbSums
<1> HIDE DEF h
<1>8. Unfolds(f, T, base, n, h)
  <2>1. \A s \in SUBSET (1..n) :
          h[s] = IF s = {} THEN base ELSE Absorbing(bs, h[s \ {Max(s)}], seq[Max(s)])
    <3>1. h = [s \in SUBSET (1..n) |->
                 IF s = {} THEN base ELSE Absorbing(bs, h[s \ {Max(s)}], seq[Max(s)])]
      BY <1>1, <1>6 DEF AbsorbSums
    <3> QED BY <3>1
  <2>2. ASSUME NEW s \in SUBSET (1..n), s # {}, h[s \ {Top(s)}] \in T
        PROVE  h[s] = f[Top(s)][h[s \ {Top(s)}]]
    <3>1. Top(s) = Max(s)
      BY DEF Top, Max
    <3>2. Top(s) \in 1..n
      BY <2>2, TopIn
    <3>3. PICK i, t : i = Top(s) /\ t = h[s \ {Top(s)}]
      OBVIOUS
    <3>4. h[s] = Absorbing(bs, t, seq[i])
      BY <2>1, <2>2, <3>1, <3>3
    <3>5. f[i][t] = Absorbing(bs, t, seq[i])
      BY <1>2, <2>2, <3>2, <3>3
    <3> QED BY <3>3, <3>4, <3>5
  <2>3. h[{}] = base
    BY <2>1
  <2> QED BY <2>2, <2>3 DEF Unfolds
<1>9. PICK G : Walks(f, T, base, n, G) /\ G[n] = h[1..n]
  BY <1>3, <1>8, RunOneByOne
<1>10. AbsorbWalk(bs, T, base, seq, G)
  <2>1. \A i \in 1..n : G[i - 1] \in T
    <3>1. \A i \in 1..n : i - 1 \in 0..n
      OBVIOUS
    <3> QED BY <1>9, <3>1 DEF Walks
  <2>2. \A i \in 1..n : G[i] = Absorbing(bs, G[i - 1], seq[i])
    BY <1>2, <1>9, <2>1 DEF Walks
  <2> QED BY <1>1, <1>9, <2>2 DEF Walks, AbsorbWalk
<1> QED BY <1>1, <1>7, <1>9, <1>10

\* One round of resolve_body_collisions.
Rounded(bs, acc, i) ==
  IF i \in acc.gone THEN acc
  ELSE LET grown == AbsorbFold(bs, [body |-> bs[i], gone |-> acc.gone], Indices(i + 1, Len(bs)))
       IN  [out |-> Append(acc.out, grown.body), gone |-> grown.gone]

\* The rounds, index after index.
RoundFold(bs, base, seq) == FoldLeft(LAMBDA t, e : Rounded(bs, t, e), base, seq)

RoundSums(bs, base, seq, h) ==
  h = [s \in SUBSET (DOMAIN seq) |->
         IF s = {} THEN base ELSE Rounded(bs, h[s \ {Max(s)}], seq[Max(s)])]

RoundWalk(bs, T, base, seq, G) ==
  /\ G \in [0..Len(seq) -> T] /\ G[0] = base
  /\ \A i \in 1..Len(seq) : G[i] = Rounded(bs, G[i - 1], seq[i])

LEMMA RoundWalks ==
  ASSUME NEW bs, NEW S, NEW seq \in Seq(S), NEW T, NEW base \in T,
         \A e \in S : \A t \in T : Rounded(bs, t, e) \in T
  PROVE  \E G : /\ RoundWalk(bs, T, base, seq, G)
               /\ RoundFold(bs, base, seq) = G[Len(seq)]
<1>1. PICK n \in Nat : n = Len(seq) /\ DOMAIN seq = 1..n /\ \A i \in 1..n : seq[i] \in S
  OBVIOUS
<1> DEFINE f == [i \in 1..n |-> [t \in T |-> Rounded(bs, t, seq[i])]]
<1>2. \A i \in 1..n : \A t \in T : f[i][t] = Rounded(bs, t, seq[i]) /\ f[i][t] \in T
  BY <1>1
<1> HIDE DEF f
<1>3. Steps(f, T, n)
  BY <1>2 DEF Steps
<1>4. PICK g : RunsUpTo(f, T, base, n, g)
  BY <1>3, RunExists
<1>5. RoundSums(bs, base, seq, g)
  <2>1. ASSUME NEW s \in SUBSET (1..n), s # {}
        PROVE  g[s] = Rounded(bs, g[s \ {Max(s)}], seq[Max(s)])
    <3>1. Top(s) = Max(s)
      BY DEF Top, Max
    <3>2. Top(s) \in 1..n /\ s \ {Top(s)} \in SUBSET (1..n)
      BY <2>1, TopIn
    <3>3. g[s \ {Top(s)}] \in T
      BY <1>4, <3>2 DEF Runs, RunsUpTo
    <3>4. g[s] = f[Top(s)][g[s \ {Top(s)}]]
      BY <1>4, <2>1 DEF Runs, RunsUpTo
    <3> QED BY <1>2, <3>1, <3>2, <3>3, <3>4
  <2>2. g = [s \in SUBSET (1..n) |-> g[s]] /\ g[{}] = base
    BY <1>4 DEF Runs, RunsUpTo
  <2> QED BY <1>1, <2>1, <2>2 DEF RoundSums
<1> DEFINE h == CHOOSE c : RoundSums(bs, base, seq, c)
<1>6. RoundSums(bs, base, seq, h)
  BY <1>5
<1>7. RoundFold(bs, base, seq) = h[1..n]
  BY <1>1 DEF RoundFold, FoldLeft, MapThenFoldSet, RoundSums
<1> HIDE DEF h
<1>8. Unfolds(f, T, base, n, h)
  <2>1. \A s \in SUBSET (1..n) :
          h[s] = IF s = {} THEN base ELSE Rounded(bs, h[s \ {Max(s)}], seq[Max(s)])
    <3>1. h = [s \in SUBSET (1..n) |->
                 IF s = {} THEN base ELSE Rounded(bs, h[s \ {Max(s)}], seq[Max(s)])]
      BY <1>1, <1>6 DEF RoundSums
    <3> QED BY <3>1
  <2>2. ASSUME NEW s \in SUBSET (1..n), s # {}, h[s \ {Top(s)}] \in T
        PROVE  h[s] = f[Top(s)][h[s \ {Top(s)}]]
    <3>1. Top(s) = Max(s)
      BY DEF Top, Max
    <3>2. Top(s) \in 1..n
      BY <2>2, TopIn
    <3>3. PICK i, t : i = Top(s) /\ t = h[s \ {Top(s)}]
      OBVIOUS
    <3>4. h[s] = Rounded(bs, t, seq[i])
      BY <2>1, <2>2, <3>1, <3>3
    <3>5. f[i][t] = Rounded(bs, t, seq[i])
      BY <1>2, <2>2, <3>2, <3>3
    <3> QED BY <3>3, <3>4, <3>5
  <2>3. h[{}] = base
    BY <2>1
  <2> QED BY <2>2, <2>3 DEF Unfolds
<1>9. PICK G : Walks(f, T, base, n, G) /\ G[n] = h[1..n]
  BY <1>3, <1>8, RunOneByOne
<1>10. RoundWalk(bs, T, base, seq, G)
  <2>1. \A i \in 1..n : G[i - 1] \in T
    <3>1. \A i \in 1..n : i - 1 \in 0..n
      OBVIOUS
    <3> QED BY <1>9, <3>1 DEF Walks
  <2>2. \A i \in 1..n : G[i] = Rounded(bs, G[i - 1], seq[i])
    BY <1>2, <1>9, <2>1 DEF Walks
  <2> QED BY <1>1, <1>9, <2>2 DEF Walks, RoundWalk
<1> QED BY <1>1, <1>7, <1>9, <1>10

\* A ship bounces off the bodies, one after the other.
OffBodyFold(base, seq) == FoldLeft(LAMBDA t, e : OffBody(t, e), base, seq)

OffBodySums(base, seq, h) ==
  h = [s \in SUBSET (DOMAIN seq) |->
         IF s = {} THEN base ELSE OffBody(h[s \ {Max(s)}], seq[Max(s)])]

OffBodyWalk(T, base, seq, G) ==
  /\ G \in [0..Len(seq) -> T] /\ G[0] = base
  /\ \A i \in 1..Len(seq) : G[i] = OffBody(G[i - 1], seq[i])

LEMMA OffBodyWalks ==
  ASSUME NEW S, NEW seq \in Seq(S), NEW T, NEW base \in T,
         \A e \in S : \A t \in T : OffBody(t, e) \in T
  PROVE  \E G : /\ OffBodyWalk(T, base, seq, G)
               /\ OffBodyFold(base, seq) = G[Len(seq)]
<1>1. PICK n \in Nat : n = Len(seq) /\ DOMAIN seq = 1..n /\ \A i \in 1..n : seq[i] \in S
  OBVIOUS
<1> DEFINE f == [i \in 1..n |-> [t \in T |-> OffBody(t, seq[i])]]
<1>2. \A i \in 1..n : \A t \in T : f[i][t] = OffBody(t, seq[i]) /\ f[i][t] \in T
  BY <1>1
<1> HIDE DEF f
<1>3. Steps(f, T, n)
  BY <1>2 DEF Steps
<1>4. PICK g : RunsUpTo(f, T, base, n, g)
  BY <1>3, RunExists
<1>5. OffBodySums(base, seq, g)
  <2>1. ASSUME NEW s \in SUBSET (1..n), s # {}
        PROVE  g[s] = OffBody(g[s \ {Max(s)}], seq[Max(s)])
    <3>1. Top(s) = Max(s)
      BY DEF Top, Max
    <3>2. Top(s) \in 1..n /\ s \ {Top(s)} \in SUBSET (1..n)
      BY <2>1, TopIn
    <3>3. g[s \ {Top(s)}] \in T
      BY <1>4, <3>2 DEF Runs, RunsUpTo
    <3>4. g[s] = f[Top(s)][g[s \ {Top(s)}]]
      BY <1>4, <2>1 DEF Runs, RunsUpTo
    <3> QED BY <1>2, <3>1, <3>2, <3>3, <3>4
  <2>2. g = [s \in SUBSET (1..n) |-> g[s]] /\ g[{}] = base
    BY <1>4 DEF Runs, RunsUpTo
  <2> QED BY <1>1, <2>1, <2>2 DEF OffBodySums
<1> DEFINE h == CHOOSE c : OffBodySums(base, seq, c)
<1>6. OffBodySums(base, seq, h)
  BY <1>5
<1>7. OffBodyFold(base, seq) = h[1..n]
  BY <1>1 DEF OffBodyFold, FoldLeft, MapThenFoldSet, OffBodySums
<1> HIDE DEF h
<1>8. Unfolds(f, T, base, n, h)
  <2>1. \A s \in SUBSET (1..n) :
          h[s] = IF s = {} THEN base ELSE OffBody(h[s \ {Max(s)}], seq[Max(s)])
    <3>1. h = [s \in SUBSET (1..n) |->
                 IF s = {} THEN base ELSE OffBody(h[s \ {Max(s)}], seq[Max(s)])]
      BY <1>1, <1>6 DEF OffBodySums
    <3> QED BY <3>1
  <2>2. ASSUME NEW s \in SUBSET (1..n), s # {}, h[s \ {Top(s)}] \in T
        PROVE  h[s] = f[Top(s)][h[s \ {Top(s)}]]
    <3>1. Top(s) = Max(s)
      BY DEF Top, Max
    <3>2. Top(s) \in 1..n
      BY <2>2, TopIn
    <3>3. PICK i, t : i = Top(s) /\ t = h[s \ {Top(s)}]
      OBVIOUS
    <3>4. h[s] = OffBody(t, seq[i])
      BY <2>1, <2>2, <3>1, <3>3
    <3>5. f[i][t] = OffBody(t, seq[i])
      BY <1>2, <2>2, <3>2, <3>3
    <3> QED BY <3>3, <3>4, <3>5
  <2>3. h[{}] = base
    BY <2>1
  <2> QED BY <2>2, <2>3 DEF Unfolds
<1>9. PICK G : Walks(f, T, base, n, G) /\ G[n] = h[1..n]
  BY <1>3, <1>8, RunOneByOne
<1>10. OffBodyWalk(T, base, seq, G)
  <2>1. \A i \in 1..n : G[i - 1] \in T
    <3>1. \A i \in 1..n : i - 1 \in 0..n
      OBVIOUS
    <3> QED BY <1>9, <3>1 DEF Walks
  <2>2. \A i \in 1..n : G[i] = OffBody(G[i - 1], seq[i])
    BY <1>2, <1>9, <2>1 DEF Walks
  <2> QED BY <1>1, <1>9, <2>2 DEF Walks, OffBodyWalk
<1> QED BY <1>1, <1>7, <1>9, <1>10

\* Ship k and the ships before it, one after the other.
OffShipFold(k, base, seq) == FoldLeft(LAMBDA t, e : OffShip(t, k, e), base, seq)

OffShipSums(k, base, seq, h) ==
  h = [s \in SUBSET (DOMAIN seq) |->
         IF s = {} THEN base ELSE OffShip(h[s \ {Max(s)}], k, seq[Max(s)])]

OffShipWalk(k, T, base, seq, G) ==
  /\ G \in [0..Len(seq) -> T] /\ G[0] = base
  /\ \A i \in 1..Len(seq) : G[i] = OffShip(G[i - 1], k, seq[i])

LEMMA OffShipWalks ==
  ASSUME NEW k, NEW S, NEW seq \in Seq(S), NEW T, NEW base \in T,
         \A e \in S : \A t \in T : OffShip(t, k, e) \in T
  PROVE  \E G : /\ OffShipWalk(k, T, base, seq, G)
               /\ OffShipFold(k, base, seq) = G[Len(seq)]
<1>1. PICK n \in Nat : n = Len(seq) /\ DOMAIN seq = 1..n /\ \A i \in 1..n : seq[i] \in S
  OBVIOUS
<1> DEFINE f == [i \in 1..n |-> [t \in T |-> OffShip(t, k, seq[i])]]
<1>2. \A i \in 1..n : \A t \in T : f[i][t] = OffShip(t, k, seq[i]) /\ f[i][t] \in T
  BY <1>1
<1> HIDE DEF f
<1>3. Steps(f, T, n)
  BY <1>2 DEF Steps
<1>4. PICK g : RunsUpTo(f, T, base, n, g)
  BY <1>3, RunExists
<1>5. OffShipSums(k, base, seq, g)
  <2>1. ASSUME NEW s \in SUBSET (1..n), s # {}
        PROVE  g[s] = OffShip(g[s \ {Max(s)}], k, seq[Max(s)])
    <3>1. Top(s) = Max(s)
      BY DEF Top, Max
    <3>2. Top(s) \in 1..n /\ s \ {Top(s)} \in SUBSET (1..n)
      BY <2>1, TopIn
    <3>3. g[s \ {Top(s)}] \in T
      BY <1>4, <3>2 DEF Runs, RunsUpTo
    <3>4. g[s] = f[Top(s)][g[s \ {Top(s)}]]
      BY <1>4, <2>1 DEF Runs, RunsUpTo
    <3> QED BY <1>2, <3>1, <3>2, <3>3, <3>4
  <2>2. g = [s \in SUBSET (1..n) |-> g[s]] /\ g[{}] = base
    BY <1>4 DEF Runs, RunsUpTo
  <2> QED BY <1>1, <2>1, <2>2 DEF OffShipSums
<1> DEFINE h == CHOOSE c : OffShipSums(k, base, seq, c)
<1>6. OffShipSums(k, base, seq, h)
  BY <1>5
<1>7. OffShipFold(k, base, seq) = h[1..n]
  BY <1>1 DEF OffShipFold, FoldLeft, MapThenFoldSet, OffShipSums
<1> HIDE DEF h
<1>8. Unfolds(f, T, base, n, h)
  <2>1. \A s \in SUBSET (1..n) :
          h[s] = IF s = {} THEN base ELSE OffShip(h[s \ {Max(s)}], k, seq[Max(s)])
    <3>1. h = [s \in SUBSET (1..n) |->
                 IF s = {} THEN base ELSE OffShip(h[s \ {Max(s)}], k, seq[Max(s)])]
      BY <1>1, <1>6 DEF OffShipSums
    <3> QED BY <3>1
  <2>2. ASSUME NEW s \in SUBSET (1..n), s # {}, h[s \ {Top(s)}] \in T
        PROVE  h[s] = f[Top(s)][h[s \ {Top(s)}]]
    <3>1. Top(s) = Max(s)
      BY DEF Top, Max
    <3>2. Top(s) \in 1..n
      BY <2>2, TopIn
    <3>3. PICK i, t : i = Top(s) /\ t = h[s \ {Top(s)}]
      OBVIOUS
    <3>4. h[s] = OffShip(t, k, seq[i])
      BY <2>1, <2>2, <3>1, <3>3
    <3>5. f[i][t] = OffShip(t, k, seq[i])
      BY <1>2, <2>2, <3>2, <3>3
    <3> QED BY <3>3, <3>4, <3>5
  <2>3. h[{}] = base
    BY <2>1
  <2> QED BY <2>2, <2>3 DEF Unfolds
<1>9. PICK G : Walks(f, T, base, n, G) /\ G[n] = h[1..n]
  BY <1>3, <1>8, RunOneByOne
<1>10. OffShipWalk(k, T, base, seq, G)
  <2>1. \A i \in 1..n : G[i - 1] \in T
    <3>1. \A i \in 1..n : i - 1 \in 0..n
      OBVIOUS
    <3> QED BY <1>9, <3>1 DEF Walks
  <2>2. \A i \in 1..n : G[i] = OffShip(G[i - 1], k, seq[i])
    BY <1>2, <1>9, <2>1 DEF Walks
  <2> QED BY <1>1, <1>9, <2>2 DEF Walks, OffShipWalk
<1> QED BY <1>1, <1>7, <1>9, <1>10

OffEarlier(ss, k) == OffShipFold(k, ss, Indices(1, k - 1))

\* Every ship and the ships before it.
EarlierFold(base, seq) == FoldLeft(LAMBDA t, e : OffEarlier(t, e), base, seq)

EarlierSums(base, seq, h) ==
  h = [s \in SUBSET (DOMAIN seq) |->
         IF s = {} THEN base ELSE OffEarlier(h[s \ {Max(s)}], seq[Max(s)])]

EarlierWalk(T, base, seq, G) ==
  /\ G \in [0..Len(seq) -> T] /\ G[0] = base
  /\ \A i \in 1..Len(seq) : G[i] = OffEarlier(G[i - 1], seq[i])

LEMMA EarlierWalks ==
  ASSUME NEW S, NEW seq \in Seq(S), NEW T, NEW base \in T,
         \A e \in S : \A t \in T : OffEarlier(t, e) \in T
  PROVE  \E G : /\ EarlierWalk(T, base, seq, G)
               /\ EarlierFold(base, seq) = G[Len(seq)]
<1>1. PICK n \in Nat : n = Len(seq) /\ DOMAIN seq = 1..n /\ \A i \in 1..n : seq[i] \in S
  OBVIOUS
<1> DEFINE f == [i \in 1..n |-> [t \in T |-> OffEarlier(t, seq[i])]]
<1>2. \A i \in 1..n : \A t \in T : f[i][t] = OffEarlier(t, seq[i]) /\ f[i][t] \in T
  BY <1>1
<1> HIDE DEF f
<1>3. Steps(f, T, n)
  BY <1>2 DEF Steps
<1>4. PICK g : RunsUpTo(f, T, base, n, g)
  BY <1>3, RunExists
<1>5. EarlierSums(base, seq, g)
  <2>1. ASSUME NEW s \in SUBSET (1..n), s # {}
        PROVE  g[s] = OffEarlier(g[s \ {Max(s)}], seq[Max(s)])
    <3>1. Top(s) = Max(s)
      BY DEF Top, Max
    <3>2. Top(s) \in 1..n /\ s \ {Top(s)} \in SUBSET (1..n)
      BY <2>1, TopIn
    <3>3. g[s \ {Top(s)}] \in T
      BY <1>4, <3>2 DEF Runs, RunsUpTo
    <3>4. g[s] = f[Top(s)][g[s \ {Top(s)}]]
      BY <1>4, <2>1 DEF Runs, RunsUpTo
    <3> QED BY <1>2, <3>1, <3>2, <3>3, <3>4
  <2>2. g = [s \in SUBSET (1..n) |-> g[s]] /\ g[{}] = base
    BY <1>4 DEF Runs, RunsUpTo
  <2> QED BY <1>1, <2>1, <2>2 DEF EarlierSums
<1> DEFINE h == CHOOSE c : EarlierSums(base, seq, c)
<1>6. EarlierSums(base, seq, h)
  BY <1>5
<1>7. EarlierFold(base, seq) = h[1..n]
  BY <1>1 DEF EarlierFold, FoldLeft, MapThenFoldSet, EarlierSums
<1> HIDE DEF h
<1>8. Unfolds(f, T, base, n, h)
  <2>1. \A s \in SUBSET (1..n) :
          h[s] = IF s = {} THEN base ELSE OffEarlier(h[s \ {Max(s)}], seq[Max(s)])
    <3>1. h = [s \in SUBSET (1..n) |->
                 IF s = {} THEN base ELSE OffEarlier(h[s \ {Max(s)}], seq[Max(s)])]
      BY <1>1, <1>6 DEF EarlierSums
    <3> QED BY <3>1
  <2>2. ASSUME NEW s \in SUBSET (1..n), s # {}, h[s \ {Top(s)}] \in T
        PROVE  h[s] = f[Top(s)][h[s \ {Top(s)}]]
    <3>1. Top(s) = Max(s)
      BY DEF Top, Max
    <3>2. Top(s) \in 1..n
      BY <2>2, TopIn
    <3>3. PICK i, t : i = Top(s) /\ t = h[s \ {Top(s)}]
      OBVIOUS
    <3>4. h[s] = OffEarlier(t, seq[i])
      BY <2>1, <2>2, <3>1, <3>3
    <3>5. f[i][t] = OffEarlier(t, seq[i])
      BY <1>2, <2>2, <3>2, <3>3
    <3> QED BY <3>3, <3>4, <3>5
  <2>3. h[{}] = base
    BY <2>1
  <2> QED BY <2>2, <2>3 DEF Unfolds
<1>9. PICK G : Walks(f, T, base, n, G) /\ G[n] = h[1..n]
  BY <1>3, <1>8, RunOneByOne
<1>10. EarlierWalk(T, base, seq, G)
  <2>1. \A i \in 1..n : G[i - 1] \in T
    <3>1. \A i \in 1..n : i - 1 \in 0..n
      OBVIOUS
    <3> QED BY <1>9, <3>1 DEF Walks
  <2>2. \A i \in 1..n : G[i] = OffEarlier(G[i - 1], seq[i])
    BY <1>2, <1>9, <2>1 DEF Walks
  <2> QED BY <1>1, <1>9, <2>2 DEF Walks, EarlierWalk
<1> QED BY <1>1, <1>7, <1>9, <1>10

LEMMA CollisionsAreFolds ==
  ASSUME NEW bs, NEW ss
  PROVE  /\ ResolvedBodies(bs) = RoundFold(bs, [out |-> <<>>, gone |-> {}], Indices(1, Len(bs))).out
         /\ OffBodies(ss, bs) = [i \in DOMAIN ss |-> OffBodyFold(ss[i], bs)]
         /\ OffShips(ss) = EarlierFold(ss, Indices(1, Len(ss)))
<1>1. ResolvedBodies(bs) = RoundFold(bs, [out |-> <<>>, gone |-> {}], Indices(1, Len(bs))).out
  BY DEF ResolvedBodies, RoundFold, Rounded, AbsorbFold, FoldLeft, MapThenFoldSet
<1>2. OffBodies(ss, bs) = [i \in DOMAIN ss |-> OffBodyFold(ss[i], bs)]
  BY DEF OffBodies, OffBodyFold, FoldLeft, MapThenFoldSet
<1>3. OffShips(ss) = EarlierFold(ss, Indices(1, Len(ss)))
  BY DEF OffShips, EarlierFold, OffEarlier, OffShipFold, FoldLeft, MapThenFoldSet
<1> QED BY <1>1, <1>2, <1>3

LEMMA IndicesRange ==
  ASSUME NEW from \in Nat, NEW to \in Nat, from <= to + 1
  PROVE  /\ Indices(from, to) \in Seq(from..to) /\ Len(Indices(from, to)) = to - from + 1
         /\ \A k \in 1..(to - from + 1) : Indices(from, to)[k] = from + k - 1
<1>1. PICK m \in Nat : m = to - from + 1
  OBVIOUS
<1>2. PICK s : s = Indices(from, to)
  OBVIOUS
<1>3. s = [k \in 1..m |-> from + k - 1]
  BY <1>1, <1>2 DEF Indices
<1>4. \A k \in 1..m : from + k - 1 \in from..to
  BY <1>1
<1>5. \A k \in 1..m : s[k] = from + k - 1 /\ s[k] \in from..to
  BY <1>3, <1>4
<1>6. s \in Seq(from..to) /\ Len(s) = m
  <2>1. PICK K : K = from..to
    OBVIOUS
  <2>2. s \in [1..m -> K]
    BY <1>3, <1>5, <2>1
  <2> QED BY <2>1, <2>2
<1> QED BY <1>1, <1>2, <1>5, <1>6

LEMMA IndicesUpTo ==
  ASSUME NEW n \in Nat
  PROVE  /\ Indices(1, n) \in Seq(1..n) /\ Len(Indices(1, n)) = n
         /\ \A k \in 1..n : Indices(1, n)[k] = k
<1>1. PICK one \in Nat : one = 1
  OBVIOUS
<1>2. one <= n + 1 /\ n - one + 1 = n /\ \A k \in 1..n : one + k - 1 = k
  BY <1>1
<1>3. /\ Indices(one, n) \in Seq(one..n) /\ Len(Indices(one, n)) = n - one + 1
      /\ \A k \in 1..(n - one + 1) : Indices(one, n)[k] = one + k - 1
  BY <1>2, IndicesRange
<1>4. Len(Indices(one, n)) = n /\ \A k \in 1..n : Indices(one, n)[k] = k
  BY <1>2, <1>3
<1> QED BY <1>1, <1>3, <1>4

Cube(x) == x * x * x

\* The cube root is there, at least as large as every number whose cube fits.
LEMMA CubeRootIsNat ==
  ASSUME NEW v \in Nat
  PROVE  /\ CubeRoot(v) \in 0..v
         /\ Cube(CubeRoot(v)) <= v /\ Cube(CubeRoot(v) + 1) > v
<1> DEFINE fits == {r \in 0..v : Cube(r) <= v}
<1>1. 0 \in fits
  BY DEF Cube
<1>2. fits \subseteq 0..v /\ \A r \in fits : Cube(r) <= v
  OBVIOUS
<1>3. \A r \in 0..v : Cube(r) <= v => r \in fits
  OBVIOUS
<1> HIDE DEF fits
<1>4. PICK r \in fits : \A q \in fits : q <= r
  BY <1>1, <1>2, GreatestNumber
<1>5. r \in 0..v /\ Cube(r) <= v
  BY <1>2
<1>6. Cube(r + 1) > v
  <2>1. CASE r = v
    <3>1. PICK x \in Nat : x = v + 1 /\ x > 0
      OBVIOUS
    <3>2. x * x >= x
      BY <3>1
    <3>3. PICK y \in Nat : y = x * x
      BY <3>1
    <3>4. y * x >= y
      BY <3>1, <3>3
    <3> QED BY <2>1, <3>1, <3>2, <3>3, <3>4 DEF Cube
  <2>2. CASE r # v
    <3>1. r + 1 \in 0..v
      BY <1>5, <2>2
    <3>2. r + 1 \notin fits
      BY <1>4, <1>5
    <3>3. ~ (Cube(r + 1) <= v)
      BY <1>3, <3>1, <3>2
    <3>4. Cube(r + 1) \in Int
      BY <1>5 DEF Cube
    <3> QED BY <3>3, <3>4
  <2> QED BY <2>1, <2>2
<1>7. \E q \in 0..v : q * q * q <= v /\ (q + 1) * (q + 1) * (q + 1) > v
  BY <1>5, <1>6 DEF Cube
<1> QED BY <1>7 DEF CubeRoot, Cube

LEMMA WeightedIsInt ==
  ASSUME NEW a \in BodyType, NEW b \in BodyType, a.mass + b.mass > 0, NEW x \in Int, NEW y \in Int
  PROVE  /\ Weighted(x, y, a, b) \in Int
         /\ (x \in Nat /\ y \in Nat => Weighted(x, y, a, b) \in Nat)
<1>1. PICK m \in Nat, n \in Nat : m = a.mass /\ n = b.mass
  BY BodyFields
<1>2. PICK s \in Nat : s = m + n /\ s > 0
  BY <1>1
<1>3. PICK p \in Int : p = x * m /\ (x \in Nat => p \in Nat)
  BY Multiplying
<1>4. PICK q \in Int : q = y * n /\ (y \in Nat => q \in Nat)
  BY Multiplying
<1>5. PICK t \in Int : t = p + q /\ (x \in Nat /\ y \in Nat => t \in Nat)
  BY <1>3, <1>4
<1>6. t \div s \in Int /\ (t \in Nat => t \div s \in Nat)
  BY <1>2, Dividing
<1> QED BY <1>1, <1>2, <1>3, <1>4, <1>5, <1>6 DEF Weighted

\* A body that absorbed another goes on under its own name, and is no lighter.
GoesOn(a, b) ==
  /\ a.id = b.id /\ a.name = b.name /\ a.generation = b.generation /\ a.capacity = b.capacity
  /\ a.area = b.area /\ a.albedo = b.albedo

LEMMA MergedGoesOn ==
  ASSUME NEW a \in BodyType, NEW b \in BodyType, a.mass + b.mass > 0
  PROVE  Merged(a, b) \in BodyType /\ GoesOn(Merged(a, b), a) /\ Merged(a, b).mass = a.mass + b.mass
<1>1. /\ a.pos \in Int /\ b.pos \in Int /\ a.vel \in Int /\ b.vel \in Int
      /\ a.temp \in Nat /\ b.temp \in Nat /\ a.temp \in Int /\ b.temp \in Int
      /\ a.radius \in Nat /\ b.radius \in Nat /\ a.mass \in Nat /\ b.mass \in Nat
  BY BodyFields
<1>2. PICK v \in Int : v = Weighted(a.vel, b.vel, a, b)
  BY <1>1, WeightedIsInt
<1>3. PICK x \in Int : x = Weighted(a.pos, b.pos, a, b)
  BY <1>1, WeightedIsInt
<1>4. PICK t \in Nat : t = Weighted(a.temp, b.temp, a, b)
  BY <1>1, WeightedIsInt
<1>5. PICK r \in Nat : r = CubeRoot(a.radius * a.radius * a.radius + b.radius * b.radius * b.radius)
  <2>1. PICK c \in Nat : c = a.radius * a.radius * a.radius
    <3>1. a.radius * a.radius \in Nat
      BY <1>1, Multiplying
    <3> QED BY <1>1, <3>1, Multiplying
  <2>2. PICK d \in Nat : d = b.radius * b.radius * b.radius
    <3>1. b.radius * b.radius \in Nat
      BY <1>1, Multiplying
    <3> QED BY <1>1, <3>1, Multiplying
  <2>3. PICK e \in Nat : e = c + d
    BY <2>1, <2>2
  <2>4. CubeRoot(e) \in 0..e
    BY CubeRootIsNat
  <2>5. CubeRoot(e) \in Nat
    BY <2>4
  <2> QED BY <2>1, <2>2, <2>3, <2>5
<1>6. PICK m \in Nat : m = a.mass + b.mass
  BY <1>1
<1>7. Merged(a, b) = [a EXCEPT !.mass = m, !.vel = v, !.pos = x, !.radius = r, !.temp = t]
  BY <1>2, <1>3, <1>4, <1>5, <1>6 DEF Merged
<1>8. LET c == [a EXCEPT !.mass = m, !.vel = v, !.pos = x, !.radius = r, !.temp = t]
      IN  c \in BodyType /\ GoesOn(c, a) /\ c.mass = m
  BY DEF BodyType, GoesOn
<1> QED BY <1>6, <1>7, <1>8

\* At most one body is without mass.
OneMassless(bs) ==
  \A i, j \in DOMAIN bs : bs[i].mass = 0 /\ bs[j].mass = 0 => i = j

\* What is left of a body while others run into it, and which did.
Descends(b, c) == b \in BodyType /\ GoesOn(b, c) /\ b.mass >= c.mass

Absorbers(bs, i) ==
  {acc \in [body : BodyType, gone : SUBSET (1..Len(bs))] : Descends(acc.body, bs[i])}

LEMMA AbsorbingGoesOn ==
  ASSUME NEW bs \in Seq(BodyType), OneMassless(bs), NEW i \in DOMAIN bs,
         NEW acc \in Absorbers(bs, i), NEW j \in (i + 1)..Len(bs)
  PROVE  Absorbing(bs, acc, j) \in Absorbers(bs, i)
<1>1. /\ acc = [body |-> acc.body, gone |-> acc.gone]
      /\ acc.body \in BodyType /\ acc.gone \subseteq 1..Len(bs) /\ Descends(acc.body, bs[i])
  BY DEF Absorbers
<1>2. Len(bs) \in Nat /\ i \in 1..Len(bs) /\ j \in 1..Len(bs) /\ j # i /\ j \in DOMAIN bs
  OBVIOUS
<1>3. PICK a \in BodyType, b \in BodyType, c \in BodyType : a = acc.body /\ b = bs[j] /\ c = bs[i]
  BY <1>1, <1>2
<1>4. a.mass \in Nat /\ b.mass \in Nat /\ c.mass \in Nat
  BY BodyFields
<1>5. a.mass + b.mass > 0
  BY <1>1, <1>2, <1>3, <1>4 DEF OneMassless, Descends
<1>6. Merged(a, b) \in BodyType /\ GoesOn(Merged(a, b), a) /\ Merged(a, b).mass = a.mass + b.mass
  BY <1>5, MergedGoesOn
<1>7. Descends(Merged(a, b), c)
  BY <1>1, <1>3, <1>4, <1>6 DEF Descends, GoesOn
<1>8. CASE Absorbing(bs, acc, j) = acc
  BY <1>8
<1>9. CASE Absorbing(bs, acc, j) = [body |-> Merged(a, b), gone |-> acc.gone \cup {j}]
  <2>1. PICK gone : gone = acc.gone \cup {j} /\ gone \in SUBSET (1..Len(bs))
    BY <1>1, <1>2
  <2> QED BY <1>3, <1>6, <1>7, <1>9, <2>1 DEF Absorbers
<1> QED BY <1>3, <1>8, <1>9 DEF Absorbing

\* What a round makes of its body.
LEMMA AbsorbedGoesOn ==
  ASSUME NEW bs \in Seq(BodyType), OneMassless(bs), NEW i \in DOMAIN bs,
         NEW gone \in SUBSET (1..Len(bs))
  PROVE  AbsorbFold(bs, [body |-> bs[i], gone |-> gone], Indices(i + 1, Len(bs))) \in Absorbers(bs, i)
<1>1. PICK n \in Nat : n = Len(bs) /\ i \in 1..n
  OBVIOUS
<1>2. PICK S : S = (i + 1)..n
  OBVIOUS
<1>3. PICK seq \in Seq(S) : seq = Indices(i + 1, n)
  <2>1. i + 1 \in Nat /\ i + 1 <= n + 1
    BY <1>1
  <2> QED BY <1>2, <2>1, IndicesRange
<1>4. PICK base \in Absorbers(bs, i) : base = [body |-> bs[i], gone |-> gone]
  <2>1. bs[i] \in BodyType
    OBVIOUS
  <2>2. Descends(bs[i], bs[i])
    <3>1. bs[i].mass \in Nat
      BY <2>1, BodyFields
    <3> QED BY <2>1, <3>1 DEF Descends, GoesOn
  <2> QED BY <2>1, <2>2 DEF Absorbers
<1>5. PICK T : T = Absorbers(bs, i)
  OBVIOUS
<1>6. \A e \in S : \A t \in T : Absorbing(bs, t, e) \in T
  BY <1>1, <1>2, <1>5, AbsorbingGoesOn
<1>7. PICK G : AbsorbWalk(bs, T, base, seq, G) /\ AbsorbFold(bs, base, seq) = G[Len(seq)]
  BY <1>4, <1>5, <1>6, AbsorbWalks
<1>8. AbsorbFold(bs, base, seq) \in T
  <2>1. PICK m \in Nat : m = Len(seq)
    OBVIOUS
  <2>2. G \in [0..m -> T] /\ m \in 0..m
    BY <1>7, <2>1 DEF AbsorbWalk
  <2> QED BY <1>7, <2>1, <2>2
<1> QED BY <1>1, <1>3, <1>4, <1>5, <1>8

Accumulators(bs) == [out : Seq(BodyType), gone : SUBSET (1..Len(bs))]

\* The bodies that are left descend from some of the first i, in their order.
DescendFrom(bs, i, out, w) ==
  /\ w \in [1..Len(out) -> 1..i]
  /\ \A k, l \in 1..Len(out) : k < l => w[k] < w[l]
  /\ \A k \in 1..Len(out) : Descends(out[k], bs[w[k]])

Kept(bs, i, out) == \E w : DescendFrom(bs, i, out, w)

LEMMA RoundStays ==
  ASSUME NEW bs \in Seq(BodyType), OneMassless(bs), NEW i \in 1..Len(bs), NEW acc \in Accumulators(bs)
  PROVE  /\ Rounded(bs, acc, i) \in Accumulators(bs)
         /\ \/ Rounded(bs, acc, i).out = acc.out
            \/ \E b \in BodyType : Descends(b, bs[i]) /\ Rounded(bs, acc, i).out = Append(acc.out, b)
<1>1. acc.out \in Seq(BodyType) /\ acc.gone \in SUBSET (1..Len(bs)) /\ i \in DOMAIN bs
  BY DEF Accumulators
<1>2. PICK grown : grown = AbsorbFold(bs, [body |-> bs[i], gone |-> acc.gone], Indices(i + 1, Len(bs)))
  OBVIOUS
<1>3. grown \in Absorbers(bs, i)
  BY <1>1, <1>2, AbsorbedGoesOn
<1>4. PICK b \in BodyType, gone \in SUBSET (1..Len(bs)) :
        b = grown.body /\ gone = grown.gone /\ Descends(b, bs[i])
  BY <1>3 DEF Absorbers
<1>5. CASE i \in acc.gone
  BY <1>5 DEF Rounded
<1>6. CASE i \notin acc.gone
  <2>1. Rounded(bs, acc, i) = [out |-> Append(acc.out, b), gone |-> gone]
    BY <1>2, <1>4, <1>6 DEF Rounded
  <2>2. Append(acc.out, b) \in Seq(BodyType)
    BY <1>1
  <2> QED BY <1>4, <2>1, <2>2 DEF Accumulators
<1> QED BY <1>5, <1>6

\* Whose descendants are left after one more.
WithOneMore(w, m, i) == [k \in 1..(m + 1) |-> IF k = m + 1 THEN i ELSE w[k]]

LEMMA DescendOn ==
  ASSUME NEW bs, NEW i \in Nat, i > 0, NEW out \in Seq(BodyType), NEW w,
         DescendFrom(bs, i - 1, out, w)
  PROVE  /\ DescendFrom(bs, i, out, w)
         /\ \A b \in BodyType : Descends(b, bs[i]) =>
              DescendFrom(bs, i, Append(out, b), WithOneMore(w, Len(out), i))
<1>1. PICK m \in Nat : m = Len(out)
  OBVIOUS
<1>2. w \in [1..m -> 1..(i - 1)]
  BY <1>1 DEF DescendFrom
<1>3. \A k \in 1..m : w[k] \in 1..i /\ w[k] < i
  BY <1>2
<1>4. DescendFrom(bs, i, out, w)
  <2>1. w \in [1..m -> 1..i]
    BY <1>2, <1>3
  <2> QED BY <1>1, <2>1 DEF DescendFrom
<1>5. ASSUME NEW b \in BodyType, Descends(b, bs[i])
      PROVE  DescendFrom(bs, i, Append(out, b), WithOneMore(w, m, i))
  <2>1. PICK longer : longer = Append(out, b)
    OBVIOUS
  <2>2. Len(longer) = m + 1 /\ longer[m + 1] = b /\ \A k \in 1..m : longer[k] = out[k]
    BY <1>1, <2>1
  <2>3. PICK x : x = WithOneMore(w, m, i)
    OBVIOUS
  <2>4. x[m + 1] = i /\ \A k \in 1..m : x[k] = w[k]
    BY <2>3 DEF WithOneMore
  <2>5. \A k \in 1..(m + 1) : x[k] \in 1..i
    BY <1>3, <2>4
  <2>6. x \in [1..(m + 1) -> 1..i]
    BY <2>3, <2>5 DEF WithOneMore
  <2>7. \A k, l \in 1..(m + 1) : k < l => x[k] < x[l]
    <3> SUFFICES ASSUME NEW k \in 1..(m + 1), NEW l \in 1..(m + 1), k < l PROVE x[k] < x[l]
      OBVIOUS
    <3>1. k \in 1..m /\ x[k] = w[k]
      BY <2>4
    <3>2. CASE l = m + 1
      BY <1>3, <2>4, <3>1, <3>2
    <3>3. CASE l \in 1..m
      BY <1>1, <2>4, <3>1, <3>3 DEF DescendFrom
    <3> QED BY <3>2, <3>3
  <2>8. \A k \in 1..(m + 1) : Descends(longer[k], bs[x[k]])
    BY <1>1, <1>5, <2>2, <2>4 DEF DescendFrom
  <2> QED BY <2>1, <2>2, <2>3, <2>6, <2>7, <2>8 DEF DescendFrom
<1> QED BY <1>1, <1>4, <1>5

\* Who is left after all rounds.
LEMMA ResolvedDescend ==
  ASSUME NEW bs \in Seq(BodyType), OneMassless(bs)
  PROVE  ResolvedBodies(bs) \in Seq(BodyType) /\ Kept(bs, Len(bs), ResolvedBodies(bs))
<1>1. PICK n \in Nat : n = Len(bs)
  OBVIOUS
<1>2. PICK S : S = 1..n
  OBVIOUS
<1>3. PICK seq \in Seq(S) : seq = Indices(1, n) /\ Len(seq) = n /\ \A k \in 1..n : seq[k] = k
  BY <1>2, IndicesUpTo
<1>4. PICK T : T = Accumulators(bs)
  OBVIOUS
<1>5. PICK base \in T : base = [out |-> <<>>, gone |-> {}]
  <2>1. PICK R : R = BodyType
    OBVIOUS
  <2>2. <<>> \in Seq(R) /\ {} \in SUBSET (1..Len(bs))
    OBVIOUS
  <2> QED BY <1>4, <2>1, <2>2 DEF Accumulators
<1>6. \A e \in S : \A t \in T : Rounded(bs, t, e) \in T
  BY <1>1, <1>2, <1>4, RoundStays
<1>7. PICK G : RoundWalk(bs, T, base, seq, G) /\ RoundFold(bs, base, seq) = G[Len(seq)]
  BY <1>6, RoundWalks
<1>8. G \in [0..n -> T] /\ G[0] = base /\ \A i \in 1..n : G[i] = Rounded(bs, G[i - 1], i)
  BY <1>3, <1>7 DEF RoundWalk
<1> DEFINE P == {i \in 0..n : Kept(bs, i, G[i].out)}
<1>9. 0 \in P
  <2>1. DescendFrom(bs, 0, <<>>, <<>>)
    BY DEF DescendFrom
  <2> QED BY <1>5, <1>8, <2>1 DEF Kept
<1>10. ASSUME NEW i \in 1..n, i - 1 \in P PROVE i \in P
  <2>1. i - 1 \in 0..n /\ i \in 0..n /\ Kept(bs, i - 1, G[i - 1].out)
    BY <1>10
  <2>2. PICK acc \in Accumulators(bs) : acc = G[i - 1]
    BY <1>4, <1>8, <2>1
  <2>3. PICK next : next = Rounded(bs, acc, i) /\ next = G[i]
    BY <1>8, <2>2
  <2>4. i \in 1..Len(bs) /\ i \in Nat /\ i > 0
    BY <1>1
  <2>5. next.out = acc.out \/ \E b \in BodyType : Descends(b, bs[i]) /\ next.out = Append(acc.out, b)
    BY <2>3, <2>4, RoundStays
  <2>6. acc.out \in Seq(BodyType)
    BY DEF Accumulators
  <2>7. PICK out \in Seq(BodyType) : out = acc.out
    BY <2>6
  <2>8. /\ Kept(bs, i, out)
        /\ \A b \in BodyType : Descends(b, bs[i]) => Kept(bs, i, Append(out, b))
    <3>1. PICK w : DescendFrom(bs, i - 1, out, w)
      BY <2>1, <2>2, <2>7 DEF Kept
    <3>2. /\ DescendFrom(bs, i, out, w)
          /\ \A b \in BodyType : Descends(b, bs[i]) =>
               DescendFrom(bs, i, Append(out, b), WithOneMore(w, Len(out), i))
      BY <2>4, <2>7, <3>1, DescendOn
    <3> QED BY <3>2 DEF Kept
  <2>9. Kept(bs, i, next.out)
    BY <2>5, <2>7, <2>8
  <2> QED BY <2>1, <2>3, <2>9
<1>11. \A i \in 0..n : i \in P
  <2> HIDE DEF P
  <2> QED BY <1>9, <1>10, Upwards
<1>12. G[n] \in Accumulators(bs) /\ Kept(bs, n, G[n].out)
  <2>1. n \in 0..n
    OBVIOUS
  <2> QED BY <1>4, <1>8, <1>11, <2>1
<1>13. ResolvedBodies(bs) = G[n].out
  BY <1>1, <1>3, <1>5, <1>7, CollisionsAreFolds
<1> QED BY <1>1, <1>12, <1>13 DEF Accumulators

\* Collisions make no second massless body and no new name.
LEMMA ResolvedBodiesType ==
  ASSUME NEW bs \in Seq(BodyType), OneMassless(bs)
  PROVE  /\ ResolvedBodies(bs) \in Seq(BodyType) /\ OneMassless(ResolvedBodies(bs))
         /\ \A k \in DOMAIN ResolvedBodies(bs) : \E i \in DOMAIN bs : ResolvedBodies(bs)[k].id = bs[i].id
<1>1. PICK out \in Seq(BodyType) : out = ResolvedBodies(bs) /\ Kept(bs, Len(bs), out)
  BY ResolvedDescend
<1>2. PICK w : DescendFrom(bs, Len(bs), out, w)
  BY <1>1 DEF Kept
<1>3. PICK m \in Nat, n \in Nat : m = Len(out) /\ n = Len(bs) /\ DOMAIN out = 1..m /\ DOMAIN bs = 1..n
  OBVIOUS
<1>4. /\ \A k \in 1..m : w[k] \in 1..n
      /\ \A k, l \in 1..m : k < l => w[k] < w[l]
      /\ \A k \in 1..m : Descends(out[k], bs[w[k]])
  BY <1>2, <1>3 DEF DescendFrom
<1>5. \A k \in 1..m : out[k].mass \in Nat /\ bs[w[k]].mass \in Nat
  BY <1>3, <1>4, BodyFields
<1>6. OneMassless(out)
  <2> SUFFICES ASSUME NEW k \in 1..m, NEW l \in 1..m, out[k].mass = 0, out[l].mass = 0 PROVE k = l
    BY <1>3 DEF OneMassless
  <2>1. bs[w[k]].mass = 0 /\ bs[w[l]].mass = 0
    BY <1>4, <1>5, SMTT(30) DEF Descends
  <2>2. w[k] = w[l] /\ w[k] \in 1..n /\ w[l] \in 1..n
    BY <1>3, <1>4, <2>1 DEF OneMassless
  <2>3. w[k] \in Int /\ w[l] \in Int
    BY <2>2
  <2>4. ~(k < l) /\ ~(l < k)
    <3>1. k < l => w[k] < w[l]
      BY <1>4
    <3>2. l < k => w[l] < w[k]
      BY <1>4
    <3> QED BY <2>2, <2>3, <3>1, <3>2
  <2>5. k \in Int /\ l \in Int
    OBVIOUS
  <2> QED BY <2>4, <2>5
<1>7. \A k \in DOMAIN out : \E i \in DOMAIN bs : out[k].id = bs[i].id
  BY <1>3, <1>4 DEF Descends, GoesOn
<1> QED BY <1>1, <1>6, <1>7

LEMMA BouncedMoves ==
  ASSUME NEW ship \in ShipType, NEW mass \in Nat, NEW vel \in Int, NEW normal \in Int, NEW overlap \in Int
  PROVE  Bounced(ship, mass, vel, normal, overlap) \in ShipType
         /\ SameShip(Bounced(ship, mass, vel, normal, overlap), ship)
<1>1. ship.vel \in Int /\ ship.pos \in Int /\ ShipMass(ship) \in Nat /\ ShipMass(ship) > 0
  BY ShipFields
<1>2. PICK parting \in Int : parting = (ship.vel - vel) * normal
  <2>1. PICK d \in Int : d = ship.vel - vel
    BY <1>1
  <2> QED BY <2>1, Multiplying
<1>3. PICK up \in Int : up = 3 * parting * mass
  <2>1. PICK d \in Int : d = 3 * parting
    OBVIOUS
  <2> QED BY <2>1, Multiplying
<1>4. PICK down \in Nat : down = 2 * (ShipMass(ship) + mass) /\ down > 0
  BY <1>1
<1>5. PICK kick \in Int : kick = up \div down
  BY <1>4, Dividing
<1>6. PICK v \in Int : v = ship.vel - normal * kick
  <2>1. PICK d \in Int : d = normal * kick
    BY Multiplying
  <2> QED BY <1>1, <2>1
<1>7. PICK x \in Int : x = ship.pos - normal * (overlap \div 5)
  <2>1. PICK o \in Int : o = overlap \div 5
    OBVIOUS
  <2>2. PICK d \in Int : d = normal * o
    BY Multiplying
  <2> QED BY <1>1, <2>1, <2>2
<1>8. PICK moved \in ShipType : moved = [ship EXCEPT !.vel = v] /\ SameShip(moved, ship)
                                  /\ moved.pos = ship.pos
  <2>1. /\ [ship EXCEPT !.vel = v] \in ShipType /\ SameShip([ship EXCEPT !.vel = v], ship)
        /\ [ship EXCEPT !.vel = v].pos = ship.pos
    BY ShipMoves
  <2>2. PICK s : s = [ship EXCEPT !.vel = v]
    OBVIOUS
  <2>3. s \in ShipType /\ SameShip(s, ship) /\ s.pos = ship.pos
    BY <2>1, <2>2
  <2> QED BY <2>2, <2>3
<1>9. [moved EXCEPT !.pos = x] \in ShipType /\ SameShip([moved EXCEPT !.pos = x], moved)
  BY ShipMoves
<1>10. [moved EXCEPT !.pos = x] = [ship EXCEPT !.vel = v, !.pos = x]
  BY <1>8 DEF ShipType
<1>11. CASE parting > 0
  <2>1. Bounced(ship, mass, vel, normal, overlap) = ship
    BY <1>2, <1>11 DEF Bounced
  <2> QED BY <2>1 DEF SameShip
<1>12. CASE ~ (parting > 0)
  <2>1. Bounced(ship, mass, vel, normal, overlap)
          = [ship EXCEPT
              !.vel = @ - normal * ((3 * ((ship.vel - vel) * normal) * mass) \div (2 * (ShipMass(ship) + mass))),
              !.pos = @ - normal * (overlap \div 5)]
    BY <1>2, <1>12 DEF Bounced
  <2>2. Bounced(ship, mass, vel, normal, overlap)
          = [ship EXCEPT !.vel = @ - normal * kick, !.pos = @ - normal * (overlap \div 5)]
    BY <1>2, <1>3, <1>4, <1>5, <2>1
  <2>3. Bounced(ship, mass, vel, normal, overlap) = [ship EXCEPT !.vel = v, !.pos = x]
    BY <1>6, <1>7, <2>2 DEF ShipType
  <2> QED BY <1>8, <1>9, <1>10, <2>3 DEF SameShip
<1> QED BY <1>11, <1>12

Hulls(s) == {t \in ShipType : SameShip(t, s)}

LEMMA NormalIsInt ==
  ASSUME NEW ship, NEW x
  PROVE  Normal(ship, x) \in Int /\ -Normal(ship, x) \in Int
BY DEF Normal

LEMMA OffBodyMoves ==
  ASSUME NEW ship \in ShipType, NEW b \in BodyType
  PROVE  OffBody(ship, b) \in Hulls(ship)
<1>1. ship.pos \in Int /\ b.pos \in Int /\ b.radius \in Nat /\ b.mass \in Nat /\ b.vel \in Int
  BY ShipFields, BodyFields
<1>2. PICK overlap \in Int : overlap = ShipRadius + b.radius - Distance(ship.pos, b.pos)
  <2>1. Distance(ship.pos, b.pos) \in Nat
    BY <1>1, Choosing
  <2> QED BY <1>1, <2>1, CollisionAssumption
<1>3. PICK normal \in Int : normal = Normal(ship, b.pos)
  BY NormalIsInt
<1>4. PICK bounced : bounced = Bounced(ship, b.mass, b.vel, normal, overlap)
  OBVIOUS
<1>5. bounced \in ShipType /\ SameShip(bounced, ship) /\ SameShip(ship, ship)
  BY <1>1, <1>4, BouncedMoves DEF SameShip
<1>6. OffBody(ship, b) = bounced \/ OffBody(ship, b) = ship
  BY <1>2, <1>3, <1>4 DEF OffBody
<1> QED BY <1>5, <1>6 DEF Hulls

LEMMA OffBodiesMoves ==
  ASSUME NEW ss \in Seq(ShipType), NEW bs \in Seq(BodyType)
  PROVE  MovedShips(OffBodies(ss, bs), ss)
<1>1. PICK ts : ts = OffBodies(ss, bs)
  OBVIOUS
<1>2. ts = [i \in DOMAIN ss |-> OffBodyFold(ss[i], bs)]
  BY <1>1, CollisionsAreFolds
<1>3. ASSUME NEW i \in DOMAIN ss PROVE ts[i] \in ShipType /\ SameShip(ts[i], ss[i])
  <2>1. PICK s \in ShipType : s = ss[i]
    OBVIOUS
  <2>2. PICK T : T = Hulls(s)
    OBVIOUS
  <2>3. s \in T
    BY <2>2 DEF Hulls, SameShip
  <2>4. \A e \in BodyType : \A t \in T : OffBody(t, e) \in T
    <3> SUFFICES ASSUME NEW e \in BodyType, NEW t \in T PROVE OffBody(t, e) \in T
      OBVIOUS
    <3>1. t \in ShipType /\ SameShip(t, s)
      BY <2>2 DEF Hulls
    <3>2. OffBody(t, e) \in Hulls(t)
      BY <3>1, OffBodyMoves
    <3> QED BY <2>2, <3>1, <3>2 DEF Hulls, SameShip
  <2>5. PICK B : B = BodyType
    OBVIOUS
  <2>6. bs \in Seq(B) /\ \A e \in B : \A t \in T : OffBody(t, e) \in T
    BY <2>4, <2>5
  <2>7. PICK G : OffBodyWalk(T, s, bs, G) /\ OffBodyFold(s, bs) = G[Len(bs)]
    BY <2>3, <2>6, OffBodyWalks
  <2>8. PICK m \in Nat : m = Len(bs)
    OBVIOUS
  <2>9. G \in [0..m -> T] /\ m \in 0..m
    BY <2>7, <2>8 DEF OffBodyWalk
  <2>10. ts[i] \in T
    BY <1>2, <2>1, <2>7, <2>8, <2>9
  <2> QED BY <2>1, <2>2, <2>10 DEF Hulls
<1>4. ts = [i \in DOMAIN ss |-> ts[i]]
  BY <1>2
<1>5. ts \in Seq(ShipType) /\ DOMAIN ts = DOMAIN ss
  BY <1>3, <1>4, PlaceByPlace
<1> QED BY <1>1, <1>3, <1>5 DEF MovedShips

LEMMA OffShipMoves ==
  ASSUME NEW ss \in Seq(ShipType), NEW i \in DOMAIN ss, NEW j \in DOMAIN ss
  PROVE  MovedShips(OffShip(ss, i, j), ss)
<1>1. PICK a \in ShipType, b \in ShipType : a = ss[i] /\ b = ss[j]
  OBVIOUS
<1>2. /\ a.pos \in Int /\ b.pos \in Int /\ b.vel \in Int
      /\ ShipMass(a) \in Nat /\ ShipMass(b) \in Nat
  BY ShipFields
<1>3. PICK overlap \in Int : overlap = 2 * ShipRadius - Distance(a.pos, b.pos)
  <2>1. Distance(a.pos, b.pos) \in Nat
    BY <1>2, Choosing
  <2> QED BY <1>2, <2>1, CollisionAssumption
<1>4. PICK normal \in Int, back \in Int : normal = Normal(a, b.pos) /\ back = -normal
  BY NormalIsInt
<1>5. PICK first \in ShipType : first = Bounced(a, ShipMass(b), b.vel, normal, overlap)
                                  /\ SameShip(first, a)
  BY <1>2, BouncedMoves
<1>6. first.vel \in Int /\ ShipMass(first) \in Nat
  BY ShipFields
<1>7. PICK second \in ShipType : second = Bounced(b, ShipMass(first), first.vel, back, overlap)
                                   /\ SameShip(second, b)
  BY <1>6, BouncedMoves
<1>8. PICK ts : ts = OffShip(ss, i, j)
  OBVIOUS
<1>9. ts = ss \/ ts = [ss EXCEPT ![i] = first, ![j] = second]
  BY <1>1, <1>3, <1>4, <1>5, <1>7, <1>8 DEF OffShip
<1>10. CASE ts = ss
  <2>1. \A k \in DOMAIN ss : SameShip(ss[k], ss[k])
    BY DEF SameShip
  <2> QED BY <1>8, <1>10, <2>1 DEF MovedShips
<1>11. CASE ts = [ss EXCEPT ![i] = first, ![j] = second]
  <2>1. ts = [k \in DOMAIN ss |-> ts[k]]
    BY <1>11
  <2>2. \A k \in DOMAIN ss : ts[k] = IF k = j THEN second ELSE IF k = i THEN first ELSE ss[k]
    BY <1>11
  <2>3. ASSUME NEW k \in DOMAIN ss PROVE ts[k] \in ShipType /\ SameShip(ts[k], ss[k])
    <3>1. CASE k = j
      BY <1>1, <1>7, <2>2, <3>1
    <3>2. CASE k # j /\ k = i
      BY <1>1, <1>5, <2>2, <3>2
    <3>3. CASE k # j /\ k # i
      BY <2>2, <3>3 DEF SameShip
    <3> QED BY <3>1, <3>2, <3>3
  <2>4. ts \in Seq(ShipType) /\ DOMAIN ts = DOMAIN ss
    BY <2>1, <2>3, PlaceByPlace
  <2> QED BY <1>8, <2>3, <2>4 DEF MovedShips
<1> QED BY <1>9, <1>10, <1>11

Fleets(ss) == {ts \in Seq(ShipType) : MovedShips(ts, ss)}

LEMMA FleetIsFleet ==
  ASSUME NEW ss \in Seq(ShipType), NEW ts \in Fleets(ss)
  PROVE  ts \in Seq(ShipType) /\ DOMAIN ts = DOMAIN ss
         /\ \A us : MovedShips(us, ts) => us \in Fleets(ss)
<1>1. ts \in Seq(ShipType) /\ DOMAIN ts = DOMAIN ss /\ MovedShips(ts, ss)
  BY DEF Fleets, MovedShips
<1>2. ASSUME NEW us, MovedShips(us, ts) PROVE us \in Fleets(ss)
  <2>1. us \in Seq(ShipType)
    BY <1>2 DEF MovedShips
  <2>2. MovedShips(us, ss)
    BY <1>1, <1>2, ShipsMovedOn
  <2> QED BY <2>1, <2>2 DEF Fleets
<1> QED BY <1>1, <1>2

LEMMA OffEarlierMoves ==
  ASSUME NEW ss \in Seq(ShipType), NEW k \in DOMAIN ss, NEW ts \in Fleets(ss)
  PROVE  OffEarlier(ts, k) \in Fleets(ss)
<1>1. PICK n \in Nat : n = Len(ss) /\ k \in 1..n /\ DOMAIN ss = 1..n
  OBVIOUS
<1>2. PICK m \in Nat : m = k - 1
  BY <1>1
<1>3. PICK S : S = 1..m
  OBVIOUS
<1>4. PICK seq \in Seq(S) : seq = Indices(1, m)
  BY <1>3, IndicesUpTo
<1>5. PICK T : T = Fleets(ss)
  OBVIOUS
<1>6. ASSUME NEW e \in S, NEW t \in T PROVE OffShip(t, k, e) \in T
  <2>1. e \in DOMAIN ss
    BY <1>1, <1>2, <1>3
  <2>2. PICK us \in Fleets(ss) : us = t
    BY <1>5
  <2>3. us \in Seq(ShipType) /\ k \in DOMAIN us /\ e \in DOMAIN us
    BY <2>1, FleetIsFleet
  <2>4. MovedShips(OffShip(us, k, e), us)
    BY <2>3, OffShipMoves
  <2> QED BY <1>5, <2>2, <2>4, FleetIsFleet
<1>7. PICK G : OffShipWalk(k, T, ts, seq, G) /\ OffShipFold(k, ts, seq) = G[Len(seq)]
  BY <1>5, <1>6, OffShipWalks
<1>8. PICK l \in Nat : l = Len(seq)
  OBVIOUS
<1>9. G \in [0..l -> T] /\ l \in 0..l
  BY <1>7, <1>8 DEF OffShipWalk
<1>10. OffShipFold(k, ts, seq) \in T
  BY <1>7, <1>8, <1>9
<1> QED BY <1>2, <1>4, <1>5, <1>10 DEF OffEarlier

LEMMA OffShipsMoves ==
  ASSUME NEW ss \in Seq(ShipType)
  PROVE  MovedShips(OffShips(ss), ss)
<1>1. PICK n \in Nat : n = Len(ss) /\ DOMAIN ss = 1..n
  OBVIOUS
<1>2. PICK S : S = 1..n
  OBVIOUS
<1>3. PICK seq \in Seq(S) : seq = Indices(1, n)
  BY <1>2, IndicesUpTo
<1>4. PICK T : T = Fleets(ss)
  OBVIOUS
<1>5. ss \in T
  <2>1. \A k \in DOMAIN ss : SameShip(ss[k], ss[k])
    BY DEF SameShip
  <2> QED BY <1>4, <2>1 DEF Fleets, MovedShips
<1>6. \A e \in S : \A t \in T : OffEarlier(t, e) \in T
  BY <1>1, <1>2, <1>4, OffEarlierMoves
<1>7. PICK G : EarlierWalk(T, ss, seq, G) /\ EarlierFold(ss, seq) = G[Len(seq)]
  BY <1>5, <1>6, EarlierWalks
<1>8. PICK l \in Nat : l = Len(seq)
  OBVIOUS
<1>9. G \in [0..l -> T] /\ l \in 0..l
  BY <1>7, <1>8 DEF EarlierWalk
<1>10. EarlierFold(ss, seq) \in T
  BY <1>7, <1>8, <1>9
<1>11. OffShips(ss) \in Fleets(ss)
  BY <1>1, <1>3, <1>4, <1>10, CollisionsAreFolds
<1> QED BY <1>11 DEF Fleets

(***************************************************************************)
(* Warmth                                                                  *)
(***************************************************************************)

LEMMA FourthIsNat ==
  ASSUME NEW x \in Nat
  PROVE  Square(x) \in Nat /\ (x > 0 => Square(x) > 0) /\ Fourth(x) \in Nat
<1>1. PICK y \in Nat : y = x * x /\ (x > 0 => y > 0)
  BY Multiplying
<1>2. PICK z \in Nat : z = y * x
  BY Multiplying
<1>3. z * x \in Nat
  BY Multiplying
<1> QED BY <1>1, <1>2, <1>3 DEF Square, Fourth

LEMMA IrradianceIsNat ==
  ASSUME NEW r \in Nat, NEW t \in Nat, NEW d \in Nat
  PROVE  Irradiance(r, t, d) \in Nat
<1>1. CASE d = 0
  BY <1>1 DEF Irradiance
<1>2. CASE d # 0
  <2>1. PICK a \in Nat, b \in Nat, c \in Nat :
          a = Square(r) /\ b = Fourth(t) /\ c = Square(d) /\ c > 0
    BY <1>2, FourthIsNat, SMTT(30)
  <2>2. PICK e \in Nat : e = a * b
    BY Multiplying
  <2>3. e \div c \in Nat
    BY <2>1, Dividing
  <2> QED BY <1>2, <2>1, <2>2, <2>3 DEF Irradiance
<1> QED BY <1>1, <1>2

LEMMA SunInBodies ==
  ASSUME NEW bs \in Seq(BodyType)
  PROVE  SelectInSeq(bs, IsSun) = 0 \/ SelectInSeq(bs, IsSun) \in DOMAIN bs
<1>1. SelectInSeq(bs, IsSun) = FirstOf(bs, {i \in 1..Len(bs) : IsSun(bs[i])})
  BY DEF SelectInSeq, FirstOf
<1>2. PICK I : I = {i \in 1..Len(bs) : IsSun(bs[i])}
  OBVIOUS
<1> QED BY <1>1, <1>2, FirstIndex

LEMMA StationPosIsInt ==
  ASSUME NEW bs \in Seq(BodyType), NEW station \in StationType
  PROVE  StationPos(station, bs) \in Int
<1>1. PICK p : p = SelectInSeq(bs, LAMBDA b : b.id = station.parent)
  OBVIOUS
<1>2. p = 0 \/ p \in DOMAIN bs
  <2>1. p = FirstOf(bs, {i \in 1..Len(bs) : bs[i].id = station.parent})
    BY <1>1 DEF SelectInSeq, FirstOf
  <2>2. PICK I : I = {i \in 1..Len(bs) : bs[i].id = station.parent}
    OBVIOUS
  <2> QED BY <2>1, <2>2, FirstIndex
<1>3. station.offset \in Int
  BY DEF StationType
<1>4. StationPos(station, bs) = station.offset + (IF p = 0 THEN 0 ELSE bs[p].pos)
  BY <1>1 DEF StationPos
<1>5. CASE p = 0
  BY <1>3, <1>4, <1>5
<1>6. CASE p # 0
  <2>1. bs[p] \in BodyType
    BY <1>2, <1>6
  <2>2. bs[p].pos \in Int
    BY <2>1, BodyFields
  <2> QED BY <1>3, <1>4, <1>6, <2>2
<1> QED BY <1>5, <1>6

LEMMA ThermalIsNat ==
  ASSUME NEW bs \in Seq(BodyType), NEW ss \in Seq(ShipType), NEW x \in Int
  PROVE  ThermalIrradiance(bs, ss, x) \in Nat
<1>1. PICK f : f = [i \in DOMAIN bs |-> Irradiance(bs[i].radius, bs[i].temp, Distance(bs[i].pos, x))]
  OBVIOUS
<1>2. PICK g : g = [i \in DOMAIN ss |-> Irradiance(ShipRadius, ss[i].temp, Distance(ss[i].pos, x))]
  OBVIOUS
<1>3. PICK I : I = {i \in DOMAIN bs : WarmBody(bs[i])}
  OBVIOUS
<1>4. PICK J : J = {i \in DOMAIN ss : WarmHull(ss[i])}
  OBVIOUS
<1>5. \A i \in I : f[i] \in Nat
  <2> SUFFICES ASSUME NEW i \in I PROVE f[i] \in Nat
    OBVIOUS
  <2>1. PICK b \in BodyType : b = bs[i]
    BY <1>3
  <2>2. PICK r \in Nat, t \in Nat, d \in Nat : r = b.radius /\ t = b.temp /\ d = Distance(b.pos, x)
    BY BodyFields, Choosing
  <2>3. Irradiance(r, t, d) \in Nat
    BY IrradianceIsNat
  <2> QED BY <1>1, <1>3, <2>1, <2>2, <2>3
<1>6. \A i \in J : g[i] \in Nat
  <2> SUFFICES ASSUME NEW i \in J PROVE g[i] \in Nat
    OBVIOUS
  <2>1. PICK s \in ShipType : s = ss[i]
    BY <1>4
  <2>2. PICK r \in Nat, t \in Nat, d \in Nat : r = ShipRadius /\ t = s.temp /\ d = Distance(s.pos, x)
    BY ShipFields, Choosing, CollisionAssumption
  <2>3. Irradiance(r, t, d) \in Nat
    BY IrradianceIsNat
  <2> QED BY <1>2, <1>4, <2>1, <2>2, <2>3
<1>7. IsFiniteSet(I) /\ IsFiniteSet(J)
  <2>1. PICK m \in Nat, n \in Nat : m = Len(bs) /\ n = Len(ss) /\ DOMAIN bs = 1..m /\ DOMAIN ss = 1..n
    OBVIOUS
  <2>2. PICK K, L : K = 1..m /\ L = 1..n
    OBVIOUS
  <2>3. IsFiniteSet(K) /\ IsFiniteSet(L)
    BY <2>2, FS_Interval
  <2>4. I \subseteq K /\ J \subseteq L
    BY <1>3, <1>4, <2>1, <2>2
  <2> QED BY <2>3, <2>4, FS_Subset
<1>8. SumFunctionOnSet(f, I) \in Nat /\ SumFunctionOnSet(g, J) \in Nat
  BY <1>5, <1>6, <1>7, SumNat
<1>9. ThermalIrradiance(bs, ss, x) = SumFunctionOnSet(f, I) + SumFunctionOnSet(g, J)
  BY <1>1, <1>2, <1>3, <1>4 DEF ThermalIrradiance
<1> QED BY <1>8, <1>9

LEMMA SolarIsNat ==
  ASSUME NEW bs \in Seq(BodyType), NEW x \in Int
  PROVE  SolarIrradiance(bs, x) \in Nat
<1>1. PICK k : k = SelectInSeq(bs, IsSun)
  OBVIOUS
<1>2. k = 0 \/ k \in DOMAIN bs
  BY <1>1, SunInBodies
<1>3. CASE k = 0
  BY <1>1, <1>3 DEF SolarIrradiance
<1>4. CASE k # 0
  <2>1. PICK sun \in BodyType : sun = bs[k]
    BY <1>2, <1>4
  <2>2. PICK r \in Nat, t \in Nat, d \in Nat : r = sun.radius /\ t = sun.temp /\ d = Distance(sun.pos, x)
    BY BodyFields, Choosing
  <2>3. Irradiance(r, t, d) \in Nat
    BY IrradianceIsNat
  <2>4. SolarIrradiance(bs, x) = 0 \/ SolarIrradiance(bs, x) = Irradiance(r, t, d)
    BY <1>1, <2>1, <2>2 DEF SolarIrradiance
  <2> QED BY <2>3, <2>4
<1> QED BY <1>3, <1>4

LEMMA AbsorbedIsNat ==
  ASSUME NEW bs \in Seq(BodyType), NEW ss \in Seq(ShipType), NEW x \in Int, NEW r \in Nat
  PROVE  AbsorbedEnergy(bs, ss, x, r) \in Nat
<1>1. PICK a \in Nat : a = Square(r)
  BY FourthIsNat
<1>2. PICK b \in Nat : b = SolarIrradiance(bs, x) + ThermalIrradiance(bs, ss, x)
  <2>1. SolarIrradiance(bs, x) \in Nat
    BY SolarIsNat
  <2>2. ThermalIrradiance(bs, ss, x) \in Nat
    BY ThermalIsNat
  <2> QED BY <2>1, <2>2
<1>3. a * b \in Nat
  BY Multiplying
<1> QED BY <1>1, <1>2, <1>3 DEF AbsorbedEnergy

\* A temperature never falls below zero.
LEMMA NewTempIsNat ==
  ASSUME NEW temp \in Nat, NEW capacity \in Nat, NEW area \in Nat, NEW energyIn \in Nat
  PROVE  NewTemp(temp, capacity, area, energyIn) \in Nat
<1>1. PICK out \in Nat : out = area * Fourth(temp)
  <2>1. PICK q \in Nat : q = Fourth(temp)
    BY FourthIsNat
  <2> QED BY <2>1, Multiplying
<1>2. PICK net \in Int : net = energyIn - out
  OBVIOUS
<1>3. CASE capacity = 0
  BY <1>3 DEF NewTemp
<1>4. CASE capacity > 0 /\ net >= 0
  <2>1. PICK q \in Nat : q = net \div capacity
    BY <1>4, Dividing
  <2> QED BY <1>1, <1>2, <1>4, <2>1 DEF NewTemp
<1>5. CASE capacity > 0 /\ ~ (net >= 0)
  <2>1. PICK q \in Int : q = (-net) \div capacity
    BY <1>5, Dividing
  <2>2. Most(0, temp - q) \in Nat
    BY DEF Most
  <2>3. NewTemp(temp, capacity, area, energyIn) = Most(0, temp - q)
    BY <1>1, <1>2, <1>5, <2>1 DEF NewTemp
  <2> QED BY <2>2, <2>3
<1> QED BY <1>3, <1>4, <1>5

\* Warming changes temperatures alone.
LEMMA WarmBodies ==
  ASSUME NEW bs \in Seq(BodyType), NEW ss \in Seq(ShipType)
  PROVE  /\ WarmedBodies(bs, ss) \in Seq(BodyType) /\ DOMAIN WarmedBodies(bs, ss) = DOMAIN bs
         /\ \A i \in DOMAIN bs : /\ WarmedBodies(bs, ss)[i].id = bs[i].id
                                 /\ WarmedBodies(bs, ss)[i].mass = bs[i].mass
                                 /\ WarmedBodies(bs, ss)[i].radius = bs[i].radius
                                 /\ WarmedBodies(bs, ss)[i].pos = bs[i].pos
                                 /\ WarmedBodies(bs, ss)[i].vel = bs[i].vel
<1>1. PICK cs : cs = WarmedBodies(bs, ss)
  OBVIOUS
<1>2. cs = [i \in DOMAIN bs |-> [bs[i] EXCEPT !.temp =
              NewTemp(@, bs[i].capacity, bs[i].area,
                      AbsorbedEnergy(bs, ss, bs[i].pos, bs[i].radius) + bs[i].generation)]]
  BY <1>1 DEF WarmedBodies
<1>3. ASSUME NEW i \in DOMAIN bs
      PROVE  /\ cs[i] \in BodyType /\ cs[i].id = bs[i].id /\ cs[i].mass = bs[i].mass
             /\ cs[i].radius = bs[i].radius /\ cs[i].pos = bs[i].pos /\ cs[i].vel = bs[i].vel
  <2>1. PICK b \in BodyType : b = bs[i]
    OBVIOUS
  <2>2. PICK e \in Nat : e = AbsorbedEnergy(bs, ss, b.pos, b.radius) + b.generation
    <3>1. b.pos \in Int /\ b.radius \in Nat /\ b.generation \in Nat
      BY BodyFields
    <3>2. AbsorbedEnergy(bs, ss, b.pos, b.radius) \in Nat
      BY <3>1, AbsorbedIsNat
    <3> QED BY <3>1, <3>2
  <2>3. PICK t \in Nat : t = NewTemp(b.temp, b.capacity, b.area, e)
    BY BodyFields, NewTempIsNat
  <2>4. cs[i] = [b EXCEPT !.temp = NewTemp(@, b.capacity, b.area, e)]
    BY <1>2, <2>1, <2>2
  <2>5. cs[i] = [b EXCEPT !.temp = t]
    BY <2>3, <2>4 DEF BodyType
  <2>6. [b EXCEPT !.temp = t] \in BodyType /\ [b EXCEPT !.temp = t].id = b.id
          /\ [b EXCEPT !.temp = t].mass = b.mass /\ [b EXCEPT !.temp = t].radius = b.radius
          /\ [b EXCEPT !.temp = t].pos = b.pos /\ [b EXCEPT !.temp = t].vel = b.vel
    BY DEF BodyType
  <2> QED BY <2>1, <2>5, <2>6
<1>4. cs = [i \in DOMAIN bs |-> cs[i]]
  BY <1>2
<1>5. cs \in Seq(BodyType) /\ DOMAIN cs = DOMAIN bs
  BY <1>3, <1>4, PlaceByPlace
<1> QED BY <1>1, <1>3, <1>5

LEMMA WarmShips ==
  ASSUME NEW bs \in Seq(BodyType), NEW ss \in Seq(ShipType)
  PROVE  /\ WarmedShips(bs, ss) \in Seq(ShipType) /\ DOMAIN WarmedShips(bs, ss) = DOMAIN ss
         /\ \A i \in DOMAIN ss : WarmedShips(bs, ss)[i].id = ss[i].id
<1>1. PICK ts : ts = WarmedShips(bs, ss)
  OBVIOUS
<1>2. ts = [i \in DOMAIN ss |-> [ss[i] EXCEPT !.temp =
              NewTemp(@, ShipCapacity, ShipArea, AbsorbedEnergy(bs, ss, ss[i].pos, ShipRadius))]]
  BY <1>1 DEF WarmedShips
<1>3. ASSUME NEW i \in DOMAIN ss PROVE ts[i] \in ShipType /\ ts[i].id = ss[i].id
  <2>1. PICK s \in ShipType : s = ss[i]
    OBVIOUS
  <2>2. PICK e \in Nat : e = AbsorbedEnergy(bs, ss, s.pos, ShipRadius)
    BY ShipFields, AbsorbedIsNat, CollisionAssumption
  <2>3. PICK t \in Nat : t = NewTemp(s.temp, ShipCapacity, ShipArea, e)
    BY ShipFields, NewTempIsNat, WarmthAssumption
  <2>4. ts[i] = [s EXCEPT !.temp = NewTemp(@, ShipCapacity, ShipArea, e)]
    BY <1>2, <2>1, <2>2
  <2>5. ts[i] = [s EXCEPT !.temp = t]
    BY <2>3, <2>4 DEF ShipType
  <2>6. [s EXCEPT !.temp = t] \in ShipType /\ [s EXCEPT !.temp = t].id = s.id
    BY DEF ShipType
  <2> QED BY <2>1, <2>5, <2>6
<1>4. ts = [i \in DOMAIN ss |-> ts[i]]
  BY <1>2
<1>5. ts \in Seq(ShipType) /\ DOMAIN ts = DOMAIN ss
  BY <1>3, <1>4, PlaceByPlace
<1> QED BY <1>1, <1>3, <1>5

LEMMA WarmStations ==
  ASSUME NEW bs \in Seq(BodyType), NEW ss \in Seq(ShipType), NEW sts \in Seq(StationType)
  PROVE  /\ WarmedStations(bs, ss, sts) \in Seq(StationType)
         /\ DOMAIN WarmedStations(bs, ss, sts) = DOMAIN sts
         /\ \A i \in DOMAIN sts : WarmedStations(bs, ss, sts)[i].id = sts[i].id
<1>1. PICK ts : ts = WarmedStations(bs, ss, sts)
  OBVIOUS
<1>2. ts = [i \in DOMAIN sts |-> [sts[i] EXCEPT !.temp =
              NewTemp(@, ShipCapacity, ShipArea,
                      AbsorbedEnergy(bs, ss, StationPos(sts[i], bs), StationRadius))]]
  BY <1>1 DEF WarmedStations
<1>3. ASSUME NEW i \in DOMAIN sts PROVE ts[i] \in StationType /\ ts[i].id = sts[i].id
  <2>1. PICK s \in StationType : s = sts[i]
    OBVIOUS
  <2>2. PICK x \in Int : x = StationPos(s, bs)
    BY StationPosIsInt
  <2>3. PICK e \in Nat : e = AbsorbedEnergy(bs, ss, x, StationRadius)
    BY AbsorbedIsNat, WarmthAssumption
  <2>4. PICK t \in Nat : t = NewTemp(s.temp, ShipCapacity, ShipArea, e)
    <3>1. s.temp \in Nat
      BY DEF StationType
    <3> QED BY <3>1, NewTempIsNat, WarmthAssumption
  <2>5. ts[i] = [s EXCEPT !.temp = NewTemp(@, ShipCapacity, ShipArea, e)]
    BY <1>2, <2>1, <2>2, <2>3
  <2>6. ts[i] = [s EXCEPT !.temp = t]
    BY <2>4, <2>5 DEF StationType
  <2>7. [s EXCEPT !.temp = t] \in StationType /\ [s EXCEPT !.temp = t].id = s.id
    BY DEF StationType
  <2> QED BY <2>1, <2>6, <2>7
<1>4. ts = [i \in DOMAIN sts |-> ts[i]]
  BY <1>2
<1>5. ts \in Seq(StationType) /\ DOMAIN ts = DOMAIN sts
  BY <1>3, <1>4, PlaceByPlace
<1> QED BY <1>1, <1>3, <1>5

LEMMA TrackStations ==
  ASSUME NEW bs \in Seq(BodyType), NEW sts \in Seq(StationType)
  PROVE  /\ Tracked(sts, bs) \in Seq(StationType) /\ DOMAIN Tracked(sts, bs) = DOMAIN sts
         /\ \A i \in DOMAIN sts : Tracked(sts, bs)[i].id = sts[i].id
<1> DEFINE of(id) == FirstOf(bs, {i \in 1..Len(bs) : bs[i].id = id})
<1>1. PICK ts : ts = Tracked(sts, bs)
  OBVIOUS
<1>2. ts = [i \in DOMAIN sts |->
              IF of(sts[i].parent) = 0 \/ of(sts[i].secondary) = 0 THEN sts[i]
              ELSE [sts[i] EXCEPT !.offset =
                      LagrangeOffset(bs[of(sts[i].parent)].pos, bs[of(sts[i].secondary)].pos)]]
  BY <1>1 DEF Tracked, SelectInSeq, FirstOf
<1>3. ASSUME NEW id PROVE of(id) = 0 \/ of(id) \in DOMAIN bs
  <2>1. PICK I : I = {i \in 1..Len(bs) : bs[i].id = id}
    OBVIOUS
  <2> QED BY <2>1, FirstIndex
<1> HIDE DEF of
<1>4. ASSUME NEW i \in DOMAIN sts PROVE ts[i] \in StationType /\ ts[i].id = sts[i].id
  <2>1. PICK s \in StationType : s = sts[i]
    OBVIOUS
  <2>2. PICK p, q : p = of(s.parent) /\ q = of(s.secondary)
    OBVIOUS
  <2>3. CASE p = 0 \/ q = 0
    BY <1>2, <2>1, <2>2, <2>3
  <2>4. CASE ~ (p = 0 \/ q = 0)
    <3>1. p \in DOMAIN bs /\ q \in DOMAIN bs
      BY <1>3, <2>2, <2>4
    <3>2. PICK a \in BodyType, b \in BodyType : a = bs[p] /\ b = bs[q]
      BY <3>1
    <3>3. PICK x \in Int : x = LagrangeOffset(a.pos, b.pos)
      <4>1. a.pos \in Int /\ b.pos \in Int
        BY BodyFields
      <4>2. (b.pos - a.pos) \div 2 \in Int
        BY <4>1
      <4> QED BY <4>2 DEF LagrangeOffset
    <3>4. ts[i] = [s EXCEPT !.offset = x]
      BY <1>2, <2>1, <2>2, <2>4, <3>2, <3>3
    <3>5. [s EXCEPT !.offset = x] \in StationType /\ [s EXCEPT !.offset = x].id = s.id
      BY DEF StationType
    <3> QED BY <2>1, <3>4, <3>5
  <2> QED BY <2>3, <2>4
<1>5. ts = [i \in DOMAIN sts |-> ts[i]]
  BY <1>2
<1>6. ts \in Seq(StationType) /\ DOMAIN ts = DOMAIN sts
  BY <1>4, <1>5, PlaceByPlace
<1> QED BY <1>1, <1>4, <1>6

(***************************************************************************)
(* The start                                                               *)
(***************************************************************************)

LEMMA MassOfIsNat ==
  ASSUME NEW name
  PROVE  MassOf(name) \in Nat /\ ProfileOf(name) \in SurfaceType
BY StartUpAssumption DEF MassOf, ProfileOf

LEMMA MakeBodyType ==
  ASSUME NEW e \in EntryType
  PROVE  MakeBody(e) \in BodyType /\ MakeBody(e).mass = MassOf(e.name)
<1>1. /\ e.id \in Nat /\ e.name \in STRING /\ e.radius \in Nat /\ e.pos \in Int /\ e.vel \in Int
  BY DEF EntryType
<1>2. PICK m \in Nat : m = MassOf(e.name)
  BY MassOfIsNat
<1>3. PICK p \in SurfaceType : p = ProfileOf(e.name)
  BY MassOfIsNat
<1>4. p.temp \in Nat /\ p.generation \in Nat /\ p.albedo \in Nat
  BY DEF SurfaceType
<1>5. PICK c \in Nat : c = m * HeatPerMass
  BY StartUpAssumption, Multiplying
<1>6. PICK a \in Nat : a = 4 * e.radius * e.radius
  <2>1. PICK d \in Nat : d = 4 * e.radius
    BY <1>1
  <2> QED BY <1>1, <2>1, Multiplying
<1> QED BY <1>1, <1>2, <1>3, <1>4, <1>5, <1>6 DEF MakeBody, BodyType

LEMMA LoadedBodies ==
  ASSUME NEW spec \in Ephemerides
  PROVE  LoadEphemeris(spec) \in Seq(BodyType) /\ OneMassless(LoadEphemeris(spec))
<1>1. PICK entries : entries = IF spec.kind = "file" THEN spec.entries ELSE Circular
  OBVIOUS
<1>2. entries \in {Circular} \cup Snapshots
  BY <1>1 DEF Ephemerides, Ephemeris
<1>3. PICK E : E = EntryType
  OBVIOUS
<1>4. entries \in Seq(E)
  BY <1>2, <1>3, StartUpAssumption
<1>5. PICK bs : bs = LoadEphemeris(spec)
  OBVIOUS
<1>6. bs = [i \in DOMAIN entries |-> MakeBody(entries[i])]
  BY <1>1, <1>5 DEF LoadEphemeris
<1>7. \A i \in DOMAIN entries : bs[i] \in BodyType /\ bs[i].mass = MassOf(entries[i].name)
  <2> SUFFICES ASSUME NEW i \in DOMAIN entries
               PROVE  bs[i] \in BodyType /\ bs[i].mass = MassOf(entries[i].name)
    OBVIOUS
  <2>1. PICK e \in EntryType : e = entries[i]
    BY <1>3, <1>4
  <2> QED BY <1>6, <2>1, MakeBodyType
<1>8. bs = [i \in DOMAIN entries |-> bs[i]]
  BY <1>6
<1>9. bs \in Seq(BodyType) /\ DOMAIN bs = DOMAIN entries
  BY <1>4, <1>7, <1>8, PlaceByPlace
<1>10. OneMassless(bs)
  BY <1>2, <1>7, <1>9, MassAssumption DEF OneMassless
<1> QED BY <1>5, <1>9, <1>10

LEMMA SpawnedShips ==
  ASSUME NEW bs \in Seq(BodyType), NEW count \in WantedShips
  PROVE  SpawnShips(bs, count) \in Seq(ShipType)
<1>1. PICK earth : earth = Named(bs, "Earth")
  OBVIOUS
<1>2. earth = 0 \/ earth \in DOMAIN bs
  BY <1>1, FoundByName
<1>3. earth # 0 => bs[earth].vel \in Int /\ bs[earth].pos \in Int
  <2> SUFFICES ASSUME earth # 0 PROVE bs[earth].vel \in Int /\ bs[earth].pos \in Int
    OBVIOUS
  <2>1. bs[earth] \in BodyType
    BY <1>2
  <2> QED BY <2>1, BodyFields
<1>4. PICK v \in Int, x \in Int : /\ v = IF earth = 0 THEN 0 ELSE bs[earth].vel
                                /\ x = IF earth = 0 THEN OneAU ELSE bs[earth].pos
  BY <1>3, StartUpAssumption
<1>5. PICK ss : ss = SpawnShips(bs, count)
  OBVIOUS
<1>6. ss = [i \in 1..count |->
              [id |-> ShipId(i), fuel |-> ShipFuel, temp |-> RoomTemp, vel |-> v,
               pos |-> x + (IF i = 1 THEN Orbit ELSE -Orbit)]]
  BY <1>1, <1>4, <1>5 DEF SpawnShips
<1>7. count \in Nat
  BY StartUpAssumption
<1>8. \A i \in 1..count : ss[i] \in ShipType
  <2> SUFFICES ASSUME NEW i \in 1..count PROVE ss[i] \in ShipType
    OBVIOUS
  <2>1. PICK d \in Int : d = IF i = 1 THEN Orbit ELSE -Orbit
    BY StartUpAssumption
  <2>2. PICK y \in Int : y = x + d
    OBVIOUS
  <2>3. PICK k \in Nat : k = ShipId(i)
    BY <1>7, StartUpAssumption DEF ShipId
  <2>4. ss[i] = [id |-> k, fuel |-> ShipFuel, temp |-> RoomTemp, vel |-> v, pos |-> y]
    BY <1>6, <2>1, <2>2, <2>3
  <2> QED BY <2>4, StartUpAssumption DEF ShipType
<1>9. ss = [i \in 1..count |-> ss[i]]
  BY <1>6
<1>10. PICK T : T = ShipType
  OBVIOUS
<1>11. ss \in [1..count -> T]
  BY <1>8, <1>9, <1>10
<1> QED BY <1>5, <1>7, <1>10, <1>11

LEMMA DefaultStationType ==
  ASSUME NEW id \in Nat, NEW parent \in Nat, NEW offset \in Int, NEW secondary \in Nat \cup {Nowhere}
  PROVE  DefaultStation(id, parent, offset, secondary) \in StationType
BY StartUpAssumption DEF DefaultStation, StationType

LEMMA LagrangeStationsType ==
  ASSUME NEW bs \in Seq(BodyType)
  PROVE  LagrangeStations(bs) \in Seq(StationType)
<1>1. PICK earth, moon : earth = Named(bs, "Earth") /\ moon = Named(bs, "Moon")
  OBVIOUS
<1>2. (earth = 0 \/ earth \in DOMAIN bs) /\ (moon = 0 \/ moon \in DOMAIN bs)
  BY <1>1, FoundByName
<1>3. PICK T : T = StationType
  OBVIOUS
<1>4. CASE earth = 0 \/ moon = 0
  <2>1. LagrangeStations(bs) = <<>>
    BY <1>1, <1>4 DEF LagrangeStations
  <2> QED BY <2>1
<1>5. CASE ~ (earth = 0 \/ moon = 0)
  <2>1. PICK e \in BodyType, m \in BodyType : e = bs[earth] /\ m = bs[moon]
    BY <1>2, <1>5
  <2>2. e.id \in Nat /\ m.id \in Nat /\ e.pos \in Int /\ m.pos \in Int
    BY BodyFields
  <2>3. PICK x \in Int : x = LagrangeOffset(e.pos, m.pos)
    <3>1. (m.pos - e.pos) \div 2 \in Int
      BY <2>2
    <3> QED BY <3>1 DEF LagrangeOffset
  <2>4. PICK a \in T, b \in T : /\ a = DefaultStation(StationBase, e.id, x, m.id)
                              /\ b = DefaultStation(StationBase + 1, e.id, x, m.id)
    <3>1. StationBase \in Nat /\ StationBase + 1 \in Nat
      BY StartUpAssumption
    <3> QED BY <1>3, <2>2, <3>1, DefaultStationType
  <2>5. LagrangeStations(bs) = <<a, b>>
    BY <1>1, <1>5, <2>1, <2>3, <2>4 DEF LagrangeStations
  <2> QED BY <1>3, <2>4, <2>5
<1> QED BY <1>4, <1>5

(***************************************************************************)
(* A tick                                                                  *)
(***************************************************************************)

LEMMA CommandGiven ==
  ASSUME NEW cmds \in CommandSets, NEW ship
  PROVE  CommandFor(cmds, ship).throttle \in Int /\ CommandFor(cmds, ship).gimbal \in Int
<1>1. PICK C : C = [ship_id : Nat, throttle : Int, gimbal : Int]
  OBVIOUS
<1>2. cmds \in Seq(C)
  BY <1>1, SkyAssumption
<1>3. PICK mine : mine = FirstOf(cmds, {i \in 1..Len(cmds) : cmds[i].ship_id = ship.id})
  OBVIOUS
<1>4. mine = 0 \/ mine \in DOMAIN cmds
  <2>1. PICK I : I = {i \in 1..Len(cmds) : cmds[i].ship_id = ship.id}
    OBVIOUS
  <2> QED BY <1>2, <1>3, <2>1, FirstIndex
<1>5. CommandFor(cmds, ship) = IF mine = 0 THEN NoCommand ELSE cmds[mine]
  BY <1>3 DEF CommandFor, SelectInSeq, FirstOf
<1>6. CASE mine = 0
  BY <1>5, <1>6 DEF NoCommand
<1>7. CASE mine # 0
  <2>1. cmds[mine] \in C
    BY <1>2, <1>4, <1>7
  <2> QED BY <1>1, <1>5, <1>7, <2>1
<1> QED BY <1>6, <1>7

LEMMA ThrustIsThrust ==
  ASSUME NEW ship \in ShipType, NEW c, c.throttle \in Int, c.gimbal \in Int
  PROVE  ComputeThrust(ship, c).force \in Int /\ ComputeThrust(ship, c).consumed \in Nat
<1>1. PICK part \in Nat : part = Clamped(c.throttle, 0, 1)
  BY DEF Clamped, Most, Least
<1>2. PICK flow \in Nat : flow = part * MaxFlow
  BY FlightAssumption, Multiplying
<1>3. PICK burn \in Nat : burn = flow * TICK
  BY FlightAssumption, Multiplying
<1>4. ship.fuel \in Nat
  BY ShipFields
<1>5. PICK consumed \in Nat : consumed = Least(burn, ship.fuel)
  BY <1>4 DEF Least
<1>6. PICK force \in Int : force = c.gimbal * Isp * flow
  <2>1. PICK d \in Int : d = c.gimbal * Isp
    BY FlightAssumption, Multiplying
  <2> QED BY <2>1, Multiplying
<1>7. ComputeThrust(ship, c) = [force |-> force, consumed |-> consumed, plume |-> consumed > 0]
  BY <1>1, <1>2, <1>3, <1>5, <1>6 DEF ComputeThrust
<1> QED BY <1>7

LEMMA ThrustsGiven ==
  ASSUME NEW ss \in Seq(ShipType), NEW cmds \in CommandSets
  PROVE  Thrusts([i \in DOMAIN ss |-> ComputeThrust(ss[i], CommandFor(cmds, ss[i]))], ss)
<1>1. ASSUME NEW i \in DOMAIN ss
      PROVE  /\ ComputeThrust(ss[i], CommandFor(cmds, ss[i])).force \in Int
             /\ ComputeThrust(ss[i], CommandFor(cmds, ss[i])).consumed \in Nat
  <2>1. PICK s \in ShipType : s = ss[i]
    OBVIOUS
  <2>2. PICK c : c = CommandFor(cmds, s)
    OBVIOUS
  <2>3. c.throttle \in Int /\ c.gimbal \in Int
    BY <2>2, CommandGiven
  <2>4. ComputeThrust(s, c).force \in Int /\ ComputeThrust(s, c).consumed \in Nat
    BY <2>3, ThrustIsThrust
  <2> QED BY <2>1, <2>2, <2>4
<1> QED BY <1>1 DEF Thrusts

\* The bodies after a tick descend from those before it, ships and stations stay.
BodiesFrom(cs, bs) ==
  /\ cs \in Seq(BodyType) /\ OneMassless(cs)
  /\ \A k \in DOMAIN cs : \E i \in DOMAIN bs : cs[k].id = bs[i].id

ShipsFrom(ts, ss) ==
  /\ ts \in Seq(ShipType) /\ DOMAIN ts = DOMAIN ss
  /\ \A i \in DOMAIN ss : ts[i].id = ss[i].id

StationsFrom(ts, ss) ==
  /\ ts \in Seq(StationType) /\ DOMAIN ts = DOMAIN ss
  /\ \A i \in DOMAIN ss : ts[i].id = ss[i].id

LEMMA TickTypes ==
  ASSUME NEW bs \in Seq(BodyType), OneMassless(bs), NEW ss \in Seq(ShipType),
         NEW sts \in Seq(StationType), NEW cmds \in CommandSets,
         NEW fl, fl = Flown(bs, ss, [i \in DOMAIN ss |-> ComputeThrust(ss[i], CommandFor(cmds, ss[i]))]),
         NEW hit, hit = ResolvedCollisions(fl.bodies, fl.ships)
  PROVE  /\ fl.bodies \in Seq(BodyType) /\ OneMassless(fl.bodies) /\ fl.ships \in Seq(ShipType)
         /\ BodiesFrom(WarmedBodies(hit.bodies, hit.ships), bs)
         /\ ShipsFrom(WarmedShips(hit.bodies, hit.ships), ss)
         /\ StationsFrom(WarmedStations(hit.bodies, hit.ships, Tracked(sts, hit.bodies)), sts)
<1>1. PICK thrust : thrust = [i \in DOMAIN ss |-> ComputeThrust(ss[i], CommandFor(cmds, ss[i]))]
  OBVIOUS
<1>2. Thrusts(thrust, ss)
  BY <1>1, ThrustsGiven
<1>3. fl = Flown(bs, ss, thrust)
  BY <1>1
<1>4. PICK cs, us : cs = fl.bodies /\ us = fl.ships
  OBVIOUS
<1>5. MovedBodies(cs, bs) /\ MovedShips(us, ss)
  BY <1>2, <1>3, <1>4, FlownMoves
<1>6. cs \in Seq(BodyType) /\ us \in Seq(ShipType) /\ DOMAIN cs = DOMAIN bs
  BY <1>5 DEF MovedBodies, MovedShips
<1>7. OneMassless(cs) /\ \A i \in DOMAIN cs : cs[i].id = bs[i].id
  BY <1>5, <1>6 DEF MovedBodies, SameBody, OneMassless
<1>8. PICK ds : ds = ResolvedBodies(cs)
  OBVIOUS
<1>9. /\ ds \in Seq(BodyType) /\ OneMassless(ds)
      /\ \A k \in DOMAIN ds : \E i \in DOMAIN cs : ds[k].id = cs[i].id
  BY <1>6, <1>7, <1>8, ResolvedBodiesType
<1>10. PICK vs : vs = OffBodies(us, ds)
  OBVIOUS
<1>11. PICK ws : ws = OffShips(vs)
  OBVIOUS
<1>12. MovedShips(vs, us) /\ vs \in Seq(ShipType)
  BY <1>6, <1>9, <1>10, OffBodiesMoves DEF MovedShips
<1>13. MovedShips(ws, vs) /\ ws \in Seq(ShipType)
  BY <1>11, <1>12, OffShipsMoves DEF MovedShips
<1>14. MovedShips(ws, ss)
  BY <1>5, <1>12, <1>13, ShipsMovedOn
<1>15. hit.bodies = ds /\ hit.ships = ws
  BY <1>4, <1>8, <1>10, <1>11 DEF ResolvedCollisions
<1>16. BodiesFrom(WarmedBodies(ds, ws), bs)
  <2>1. PICK es : es = WarmedBodies(ds, ws)
    OBVIOUS
  <2>2. /\ es \in Seq(BodyType) /\ DOMAIN es = DOMAIN ds
        /\ \A i \in DOMAIN ds : es[i].id = ds[i].id /\ es[i].mass = ds[i].mass
    BY <1>9, <1>13, <2>1, WarmBodies
  <2>3. OneMassless(es)
    BY <1>9, <2>2 DEF OneMassless
  <2>4. \A k \in DOMAIN es : \E i \in DOMAIN bs : es[k].id = bs[i].id
    BY <1>6, <1>7, <1>9, <2>2
  <2> QED BY <2>1, <2>2, <2>3, <2>4 DEF BodiesFrom
<1>17. ShipsFrom(WarmedShips(ds, ws), ss)
  BY <1>9, <1>13, <1>14, WarmShips DEF MovedShips, SameShip, ShipsFrom
<1>18. StationsFrom(WarmedStations(ds, ws, Tracked(sts, ds)), sts)
  <2>1. PICK ts : ts = Tracked(sts, ds)
    OBVIOUS
  <2>2. /\ ts \in Seq(StationType) /\ DOMAIN ts = DOMAIN sts
        /\ \A i \in DOMAIN sts : ts[i].id = sts[i].id
    BY <1>9, <2>1, TrackStations
  <2> QED BY <1>9, <1>13, <2>1, <2>2, WarmStations DEF StationsFrom
<1> QED BY <1>4, <1>6, <1>7, <1>15, <1>16, <1>17, <1>18

(***************************************************************************)
(* Types of the sky                                                        *)
(***************************************************************************)

Placed ==
  /\ stage \in {"placing", "up"} /\ wanted \in Nat
  /\ candidate \in 0..(Len(Candidates) - 1)
  /\ bodies \in Seq(BodyType) /\ OneMassless(bodies)
  /\ ships \in Seq(ShipType) /\ stations \in Seq(StationType)

Counted == now \in Nat /\ born \in 0..now /\ resumes \in Nat

SkyTypes == Placed /\ Counted

LEMMA CandidateNames ==
  /\ Len(Candidates) \in Nat /\ Len(Candidates) > 0
  /\ \A k \in 0..(Len(Candidates) - 1) : (k + 1) % Len(Candidates) \in 0..(Len(Candidates) - 1)
<1>1. PICK n \in Nat : n = Len(Candidates) /\ n > 0
  BY StartUpAssumption
<1>2. \A k \in 0..(n - 1) : (k + 1) % n \in 0..(n - 1)
  BY <1>1
<1> QED BY <1>1, <1>2

LEMMA InitTypes == Init => SkyTypes
<1> SUFFICES ASSUME Init PROVE SkyTypes
  OBVIOUS
<1>1. PICK spec \in Ephemerides : bodies = LoadEphemeris(spec)
  BY DEF Init, StartUpInit
<1>2. bodies \in Seq(BodyType) /\ OneMassless(bodies)
  BY <1>1, LoadedBodies
<1>3. ships \in Seq(ShipType)
  <2>1. PICK count \in WantedShips : ships = SpawnShips(bodies, count)
    BY DEF Init, StartUpInit
  <2> QED BY <1>2, <2>1, SpawnedShips
<1>4. stations \in Seq(StationType)
  BY <1>2, LagrangeStationsType DEF Init, StartUpInit
<1>5. stage = "placing" /\ candidate \in 0..(Len(Candidates) - 1) /\ wanted \in Nat
  BY CandidateNames, StartUpAssumption DEF Init, StartUpInit
<1>6. Counted
  BY DEF Init, Counted
<1> QED BY <1>2, <1>3, <1>4, <1>5, <1>6 DEF SkyTypes, Placed

LEMMA PlaceStationTypes == Placed /\ PlaceStation => Placed'
<1> SUFFICES ASSUME Placed, PlaceStation PROVE Placed'
  OBVIOUS
<1>1. candidate' \in 0..(Len(Candidates) - 1)
  <2>1. candidate' = (candidate + 1) % Len(Candidates) \/ candidate' = candidate
    BY DEF PlaceStation, NextCandidate
  <2> QED BY <2>1, CandidateNames DEF Placed
<1>2. stations' \in Seq(StationType)
  <2>1. PICK site : site = Site
    OBVIOUS
  <2>2. site = 0 \/ site \in DOMAIN bodies
    BY <2>1, FoundByName DEF Placed, Site
  <2>3. CASE Free
    <3>1. site # 0
      BY <2>1, <2>3 DEF Free
    <3>2. PICK b \in BodyType : b = bodies[site]
      BY <2>2, <3>1 DEF Placed
    <3>3. PICK n \in Nat : n = Len(stations)
      BY DEF Placed
    <3>4. PICK id \in Nat : id = SurfaceId(n)
      BY StartUpAssumption DEF SurfaceId
    <3>5. PICK x \in Int : x = b.radius + Height
      BY BodyFields, StartUpAssumption, SMTT(30)
    <3>6. b.id \in Nat
      BY BodyFields
    <3>7. PICK s \in StationType : s = DefaultStation(id, b.id, x, Nowhere)
      BY <3>6, DefaultStationType
    <3>8. stations' = Append(stations, s)
      BY <2>1, <2>3, <3>2, <3>3, <3>4, <3>5, <3>7 DEF PlaceStation
    <3>9. PICK T : T = StationType
      OBVIOUS
    <3> QED BY <3>7, <3>8, <3>9 DEF Placed
  <2>4. CASE ~ Free
    BY <2>4 DEF PlaceStation, Placed
  <2> QED BY <2>3, <2>4
<1>3. UNCHANGED <<stage, wanted, bodies, ships>>
  BY DEF PlaceStation
<1>4. OneMassless(bodies)'
  BY <1>3 DEF Placed, OneMassless
<1> QED BY <1>1, <1>2, <1>3, <1>4 DEF Placed

\* What a tick makes of the state.
LEMMA StepMakes ==
  ASSUME Placed, NEW cmds \in CommandSets, Step(cmds)
  PROVE  /\ BodiesFrom(bodies', bodies) /\ ShipsFrom(ships', ships) /\ StationsFrom(stations', stations)
         /\ flown'.bodies \in Seq(BodyType) /\ OneMassless(flown'.bodies)
         /\ flown'.ships \in Seq(ShipType)
<1>1. PICK fl : fl = flown'
  OBVIOUS
<1>2. fl = Flown(bodies, ships,
                 [i \in DOMAIN ships |-> ComputeThrust(ships[i], CommandFor(cmds, ships[i]))])
  BY <1>1 DEF Step
<1>3. PICK hit : hit = ResolvedCollisions(fl.bodies, fl.ships)
  OBVIOUS
<1>4. /\ bodies' = WarmedBodies(hit.bodies, hit.ships)
      /\ ships' = WarmedShips(hit.bodies, hit.ships)
      /\ stations' = WarmedStations(hit.bodies, hit.ships, Tracked(stations, hit.bodies))
  BY <1>1, <1>3 DEF Step
<1>5. PICK bs \in Seq(BodyType) : bs = bodies /\ OneMassless(bs)
  BY DEF Placed
<1>6. PICK ss \in Seq(ShipType), sts \in Seq(StationType) : ss = ships /\ sts = stations
  BY DEF Placed
<1>7. fl = Flown(bs, ss, [i \in DOMAIN ss |-> ComputeThrust(ss[i], CommandFor(cmds, ss[i]))])
  BY <1>2, <1>5, <1>6
<1>8. /\ fl.bodies \in Seq(BodyType) /\ OneMassless(fl.bodies) /\ fl.ships \in Seq(ShipType)
      /\ BodiesFrom(WarmedBodies(hit.bodies, hit.ships), bs)
      /\ ShipsFrom(WarmedShips(hit.bodies, hit.ships), ss)
      /\ StationsFrom(WarmedStations(hit.bodies, hit.ships, Tracked(sts, hit.bodies)), sts)
  BY <1>3, <1>5, <1>7, TickTypes
<1> QED BY <1>1, <1>4, <1>5, <1>6, <1>8

LEMMA NextTypes == SkyTypes /\ [Next]_vars => SkyTypes'
<1> SUFFICES ASSUME SkyTypes, [Next]_vars PROVE SkyTypes'
  OBVIOUS
<1>1. CASE Place
  <2>1. UNCHANGED skyVars
    BY <1>1 DEF Place
  <2>2. Counted'
    BY <2>1 DEF SkyTypes, Counted, skyVars
  <2>3. CASE PlaceStation
    BY <2>2, <2>3, PlaceStationTypes DEF SkyTypes
  <2>4. CASE Begin
    <3>1. stage' = "up" /\ UNCHANGED <<wanted, candidate, bodies, ships, stations>>
      BY <2>4 DEF Begin
    <3>2. OneMassless(bodies)'
      BY <3>1 DEF SkyTypes, Placed, OneMassless
    <3>3. Placed'
      BY <3>1, <3>2 DEF SkyTypes, Placed
    <3> QED BY <2>2, <3>3 DEF SkyTypes
  <2> QED BY <1>1, <2>3, <2>4 DEF Place
<1>2. ASSUME NEW cmds \in CommandSets, Step(cmds) PROVE SkyTypes'
  <2>1. BodiesFrom(bodies', bodies) /\ ShipsFrom(ships', ships) /\ StationsFrom(stations', stations)
    BY <1>2, StepMakes DEF SkyTypes
  <2>2. OneMassless(bodies)'
    <3>1. OneMassless(bodies')
      BY <2>1 DEF BodiesFrom
    <3> QED BY <3>1 DEF OneMassless
  <2>3. UNCHANGED <<stage, wanted, candidate>> /\ now' = now + 1 /\ UNCHANGED <<born, resumes>>
    BY <1>2 DEF Step
  <2>4. Placed'
    BY <2>1, <2>2, <2>3 DEF SkyTypes, Placed, BodiesFrom, ShipsFrom, StationsFrom
  <2>5. Counted'
    BY <2>3 DEF SkyTypes, Counted
  <2> QED BY <2>4, <2>5 DEF SkyTypes
<1>3. CASE Resume
  <2>1. UNCHANGED startVars /\ now' = now /\ born' = now /\ resumes' = resumes + 1
    BY <1>3 DEF Resume
  <2>2. OneMassless(bodies)'
    BY <2>1 DEF SkyTypes, Placed, OneMassless, startVars
  <2>3. Placed'
    BY <2>1, <2>2 DEF SkyTypes, Placed, startVars
  <2>4. Counted'
    BY <2>1 DEF SkyTypes, Counted
  <2> QED BY <2>3, <2>4 DEF SkyTypes
<1>4. CASE UNCHANGED vars
  <2>1. UNCHANGED startVars /\ UNCHANGED skyVars
    BY <1>4 DEF vars
  <2>2. OneMassless(bodies)'
    BY <2>1 DEF SkyTypes, Placed, OneMassless, startVars
  <2>3. Placed' /\ Counted'
    BY <2>1, <2>2 DEF SkyTypes, Placed, Counted, startVars, skyVars
  <2> QED BY <2>3 DEF SkyTypes
<1> QED BY <1>1, <1>2, <1>3, <1>4 DEF Next

\* Bodies, ships and stations keep their types whatever the orbit step, the
\* mergers, the bounces and the heat make of them: masses, radii, fuel and
\* temperatures never fall below zero, and no second body is without mass
\* (TickExecutor::step).
THEOREM SkyIsTyped == Spec => []SkyTypes
<1>1. Init => SkyTypes
  BY InitTypes
<1>2. SkyTypes /\ [Next]_vars => SkyTypes'
  BY NextTypes
<1> QED BY <1>1, <1>2, PTL DEF Spec

\* The orbit step is time-symmetric, in every state and for every number of
\* bodies, ships and sources that pull: with all velocities turned round, a tick
\* without thrust leads back, to the last unit (kick, drift and kick in tick.rs).
THEOREM OrbitStepReversible == Spec => []Reversible
<1>1. SkyTypes => Reversible
  BY FlightIsReversible DEF SkyTypes, Placed
<1> QED BY <1>1, SkyIsTyped, PTL

(***************************************************************************)
(* Division and interpolation                                              *)
(***************************************************************************)

LEMMA Divided ==
  ASSUME NEW q \in Int, NEW d \in Nat, d > 0, NEW r \in Int, 0 <= r, r < d
  PROVE  (q * d + r) \div d = q /\ (q * d + r) % d = r
OBVIOUS

LEMMA Remainder ==
  ASSUME NEW x \in Int, NEW d \in Nat, d > 0
  PROVE  \E q \in Int, r \in 0..(d - 1) : x = q * d + r
<1>1. x \div d \in Int /\ x % d \in 0..(d - 1)
  OBVIOUS
<1>2. PICK q \in Int, r \in 0..(d - 1) : q = x \div d /\ r = x % d
  BY <1>1
<1>3. x = q * d + r
  BY <1>2
<1> QED BY <1>3

LEMMA RoundedUp ==
  ASSUME NEW c \in Int, NEW d \in Nat, d > 0, NEW g \in Int, 0 <= g, g < d
  PROVE  CeilDiv(c * d - g, d) = c
<1>1. PICK p \in Int : p = c * d
  BY Multiplying
<1>2. PICK r \in Int : r = d - 1 - g /\ 0 <= r /\ r < d
  OBVIOUS
<1>3. p - g + d - 1 = p + r
  BY <1>2
<1>4. (p + r) \div d = c
  BY <1>1, <1>2, Divided
<1> QED BY <1>1, <1>3, <1>4 DEF CeilDiv

\* A time from the one before: so many steps of d less a gap.
LEMMA StepsUpTo ==
  ASSUME NEW t \in Nat, NEW d \in Nat, d > 0
  PROVE  \E c \in Nat, g \in 0..(d - 1) : t = c * d - g
<1>1. PICK q \in Int, r \in 0..(d - 1) : t = q * d + r
  <2>1. PICK x \in Int : x = t
    OBVIOUS
  <2>2. \E q \in Int, r \in 0..(d - 1) : x = q * d + r
    BY Remainder
  <2> QED BY <2>1, <2>2
<1>2. q >= 0
  <2>1. SUFFICES ASSUME q <= -1 PROVE FALSE
    OBVIOUS
  <2>2. PICK p \in Int : p = q * d
    BY Multiplying
  <2>3. p <= -d
    BY <2>1, <2>2
  <2> QED BY <1>1, <2>2, <2>3
<1>3. CASE r = 0
  BY <1>1, <1>2, <1>3
<1>4. CASE r # 0
  <2>1. PICK c \in Nat, g \in 0..(d - 1) : c = q + 1 /\ g = d - r
    BY <1>2, <1>4
  <2>2. c * d = q * d + d
    BY <2>1
  <2>3. PICK p \in Int : p = q * d
    BY Multiplying
  <2>4. t = c * d - g
    BY <1>1, <2>1, <2>2, <2>3
  <2> QED BY <2>4
<1> QED BY <1>3, <1>4

\* The ratio of two spans does not change with the unit they are counted in.
LEMMA ScaledUp ==
  ASSUME NEW t \in Nat, NEW d \in Nat, d > 0, NEW k \in Nat, k > 0
  PROVE  CeilDiv(t * k, k * d) = CeilDiv(t, d)
<1>1. PICK c \in Nat, g \in 0..(d - 1) : t = c * d - g
  BY StepsUpTo
<1>2. CeilDiv(t, d) = c
  <2>1. c \in Int /\ g \in Int /\ 0 <= g /\ g < d
    OBVIOUS
  <2>2. CeilDiv(c * d - g, d) = c
    BY <2>1, RoundedUp
  <2> QED BY <1>1, <2>2
<1>3. PICK e \in Nat : e = k * d /\ e > 0
  BY Multiplying
<1>4. PICK h \in Nat : h = g * k /\ h < e
  <2>1. g * k \in Nat
    BY Multiplying
  <2>2. g * k < k * d
    OBVIOUS
  <2> QED BY <1>3, <2>1, <2>2
<1>5. t * k = c * e - h
  <2>1. PICK p \in Int : p = c * d
    BY Multiplying
  <2>2. (p - g) * k = p * k - g * k
    OBVIOUS
  <2>3. p * k = c * (k * d)
    BY <2>1
  <2> QED BY <1>1, <1>3, <1>4, <2>1, <2>2, <2>3
<1>6. CeilDiv(c * e - h, e) = c
  <2>1. c \in Int /\ h \in Int /\ 0 <= h
    OBVIOUS
  <2> QED BY <1>3, <1>4, <2>1, RoundedUp
<1> QED BY <1>2, <1>3, <1>5, <1>6

\* Halfway is between, and the ends are the ends.
LEMMA LerpEnds ==
  ASSUME NEW a \in Int, NEW b \in Int, NEW d \in Nat, d > 0
  PROVE  Lerp(a, a, 0, d) = a /\ Lerp(a, b, d, d) = b
<1>1. 0 \div d = 0
  OBVIOUS
<1>2. PICK e \in Int : e = b - a
  OBVIOUS
<1>3. (e * d + 0) \div d = e
  BY Divided
<1>4. PICK p \in Int : p = e * d
  BY Multiplying
<1>5. p \div d = e
  BY <1>3, <1>4
<1>6. a + p \div d = b
  BY <1>2, <1>5
<1>7. (a - a) * 0 = 0
  OBVIOUS
<1> QED BY <1>1, <1>2, <1>4, <1>6, <1>7 DEF Lerp

(***************************************************************************)
(* The history                                                             *)
(***************************************************************************)

SampleType == [pos : Int, radius : Nat, temp : Nat, area : Nat]

KeyType == {"body", "ship", "station"} \X Nat

FrameType == [time : Nat, samples : UNION {[K -> SampleType] : K \in SUBSET KeyType}]

PosIn(frame, key) == frame.samples[key].pos

\* Frames one tick apart, from the one after the first, each with the key.
Spaced(fs, first, key) ==
  /\ fs \in Seq(FrameType) /\ Len(fs) > 0
  /\ \A k \in 1..Len(fs) : /\ fs[k].time = (first + k) * TICK
                           /\ key \in DOMAIN fs[k].samples /\ PosIn(fs[k], key) \in Int

\* A time among the frames: c spacings after the first one, less a gap.
Among(fs, first, time, c, g) ==
  /\ c \in 0..(Len(fs) - 1) /\ g \in 0..(TICK - 1)
  /\ c = 0 => g = 0
  /\ time - (first + 1) * TICK = c * TICK - g

LEMMA SpacedTimes ==
  ASSUME NEW fs, NEW first \in Nat, NEW key, Spaced(fs, first, key)
  PROVE  /\ fs[1].time = (first + 1) * TICK /\ Newest(fs) = (first + Len(fs)) * TICK
         /\ Newest(fs) - fs[1].time = (Len(fs) - 1) * TICK
<1>1. PICK n \in Nat : n = Len(fs) /\ n > 0
  BY DEF Spaced
<1>2. 1 \in 1..n /\ n \in 1..n
  BY <1>1
<1>3. fs[1].time = (first + 1) * TICK /\ fs[n].time = (first + n) * TICK
  BY <1>1, <1>2 DEF Spaced
<1>4. (first + n) * TICK - (first + 1) * TICK = (n - 1) * TICK
  BY FlightAssumption
<1> QED BY <1>1, <1>3, <1>4 DEF Newest

LEMMA TimeAmong ==
  ASSUME NEW fs, NEW first \in Nat, NEW key, Spaced(fs, first, key), NEW time \in Nat,
         time >= fs[1].time, time <= Newest(fs)
  PROVE  \E c, g : Among(fs, first, time, c, g)
<1>1. PICK n \in Nat : n = Len(fs) /\ n > 0
  BY DEF Spaced
<1>2. PICK d \in Nat : d = TICK /\ d > 0
  BY FlightAssumption
<1>3. PICK start \in Nat : start = (first + 1) * d
  BY Multiplying
<1>4. PICK span \in Nat : span = (n - 1) * d
  <2>1. n - 1 \in Nat
    BY <1>1
  <2> QED BY <2>1, Multiplying
<1>5. fs[1].time = start /\ Newest(fs) - start = span /\ Newest(fs) = (first + n) * d
  BY <1>1, <1>2, <1>3, <1>4, SpacedTimes
<1>6. PICK t \in Nat : t = time - start /\ t <= span
  <2>1. PICK e \in Nat : e = (first + n) * d
    BY Multiplying
  <2> QED BY <1>5, <2>1
<1>7. PICK c \in Nat, g \in 0..(d - 1) : t = c * d - g
  BY <1>2, StepsUpTo
<1>8. c <= n - 1
  <2>1. SUFFICES ASSUME c >= n PROVE FALSE
    BY <1>1
  <2>2. PICK p \in Int : p = c * d
    BY Multiplying
  <2>3. p >= n * d
    BY <2>1, <2>2
  <2>4. n * d = span + d
    BY <1>4
  <2> QED BY <1>6, <1>7, <2>2, <2>3, <2>4
<1>9. c = 0 => g = 0
  BY <1>6, <1>7
<1>10. t = time - (first + 1) * TICK
  BY <1>2, <1>3, <1>6
<1>11. c \in 0..(n - 1) /\ c * TICK - g = t /\ g \in 0..(TICK - 1)
  BY <1>1, <1>2, <1>7, <1>8
<1>12. Among(fs, first, time, c, g)
  BY <1>1, <1>9, <1>10, <1>11 DEF Among
<1> QED BY <1>12

LEMMA UpperFrameFound ==
  ASSUME NEW fs, NEW first \in Nat, NEW key, Spaced(fs, first, key), NEW time \in Nat,
         NEW c, NEW g, Among(fs, first, time, c, g)
  PROVE  UpperFrame(fs, time) = 1 + c
<1>1. PICK n \in Nat : n = Len(fs) /\ n > 0
  BY DEF Spaced
<1>2. PICK d \in Nat : d = TICK /\ d > 0
  BY FlightAssumption
<1>3. c \in Nat /\ c <= n - 1 /\ g \in 0..(d - 1)
  BY <1>1, <1>2 DEF Among
<1>4. PICK span \in Nat : span = (n - 1) * d
  <2>1. n - 1 \in Nat
    BY <1>1
  <2> QED BY <2>1, Multiplying
<1>5. PICK t : t = time - fs[1].time
  OBVIOUS
<1>6. t = c * d - g
  BY <1>2, <1>5, SpacedTimes DEF Among
<1>7. t \in Nat
  <2>1. PICK p \in Nat : p = c * d
    BY <1>3, Multiplying
  <2>2. CASE c = 0
    BY <1>6, <2>1, <2>2 DEF Among
  <2>3. CASE c # 0
    <3>1. p >= d
      BY <1>2, <1>3, <2>1, <2>3
    <3> QED BY <1>3, <1>6, <2>1, <3>1
  <2> QED BY <2>2, <2>3
<1>8. Newest(fs) - fs[1].time = span
  BY <1>1, <1>2, <1>4, SpacedTimes
<1>9. CeilDiv(t * (n - 1), Most(span, 1)) = c
  <2>1. CASE n = 1
    <3>1. span = 0 /\ c = 0 /\ g = 0
      BY <1>3, <1>4, <2>1 DEF Among
    <3>2. t * (n - 1) = 0 /\ Most(span, 1) = 1
      BY <1>7, <2>1, <3>1 DEF Most
    <3>3. CeilDiv(0, 1) = 0
      BY DEF CeilDiv
    <3> QED BY <3>1, <3>2, <3>3
  <2>2. CASE n # 1
    <3>1. PICK k \in Nat : k = n - 1 /\ k > 0
      BY <1>1, <2>2
    <3>2. span = k * d /\ span > 0
      BY <1>2, <1>4, <3>1, Multiplying
    <3>3. Most(span, 1) = span
      BY <3>2 DEF Most
    <3>4. CeilDiv(t * k, k * d) = CeilDiv(t, d)
      <4>1. t \in Nat /\ d \in Nat /\ d > 0 /\ k \in Nat /\ k > 0
        BY <1>2, <1>7, <3>1
      <4> QED BY <4>1, ScaledUp, Zenon
    <3>5. CeilDiv(c * d - g, d) = c
      <4>1. c \in Int /\ g \in Int /\ 0 <= g /\ g < d
        BY <1>2, <1>3
      <4> QED BY <1>2, <4>1, RoundedUp
    <3> QED BY <1>6, <3>1, <3>2, <3>3, <3>4, <3>5
  <2> QED BY <2>1, <2>2
<1>10. Least(n, 1 + c) = 1 + c
  BY <1>1, <1>3 DEF Least
<1> QED BY <1>1, <1>5, <1>8, <1>9, <1>10 DEF UpperFrame

\* Between which two frames a time is, and how far.
SampledFrom(fs, first, key, time, m, n, r) ==
  /\ m \in 1..Len(fs) /\ n \in 1..Len(fs) /\ r \in 0..(TICK - 1)
  /\ time = (first + m) * TICK + r /\ n = (IF r = 0 THEN m ELSE m + 1)
  /\ SampleAt(fs, key, time) # {}
  /\ \A s \in SampleAt(fs, key, time) :
       s.pos = Lerp(PosIn(fs[m], key), PosIn(fs[n], key), r, TICK)

LEMMA SampledOnFirst ==
  ASSUME NEW fs, NEW first \in Nat, NEW key, Spaced(fs, first, key), NEW time \in Nat,
         time >= fs[1].time, time <= Newest(fs), Among(fs, first, time, 0, 0)
  PROVE  SampledFrom(fs, first, key, time, 1, 1, 0)
<1>1. PICK n \in Nat : n = Len(fs) /\ n > 0 /\ fs # <<>>
  BY DEF Spaced
<1>2. 0 \in Nat /\ UpperFrame(fs, time) = 1 + 0
  BY UpperFrameFound
<1>3. UpperFrame(fs, time) = 1 /\ Most(1 - 1, 1) = 1
  BY <1>2 DEF Most
<1>4. PICK a : a = fs[1].samples[key]
  OBVIOUS
<1>5. 1 \in 1..n /\ fs[1].time \in Int /\ key \in DOMAIN fs[1].samples /\ a.pos \in Int
  <2>1. 1 \in 1..n
    BY <1>1
  <2>2. fs[1].time = (first + 1) * TICK
    BY SpacedTimes
  <2>3. (first + 1) * TICK \in Int
    BY FlightAssumption, Multiplying
  <2> QED BY <1>1, <1>4, <2>1, <2>2, <2>3 DEF Spaced, PosIn
<1>6. FoundIn(fs[1], key) = {a}
  BY <1>4, <1>5 DEF FoundIn
<1>7. fs[1].time - fs[1].time <= 0
  BY <1>5
<1>8. ~ (fs = <<>> \/ time < fs[1].time \/ time > Newest(fs))
  <2>1. Newest(fs) \in Int
    BY <1>1, SpacedTimes, FlightAssumption
  <2> QED BY <1>1, <1>5, <2>1
<1>9. SampleAt(fs, key, time) = {a}
  BY <1>3, <1>6, <1>7, <1>8 DEF SampleAt
<1>10. Lerp(a.pos, a.pos, 0, TICK) = a.pos
  BY <1>5, FlightAssumption, LerpEnds
<1>11. time = (first + 1) * TICK + 0
  <2>1. PICK p \in Int : p = (first + 1) * TICK
    BY FlightAssumption, Multiplying
  <2>2. 0 * TICK = 0
    BY FlightAssumption
  <2> QED BY <2>1, <2>2 DEF Among
<1>12. 0 \in 0..(TICK - 1)
  BY FlightAssumption
<1> QED BY <1>1, <1>4, <1>5, <1>9, <1>10, <1>11, <1>12 DEF SampledFrom, PosIn

LEMMA SampledAfter ==
  ASSUME NEW fs, NEW first \in Nat, NEW key, Spaced(fs, first, key), NEW time \in Nat,
         time >= fs[1].time, time <= Newest(fs), NEW c \in Nat, c > 0, NEW g \in Int,
         Among(fs, first, time, c, g)
  PROVE  \E m, n, r : SampledFrom(fs, first, key, time, m, n, r)
<1>1. PICK len \in Nat : len = Len(fs) /\ len > 0 /\ fs # <<>>
  BY DEF Spaced
<1>2. PICK d \in Nat : d = TICK /\ d > 0
  BY FlightAssumption
<1>3. c + 1 <= len /\ g \in 0..(d - 1) /\ c \in 1..len /\ c + 1 \in 1..len
  BY <1>1, <1>2 DEF Among
<1>4. PICK before \in Nat : before = (first + c) * d
  <2>1. first + c \in Nat
    OBVIOUS
  <2> QED BY <2>1, Multiplying
<1>5. PICK upper : upper = c + 1
  OBVIOUS
<1>6. /\ fs[c].time = before /\ fs[upper].time = before + d
      /\ key \in DOMAIN fs[c].samples /\ key \in DOMAIN fs[upper].samples
      /\ PosIn(fs[c], key) \in Int /\ PosIn(fs[upper], key) \in Int
  <2>1. /\ fs[c].time = (first + c) * d /\ fs[upper].time = (first + (c + 1)) * d
        /\ key \in DOMAIN fs[c].samples /\ key \in DOMAIN fs[upper].samples
        /\ PosIn(fs[c], key) \in Int /\ PosIn(fs[upper], key) \in Int
    BY <1>1, <1>2, <1>3, <1>5 DEF Spaced
  <2>2. (first + (c + 1)) * d = (first + c) * d + d
    OBVIOUS
  <2> QED BY <1>4, <2>1, <2>2
<1>7. time = before + (d - g)
  <2>1. PICK p \in Int, q \in Int : p = first * d /\ q = c * d
    BY Multiplying
  <2>2. (first + 1) * d = p + d /\ before = p + q
    BY <1>4, <2>1
  <2> QED BY <1>2, <2>1, <2>2, <1>3 DEF Among
<1>8. UpperFrame(fs, time) = upper /\ Most(upper - 1, 1) = c
  <2>1. UpperFrame(fs, time) = 1 + c
    BY UpperFrameFound
  <2>2. Most(c, 1) = c
    BY DEF Most
  <2> QED BY <1>5, <2>1, <2>2
<1>9. ~ (fs = <<>> \/ time < fs[1].time \/ time > Newest(fs))
  <2>1. Newest(fs) = (first + len) * TICK /\ fs[1].time = (first + 1) * TICK
    BY <1>1, SpacedTimes
  <2>2. Newest(fs) \in Int /\ fs[1].time \in Int
    BY <2>1, <1>2, Multiplying
  <2> QED BY <1>1, <2>2
<1>10. PICK a, b : a = fs[c].samples[key] /\ b = fs[upper].samples[key]
  OBVIOUS
<1>11. FoundIn(fs[c], key) = {a} /\ FoundIn(fs[upper], key) = {b}
  BY <1>6, <1>10 DEF FoundIn
<1>12. fs[upper].time - fs[c].time = d /\ ~ (d <= 0)
  BY <1>2, <1>6
<1>13. Clamped(time - fs[c].time, 0, d) = d - g
  <2>1. time - fs[c].time = d - g
    BY <1>3, <1>6, <1>7
  <2>2. Least(d - g, d) = d - g /\ Most(0, d - g) = d - g
    BY <1>3 DEF Least, Most
  <2> QED BY <2>1, <2>2 DEF Clamped
<1>14. SampleAt(fs, key, time) = {Between(a, b, d - g, d)}
  BY <1>8, <1>9, <1>11, <1>12, <1>13 DEF SampleAt
<1>15. Between(a, b, d - g, d).pos = Lerp(a.pos, b.pos, d - g, d)
  BY DEF Between
<1>16. a.pos \in Int /\ b.pos \in Int /\ a.pos = PosIn(fs[c], key) /\ b.pos = PosIn(fs[upper], key)
  BY <1>6, <1>10 DEF PosIn
<1>17. CASE g = 0
  <2>1. Lerp(a.pos, b.pos, d - g, d) = b.pos /\ Lerp(b.pos, b.pos, 0, d) = b.pos
    <3>1. d - g = d
      BY <1>17
    <3> QED BY <1>2, <1>16, <3>1, LerpEnds
  <2>2. time = (first + upper) * TICK + 0
    <3>1. (first + (c + 1)) * d = (first + c) * d + d
      OBVIOUS
    <3> QED BY <1>2, <1>4, <1>5, <1>7, <1>17, <3>1
  <2>3. upper \in 1..len /\ 0 \in 0..(TICK - 1)
    BY <1>2, <1>3, <1>5
  <2>4. SampledFrom(fs, first, key, time, upper, upper, 0)
    BY <1>1, <1>2, <1>14, <1>15, <1>16, <2>1, <2>2, <2>3 DEF SampledFrom
  <2> QED BY <2>4
<1>18. CASE g # 0
  <2>1. PICK r \in 0..(TICK - 1) : r = d - g /\ r # 0
    BY <1>2, <1>3, <1>18
  <2>2. time = (first + c) * TICK + r
    BY <1>2, <1>4, <1>7, <2>1
  <2>3. upper \in 1..len
    BY <1>3, <1>5
  <2>4. SampledFrom(fs, first, key, time, c, upper, r)
    BY <1>1, <1>2, <1>3, <1>5, <1>14, <1>15, <1>16, <2>1, <2>2, <2>3 DEF SampledFrom
  <2> QED BY <2>4
<1> QED BY <1>17, <1>18

\* Inside the frames there is a sample between the right two, outside there is none.
LEMMA SampledInside ==
  ASSUME NEW fs, NEW first \in Nat, NEW key, Spaced(fs, first, key), NEW time \in Nat
  PROVE  LET inside == time >= fs[1].time /\ time <= Newest(fs)
         IN  /\ inside => \E m, n, r : SampledFrom(fs, first, key, time, m, n, r)
             /\ ~ inside => SampleAt(fs, key, time) = {}
<1>1. fs[1].time \in Int /\ Newest(fs) \in Int
  <2>1. PICK n \in Nat : n = Len(fs)
    BY DEF Spaced
  <2>2. Newest(fs) = (first + n) * TICK /\ fs[1].time = (first + 1) * TICK
    BY <2>1, SpacedTimes
  <2> QED BY <2>2, FlightAssumption, Multiplying
<1>2. ASSUME time >= fs[1].time, time <= Newest(fs)
      PROVE  \E m, n, r : SampledFrom(fs, first, key, time, m, n, r)
  <2>1. PICK c, g : Among(fs, first, time, c, g)
    BY <1>2, TimeAmong
  <2>2. c \in Nat /\ g \in Int /\ (c = 0 => g = 0)
    <3>1. PICK n \in Nat : n = Len(fs)
      BY DEF Spaced
    <3> QED BY <2>1, <3>1, FlightAssumption DEF Among
  <2>3. CASE c = 0
    <3>1. Among(fs, first, time, 0, 0)
      BY <2>1, <2>2, <2>3
    <3> QED BY <1>2, <3>1, SampledOnFirst
  <2>4. CASE c > 0
    BY <1>2, <2>1, <2>2, <2>4, SampledAfter
  <2> QED BY <2>2, <2>3, <2>4
<1>3. ASSUME ~ (time >= fs[1].time /\ time <= Newest(fs))
      PROVE  SampleAt(fs, key, time) = {}
  <2>1. time < fs[1].time \/ time > Newest(fs)
    BY <1>1, <1>3
  <2> QED BY <2>1 DEF SampleAt
<1> QED BY <1>2, <1>3

\* The keys of what is there.
KeysOf(bs, ss, sts) ==
  {BodyKey(bs[i]) : i \in DOMAIN bs} \cup {ShipKey(ss[i]) : i \in DOMAIN ss}
    \cup {StationKey(sts[i]) : i \in DOMAIN sts}

LEMMA ListedIsFinite ==
  ASSUME NEW n \in Nat, NEW f, f = [i \in 1..n |-> f[i]]
  PROVE  IsFiniteSet({f[i] : i \in 1..n})
<1>1. PICK S, T : S = 1..n /\ T = {f[i] : i \in 1..n}
  OBVIOUS
<1>2. f \in [S -> T] /\ \A t \in T : \E s \in S : f[s] = t
  BY <1>1
<1>3. f \in Surjection(S, T)
  BY <1>2 DEF Surjection
<1>4. IsFiniteSet(S)
  BY <1>1, FS_Interval
<1>5. IsFiniteSet(T)
  BY <1>3, <1>4, FS_Surjection
<1> QED BY <1>1, <1>5

LEMMA KeysAreFinite ==
  ASSUME NEW bs \in Seq(BodyType), NEW ss \in Seq(ShipType), NEW sts \in Seq(StationType)
  PROVE  IsFiniteSet(KeysOf(bs, ss, sts)) /\ KeysOf(bs, ss, sts) \subseteq KeyType
<1>1. PICK A : A = {BodyKey(bs[i]) : i \in DOMAIN bs}
  OBVIOUS
<1>2. PICK B : B = {ShipKey(ss[i]) : i \in DOMAIN ss}
  OBVIOUS
<1>3. PICK C : C = {StationKey(sts[i]) : i \in DOMAIN sts}
  OBVIOUS
<1>4. IsFiniteSet(A)
  <2>1. PICK n \in Nat : n = Len(bs) /\ DOMAIN bs = 1..n
    OBVIOUS
  <2>2. PICK f : f = [i \in 1..n |-> BodyKey(bs[i])]
    OBVIOUS
  <2>3. f = [i \in 1..n |-> f[i]] /\ A = {f[i] : i \in 1..n}
    BY <1>1, <2>1, <2>2
  <2> QED BY <2>3, ListedIsFinite
<1>5. IsFiniteSet(B)
  <2>1. PICK n \in Nat : n = Len(ss) /\ DOMAIN ss = 1..n
    OBVIOUS
  <2>2. PICK f : f = [i \in 1..n |-> ShipKey(ss[i])]
    OBVIOUS
  <2>3. f = [i \in 1..n |-> f[i]] /\ B = {f[i] : i \in 1..n}
    BY <1>2, <2>1, <2>2
  <2> QED BY <2>3, ListedIsFinite
<1>6. IsFiniteSet(C)
  <2>1. PICK n \in Nat : n = Len(sts) /\ DOMAIN sts = 1..n
    OBVIOUS
  <2>2. PICK f : f = [i \in 1..n |-> StationKey(sts[i])]
    OBVIOUS
  <2>3. f = [i \in 1..n |-> f[i]] /\ C = {f[i] : i \in 1..n}
    BY <1>3, <2>1, <2>2
  <2> QED BY <2>3, ListedIsFinite
<1>7. IsFiniteSet(KeysOf(bs, ss, sts))
  <2>1. IsFiniteSet(A \cup B)
    BY <1>4, <1>5, FS_Union
  <2>2. IsFiniteSet((A \cup B) \cup C)
    BY <1>6, <2>1, FS_Union
  <2> QED BY <1>1, <1>2, <1>3, <2>2 DEF KeysOf
<1>8. \A i \in DOMAIN bs : BodyKey(bs[i]) \in KeyType
  <2> SUFFICES ASSUME NEW i \in DOMAIN bs PROVE BodyKey(bs[i]) \in KeyType
    OBVIOUS
  <2>1. bs[i] \in BodyType
    OBVIOUS
  <2>2. bs[i].id \in Nat
    BY <2>1, BodyFields
  <2> QED BY <2>2 DEF BodyKey, KeyType
<1>9. \A i \in DOMAIN ss : ShipKey(ss[i]) \in KeyType
  <2> SUFFICES ASSUME NEW i \in DOMAIN ss PROVE ShipKey(ss[i]) \in KeyType
    OBVIOUS
  <2>1. ss[i] \in ShipType
    OBVIOUS
  <2>2. ss[i].id \in Nat
    BY <2>1, ShipFields
  <2> QED BY <2>2 DEF ShipKey, KeyType
<1>10. \A i \in DOMAIN sts : StationKey(sts[i]) \in KeyType
  <2> SUFFICES ASSUME NEW i \in DOMAIN sts PROVE StationKey(sts[i]) \in KeyType
    OBVIOUS
  <2>1. sts[i] \in StationType
    OBVIOUS
  <2>2. sts[i].id \in Nat
    BY <2>1 DEF StationType
  <2> QED BY <2>2 DEF StationKey, KeyType
<1> QED BY <1>7, <1>8, <1>9, <1>10 DEF KeysOf

LEMMA SampleIsSample ==
  ASSUME NEW pos \in Int, NEW radius \in Nat, NEW temp \in Nat, NEW area \in Nat
  PROVE  Sample(pos, radius, temp, area) \in SampleType
BY DEF Sample, SampleType

LEMMA RecordedSamples ==
  ASSUME NEW bs \in Seq(BodyType), NEW ss \in Seq(ShipType), NEW sts \in Seq(StationType)
  PROVE  /\ \A r \in Recorded(bs, ss, sts) : r[1] \in KeysOf(bs, ss, sts) /\ r[2] \in SampleType
         /\ \A key \in KeysOf(bs, ss, sts) : \E r \in Recorded(bs, ss, sts) : r[1] = key
<1>1. ASSUME NEW i \in DOMAIN bs
      PROVE  /\ bs[i] \in ToSet(bs)
             /\ Sample(bs[i].pos, bs[i].radius, bs[i].temp, bs[i].area) \in SampleType
  <2>1. PICK b \in BodyType : b = bs[i]
    OBVIOUS
  <2>2. Sample(b.pos, b.radius, b.temp, b.area) \in SampleType
    BY BodyFields, SampleIsSample
  <2> QED BY <2>1, <2>2 DEF ToSet
<1>2. ASSUME NEW i \in DOMAIN ss
      PROVE  ss[i] \in ToSet(ss) /\ Sample(ss[i].pos, ShipRadius, ss[i].temp, ShipArea) \in SampleType
  <2>1. PICK s \in ShipType : s = ss[i]
    OBVIOUS
  <2>2. Sample(s.pos, ShipRadius, s.temp, ShipArea) \in SampleType
    BY ShipFields, SampleIsSample, CollisionAssumption, WarmthAssumption
  <2> QED BY <2>1, <2>2 DEF ToSet
<1>3. ASSUME NEW i \in DOMAIN sts
      PROVE  /\ sts[i] \in ToSet(sts)
             /\ Sample(StationPos(sts[i], bs), StationRadius, sts[i].temp, ShipArea) \in SampleType
  <2>1. PICK s \in StationType : s = sts[i]
    OBVIOUS
  <2>2. StationPos(s, bs) \in Int /\ s.temp \in Nat
    BY StationPosIsInt DEF StationType
  <2>3. Sample(StationPos(s, bs), StationRadius, s.temp, ShipArea) \in SampleType
    BY <2>2, SampleIsSample, WarmthAssumption
  <2> QED BY <2>1, <2>3 DEF ToSet
<1>4. ASSUME NEW r \in Recorded(bs, ss, sts)
      PROVE  r[1] \in KeysOf(bs, ss, sts) /\ r[2] \in SampleType
  <2>1. CASE \E i \in DOMAIN bs :
               r = <<BodyKey(bs[i]), Sample(bs[i].pos, bs[i].radius, bs[i].temp, bs[i].area)>>
    BY <1>1, <2>1 DEF KeysOf
  <2>2. CASE \E i \in DOMAIN ss :
               r = <<ShipKey(ss[i]), Sample(ss[i].pos, ShipRadius, ss[i].temp, ShipArea)>>
    BY <1>2, <2>2 DEF KeysOf
  <2>3. CASE \E i \in DOMAIN sts :
               r = <<StationKey(sts[i]),
                     Sample(StationPos(sts[i], bs), StationRadius, sts[i].temp, ShipArea)>>
    BY <1>3, <2>3 DEF KeysOf
  <2> QED BY <1>4, <2>1, <2>2, <2>3 DEF Recorded, ToSet
<1>5. ASSUME NEW key \in KeysOf(bs, ss, sts)
      PROVE  \E r \in Recorded(bs, ss, sts) : r[1] = key
  <2>1. CASE \E i \in DOMAIN bs : key = BodyKey(bs[i])
    <3>1. PICK i \in DOMAIN bs : key = BodyKey(bs[i])
      BY <2>1
    <3>2. PICK r : r = <<BodyKey(bs[i]), Sample(bs[i].pos, bs[i].radius, bs[i].temp, bs[i].area)>>
      OBVIOUS
    <3> QED BY <1>1, <3>1, <3>2 DEF Recorded
  <2>2. CASE \E i \in DOMAIN ss : key = ShipKey(ss[i])
    <3>1. PICK i \in DOMAIN ss : key = ShipKey(ss[i])
      BY <2>2
    <3>2. PICK r : r = <<ShipKey(ss[i]), Sample(ss[i].pos, ShipRadius, ss[i].temp, ShipArea)>>
      OBVIOUS
    <3> QED BY <1>2, <3>1, <3>2 DEF Recorded
  <2>3. CASE \E i \in DOMAIN sts : key = StationKey(sts[i])
    <3>1. PICK i \in DOMAIN sts : key = StationKey(sts[i])
      BY <2>3
    <3>2. PICK r : r = <<StationKey(sts[i]),
                         Sample(StationPos(sts[i], bs), StationRadius, sts[i].temp, ShipArea)>>
      OBVIOUS
    <3> QED BY <1>3, <3>1, <3>2 DEF Recorded
  <2> QED BY <1>5, <2>1, <2>2, <2>3 DEF KeysOf
<1> QED BY <1>4, <1>5

LEMMA FrameIsFrame ==
  ASSUME NEW bs \in Seq(BodyType), NEW ss \in Seq(ShipType), NEW sts \in Seq(StationType),
         NEW time \in Nat
  PROVE  /\ Frame(time, bs, ss, sts) \in FrameType
         /\ Frame(time, bs, ss, sts).time = time
         /\ DOMAIN Frame(time, bs, ss, sts).samples = KeysOf(bs, ss, sts)
<1>1. PICK all : all = Recorded(bs, ss, sts)
  OBVIOUS
<1>2. PICK keys : keys = {r[1] : r \in all}
  OBVIOUS
<1>3. keys = KeysOf(bs, ss, sts)
  BY <1>1, <1>2, RecordedSamples
<1>4. PICK f : f = [key \in keys |-> (CHOOSE r \in all : r[1] = key)[2]]
  OBVIOUS
<1>5. \A key \in keys : f[key] \in SampleType
  <2> SUFFICES ASSUME NEW key \in keys PROVE f[key] \in SampleType
    OBVIOUS
  <2>1. \E r \in all : r[1] = key
    BY <1>2
  <2>2. PICK r : r = CHOOSE q \in all : q[1] = key
    OBVIOUS
  <2>3. r \in all
    BY <2>1, <2>2
  <2>4. f[key] = r[2]
    BY <1>4, <2>2
  <2> QED BY <1>1, <2>3, <2>4, RecordedSamples
<1>6. f \in [keys -> SampleType] /\ DOMAIN f = keys
  BY <1>4, <1>5
<1>7. keys \in SUBSET KeyType
  BY <1>3, KeysAreFinite
<1>8. f \in UNION {[K -> SampleType] : K \in SUBSET KeyType}
  BY <1>6, <1>7
<1>9. Frame(time, bs, ss, sts) = [time |-> time, samples |-> f]
  BY <1>1, <1>2, <1>4 DEF Frame
<1> QED BY <1>3, <1>6, <1>8, <1>9 DEF FrameType


\* At least one frame is kept.
LEMMA LimitIsNat ==
  ASSUME NEW frame, IsFiniteSet(DOMAIN frame.samples)
  PROVE  FrameLimit(frame) \in Nat /\ FrameLimit(frame) > 0
<1>1. PICK c \in Nat : c = Cardinality(DOMAIN frame.samples)
  BY FS_CardinalityType
<1>2. PICK d \in Nat : d = Most(c, 1) /\ d > 0
  BY DEF Most
<1>3. PICK x \in Int : x = Budget \div d
  BY <1>2, HistoryAssumption
<1>4. PICK e \in Nat : e = Light * TICK /\ e > 0
  BY HistoryAssumption, FlightAssumption, Multiplying
<1>5. PICK y \in Int : y = CeilDiv(HistoryRange, e)
  <2>1. HistoryRange + e - 1 \in Int
    BY HistoryAssumption
  <2>2. (HistoryRange + e - 1) \div e \in Int
    BY <1>4, <2>1
  <2> QED BY <2>2 DEF CeilDiv
<1>6. MaxFrames = Most(y + 2, 2)
  BY <1>4, <1>5 DEF MaxFrames
<1>7. FrameLimit(frame) = Least(Most(y + 2, 2), Most(x, 2))
  BY <1>1, <1>2, <1>3, <1>6 DEF FrameLimit
<1> QED BY <1>7 DEF Least, Most

\* The last of the frames fs, in their order, and then f.
LastOf(gs, fs, f) ==
  /\ gs \in Seq(FrameType) /\ Len(gs) > 0 /\ Len(gs) <= Len(fs) + 1
  /\ \A k \in 1..Len(gs) :
       gs[k] = (IF k = Len(gs) THEN f ELSE fs[Len(fs) + 1 - Len(gs) + k])

LEMMA AppendedIsSuffix ==
  ASSUME NEW fs \in Seq(FrameType), NEW f \in FrameType, IsFiniteSet(DOMAIN f.samples)
  PROVE  LastOf(Appended(fs, f), fs, f)
<1>0. PICK gs : gs = Appended(fs, f)
  OBVIOUS
<1>1. PICK T : T = FrameType
  OBVIOUS
<1>2. PICK all \in Seq(T) : all = Append(fs, f)
  <2>1. fs \in Seq(T) /\ f \in T
    BY <1>1
  <2>2. Append(fs, f) \in Seq(T)
    BY <2>1
  <2> QED BY <2>2
<1>3. PICK n \in Nat : n = Len(fs)
  OBVIOUS
<1>4. Len(all) = n + 1 /\ all[n + 1] = f /\ \A k \in 1..n : all[k] = fs[k]
  BY <1>2, <1>3
<1>5. PICK limit \in Nat : limit = FrameLimit(f) /\ limit > 0
  BY LimitIsNat
<1>6. PICK low \in 1..(n + 1) : low = Most(1, n + 1 - limit + 1)
  BY <1>5 DEF Most
<1>7. gs = SubSeq(all, low, n + 1)
  <2>1. gs = SubSeq(all, Most(1, Len(all) - FrameLimit(f) + 1), Len(all))
    BY <1>0, <1>2, Zenon DEF Appended
  <2>2. low = Most(1, Len(all) - FrameLimit(f) + 1)
    BY <1>4, <1>5, <1>6
  <2> QED BY <1>4, <2>1, <2>2
<1>8. gs \in Seq(T)
  BY <1>4, <1>6, <1>7
<1>9. Len(gs) = n + 2 - low
  BY <1>4, <1>6, <1>7
<1>10. \A k \in 1..(n + 2 - low) : gs[k] = all[low + k - 1]
  BY <1>4, <1>6, <1>7, SMTT(30)
<1>11. PICK m \in Nat : m = Len(gs) /\ m = n + 2 - low
  BY <1>6, <1>9
<1>12. ASSUME NEW k \in 1..m
       PROVE  gs[k] = (IF k = m THEN f ELSE fs[n + 1 - m + k])
  <2>1. gs[k] = all[low + k - 1]
    BY <1>10, <1>11
  <2>2. CASE k = m
    BY <1>4, <1>11, <2>1, <2>2
  <2>3. CASE k # m
    <3>1. PICK j \in 1..n : j = low + k - 1
      BY <1>6, <1>11, <2>3
    <3>2. j = n + 1 - m + k
      <4>1. low \in Int /\ k \in Int /\ j \in Int
        OBVIOUS
      <4> QED BY <1>11, <3>1, <4>1
    <3>3. gs[k] = fs[j]
      BY <1>4, <2>1, <3>1
    <3> QED BY <2>3, <3>2, <3>3
  <2> QED BY <2>2, <2>3
<1>13. Len(gs) > 0 /\ Len(gs) <= Len(fs) + 1
  BY <1>3, <1>6, <1>11
<1>14. \A k \in 1..Len(gs) :
         gs[k] = (IF k = Len(gs) THEN f ELSE fs[Len(fs) + 1 - Len(gs) + k])
  BY <1>3, <1>11, <1>12
<1> QED BY <1>0, <1>1, <1>8, <1>13, <1>14 DEF LastOf

\* What a process that began at tick b may remember at tick n: the last frames
\* there were, one for every tick and none of a tick up to b; what is there now
\* has been there always.
Told(ps, fs, n, b, keys) ==
  /\ ps \in Seq(FrameType) /\ Len(ps) = n
  /\ fs \in Seq(FrameType) /\ Len(fs) <= n - b
  /\ \A k \in 1..n : ps[k].time = k * TICK /\ keys \subseteq DOMAIN ps[k].samples
  /\ \A k \in 1..Len(fs) : fs[k] = ps[n - Len(fs) + k]
  /\ n > 0 => DOMAIN ps[n].samples \subseteq keys

LEMMA ToldOn ==
  ASSUME NEW n \in Nat, NEW b \in 0..n, NEW ps, NEW fs, NEW keys, Told(ps, fs, n, b, keys),
         NEW f \in FrameType, NEW others, f.time = (n + 1) * TICK, DOMAIN f.samples = others,
         IsFiniteSet(others), others \subseteq keys,
         NEW qs, qs = Append(ps, f), NEW gs, gs = Appended(fs, f)
  PROVE  Told(qs, gs, n + 1, b, others)
<1>1. PICK T : T = FrameType
  OBVIOUS
<1>2. ps \in Seq(T) /\ Len(ps) = n /\ fs \in Seq(T) /\ Len(fs) <= n - b /\ f \in T
  BY <1>1 DEF Told
<1>3. qs \in Seq(T) /\ Len(qs) = n + 1 /\ qs[n + 1] = f /\ \A k \in 1..n : qs[k] = ps[k]
  BY <1>2
<1>4. PICK m \in Nat : m = Len(fs)
  BY <1>2
<1>5. /\ gs \in Seq(T) /\ Len(gs) > 0 /\ Len(gs) <= m + 1
      /\ \A k \in 1..Len(gs) : gs[k] = (IF k = Len(gs) THEN f ELSE fs[m + 1 - Len(gs) + k])
  <2>1. fs \in Seq(FrameType) /\ IsFiniteSet(DOMAIN f.samples)
    BY <1>1, <1>2
  <2>2. LastOf(gs, fs, f)
    BY <2>1, AppendedIsSuffix
  <2> QED BY <1>1, <1>4, <2>2 DEF LastOf
<1>6. PICK p \in Nat : p = Len(gs) /\ p > 0 /\ p <= m + 1
  BY <1>5
<1>7. m <= n - b
  BY <1>2, <1>4
<1>8. p <= n + 1 - b
  BY <1>6, <1>7
<1>9. ASSUME NEW k \in 1..(n + 1)
      PROVE  qs[k].time = k * TICK /\ others \subseteq DOMAIN qs[k].samples
  <2>1. CASE k = n + 1
    BY <1>3, <2>1
  <2>2. CASE k # n + 1
    <3>1. k \in 1..n
      BY <2>2
    <3>2. ps[k].time = k * TICK /\ keys \subseteq DOMAIN ps[k].samples
      BY <3>1 DEF Told
    <3> QED BY <1>3, <3>1, <3>2
  <2> QED BY <2>1, <2>2
<1>10. ASSUME NEW k \in 1..p PROVE gs[k] = qs[n + 1 - p + k]
  <2>1. CASE k = p
    BY <1>3, <1>5, <1>6, <2>1
  <2>2. CASE k # p
    <3>1. gs[k] = fs[m + 1 - p + k]
      BY <1>5, <1>6, <2>2
    <3>2. PICK j \in 1..m : j = m + 1 - p + k
      <4>1. m + 1 - p + k \in 1..m
        BY <1>6, <2>2
      <4> QED BY <4>1
    <3>3. fs[j] = ps[n - m + j]
      BY <1>4 DEF Told
    <3>4. PICK i \in 1..n : i = n - m + j
      BY <1>7, <3>2
    <3>5. i = n + 1 - p + k
      BY <3>2, <3>4
    <3>6. qs[i] = ps[i]
      BY <1>3
    <3> QED BY <3>1, <3>2, <3>3, <3>4, <3>5, <3>6
  <2> QED BY <2>1, <2>2
<1>11. DOMAIN qs[n + 1].samples \subseteq others
  BY <1>3
<1>13. Len(gs) <= n + 1 - b
  BY <1>6, <1>8
<1>14. qs \in Seq(FrameType) /\ Len(qs) = n + 1 /\ gs \in Seq(FrameType)
  BY <1>1, <1>3, <1>5
<1>15. n + 1 > 0 => DOMAIN qs[n + 1].samples \subseteq others
  BY <1>11
<1>16. \A k \in 1..(n + 1) : qs[k].time = k * TICK /\ others \subseteq DOMAIN qs[k].samples
  BY <1>9
<1>17. PICK next \in Nat : next = n + 1
  OBVIOUS
<1>18. Told(qs, gs, next, b, others)
  <2>1. qs \in Seq(FrameType) /\ Len(qs) = next
    BY <1>14, <1>17
  <2>2. gs \in Seq(FrameType) /\ Len(gs) <= next - b
    BY <1>13, <1>14, <1>17
  <2>3. \A k \in 1..next : qs[k].time = k * TICK /\ others \subseteq DOMAIN qs[k].samples
    BY <1>16, <1>17
  <2>4. \A k \in 1..Len(gs) : gs[k] = qs[next - Len(gs) + k]
    <3>1. ASSUME NEW k \in 1..p PROVE gs[k] = qs[next - p + k]
      <4>1. n + 1 - p + k = next - p + k
        BY <1>17
      <4>2. gs[k] = qs[n + 1 - p + k]
        BY <1>10
      <4> QED BY <4>1, <4>2, Zenon
    <3> QED BY <1>6, <3>1
  <2>5. next > 0 => DOMAIN qs[next].samples \subseteq others
    BY <1>15, <1>17
  <2> QED BY <2>1, <2>2, <2>3, <2>4, <2>5, Zenon DEF Told
<1> QED BY <1>17, <1>18


\* What a process may remember is the truth.
LEMMA ToldIsTrue ==
  ASSUME NEW n \in Nat, NEW b \in 0..n, NEW ps, NEW fs, NEW keys, Told(ps, fs, n, b, keys),
         fs # <<>>, NEW key \in DOMAIN ps[n].samples, NEW time \in Nat
  PROVE  /\ fs[1].time > b * TICK
         /\ SampleAt(fs, key, time) # {} <=> time >= fs[1].time /\ time <= n * TICK
         /\ \A s \in SampleAt(fs, key, time) :
              s.pos = Lerp(PosIn(ps[time \div TICK], key), PosIn(ps[CeilDiv(time, TICK)], key),
                           time % TICK, TICK)
<1>1. PICK len \in Nat : len = Len(fs) /\ len > 0 /\ len <= n - b
  <2>1. PICK T : T = FrameType
    OBVIOUS
  <2>2. fs \in Seq(T) /\ Len(fs) <= n - b
    BY <2>1 DEF Told
  <2> QED BY <2>2
<1>2. PICK first \in Nat : first = n - len /\ first >= b
  <2>1. n - len \in Nat /\ n - len >= b
    BY <1>1
  <2> QED BY <2>1
<1>3. PICK d \in Nat : d = TICK /\ d > 0
  BY FlightAssumption
<1>4. key \in keys
  BY <1>1 DEF Told
<1>5. ASSUME NEW k \in 1..len
      PROVE  /\ first + k \in 1..n /\ fs[k] = ps[first + k] /\ fs[k].time = (first + k) * d
             /\ key \in DOMAIN fs[k].samples /\ PosIn(fs[k], key) \in Int
  <2>1. PICK i \in 1..n : i = first + k
    <3>1. first + k \in 1..n
      BY <1>1, <1>2
    <3> QED BY <3>1
  <2>2. fs[k] = ps[n - len + k]
    BY <1>1 DEF Told
  <2>3. fs[k] = ps[i]
    BY <1>2, <2>1, <2>2
  <2>4. ps[i].time = i * d /\ keys \subseteq DOMAIN ps[i].samples
    BY <1>3 DEF Told
  <2>5. ps[i] \in FrameType
    <3>1. PICK T : T = FrameType
      OBVIOUS
    <3>2. ps \in Seq(T) /\ Len(ps) = n
      BY <3>1 DEF Told
    <3> QED BY <3>1, <3>2
  <2>6. key \in DOMAIN ps[i].samples
    BY <1>4, <2>4
  <2>7. PosIn(ps[i], key) \in Int
    <3>1. PICK K \in SUBSET KeyType : ps[i].samples \in [K -> SampleType]
      BY <2>5 DEF FrameType
    <3>2. ps[i].samples[key] \in SampleType
      BY <2>6, <3>1
    <3> QED BY <3>2 DEF SampleType, PosIn
  <2> QED BY <2>1, <2>3, <2>4, <2>6, <2>7
<1>6. Spaced(fs, first, key)
  <2>1. fs \in Seq(FrameType)
    BY DEF Told
  <2> QED BY <1>1, <1>3, <1>5, <2>1 DEF Spaced
<1>7. Newest(fs) = n * d /\ fs[1].time = (first + 1) * d
  <2>1. Newest(fs) = (first + len) * TICK /\ fs[1].time = (first + 1) * TICK
    BY <1>1, <1>6, SpacedTimes
  <2>2. first + len = n
    BY <1>1, <1>2
  <2> QED BY <1>3, <2>1, <2>2
<1>8. fs[1].time > b * TICK
  <2>1. PICK e \in Nat : e = first - b
    BY <1>2
  <2>2. PICK p \in Int, q \in Nat : p = b * d /\ q = e * d
    BY Multiplying
  <2>3. (first + 1) * d = p + q + d
    BY <2>1, <2>2, <1>2
  <2> QED BY <1>3, <1>7, <2>2, <2>3
<1>9. CASE ~ (time >= fs[1].time /\ time <= n * TICK)
  <2>1. SampleAt(fs, key, time) = {}
    BY <1>3, <1>6, <1>7, <1>9, SampledInside
  <2> QED BY <1>8, <1>9, <2>1
<1>10. CASE time >= fs[1].time /\ time <= n * TICK
  <2>1. PICK m, u, r : SampledFrom(fs, first, key, time, m, u, r)
    BY <1>3, <1>6, <1>7, <1>10, SampledInside
  <2>2. /\ m \in 1..len /\ u \in 1..len /\ r \in 0..(d - 1)
        /\ time = (first + m) * d + r /\ u = (IF r = 0 THEN m ELSE m + 1)
        /\ SampleAt(fs, key, time) # {}
        /\ \A s \in SampleAt(fs, key, time) :
             s.pos = Lerp(PosIn(fs[m], key), PosIn(fs[u], key), r, TICK)
    BY <1>1, <1>3, <2>1 DEF SampledFrom
  <2>3. PICK q \in Int : q = first + m
    BY <2>2
  <2>4. time \div TICK = q /\ time % TICK = r
    <3>1. r \in Int /\ 0 <= r /\ r < d
      BY <2>2
    <3>2. (q * d + r) \div d = q /\ (q * d + r) % d = r
      BY <1>3, <3>1, Divided
    <3> QED BY <1>3, <2>2, <2>3, <3>2
  <2>5. CeilDiv(time, TICK) = first + u
    <3>1. PICK c \in Int, g \in Int : c = first + u /\ g = (IF r = 0 THEN 0 ELSE d - r)
      <4>1. PICK g : g = (IF r = 0 THEN 0 ELSE d - r)
        OBVIOUS
      <4>2. first + u \in Int /\ g \in Int
        BY <2>2, <4>1
      <4> QED BY <4>1, <4>2
    <3>2. 0 <= g /\ g < d
      BY <1>3, <2>2, <3>1
    <3>3. time = c * d - g
      <4>1. PICK p \in Int : p = q * d
        BY Multiplying
      <4>2. (q + 1) * d = p + d
        BY <4>1
      <4>3. CASE r = 0
        BY <2>2, <2>3, <3>1, <4>1, <4>3
      <4>4. CASE r # 0
        <5>1. c = q + 1 /\ g = d - r
          BY <2>2, <2>3, <3>1, <4>4
        <5>2. time = p + r
          BY <2>2, <2>3, <4>1
        <5> QED BY <2>2, <4>2, <5>1, <5>2
      <4> QED BY <4>3, <4>4
    <3>4. CeilDiv(c * d - g, d) = c
      BY <1>3, <3>2, RoundedUp
    <3> QED BY <1>3, <3>1, <3>3, <3>4
  <2>6. fs[m] = ps[time \div TICK] /\ fs[u] = ps[CeilDiv(time, TICK)]
    BY <1>5, <2>2, <2>3, <2>4, <2>5
  <2>7. \A s \in SampleAt(fs, key, time) :
          s.pos = Lerp(PosIn(ps[time \div TICK], key), PosIn(ps[CeilDiv(time, TICK)], key),
                       time % TICK, TICK)
    BY <2>2, <2>4, <2>6
  <2> QED BY <1>8, <1>10, <2>2, <2>7
<1> QED BY <1>9, <1>10


\* The history remembers, and of every tick that was it has what is there now.
Remembered ==
  /\ Told(past, frames, now, born, KeysOf(bodies, ships, stations))
  /\ stage = "placing" => now = 0

LEMMA KeysMoveOn ==
  ASSUME NEW bs, NEW ss, NEW sts, NEW cs, NEW us, NEW ts,
         BodiesFrom(cs, bs), ShipsFrom(us, ss), StationsFrom(ts, sts)
  PROVE  KeysOf(cs, us, ts) \subseteq KeysOf(bs, ss, sts)
<1>1. \A k \in DOMAIN cs : \E i \in DOMAIN bs : BodyKey(cs[k]) = BodyKey(bs[i])
  BY DEF BodiesFrom, BodyKey
<1>2. \A i \in DOMAIN us : i \in DOMAIN ss /\ ShipKey(us[i]) = ShipKey(ss[i])
  BY DEF ShipsFrom, ShipKey
<1>3. \A i \in DOMAIN ts : i \in DOMAIN sts /\ StationKey(ts[i]) = StationKey(sts[i])
  BY DEF StationsFrom, StationKey
<1>4. {BodyKey(cs[i]) : i \in DOMAIN cs} \subseteq {BodyKey(bs[i]) : i \in DOMAIN bs}
  BY <1>1
<1>5. {ShipKey(us[i]) : i \in DOMAIN us} \subseteq {ShipKey(ss[i]) : i \in DOMAIN ss}
  BY <1>2
<1>6. {StationKey(ts[i]) : i \in DOMAIN ts} \subseteq {StationKey(sts[i]) : i \in DOMAIN sts}
  BY <1>3
<1> QED BY <1>4, <1>5, <1>6 DEF KeysOf

LEMMA InitRemembered == Init => Remembered
<1> SUFFICES ASSUME Init PROVE Remembered
  OBVIOUS
<1>1. now = 0 /\ born = 0 /\ frames = <<>> /\ past = <<>>
  BY DEF Init
<1>2. PICK keys : keys = KeysOf(bodies, ships, stations)
  OBVIOUS
<1>3. PICK T : T = FrameType
  OBVIOUS
<1>4. Told(<<>>, <<>>, 0, 0, keys)
  BY <1>3 DEF Told
<1> QED BY <1>1, <1>2, <1>4 DEF Remembered

\* Before the first tick there is nothing to remember.
LEMMA NothingTold ==
  ASSUME NEW ps, NEW fs, NEW b \in 0..0, NEW keys, NEW others, Told(ps, fs, 0, b, keys)
  PROVE  Told(ps, fs, 0, b, others)
BY DEF Told

LEMMA NewProcessToldNothing ==
  ASSUME NEW ps, NEW fs, NEW n \in Nat, NEW b, NEW keys, Told(ps, fs, n, b, keys)
  PROVE  Told(ps, <<>>, n, n, keys)
<1>1. PICK T : T = FrameType
  OBVIOUS
<1>2. <<>> \in Seq(T) /\ Len(<<>>) = 0 /\ 0 <= n - n
  OBVIOUS
<1> QED BY <1>1, <1>2 DEF Told

LEMMA PlaceRemembers == SkyTypes /\ Remembered /\ Place => Remembered'
<1> SUFFICES ASSUME SkyTypes, Remembered, Place PROVE Remembered'
  OBVIOUS
<1>1. stage = "placing"
  BY DEF Place, PlaceStation, Begin
<1>2. now = 0 /\ born \in 0..0
  BY <1>1 DEF Remembered, SkyTypes, Counted
<1>3. PICK keys : keys = KeysOf(bodies, ships, stations)
  OBVIOUS
<1>4. PICK others : others = KeysOf(bodies, ships, stations)'
  OBVIOUS
<1>5. Told(past, frames, 0, born, keys)
  BY <1>2, <1>3 DEF Remembered
<1>6. PICK ps, fs, b : ps = past /\ fs = frames /\ b = born
  OBVIOUS
<1>7. Told(ps, fs, 0, b, others)
  BY <1>2, <1>5, <1>6, NothingTold
<1>8. past' = ps /\ frames' = fs /\ born' = b /\ now' = 0
  BY <1>2, <1>6 DEF Place, skyVars
<1> QED BY <1>4, <1>7, <1>8 DEF Remembered

LEMMA StepRemembers ==
  ASSUME SkyTypes, Remembered, NEW cmds \in CommandSets, Step(cmds)
  PROVE  Remembered'
<1>1. BodiesFrom(bodies', bodies) /\ ShipsFrom(ships', ships) /\ StationsFrom(stations', stations)
  BY StepMakes DEF SkyTypes
<1>2. PICK bs, ss, sts : bs = bodies' /\ ss = ships' /\ sts = stations'
  OBVIOUS
<1>3. PICK keys, others : keys = KeysOf(bodies, ships, stations) /\ others = KeysOf(bs, ss, sts)
  OBVIOUS
<1>4. others \subseteq keys
  BY <1>1, <1>2, <1>3, KeysMoveOn
<1>5. bs \in Seq(BodyType) /\ ss \in Seq(ShipType) /\ sts \in Seq(StationType)
  BY <1>1, <1>2 DEF BodiesFrom, ShipsFrom, StationsFrom
<1>6. PICK n \in Nat, b \in Nat : n = now /\ b = born /\ b \in 0..n
  BY DEF SkyTypes, Counted
<1>7. PICK time \in Nat : time = (n + 1) * TICK
  BY FlightAssumption, Multiplying
<1>8. PICK f : f = Frame(time, bs, ss, sts)
  OBVIOUS
<1>9. f \in FrameType /\ f.time = (n + 1) * TICK /\ DOMAIN f.samples = others
  BY <1>3, <1>5, <1>7, <1>8, FrameIsFrame
<1>10. IsFiniteSet(others)
  BY <1>3, <1>5, KeysAreFinite
<1>11. PICK ps, fs : ps = past /\ fs = frames
  OBVIOUS
<1>12. Told(ps, fs, n, b, keys)
  BY <1>3, <1>6, <1>11 DEF Remembered
<1>13. PICK qs, gs : qs = Append(ps, f) /\ gs = Appended(fs, f)
  OBVIOUS
<1>14. Told(qs, gs, n + 1, b, others)
  BY <1>4, <1>6, <1>9, <1>10, <1>12, <1>13, ToldOn
<1>15. now' = n + 1 /\ born' = b
  BY <1>6 DEF Step
<1>16. frames' = gs /\ past' = qs
  BY <1>2, <1>7, <1>8, <1>11, <1>13, <1>15 DEF Step
<1>17. stage' = "up"
  BY DEF Step
<1>18. others = KeysOf(bodies, ships, stations)'
  BY <1>2, <1>3
<1> QED BY <1>14, <1>15, <1>16, <1>17, <1>18 DEF Remembered

LEMMA NextRemembers == SkyTypes /\ Remembered /\ [Next]_vars => Remembered'
<1> SUFFICES ASSUME SkyTypes, Remembered, [Next]_vars PROVE Remembered'
  OBVIOUS
<1>1. CASE Place
  BY <1>1, PlaceRemembers
<1>2. ASSUME NEW cmds \in CommandSets, Step(cmds) PROVE Remembered'
  BY <1>2, StepRemembers
<1>3. CASE Resume
  <2>1. PICK ps, fs, b, keys : /\ ps = past /\ fs = frames /\ b = born
                               /\ keys = KeysOf(bodies, ships, stations)
    OBVIOUS
  <2>2. PICK n \in Nat : n = now
    BY DEF SkyTypes, Counted
  <2>3. Told(ps, <<>>, n, n, keys)
    BY <2>1, <2>2, NewProcessToldNothing DEF Remembered
  <2>4. past' = ps /\ frames' = <<>> /\ now' = n /\ born' = n /\ stage' = "up"
    BY <1>3, <2>1, <2>2 DEF Resume, startVars
  <2>5. KeysOf(bodies, ships, stations)' = keys
    BY <1>3, <2>1 DEF Resume, startVars
  <2> QED BY <2>3, <2>4, <2>5 DEF Remembered
<1>4. CASE UNCHANGED vars
  <2>1. /\ past' = past /\ frames' = frames /\ now' = now /\ born' = born /\ stage' = stage
        /\ bodies' = bodies /\ ships' = ships /\ stations' = stations
    BY <1>4 DEF vars, startVars, skyVars
  <2> QED BY <2>1 DEF Remembered
<1> QED BY <1>1, <1>2, <1>3, <1>4 DEF Next

\* The history of a process tells the truth, for every length it may have and
\* every tick it began at: it has every thing that is there where it really
\* was, between two ticks on the line between, and nothing of another time
\* (ObservationHistory::append and sample in history.rs).
THEOREM HistoryTellsTheTruth == Spec => []HistoryIsTrue
<1>1. SkyTypes /\ Remembered => HistoryIsTrue
  <2> SUFFICES ASSUME SkyTypes, Remembered, frames # <<>>, NEW key \in DOMAIN past[now].samples,
                      NEW time \in 0..(now * TICK + 1)
               PROVE  LET inside == time >= frames[1].time /\ time <= now * TICK
                      IN  /\ frames[1].time > born * TICK
                          /\ SampleAt(frames, key, time) # {} <=> inside
                          /\ \A s \in SampleAt(frames, key, time) : s.pos = TruePos(key, time)
    BY DEF HistoryIsTrue
  <2>1. PICK n \in Nat, b \in Nat : n = now /\ b = born /\ b \in 0..n
    BY DEF SkyTypes, Counted
  <2>2. PICK ps, fs, keys : ps = past /\ fs = frames /\ keys = KeysOf(bodies, ships, stations)
    OBVIOUS
  <2>3. Told(ps, fs, n, b, keys) /\ fs # <<>> /\ key \in DOMAIN ps[n].samples /\ time \in Nat
    BY <2>1, <2>2 DEF Remembered
  <2>4. /\ fs[1].time > b * TICK
        /\ SampleAt(fs, key, time) # {} <=> time >= fs[1].time /\ time <= n * TICK
        /\ \A s \in SampleAt(fs, key, time) :
             s.pos = Lerp(PosIn(ps[time \div TICK], key), PosIn(ps[CeilDiv(time, TICK)], key),
                          time % TICK, TICK)
    BY <2>1, <2>3, ToldIsTrue
  <2>5. TruePos(key, time) = Lerp(PosIn(ps[time \div TICK], key),
                                  PosIn(ps[CeilDiv(time, TICK)], key), time % TICK, TICK)
    BY <2>2 DEF TruePos, PosIn
  <2> QED BY <2>1, <2>2, <2>4, <2>5
<1>2. Init => Remembered
  BY InitRemembered
<1>3. SkyTypes /\ Remembered /\ [Next]_vars => Remembered'
  BY NextRemembers
<1> QED BY <1>1, <1>2, <1>3, SkyIsTyped, PTL DEF Spec

(***************************************************************************)
(* Shadows                                                                 *)
(***************************************************************************)

\* Ids tell bodies apart, and so does being the Sun.
Distinct(bs) ==
  \A i, j \in DOMAIN bs : bs[i].id = bs[j].id \/ (IsSun(bs[i]) /\ IsSun(bs[j])) => i = j

\* Whoever descends from bodies that are distinct, one from each, is distinct.
LEMMA DescendDistinct ==
  ASSUME NEW bs \in Seq(BodyType), NEW cs \in Seq(BodyType), NEW w \in [DOMAIN cs -> DOMAIN bs],
         \A k, l \in DOMAIN cs : w[k] = w[l] => k = l,
         \A k \in DOMAIN cs : cs[k].id = bs[w[k]].id /\ cs[k].name = bs[w[k]].name,
         Distinct(bs)
  PROVE  Distinct(cs)
<1> SUFFICES ASSUME NEW k \in DOMAIN cs, NEW l \in DOMAIN cs,
                    cs[k].id = cs[l].id \/ (IsSun(cs[k]) /\ IsSun(cs[l]))
             PROVE  k = l
  BY DEF Distinct
<1>1. PICK i \in DOMAIN bs : i = w[k]
  OBVIOUS
<1>2. PICK j \in DOMAIN bs : j = w[l]
  OBVIOUS
<1>3. bs[i].id = bs[j].id \/ (IsSun(bs[i]) /\ IsSun(bs[j]))
  BY <1>1, <1>2 DEF IsSun
<1>4. i = j
  BY <1>3 DEF Distinct
<1> QED BY <1>1, <1>2, <1>4

LEMMA PlacesDistinct ==
  ASSUME NEW bs \in Seq(BodyType), NEW cs \in Seq(BodyType), DOMAIN cs = DOMAIN bs,
         \A k \in DOMAIN cs : cs[k].id = bs[k].id /\ cs[k].name = bs[k].name,
         Distinct(bs)
  PROVE  Distinct(cs)
BY DEF Distinct, IsSun

LEMMA ResolvedDistinct ==
  ASSUME NEW bs \in Seq(BodyType), OneMassless(bs), Distinct(bs)
  PROVE  Distinct(ResolvedBodies(bs))
<1>1. PICK cs \in Seq(BodyType) : cs = ResolvedBodies(bs) /\ Kept(bs, Len(bs), cs)
  BY ResolvedDescend
<1>2. PICK w : DescendFrom(bs, Len(bs), cs, w)
  BY <1>1 DEF Kept
<1>3. PICK m \in Nat, n \in Nat : m = Len(cs) /\ DOMAIN cs = 1..m /\ n = Len(bs) /\ DOMAIN bs = 1..n
  OBVIOUS
<1>4. w \in [1..m -> 1..n] /\ \A k, l \in 1..m : k < l => w[k] < w[l]
  BY <1>2, <1>3 DEF DescendFrom
<1>5. ASSUME NEW k \in 1..m, NEW l \in 1..m, w[k] = w[l] PROVE k = l
  <2>1. w[k] \in Int /\ w[l] \in Int
    BY <1>4
  <2>2. ~ (k < l) /\ ~ (l < k)
    BY <1>4, <1>5, <2>1
  <2> QED BY <2>2
<1>6. \A k \in 1..m : cs[k].id = bs[w[k]].id /\ cs[k].name = bs[w[k]].name
  BY <1>2, <1>3 DEF DescendFrom, Descends, GoesOn
<1>7. /\ w \in [DOMAIN cs -> DOMAIN bs]
      /\ \A k, l \in DOMAIN cs : w[k] = w[l] => k = l
      /\ \A k \in DOMAIN cs : cs[k].id = bs[w[k]].id /\ cs[k].name = bs[w[k]].name
  BY <1>3, <1>4, <1>5, <1>6
<1>8. Distinct(cs)
  BY <1>7, DescendDistinct
<1> QED BY <1>1, <1>8

LEMMA WarmedNames ==
  ASSUME NEW bs \in Seq(BodyType), NEW ss, NEW i \in DOMAIN bs
  PROVE  WarmedBodies(bs, ss)[i].name = bs[i].name
<1>1. PICK b \in BodyType : b = bs[i]
  OBVIOUS
<1>2. PICK t : t = NewTemp(b.temp, b.capacity, b.area,
                           AbsorbedEnergy(bs, ss, b.pos, b.radius) + b.generation)
  OBVIOUS
<1>3. WarmedBodies(bs, ss)[i] = [b EXCEPT !.temp = NewTemp(@, b.capacity, b.area,
                                    AbsorbedEnergy(bs, ss, b.pos, b.radius) + b.generation)]
  BY <1>1 DEF WarmedBodies
<1>4. WarmedBodies(bs, ss)[i] = [b EXCEPT !.temp = t]
  BY <1>2, <1>3 DEF BodyType
<1>5. [b EXCEPT !.temp = t].name = b.name
  BY DEF BodyType
<1> QED BY <1>1, <1>4, <1>5

\* A tick leaves bodies distinct.
LEMMA TickDistinct ==
  ASSUME NEW bs \in Seq(BodyType), OneMassless(bs), Distinct(bs), NEW ss \in Seq(ShipType),
         NEW cmds \in CommandSets,
         NEW fl, fl = Flown(bs, ss, [i \in DOMAIN ss |-> ComputeThrust(ss[i], CommandFor(cmds, ss[i]))]),
         NEW hit, hit = ResolvedCollisions(fl.bodies, fl.ships)
  PROVE  Distinct(WarmedBodies(hit.bodies, hit.ships))
<1>1. PICK thrust : thrust = [i \in DOMAIN ss |-> ComputeThrust(ss[i], CommandFor(cmds, ss[i]))]
  OBVIOUS
<1>2. Thrusts(thrust, ss)
  BY <1>1, ThrustsGiven
<1>3. fl = Flown(bs, ss, thrust)
  BY <1>1
<1>4. PICK cs, us : cs = fl.bodies /\ us = fl.ships
  OBVIOUS
<1>5. MovedBodies(cs, bs) /\ MovedShips(us, ss)
  BY <1>2, <1>3, <1>4, FlownMoves
<1>6. cs \in Seq(BodyType) /\ us \in Seq(ShipType) /\ DOMAIN cs = DOMAIN bs
  BY <1>5 DEF MovedBodies, MovedShips
<1>7. OneMassless(cs) /\ \A i \in DOMAIN cs : cs[i].id = bs[i].id /\ cs[i].name = bs[i].name
  BY <1>5, <1>6 DEF MovedBodies, SameBody, OneMassless
<1>8. Distinct(cs)
  BY <1>6, <1>7, PlacesDistinct
<1>9. PICK ds : ds = ResolvedBodies(cs)
  OBVIOUS
<1>10. ds \in Seq(BodyType) /\ Distinct(ds)
  BY <1>6, <1>7, <1>8, <1>9, ResolvedDistinct, ResolvedBodiesType
<1>11. PICK ws : ws = OffShips(OffBodies(us, ds))
  OBVIOUS
<1>12. hit.bodies = ds /\ hit.ships = ws
  BY <1>4, <1>9, <1>11 DEF ResolvedCollisions
<1>13. ws \in Seq(ShipType)
  <2>1. PICK vs : vs = OffBodies(us, ds)
    OBVIOUS
  <2>2. vs \in Seq(ShipType)
    BY <1>6, <1>10, <2>1, OffBodiesMoves DEF MovedShips
  <2> QED BY <1>11, <2>1, <2>2, OffShipsMoves DEF MovedShips
<1>14. PICK es : es = WarmedBodies(ds, ws)
  OBVIOUS
<1>15. /\ es \in Seq(BodyType) /\ DOMAIN es = DOMAIN ds
       /\ \A i \in DOMAIN ds : es[i].id = ds[i].id /\ es[i].name = ds[i].name
  BY <1>10, <1>13, <1>14, WarmBodies, WarmedNames
<1>16. Distinct(es)
  BY <1>10, <1>15, PlacesDistinct
<1> QED BY <1>12, <1>14, <1>16

LEMMA LoadedDistinct ==
  ASSUME NEW spec \in Ephemerides
  PROVE  Distinct(LoadEphemeris(spec))
<1>1. PICK entries : entries = IF spec.kind = "file" THEN spec.entries ELSE Circular
  OBVIOUS
<1>2. entries \in {Circular} \cup Snapshots
  BY <1>1 DEF Ephemerides, Ephemeris
<1>3. PICK bs : bs = LoadEphemeris(spec)
  OBVIOUS
<1>4. DOMAIN bs = DOMAIN entries /\ \A i \in DOMAIN entries : bs[i] = MakeBody(entries[i])
  BY <1>1, <1>3 DEF LoadEphemeris
<1>5. \A i \in DOMAIN entries : bs[i].id = entries[i].id /\ bs[i].name = entries[i].name
  BY <1>4 DEF MakeBody
<1>6. Distinct(bs)
  BY <1>2, <1>4, <1>5, NamesAssumption DEF Distinct, IsSun
<1> QED BY <1>3, <1>6

LEMMA StaysDistinct == Spec => []Distinct(bodies)
<1>1. Init => Distinct(bodies)
  BY LoadedDistinct DEF Init, StartUpInit
<1>2. SkyTypes /\ Distinct(bodies) /\ [Next]_vars => Distinct(bodies)'
  <2> SUFFICES ASSUME SkyTypes, Distinct(bodies), [Next]_vars PROVE Distinct(bodies')
    BY DEF Distinct
  <2>1. CASE UNCHANGED bodies
    BY <2>1
  <2>2. ASSUME NEW cmds \in CommandSets, Step(cmds) PROVE Distinct(bodies')
    <3>1. PICK fl : fl = flown'
      OBVIOUS
    <3>2. fl = Flown(bodies, ships,
                     [i \in DOMAIN ships |-> ComputeThrust(ships[i], CommandFor(cmds, ships[i]))])
      BY <2>2, <3>1 DEF Step
    <3>3. PICK hit : hit = ResolvedCollisions(fl.bodies, fl.ships)
      OBVIOUS
    <3>4. bodies' = WarmedBodies(hit.bodies, hit.ships)
      BY <2>2, <3>1, <3>3 DEF Step
    <3>5. PICK bs \in Seq(BodyType) : bs = bodies /\ OneMassless(bs)
      BY DEF SkyTypes, Placed
    <3>6. PICK ss \in Seq(ShipType) : ss = ships
      BY DEF SkyTypes, Placed
    <3>7. fl = Flown(bs, ss, [i \in DOMAIN ss |-> ComputeThrust(ss[i], CommandFor(cmds, ss[i]))])
      BY <3>2, <3>5, <3>6
    <3>8. Distinct(WarmedBodies(hit.bodies, hit.ships))
      BY <3>3, <3>5, <3>7, TickDistinct
    <3> QED BY <3>4, <3>8
  <2>3. CASE Place
    BY <2>1, <2>3 DEF Place, PlaceStation, Begin
  <2>4. CASE Resume
    BY <2>1, <2>4 DEF Resume, startVars
  <2>5. CASE UNCHANGED vars
    BY <2>1, <2>5 DEF vars, startVars
  <2> QED BY <2>2, <2>3, <2>4, <2>5 DEF Next
<1> QED BY <1>1, <1>2, SkyIsTyped, PTL DEF Spec

\* A sky that stands still, as it is recorded twice.
StillFrames(bs, ss, sts) == <<Frame(0, bs, ss, sts), Frame(1000, bs, ss, sts)>>

\* Between two samples that are the same there is no other.
LEMMA BetweenSame ==
  ASSUME NEW a \in SampleType, NEW n \in Int, NEW d \in Nat, d > 0
  PROVE  Between(a, a, n, d) = a
<1>1. \A x \in Int : Lerp(x, x, n, d) = x
  <2> SUFFICES ASSUME NEW x \in Int PROVE Lerp(x, x, n, d) = x
    OBVIOUS
  <2>1. (x - x) * n = 0 /\ 0 \div d = 0
    BY Multiplying
  <2> QED BY <2>1 DEF Lerp
<1>2. a.pos \in Int /\ a.radius \in Int /\ a.temp \in Int /\ a.area \in Int
  BY DEF SampleType
<1>3. Between(a, a, n, d) = [pos |-> a.pos, radius |-> a.radius, temp |-> a.temp, area |-> a.area]
  BY <1>1, <1>2 DEF Between
<1> QED BY <1>3 DEF SampleType

\* All the time there is one sample of a key.
Still(fs, key, a) == \A time \in 0..1000 : SampleAt(fs, key, time) = {a}

\* At any time in between, the sample of a still sky is what is there.
LEMMA StillSample ==
  ASSUME NEW bs \in Seq(BodyType), NEW ss \in Seq(ShipType), NEW sts \in Seq(StationType),
         NEW key \in KeysOf(bs, ss, sts)
  PROVE  Still(StillFrames(bs, ss, sts), key, Frame(0, bs, ss, sts).samples[key])
<1>0. PICK f : f = Frame(0, bs, ss, sts)
  OBVIOUS
<1>1. PICK g : g = Frame(1000, bs, ss, sts)
  OBVIOUS
<1>2. f.time = 0 /\ g.time = 1000 /\ key \in DOMAIN f.samples /\ key \in DOMAIN g.samples
  BY <1>0, <1>1, FrameIsFrame
<1>3. PICK a \in SampleType : a = f.samples[key] /\ a = g.samples[key]
  <2>1. f.samples = g.samples
    BY <1>0, <1>1 DEF Frame
  <2>2. f \in FrameType
    BY <1>0, FrameIsFrame
  <2>3. f.samples[key] \in SampleType
    <3>1. PICK K : f.samples \in [K -> SampleType]
      BY <2>2 DEF FrameType
    <3> QED BY <1>2, <3>1
  <2> QED BY <2>1, <2>3
<1>4. PICK fs : fs = StillFrames(bs, ss, sts)
  OBVIOUS
<1> SUFFICES ASSUME NEW time \in 0..1000 PROVE SampleAt(fs, key, time) = {a}
  <2>1. Still(fs, key, a) => Still(StillFrames(bs, ss, sts), key, Frame(0, bs, ss, sts).samples[key])
    <3>1. a = Frame(0, bs, ss, sts).samples[key]
      BY <1>0, <1>3
    <3> QED BY <1>4, <3>1
  <2>2. (\A time \in 0..1000 : SampleAt(fs, key, time) = {a}) => Still(fs, key, a)
    BY DEF Still
  <2> QED BY <2>1, <2>2
<1>5. fs # <<>> /\ Len(fs) = 2 /\ fs[1] = f /\ fs[2] = g
  BY <1>0, <1>1, <1>4 DEF StillFrames
<1>6. Newest(fs) = 1000 /\ fs[1].time = 0 /\ fs[2].time = 1000
  BY <1>2, <1>5 DEF Newest
<1>7. FoundIn(fs[1], key) = {a} /\ FoundIn(fs[2], key) = {a}
  <2>1. FoundIn(f, key) = {a}
    BY <1>2, <1>3 DEF FoundIn
  <2>2. FoundIn(g, key) = {a}
    BY <1>2, <1>3 DEF FoundIn
  <2> QED BY <1>5, <2>1, <2>2
<1>8. UpperFrame(fs, time) = IF time = 0 THEN 1 ELSE 2
  <2>1. (time - 0) * (2 - 1) = time /\ Most(1000 - 0, 1) = 1000
    BY DEF Most
  <2>2. CeilDiv(time, 1000) = IF time = 0 THEN 0 ELSE 1
    <3>1. time = 0 => (time + 1000 - 1) \div 1000 = 0
      OBVIOUS
    <3>2. time # 0 => (time + 1000 - 1) \div 1000 = 1
      OBVIOUS
    <3> QED BY <3>1, <3>2 DEF CeilDiv
  <2>3. UpperFrame(fs, time) = Least(2, 1 + CeilDiv(time, 1000))
    BY <1>5, <1>6, <2>1 DEF UpperFrame
  <2> QED BY <2>2, <2>3 DEF Least
<1>9. ~ (fs = <<>> \/ time < fs[1].time \/ time > Newest(fs))
  <2>1. time >= 0 /\ time <= 1000
    OBVIOUS
  <2>2. PICK u \in Int, v \in Int : u = fs[1].time /\ v = Newest(fs) /\ u = 0 /\ v = 1000
    BY <1>6
  <2>3. ~ (time < u) /\ ~ (time > v)
    BY <2>1, <2>2
  <2> QED BY <1>5, <2>2, <2>3
<1>10. PICK u : u = UpperFrame(fs, time)
  OBVIOUS
<1>11. PICK l : l = Most(u - 1, 1)
  OBVIOUS
<1>12. PICK d : d = fs[u].time - fs[l].time
  OBVIOUS
<1>13. PICK n : n = Clamped(time - fs[l].time, 0, d)
  OBVIOUS
<1>14. FoundIn(fs[u], key) = {a} /\ FoundIn(fs[l], key) = {a} /\ (d <= 0 \/ Between(a, a, n, d) = a)
  <2>1. CASE time = 0
    <3>1. u = 1
      BY <1>8, <1>10, <2>1
    <3>2. l = 1
      BY <1>11, <3>1 DEF Most
    <3>3. d <= 0
      BY <1>6, <1>12, <3>1, <3>2
    <3> QED BY <1>7, <3>1, <3>2, <3>3
  <2>2. CASE time # 0
    <3>1. u = 2
      BY <1>8, <1>10, <2>2
    <3>2. l = 1
      BY <1>11, <3>1 DEF Most
    <3>3. d = 1000 /\ time - fs[l].time = time
      BY <1>6, <1>12, <3>1, <3>2
    <3>4. n = Most(0, Least(time, 1000))
      BY <1>13, <3>3 DEF Clamped
    <3>5. n \in Int
      BY <3>4 DEF Least, Most
    <3>6. Between(a, a, n, d) = a
      BY <3>3, <3>5, BetweenSame
    <3> QED BY <1>7, <3>1, <3>2, <3>6
  <2> QED BY <2>1, <2>2
<1>15. SampleAt(fs, key, time)
         = {IF d <= 0 THEN x ELSE Between(x, y, n, d) : x \in FoundIn(fs[l], key), y \in FoundIn(fs[u], key)}
  BY <1>9, <1>10, <1>11, <1>12, <1>13 DEF SampleAt
<1>16. SampleAt(fs, key, time) = {a}
  BY <1>14, <1>15
<1> QED BY <1>16

\* Under its key a body is recorded as it is, and nothing else.
LEMMA BodySample ==
  ASSUME NEW bs \in Seq(BodyType), Distinct(bs), NEW ss, NEW sts, NEW i \in DOMAIN bs
  PROVE  Frame(0, bs, ss, sts).samples[BodyKey(bs[i])]
           = Sample(bs[i].pos, bs[i].radius, bs[i].temp, bs[i].area)
<1>1. PICK all : all = Recorded(bs, ss, sts)
  OBVIOUS
<1>2. PICK key : key = BodyKey(bs[i])
  OBVIOUS
<1>3. PICK mine : mine = <<key, Sample(bs[i].pos, bs[i].radius, bs[i].temp, bs[i].area)>>
  OBVIOUS
<1>4. mine \in all
  BY <1>1, <1>2, <1>3 DEF Recorded, ToSet
<1>5. ASSUME NEW r \in all, r[1] = key PROVE r = mine
  <2>1. CASE \E j \in DOMAIN bs :
               r = <<BodyKey(bs[j]), Sample(bs[j].pos, bs[j].radius, bs[j].temp, bs[j].area)>>
    <3>1. PICK j \in DOMAIN bs :
            r = <<BodyKey(bs[j]), Sample(bs[j].pos, bs[j].radius, bs[j].temp, bs[j].area)>>
      BY <2>1
    <3>2. BodyKey(bs[j]) = BodyKey(bs[i])
      BY <1>2, <1>5, <3>1
    <3>3. bs[j].id = bs[i].id
      BY <3>2 DEF BodyKey
    <3>4. j = i
      BY <3>3 DEF Distinct
    <3> QED BY <1>2, <1>3, <3>1, <3>4
  <2>2. CASE \E j \in DOMAIN ss :
               r = <<ShipKey(ss[j]), Sample(ss[j].pos, ShipRadius, ss[j].temp, ShipArea)>>
    <3>1. PICK j \in DOMAIN ss : ShipKey(ss[j]) = key
      BY <1>5, <2>2
    <3> QED BY <1>2, <3>1 DEF ShipKey, BodyKey
  <2>3. CASE \E j \in DOMAIN sts :
               r = <<StationKey(sts[j]),
                     Sample(StationPos(sts[j], bs), StationRadius, sts[j].temp, ShipArea)>>
    <3>1. PICK j \in DOMAIN sts : StationKey(sts[j]) = key
      BY <1>5, <2>3
    <3> QED BY <1>2, <3>1 DEF StationKey, BodyKey
  <2> QED BY <1>1, <1>5, <2>1, <2>2, <2>3 DEF Recorded, ToSet
<1>6. mine[1] = key
  BY <1>3
<1>7. (CHOOSE r \in all : r[1] = key) = mine
  BY <1>4, <1>5, <1>6
<1>8. key \in {r[1] : r \in all}
  BY <1>4, <1>6
<1>9. Frame(0, bs, ss, sts).samples[key] = mine[2]
  BY <1>1, <1>7, <1>8 DEF Frame
<1> QED BY <1>2, <1>3, <1>9

\* How large a source looks when its light leaves, and what a body in the way
\* leaves of that light.
RadiusIn(samples) == FoldSet(LAMBDA s, r : s.radius, 0, samples)
SourceRadius(fs, source) == RadiusIn(SampleAt(fs, source, 0))

Passed(sun, x, radius, s, percent) ==
  IF \/ Distance(s.pos, x) >= Distance(sun.pos, x)
     \/ Distance(s.pos, x) <= s.radius
     \/ Toward(x, s.pos) # Toward(x, sun.pos)
  THEN percent
  ELSE Uncovered(percent, s.radius, Distance(s.pos, x), radius, Distance(sun.pos, x))

PassedAll(sun, x, radius, percent, samples) ==
  FoldSet(LAMBDA s, p : Passed(sun, x, radius, s, p), percent, samples)

OnTheWay(fs, sun, x, b) ==
  IF BodyKey(b) = BodyKey(sun) \/ b.id = Nowhere THEN {}
  ELSE Crossing(fs, BodyKey(b), sun.pos, x, 0, 1000)

ShadedBy(fs, sun, x, percent, b) ==
  PassedAll(sun, x, SourceRadius(fs, BodyKey(sun)), percent, OnTheWay(fs, sun, x, b))

\* Body after body takes from the light.
ShadeFold(fs, sun, x, base, seq) == FoldLeft(LAMBDA t, e : ShadedBy(fs, sun, x, t, e), base, seq)

ShadeSums(fs, sun, x, base, seq, h) ==
  h = [s \in SUBSET (DOMAIN seq) |->
         IF s = {} THEN base ELSE ShadedBy(fs, sun, x, h[s \ {Max(s)}], seq[Max(s)])]

ShadeWalk(fs, sun, x, T, base, seq, G) ==
  /\ G \in [0..Len(seq) -> T] /\ G[0] = base
  /\ \A i \in 1..Len(seq) : G[i] = ShadedBy(fs, sun, x, G[i - 1], seq[i])

LEMMA ShadeWalks ==
  ASSUME NEW fs, NEW sun, NEW x, NEW S, NEW seq \in Seq(S), NEW T, NEW base \in T,
         \A e \in S : \A t \in T : ShadedBy(fs, sun, x, t, e) \in T
  PROVE  \E G : /\ ShadeWalk(fs, sun, x, T, base, seq, G)
               /\ ShadeFold(fs, sun, x, base, seq) = G[Len(seq)]
<1>1. PICK n \in Nat : n = Len(seq) /\ DOMAIN seq = 1..n /\ \A i \in 1..n : seq[i] \in S
  OBVIOUS
<1> DEFINE f == [i \in 1..n |-> [t \in T |-> ShadedBy(fs, sun, x, t, seq[i])]]
<1>2. \A i \in 1..n : \A t \in T : f[i][t] = ShadedBy(fs, sun, x, t, seq[i]) /\ f[i][t] \in T
  BY <1>1
<1> HIDE DEF f
<1>3. Steps(f, T, n)
  BY <1>2 DEF Steps
<1>4. PICK g : RunsUpTo(f, T, base, n, g)
  BY <1>3, RunExists
<1>5. ShadeSums(fs, sun, x, base, seq, g)
  <2>1. ASSUME NEW s \in SUBSET (1..n), s # {}
        PROVE  g[s] = ShadedBy(fs, sun, x, g[s \ {Max(s)}], seq[Max(s)])
    <3>1. Top(s) = Max(s)
      BY DEF Top, Max
    <3>2. Top(s) \in 1..n /\ s \ {Top(s)} \in SUBSET (1..n)
      BY <2>1, TopIn
    <3>3. g[s \ {Top(s)}] \in T
      BY <1>4, <3>2 DEF Runs, RunsUpTo
    <3>4. g[s] = f[Top(s)][g[s \ {Top(s)}]]
      BY <1>4, <2>1 DEF Runs, RunsUpTo
    <3> QED BY <1>2, <3>1, <3>2, <3>3, <3>4
  <2>2. g = [s \in SUBSET (1..n) |-> g[s]] /\ g[{}] = base
    BY <1>4 DEF Runs, RunsUpTo
  <2> QED BY <1>1, <2>1, <2>2 DEF ShadeSums
<1> DEFINE h == CHOOSE c : ShadeSums(fs, sun, x, base, seq, c)
<1>6. ShadeSums(fs, sun, x, base, seq, h)
  BY <1>5
<1>7. ShadeFold(fs, sun, x, base, seq) = h[1..n]
  BY <1>1 DEF ShadeFold, FoldLeft, MapThenFoldSet, ShadeSums
<1> HIDE DEF h
<1>8. Unfolds(f, T, base, n, h)
  <2>1. \A s \in SUBSET (1..n) :
          h[s] = IF s = {} THEN base ELSE ShadedBy(fs, sun, x, h[s \ {Max(s)}], seq[Max(s)])
    <3>1. h = [s \in SUBSET (1..n) |->
                 IF s = {} THEN base ELSE ShadedBy(fs, sun, x, h[s \ {Max(s)}], seq[Max(s)])]
      BY <1>1, <1>6 DEF ShadeSums
    <3> QED BY <3>1
  <2>2. ASSUME NEW s \in SUBSET (1..n), s # {}, h[s \ {Top(s)}] \in T
        PROVE  h[s] = f[Top(s)][h[s \ {Top(s)}]]
    <3>1. Top(s) = Max(s)
      BY DEF Top, Max
    <3>2. Top(s) \in 1..n
      BY <2>2, TopIn
    <3>3. PICK i, t : i = Top(s) /\ t = h[s \ {Top(s)}]
      OBVIOUS
    <3>4. h[s] = ShadedBy(fs, sun, x, t, seq[i])
      BY <2>1, <2>2, <3>1, <3>3
    <3>5. f[i][t] = ShadedBy(fs, sun, x, t, seq[i])
      BY <1>2, <2>2, <3>2, <3>3
    <3> QED BY <3>3, <3>4, <3>5
  <2>3. h[{}] = base
    BY <2>1
  <2> QED BY <2>2, <2>3 DEF Unfolds
<1>9. PICK G : Walks(f, T, base, n, G) /\ G[n] = h[1..n]
  BY <1>3, <1>8, RunOneByOne
<1>10. ShadeWalk(fs, sun, x, T, base, seq, G)
  <2>1. \A i \in 1..n : G[i - 1] \in T
    <3>1. \A i \in 1..n : i - 1 \in 0..n
      OBVIOUS
    <3> QED BY <1>9, <3>1 DEF Walks
  <2>2. \A i \in 1..n : G[i] = ShadedBy(fs, sun, x, G[i - 1], seq[i])
    BY <1>2, <1>9, <2>1 DEF Walks
  <2> QED BY <1>1, <1>9, <2>2 DEF Walks, ShadeWalk
<1> QED BY <1>1, <1>7, <1>9, <1>10

\* path_transmission, from the Sun to a place in a still sky.
LEMMA LightIsFold ==
  ASSUME NEW fs, NEW bs, NEW sun, NEW x
  PROVE  Transmission(fs, bs, BodyKey(sun), Nowhere, sun.pos, x, 0, 1000)
           = IF sun.pos = x THEN 100 ELSE ShadeFold(fs, sun, x, 100, bs)
BY DEF Transmission, ShadeFold, ShadedBy, OnTheWay, PassedAll, SourceRadius, RadiusIn, Passed, FoldSet, FoldLeft, MapThenFoldSet

\* Folds over a set of one, and of none.
RadiusOf(a, h) ==
  h = [s \in SUBSET {a} |->
         IF s = {} THEN 0 ELSE (CHOOSE y \in s : TRUE).radius]

LEMMA OneRadius ==
  ASSUME NEW a
  PROVE  RadiusIn({a}) = a.radius
<1> DEFINE h == CHOOSE c : RadiusOf(a, c)
<1>1. RadiusOf(a, h)
  BY DEF RadiusOf
<1>2. RadiusIn({a}) = h[{a}]
  BY DEF RadiusIn, FoldSet, MapThenFoldSet, RadiusOf
<1> HIDE DEF h
<1>3. (CHOOSE y \in {a} : TRUE) = a
  OBVIOUS
<1> QED BY <1>1, <1>2, <1>3 DEF RadiusOf

PassedOn(sun, x, radius, base, S, h) ==
  h = [s \in SUBSET S |->
         IF s = {} THEN base
         ELSE Passed(sun, x, radius, CHOOSE y \in s : TRUE, h[s \ {CHOOSE y \in s : TRUE}])]

LEMMA NonePassed ==
  ASSUME NEW sun, NEW x, NEW radius, NEW base
  PROVE  PassedAll(sun, x, radius, base, {}) = base
<1> DEFINE h == CHOOSE c : PassedOn(sun, x, radius, base, {}, c)
<1>1. PICK g : g = [s \in SUBSET {} |-> base]
  OBVIOUS
<1>2. PassedOn(sun, x, radius, base, {}, g)
  BY <1>1 DEF PassedOn
<1>3. PassedOn(sun, x, radius, base, {}, h)
  BY <1>2
<1>4. PassedAll(sun, x, radius, base, {}) = h[{}]
  BY DEF PassedAll, FoldSet, MapThenFoldSet, PassedOn
<1> HIDE DEF h
<1>5. h[{}] = base
  BY <1>3 DEF PassedOn
<1> QED BY <1>4, <1>5

LEMMA OnePassed ==
  ASSUME NEW sun, NEW x, NEW radius, NEW base, NEW a
  PROVE  PassedAll(sun, x, radius, base, {a}) = Passed(sun, x, radius, a, base)
<1> DEFINE h == CHOOSE c : PassedOn(sun, x, radius, base, {a}, c)
<1>1. PICK one : one = Passed(sun, x, radius, a, base)
  OBVIOUS
<1>2. PICK g : g = [s \in SUBSET {a} |-> IF s = {} THEN base ELSE one]
  OBVIOUS
<1>3. \A s \in SUBSET {a} : s # {} => (CHOOSE y \in s : TRUE) = a /\ s \ {CHOOSE y \in s : TRUE} = {}
  <2> SUFFICES ASSUME NEW s \in SUBSET {a}, s # {}
               PROVE  (CHOOSE y \in s : TRUE) = a /\ s \ {CHOOSE y \in s : TRUE} = {}
    OBVIOUS
  <2>1. (CHOOSE y \in s : TRUE) \in s
    OBVIOUS
  <2>2. (CHOOSE y \in s : TRUE) = a
    BY <2>1
  <2> QED BY <2>2
<1>4. PassedOn(sun, x, radius, base, {a}, g)
  <2>1. g[{}] = base
    BY <1>2
  <2>2. \A s \in SUBSET {a} :
          g[s] = IF s = {} THEN base
                 ELSE Passed(sun, x, radius, CHOOSE y \in s : TRUE, g[s \ {CHOOSE y \in s : TRUE}])
    BY <1>1, <1>2, <1>3, <2>1
  <2> QED BY <1>2, <2>2 DEF PassedOn
<1>5. PassedOn(sun, x, radius, base, {a}, h)
  BY <1>4
<1>6. PassedAll(sun, x, radius, base, {a}) = h[{a}]
  BY DEF PassedAll, FoldSet, MapThenFoldSet, PassedOn
<1> HIDE DEF h
<1>7. h[{}] = base /\ {a} \in SUBSET {a} /\ {a} # {}
  BY <1>5 DEF PassedOn
<1>8. h[{a}] = Passed(sun, x, radius, CHOOSE y \in {a} : TRUE, h[{a} \ {CHOOSE y \in {a} : TRUE}])
  BY <1>5, <1>7 DEF PassedOn
<1>9. h[{a}] = Passed(sun, x, radius, a, base)
  BY <1>3, <1>7, <1>8
<1> QED BY <1>6, <1>9

\* Something of the light is left unless the disc before it looks as large.
LEMMA UncoveredLeft ==
  ASSUME NEW p \in 0..100, NEW r \in Nat, NEW R \in Nat, NEW d \in Nat, NEW D \in Nat
  PROVE  /\ Uncovered(p, r, d, R, D) \in 0..100
         /\ Uncovered(p, r, d, R, D) > 0 <=> p > 0 /\ ~ (r * D >= R * d)
<1>1. PICK a \in Nat : a = r * D
  BY Multiplying
<1>2. PICK b \in Nat : b = R * d
  BY Multiplying
<1>3. CASE a >= b
  <2>1. Uncovered(p, r, d, R, D) = 0
    BY <1>1, <1>2, <1>3 DEF Uncovered
  <2> QED BY <1>1, <1>2, <1>3, <2>1
<1>4. CASE ~ (a >= b)
  <2>1. PICK e \in Nat : e = p * Square(a)
    <3>1. Square(a) \in Nat
      BY Multiplying DEF Square
    <3> QED BY <3>1, Multiplying
  <2>2. PICK f \in Nat : f = Square(b) /\ f > 0
    <3>1. b > 0
      BY <1>4
    <3> QED BY <3>1, Multiplying DEF Square
  <2>3. PICK q \in Int : q = p - e \div f
    <3>1. PICK g \in Int : g = e \div f
      BY <2>2, Dividing
    <3>2. p - g \in Int
      OBVIOUS
    <3> QED BY <3>1, <3>2
  <2>4. PICK m \in Int : m = Most(1, q) /\ m >= 1
    BY DEF Most
  <2>5. Uncovered(p, r, d, R, D) = Least(p, m)
    BY <1>1, <1>2, <1>4, <2>1, <2>2, <2>3, <2>4 DEF Uncovered
  <2>6. Least(p, m) \in 0..100 /\ (Least(p, m) > 0 <=> p > 0)
    BY <2>4 DEF Least
  <2> QED BY <1>1, <1>2, <1>4, <2>5, <2>6
<1> QED BY <1>3, <1>4

\* A body that covers the Sun: it stands before it and looks as large.
Covers(c, sun, x) == Shadowed(c, sun, x) /\ LooksAsLarge(c, sun, x)

\* In the light of a disc one is in it, and nothing hides all of it.
LEMMA NoShadowInside ==
  ASSUME NEW c \in BodyType, NEW sun \in BodyType, NEW x \in Int, Covers(c, sun, x)
  PROVE  ~ (Distance(sun.pos, x) <= sun.radius)
<1>1. c.pos \in Int /\ sun.pos \in Int
  BY BodyFields
<1>2. PICK d \in Nat : d = Distance(c.pos, x)
  BY <1>1, Choosing
<1>3. PICK D \in Nat : D = Distance(sun.pos, x)
  BY <1>1, Choosing
<1>4. PICK r \in Nat, R \in Nat : r = c.radius /\ R = sun.radius
  BY BodyFields
<1>5. d > r /\ d < D /\ r * D >= R * d
  BY <1>2, <1>3, <1>4 DEF Covers, Shadowed, LooksAsLarge
<1>6. SUFFICES ASSUME D <= R PROVE FALSE
  BY <1>3, <1>4
<1>7. r * D < d * D
  <2>1. d >= r + 1 /\ D > 0
    BY <1>5
  <2>2. d * D >= (r + 1) * D
    BY <2>1
  <2>3. (r + 1) * D = r * D + D
    OBVIOUS
  <2>4. r * D \in Int /\ d * D \in Int
    BY Multiplying
  <2> QED BY <2>1, <2>2, <2>3, <2>4
<1>8. d * D <= R * d
  <2>1. D * d <= R * d
    BY <1>6
  <2>2. D * d = d * D
    OBVIOUS
  <2> QED BY <2>1, <2>2
<1>9. r * D \in Int /\ d * D \in Int /\ R * d \in Int
  BY Multiplying
<1> QED BY <1>5, <1>7, <1>8, <1>9

\* Where a body stands that is not behind the place, as light on its way meets it.
Midway(s, from, x) == Clamped((s.pos - from) * Toward(from, x), 0, Distance(from, x))

LEMMA MidwayIs ==
  ASSUME NEW s, s.pos \in Int, NEW from \in Int, NEW x \in Int, from # x
  PROVE  /\ Midway(s, from, x) \in 0..Distance(from, x)
         /\ Distance(s.pos, x) < Distance(from, x) /\ Toward(x, s.pos) = Toward(x, from)
              => Midway(s, from, x) < Distance(from, x)
<1>1. PICK p \in Int : p = s.pos
  OBVIOUS
<1>2. CASE from < x
  <2>1. Toward(from, x) = 1 /\ Distance(from, x) = x - from /\ Toward(x, from) = -1
    BY <1>2 DEF Toward, Distance
  <2>2. (p - from) * 1 = p - from
    OBVIOUS
  <2>3. Midway(s, from, x) = Most(0, Least(p - from, x - from))
    BY <1>1, <2>1, <2>2 DEF Midway, Clamped
  <2>4. Most(0, Least(p - from, x - from)) \in 0..(x - from)
    BY <1>2 DEF Most, Least
  <2>5. Toward(x, p) = -1 => Most(0, Least(p - from, x - from)) < x - from
    BY <1>2 DEF Most, Least, Toward
  <2> QED BY <1>1, <2>1, <2>3, <2>4, <2>5
<1>3. CASE from > x
  <2>1. Toward(from, x) = -1 /\ Distance(from, x) = from - x /\ Toward(x, from) = 1
    BY <1>3 DEF Toward, Distance
  <2>2. (p - from) * (-1) = from - p
    OBVIOUS
  <2>3. Midway(s, from, x) = Most(0, Least(from - p, from - x))
    BY <1>1, <2>1, <2>2 DEF Midway, Clamped
  <2>4. Most(0, Least(from - p, from - x)) \in 0..(from - x)
    BY <1>3 DEF Most, Least
  <2>5. Toward(x, p) = 1 => Most(0, Least(from - p, from - x)) < from - x
    BY <1>3 DEF Most, Least, Toward
  <2> QED BY <1>1, <2>1, <2>3, <2>4, <2>5
<1> QED BY <1>2, <1>3

\* The body that light meets on its way in a still sky is there, if it is not
\* behind the place.
Meets(s, from, x) == IF Midway(s, from, x) < Distance(from, x) THEN {s} ELSE {}

LEMMA CrossingStill ==
  ASSUME NEW fs, NEW key, NEW a, a.pos \in Int, NEW from \in Int, NEW x \in Int, from # x,
         Still(fs, key, a)
  PROVE  Crossing(fs, key, from, x, 0, 1000)
           = Meets(a, from, x)
<1>1. PICK d \in Nat : d = Distance(from, x) /\ d > 0
  BY Choosing
<1>2. PICK m \in 0..d : m = Midway(a, from, x)
  BY <1>1, MidwayIs
<1>3. SampleAt(fs, key, (0 + 1000) \div 2) = {a}
  <2>1. (0 + 1000) \div 2 \in 0..1000
    OBVIOUS
  <2> QED BY <2>1 DEF Still
<1>4. 0 + (m * (1000 - 0)) \div d \in 0..1000
  <2>1. PICK n \in Nat : n = m * 1000 /\ n <= d * 1000
    BY <1>1
  <2>2. n \div d \in 0..1000
    <3>1. n \div d \in Nat
      BY <1>1, Dividing
    <3>2. n \div d <= 1000
      <4>1. PICK q \in Nat : q = n \div d
        BY <3>1
      <4>2. q * d <= n
        BY <1>1, <4>1
      <4>3. SUFFICES ASSUME q >= 1001 PROVE FALSE
        BY <4>1
      <4>4. q * d >= 1001 * d
        BY <1>1, <4>3
      <4>5. q * d \in Int
        BY <1>1, Multiplying
      <4> QED BY <1>1, <2>1, <4>2, <4>4, <4>5
    <3> QED BY <3>1, <3>2
  <2>3. 0 + (m * (1000 - 0)) \div d = n \div d
    BY <2>1, <2>2
  <2> QED BY <2>2, <2>3
<1>5. SampleAt(fs, key, 0 + (m * (1000 - 0)) \div d) = {a}
  <2>1. PICK t \in 0..1000 : t = 0 + (m * (1000 - 0)) \div d
    BY <1>4
  <2>2. SampleAt(fs, key, t) = {a}
    BY DEF Still
  <2> QED BY <2>1, <2>2
<1>6. PICK W : W = {s \in SampleAt(fs, key, (0 + 1000) \div 2) : Midway(s, from, x) < d}
  OBVIOUS
<1>7. \A y : y \in Crossing(fs, key, from, x, 0, 1000)
             <=> \E s \in W : y \in SampleAt(fs, key, 0 + (Midway(s, from, x) * (1000 - 0)) \div d)
  BY <1>1, <1>6 DEF Crossing, Midway
<1>8. W = IF m < d THEN {a} ELSE {}
  BY <1>2, <1>3, <1>6
<1>9. CASE m < d
  <2>1. W = {a}
    BY <1>8, <1>9
  <2>2. \A y : y \in Crossing(fs, key, from, x, 0, 1000)
               <=> y \in SampleAt(fs, key, 0 + (m * (1000 - 0)) \div d)
    BY <1>2, <1>7, <2>1
  <2>3. Crossing(fs, key, from, x, 0, 1000) = {a}
    BY <1>5, <2>2
  <2> QED BY <1>1, <1>2, <1>9, <2>3 DEF Meets
<1>10. CASE ~ (m < d)
  <2>1. W = {}
    BY <1>8, <1>10
  <2>2. Crossing(fs, key, from, x, 0, 1000) = {}
    BY <1>7, <2>1
  <2> QED BY <1>1, <1>2, <1>10, <2>2 DEF Meets
<1> QED BY <1>9, <1>10

LEMMA StillRadius ==
  ASSUME NEW fs, NEW key, NEW a, Still(fs, key, a)
  PROVE  SourceRadius(fs, key) = a.radius
<1>1. PICK t \in 0..1000 : t = 0
  OBVIOUS
<1>2. SampleAt(fs, key, t) = {a}
  BY DEF Still
<1>3. RadiusIn(SampleAt(fs, key, t)) = a.radius
  BY <1>2, OneRadius
<1> QED BY <1>1, <1>3 DEF SourceRadius

\* What stands between the Sun and a place in a still sky takes all of the light
\* or leaves some of it, whatever was left before.
LEMMA ShadedLeft ==
  ASSUME NEW bs \in Seq(BodyType), Distinct(bs), NEW ss \in Seq(ShipType), NEW sts \in Seq(StationType),
         NEW fs, fs = StillFrames(bs, ss, sts), NEW i \in DOMAIN bs, NEW j \in DOMAIN bs,
         NEW x \in Int, x # bs[i].pos, NEW p \in 0..100
  PROVE  /\ ShadedBy(fs, bs[i], x, p, bs[j]) \in 0..100
         /\ ShadedBy(fs, bs[i], x, p, bs[j]) > 0 <=> p > 0 /\ (i = j \/ ~ Covers(bs[j], bs[i], x))
<1>1. PICK sun \in BodyType, b \in BodyType : sun = bs[i] /\ b = bs[j]
  OBVIOUS
<1>2. ASSUME NEW k \in DOMAIN bs
      PROVE  Still(fs, BodyKey(bs[k]), Sample(bs[k].pos, bs[k].radius, bs[k].temp, bs[k].area))
  <2>1. PICK key : key = BodyKey(bs[k])
    OBVIOUS
  <2>2. key \in KeysOf(bs, ss, sts)
    BY <2>1 DEF KeysOf
  <2>3. Frame(0, bs, ss, sts).samples[BodyKey(bs[k])]
          = Sample(bs[k].pos, bs[k].radius, bs[k].temp, bs[k].area)
    BY BodySample
  <2>4. Still(StillFrames(bs, ss, sts), key, Frame(0, bs, ss, sts).samples[key])
    BY <2>2, StillSample
  <2> QED BY <2>1, <2>3, <2>4
<1>3. SourceRadius(fs, BodyKey(sun)) = sun.radius
  <2>1. PICK a : a = Sample(sun.pos, sun.radius, sun.temp, sun.area)
    OBVIOUS
  <2>2. Still(fs, BodyKey(sun), a)
    BY <1>1, <1>2, <2>1
  <2>3. SourceRadius(fs, BodyKey(sun)) = a.radius
    BY <2>2, StillRadius
  <2> QED BY <2>1, <2>3 DEF Sample
<1>4. PICK R : R = sun.radius
  OBVIOUS
<1>5. PICK S : S = OnTheWay(fs, sun, x, b)
  OBVIOUS
<1>6. ShadedBy(fs, sun, x, p, b) = PassedAll(sun, x, R, p, S)
  BY <1>3, <1>4, <1>5 DEF ShadedBy
<1>7. CASE i = j
  <2>1. S = {}
    BY <1>1, <1>5, <1>7 DEF OnTheWay
  <2>2. PassedAll(sun, x, R, p, {}) = p
    BY NonePassed
  <2>3. ShadedBy(fs, sun, x, p, b) = p
    BY <1>6, <2>1, <2>2
  <2> QED BY <1>1, <1>7, <2>3
<1>8. CASE i # j
  <2>1. S = Crossing(fs, BodyKey(b), sun.pos, x, 0, 1000)
    <3>1. b.id # sun.id
      BY <1>1, <1>8 DEF Distinct
    <3>2. b.id \in Nat
      BY BodyFields
    <3> QED BY <1>5, <3>1, <3>2 DEF OnTheWay, BodyKey, Nowhere
  <2>2. PICK a : a = Sample(b.pos, b.radius, b.temp, b.area)
    OBVIOUS
  <2>3. a.pos = b.pos /\ a.radius = b.radius
    BY <2>2 DEF Sample
  <2>4. Still(fs, BodyKey(b), a)
    BY <1>1, <1>2, <2>2
  <2>5. /\ b.pos \in Int /\ sun.pos \in Int /\ sun.pos # x
        /\ b.radius \in Nat /\ R \in Nat
    BY <1>1, <1>4, BodyFields
  <2>6. a.pos \in Int
    BY <2>3, <2>5
  <2>7. S = Meets(a, sun.pos, x)
    <3>1. PICK key : key = BodyKey(b)
      OBVIOUS
    <3>0. PICK from \in Int : from = sun.pos
      BY <2>5
    <3>2. from # x /\ Still(fs, key, a)
      BY <2>4, <2>5, <3>1, <3>0
    <3>3. Crossing(fs, key, from, x, 0, 1000) = Meets(a, from, x)
      BY <2>6, <3>2, CrossingStill
    <3> QED BY <2>1, <3>0, <3>1, <3>3
  <2>8. PassedAll(sun, x, R, p, {}) = p
    BY NonePassed
  <2>9. PassedAll(sun, x, R, p, {a}) = Passed(sun, x, R, a, p)
    BY OnePassed
  <2>10. PICK d \in Nat, D \in Nat : d = Distance(b.pos, x) /\ D = Distance(sun.pos, x)
    BY <2>5, Choosing
  <2>11. CASE d < D /\ d > b.radius /\ Toward(x, b.pos) = Toward(x, sun.pos)
    <3>1. Midway(a, sun.pos, x) < Distance(sun.pos, x)
      BY <2>3, <2>5, <2>6, <2>10, <2>11, MidwayIs
    <3>2. ShadedBy(fs, sun, x, p, b) = Passed(sun, x, R, a, p)
      BY <1>6, <2>7, <2>9, <3>1 DEF Meets
    <3>3. Passed(sun, x, R, a, p) = Uncovered(p, b.radius, d, R, D)
      <4>1. ~ (d >= D) /\ ~ (d <= b.radius)
        BY <2>5, <2>11
      <4> QED BY <2>3, <2>10, <2>11, <4>1 DEF Passed
    <3>4. /\ Uncovered(p, b.radius, d, R, D) \in 0..100
          /\ Uncovered(p, b.radius, d, R, D) > 0 <=> p > 0 /\ ~ (b.radius * D >= R * d)
      BY <2>5, UncoveredLeft
    <3>5. Covers(b, sun, x) <=> b.radius * D >= R * d
      BY <1>4, <2>10, <2>11 DEF Covers, Shadowed, LooksAsLarge
    <3> QED BY <1>1, <1>8, <3>2, <3>3, <3>4, <3>5
  <2>12. CASE ~ (d < D /\ d > b.radius /\ Toward(x, b.pos) = Toward(x, sun.pos))
    <3>1. Passed(sun, x, R, a, p) = p
      <4>1. d >= D \/ d <= b.radius \/ Toward(x, b.pos) # Toward(x, sun.pos)
        BY <2>5, <2>12
      <4> QED BY <2>3, <2>10, <4>1 DEF Passed
    <3>2. ShadedBy(fs, sun, x, p, b) = p
      BY <1>6, <2>7, <2>8, <2>9, <3>1 DEF Meets
    <3>3. ~ Covers(b, sun, x)
      BY <2>10, <2>12 DEF Covers, Shadowed, LooksAsLarge
    <3> QED BY <1>1, <1>8, <3>2, <3>3
  <2> QED BY <2>11, <2>12
<1> QED BY <1>7, <1>8

\* Light comes through where no body covers the Sun.
LEMMA LightComesThrough ==
  ASSUME NEW bs \in Seq(BodyType), Distinct(bs), NEW ss \in Seq(ShipType), NEW sts \in Seq(StationType),
         NEW i \in DOMAIN bs, NEW x \in Int, x # bs[i].pos
  PROVE  Transmission(StillFrames(bs, ss, sts), bs, BodyKey(bs[i]), Nowhere, bs[i].pos, x, 0, 1000) > 0
           <=> \A j \in DOMAIN bs : i = j \/ ~ Covers(bs[j], bs[i], x)
<1>1. PICK fs : fs = StillFrames(bs, ss, sts)
  OBVIOUS
<1>2. PICK n \in Nat : n = Len(bs) /\ DOMAIN bs = 1..n
  OBVIOUS
<1>3. PICK sun : sun = bs[i]
  OBVIOUS
<1>4. PICK S : S = {bs[j] : j \in 1..n}
  OBVIOUS
<1>5. PICK T : T = 0..100
  OBVIOUS
<1>6. \A e \in S : \A t \in T : ShadedBy(fs, sun, x, t, e) \in T
  BY <1>1, <1>2, <1>3, <1>4, <1>5, ShadedLeft
<1>7. bs \in Seq(S)
  <2>1. bs \in [1..n -> S]
    BY <1>2, <1>4
  <2> QED BY <2>1
<1>8. 100 \in T
  BY <1>5
<1>9. PICK G : /\ ShadeWalk(fs, sun, x, T, 100, bs, G)
              /\ ShadeFold(fs, sun, x, 100, bs) = G[Len(bs)]
  BY <1>6, <1>7, <1>8, ShadeWalks
<1>10. /\ G \in [0..n -> T] /\ G[0] = 100
       /\ \A k \in 1..n : G[k] = ShadedBy(fs, sun, x, G[k - 1], bs[k])
  BY <1>2, <1>9 DEF ShadeWalk
<1> DEFINE Passes(j) == i = j \/ ~ Covers(bs[j], bs[i], x)
<1> DEFINE P == {k \in 0..n : G[k] > 0 <=> \A j \in 1..k : Passes(j)}
<1>11. 0 \in P
  BY <1>10
<1>12. ASSUME NEW k \in 1..n, k - 1 \in P PROVE k \in P
  <2>1. k - 1 \in 0..n /\ k \in 0..n
    OBVIOUS
  <2>2. PICK t \in 0..100 : t = G[k - 1]
    <3>1. PICK l \in 0..n : l = k - 1
      BY <2>1
    <3>2. G[l] \in 0..100
      BY <1>5, <1>10
    <3> QED BY <3>1, <3>2
  <2>3. t > 0 <=> \A j \in 1..(k - 1) : Passes(j)
    BY <1>12, <2>2
  <2>4. G[k] > 0 <=> t > 0 /\ Passes(k)
    <3>1. G[k] = ShadedBy(fs, bs[i], x, t, bs[k]) /\ k \in DOMAIN bs
      BY <1>2, <1>3, <1>10, <2>2
    <3>2. ShadedBy(fs, bs[i], x, t, bs[k]) > 0 <=> t > 0 /\ (i = k \/ ~ Covers(bs[k], bs[i], x))
      BY <1>1, <3>1, ShadedLeft
    <3> QED BY <3>1, <3>2
  <2> HIDE DEF Passes
  <2>5. \A j : j \in 1..k <=> j \in 1..(k - 1) \/ j = k
    OBVIOUS
  <2>6. G[k] > 0 <=> \A j \in 1..k : Passes(j)
    BY <2>3, <2>4, <2>5
  <2> QED BY <2>1, <2>6
<1>13. \A k \in 0..n : k \in P
  <2> HIDE DEF P
  <2> QED BY <1>11, <1>12, Upwards
<1>14. G[n] > 0 <=> \A j \in 1..n : Passes(j)
  <2>1. n \in 0..n
    OBVIOUS
  <2> QED BY <1>13, <2>1
<1>15. Transmission(fs, bs, BodyKey(sun), Nowhere, sun.pos, x, 0, 1000) = G[n]
  <2>1. sun.pos # x
    BY <1>3
  <2> QED BY <1>2, <1>9, <2>1, LightIsFold
<1> QED BY <1>1, <1>2, <1>3, <1>14, <1>15

\* The Sun heats where no body stands before it: nor does one cover it there.
LEMMA VisibleUnlessShadowed ==
  ASSUME NEW bs \in Seq(BodyType), Distinct(bs), NEW i \in DOMAIN bs, IsSun(bs[i]),
         NEW x \in Int, x # bs[i].pos
  PROVE  /\ SunVisible(bs, bs[i], x) => \A j \in DOMAIN bs : ~ Covers(bs[j], bs[i], x)
         /\ ~ SunVisible(bs, bs[i], x) => \E j \in DOMAIN bs : Shadowed(bs[j], bs[i], x)
<1>1. \A j \in DOMAIN bs : IsSun(bs[j]) <=> i = j
  BY DEF Distinct
<1>2. Distance(bs[i].pos, x) <= bs[i].radius => \A j \in DOMAIN bs : ~ Covers(bs[j], bs[i], x)
  <2> SUFFICES ASSUME NEW j \in DOMAIN bs, Covers(bs[j], bs[i], x)
               PROVE  ~ (Distance(bs[i].pos, x) <= bs[i].radius)
    OBVIOUS
  <2>1. bs[i] \in BodyType /\ bs[j] \in BodyType
    OBVIOUS
  <2> QED BY <2>1, NoShadowInside
<1>3. (\A c \in ToSet(bs) : ~ IsSun(c) => ~ Shadowed(c, bs[i], x))
        <=> \A j \in DOMAIN bs : ~ IsSun(bs[j]) => ~ Shadowed(bs[j], bs[i], x)
  BY DEF ToSet
<1>4. ~ Shadowed(bs[i], bs[i], x)
  <2>1. PICK d \in Nat : d = Distance(bs[i].pos, x)
    <3>1. bs[i] \in BodyType
      OBVIOUS
    <3>2. bs[i].pos \in Int
      BY <3>1, BodyFields
    <3> QED BY <3>2, Choosing
  <2> QED BY <2>1 DEF Shadowed
<1>5. SunVisible(bs, bs[i], x)
        <=> \/ Distance(bs[i].pos, x) <= bs[i].radius
            \/ \A j \in DOMAIN bs : ~ IsSun(bs[j]) => ~ Shadowed(bs[j], bs[i], x)
  BY <1>3, Zenon DEF SunVisible
<1>6. \A j \in DOMAIN bs : Covers(bs[j], bs[i], x) => Shadowed(bs[j], bs[i], x)
  BY Zenon DEF Covers
<1> QED BY <1>1, <1>2, <1>4, <1>5, <1>6, Zenon

\* The shadow test of ambient.rs is passed by what stands before the Sun.
LEMMA ShadowsFromBefore ==
  ASSUME NEW c \in BodyType, NEW sun \in BodyType, NEW x \in Int, Shadowed(c, sun, x)
  PROVE  Before(c, sun, x)
<1>1. PICK p \in Int, q \in Int, r \in Nat : p = c.pos /\ q = sun.pos /\ r = c.radius
  BY BodyFields
<1>2. Distance(p, x) > r /\ Distance(p, x) < Distance(q, x) /\ Toward(x, p) = Toward(x, q)
  BY <1>1 DEF Shadowed
<1>3. InTheWay(p, x, q)
  BY <1>2 DEF InTheWay, Distance, Toward
<1> QED BY <1>1, <1>2, <1>3 DEF Before

LEMMA TestsAgree ==
  ASSUME NEW bs \in Seq(BodyType), Distinct(bs), NEW ss \in Seq(ShipType), NEW sts \in Seq(StationType),
         NEW sun \in {b \in ToSet(bs) : IsSun(b)}, NEW key \in DOMAIN Frame(0, bs, ss, sts).samples,
         NEW x, x = Frame(0, bs, ss, sts).samples[key].pos, x # sun.pos,
         NEW light, light = Transmission(<<Frame(0, bs, ss, sts), Frame(1000, bs, ss, sts)>>, bs,
                                         BodyKey(sun), Nowhere, sun.pos, x, 0, 1000)
  PROVE  /\ SunVisible(bs, sun, x) => light > 0
         /\ light > 0 /\ ~ SunVisible(bs, sun, x) =>
              \E c \in ToSet(bs) : Before(c, sun, x) /\ ~ LooksAsLarge(c, sun, x)
<1>1. PICK i \in DOMAIN bs : sun = bs[i] /\ IsSun(bs[i])
  BY DEF ToSet
<1>2. PICK f : f = Frame(0, bs, ss, sts)
  OBVIOUS
<1>3. x \in Int
  <2>1. f \in FrameType
    BY <1>2, FrameIsFrame
  <2>2. PICK K : f.samples \in [K -> SampleType]
    BY <2>1 DEF FrameType
  <2>3. f.samples[key] \in SampleType
    BY <1>2, <2>2
  <2> QED BY <1>2, <2>3 DEF SampleType
<1>4. light > 0 <=> \A j \in DOMAIN bs : i = j \/ ~ Covers(bs[j], bs[i], x)
  <2>1. Transmission(StillFrames(bs, ss, sts), bs, BodyKey(bs[i]), Nowhere, bs[i].pos, x, 0, 1000) > 0
          <=> \A j \in DOMAIN bs : i = j \/ ~ Covers(bs[j], bs[i], x)
    BY <1>1, <1>3, LightComesThrough
  <2> QED BY <1>1, <2>1 DEF StillFrames
<1>5. /\ SunVisible(bs, bs[i], x) => \A j \in DOMAIN bs : ~ Covers(bs[j], bs[i], x)
      /\ ~ SunVisible(bs, bs[i], x) => \E j \in DOMAIN bs : Shadowed(bs[j], bs[i], x)
  BY <1>1, <1>3, VisibleUnlessShadowed
<1>6. ASSUME light > 0, ~ SunVisible(bs, sun, x)
      PROVE  \E c \in ToSet(bs) : Before(c, sun, x) /\ ~ LooksAsLarge(c, sun, x)
  <2>1. PICK j \in DOMAIN bs : Shadowed(bs[j], sun, x)
    BY <1>1, <1>5, <1>6
  <2>2. bs[j] \in BodyType /\ sun \in BodyType /\ bs[j] \in ToSet(bs)
    BY <1>1 DEF ToSet
  <2>3. Before(bs[j], sun, x)
    BY <1>3, <2>1, <2>2, ShadowsFromBefore
  <2>4. i # j
    <3>1. PICK d \in Nat : d = Distance(sun.pos, x)
      BY <1>3, <2>2, BodyFields, Choosing
    <3> QED BY <1>1, <2>1, <3>1 DEF Shadowed
  <2>5. ~ Covers(bs[j], sun, x)
    BY <1>1, <1>4, <1>6, <2>4
  <2>6. ~ LooksAsLarge(bs[j], sun, x)
    BY <2>1, <2>5, Zenon DEF Covers
  <2> QED BY <2>2, <2>3, <2>6
<1> QED BY <1>1, <1>4, <1>5, <1>6

\* In every state, wherever something stands: where the Sun heats
\* (is_sun_visible of ambient.rs) its light comes through (path_transmission of
\* passive_radiation.rs), and light comes through without heat only past a body
\* before the Sun that looks smaller than it.
THEOREM ShadowTestsAgree == Spec => []ShadowsAgree
<1>1. ASSUME SkyTypes, Distinct(bodies) PROVE ShadowsAgree
  <2>1. bodies \in Seq(BodyType) /\ ships \in Seq(ShipType) /\ stations \in Seq(StationType)
    BY <1>1 DEF SkyTypes, Placed
  <2>2. \A sun \in {b \in ToSet(bodies) : IsSun(b)} :
          \A key \in DOMAIN Frame(0, bodies, ships, stations).samples :
            Frame(0, bodies, ships, stations).samples[key].pos # sun.pos =>
              /\ SunVisible(bodies, sun, Frame(0, bodies, ships, stations).samples[key].pos) =>
                   Transmission(<<Frame(0, bodies, ships, stations), Frame(1000, bodies, ships, stations)>>,
                             bodies, BodyKey(sun), Nowhere, sun.pos,
                             Frame(0, bodies, ships, stations).samples[key].pos, 0, 1000) > 0
              /\ /\ Transmission(<<Frame(0, bodies, ships, stations), Frame(1000, bodies, ships, stations)>>,
                             bodies, BodyKey(sun), Nowhere, sun.pos,
                             Frame(0, bodies, ships, stations).samples[key].pos, 0, 1000) > 0
                 /\ ~ SunVisible(bodies, sun, Frame(0, bodies, ships, stations).samples[key].pos)
                 => \E c \in ToSet(bodies) :
                      /\ Before(c, sun, Frame(0, bodies, ships, stations).samples[key].pos)
                      /\ ~ LooksAsLarge(c, sun, Frame(0, bodies, ships, stations).samples[key].pos)
    BY <1>1, <2>1, TestsAgree
  <2> QED BY Zenon, <2>2 DEF ShadowsAgree
<1>2. SkyTypes /\ Distinct(bodies) => ShadowsAgree
  BY <1>1
<1> QED BY <1>2, SkyIsTyped, StaysDistinct, PTL

(***************************************************************************)
(* What is seen                                                            *)
(***************************************************************************)

LEMMA DistanceIsNat ==
  ASSUME NEW x \in Int, NEW y \in Int
  PROVE  Distance(x, y) \in Nat
BY DEF Distance

LEMMA WholeAndRest ==
  ASSUME NEW t \in Nat, NEW d \in Nat, d > 0
  PROVE  \E q \in Int, r \in 0..(d - 1) : t = q * d + r
<1>1. PICK x \in Int : x = t
  OBVIOUS
<1>2. \E q \in Int, r \in 0..(d - 1) : x = q * d + r
  BY Remainder
<1> QED BY <1>1, <1>2

LEMMA LightLeaves ==
  ASSUME NEW p \in Int, NEW x \in Int, NEW time \in Int
  PROVE  EmissionTime(p, x, time) \in Int /\ EmissionTime(p, x, time) <= time
<1>1. PICK d \in Nat : d = Distance(p, x)
  BY DistanceIsNat
<1>2. PICK l \in Nat : l = Light /\ l > 0
  BY HistoryAssumption
<1>3. d \div l \in Nat
  <2>1. PICK q \in Int, r \in 0..(l - 1) : d = q * l + r
    BY <1>2, WholeAndRest
  <2>2. d \div l = q
    <3>1. r \in Int /\ 0 <= r /\ r < l
      BY <1>2
    <3> QED BY <1>2, <2>1, <3>1, Divided
  <2>3. q >= 0
    <3>1. SUFFICES ASSUME q <= -1 PROVE FALSE
      OBVIOUS
    <3>2. PICK p1 \in Int : p1 = q * l
      BY Multiplying
    <3>3. p1 <= -l
      BY <1>2, <3>1, <3>2
    <3> QED BY <1>2, <2>1, <3>2, <3>3
  <2> QED BY <2>2, <2>3
<1> QED BY <1>1, <1>2, <1>3 DEF EmissionTime

LEMMA LerpIsInt ==
  ASSUME NEW a \in Int, NEW b \in Int, NEW r \in Int, NEW d \in Nat, d > 0
  PROVE  Lerp(a, b, r, d) \in Int
<1>1. PICK p \in Int : p = (b - a) * r
  <2>1. b - a \in Int
    OBVIOUS
  <2> QED BY <2>1, Multiplying
<1>2. p \div d \in Int
  OBVIOUS
<1> QED BY <1>1, <1>2 DEF Lerp

\* Known and TruePos of Sky, of frames ps up to tick n.
KnownIn(ps, n, key, time) ==
  /\ time >= TICK /\ time <= n * TICK
  /\ key \in DOMAIN ps[time \div TICK].samples
  /\ key \in DOMAIN ps[CeilDiv(time, TICK)].samples

PlaceIn(ps, key, time) ==
  Lerp(PosIn(ps[time \div TICK], key), PosIn(ps[CeilDiv(time, TICK)], key), time % TICK, TICK)

LEMMA TicksRound ==
  ASSUME NEW n \in Nat, NEW time \in Nat, time >= TICK, time <= n * TICK
  PROVE  /\ time \div TICK \in 1..n /\ CeilDiv(time, TICK) \in 1..n
         /\ time % TICK \in Int
<1>1. PICK d \in Nat : d = TICK /\ d > 0
  BY FlightAssumption
<1>2. PICK q \in Int, r \in 0..(d - 1) : time = q * d + r
  BY <1>1, WholeAndRest
<1>3. r \in Int /\ 0 <= r /\ r < d
  BY <1>1
<1>4. time \div d = q /\ time % d = r
  <2>1. (q * d + r) \div d = q /\ (q * d + r) % d = r
    BY <1>1, <1>3, Divided
  <2> QED BY <1>2, <2>1
<1>5. PICK p \in Int, e \in Int : p = q * d /\ e = n * d
  BY Multiplying
<1>6. q >= 1
  <2>1. SUFFICES ASSUME q <= 0 PROVE FALSE
    OBVIOUS
  <2>2. p <= 0
    BY <1>1, <1>5, <2>1
  <2> QED BY <1>1, <1>2, <1>3, <1>5, <2>2
<1>7. q <= n
  <2>1. SUFFICES ASSUME q >= n + 1 PROVE FALSE
    OBVIOUS
  <2>2. p >= e + d
    BY <1>1, <1>5, <2>1
  <2> QED BY <1>1, <1>2, <1>3, <1>5, <2>2
<1>8. CASE r = 0
  <2>1. CeilDiv(q * d - 0, d) = q
    BY <1>1, RoundedUp
  <2>2. time = q * d - 0
    BY <1>2, <1>5, <1>8
  <2>3. CeilDiv(time, d) = q
    BY <2>1, <2>2
  <2> QED BY <1>1, <1>4, <1>6, <1>7, <2>3
<1>9. CASE r # 0
  <2>1. PICK c \in Int, g \in Int : c = q + 1 /\ g = d - r
    OBVIOUS
  <2>2. time = c * d - g
    <3>1. (q + 1) * d = p + d
      BY <1>5
    <3> QED BY <1>2, <1>3, <1>5, <2>1, <3>1
  <2>3. 0 <= g /\ g < d
    BY <1>3, <1>9, <2>1
  <2>4. CeilDiv(c * d - g, d) = c
    BY <1>1, <2>3, RoundedUp
  <2>5. q # n
    BY <1>1, <1>2, <1>3, <1>5, <1>9
  <2> QED BY <1>1, <1>4, <1>6, <1>7, <2>1, <2>2, <2>4, <2>5
<1> QED BY <1>8, <1>9

\* What is remembered of a time is known, and was there.
LEMMA RememberedIsKnown ==
  ASSUME NEW n \in Nat, NEW b \in 0..n, NEW ps, NEW fs, NEW keys, Told(ps, fs, n, b, keys),
         fs # <<>>, NEW key \in DOMAIN ps[n].samples, NEW time \in Int,
         NEW s \in SampleAt(fs, key, time)
  PROVE  /\ time \in TICK..(n * TICK) /\ time > b * TICK /\ KnownIn(ps, n, key, time)
         /\ s.pos = PlaceIn(ps, key, time) /\ s.pos \in Int
<1>1. PICK len \in Nat : len = Len(fs) /\ len > 0 /\ len <= n - b
  <2>1. PICK T : T = FrameType
    OBVIOUS
  <2>2. fs \in Seq(T) /\ Len(fs) <= n - b
    BY <2>1 DEF Told
  <2> QED BY <2>2
<1>2. PICK d \in Nat : d = TICK /\ d > 0
  BY FlightAssumption
<1>3. PICK i \in 1..n : i = n - len + 1
  <2>1. n - len + 1 \in 1..n
    BY <1>1
  <2> QED BY <2>1
<1>4. fs[1].time = i * d
  <2>1. 1 \in 1..Len(fs)
    BY <1>1
  <2>2. fs[1] = ps[n - Len(fs) + 1]
    BY <2>1 DEF Told
  <2>3. fs[1] = ps[i]
    BY <1>1, <1>3, <2>2
  <2>4. ps[i].time = i * TICK
    BY DEF Told
  <2> QED BY <1>2, <2>3, <2>4
<1>5. PICK start \in Nat : start = i * d /\ start >= d
  <2>1. PICK j \in Nat : j = i - 1
    BY <1>3
  <2>2. PICK p \in Nat : p = j * d
    BY <1>2, Multiplying
  <2>3. i * d = p + d
    BY <2>1, <2>2
  <2> QED BY <2>2, <2>3
<1>6. time >= start
  <2>1. ~ (time < fs[1].time)
    BY DEF SampleAt
  <2> QED BY <1>4, <1>5, <2>1
<1>7. time \in Nat
  BY <1>5, <1>6
<1>8. /\ fs[1].time > b * TICK
      /\ SampleAt(fs, key, time) # {} <=> time >= fs[1].time /\ time <= n * TICK
      /\ \A u \in SampleAt(fs, key, time) :
           u.pos = Lerp(PosIn(ps[time \div TICK], key), PosIn(ps[CeilDiv(time, TICK)], key),
                        time % TICK, TICK)
  BY <1>7, ToldIsTrue
<1>9. time <= n * TICK /\ start > b * TICK /\ time >= TICK
  BY <1>2, <1>4, <1>5, <1>6, <1>8
<1>10. time > b * TICK
  <2>1. PICK e \in Int : e = b * TICK
    BY FlightAssumption, Multiplying
  <2> QED BY <1>5, <1>6, <1>9, <2>1
<1>11. time \div TICK \in 1..n /\ CeilDiv(time, TICK) \in 1..n /\ time % TICK \in Int
  BY <1>7, <1>9, TicksRound
<1>12. key \in keys
  BY <1>1 DEF Told
<1>13. ASSUME NEW k \in 1..n
       PROVE  key \in DOMAIN ps[k].samples /\ PosIn(ps[k], key) \in Int
  <2>1. key \in DOMAIN ps[k].samples
    BY <1>12 DEF Told
  <2>2. ps[k] \in FrameType
    <3>1. PICK T : T = FrameType
      OBVIOUS
    <3>2. ps \in Seq(T) /\ Len(ps) = n
      BY <3>1 DEF Told
    <3> QED BY <3>1, <3>2
  <2>3. PICK K \in SUBSET KeyType : ps[k].samples \in [K -> SampleType]
    BY <2>2 DEF FrameType
  <2>4. ps[k].samples[key] \in SampleType
    BY <2>1, <2>3
  <2> QED BY <2>1, <2>4 DEF SampleType, PosIn
<1>14. KnownIn(ps, n, key, time)
  BY <1>9, <1>11, <1>13 DEF KnownIn
<1>15. s.pos = PlaceIn(ps, key, time)
  BY <1>8 DEF PlaceIn
<1>16. PlaceIn(ps, key, time) \in Int
  <2>1. PICK x \in Int, y \in Int, r \in Int :
          /\ x = PosIn(ps[time \div TICK], key) /\ y = PosIn(ps[CeilDiv(time, TICK)], key)
          /\ r = time % TICK
    BY <1>11, <1>13
  <2>2. Lerp(x, y, r, d) \in Int
    BY <1>2, LerpIsInt
  <2> QED BY <1>2, <2>1, <2>2 DEF PlaceIn
<1>17. time \in TICK..(n * TICK)
  <2>1. PICK e \in Int : e = n * TICK
    BY FlightAssumption, Multiplying
  <2> QED BY <1>2, <1>9, <2>1
<1> QED BY <1>10, <1>14, <1>15, <1>16, <1>17

\* LeftFrom of Sky, of frames ps up to tick n.
LeftIn(ps, n, key, at, x, arrival) ==
  /\ KnownIn(ps, n, key, at)
  /\ \E t \in TICK..(n * TICK) :
       KnownIn(ps, n, key, t) /\ at = EmissionTime(PlaceIn(ps, key, t), x, arrival)

Single(S) == \A a, b \in S : a = b

\* The sample between two of them.
Mixed(a, b, from, span, time) ==
  IF span <= 0 THEN a ELSE Between(a, b, Clamped(time - from, 0, span), span)

LEMMA OneMixed ==
  ASSUME NEW A, Single(A), NEW B, Single(B), NEW from, NEW span, NEW time
  PROVE  Single({Mixed(a, b, from, span, time) : a \in A, b \in B})
<1> SUFFICES ASSUME NEW u \in {Mixed(a, b, from, span, time) : a \in A, b \in B},
                    NEW v \in {Mixed(a, b, from, span, time) : a \in A, b \in B}
             PROVE  u = v
  BY DEF Single
<1>1. PICK a \in A, b \in B : u = Mixed(a, b, from, span, time)
  OBVIOUS
<1>2. PICK c \in A, d \in B : v = Mixed(c, d, from, span, time)
  OBVIOUS
<1>3. a = c /\ b = d
  BY DEF Single
<1> QED BY <1>1, <1>2, <1>3

LEMMA OneSample ==
  ASSUME NEW fs, NEW key, NEW time
  PROVE  Single(SampleAt(fs, key, time))
<1>1. ASSUME NEW frame PROVE Single(FoundIn(frame, key))
  BY DEF FoundIn, Single
<1>2. CASE fs = <<>> \/ time < fs[1].time \/ time > Newest(fs)
  <2>1. SampleAt(fs, key, time) = {}
    BY <1>2 DEF SampleAt
  <2> QED BY <2>1 DEF Single
<1>3. CASE ~ (fs = <<>> \/ time < fs[1].time \/ time > Newest(fs))
  <2> DEFINE upper == UpperFrame(fs, time)
             lower == Most(upper - 1, 1)
             span == fs[upper].time - fs[lower].time
             S == {Mixed(a, b, fs[lower].time, span, time) :
                     a \in FoundIn(fs[lower], key), b \in FoundIn(fs[upper], key)}
  <2>1. SampleAt(fs, key, time) = S
    BY <1>3 DEF SampleAt, Mixed
  <2>2. Single(FoundIn(fs[lower], key)) /\ Single(FoundIn(fs[upper], key))
    BY <1>1
  <2>3. Single(S)
    BY <2>2, OneMixed
  <2> QED BY <2>1, <2>3
<1> QED BY <1>2, <1>3

\* The steps of solve_retarded.
Reading(s, t, x) == [sample |-> s, at |-> t, dist |-> Distance(s.pos, x)]
Lefts(S, x, time) == {EmissionTime(s.pos, x, time) : s \in S}
Seens(fs, key, T) == UNION {SampleAt(fs, key, t) : t \in T}

LEMMA LooksOnce ==
  ASSUME NEW fs, NEW key, NEW x, NEW time, NEW T, Single(T)
  PROVE  Single(Seens(fs, key, T)) /\ Single(Lefts(Seens(fs, key, T), x, time))
<1>1. Single(Seens(fs, key, T))
  <2> SUFFICES ASSUME NEW a \in Seens(fs, key, T), NEW b \in Seens(fs, key, T) PROVE a = b
    BY DEF Single
  <2>1. PICK t \in T, u \in T : a \in SampleAt(fs, key, t) /\ b \in SampleAt(fs, key, u)
    BY DEF Seens
  <2>2. t = u
    BY DEF Single
  <2> QED BY <2>1, <2>2, OneSample DEF Single
<1>2. Single(Lefts(Seens(fs, key, T), x, time))
  BY <1>1 DEF Single, Lefts
<1> QED BY <1>1, <1>2

LEMMA LooksBack ==
  ASSUME NEW n \in Nat, NEW b \in 0..n, NEW ps, NEW fs, NEW keys, Told(ps, fs, n, b, keys),
         fs # <<>>, NEW key \in DOMAIN ps[n].samples, NEW x \in Int, NEW arrival \in Int,
         NEW T, T \subseteq Int, NEW at \in Lefts(Seens(fs, key, T), x, arrival)
  PROVE  /\ at \in Int /\ at <= arrival
         /\ \E t \in TICK..(n * TICK) :
              KnownIn(ps, n, key, t) /\ at = EmissionTime(PlaceIn(ps, key, t), x, arrival)
<1>1. PICK s \in Seens(fs, key, T) : at = EmissionTime(s.pos, x, arrival)
  BY DEF Lefts
<1>2. PICK t \in T : s \in SampleAt(fs, key, t)
  BY DEF Seens
<1>3. t \in Int
  OBVIOUS
<1>4. /\ t \in TICK..(n * TICK) /\ KnownIn(ps, n, key, t)
      /\ s.pos = PlaceIn(ps, key, t) /\ s.pos \in Int
  BY <1>2, <1>3, RememberedIsKnown
<1>5. PICK p \in Int : p = s.pos
  BY <1>4
<1>6. EmissionTime(p, x, arrival) \in Int /\ EmissionTime(p, x, arrival) <= arrival
  BY LightLeaves
<1> QED BY <1>1, <1>4, <1>5, <1>6

\* What solve_retarded finds is where the thing was when light left it.
LEMMA RetardedIsKnown ==
  ASSUME NEW n \in Nat, NEW b \in 0..n, NEW ps, NEW fs, NEW keys, Told(ps, fs, n, b, keys),
         NEW key \in DOMAIN ps[n].samples, NEW x \in Int, NEW arrival \in Int,
         NEW r \in Retarded(fs, key, x, arrival)
  PROVE  /\ r.at \in Int /\ r.at <= arrival /\ r.at > b * TICK /\ r.at <= n * TICK
         /\ LeftIn(ps, n, key, r.at, x, arrival)
         /\ r.sample.pos = PlaceIn(ps, key, r.at) /\ r.sample.pos \in Int
<1> DEFINE T0 == IF fs = <<>> THEN {} ELSE Lefts(SampleAt(fs, key, Newest(fs)), x, arrival)
           T1 == Lefts(Seens(fs, key, T0), x, arrival)
           T2 == Lefts(Seens(fs, key, T1), x, arrival)
           T3 == Lefts(Seens(fs, key, T2), x, arrival)
<1>1. /\ T0 = (IF fs = <<>> THEN {} ELSE Lefts(SampleAt(fs, key, Newest(fs)), x, arrival))
      /\ T1 = Lefts(Seens(fs, key, T0), x, arrival)
      /\ T2 = Lefts(Seens(fs, key, T1), x, arrival)
      /\ T3 = Lefts(Seens(fs, key, T2), x, arrival)
  OBVIOUS
<1>2. Retarded(fs, key, x, arrival) = {Reading(s, t, x) : t \in T3, s \in Seens(fs, key, T3)}
  BY DEF Retarded, Lefts, Seens, Reading
<1> HIDE DEF T0, T1, T2, T3
<1>3. PICK at \in T3, s \in Seens(fs, key, T3) : r = Reading(s, at, x)
  BY <1>2
<1>4. r.at = at /\ r.sample = s
  BY <1>3 DEF Reading
<1>5. fs # <<>>
  <2>1. Lefts(Seens(fs, key, {}), x, arrival) = {}
    BY DEF Lefts, Seens
  <2> QED BY <1>1, <1>3, <2>1
<1>6. Single(T0) /\ T0 \subseteq Int
  <2>1. T0 = Lefts(Seens(fs, key, {Newest(fs)}), x, arrival)
    <3>1. Seens(fs, key, {Newest(fs)}) = SampleAt(fs, key, Newest(fs))
      BY DEF Seens
    <3> QED BY <1>1, <1>5, <3>1
  <2>2. Newest(fs) \in Int
    <3>1. PICK T : T = FrameType
      OBVIOUS
    <3>2. fs \in Seq(T)
      BY <3>1 DEF Told
    <3>3. fs[Len(fs)] \in FrameType
      BY <1>5, <3>1, <3>2
    <3> QED BY <3>3 DEF Newest, FrameType
  <2>3. {Newest(fs)} \subseteq Int
    BY <2>2
  <2>4. Single({Newest(fs)})
    BY DEF Single
  <2>5. Single(T0)
    BY <2>1, <2>4, LooksOnce
  <2>6. T0 \subseteq Int
    BY <1>5, <2>1, <2>3, LooksBack
  <2> QED BY <2>5, <2>6
<1>7. Single(T1) /\ T1 \subseteq Int
  BY <1>1, <1>5, <1>6, LooksOnce, LooksBack
<1>8. Single(T2) /\ T2 \subseteq Int
  BY <1>1, <1>5, <1>7, LooksOnce, LooksBack
<1>9. Single(T3)
  BY <1>1, <1>8, LooksOnce
<1>10. /\ at \in Int /\ at <= arrival
       /\ \E t \in TICK..(n * TICK) :
            KnownIn(ps, n, key, t) /\ at = EmissionTime(PlaceIn(ps, key, t), x, arrival)
  BY <1>1, <1>5, <1>8, LooksBack
<1>11. s \in SampleAt(fs, key, at)
  <2>1. PICK t \in T3 : s \in SampleAt(fs, key, t)
    BY DEF Seens
  <2>2. t = at
    BY <1>9 DEF Single
  <2> QED BY <2>1, <2>2
<1>12. /\ at \in TICK..(n * TICK) /\ at > b * TICK /\ KnownIn(ps, n, key, at)
       /\ s.pos = PlaceIn(ps, key, at) /\ s.pos \in Int
  BY <1>5, <1>10, <1>11, RememberedIsKnown
<1>13. at <= n * TICK
  BY <1>12 DEF KnownIn
<1>14. LeftIn(ps, n, key, at, x, arrival)
  BY <1>10, <1>12 DEF LeftIn
<1> QED BY <1>4, <1>10, <1>12, <1>13, <1>14

\* SeenWhereItWas of Sky, of one contribution to what is seen at x at tick n by a
\* process that began at tick b.
SeenTruly(ps, n, b, bs, c, x) ==
  /\ c.at > b * TICK
  /\ IF c.kind = "emitted"
     THEN LeftIn(ps, n, c.key, c.at, x, n * TICK) /\ c.pos = PlaceIn(ps, c.key, c.at)
     ELSE \E lit \in c.at..(n * TICK), sun \in {m \in ToSet(bs) : IsSun(m)} :
            /\ LeftIn(ps, n, c.key, lit, x, n * TICK) /\ c.pos = PlaceIn(ps, c.key, lit)
            /\ LeftIn(ps, n, BodyKey(sun), c.at, c.pos, lit)

LEMMA ContributionIs ==
  ASSUME NEW kind, NEW key, NEW pos, NEW at, NEW d, NEW strength, NEW c,
         c = Contribution(kind, key, pos, at, d, strength)
  PROVE  c.kind = kind /\ c.key = key /\ c.pos = pos /\ c.at = at
BY DEF Contribution

LEMMA EmittedTruly ==
  ASSUME NEW n \in Nat, NEW b \in 0..n, NEW ps, NEW fs, NEW keys, Told(ps, fs, n, b, keys),
         NEW key \in DOMAIN ps[n].samples, NEW x \in Int, NEW bs, NEW own,
         NEW c \in Emitted(fs, bs, key, x, own, n * TICK)
  PROVE  SeenTruly(ps, n, b, bs, c, x)
<1>1. PICK arrival \in Int : arrival = n * TICK
  BY FlightAssumption, Multiplying
<1>2. c \in Emitted(fs, bs, key, x, own, arrival)
  BY <1>1
<1>3. PICK r \in Retarded(fs, key, x, arrival) :
        \E power : c = Contribution("emitted", key, r.sample.pos, r.at, r.dist, power)
  BY <1>2 DEF Emitted
<1>4. c.kind = "emitted" /\ c.key = key /\ c.pos = r.sample.pos /\ c.at = r.at
  BY <1>3, ContributionIs
<1>5. /\ r.at > b * TICK /\ LeftIn(ps, n, key, r.at, x, arrival)
      /\ r.sample.pos = PlaceIn(ps, key, r.at)
  BY RetardedIsKnown
<1> QED BY <1>1, <1>4, <1>5 DEF SeenTruly

LEMMA ReflectedTruly ==
  ASSUME NEW n \in Nat, NEW b \in 0..n, NEW ps, NEW fs, NEW keys, Told(ps, fs, n, b, keys),
         NEW x \in Int, NEW bs, NEW own, NEW body, BodyKey(body) \in DOMAIN ps[n].samples,
         NEW sun \in ToSet(bs), IsSun(sun), BodyKey(sun) \in DOMAIN ps[n].samples,
         NEW c \in Reflected(fs, bs, sun, body, x, own, n * TICK)
  PROVE  SeenTruly(ps, n, b, bs, c, x)
<1>1. PICK arrival \in Int : arrival = n * TICK
  BY FlightAssumption, Multiplying
<1>2. PICK key, other : key = BodyKey(body) /\ other = BodyKey(sun)
  OBVIOUS
<1>3. PICK r \in Retarded(fs, key, x, arrival) :
        \E s \in Retarded(fs, other, r.sample.pos, r.at) : \E d, power :
          c = Contribution("reflected", key, r.sample.pos, s.at, d, power)
  <2>1. c \in Reflected(fs, bs, sun, body, x, own, arrival)
    BY <1>1
  <2> QED BY <1>2, <2>1 DEF Reflected
<1>4. /\ r.at \in Int /\ r.at <= n * TICK /\ LeftIn(ps, n, key, r.at, x, arrival)
      /\ r.sample.pos = PlaceIn(ps, key, r.at) /\ r.sample.pos \in Int
  BY <1>2, RetardedIsKnown
<1>5. PICK p \in Int, lit \in Int : p = r.sample.pos /\ lit = r.at
  BY <1>4
<1>6. PICK s \in Retarded(fs, other, p, lit) :
        \E d, power : c = Contribution("reflected", key, p, s.at, d, power)
  BY <1>3, <1>5
<1>7. c.kind = "reflected" /\ c.key = key /\ c.pos = p /\ c.at = s.at
  BY <1>6, ContributionIs
<1>8. s.at \in Int /\ s.at <= lit /\ s.at > b * TICK /\ LeftIn(ps, n, other, s.at, p, lit)
  BY <1>2, RetardedIsKnown
<1>9. lit \in c.at..(n * TICK)
  BY <1>1, <1>4, <1>5, <1>7, <1>8
<1>10. sun \in {m \in ToSet(bs) : IsSun(m)}
  OBVIOUS
<1>11. /\ LeftIn(ps, n, c.key, lit, x, n * TICK) /\ c.pos = PlaceIn(ps, c.key, lit)
       /\ LeftIn(ps, n, BodyKey(sun), c.at, c.pos, lit)
  BY <1>1, <1>2, <1>4, <1>5, <1>7, <1>8
<1>12. c.at > b * TICK /\ c.kind # "emitted"
  BY <1>7, <1>8
<1> QED BY <1>9, <1>10, <1>11, <1>12 DEF SeenTruly

LEMMA SubSeqWithin ==
  ASSUME NEW S, NEW s \in Seq(S), NEW k \in Int, k <= Len(s)
  PROVE  ToSet(SubSeq(s, 1, k)) \subseteq ToSet(s)
<1>1. ASSUME NEW i \in DOMAIN SubSeq(s, 1, k) PROVE i \in DOMAIN s /\ SubSeq(s, 1, k)[i] = s[i]
  <2>1. i \in 1..k
    BY <1>1
  <2> QED BY <2>1
<1> QED BY <1>1 DEF ToSet

LEMMA JoinedLists ==
  ASSUME NEW K, NEW A \in Seq(K), NEW B \in Seq(K)
  PROVE  /\ A \o B \in Seq(K) /\ Len(A \o B) = Len(A) + Len(B)
         /\ ToSet(A \o B) \subseteq K
<1>1. A \o B \in Seq(K) /\ Len(A \o B) = Len(A) + Len(B)
  OBVIOUS
<1>2. PICK s \in Seq(K) : s = A \o B
  BY <1>1
<1>3. ToSet(s) \subseteq K
  BY DEF ToSet
<1> QED BY <1>1, <1>2, <1>3

LEMMA HullKeysListed ==
  ASSUME NEW bs, NEW ss \in Seq(ShipType), NEW sts \in Seq(StationType), NEW all,
         all = [i \in DOMAIN ss |-> ShipKey(ss[i])] \o [i \in DOMAIN sts |-> StationKey(sts[i])]
  PROVE  /\ \E K : all \in Seq(K)
         /\ Len(all) = Len(ss) + Len(sts) /\ ToSet(all) \subseteq KeysOf(bs, ss, sts)
<1>1. PICK K : K = KeysOf(bs, ss, sts)
  OBVIOUS
<1>2. PICK A, B : A = [i \in DOMAIN ss |-> ShipKey(ss[i])] /\ B = [i \in DOMAIN sts |-> StationKey(sts[i])]
  OBVIOUS
<1>3. A \in Seq(K) /\ Len(A) = Len(ss)
  <2>1. \A i \in DOMAIN ss : ShipKey(ss[i]) \in K
    BY <1>1 DEF KeysOf
  <2>2. DOMAIN ss = 1..Len(ss) /\ Len(ss) \in Nat
    OBVIOUS
  <2> QED BY <1>2, <2>1, <2>2
<1>4. B \in Seq(K) /\ Len(B) = Len(sts)
  <2>1. \A i \in DOMAIN sts : StationKey(sts[i]) \in K
    BY <1>1 DEF KeysOf
  <2>2. DOMAIN sts = 1..Len(sts) /\ Len(sts) \in Nat
    OBVIOUS
  <2> QED BY <1>2, <2>1, <2>2
<1>5. all = A \o B
  BY <1>2
<1>6. all \in Seq(K) /\ Len(all) = Len(ss) + Len(sts) /\ ToSet(all) \subseteq K
  <2>1. /\ A \o B \in Seq(K) /\ Len(A \o B) = Len(A) + Len(B)
        /\ ToSet(A \o B) \subseteq K
    BY <1>3, <1>4, JoinedLists, Zenon
  <2> QED BY <1>3, <1>4, <1>5, <2>1, Zenon
<1> QED BY <1>1, <1>6, Zenon

\* Whatever is observed was truly there.
LEMMA ObservedTruly ==
  ASSUME NEW n \in Nat, NEW b \in 0..n, NEW ps, NEW fs,
         NEW bs \in Seq(BodyType), NEW ss \in Seq(ShipType), NEW sts \in Seq(StationType),
         Told(ps, fs, n, b, KeysOf(bs, ss, sts)), n > 0, NEW x \in Int, NEW own,
         NEW c \in Observed(fs, bs, ss, sts, x, own, n * TICK)
  PROVE  SeenTruly(ps, n, b, bs, c, x)
<1>1. PICK keys : keys = KeysOf(bs, ss, sts)
  OBVIOUS
<1>2. Told(ps, fs, n, b, keys) /\ keys \subseteq DOMAIN ps[n].samples
  BY <1>1 DEF Told
<1>3. PICK time : time = n * TICK
  OBVIOUS
<1> DEFINE sun == SelectInSeq(bs, IsSun)
           near == SubSeq(bs, 1, Least(PassiveCap, Len(bs)))
           all == [i \in DOMAIN ss |-> ShipKey(ss[i])] \o [i \in DOMAIN sts |-> StationKey(sts[i])]
           small == SubSeq(all, 1, Clamped(PassiveCap - Len(bs), 0, Len(ss) + Len(sts)))
<1>4. /\ sun # 0
      /\ \/ \E body \in ToSet(near) : \/ c \in Emitted(fs, bs, BodyKey(body), x, own, time)
                                      \/ c \in Reflected(fs, bs, bs[sun], body, x, own, time)
         \/ \E key \in ToSet(small) : c \in Emitted(fs, bs, key, x, own, time)
  <2>1. c \in Observed(fs, bs, ss, sts, x, own, time)
    BY <1>3
  <2> QED BY <2>1, Zenon DEF Observed
<1>5. sun \in DOMAIN bs /\ IsSun(bs[sun])
  <2>1. PICK I : I = {i \in 1..Len(bs) : IsSun(bs[i])}
    OBVIOUS
  <2>2. sun = FirstOf(bs, I)
    BY <2>1 DEF SelectInSeq, FirstOf
  <2>3. FirstOf(bs, I) = 0 \/ (FirstOf(bs, I) \in I /\ FirstOf(bs, I) \in DOMAIN bs)
    BY <2>1, FirstIndex
  <2> QED BY <1>4, <2>1, <2>2, <2>3
<1>6. ToSet(near) \subseteq ToSet(bs)
  <2>1. PICK k \in Int : k = Least(PassiveCap, Len(bs)) /\ k <= Len(bs)
    BY PassiveAssumption DEF Least
  <2>2. ToSet(SubSeq(bs, 1, k)) \subseteq ToSet(bs)
    BY <2>1, SubSeqWithin
  <2> QED BY <2>1, <2>2
<1>7. ToSet(small) \subseteq keys
  <2>1. PICK a : a = all
    OBVIOUS
  <2>2. (\E K : a \in Seq(K)) /\ Len(a) = Len(ss) + Len(sts) /\ ToSet(a) \subseteq keys
    BY <1>1, <2>1, HullKeysListed
  <2>3. PICK K : a \in Seq(K)
    BY <2>2
  <2>4. PICK l \in Nat : l = Len(ss) + Len(sts)
    OBVIOUS
  <2>5. PICK k \in Int : k = Clamped(PassiveCap - Len(bs), 0, l) /\ k <= l
    <3>1. PICK e \in Int : e = PassiveCap - Len(bs)
      <4>1. PICK m \in Nat : m = Len(bs)
        OBVIOUS
      <4>2. PassiveCap - m \in Int
        BY PassiveAssumption
      <4> QED BY <4>1, <4>2
    <3>2. Clamped(e, 0, l) \in Int /\ Clamped(e, 0, l) <= l
      BY DEF Clamped, Least, Most
    <3> QED BY <3>1, <3>2
  <2>6. ToSet(SubSeq(a, 1, k)) \subseteq ToSet(a)
    BY <2>2, <2>3, <2>4, <2>5, SubSeqWithin
  <2>7. small = SubSeq(a, 1, k)
    BY <2>1, <2>4, <2>5
  <2> QED BY <2>2, <2>6, <2>7
<1> HIDE DEF sun, near, small
<1>8. \A body \in ToSet(bs) : BodyKey(body) \in keys
  BY <1>1 DEF KeysOf, ToSet
<1>9. bs[sun] \in ToSet(bs)
  BY <1>5 DEF ToSet
<1>10. ASSUME NEW body \in ToSet(bs), c \in Emitted(fs, bs, BodyKey(body), x, own, time)
       PROVE  SeenTruly(ps, n, b, bs, c, x)
  <2>1. PICK key : key = BodyKey(body)
    OBVIOUS
  <2>2. key \in DOMAIN ps[n].samples
    BY <1>2, <1>8, <2>1
  <2> QED BY <1>2, <1>3, <1>10, <2>1, <2>2, EmittedTruly
<1>11. ASSUME NEW body \in ToSet(bs), c \in Reflected(fs, bs, bs[sun], body, x, own, time)
       PROVE  SeenTruly(ps, n, b, bs, c, x)
  <2>1. PICK star \in ToSet(bs) : star = bs[sun] /\ IsSun(star)
    BY <1>5, <1>9
  <2>2. BodyKey(body) \in DOMAIN ps[n].samples /\ BodyKey(star) \in DOMAIN ps[n].samples
    BY <1>2, <1>8
  <2> QED BY <1>2, <1>3, <1>11, <2>1, <2>2, ReflectedTruly
<1>12. ASSUME NEW key \in keys, c \in Emitted(fs, bs, key, x, own, time)
       PROVE  SeenTruly(ps, n, b, bs, c, x)
  <2>1. key \in DOMAIN ps[n].samples
    BY <1>2
  <2> QED BY <1>2, <1>3, <1>12, <2>1, EmittedTruly
<1> QED BY <1>4, <1>6, <1>7, <1>10, <1>11, <1>12

\* Whoever looks is somewhere.
LEMMA ObserversPlaced ==
  ASSUME NEW bs \in Seq(BodyType), NEW ss \in Seq(ShipType), NEW sts \in Seq(StationType),
         NEW o \in Observers(bs, ss, sts)
  PROVE  o.pos \in Int
<1> DEFINE moon == SelectInSeq(bs, IsLuna)
<1>1. moon = 0 \/ moon \in DOMAIN bs
  <2>1. moon = FirstOf(bs, {i \in 1..Len(bs) : IsLuna(bs[i])})
    BY DEF SelectInSeq, FirstOf
  <2>2. PICK I : I = {i \in 1..Len(bs) : IsLuna(bs[i])}
    OBVIOUS
  <2> QED BY <2>1, <2>2, FirstIndex
<1> HIDE DEF moon
<1>2. \/ \E s \in ToSet(ss) : o = [id |-> s.id, pos |-> s.pos, own |-> Nowhere, faces |-> {1}, snr |-> 10]
      \/ \E s \in ToSet(sts) : o = [id |-> s.id, pos |-> StationPos(s, bs), own |-> Nowhere,
                                    faces |-> {1, -1}, snr |-> 5]
      \/ moon # 0 /\ o = [id |-> LunaId, pos |-> bs[moon].pos, own |-> bs[moon].id,
                          faces |-> {1, -1}, snr |-> 0]
  BY DEF Observers, moon
<1>3. \/ \E s \in ToSet(ss) : o.pos = s.pos
      \/ \E s \in ToSet(sts) : o.pos = StationPos(s, bs)
      \/ moon # 0 /\ o.pos = bs[moon].pos
  BY <1>2
<1>4. ASSUME NEW s \in ToSet(ss) PROVE s.pos \in Int
  <2>1. s \in ShipType
    BY DEF ToSet
  <2> QED BY <2>1, ShipFields
<1>5. ASSUME NEW s \in ToSet(sts) PROVE StationPos(s, bs) \in Int
  <2>1. s \in StationType
    BY DEF ToSet
  <2> QED BY <2>1, StationPosIsInt
<1>6. moon # 0 => bs[moon].pos \in Int
  <2>1. moon # 0 => bs[moon] \in BodyType
    BY <1>1
  <2> QED BY <2>1, BodyFields
<1> QED BY <1>3, <1>4, <1>5, <1>6

SeenAll(ps, n, b, bs, sg) ==
  \A o \in DOMAIN sg : \A c \in sg[o] : SeenTruly(ps, n, b, bs, c, o.pos)

\* Nothing is seen before the first tick; what is seen then was there.
LooksTruly ==
  /\ SeenAll(past, now, born, bodies, sights)
  /\ stage = "placing" => sights = <<>>

LEMMA NoneSeen ==
  ASSUME NEW ps, NEW n, NEW b, NEW bs
  PROVE  SeenAll(ps, n, b, bs, <<>>)
BY DEF SeenAll

LEMMA StepSeesTruly ==
  ASSUME SkyTypes, Remembered, NEW cmds \in CommandSets, Step(cmds)
  PROVE  LooksTruly'
<1>1. BodiesFrom(bodies', bodies) /\ ShipsFrom(ships', ships) /\ StationsFrom(stations', stations)
  BY StepMakes DEF SkyTypes
<1>2. PICK bs, ss, sts : bs = bodies' /\ ss = ships' /\ sts = stations'
  OBVIOUS
<1>3. bs \in Seq(BodyType) /\ ss \in Seq(ShipType) /\ sts \in Seq(StationType)
  BY <1>1, <1>2 DEF BodiesFrom, ShipsFrom, StationsFrom
<1>4. PICK n \in Nat, b \in Nat : n = now' /\ b = born' /\ b \in 0..n /\ n > 0
  <2>1. PICK m \in Nat, l \in Nat : m = now /\ l = born /\ l \in 0..m
    BY DEF SkyTypes, Counted
  <2>2. now' = now + 1 /\ born' = born
    BY Zenon DEF Step
  <2>3. now' = m + 1 /\ born' = l
    BY <2>1, <2>2
  <2>4. m + 1 \in Nat /\ l \in 0..(m + 1) /\ m + 1 > 0
    BY <2>1
  <2> QED BY <2>3, <2>4
<1>5. PICK ps, fs : ps = past' /\ fs = frames'
  OBVIOUS
<1>6. Told(ps, fs, n, b, KeysOf(bs, ss, sts))
  <2>1. Remembered'
    BY StepRemembers
  <2> QED BY <1>2, <1>4, <1>5, <2>1 DEF Remembered
<1>7. PICK all : all = Observers(bs, ss, sts)
  OBVIOUS
<1>8. PICK sg : sg = sights'
  OBVIOUS
<1>9. sg = [o \in all |-> IF observer = "legacy" THEN {}
                          ELSE Observed(fs, bs, ss, sts, o.pos, o.own, n * TICK)]
  <2>1. sights' = [o \in Observers(bodies', ships', stations') |->
                     IF observer = "legacy" THEN {}
                     ELSE Observed(frames', bodies', ships', stations', o.pos, o.own, now' * TICK)]
    BY Zenon DEF Step
  <2> QED BY <1>2, <1>4, <1>5, <1>7, <1>8, <2>1, Zenon
<1>10. ASSUME NEW o \in DOMAIN sg, NEW c \in sg[o]
       PROVE  SeenTruly(ps, n, b, bs, c, o.pos)
  <2>1. o \in all /\ c \in Observed(fs, bs, ss, sts, o.pos, o.own, n * TICK)
    BY <1>9
  <2>2. PICK x, own : x = o.pos /\ own = o.own
    OBVIOUS
  <2>3. x \in Int /\ c \in Observed(fs, bs, ss, sts, x, own, n * TICK)
    BY <1>3, <1>7, <2>1, <2>2, ObserversPlaced
  <2>4. SeenTruly(ps, n, b, bs, c, x)
    BY <1>3, <1>4, <1>6, <2>3, ObservedTruly
  <2> QED BY <2>2, <2>4
<1>11. SeenAll(ps, n, b, bs, sg)
  BY <1>10 DEF SeenAll
<1>12. stage' = "up"
  BY DEF Step
<1> QED BY <1>2, <1>4, <1>5, <1>8, <1>11, <1>12 DEF LooksTruly

LEMMA NextSeesTruly == SkyTypes /\ Remembered /\ LooksTruly /\ [Next]_vars => LooksTruly'
<1> SUFFICES ASSUME SkyTypes, Remembered, LooksTruly, [Next]_vars PROVE LooksTruly'
  OBVIOUS
<1>1. CASE Place
  <2>1. stage = "placing"
    BY <1>1 DEF Place, PlaceStation, Begin
  <2>2. sights = <<>>
    BY <2>1 DEF LooksTruly
  <2>3. sights' = <<>>
    BY <1>1, <2>2 DEF Place, skyVars
  <2>4. PICK ps, n, b, bs : ps = past' /\ n = now' /\ b = born' /\ bs = bodies'
    OBVIOUS
  <2>5. SeenAll(ps, n, b, bs, <<>>)
    BY NoneSeen
  <2> QED BY <2>3, <2>4, <2>5 DEF LooksTruly
<1>2. ASSUME NEW cmds \in CommandSets, Step(cmds) PROVE LooksTruly'
  BY <1>2, StepSeesTruly
<1>3. CASE Resume
  <2>1. sights' = <<>>
    BY <1>3 DEF Resume
  <2>2. PICK ps, n, b, bs : ps = past' /\ n = now' /\ b = born' /\ bs = bodies'
    OBVIOUS
  <2>3. SeenAll(ps, n, b, bs, <<>>)
    BY NoneSeen
  <2> QED BY <2>1, <2>2, <2>3 DEF LooksTruly
<1>4. CASE UNCHANGED vars
  <2>1. /\ past' = past /\ now' = now /\ born' = born /\ stage' = stage
        /\ bodies' = bodies /\ sights' = sights
    BY <1>4 DEF vars, startVars, skyVars
  <2> QED BY <2>1 DEF LooksTruly
<1> QED BY <1>1, <1>2, <1>3, <1>4 DEF Next

\* Nobody sees what is yet to come, nor what is forgotten: whatever an observer is
\* told of truly was where it is said to be, at a time up to now at which light
\* from some place where the thing had been would have left it for the observer or,
\* if it is the Sun's, for what reflects it; and nothing is from before the process
\* began, for every length of the history (solve_retarded, reflected_sunlight and
\* observe_bodies in passive_radiation.rs).
THEOREM NobodySeesTheFuture == Spec => []SeenWhereItWas
<1>1. LooksTruly => SeenWhereItWas
  <2> SUFFICES ASSUME LooksTruly, NEW o \in DOMAIN sights, NEW c \in sights[o]
               PROVE  /\ c.at > born * TICK
                      /\ IF c.kind = "emitted"
                         THEN LeftFrom(c.key, c.at, o.pos, now * TICK) /\ c.pos = TruePos(c.key, c.at)
                         ELSE \E lit \in c.at..(now * TICK), sun \in {m \in ToSet(bodies) : IsSun(m)} :
                                /\ LeftFrom(c.key, lit, o.pos, now * TICK)
                                /\ c.pos = TruePos(c.key, lit)
                                /\ LeftFrom(BodyKey(sun), c.at, c.pos, lit)
    BY DEF SeenWhereItWas
  <2>1. \A key, time : /\ KnownIn(past, now, key, time) <=> Known(key, time)
                       /\ PlaceIn(past, key, time) = TruePos(key, time)
    BY DEF KnownIn, Known, PlaceIn, TruePos, PosIn
  <2>2. \A key, at, x, arrival : LeftIn(past, now, key, at, x, arrival) <=> LeftFrom(key, at, x, arrival)
    BY <2>1 DEF LeftIn, LeftFrom
  <2>3. SeenTruly(past, now, born, bodies, c, o.pos)
    BY DEF LooksTruly, SeenAll
  <2> QED BY <2>1, <2>2, <2>3 DEF SeenTruly
<1>2. Init => LooksTruly
  <2>1. ASSUME Init PROVE sights = <<>>
    BY <2>1 DEF Init
  <2>2. SeenAll(past, now, born, bodies, <<>>)
    BY NoneSeen
  <2> QED BY <2>1, <2>2 DEF LooksTruly
<1>3. SkyTypes /\ Remembered /\ LooksTruly /\ [Next]_vars => LooksTruly'
  BY NextSeesTruly
<1>4. Init => Remembered
  BY InitRemembered
<1>5. SkyTypes /\ Remembered /\ [Next]_vars => Remembered'
  BY NextRemembers
<1> QED BY <1>1, <1>2, <1>3, <1>4, <1>5, SkyIsTyped, PTL DEF Spec

=============================================================================
