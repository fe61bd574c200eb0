------------------------------ MODULE SumLemmas ------------------------------
(***************************************************************************)
(* Facts about folds: sums over finite sets (SumFunctionOnSet of the       *)
(* community modules), for the balances of the station economy, and folds  *)
(* over sequences, for the tick's loops over bodies, ships and states.     *)
(*                                                                         *)
(* A sum is a recursive function over the subsets of a set.  Induction     *)
(* over those takes the form of the least counterexample: a family of      *)
(* finite sets that is not empty has a member no other member is within.   *)
(***************************************************************************)
EXTENDS Integers, Functions, FiniteSetTheorems, TLAPS

\* Among finitely many things every family of sets has a least one.
LEMMA LeastSubset ==
  ASSUME NEW S, IsFiniteSet(S), NEW F, F \subseteq SUBSET S, F # {}
  PROVE  \E x \in F : \A y \in F : y \subseteq x => y = x
<1>1. FiniteSubsetsOf(S) = SUBSET S
  BY FS_FiniteSubsetsOfFinite
<1>2. IsWellFoundedOn(StrictSubsetOrdering(S), SUBSET S)
  BY <1>1, FS_StrictSubsetOrderingWellFounded
<1>3. PICK x \in F : \A y \in F : ~ (<<y, x>> \in StrictSubsetOrdering(S))
  BY <1>2, WFMin
<1>4. ASSUME NEW y \in F, y \subseteq x, y # x PROVE <<y, x>> \in StrictSubsetOrdering(S)
  <2>1. y \in SUBSET S /\ x \in SUBSET S
    OBVIOUS
  <2>2. <<y, x>> \in (SUBSET S) \X (SUBSET S)
    BY <2>1
  <2>3. <<y, x>>[1] = y /\ <<y, x>>[2] = x
    OBVIOUS
  <2> QED BY <1>4, <2>2, <2>3 DEF StrictSubsetOrdering
<1>5. \A y \in F : y \subseteq x => y = x
  <2>1. ASSUME NEW y \in F, y \subseteq x, y # x PROVE FALSE
    <3>1. <<y, x>> \in StrictSubsetOrdering(S)
      BY <1>4, <2>1
    <3>2. <<y, x>> \notin StrictSubsetOrdering(S)
      BY <1>3
    <3> QED BY <3>1, <3>2
  <2> QED BY <2>1
<1> QED BY <1>5

\* Among finitely many numbers there is a least one and a greatest one.
LEMMA LeastNumber ==
  ASSUME NEW n \in Nat, NEW T, T \subseteq 0..n, T # {}
  PROVE  \E x \in T : \A y \in T : x <= y
<1> DEFINE F == {1..x : x \in T}
<1>1. F # {}
  OBVIOUS
<1>2. F \subseteq SUBSET (1..n)
  OBVIOUS
<1>3. PICK S : S = 1..n
  OBVIOUS
<1>4. PICK s \in F : \A y \in F : y \subseteq s => y = s
  <2>1. IsFiniteSet(S)
    BY <1>3, FS_Interval
  <2>2. F \subseteq SUBSET S
    BY <1>2, <1>3
  <2> HIDE DEF F
  <2> QED BY <1>1, <2>1, <2>2, LeastSubset
<1>5. PICK x \in T : s = 1..x
  OBVIOUS
<1>6. ASSUME NEW y \in T, y < x PROVE FALSE
  <2>1. y \in Nat /\ x \in Nat
    OBVIOUS
  <2>2. 1..y \subseteq s /\ x \in s /\ x \notin 1..y
    BY <1>5, <1>6, <2>1
  <2>3. 1..y \in F
    OBVIOUS
  <2> HIDE DEF F
  <2>4. 1..y = s
    BY <1>4, <2>2, <2>3
  <2> QED BY <2>2, <2>4
<1>7. \A y \in T : x <= y
  BY <1>6
<1> QED BY <1>7

LEMMA GreatestNumber ==
  ASSUME NEW n \in Nat, NEW T, T \subseteq 0..n, T # {}
  PROVE  \E x \in T : \A y \in T : x >= y
<1> DEFINE U == {n - x : x \in T}
<1>1. U \subseteq 0..n /\ U # {}
  <2>1. \A x \in T : x \in 0..n
    OBVIOUS
  <2>2. \A x \in T : n - x \in 0..n
    BY <2>1
  <2> QED BY <2>2
<1>2. PICK u \in U : \A v \in U : u <= v
  <2> HIDE DEF U
  <2> QED BY <1>1, LeastNumber
<1>3. PICK x \in T : u = n - x
  OBVIOUS
<1>4. ASSUME NEW y \in T PROVE x >= y
  <2>1. u <= n - y
    BY <1>2
  <2> QED BY <1>3, <2>1
<1> QED BY <1>4

(***************************************************************************)
(* The recursive function behind a sum                                     *)
(***************************************************************************)

First(s) == CHOOSE x \in s : TRUE

\* g adds up f over every subset of S.
AddsUp(f, S, g) ==
  g = [s \in SUBSET S |-> IF s = {} THEN 0 ELSE f[First(s)] + g[s \ {First(s)}]]

\* The sum as the community modules define it.
LEMMA SumIsFold ==
  ASSUME NEW f, NEW S
  PROVE  SumFunctionOnSet(f, S) = (CHOOSE g : AddsUp(f, S, g))[S]
BY DEF SumFunctionOnSet, FoldFunctionOnSet, MapThenFoldSet, AddsUp, First

LEMMA FirstIn ==
  ASSUME NEW s, s # {}
  PROVE  First(s) \in s
BY DEF First

\* Two functions that add up f agree where both do.
LEMMA FoldsAgree ==
  ASSUME NEW f, NEW S, NEW T, NEW g, NEW h, IsFiniteSet(S), AddsUp(f, S, g), AddsUp(f, T, h)
  PROVE  \A s \in (SUBSET S) \cap (SUBSET T) : g[s] = h[s]
<1> DEFINE bad == {s \in (SUBSET S) \cap (SUBSET T) : g[s] # h[s]}
<1>1. SUFFICES ASSUME bad # {} PROVE FALSE
  OBVIOUS
<1>2. PICK s \in bad : \A y \in bad : y \subseteq s => y = s
  <2>1. bad \subseteq SUBSET S
    OBVIOUS
  <2> HIDE DEF bad
  <2> QED BY <1>1, <2>1, LeastSubset
<1>3. /\ g[s] = IF s = {} THEN 0 ELSE f[First(s)] + g[s \ {First(s)}]
      /\ h[s] = IF s = {} THEN 0 ELSE f[First(s)] + h[s \ {First(s)}]
  <2>1. s \in SUBSET S /\ s \in SUBSET T
    OBVIOUS
  <2>2. \A k : AddsUp(f, S, k) => k[s] = IF s = {} THEN 0 ELSE f[First(s)] + k[s \ {First(s)}]
    BY <2>1 DEF AddsUp
  <2>3. \A k : AddsUp(f, T, k) => k[s] = IF s = {} THEN 0 ELSE f[First(s)] + k[s \ {First(s)}]
    BY <2>1 DEF AddsUp
  <2> QED BY <2>2, <2>3
<1>4. s # {}
  BY <1>3
<1>5. First(s) \in s
  BY <1>4, FirstIn
<1>6. s \ {First(s)} \notin bad
  BY <1>2, <1>5
<1>7. g[s \ {First(s)}] = h[s \ {First(s)}]
  BY <1>6
<1> QED BY <1>3, <1>7

\* There is such a function for every finite set.
LEMMA FoldExists ==
  ASSUME NEW f, NEW S, IsFiniteSet(S)
  PROVE  \E g : AddsUp(f, S, g)
<1> DEFINE bad == {s \in SUBSET S : ~ \E g : AddsUp(f, s, g)}
<1>1. SUFFICES ASSUME bad # {} PROVE FALSE
  OBVIOUS
<1>2. PICK s \in bad : \A y \in bad : y \subseteq s => y = s
  <2>1. bad \subseteq SUBSET S
    OBVIOUS
  <2> HIDE DEF bad
  <2> QED BY <1>1, <2>1, LeastSubset
<1>3. \A y \in SUBSET s : y # s => \E g : AddsUp(f, y, g)
  BY <1>2
<1>f. \A y \in SUBSET s : IsFiniteSet(y)
  BY FS_Subset
<1> DEFINE part(y) == (CHOOSE g : AddsUp(f, y, g))[y]
           whole == [y \in SUBSET s |-> IF y = {} THEN 0 ELSE f[First(y)] + part(y \ {First(y)})]
<1>4. \A y \in SUBSET s : y # s => AddsUp(f, y, CHOOSE g : AddsUp(f, y, g))
  BY <1>3
<1>5. ASSUME NEW y \in SUBSET s, y # s
      PROVE  part(y) = IF y = {} THEN 0 ELSE f[First(y)] + part(y \ {First(y)})
  <2> DEFINE g == CHOOSE k : AddsUp(f, y, k)
  <2>1. AddsUp(f, y, g)
    BY <1>4, <1>5
  <2>2. g[y] = IF y = {} THEN 0 ELSE f[First(y)] + g[y \ {First(y)}]
    <3> HIDE DEF g
    <3> QED BY <2>1 DEF AddsUp
  <2>3. CASE y = {}
    BY <2>2, <2>3
  <2>4. CASE y # {}
    <3> DEFINE z == y \ {First(y)}
               h == CHOOSE k : AddsUp(f, z, k)
    <3>1. z \in SUBSET s /\ z # s /\ z \in SUBSET y
      BY <2>4, FirstIn
    <3>2. AddsUp(f, z, h)
      BY <1>4, <3>1
    <3>3. IsFiniteSet(y)
      BY <1>f
    <3>4. g[z] = h[z]
      <4> HIDE DEF g, h, z
      <4>1. z \in (SUBSET y) \cap (SUBSET z)
        BY <3>1
      <4> QED BY <4>1, <2>1, <3>2, <3>3, FoldsAgree
    <3> QED BY <2>2, <2>4, <3>4
  <2> QED BY <2>3, <2>4
<1>6. AddsUp(f, s, whole)
  <2> HIDE DEF part
  <2>1. \A y \in SUBSET s : y # {} => y \ {First(y)} \in SUBSET s /\ y \ {First(y)} # s
    <3>1. ASSUME NEW y \in SUBSET s, y # {} PROVE y \ {First(y)} \in SUBSET s /\ y \ {First(y)} # s
      BY <3>1, FirstIn
    <3> QED BY <3>1
  <2>2. \A y \in SUBSET s : y # s => whole[y] = part(y)
    BY <1>5
  <2>3. \A y \in SUBSET s : y # {} => whole[y \ {First(y)}] = part(y \ {First(y)})
    BY <2>1, <2>2
  <2>4. whole = [y \in SUBSET s |-> IF y = {} THEN 0 ELSE f[First(y)] + whole[y \ {First(y)}]]
    <3> DEFINE again == [y \in SUBSET s |-> IF y = {} THEN 0 ELSE f[First(y)] + whole[y \ {First(y)}]]
    <3>1. \A y \in SUBSET s : whole[y] = again[y]
      <4>1. ASSUME NEW y \in SUBSET s PROVE whole[y] = again[y]
        <5>1. whole[y] = IF y = {} THEN 0 ELSE f[First(y)] + part(y \ {First(y)})
          OBVIOUS
        <5>2. again[y] = IF y = {} THEN 0 ELSE f[First(y)] + whole[y \ {First(y)}]
          OBVIOUS
        <5> HIDE DEF whole, again
        <5> QED BY <2>3, <5>1, <5>2
      <4> HIDE DEF whole, again
      <4> QED BY <4>1
    <3> QED BY <3>1
  <2> HIDE DEF whole
  <2> QED BY <2>4 DEF AddsUp
<1> QED BY <1>2, <1>6

LEMMA SumStep ==
  ASSUME NEW f, NEW S, IsFiniteSet(S), S # {}
  PROVE  SumFunctionOnSet(f, S) = f[First(S)] + SumFunctionOnSet(f, S \ {First(S)})
<1> DEFINE T == S \ {First(S)}
           g == CHOOSE k : AddsUp(f, S, k)
           h == CHOOSE k : AddsUp(f, T, k)
<1>1. IsFiniteSet(T)
  BY FS_Subset
<1>2. AddsUp(f, S, g)
  BY FoldExists
<1>3. AddsUp(f, T, h)
  <2> HIDE DEF T
  <2> QED BY <1>1, FoldExists
<1>4. g[T] = h[T]
  <2>1. T \in (SUBSET S) \cap (SUBSET T)
    OBVIOUS
  <2> HIDE DEF g, h, T
  <2> QED BY <1>2, <1>3, <2>1, FoldsAgree
<1>5. g[S] = f[First(S)] + g[T]
  <2> HIDE DEF g
  <2> QED BY <1>2 DEF AddsUp
<1> QED BY <1>4, <1>5, SumIsFold

(***************************************************************************)
(* What the proofs use                                                     *)
(***************************************************************************)

LEMMA SumEmpty ==
  ASSUME NEW f
  PROVE  SumFunctionOnSet(f, {}) = 0
<1> DEFINE g == CHOOSE k : AddsUp(f, {}, k)
<1>1. AddsUp(f, {}, g)
  BY FoldExists, FS_EmptySet
<1>2. g[{}] = 0
  <2> HIDE DEF g
  <2> QED BY <1>1 DEF AddsUp
<1> QED BY <1>2, SumIsFold

LEMMA SumNat ==
  ASSUME NEW f, NEW S, IsFiniteSet(S), \A x \in S : f[x] \in Nat
  PROVE  SumFunctionOnSet(f, S) \in Nat
<1> DEFINE bad == {s \in SUBSET S : SumFunctionOnSet(f, s) \notin Nat}
<1>1. SUFFICES ASSUME bad # {} PROVE FALSE
  OBVIOUS
<1>2. PICK s \in bad : \A y \in bad : y \subseteq s => y = s
  <2>1. bad \subseteq SUBSET S
    OBVIOUS
  <2> HIDE DEF bad
  <2> QED BY <1>1, <2>1, LeastSubset
<1>3. s # {}
  BY SumEmpty
<1>4. First(s) \in s
  BY <1>3, FirstIn
<1>5. SumFunctionOnSet(f, s \ {First(s)}) \in Nat
  BY <1>2, <1>4
<1>6. IsFiniteSet(s)
  BY FS_Subset
<1>7. SumFunctionOnSet(f, s) = f[First(s)] + SumFunctionOnSet(f, s \ {First(s)})
  BY <1>3, <1>6, SumStep
<1> QED BY <1>4, <1>5, <1>7

LEMMA SumInt ==
  ASSUME NEW f, NEW S, IsFiniteSet(S), \A x \in S : f[x] \in Int
  PROVE  SumFunctionOnSet(f, S) \in Int
<1> DEFINE bad == {s \in SUBSET S : SumFunctionOnSet(f, s) \notin Int}
<1>1. SUFFICES ASSUME bad # {} PROVE FALSE
  OBVIOUS
<1>2. PICK s \in bad : \A y \in bad : y \subseteq s => y = s
  <2>1. bad \subseteq SUBSET S
    OBVIOUS
  <2> HIDE DEF bad
  <2> QED BY <1>1, <2>1, LeastSubset
<1>3. s # {}
  BY SumEmpty
<1>4. First(s) \in s
  BY <1>3, FirstIn
<1>5. SumFunctionOnSet(f, s \ {First(s)}) \in Int
  BY <1>2, <1>4
<1>6. IsFiniteSet(s)
  BY FS_Subset
<1>7. SumFunctionOnSet(f, s) = f[First(s)] + SumFunctionOnSet(f, s \ {First(s)})
  BY <1>3, <1>6, SumStep
<1> QED BY <1>4, <1>5, <1>7

\* Elements may be taken out in any order.
LEMMA SumTakenOut ==
  ASSUME NEW f, NEW S, IsFiniteSet(S), \A x \in S : f[x] \in Int, NEW e \in S
  PROVE  SumFunctionOnSet(f, S) = f[e] + SumFunctionOnSet(f, S \ {e})
<1> DEFINE sum(s) == SumFunctionOnSet(f, s)
           bad == {s \in SUBSET S : \E x \in s : sum(s) # f[x] + sum(s \ {x})}
<1>1. SUFFICES ASSUME bad # {} PROVE FALSE
  OBVIOUS
<1>2. PICK s \in bad : \A y \in bad : y \subseteq s => y = s
  <2>1. bad \subseteq SUBSET S
    OBVIOUS
  <2> HIDE DEF bad
  <2> QED BY <1>1, <2>1, LeastSubset
<1>f. \A y \in SUBSET S : IsFiniteSet(y)
  BY FS_Subset
<1>n. \A y \in SUBSET S : sum(y) \in Int
  <2>1. ASSUME NEW y \in SUBSET S PROVE sum(y) \in Int
    <3>1. IsFiniteSet(y) /\ \A x \in y : f[x] \in Int
      BY <1>f
    <3> QED BY <3>1, SumInt
  <2> QED BY <2>1
<1>3. PICK x \in s : sum(s) # f[x] + sum(s \ {x})
  OBVIOUS
<1> HIDE DEF sum
<1>s. \A y \in SUBSET S : y # {} => First(y) \in y /\ sum(y) = f[First(y)] + sum(y \ {First(y)})
  <2>1. ASSUME NEW y \in SUBSET S, y # {}
        PROVE  First(y) \in y /\ sum(y) = f[First(y)] + sum(y \ {First(y)})
    BY <1>f, <2>1, FirstIn, SumStep DEF sum
  <2> QED BY <2>1
<1> DEFINE e1 == First(s)
<1>4. s \in SUBSET S /\ e1 \in s /\ sum(s) = f[e1] + sum(s \ {e1})
  BY <1>s, <1>3
<1>5. x # e1
  BY <1>3, <1>4
<1>6. sum(s \ {e1}) = f[x] + sum((s \ {e1}) \ {x})
  BY <1>2, <1>4, <1>5
<1>7. sum(s \ {x}) = f[e1] + sum((s \ {x}) \ {e1})
  BY <1>2, <1>4, <1>5
<1>8. (s \ {x}) \ {e1} = (s \ {e1}) \ {x}
  OBVIOUS
<1>9. /\ f[x] \in Int /\ f[e1] \in Int /\ sum((s \ {e1}) \ {x}) \in Int
  BY <1>4, <1>n
<1> QED
  <2>1. sum(s) = f[e1] + (f[x] + sum((s \ {e1}) \ {x}))
    BY <1>4, <1>6
  <2>2. f[x] + sum(s \ {x}) = f[x] + (f[e1] + sum((s \ {e1}) \ {x}))
    BY <1>7, <1>8
  <2> HIDE DEF e1
  <2> QED BY <1>3, <1>9, <2>1, <2>2

LEMMA SumWithout ==
  ASSUME NEW f, NEW S, IsFiniteSet(S), \A x \in S : f[x] \in Nat, NEW e \in S
  PROVE  SumFunctionOnSet(f, S) = f[e] + SumFunctionOnSet(f, S \ {e})
<1>1. \A x \in S : f[x] \in Int
  OBVIOUS
<1> QED BY <1>1, SumTakenOut

\* Only the values over the set count.
LEMMA SumSame ==
  ASSUME NEW f, NEW g, NEW S, IsFiniteSet(S), \A x \in S : f[x] = g[x]
  PROVE  SumFunctionOnSet(f, S) = SumFunctionOnSet(g, S)
<1> DEFINE bad == {s \in SUBSET S : SumFunctionOnSet(f, s) # SumFunctionOnSet(g, s)}
<1>1. SUFFICES ASSUME bad # {} PROVE FALSE
  OBVIOUS
<1>2. PICK s \in bad : \A y \in bad : y \subseteq s => y = s
  <2>1. bad \subseteq SUBSET S
    OBVIOUS
  <2> HIDE DEF bad
  <2> QED BY <1>1, <2>1, LeastSubset
<1>3. s # {}
  BY SumEmpty
<1>4. First(s) \in s /\ IsFiniteSet(s)
  BY <1>3, FirstIn, FS_Subset
<1>5. SumFunctionOnSet(f, s \ {First(s)}) = SumFunctionOnSet(g, s \ {First(s)})
  BY <1>2, <1>4
<1>6. /\ SumFunctionOnSet(f, s) = f[First(s)] + SumFunctionOnSet(f, s \ {First(s)})
      /\ SumFunctionOnSet(g, s) = g[First(s)] + SumFunctionOnSet(g, s \ {First(s)})
  BY <1>3, <1>4, SumStep
<1> QED BY <1>4, <1>5, <1>6

\* One element more.
LEMMA SumPutIn ==
  ASSUME NEW f, NEW S, IsFiniteSet(S), NEW e, e \notin S, \A x \in S \cup {e} : f[x] \in Int
  PROVE  SumFunctionOnSet(f, S \cup {e}) = SumFunctionOnSet(f, S) + f[e]
<1>1. PICK T : T = S \cup {e}
  OBVIOUS
<1>2. IsFiniteSet(T)
  BY <1>1, FS_AddElement
<1>3. e \in T /\ T \ {e} = S /\ \A x \in T : f[x] \in Int
  BY <1>1
<1>4. SumFunctionOnSet(f, T) = f[e] + SumFunctionOnSet(f, S)
  BY <1>2, <1>3, SumTakenOut
<1>5. SumFunctionOnSet(f, S) \in Int /\ f[e] \in Int
  BY SumInt
<1> QED BY <1>1, <1>4, <1>5

LEMMA SumWith ==
  ASSUME NEW f, NEW S, IsFiniteSet(S), NEW e, e \notin S, \A x \in S \cup {e} : f[x] \in Nat
  PROVE  SumFunctionOnSet(f, S \cup {e}) = SumFunctionOnSet(f, S) + f[e]
<1>1. \A x \in S \cup {e} : f[x] \in Int
  OBVIOUS
<1> QED BY <1>1, SumPutIn

\* One value changed.
LEMMA SumChanged ==
  ASSUME NEW f, NEW g, NEW S, IsFiniteSet(S), \A x \in S : f[x] \in Nat /\ g[x] \in Nat,
         NEW e \in S, \A x \in S \ {e} : f[x] = g[x]
  PROVE  SumFunctionOnSet(g, S) = SumFunctionOnSet(f, S) - f[e] + g[e]
<1>1. IsFiniteSet(S \ {e})
  BY FS_Subset
<1>2. SumFunctionOnSet(f, S \ {e}) = SumFunctionOnSet(g, S \ {e})
  BY <1>1, SumSame
<1>3. /\ SumFunctionOnSet(f, S) = f[e] + SumFunctionOnSet(f, S \ {e})
      /\ SumFunctionOnSet(g, S) = g[e] + SumFunctionOnSet(g, S \ {e})
  BY SumWithout
<1>4. SumFunctionOnSet(f, S \ {e}) \in Nat
  BY <1>1, SumNat
<1> QED BY <1>2, <1>3, <1>4

\* The sum over two sets apart.
LEMMA SumApart ==
  ASSUME NEW f, NEW S, IsFiniteSet(S), NEW T, IsFiniteSet(T), S \cap T = {},
         \A x \in S \cup T : f[x] \in Int
  PROVE  SumFunctionOnSet(f, S \cup T) = SumFunctionOnSet(f, S) + SumFunctionOnSet(f, T)
<1> DEFINE bad == {s \in SUBSET T : SumFunctionOnSet(f, S \cup s)
                                      # SumFunctionOnSet(f, S) + SumFunctionOnSet(f, s)}
<1>1. SUFFICES ASSUME bad # {} PROVE FALSE
  OBVIOUS
<1>2. PICK s \in bad : \A y \in bad : y \subseteq s => y = s
  <2>1. bad \subseteq SUBSET T
    OBVIOUS
  <2> HIDE DEF bad
  <2> QED BY <1>1, <2>1, LeastSubset
<1>3. s \in SUBSET T /\ IsFiniteSet(s)
  BY FS_Subset
<1>4. SumFunctionOnSet(f, S) \in Int
  <2>1. \A x \in S : f[x] \in Int
    OBVIOUS
  <2> QED BY <2>1, SumInt
<1>5. s # {}
  <2>1. S \cup {} = S
    OBVIOUS
  <2>2. SumFunctionOnSet(f, S \cup {}) = SumFunctionOnSet(f, S) + SumFunctionOnSet(f, {})
    BY <1>4, <2>1, SumEmpty
  <2> QED BY <2>2
<1>6. PICK e : e \in s
  BY <1>5
<1>7. PICK r \in SUBSET T : r = s \ {e} /\ IsFiniteSet(r)
  <2>1. IsFiniteSet(s \ {e})
    BY <1>3, FS_Subset
  <2> QED BY <2>1
<1>8. SumFunctionOnSet(f, S \cup r) = SumFunctionOnSet(f, S) + SumFunctionOnSet(f, r)
  BY <1>2, <1>6, <1>7
<1>9. SumFunctionOnSet(f, s) = SumFunctionOnSet(f, r) + f[e]
  <2>1. s = r \cup {e} /\ e \notin r /\ \A x \in r \cup {e} : f[x] \in Int
    BY <1>6, <1>7
  <2> QED BY <1>7, <2>1, SumPutIn
<1>10. SumFunctionOnSet(f, S \cup s) = SumFunctionOnSet(f, S \cup r) + f[e]
  <2>1. PICK R : R = S \cup r
    OBVIOUS
  <2>2. S \cup s = R \cup {e} /\ e \notin R /\ \A x \in R \cup {e} : f[x] \in Int
    BY <1>6, <1>7, <2>1
  <2>3. IsFiniteSet(R)
    BY <1>7, <2>1, FS_Union
  <2> QED BY <2>1, <2>2, <2>3, SumPutIn
<1>11. SumFunctionOnSet(f, r) \in Int /\ f[e] \in Int
  <2>1. \A x \in r : f[x] \in Int
    OBVIOUS
  <2> QED BY <1>6, <1>7, <2>1, SumInt
<1>12. SumFunctionOnSet(f, S \cup s) # SumFunctionOnSet(f, S) + SumFunctionOnSet(f, s)
  BY <1>3
<1> QED BY <1>4, <1>8, <1>9, <1>10, <1>11, <1>12

\* No value is more than the sum.
LEMMA SumAtLeast ==
  ASSUME NEW f, NEW S, IsFiniteSet(S), \A x \in S : f[x] \in Nat, NEW e \in S
  PROVE  f[e] <= SumFunctionOnSet(f, S)
<1>1. SumFunctionOnSet(f, S \ {e}) \in Nat
  BY SumNat, FS_Subset
<1>2. SumFunctionOnSet(f, S) = f[e] + SumFunctionOnSet(f, S \ {e})
  BY SumWithout
<1> QED BY <1>1, <1>2

\* The sum of the sums of two functions.
LEMMA SumAdded ==
  ASSUME NEW f, NEW g, NEW h, NEW S, IsFiniteSet(S),
         \A x \in S : f[x] \in Nat /\ g[x] \in Nat /\ h[x] = f[x] + g[x]
  PROVE  SumFunctionOnSet(h, S) = SumFunctionOnSet(f, S) + SumFunctionOnSet(g, S)
<1> DEFINE F(s) == SumFunctionOnSet(f, s)
           G(s) == SumFunctionOnSet(g, s)
           H(s) == SumFunctionOnSet(h, s)
           bad == {s \in SUBSET S : H(s) # F(s) + G(s)}
<1>1. SUFFICES ASSUME bad # {} PROVE FALSE
  OBVIOUS
<1>2. PICK s \in bad : \A y \in bad : y \subseteq s => y = s
  <2>1. bad \subseteq SUBSET S
    OBVIOUS
  <2> HIDE DEF bad
  <2> QED BY <1>1, <2>1, LeastSubset
<1>3. s # {}
  <2>1. F({}) = 0 /\ G({}) = 0 /\ H({}) = 0
    BY SumEmpty
  <2>2. s = {} => H(s) = 0 /\ F(s) = 0 /\ G(s) = 0
    BY <2>1
  <2>3. H(s) # F(s) + G(s)
    OBVIOUS
  <2> HIDE DEF F, G, H, bad
  <2> QED BY <2>2, <2>3
<1> DEFINE e == First(s)
           r == s \ {e}
<1>4. e \in s /\ IsFiniteSet(s) /\ IsFiniteSet(r)
  BY <1>3, FirstIn, FS_Subset
<1>5. H(r) = F(r) + G(r)
  BY <1>2, <1>4
<1>6. /\ F(s) = f[e] + F(r) /\ G(s) = g[e] + G(r) /\ H(s) = h[e] + H(r)
  BY <1>3, <1>4, SumStep
<1>7. F(r) \in Nat /\ G(r) \in Nat
  <2>1. \A x \in r : f[x] \in Nat /\ g[x] \in Nat
    OBVIOUS
  <2> HIDE DEF r
  <2> QED BY <1>4, <2>1, SumNat
<1>8. f[e] \in Nat /\ g[e] \in Nat /\ h[e] = f[e] + g[e]
  BY <1>4
<1>9. H(s) # F(s) + G(s)
  OBVIOUS
<1> HIDE DEF F, G, H, e, r
<1> QED BY <1>5, <1>6, <1>7, <1>8, <1>9

(***************************************************************************)
(* Folds over sequences                                                    *)
(*                                                                         *)
(* FoldLeft of the community modules is a recursive function too: over the *)
(* sets of indices, the greatest of a set last.  No lemma can be stated of *)
(* every operator that is folded; these are stated of the function f that  *)
(* takes an index and what was gathered so far, and each fold has a short  *)
(* lemma that applies them to its operator.                                *)
(***************************************************************************)

\* The greatest of a set of indices.
Top(s) == CHOOSE x \in s : \A y \in s : x >= y

\* What holds at 0 and goes on from one number to the next holds up to n.
LEMMA Upwards ==
  ASSUME NEW n \in Nat, NEW P, 0 \in P, \A i \in 1..n : i - 1 \in P => i \in P
  PROVE  \A i \in 0..n : i \in P
<1> DEFINE bad == (0..n) \ P
<1>1. SUFFICES ASSUME bad # {} PROVE FALSE
  OBVIOUS
<1>2. PICK i \in bad : \A j \in bad : i <= j
  <2>1. bad \subseteq 0..n
    OBVIOUS
  <2> HIDE DEF bad
  <2> QED BY <1>1, <2>1, LeastNumber
<1>3. i # 0 /\ i \in 1..n /\ i - 1 \in 0..n /\ i - 1 < i
  OBVIOUS
<1>4. i - 1 \in P
  BY <1>2, <1>3
<1> QED BY <1>3, <1>4

LEMMA TopIn ==
  ASSUME NEW n \in Nat, NEW s \in SUBSET (1..n), s # {}
  PROVE  /\ Top(s) \in s /\ Top(s) \in 1..n
         /\ s \ {Top(s)} \in SUBSET (1..n) /\ s \ {Top(s)} \in SUBSET s /\ s \ {Top(s)} # s
<1>1. s \subseteq 0..n
  OBVIOUS
<1>2. \E x \in s : \A y \in s : x >= y
  <2> HIDE <1>1
  <2> QED BY <1>1, GreatestNumber
<1>3. Top(s) \in s
  BY <1>2 DEF Top
<1> QED BY <1>3

LEMMA TopOfInterval ==
  ASSUME NEW n \in Nat, NEW i \in 1..n
  PROVE  /\ 1..i \in SUBSET (1..n) /\ 1..i # {}
         /\ Top(1..i) = i /\ (1..i) \ {i} = 1..(i - 1)
<1>1. 1..i \in SUBSET (1..n) /\ i \in 1..i
  OBVIOUS
<1>2. \A y \in 1..i : i >= y
  OBVIOUS
<1>3. \E x \in 1..i : \A y \in 1..i : x >= y
  BY <1>1, <1>2
<1>4. Top(1..i) \in 1..i /\ \A y \in 1..i : Top(1..i) >= y
  BY <1>3 DEF Top
<1>5. Top(1..i) >= i /\ Top(1..i) <= i /\ Top(1..i) \in Int
  BY <1>1, <1>4
<1>6. (1..i) \ {i} = 1..(i - 1)
  OBVIOUS
<1> QED BY <1>1, <1>5, <1>6

\* The step f at each index is from T to T.
Steps(f, T, n) == n \in Nat /\ \A i \in 1..n : \A t \in T : f[i][t] \in T

\* It runs over every set of indices.
Runs(f, T, base, S, g) ==
  /\ g \in [SUBSET S -> T]
  /\ g[{}] = base
  /\ \A s \in SUBSET S : s # {} => g[s] = f[Top(s)][g[s \ {Top(s)}]]

Indexes(n, S) == n \in Nat /\ S \subseteq 1..n

LEMMA FewIndexes ==
  ASSUME NEW n, NEW S, Indexes(n, S)
  PROVE  IsFiniteSet(S)
<1>1. IsFiniteSet(1..n)
  BY FS_Interval DEF Indexes
<1> QED BY <1>1, FS_Subset DEF Indexes

RunsUpTo(f, T, base, n, g) == Runs(f, T, base, 1..n, g)

LEMMA RunsAgree ==
  ASSUME NEW n, NEW S, NEW R, Indexes(n, S), Indexes(n, R),
         NEW f, NEW T, NEW base, NEW g, NEW h, Runs(f, T, base, S, g), Runs(f, T, base, R, h)
  PROVE  \A s \in (SUBSET S) \cap (SUBSET R) : g[s] = h[s]
<1> DEFINE bad == {s \in (SUBSET S) \cap (SUBSET R) : g[s] # h[s]}
<1>1. SUFFICES ASSUME bad # {} PROVE FALSE
  OBVIOUS
<1>2. PICK s \in bad : \A y \in bad : y \subseteq s => y = s
  <2>1. bad \subseteq SUBSET S
    OBVIOUS
  <2>2. IsFiniteSet(S)
    BY FewIndexes
  <2> HIDE DEF bad
  <2> QED BY <1>1, <2>1, <2>2, LeastSubset
<1>3. s \in SUBSET S /\ s \in SUBSET R /\ s \in SUBSET (1..n)
  BY DEF Indexes
<1>4. s # {}
  BY DEF Runs
<1>5. Top(s) \in s
  BY <1>3, <1>4, TopIn DEF Indexes
<1>6. s \ {Top(s)} \notin bad
  BY <1>2, <1>5
<1>7. g[s \ {Top(s)}] = h[s \ {Top(s)}]
  BY <1>3, <1>6
<1>8. g[s] = f[Top(s)][g[s \ {Top(s)}]] /\ h[s] = f[Top(s)][h[s \ {Top(s)}]]
  BY <1>3, <1>4 DEF Runs
<1> QED BY <1>7, <1>8

LEMMA RunExists ==
  ASSUME NEW n, NEW T, NEW base, NEW f, base \in T, Steps(f, T, n)
  PROVE  \E g : RunsUpTo(f, T, base, n, g)
<1>n. n \in Nat /\ \A i \in 1..n : \A t \in T : f[i][t] \in T
  BY DEF Steps
<1> DEFINE bad == {s \in SUBSET (1..n) : ~ \E g : Runs(f, T, base, s, g)}
<1>1. SUFFICES ASSUME bad # {} PROVE FALSE
  BY DEF RunsUpTo
<1>2. PICK s \in bad : \A y \in bad : y \subseteq s => y = s
  <2>1. PICK S : S = 1..n
    OBVIOUS
  <2>2. IsFiniteSet(S)
    BY <1>n, <2>1, FS_Interval
  <2>3. bad \subseteq SUBSET S
    BY <2>1
  <2> HIDE DEF bad
  <2> QED BY <1>1, <2>2, <2>3, LeastSubset
<1>3. s \in SUBSET (1..n)
  OBVIOUS
<1>4. \A y \in SUBSET s : y # s => y \in SUBSET (1..n) /\ \E g : Runs(f, T, base, y, g)
  BY <1>2, <1>3
<1> DEFINE run(y) == CHOOSE g : Runs(f, T, base, y, g)
           part(y) == run(y)[y]
           whole == [y \in SUBSET s |->
                       IF y = {} THEN base ELSE f[Top(y)][part(y \ {Top(y)})]]
<1>5. \A y \in SUBSET s : y # s => Runs(f, T, base, y, run(y))
  BY <1>4
<1>t. \A y \in SUBSET s : y # {} =>
        /\ Top(y) \in y /\ Top(y) \in 1..n
        /\ y \ {Top(y)} \in SUBSET s /\ y \ {Top(y)} # s
        /\ y \ {Top(y)} \in SUBSET y
  <2> SUFFICES ASSUME NEW y \in SUBSET s, y # {}
               PROVE  /\ Top(y) \in y /\ Top(y) \in 1..n
                      /\ y \ {Top(y)} \in SUBSET s /\ y \ {Top(y)} # s
                      /\ y \ {Top(y)} \in SUBSET y
    OBVIOUS
  <2>1. y \in SUBSET (1..n)
    BY <1>3
  <2>2. Top(y) \in y /\ Top(y) \in 1..n
    BY <1>n, <2>1, TopIn
  <2> QED BY <2>2
<1> HIDE DEF run
<1>6. \A y \in SUBSET s : y # s => part(y) \in T
  <2> SUFFICES ASSUME NEW y \in SUBSET s, y # s PROVE part(y) \in T
    OBVIOUS
  <2>1. Runs(f, T, base, y, run(y))
    BY <1>5
  <2>2. run(y) \in [SUBSET y -> T] /\ y \in SUBSET y
    BY <2>1 DEF Runs
  <2> QED BY <2>2
<1>7. ASSUME NEW y \in SUBSET s, y # s
      PROVE  part(y) = IF y = {} THEN base ELSE f[Top(y)][part(y \ {Top(y)})]
  <2>1. Runs(f, T, base, y, run(y))
    BY <1>5, <1>7
  <2>2. CASE y = {}
    BY <2>1, <2>2 DEF Runs
  <2>3. CASE y # {}
    <3>1. PICK z : z = y \ {Top(y)}
      OBVIOUS
    <3>2. z \in SUBSET s /\ z # s /\ z \in SUBSET y /\ z \in SUBSET (1..n) /\ y \in SUBSET (1..n)
      BY <1>3, <1>t, <2>3, <3>1
    <3>3. Runs(f, T, base, z, run(z))
      BY <1>5, <3>2
    <3>4. run(y)[z] = run(z)[z]
      <4>1. z \in (SUBSET y) \cap (SUBSET z)
        BY <3>2
      <4>2. Indexes(n, y) /\ Indexes(n, z)
        BY <1>n, <3>2 DEF Indexes
      <4> QED BY <4>1, <4>2, <2>1, <3>3, RunsAgree
    <3>5. run(y)[y] = f[Top(y)][run(y)[z]]
      BY <2>1, <2>3, <3>1 DEF Runs
    <3> QED BY <2>3, <3>1, <3>4, <3>5
  <2> QED BY <2>2, <2>3
<1> HIDE DEF part
<1>8. \A y \in SUBSET s : whole[y] \in T
  <2> SUFFICES ASSUME NEW y \in SUBSET s PROVE whole[y] \in T
    OBVIOUS
  <2>1. CASE y = {}
    BY <2>1
  <2>2. CASE y # {}
    <3>1. PICK z, i : z = y \ {Top(y)} /\ i = Top(y)
      OBVIOUS
    <3>2. z \in SUBSET s /\ z # s /\ i \in 1..n
      BY <1>t, <2>2, <3>1
    <3>3. part(z) \in T
      BY <1>6, <3>2
    <3>4. f[i][part(z)] \in T
      BY <1>n, <3>2, <3>3
    <3> QED BY <2>2, <3>1, <3>4
  <2> QED BY <2>1, <2>2
<1>9. \A y \in SUBSET s : y # s => whole[y] = part(y)
  BY <1>7
<1>10. \A y \in SUBSET s : y # {} => whole[y] = f[Top(y)][whole[y \ {Top(y)}]]
  <2> SUFFICES ASSUME NEW y \in SUBSET s, y # {}
               PROVE  whole[y] = f[Top(y)][whole[y \ {Top(y)}]]
    OBVIOUS
  <2>1. y \ {Top(y)} \in SUBSET s /\ y \ {Top(y)} # s
    BY <1>t
  <2>2. whole[y \ {Top(y)}] = part(y \ {Top(y)})
    BY <1>9, <2>1
  <2>3. whole[y] = f[Top(y)][part(y \ {Top(y)})]
    OBVIOUS
  <2> HIDE DEF whole
  <2> QED BY <2>2, <2>3
<1>11. Runs(f, T, base, s, whole)
  <2>1. whole[{}] = base /\ whole = [y \in SUBSET s |-> whole[y]]
    OBVIOUS
  <2> HIDE DEF whole
  <2>2. whole \in [SUBSET s -> T]
    BY <1>8, <2>1
  <2> QED BY <1>10, <2>1, <2>2 DEF Runs
<1> QED BY <1>2, <1>11

\* h is a run as far as it stays in T, and G what it has gathered after each index.
Unfolds(f, T, base, n, h) ==
  /\ h[{}] = base
  /\ \A s \in SUBSET (1..n) :
       s # {} /\ h[s \ {Top(s)}] \in T => h[s] = f[Top(s)][h[s \ {Top(s)}]]

Walks(f, T, base, n, G) ==
  G \in [0..n -> T] /\ G[0] = base /\ \A i \in 1..n : G[i] = f[i][G[i - 1]]

LEMMA RunOneByOne ==
  ASSUME NEW n, NEW T, NEW base, NEW f, NEW h, base \in T, Steps(f, T, n),
         Unfolds(f, T, base, n, h)
  PROVE  \E G : Walks(f, T, base, n, G) /\ G[n] = h[1..n]
<1>n. n \in Nat /\ \A i \in 1..n : \A t \in T : f[i][t] \in T
  BY DEF Steps
<1>h. /\ h[{}] = base
      /\ \A s \in SUBSET (1..n) :
           s # {} /\ h[s \ {Top(s)}] \in T => h[s] = f[Top(s)][h[s \ {Top(s)}]]
  BY DEF Unfolds
<1> DEFINE G == [i \in 0..n |-> h[1..i]]
           P == {i \in 0..n : h[1..i] \in T}
<1>1. h[1..0] = base
  <2>1. 1..0 = {}
    OBVIOUS
  <2> QED BY <1>h, <2>1
<1>2. ASSUME NEW i \in 1..n, i - 1 \in P
      PROVE  h[1..i] = f[i][h[1..(i - 1)]] /\ i \in P
  <2>1. 1..i \in SUBSET (1..n) /\ 1..i # {} /\ Top(1..i) = i /\ (1..i) \ {i} = 1..(i - 1)
    BY <1>n, TopOfInterval
  <2>2. h[1..(i - 1)] \in T
    BY <1>2
  <2>3. PICK s : s = 1..i
    OBVIOUS
  <2>4. s \in SUBSET (1..n) /\ s # {} /\ Top(s) = i /\ s \ {Top(s)} = 1..(i - 1)
    BY <2>1, <2>3
  <2>5. h[s] = f[Top(s)][h[s \ {Top(s)}]]
    BY <1>h, <2>2, <2>4
  <2>6. h[1..i] = f[i][h[1..(i - 1)]]
    BY <2>3, <2>4, <2>5
  <2>7. h[1..i] \in T
    BY <1>n, <2>2, <2>6
  <2>8. i \in 0..n
    BY <1>n
  <2> QED BY <2>6, <2>7, <2>8
<1>3. \A i \in 0..n : i \in P
  <2>1. 0 \in P
    BY <1>1, <1>n
  <2>2. \A i \in 1..n : i - 1 \in P => i \in P
    BY <1>2
  <2> HIDE DEF P
  <2> QED BY <1>n, <2>1, <2>2, Upwards
<1>4. \A i \in 0..n : h[1..i] \in T
  BY <1>3
<1>5. \A i \in 1..n : h[1..i] = f[i][h[1..(i - 1)]]
  <2>1. \A i \in 1..n : i - 1 \in 0..n
    BY <1>n
  <2> HIDE DEF P
  <2> QED BY <1>2, <1>3, <2>1
<1>6. G \in [0..n -> T]
  BY <1>4
<1>7. G[0] = base /\ G[n] = h[1..n] /\ \A i \in 1..n : G[i] = h[1..i] /\ G[i - 1] = h[1..(i - 1)]
  BY <1>1, <1>n
<1> HIDE DEF G
<1> QED BY <1>5, <1>6, <1>7 DEF Walks

=============================================================================
