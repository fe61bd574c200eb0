---------------------------- MODULE Signals_proofs -----------------------------
(***************************************************************************)
(* What is proved of the signals, for every set of places, every width of  *)
(* world and every number of ships.                                        *)
(*                                                                         *)
(* First the tree.  A search finds exactly what overlaps the box that is   *)
(* searched for, each thing once (Complete of Signals), for any boxes,     *)
(* capacity and region.  The argument is an invariant of the tree as it    *)
(* grows (Holds): every entry so far lies in exactly one place, that of a  *)
(* child only if the child's box encloses it.  A search passes a node by   *)
(* only if the node's box, and so everything in it, is off the region.     *)
(*                                                                         *)
(* Then the air.  The argument is an invariant of the arcs on their way    *)
(* (OfTheAir): each has the shape of an arc with a sector and a power, and *)
(* each that carries a message lies on the ring that light from its        *)
(* posting has reached, with the message's own words (Told).  What bodies  *)
(* hide of a sector is cut from it, all of that and nothing else (Swept),  *)
(* the pieces are in order and fill the sector (Fills), and the shares of  *)
(* its power cannot add up to more than it (SharesAdd).                    *)
(***************************************************************************)
EXTENDS Signals, SumLemmas

(***************************************************************************)
(* The loops                                                               *)
(***************************************************************************)

\* The box round all boxes, one after the other.
JoinFold(base, seq) == FoldLeft(Joined, base, seq)

JoinSums(base, seq, h) ==
  h = [s \in SUBSET (DOMAIN seq) |->
         IF s = {} THEN base ELSE Joined(h[s \ {Max(s)}], seq[Max(s)])]

JoinWalk(T, base, seq, G) ==
  /\ G \in [0..Len(seq) -> T] /\ G[0] = base
  /\ \A i \in 1..Len(seq) : G[i] = Joined(G[i - 1], seq[i])

LEMMA JoinWalks ==
  ASSUME NEW S, NEW seq \in Seq(S), NEW T, NEW base \in T,
         \A e \in S : \A t \in T : Joined(t, e) \in T
  PROVE  \E G : /\ JoinWalk(T, base, seq, G)
               /\ JoinFold(base, seq) = G[Len(seq)]
<1>1. PICK n \in Nat : n = Len(seq) /\ DOMAIN seq = 1..n /\ \A i \in 1..n : seq[i] \in S
  OBVIOUS
<1> DEFINE f == [i \in 1..n |-> [t \in T |-> Joined(t, seq[i])]]
<1>2. \A i \in 1..n : \A t \in T : f[i][t] = Joined(t, seq[i]) /\ f[i][t] \in T
  BY <1>1
<1> HIDE DEF f
<1>3. Steps(f, T, n)
  BY <1>2 DEF Steps
<1>4. PICK g : RunsUpTo(f, T, base, n, g)
  BY <1>3, RunExists
<1>5. JoinSums(base, seq, g)
  <2>1. ASSUME NEW s \in SUBSET (1..n), s # {}
        PROVE  g[s] = Joined(g[s \ {Max(s)}], seq[Max(s)])
    <3>1. Top(s) = Max(s)
      BY DEF Top, Max
    <3>2. Top(s) \in 1..n /\ s \ {Top(s)} \in SUBSET (1..n)
      BY <2>1, TopIn
    <3>3. g[s \ {Top(s)}] \in T
      BY <1>4, <3>2 DEF Runs, RunsUpTo
    <3>4. g[s] = f[Top(s)][g[s \ {Top(s)}]]
      BY <1>4, <2>1 DEF Runs, RunsUpTo
    <3> QED BY <1>2, <3>1, <3>2, <3>3, <3>4
  <2>2. g = [s \in SUBSET (1..n) |-> g[s]] /\ g[{}] = base
    BY <1>4 DEF Runs, RunsUpTo
  <2> QED BY <1>1, <2>1, <2>2 DEF JoinSums
<1> DEFINE h == CHOOSE c : JoinSums(base, seq, c)
<1>6. JoinSums(base, seq, h)
  BY <1>5
<1>7. JoinFold(base, seq) = h[1..n]
  BY <1>1 DEF JoinFold, FoldLeft, MapThenFoldSet, JoinSums
<1> HIDE DEF h
<1>8. Unfolds(f, T, base, n, h)
  <2>1. \A s \in SUBSET (1..n) :
          h[s] = IF s = {} THEN base ELSE Joined(h[s \ {Max(s)}], seq[Max(s)])
    <3>1. h = [s \in SUBSET (1..n) |->
                 IF s = {} THEN base ELSE Joined(h[s \ {Max(s)}], seq[Max(s)])]
      BY <1>1, <1>6 DEF JoinSums
    <3> QED BY <3>1
  <2>2. ASSUME NEW s \in SUBSET (1..n), s # {}, h[s \ {Top(s)}] \in T
        PROVE  h[s] = f[Top(s)][h[s \ {Top(s)}]]
    <3>1. Top(s) = Max(s)
      BY DEF Top, Max
    <3>2. Top(s) \in 1..n
      BY <2>2, TopIn
    <3>3. PICK i, t : i = Top(s) /\ t = h[s \ {Top(s)}]
      OBVIOUS
    <3>4. h[s] = Joined(t, seq[i])
      BY <2>1, <2>2, <3>1, <3>3
    <3>5. f[i][t] = Joined(t, seq[i])
      BY <1>2, <2>2, <3>2, <3>3
    <3> QED BY <3>3, <3>4, <3>5
  <2>3. h[{}] = base
    BY <2>1
  <2> QED BY <2>2, <2>3 DEF Unfolds
<1>9. PICK G : Walks(f, T, base, n, G) /\ G[n] = h[1..n]
  BY <1>3, <1>8, RunOneByOne
<1>10. JoinWalk(T, base, seq, G)
  <2>1. \A i \in 1..n : G[i - 1] \in T
    <3>1. \A i \in 1..n : i - 1 \in 0..n
      OBVIOUS
    <3> QED BY <1>9, <3>1 DEF Walks
  <2>2. \A i \in 1..n : G[i] = Joined(G[i - 1], seq[i])
    BY <1>2, <1>9, <2>1 DEF Walks
  <2> QED BY <1>1, <1>9, <2>2 DEF Walks, JoinWalk
<1> QED BY <1>1, <1>7, <1>9, <1>10

\* What was in the root goes into the children when it is split.
ShareFold(base, seq) == FoldLeft(InsertedInChild, base, seq)

ShareSums(base, seq, h) ==
  h = [s \in SUBSET (DOMAIN seq) |->
         IF s = {} THEN base ELSE InsertedInChild(h[s \ {Max(s)}], seq[Max(s)])]

ShareWalk(T, base, seq, G) ==
  /\ G \in [0..Len(seq) -> T] /\ G[0] = base
  /\ \A i \in 1..Len(seq) : G[i] = InsertedInChild(G[i - 1], seq[i])

LEMMA ShareWalks ==
  ASSUME NEW S, NEW seq \in Seq(S), NEW T, NEW base \in T,
         \A e \in S : \A t \in T : InsertedInChild(t, e) \in T
  PROVE  \E G : /\ ShareWalk(T, base, seq, G)
               /\ ShareFold(base, seq) = G[Len(seq)]
<1>1. PICK n \in Nat : n = Len(seq) /\ DOMAIN seq = 1..n /\ \A i \in 1..n : seq[i] \in S
  OBVIOUS
<1> DEFINE f == [i \in 1..n |-> [t \in T |-> InsertedInChild(t, seq[i])]]
<1>2. \A i \in 1..n : \A t \in T : f[i][t] = InsertedInChild(t, seq[i]) /\ f[i][t] \in T
  BY <1>1
<1> HIDE DEF f
<1>3. Steps(f, T, n)
  BY <1>2 DEF Steps
<1>4. PICK g : RunsUpTo(f, T, base, n, g)
  BY <1>3, RunExists
<1>5. ShareSums(base, seq, g)
  <2>1. ASSUME NEW s \in SUBSET (1..n), s # {}
        PROVE  g[s] = InsertedInChild(g[s \ {Max(s)}], seq[Max(s)])
    <3>1. Top(s) = Max(s)
      BY DEF Top, Max
    <3>2. Top(s) \in 1..n /\ s \ {Top(s)} \in SUBSET (1..n)
      BY <2>1, TopIn
    <3>3. g[s \ {Top(s)}] \in T
      BY <1>4, <3>2 DEF Runs, RunsUpTo
    <3>4. g[s] = f[Top(s)][g[s \ {Top(s)}]]
      BY <1>4, <2>1 DEF Runs, RunsUpTo
    <3> QED BY <1>2, <3>1, <3>2, <3>3, <3>4
  <2>2. g = [s \in SUBSET (1..n) |-> g[s]] /\ g[{}] = base
    BY <1>4 DEF Runs, RunsUpTo
  <2> QED BY <1>1, <2>1, <2>2 DEF ShareSums
<1> DEFINE h == CHOOSE c : ShareSums(base, seq, c)
<1>6. ShareSums(base, seq, h)
  BY <1>5
<1>7. ShareFold(base, seq) = h[1..n]
  BY <1>1 DEF ShareFold, FoldLeft, MapThenFoldSet, ShareSums
<1> HIDE DEF h
<1>8. Unfolds(f, T, base, n, h)
  <2>1. \A s \in SUBSET (1..n) :
          h[s] = IF s = {} THEN base ELSE InsertedInChild(h[s \ {Max(s)}], seq[Max(s)])
    <3>1. h = [s \in SUBSET (1..n) |->
                 IF s = {} THEN base ELSE InsertedInChild(h[s \ {Max(s)}], seq[Max(s)])]
      BY <1>1, <1>6 DEF ShareSums
    <3> QED BY <3>1
  <2>2. ASSUME NEW s \in SUBSET (1..n), s # {}, h[s \ {Top(s)}] \in T
        PROVE  h[s] = f[Top(s)][h[s \ {Top(s)}]]
    <3>1. Top(s) = Max(s)
      BY DEF Top, Max
    <3>2. Top(s) \in 1..n
      BY <2>2, TopIn
    <3>3. PICK i, t : i = Top(s) /\ t = h[s \ {Top(s)}]
      OBVIOUS
    <3>4. h[s] = InsertedInChild(t, seq[i])
      BY <2>1, <2>2, <3>1, <3>3
    <3>5. f[i][t] = InsertedInChild(t, seq[i])
      BY <1>2, <2>2, <3>2, <3>3
    <3> QED BY <3>3, <3>4, <3>5
  <2>3. h[{}] = base
    BY <2>1
  <2> QED BY <2>2, <2>3 DEF Unfolds
<1>9. PICK G : Walks(f, T, base, n, G) /\ G[n] = h[1..n]
  BY <1>3, <1>8, RunOneByOne
<1>10. ShareWalk(T, base, seq, G)
  <2>1. \A i \in 1..n : G[i - 1] \in T
    <3>1. \A i \in 1..n : i - 1 \in 0..n
      OBVIOUS
    <3> QED BY <1>9, <3>1 DEF Walks
  <2>2. \A i \in 1..n : G[i] = InsertedInChild(G[i - 1], seq[i])
    BY <1>2, <1>9, <2>1 DEF Walks
  <2> QED BY <1>1, <1>9, <2>2 DEF Walks, ShareWalk
<1> QED BY <1>1, <1>7, <1>9, <1>10

\* Entry after entry goes into the tree.
GrowFold(capacity, base, seq) == FoldLeft(LAMBDA t, e : Inserted(capacity, t, e), base, seq)

GrowSums(capacity, base, seq, h) ==
  h = [s \in SUBSET (DOMAIN seq) |->
         IF s = {} THEN base ELSE Inserted(capacity, h[s \ {Max(s)}], seq[Max(s)])]

GrowWalk(capacity, T, base, seq, G) ==
  /\ G \in [0..Len(seq) -> T] /\ G[0] = base
  /\ \A i \in 1..Len(seq) : G[i] = Inserted(capacity, G[i - 1], seq[i])

LEMMA GrowWalks ==
  ASSUME NEW capacity, NEW S, NEW seq \in Seq(S), NEW T, NEW base \in T,
         \A e \in S : \A t \in T : Inserted(capacity, t, e) \in T
  PROVE  \E G : /\ GrowWalk(capacity, T, base, seq, G)
               /\ GrowFold(capacity, base, seq) = G[Len(seq)]
<1>1. PICK n \in Nat : n = Len(seq) /\ DOMAIN seq = 1..n /\ \A i \in 1..n : seq[i] \in S
  OBVIOUS
<1> DEFINE f == [i \in 1..n |-> [t \in T |-> Inserted(capacity, t, seq[i])]]
<1>2. \A i \in 1..n : \A t \in T : f[i][t] = Inserted(capacity, t, seq[i]) /\ f[i][t] \in T
  BY <1>1
<1> HIDE DEF f
<1>3. Steps(f, T, n)
  BY <1>2 DEF Steps
<1>4. PICK g : RunsUpTo(f, T, base, n, g)
  BY <1>3, RunExists
<1>5. GrowSums(capacity, base, seq, g)
  <2>1. ASSUME NEW s \in SUBSET (1..n), s # {}
        PROVE  g[s] = Inserted(capacity, g[s \ {Max(s)}], seq[Max(s)])
    <3>1. Top(s) = Max(s)
      BY DEF Top, Max
    <3>2. Top(s) \in 1..n /\ s \ {Top(s)} \in SUBSET (1..n)
      BY <2>1, TopIn
    <3>3. g[s \ {Top(s)}] \in T
      BY <1>4, <3>2 DEF Runs, RunsUpTo
    <3>4. g[s] = f[Top(s)][g[s \ {Top(s)}]]
      BY <1>4, <2>1 DEF Runs, RunsUpTo
    <3> QED BY <1>2, <3>1, <3>2, <3>3, <3>4
  <2>2. g = [s \in SUBSET (1..n) |-> g[s]] /\ g[{}] = base
    BY <1>4 DEF Runs, RunsUpTo
  <2> QED BY <1>1, <2>1, <2>2 DEF GrowSums
<1> DEFINE h == CHOOSE c : GrowSums(capacity, base, seq, c)
<1>6. GrowSums(capacity, base, seq, h)
  BY <1>5
<1>7. GrowFold(capacity, base, seq) = h[1..n]
  BY <1>1 DEF GrowFold, FoldLeft, MapThenFoldSet, GrowSums
<1> HIDE DEF h
<1>8. Unfolds(f, T, base, n, h)
  <2>1. \A s \in SUBSET (1..n) :
          h[s] = IF s = {} THEN base ELSE Inserted(capacity, h[s \ {Max(s)}], seq[Max(s)])
    <3>1. h = [s \in SUBSET (1..n) |->
                 IF s = {} THEN base ELSE Inserted(capacity, h[s \ {Max(s)}], seq[Max(s)])]
      BY <1>1, <1>6 DEF GrowSums
    <3> QED BY <3>1
  <2>2. ASSUME NEW s \in SUBSET (1..n), s # {}, h[s \ {Top(s)}] \in T
        PROVE  h[s] = f[Top(s)][h[s \ {Top(s)}]]
    <3>1. Top(s) = Max(s)
      BY DEF Top, Max
    <3>2. Top(s) \in 1..n
      BY <2>2, TopIn
    <3>3. PICK i, t : i = Top(s) /\ t = h[s \ {Top(s)}]
      OBVIOUS
    <3>4. h[s] = Inserted(capacity, t, seq[i])
      BY <2>1, <2>2, <3>1, <3>3
    <3>5. f[i][t] = Inserted(capacity, t, seq[i])
      BY <1>2, <2>2, <3>2, <3>3
    <3> QED BY <3>3, <3>4, <3>5
  <2>3. h[{}] = base
    BY <2>1
  <2> QED BY <2>2, <2>3 DEF Unfolds
<1>9. PICK G : Walks(f, T, base, n, G) /\ G[n] = h[1..n]
  BY <1>3, <1>8, RunOneByOne
<1>10. GrowWalk(capacity, T, base, seq, G)
  <2>1. \A i \in 1..n : G[i - 1] \in T
    <3>1. \A i \in 1..n : i - 1 \in 0..n
      OBVIOUS
    <3> QED BY <1>9, <3>1 DEF Walks
  <2>2. \A i \in 1..n : G[i] = Inserted(capacity, G[i - 1], seq[i])
    BY <1>2, <1>9, <2>1 DEF Walks
  <2> QED BY <1>1, <1>9, <2>2 DEF Walks, GrowWalk
<1> QED BY <1>1, <1>7, <1>9, <1>10

\* A search goes over the entries of a node.
NoteFold(region, base, seq) == FoldLeft(LAMBDA t, e : Noted(region, t, e), base, seq)

NoteSums(region, base, seq, h) ==
  h = [s \in SUBSET (DOMAIN seq) |->
         IF s = {} THEN base ELSE Noted(region, h[s \ {Max(s)}], seq[Max(s)])]

NoteWalk(region, T, base, seq, G) ==
  /\ G \in [0..Len(seq) -> T] /\ G[0] = base
  /\ \A i \in 1..Len(seq) : G[i] = Noted(region, G[i - 1], seq[i])

LEMMA NoteWalks ==
  ASSUME NEW region, NEW S, NEW seq \in Seq(S), NEW T, NEW base \in T,
         \A e \in S : \A t \in T : Noted(region, t, e) \in T
  PROVE  \E G : /\ NoteWalk(region, T, base, seq, G)
               /\ NoteFold(region, base, seq) = G[Len(seq)]
<1>1. PICK n \in Nat : n = Len(seq) /\ DOMAIN seq = 1..n /\ \A i \in 1..n : seq[i] \in S
  OBVIOUS
<1> DEFINE f == [i \in 1..n |-> [t \in T |-> Noted(region, t, seq[i])]]
<1>2. \A i \in 1..n : \A t \in T : f[i][t] = Noted(region, t, seq[i]) /\ f[i][t] \in T
  BY <1>1
<1> HIDE DEF f
<1>3. Steps(f, T, n)
  BY <1>2 DEF Steps
<1>4. PICK g : RunsUpTo(f, T, base, n, g)
  BY <1>3, RunExists
<1>5. NoteSums(region, base, seq, g)
  <2>1. ASSUME NEW s \in SUBSET (1..n), s # {}
        PROVE  g[s] = Noted(region, g[s \ {Max(s)}], seq[Max(s)])
    <3>1. Top(s) = Max(s)
      BY DEF Top, Max
    <3>2. Top(s) \in 1..n /\ s \ {Top(s)} \in SUBSET (1..n)
      BY <2>1, TopIn
    <3>3. g[s \ {Top(s)}] \in T
      BY <1>4, <3>2 DEF Runs, RunsUpTo
    <3>4. g[s] = f[Top(s)][g[s \ {Top(s)}]]
      BY <1>4, <2>1 DEF Runs, RunsUpTo
    <3> QED BY <1>2, <3>1, <3>2, <3>3, <3>4
  <2>2. g = [s \in SUBSET (1..n) |-> g[s]] /\ g[{}] = base
    BY <1>4 DEF Runs, RunsUpTo
  <2> QED BY <1>1, <2>1, <2>2 DEF NoteSums
<1> DEFINE h == CHOOSE c : NoteSums(region, base, seq, c)
<1>6. NoteSums(region, base, seq, h)
  BY <1>5
<1>7. NoteFold(region, base, seq) = h[1..n]
  BY <1>1 DEF NoteFold, FoldLeft, MapThenFoldSet, NoteSums
<1> HIDE DEF h
<1>8. Unfolds(f, T, base, n, h)
  <2>1. \A s \in SUBSET (1..n) :
          h[s] = IF s = {} THEN base ELSE Noted(region, h[s \ {Max(s)}], seq[Max(s)])
    <3>1. h = [s \in SUBSET (1..n) |->
                 IF s = {} THEN base ELSE Noted(region, h[s \ {Max(s)}], seq[Max(s)])]
      BY <1>1, <1>6 DEF NoteSums
    <3> QED BY <3>1
  <2>2. ASSUME NEW s \in SUBSET (1..n), s # {}, h[s \ {Top(s)}] \in T
        PROVE  h[s] = f[Top(s)][h[s \ {Top(s)}]]
    <3>1. Top(s) = Max(s)
      BY DEF Top, Max
    <3>2. Top(s) \in 1..n
      BY <2>2, TopIn
    <3>3. PICK i, t : i = Top(s) /\ t = h[s \ {Top(s)}]
      OBVIOUS
    <3>4. h[s] = Noted(region, t, seq[i])
      BY <2>1, <2>2, <3>1, <3>3
    <3>5. f[i][t] = Noted(region, t, seq[i])
      BY <1>2, <2>2, <3>2, <3>3
    <3> QED BY <3>3, <3>4, <3>5
  <2>3. h[{}] = base
    BY <2>1
  <2> QED BY <2>2, <2>3 DEF Unfolds
<1>9. PICK G : Walks(f, T, base, n, G) /\ G[n] = h[1..n]
  BY <1>3, <1>8, RunOneByOne
<1>10. NoteWalk(region, T, base, seq, G)
  <2>1. \A i \in 1..n : G[i - 1] \in T
    <3>1. \A i \in 1..n : i - 1 \in 0..n
      OBVIOUS
    <3> QED BY <1>9, <3>1 DEF Walks
  <2>2. \A i \in 1..n : G[i] = Noted(region, G[i - 1], seq[i])
    BY <1>2, <1>9, <2>1 DEF Walks
  <2> QED BY <1>1, <1>9, <2>2 DEF Walks, NoteWalk
<1> QED BY <1>1, <1>7, <1>9, <1>10

\* It goes over the children.
VisitFold(region, base, seq) == FoldLeft(LAMBDA t, e : Searched(region, t, e), base, seq)

VisitSums(region, base, seq, h) ==
  h = [s \in SUBSET (DOMAIN seq) |->
         IF s = {} THEN base ELSE Searched(region, h[s \ {Max(s)}], seq[Max(s)])]

VisitWalk(region, T, base, seq, G) ==
  /\ G \in [0..Len(seq) -> T] /\ G[0] = base
  /\ \A i \in 1..Len(seq) : G[i] = Searched(region, G[i - 1], seq[i])

LEMMA VisitWalks ==
  ASSUME NEW region, NEW S, NEW seq \in Seq(S), NEW T, NEW base \in T,
         \A e \in S : \A t \in T : Searched(region, t, e) \in T
  PROVE  \E G : /\ VisitWalk(region, T, base, seq, G)
               /\ VisitFold(region, base, seq) = G[Len(seq)]
<1>1. PICK n \in Nat : n = Len(seq) /\ DOMAIN seq = 1..n /\ \A i \in 1..n : seq[i] \in S
  OBVIOUS
<1> DEFINE f == [i \in 1..n |-> [t \in T |-> Searched(region, t, seq[i])]]
<1>2. \A i \in 1..n : \A t \in T : f[i][t] = Searched(region, t, seq[i]) /\ f[i][t] \in T
  BY <1>1
<1> HIDE DEF f
<1>3. Steps(f, T, n)
  BY <1>2 DEF Steps
<1>4. PICK g : RunsUpTo(f, T, base, n, g)
  BY <1>3, RunExists
<1>5. VisitSums(region, base, seq, g)
  <2>1. ASSUME NEW s \in SUBSET (1..n), s # {}
        PROVE  g[s] = Searched(region, g[s \ {Max(s)}], seq[Max(s)])
    <3>1. Top(s) = Max(s)
      BY DEF Top, Max
    <3>2. Top(s) \in 1..n /\ s \ {Top(s)} \in SUBSET (1..n)
      BY <2>1, TopIn
    <3>3. g[s \ {Top(s)}] \in T
      BY <1>4, <3>2 DEF Runs, RunsUpTo
    <3>4. g[s] = f[Top(s)][g[s \ {Top(s)}]]
      BY <1>4, <2>1 DEF Runs, RunsUpTo
    <3> QED BY <1>2, <3>1, <3>2, <3>3, <3>4
  <2>2. g = [s \in SUBSET (1..n) |-> g[s]] /\ g[{}] = base
    BY <1>4 DEF Runs, RunsUpTo
  <2> QED BY <1>1, <2>1, <2>2 DEF VisitSums
<1> DEFINE h == CHOOSE c : VisitSums(region, base, seq, c)
<1>6. VisitSums(region, base, seq, h)
  BY <1>5
<1>7. VisitFold(region, base, seq) = h[1..n]
  BY <1>1 DEF VisitFold, FoldLeft, MapThenFoldSet, VisitSums
<1> HIDE DEF h
<1>8. Unfolds(f, T, base, n, h)
  <2>1. \A s \in SUBSET (1..n) :
          h[s] = IF s = {} THEN base ELSE Searched(region, h[s \ {Max(s)}], seq[Max(s)])
    <3>1. h = [s \in SUBSET (1..n) |->
                 IF s = {} THEN base ELSE Searched(region, h[s \ {Max(s)}], seq[Max(s)])]
      BY <1>1, <1>6 DEF VisitSums
    <3> QED BY <3>1
  <2>2. ASSUME NEW s \in SUBSET (1..n), s # {}, h[s \ {Top(s)}] \in T
        PROVE  h[s] = f[Top(s)][h[s \ {Top(s)}]]
    <3>1. Top(s) = Max(s)
      BY DEF Top, Max
    <3>2. Top(s) \in 1..n
      BY <2>2, TopIn
    <3>3. PICK i, t : i = Top(s) /\ t = h[s \ {Top(s)}]
      OBVIOUS
    <3>4. h[s] = Searched(region, t, seq[i])
      BY <2>1, <2>2, <3>1, <3>3
    <3>5. f[i][t] = Searched(region, t, seq[i])
      BY <1>2, <2>2, <3>2, <3>3
    <3> QED BY <3>3, <3>4, <3>5
  <2>3. h[{}] = base
    BY <2>1
  <2> QED BY <2>2, <2>3 DEF Unfolds
<1>9. PICK G : Walks(f, T, base, n, G) /\ G[n] = h[1..n]
  BY <1>3, <1>8, RunOneByOne
<1>10. VisitWalk(region, T, base, seq, G)
  <2>1. \A i \in 1..n : G[i - 1] \in T
    <3>1. \A i \in 1..n : i - 1 \in 0..n
      OBVIOUS
    <3> QED BY <1>9, <3>1 DEF Walks
  <2>2. \A i \in 1..n : G[i] = Searched(region, G[i - 1], seq[i])
    BY <1>2, <1>9, <2>1 DEF Walks
  <2> QED BY <1>1, <1>9, <2>2 DEF Walks, VisitWalk
<1> QED BY <1>1, <1>7, <1>9, <1>10

(***************************************************************************)
(* Boxes                                                                   *)
(***************************************************************************)

PointType == Int \X Int
BoxType == [min : PointType, max : PointType]

LEMMA Corners ==
  ASSUME NEW b \in BoxType
  PROVE  /\ b.min \in PointType /\ b.max \in PointType
         /\ b.min[1] \in Int /\ b.min[2] \in Int /\ b.max[1] \in Int /\ b.max[2] \in Int
<1>1. b.min \in PointType /\ b.max \in PointType
  BY DEF BoxType
<1> QED BY <1>1 DEF PointType

Spanned(x, y, u, v) == [min |-> <<x, y>>, max |-> <<u, v>>]

LEMMA SpannedBox ==
  ASSUME NEW x \in Int, NEW y \in Int, NEW u \in Int, NEW v \in Int
  PROVE  /\ Spanned(x, y, u, v) \in BoxType
         /\ Spanned(x, y, u, v).min[1] = x /\ Spanned(x, y, u, v).min[2] = y
         /\ Spanned(x, y, u, v).max[1] = u /\ Spanned(x, y, u, v).max[2] = v
BY DEF Spanned, BoxType, PointType

LEMMA OneOrTwo ==
  ASSUME NEW i \in 1..2
  PROVE  i = 1 \/ i = 2
OBVIOUS

LEMMA EnclosesMeans ==
  ASSUME NEW a, NEW b
  PROVE  Encloses(a, b) <=> /\ b.min[1] >= a.min[1] /\ b.max[1] <= a.max[1]
                            /\ b.min[2] >= a.min[2] /\ b.max[2] <= a.max[2]
BY OneOrTwo DEF Encloses

LEMMA OverlapsMeans ==
  ASSUME NEW a, NEW b
  PROVE  Overlaps(a, b) <=> /\ a.min[1] <= b.max[1] /\ a.max[1] >= b.min[1]
                            /\ a.min[2] <= b.max[2] /\ a.max[2] >= b.min[2]
BY OneOrTwo DEF Overlaps

\* What encloses a box overlaps all that the box does.
LEMMA EnclosingOverlaps ==
  ASSUME NEW a \in BoxType, NEW b \in BoxType, NEW region \in BoxType,
         Encloses(a, b), Overlaps(b, region)
  PROVE  Overlaps(a, region)
<1>1. /\ b.min[1] >= a.min[1] /\ b.max[1] <= a.max[1]
      /\ b.min[2] >= a.min[2] /\ b.max[2] <= a.max[2]
  BY EnclosesMeans
<1>2. /\ b.min[1] <= region.max[1] /\ b.max[1] >= region.min[1]
      /\ b.min[2] <= region.max[2] /\ b.max[2] >= region.min[2]
  BY OverlapsMeans
<1>3. /\ a.min[1] <= region.max[1] /\ a.max[1] >= region.min[1]
  BY <1>1, <1>2, Corners
<1>4. /\ a.min[2] <= region.max[2] /\ a.max[2] >= region.min[2]
  BY <1>1, <1>2, Corners
<1> QED BY <1>3, <1>4, OverlapsMeans

LEMMA LeastOfTwo ==
  ASSUME NEW x \in Int, NEW y \in Int
  PROVE  /\ Min({x, y}) \in Int /\ Min({x, y}) <= x /\ Min({x, y}) <= y
         /\ Max({x, y}) \in Int /\ Max({x, y}) >= x /\ Max({x, y}) >= y
<1>1. \E m \in {x, y} : \A z \in {x, y} : m <= z
  OBVIOUS
<1>2. \E m \in {x, y} : \A z \in {x, y} : m >= z
  OBVIOUS
<1>3. Min({x, y}) \in {x, y} /\ \A z \in {x, y} : Min({x, y}) <= z
  BY <1>1 DEF Min
<1>4. Max({x, y}) \in {x, y} /\ \A z \in {x, y} : Max({x, y}) >= z
  BY <1>2 DEF Max
<1> QED BY <1>3, <1>4

LEMMA JoinedEncloses ==
  ASSUME NEW a \in BoxType, NEW b \in BoxType
  PROVE  /\ Joined(a, b) \in BoxType
         /\ Encloses(Joined(a, b), b)
         /\ \A c \in BoxType : Encloses(a, c) => Encloses(Joined(a, b), c)
<1>1. PICK x \in Int : x = Min({a.min[1], b.min[1]}) /\ x <= a.min[1] /\ x <= b.min[1]
  BY Corners, LeastOfTwo
<1>2. PICK y \in Int : y = Min({a.min[2], b.min[2]}) /\ y <= a.min[2] /\ y <= b.min[2]
  BY Corners, LeastOfTwo
<1>3. PICK u \in Int : u = Max({a.max[1], b.max[1]}) /\ u >= a.max[1] /\ u >= b.max[1]
  BY Corners, LeastOfTwo
<1>4. PICK v \in Int : v = Max({a.max[2], b.max[2]}) /\ v >= a.max[2] /\ v >= b.max[2]
  BY Corners, LeastOfTwo
<1>5. PICK j \in BoxType : /\ j = Spanned(x, y, u, v)
                          /\ j.min[1] = x /\ j.min[2] = y /\ j.max[1] = u /\ j.max[2] = v
  <2>1. /\ Spanned(x, y, u, v) \in BoxType
        /\ Spanned(x, y, u, v).min[1] = x /\ Spanned(x, y, u, v).min[2] = y
        /\ Spanned(x, y, u, v).max[1] = u /\ Spanned(x, y, u, v).max[2] = v
    BY SpannedBox
  <2> QED BY <2>1
<1>6. Joined(a, b) = j
  BY <1>1, <1>2, <1>3, <1>4, <1>5 DEF Joined, Spanned
<1>7. Encloses(j, b)
  BY <1>1, <1>2, <1>3, <1>4, <1>5, EnclosesMeans
<1>8. ASSUME NEW c \in BoxType, Encloses(a, c) PROVE Encloses(j, c)
  <2>1. /\ c.min[1] >= a.min[1] /\ c.max[1] <= a.max[1]
        /\ c.min[2] >= a.min[2] /\ c.max[2] <= a.max[2]
    BY <1>8, EnclosesMeans
  <2>2. j.min[1] <= c.min[1] /\ j.min[2] <= c.min[2]
    BY <1>1, <1>2, <1>5, <2>1, Corners
  <2>3. j.max[1] >= c.max[1] /\ j.max[2] >= c.max[2]
    BY <1>3, <1>4, <1>5, <2>1, Corners
  <2>4. c.min[1] >= j.min[1] /\ c.max[1] <= j.max[1] /\ c.min[2] >= j.min[2] /\ c.max[2] <= j.max[2]
    BY <2>2, <2>3, Corners
  <2> QED BY <2>4, EnclosesMeans
<1> QED BY <1>6, <1>7, <1>8

\* The root encloses everything.
LEMMA AroundEncloses ==
  ASSUME NEW boxes \in Seq(BoxType), boxes # <<>>
  PROVE  /\ Around(boxes) \in BoxType
         /\ \A i \in DOMAIN boxes : Encloses(Around(boxes), boxes[i])
<1>1. PICK n \in Nat : n = Len(boxes) /\ n > 0 /\ DOMAIN boxes = 1..n
  OBVIOUS
<1>2. PICK T : T = BoxType
  OBVIOUS
<1>3. PICK base \in T : base = boxes[1]
  BY <1>1, <1>2
<1>4. \A e \in T : \A t \in T : Joined(t, e) \in T
  BY <1>2, JoinedEncloses
<1>5. PICK G : JoinWalk(T, base, boxes, G) /\ JoinFold(base, boxes) = G[n]
  <2>1. boxes \in Seq(T)
    BY <1>2
  <2>2. \E G : JoinWalk(T, base, boxes, G) /\ JoinFold(base, boxes) = G[Len(boxes)]
    BY <1>4, <2>1, JoinWalks
  <2> QED BY <1>1, <2>2
<1>6. G \in [0..n -> BoxType] /\ \A i \in 1..n : G[i] = Joined(G[i - 1], boxes[i])
  BY <1>1, <1>2, <1>5 DEF JoinWalk
<1> DEFINE P == {i \in 0..n : \A j \in 1..i : Encloses(G[i], boxes[j])}
<1>7. 0 \in P
  BY <1>1
<1>8. ASSUME NEW i \in 1..n, i - 1 \in P PROVE i \in P
  <2>1. PICK a \in BoxType, b \in BoxType : a = G[i - 1] /\ b = boxes[i]
    <3>1. i - 1 \in 0..n /\ i \in DOMAIN boxes
      BY <1>1
    <3> QED BY <1>6, <3>1
  <2>2. G[i] = Joined(a, b)
    BY <1>6, <2>1
  <2>3. ASSUME NEW j \in 1..i PROVE Encloses(G[i], boxes[j])
    <3>1. CASE j = i
      BY <2>1, <2>2, <3>1, JoinedEncloses
    <3>2. CASE j # i
      <4>1. j \in 1..(i - 1) /\ j \in DOMAIN boxes
        BY <1>1, <3>2
      <4>2. Encloses(a, boxes[j]) /\ boxes[j] \in BoxType
        BY <1>8, <2>1, <4>1
      <4> QED BY <2>2, <4>2, JoinedEncloses
    <3> QED BY <3>1, <3>2
  <2>4. i \in 0..n
    BY <1>1
  <2> QED BY <2>3, <2>4
<1>9. n \in P
  <2> HIDE DEF P
  <2>1. \A i \in 0..n : i \in P
    BY <1>7, <1>8, Upwards
  <2> QED BY <1>1, <2>1
<1>10. PICK all \in BoxType : all = G[n] /\ \A j \in 1..n : Encloses(all, boxes[j])
  BY <1>1, <1>6, <1>9
<1>11. FoldLeft(Joined, boxes[1], boxes) = all
  BY <1>3, <1>5, <1>10 DEF JoinFold
<1>12. PICK p \in Int, q \in Int, s \in Int, t \in Int :
         p = all.min[1] /\ q = all.min[2] /\ s = all.max[1] /\ t = all.max[2]
  BY Corners
<1>13. PICK x \in Int, y \in Int, u \in Int, v \in Int :
        /\ x = p - 1 /\ y = q - 1 /\ u = s + 1 /\ v = t + 1
        /\ x <= p /\ y <= q /\ u >= s /\ v >= t
  OBVIOUS
<1>14. PICK r \in BoxType : /\ r = Spanned(x, y, u, v)
                           /\ r.min[1] = x /\ r.min[2] = y /\ r.max[1] = u /\ r.max[2] = v
  <2>1. /\ Spanned(x, y, u, v) \in BoxType
        /\ Spanned(x, y, u, v).min[1] = x /\ Spanned(x, y, u, v).min[2] = y
        /\ Spanned(x, y, u, v).max[1] = u /\ Spanned(x, y, u, v).max[2] = v
    BY SpannedBox
  <2> QED BY <2>1
<1>15. Around(boxes) = r
  <2>1. Minus(all.min, <<1, 1>>) = <<x, y>> /\ Plus(all.max, <<1, 1>>) = <<u, v>>
    BY <1>12, <1>13 DEF Minus, Plus
  <2> QED BY <1>11, <1>14, <2>1 DEF Around, Spanned
<1>16. ASSUME NEW i \in 1..n PROVE Encloses(r, boxes[i])
  <2>1. PICK b \in BoxType : b = boxes[i]
    BY <1>1
  <2>2. Encloses(all, b)
    BY <1>10, <2>1
  <2>3. b.min[1] >= all.min[1] /\ b.max[1] <= all.max[1] /\ b.min[2] >= all.min[2] /\ b.max[2] <= all.max[2]
    BY <2>2, EnclosesMeans
  <2>4. b.min[1] >= r.min[1] /\ b.max[1] <= r.max[1] /\ b.min[2] >= r.min[2] /\ b.max[2] <= r.max[2]
    <3>1. /\ b.min[1] \in Int /\ b.min[2] \in Int /\ b.max[1] \in Int /\ b.max[2] \in Int
      BY Corners
    <3>2. /\ b.min[1] >= p /\ b.max[1] <= s /\ b.min[2] >= q /\ b.max[2] <= t
      BY <1>12, <2>3
    <3>3. b.min[1] >= x /\ b.max[1] <= u /\ b.min[2] >= y /\ b.max[2] <= v
      <4>1. PICK e \in Int, f \in Int, g \in Int, h \in Int :
              e = b.min[1] /\ f = b.min[2] /\ g = b.max[1] /\ h = b.max[2]
        BY <3>1
      <4>2. e >= x /\ f >= y /\ g <= u /\ h <= v
        BY <1>13, <3>2, <4>1, SMTT(30)
      <4> QED BY <4>1, <4>2
    <3> QED BY <1>14, <3>3
  <2> QED BY <2>1, <2>4, EnclosesMeans
<1> QED BY <1>1, <1>15, <1>16

(***************************************************************************)
(* The tree as it grows                                                    *)
(***************************************************************************)

EntryType(boxes) == {[index |-> i, box |-> boxes[i]] : i \in DOMAIN boxes}
NodeOf(E) == [box : BoxType, items : Seq(E)]
TreeOf(E) == [box : BoxType, items : Seq(E), children : Seq(NodeOf(E))]

\* What is in the root, k = 0, and in the children.
Shelf(tree, k) == IF k = 0 THEN tree.items ELSE tree.children[k].items

On(tree, i, k, j) ==
  k \in 0..Len(tree.children) /\ j \in DOMAIN Shelf(tree, k) /\ Shelf(tree, k)[j].index = i

\* The entries with indices in D are in the tree, each in one place, and those in
\* a child are within its box.
Holds(tree, boxes, D) ==
  /\ tree \in TreeOf(EntryType(boxes))
  /\ \A i \in DOMAIN boxes : Encloses(tree.box, boxes[i])
  /\ \A k \in 1..Len(tree.children) : \A j \in DOMAIN Shelf(tree, k) :
       Encloses(tree.children[k].box, Shelf(tree, k)[j].box)
  /\ \A i, k, j : On(tree, i, k, j) => i \in D
  /\ \A i \in D : \E k, j : On(tree, i, k, j)
  /\ \A i, k, j, l, m : On(tree, i, k, j) /\ On(tree, i, l, m) => k = l /\ j = m

\* One entry more, in the root or in a child that encloses it.
PutOn(tree, next, k, e) ==
  /\ next.box = tree.box /\ Len(next.children) = Len(tree.children)
  /\ \A c \in 1..Len(tree.children) : next.children[c].box = tree.children[c].box
  /\ k \in 0..Len(tree.children)
  /\ Shelf(next, k) = Append(Shelf(tree, k), e)
  /\ \A l \in 0..Len(tree.children) : l # k => Shelf(next, l) = Shelf(tree, l)
  /\ k # 0 => Encloses(tree.children[k].box, e.box)

LEMMA TreeFields ==
  ASSUME NEW E, NEW tree \in TreeOf(E)
  PROVE  /\ tree.box \in BoxType /\ tree.items \in Seq(E) /\ tree.children \in Seq(NodeOf(E))
         /\ Len(tree.children) \in Nat /\ DOMAIN tree.children = 1..Len(tree.children)
<1>1. tree.box \in BoxType /\ tree.items \in Seq(E) /\ tree.children \in Seq(NodeOf(E))
  BY DEF TreeOf
<1> QED BY <1>1

LEMMA ShelfType ==
  ASSUME NEW E, NEW tree \in TreeOf(E), NEW k \in 0..Len(tree.children)
  PROVE  Shelf(tree, k) \in Seq(E)
<1>1. CASE k = 0
  BY <1>1, TreeFields DEF Shelf
<1>2. CASE k # 0
  <2>1. k \in DOMAIN tree.children
    BY <1>2, TreeFields
  <2>2. tree.children[k] \in NodeOf(E)
    BY <2>1, TreeFields
  <2> QED BY <1>2, <2>2 DEF Shelf, NodeOf
<1> QED BY <1>1, <1>2

LEMMA InRoot ==
  ASSUME NEW E, NEW tree \in TreeOf(E), NEW e \in E
  PROVE  /\ [tree EXCEPT !.items = Append(@, e)] \in TreeOf(E)
         /\ PutOn(tree, [tree EXCEPT !.items = Append(@, e)], 0, e)
<1>1. PICK items \in Seq(E) : items = Append(tree.items, e)
  <2>1. tree.items \in Seq(E)
    BY TreeFields
  <2>2. Append(tree.items, e) \in Seq(E)
    BY <2>1
  <2> QED BY <2>2
<1>2. PICK next : next = [tree EXCEPT !.items = Append(@, e)]
  OBVIOUS
<1>3. next.box = tree.box /\ next.children = tree.children /\ next.items = items /\ next \in TreeOf(E)
  BY <1>1, <1>2 DEF TreeOf
<1>4. Shelf(next, 0) = Append(Shelf(tree, 0), e)
  BY <1>1, <1>3 DEF Shelf
<1>5. \A l \in 0..Len(tree.children) : l # 0 => Shelf(next, l) = Shelf(tree, l)
  BY <1>3 DEF Shelf
<1>6. 0 \in 0..Len(tree.children)
  BY TreeFields
<1>7. PutOn(tree, next, 0, e)
  BY <1>3, <1>4, <1>5, <1>6 DEF PutOn
<1> QED BY <1>2, <1>3, <1>7

LEMMA InOneChild ==
  ASSUME NEW E, NEW tree \in TreeOf(E), NEW e \in E, NEW c \in DOMAIN tree.children,
         Encloses(tree.children[c].box, e.box)
  PROVE  /\ [tree EXCEPT !.children[c].items = Append(@, e)] \in TreeOf(E)
         /\ PutOn(tree, [tree EXCEPT !.children[c].items = Append(@, e)], c, e)
<1>1. PICK n \in Nat : n = Len(tree.children) /\ DOMAIN tree.children = 1..n
  BY TreeFields
<1>2. PICK nodes \in Seq(NodeOf(E)) : nodes = tree.children
  BY TreeFields
<1>3. PICK old \in NodeOf(E) : old = nodes[c]
  BY <1>2
<1>4. old.items \in Seq(E) /\ old.box \in BoxType
  BY DEF NodeOf
<1>5. PICK items \in Seq(E) : items = Append(old.items, e)
  <2>1. Append(old.items, e) \in Seq(E)
    BY <1>4
  <2> QED BY <2>1
<1>6. PICK new \in NodeOf(E) : new = [old EXCEPT !.items = items] /\ new.items = items /\ new.box = old.box
  <2>1. /\ [old EXCEPT !.items = items] \in NodeOf(E)
        /\ [old EXCEPT !.items = items].items = items /\ [old EXCEPT !.items = items].box = old.box
    BY DEF NodeOf
  <2> QED BY <2>1
<1>7. PICK put : put = [nodes EXCEPT ![c] = new]
  OBVIOUS
<1>8. /\ put \in Seq(NodeOf(E)) /\ Len(put) = n /\ DOMAIN put = 1..n /\ put[c] = new
      /\ \A l \in 1..n : l # c => put[l] = nodes[l]
  BY <1>1, <1>2, <1>7
<1>9. PICK next : next = [tree EXCEPT !.children = put]
  OBVIOUS
<1>10. next \in TreeOf(E) /\ next.box = tree.box /\ next.items = tree.items /\ next.children = put
  BY <1>8, <1>9 DEF TreeOf
<1>11. [tree EXCEPT !.children[c].items = Append(@, e)] = next
  <2>1. [tree EXCEPT !.children[c].items = Append(@, e)]
          = [tree EXCEPT !.children = [tree.children EXCEPT ![c] =
               [tree.children[c] EXCEPT !.items = Append(tree.children[c].items, e)]]]
    BY DEF TreeOf
  <2> QED BY <1>2, <1>3, <1>5, <1>6, <1>7, <1>9, <2>1
<1>12. c \in 1..n /\ c # 0
  BY <1>1
<1>13. \A l \in 1..n : next.children[l].box = tree.children[l].box
  BY <1>2, <1>3, <1>6, <1>8, <1>10
<1>14. Shelf(next, c) = Append(Shelf(tree, c), e)
  BY <1>2, <1>3, <1>5, <1>6, <1>8, <1>10, <1>12 DEF Shelf
<1>15. \A l \in 0..n : l # c => Shelf(next, l) = Shelf(tree, l)
  BY <1>2, <1>8, <1>10 DEF Shelf
<1>16. PutOn(tree, next, c, e)
  BY <1>1, <1>8, <1>10, <1>12, <1>13, <1>14, <1>15 DEF PutOn
<1> QED BY <1>10, <1>11, <1>16

\* insert_child puts an entry in one place.
LEMMA InsertedInChildPuts ==
  ASSUME NEW E, NEW tree \in TreeOf(E), NEW e \in E
  PROVE  /\ InsertedInChild(tree, e) \in TreeOf(E)
         /\ \E k : PutOn(tree, InsertedInChild(tree, e), k, e)
<1>1. PICK n \in Nat : n = Len(tree.children) /\ DOMAIN tree.children = 1..n
  BY TreeFields
<1>2. PICK target : target = {k \in DOMAIN tree.children : Encloses(tree.children[k].box, e.box)}
  OBVIOUS
<1>3. InsertedInChild(tree, e) = IF target = {} THEN [tree EXCEPT !.items = Append(@, e)]
                                ELSE [tree EXCEPT !.children[Min(target)].items = Append(@, e)]
  BY <1>2 DEF InsertedInChild
<1>4. CASE target = {}
  <2>1. InsertedInChild(tree, e) = [tree EXCEPT !.items = Append(@, e)]
    BY <1>3, <1>4
  <2>2. PICK next : next = [tree EXCEPT !.items = Append(@, e)]
    OBVIOUS
  <2>3. next \in TreeOf(E) /\ PutOn(tree, next, 0, e)
    BY <2>2, InRoot
  <2> QED BY <2>1, <2>2, <2>3
<1>5. CASE target # {}
  <2>1. \E x \in target : \A y \in target : x <= y
    <3>1. target \subseteq 0..n
      BY <1>1, <1>2
    <3> QED BY <1>5, <3>1, LeastNumber
  <2>2. PICK c : c = Min(target)
    OBVIOUS
  <2>3. c \in target
    BY <2>1, <2>2 DEF Min
  <2>4. c \in DOMAIN tree.children /\ Encloses(tree.children[c].box, e.box)
    BY <1>2, <2>3
  <2>5. PICK next : next = [tree EXCEPT !.children[c].items = Append(@, e)]
    OBVIOUS
  <2>6. next \in TreeOf(E) /\ PutOn(tree, next, c, e)
    BY <2>4, <2>5, InOneChild
  <2>7. InsertedInChild(tree, e) = next
    BY <1>3, <1>5, <2>2, <2>5
  <2> QED BY <2>6, <2>7
<1> QED BY <1>4, <1>5

LEMMA EntryFields ==
  ASSUME NEW boxes \in Seq(BoxType), NEW e \in EntryType(boxes)
  PROVE  e.index \in DOMAIN boxes /\ e.box = boxes[e.index] /\ e.box \in BoxType
<1>1. PICK i \in DOMAIN boxes : e = [index |-> i, box |-> boxes[i]]
  BY DEF EntryType
<1> QED BY <1>1

\* An entry put in one place is in that place, and the others are where they were.
LEMMA HoldsOneMore ==
  ASSUME NEW boxes \in Seq(BoxType), NEW tree, NEW D, Holds(tree, boxes, D),
         NEW e \in EntryType(boxes), e.index \notin D,
         NEW next \in TreeOf(EntryType(boxes)), NEW k, PutOn(tree, next, k, e)
  PROVE  Holds(next, boxes, D \cup {e.index})
<1>1. PICK E : E = EntryType(boxes)
  OBVIOUS
<1>2. tree \in TreeOf(E) /\ next \in TreeOf(E) /\ e \in E
  BY <1>1 DEF Holds
<1>3. PICK n \in Nat : n = Len(tree.children) /\ n = Len(next.children)
  BY <1>2, TreeFields DEF PutOn
<1>4. /\ next.box = tree.box /\ \A c \in 1..n : next.children[c].box = tree.children[c].box
      /\ k \in 0..n /\ Shelf(next, k) = Append(Shelf(tree, k), e)
      /\ \A l \in 0..n : l # k => Shelf(next, l) = Shelf(tree, l)
      /\ (k # 0 => Encloses(tree.children[k].box, e.box))
  BY <1>3 DEF PutOn
<1>5. PICK old \in Seq(E), m \in Nat : old = Shelf(tree, k) /\ m = Len(old) /\ DOMAIN old = 1..m
  <2>1. Shelf(tree, k) \in Seq(E)
    BY <1>2, <1>3, <1>4, ShelfType
  <2> QED BY <2>1
<1>6. PICK new \in Seq(E) : new = Append(old, e)
  <2>1. Append(old, e) \in Seq(E)
    BY <1>2
  <2> QED BY <2>1
<1>7. DOMAIN new = 1..(m + 1) /\ new[m + 1] = e /\ \A j \in 1..m : new[j] = old[j]
  BY <1>5, <1>6
<1>8. Shelf(next, k) = new
  BY <1>4, <1>5, <1>6
<1>9. \A i, l, j : On(next, i, l, j) <=> On(tree, i, l, j) \/ (i = e.index /\ l = k /\ j = m + 1)
  <2> SUFFICES ASSUME NEW i, NEW l, NEW j
               PROVE  On(next, i, l, j) <=> On(tree, i, l, j) \/ (i = e.index /\ l = k /\ j = m + 1)
    OBVIOUS
  <2>1. CASE l = k
    <3>1. On(next, i, k, j) <=> j \in 1..(m + 1) /\ new[j].index = i
      BY <1>3, <1>4, <1>7, <1>8 DEF On
    <3>2. On(tree, i, k, j) <=> j \in 1..m /\ old[j].index = i
      BY <1>3, <1>4, <1>5 DEF On
    <3>3. j \in 1..(m + 1) <=> j \in 1..m \/ j = m + 1
      OBVIOUS
    <3>4. m + 1 \notin 1..m
      OBVIOUS
    <3> QED BY <1>7, <2>1, <3>1, <3>2, <3>3, <3>4
  <2>2. CASE l # k
    <3>1. l \in 0..n => Shelf(next, l) = Shelf(tree, l)
      BY <1>4, <2>2
    <3> QED BY <1>3, <2>2, <3>1 DEF On
  <2> QED BY <2>1, <2>2
<1>10. /\ \A i \in DOMAIN boxes : Encloses(tree.box, boxes[i])
       /\ \A l \in 1..n : \A j \in DOMAIN Shelf(tree, l) :
            Encloses(tree.children[l].box, Shelf(tree, l)[j].box)
       /\ \A i, l, j : On(tree, i, l, j) => i \in D
       /\ \A i \in D : \E l, j : On(tree, i, l, j)
       /\ \A i, l, j, p, q : On(tree, i, l, j) /\ On(tree, i, p, q) => l = p /\ j = q
  BY <1>3 DEF Holds
<1>11. \A i \in DOMAIN boxes : Encloses(next.box, boxes[i])
  BY <1>4, <1>10
<1>12. ASSUME NEW l \in 1..n, NEW j \in DOMAIN Shelf(next, l)
       PROVE  Encloses(next.children[l].box, Shelf(next, l)[j].box)
  <2>1. next.children[l].box = tree.children[l].box
    BY <1>4
  <2>2. CASE l # k
    <3>1. Shelf(next, l) = Shelf(tree, l)
      BY <1>4, <2>2
    <3> QED BY <1>10, <2>1, <3>1
  <2>3. CASE l = k
    <3>1. j \in 1..(m + 1)
      BY <1>7, <1>8, <2>3
    <3>2. CASE j = m + 1
      <4>1. Shelf(next, l)[j] = e /\ k # 0
        BY <1>7, <1>8, <2>3, <3>2
      <4> QED BY <1>4, <2>1, <2>3, <4>1
    <3>3. CASE j # m + 1
      <4>1. j \in 1..m
        BY <3>1, <3>3
      <4>2. Shelf(next, l)[j] = Shelf(tree, l)[j] /\ j \in DOMAIN Shelf(tree, l)
        BY <1>5, <1>7, <1>8, <2>3, <4>1
      <4> QED BY <1>10, <2>1, <4>2
    <3> QED BY <3>2, <3>3
  <2> QED BY <2>2, <2>3
<1>13. PICK C : C = D \cup {e.index}
  OBVIOUS
<1>14. \A i, l, j : On(next, i, l, j) => i \in C
  BY <1>9, <1>10, <1>13
<1>15. ASSUME NEW i \in C PROVE \E l, j : On(next, i, l, j)
  <2>1. CASE i \in D
    <3>1. PICK l, j : On(tree, i, l, j)
      BY <1>10, <2>1
    <3>2. On(next, i, l, j)
      BY <1>9, <3>1
    <3> QED BY <3>2
  <2>2. CASE i = e.index
    <3>1. PICK j : j = m + 1
      OBVIOUS
    <3>2. On(next, i, k, j)
      BY <1>9, <2>2, <3>1
    <3> QED BY <3>2
  <2> QED BY <1>13, <2>1, <2>2
<1>16. ASSUME NEW i, NEW l, NEW j, NEW p, NEW q, On(next, i, l, j), On(next, i, p, q)
       PROVE  l = p /\ j = q
  <2>1. CASE i = e.index
    <3>1. ~ On(tree, i, l, j) /\ ~ On(tree, i, p, q)
      BY <1>10, <2>1
    <3> QED BY <1>9, <1>16, <3>1
  <2>2. CASE i # e.index
    <3>1. On(tree, i, l, j) /\ On(tree, i, p, q)
      BY <1>9, <1>16, <2>2
    <3> QED BY <1>10, <3>1
  <2> QED BY <2>1, <2>2
<1>17. Holds(next, boxes, C)
  BY <1>1, <1>2, <1>3, <1>11, <1>12, <1>14, <1>15, <1>16 DEF Holds
<1> QED BY <1>13, <1>17

LEMMA HoldsInsertedInChild ==
  ASSUME NEW boxes \in Seq(BoxType), NEW tree, NEW D, Holds(tree, boxes, D),
         NEW e \in EntryType(boxes), e.index \notin D
  PROVE  Holds(InsertedInChild(tree, e), boxes, D \cup {e.index})
<1>1. PICK E : E = EntryType(boxes)
  OBVIOUS
<1>2. tree \in TreeOf(E) /\ e \in E
  BY <1>1 DEF Holds
<1>3. PICK next : next = InsertedInChild(tree, e)
  OBVIOUS
<1>4. next \in TreeOf(E) /\ \E k : PutOn(tree, next, k, e)
  BY <1>2, <1>3, InsertedInChildPuts
<1>5. PICK k : PutOn(tree, next, k, e)
  BY <1>4
<1>6. Holds(next, boxes, D \cup {e.index})
  BY <1>1, <1>4, <1>5, HoldsOneMore
<1> QED BY <1>3, <1>6

\* A root without children has all entries in its own list, each once.
LEMMA RootOnly ==
  ASSUME NEW boxes \in Seq(BoxType), NEW tree, NEW D, Holds(tree, boxes, D), tree.children = <<>>
  PROVE  /\ tree.items \in Seq(EntryType(boxes))
         /\ D = {tree.items[j].index : j \in DOMAIN tree.items}
         /\ \A j, l \in DOMAIN tree.items : tree.items[j].index = tree.items[l].index => j = l
<1>1. tree \in TreeOf(EntryType(boxes))
  BY DEF Holds
<1>2. Len(tree.children) = 0
  OBVIOUS
<1>3. \A i, k, j : On(tree, i, k, j) <=> k = 0 /\ j \in DOMAIN tree.items /\ tree.items[j].index = i
  <2>1. \A k : k \in 0..Len(tree.children) <=> k = 0
    BY <1>2
  <2> QED BY <2>1 DEF On, Shelf
<1>4. /\ \A i, k, j : On(tree, i, k, j) => i \in D
      /\ \A i \in D : \E k, j : On(tree, i, k, j)
      /\ \A i, k, j, l, m : On(tree, i, k, j) /\ On(tree, i, l, m) => k = l /\ j = m
  BY DEF Holds
<1>5. tree.items \in Seq(EntryType(boxes))
  BY <1>1, TreeFields
<1>6. D = {tree.items[j].index : j \in DOMAIN tree.items}
  <2>1. ASSUME NEW i \in D PROVE i \in {tree.items[j].index : j \in DOMAIN tree.items}
    <3>1. PICK k, j : On(tree, i, k, j)
      BY <1>4
    <3> QED BY <1>3, <3>1
  <2>2. ASSUME NEW j \in DOMAIN tree.items PROVE tree.items[j].index \in D
    <3>1. PICK i : i = tree.items[j].index
      OBVIOUS
    <3>2. PICK k : k = 0
      OBVIOUS
    <3>3. On(tree, i, k, j)
      BY <1>3, <3>1, <3>2
    <3> QED BY <1>4, <3>1, <3>3
  <2> QED BY <2>1, <2>2
<1>7. ASSUME NEW j \in DOMAIN tree.items, NEW l \in DOMAIN tree.items,
             tree.items[j].index = tree.items[l].index
      PROVE  j = l
  <2>1. PICK i, k : i = tree.items[j].index /\ k = 0
    OBVIOUS
  <2>2. On(tree, i, k, j) /\ On(tree, i, k, l)
    BY <1>3, <1>7, <2>1
  <2> QED BY <1>4, <2>2
<1> QED BY <1>5, <1>6, <1>7

LEMMA QuartersAreBoxes ==
  ASSUME NEW box \in BoxType, NEW k \in 1..4
  PROVE  Quarters(box)[k] \in BoxType
<1>1. PICK p \in Int, q \in Int, u \in Int, v \in Int :
        p = box.min[1] /\ q = box.min[2] /\ u = box.max[1] /\ v = box.max[2]
  BY Corners
<1>2. PICK x \in Int, y \in Int : x = (p + u) \div 2 /\ y = (q + v) \div 2
  OBVIOUS
<1>3. PICK r : r = <<[min |-> box.min, max |-> <<x, y>>],
                     [min |-> <<x, q>>, max |-> <<u, y>>],
                     [min |-> <<p, y>>, max |-> <<x, v>>],
                     [min |-> <<x, y>>, max |-> box.max]>>
  OBVIOUS
<1>4. Quarters(box) = r
  BY <1>1, <1>2, <1>3 DEF Quarters
<1>5. /\ [min |-> box.min, max |-> <<x, y>>] \in BoxType
      /\ [min |-> <<x, q>>, max |-> <<u, y>>] \in BoxType
      /\ [min |-> <<p, y>>, max |-> <<x, v>>] \in BoxType
      /\ [min |-> <<x, y>>, max |-> box.max] \in BoxType
  BY Corners DEF BoxType, PointType
<1>6. r[1] \in BoxType /\ r[2] \in BoxType /\ r[3] \in BoxType /\ r[4] \in BoxType
  BY <1>3, <1>5
<1>7. k = 1 \/ k = 2 \/ k = 3 \/ k = 4
  OBVIOUS
<1> QED BY <1>4, <1>6, <1>7

\* A tree whose root has just been split.
Opened(tree) ==
  [tree EXCEPT !.items = <<>>,
               !.children = [k \in 1..4 |-> [box |-> Quarters(tree.box)[k], items |-> <<>>]]]

LEMMA OpenedType ==
  ASSUME NEW E, NEW tree \in TreeOf(E)
  PROVE  /\ Opened(tree) \in TreeOf(E) /\ Opened(tree).box = tree.box
         /\ \A k \in 0..Len(Opened(tree).children) : Shelf(Opened(tree), k) = <<>>
<1>1. PICK nodes : nodes = [k \in 1..4 |-> [box |-> Quarters(tree.box)[k], items |-> <<>>]]
  OBVIOUS
<1>2. ASSUME NEW k \in 1..4 PROVE nodes[k] \in NodeOf(E) /\ nodes[k].items = <<>>
  <2>1. Quarters(tree.box)[k] \in BoxType
    BY QuartersAreBoxes, TreeFields
  <2>2. nodes[k] = [box |-> Quarters(tree.box)[k], items |-> <<>>]
    BY <1>1
  <2> QED BY <2>1, <2>2 DEF NodeOf
<1>3. nodes \in Seq(NodeOf(E)) /\ Len(nodes) = 4
  <2> DEFINE S == NodeOf(E)
  <2> HIDE DEF S
  <2>1. PICK n \in Nat : n = 4
    OBVIOUS
  <2>2. nodes \in [1..n -> S]
    BY <1>1, <1>2, <2>1 DEF S
  <2>3. nodes \in Seq(S) /\ Len(nodes) = n
    BY <2>2
  <2> QED BY <2>1, <2>3 DEF S
<1>4. PICK next : next = Opened(tree)
  OBVIOUS
<1>5. next.box = tree.box /\ next.items = <<>> /\ next.children = nodes /\ next \in TreeOf(E)
  <2>1. PICK none : none = <<>> /\ none \in Seq(E)
    <3>1. <<>> \in Seq(E)
      OBVIOUS
    <3> QED BY <3>1
  <2>2. next = [tree EXCEPT !.items = none, !.children = nodes]
    <3>1. next = [tree EXCEPT !.items = <<>>, !.children = nodes]
      BY <1>1, <1>4, Zenon DEF Opened
    <3> QED BY <2>1, <3>1
  <2> QED BY <1>3, <2>1, <2>2 DEF TreeOf
<1>6. ASSUME NEW k \in 0..Len(next.children) PROVE Shelf(next, k) = <<>>
  <2>1. k = 0 \/ k \in 1..4
    <3>1. Len(next.children) = 4
      BY <1>3, <1>5
    <3> QED BY <3>1
  <2>2. CASE k = 0
    BY <1>5, <2>2 DEF Shelf
  <2>3. CASE k \in 1..4
    BY <1>2, <1>5, <2>3 DEF Shelf
  <2> QED BY <2>1, <2>2, <2>3
<1> QED BY <1>4, <1>5, <1>6

LEMMA SplitWalks ==
  ASSUME NEW E, NEW tree \in TreeOf(E)
  PROVE  \E G : /\ ShareWalk(TreeOf(E), Opened(tree), tree.items, G)
               /\ Split(tree) = G[Len(tree.items)]
<1>1. PICK T : T = TreeOf(E)
  OBVIOUS
<1>2. PICK base \in T : base = Opened(tree)
  BY <1>1, OpenedType
<1>3. PICK seq \in Seq(E) : seq = tree.items
  BY TreeFields
<1>4. \A e \in E : \A t \in T : InsertedInChild(t, e) \in T
  BY <1>1, InsertedInChildPuts
<1>5. \E G : ShareWalk(T, base, seq, G) /\ ShareFold(base, seq) = G[Len(seq)]
  BY <1>4, ShareWalks
<1>6. Split(tree) = ShareFold(base, seq)
  BY <1>2, <1>3 DEF Split, ShareFold, Opened
<1> QED BY <1>1, <1>2, <1>3, <1>5, <1>6

LEMMA SplitType ==
  ASSUME NEW E, NEW tree \in TreeOf(E)
  PROVE  Split(tree) \in TreeOf(E)
<1>1. PICK G : /\ ShareWalk(TreeOf(E), Opened(tree), tree.items, G)
               /\ Split(tree) = G[Len(tree.items)]
  BY SplitWalks
<1>2. PICK n \in Nat : n = Len(tree.items)
  BY TreeFields
<1>3. n \in 0..n
  OBVIOUS
<1> QED BY <1>1, <1>2, <1>3 DEF ShareWalk

\* An empty tree holds nothing.
LEMMA HoldsNothing ==
  ASSUME NEW boxes \in Seq(BoxType), NEW tree \in TreeOf(EntryType(boxes)),
         \A i \in DOMAIN boxes : Encloses(tree.box, boxes[i]),
         \A k \in 0..Len(tree.children) : Shelf(tree, k) = <<>>
  PROVE  Holds(tree, boxes, {})
<1>1. \A i, k, j : ~ On(tree, i, k, j)
  <2>1. \A j : j \notin DOMAIN <<>>
    OBVIOUS
  <2> QED BY <2>1 DEF On
<1>2. \A k \in 1..Len(tree.children) : \A j : j \notin DOMAIN Shelf(tree, k)
  <2>1. \A k \in 1..Len(tree.children) : k \in 0..Len(tree.children)
    BY TreeFields
  <2>2. \A j : j \notin DOMAIN <<>>
    OBVIOUS
  <2> QED BY <2>1, <2>2
<1> QED BY <1>1, <1>2 DEF Holds

\* Splitting the root moves every entry to one place.
LEMMA SplitHolds ==
  ASSUME NEW boxes \in Seq(BoxType), NEW tree, NEW D, Holds(tree, boxes, D), tree.children = <<>>
  PROVE  Holds(Split(tree), boxes, D)
<1>1. PICK E : E = EntryType(boxes)
  OBVIOUS
<1>2. tree \in TreeOf(E) /\ \A i \in DOMAIN boxes : Encloses(tree.box, boxes[i])
  BY <1>1 DEF Holds
<1>3. PICK items \in Seq(E) :
        /\ items = tree.items /\ D = {items[j].index : j \in DOMAIN items}
        /\ \A j, l \in DOMAIN items : items[j].index = items[l].index => j = l
  BY <1>1, RootOnly
<1>4. PICK n \in Nat : n = Len(items) /\ DOMAIN items = 1..n
  OBVIOUS
<1>5. PICK base : base = Opened(tree)
  OBVIOUS
<1>6. PICK G : ShareWalk(TreeOf(E), base, items, G) /\ Split(tree) = G[n]
  BY <1>2, <1>3, <1>4, <1>5, SplitWalks
<1>7. G[0] = base /\ \A i \in 1..n : G[i] = InsertedInChild(G[i - 1], items[i])
  BY <1>4, <1>6 DEF ShareWalk
<1> DEFINE Moved(i) == {items[j].index : j \in 1..i}
           P == {i \in 0..n : Holds(G[i], boxes, Moved(i))}
<1>8. 0 \in P
  <2>1. base \in TreeOf(E) /\ base.box = tree.box
        /\ \A k \in 0..Len(base.children) : Shelf(base, k) = <<>>
    BY <1>2, <1>5, OpenedType
  <2>2. Holds(base, boxes, {})
    BY <1>1, <1>2, <2>1, HoldsNothing
  <2>3. Moved(0) = {}
    OBVIOUS
  <2>4. 0 \in 0..n
    BY <1>4
  <2> HIDE DEF Moved
  <2>5. Holds(G[0], boxes, Moved(0))
    BY <1>7, <2>2, <2>3
  <2> QED BY <2>4, <2>5
<1>9. ASSUME NEW i \in 1..n, i - 1 \in P PROVE i \in P
  <2>1. PICK A : A = Moved(i - 1)
    OBVIOUS
  <2>2. PICK t : t = G[i - 1]
    OBVIOUS
  <2>3. Holds(t, boxes, A)
    BY <1>9, <2>1, <2>2
  <2>4. PICK e \in E : e = items[i]
    BY <1>4
  <2>5. e.index \notin A
    <3>1. ASSUME NEW j \in 1..(i - 1) PROVE items[j].index # items[i].index
      <4>1. j \in DOMAIN items /\ i \in DOMAIN items /\ j # i
        BY <1>4
      <4> QED BY <1>3, <4>1
    <3> QED BY <2>1, <2>4, <3>1
  <2>6. Holds(InsertedInChild(t, e), boxes, A \cup {e.index})
    BY <1>1, <2>3, <2>5, HoldsInsertedInChild
  <2>7. Moved(i) = A \cup {e.index}
    <3>1. \A j : j \in 1..i <=> j \in 1..(i - 1) \/ j = i
      OBVIOUS
    <3> QED BY <2>1, <2>4, <3>1
  <2>8. i \in 0..n
    OBVIOUS
  <2>9. G[i] = InsertedInChild(t, e)
    BY <1>7, <2>2, <2>4
  <2>10. Holds(G[i], boxes, Moved(i))
    BY <2>6, <2>7, <2>9
  <2> HIDE DEF Moved
  <2> QED BY <2>8, <2>10
<1>10. n \in P
  <2> HIDE DEF P
  <2>1. \A i \in 0..n : i \in P
    BY <1>8, <1>9, Upwards
  <2> QED BY <1>4, <2>1
<1>11. Moved(n) = D
  BY <1>3, <1>4
<1> QED BY <1>6, <1>10, <1>11

\* Insert keeps entries in one place.
LEMMA InsertedType ==
  ASSUME NEW capacity, NEW E, NEW tree \in TreeOf(E), NEW e \in E
  PROVE  Inserted(capacity, tree, e) \in TreeOf(E)
<1>1. PICK longer : longer = [tree EXCEPT !.items = Append(@, e)]
  OBVIOUS
<1>2. longer \in TreeOf(E)
  BY <1>1, InRoot
<1>3. Split(longer) \in TreeOf(E)
  BY <1>2, SplitType
<1>4. InsertedInChild(tree, e) \in TreeOf(E)
  BY InsertedInChildPuts
<1>5. Inserted(capacity, tree, e) = IF tree.children # <<>> THEN InsertedInChild(tree, e)
                                   ELSE IF Len(longer.items) > capacity THEN Split(longer)
                                   ELSE longer
  BY <1>1 DEF Inserted
<1> QED BY <1>2, <1>3, <1>4, <1>5

LEMMA InsertedHolds ==
  ASSUME NEW capacity, NEW boxes \in Seq(BoxType), NEW tree, NEW D, Holds(tree, boxes, D),
         NEW e \in EntryType(boxes), e.index \notin D
  PROVE  Holds(Inserted(capacity, tree, e), boxes, D \cup {e.index})
<1>1. PICK longer : longer = [tree EXCEPT !.items = Append(@, e)]
  OBVIOUS
<1>2. PICK C : C = D \cup {e.index}
  OBVIOUS
<1>3. tree \in TreeOf(EntryType(boxes))
  BY DEF Holds
<1>4. longer \in TreeOf(EntryType(boxes)) /\ PutOn(tree, longer, 0, e)
  BY <1>1, <1>3, InRoot
<1>5. Holds(longer, boxes, C)
  <2>1. PICK k : k = 0
    OBVIOUS
  <2>2. PutOn(tree, longer, k, e)
    BY <1>4, <2>1
  <2>3. Holds(longer, boxes, D \cup {e.index})
    BY <1>4, <2>2, HoldsOneMore
  <2> QED BY <1>2, <2>3
<1>6. Holds(InsertedInChild(tree, e), boxes, C)
  BY <1>2, HoldsInsertedInChild
<1>7. ASSUME tree.children = <<>> PROVE Holds(Split(longer), boxes, C)
  <2>1. longer.children = <<>>
    BY <1>1, <1>3, <1>7 DEF TreeOf
  <2> QED BY <1>5, <2>1, SplitHolds
<1>8. Inserted(capacity, tree, e) = IF tree.children # <<>> THEN InsertedInChild(tree, e)
                                   ELSE IF Len(longer.items) > capacity THEN Split(longer)
                                   ELSE longer
  BY <1>1 DEF Inserted
<1>9. CASE tree.children # <<>>
  BY <1>2, <1>6, <1>8, <1>9
<1>10. CASE tree.children = <<>>
  BY <1>2, <1>5, <1>7, <1>8, <1>10
<1> QED BY <1>9, <1>10

LEMMA EntriesType ==
  ASSUME NEW boxes \in Seq(BoxType)
  PROVE  /\ Entries(boxes) \in Seq(EntryType(boxes)) /\ Len(Entries(boxes)) = Len(boxes)
         /\ \A i \in DOMAIN boxes : Entries(boxes)[i].index = i
<1>1. PICK n \in Nat : n = Len(boxes) /\ DOMAIN boxes = 1..n
  OBVIOUS
<1>2. PICK all : all = Entries(boxes)
  OBVIOUS
<1>3. all = [i \in 1..n |-> [index |-> i, box |-> boxes[i]]]
  BY <1>1, <1>2 DEF Entries
<1> DEFINE E == EntryType(boxes)
<1>4. \A i \in 1..n : all[i] \in E /\ all[i].index = i
  BY <1>1, <1>3 DEF EntryType
<1> HIDE DEF E
<1>5. all \in [1..n -> E]
  BY <1>3, <1>4
<1>6. all \in Seq(E) /\ Len(all) = n
  BY <1>5
<1> QED BY <1>1, <1>2, <1>4, <1>6 DEF E

\* The tree that is built holds all the boxes.
LEMMA BuiltHolds ==
  ASSUME NEW capacity, NEW boxes \in Seq(BoxType)
  PROVE  Holds(Built(boxes, capacity), boxes, DOMAIN boxes)
<1>1. PICK n \in Nat : n = Len(boxes) /\ DOMAIN boxes = 1..n
  OBVIOUS
<1>2. PICK E : E = EntryType(boxes)
  OBVIOUS
<1>3. \A box \in BoxType : /\ EmptyTree(box) \in TreeOf(E) /\ EmptyTree(box).box = box
                           /\ \A k \in 0..Len(EmptyTree(box).children) :
                                Shelf(EmptyTree(box), k) = <<>>
  <2> SUFFICES ASSUME NEW box \in BoxType
               PROVE  /\ EmptyTree(box) \in TreeOf(E) /\ EmptyTree(box).box = box
                      /\ \A k \in 0..Len(EmptyTree(box).children) : Shelf(EmptyTree(box), k) = <<>>
    OBVIOUS
  <2>1. PICK tree : tree = EmptyTree(box)
    OBVIOUS
  <2>2. tree \in TreeOf(E) /\ tree.box = box /\ tree.items = <<>> /\ tree.children = <<>>
    BY <2>1 DEF EmptyTree, TreeOf
  <2>3. \A k \in 0..Len(tree.children) : k = 0
    BY <2>2
  <2>4. \A k \in 0..Len(tree.children) : Shelf(tree, k) = <<>>
    BY <2>2, <2>3 DEF Shelf
  <2> QED BY <2>1, <2>2, <2>4
<1>4. CASE boxes = <<>>
  <2>1. PICK box : box = [min |-> <<-1, -1>>, max |-> <<1, 1>>]
    OBVIOUS
  <2>2. box \in BoxType
    BY <2>1 DEF BoxType, PointType
  <2>3. PICK tree : tree = EmptyTree(box)
    OBVIOUS
  <2>4. tree \in TreeOf(E) /\ \A k \in 0..Len(tree.children) : Shelf(tree, k) = <<>>
    BY <1>3, <2>2, <2>3
  <2>5. DOMAIN boxes = {}
    BY <1>4
  <2>6. Holds(tree, boxes, {})
    BY <1>2, <2>4, <2>5, HoldsNothing
  <2>7. Built(boxes, capacity) = tree
    BY <1>4, <2>1, <2>3 DEF Built
  <2> QED BY <2>5, <2>6, <2>7
<1>5. CASE boxes # <<>>
  <2>1. PICK box \in BoxType : box = Around(boxes) /\ \A i \in DOMAIN boxes : Encloses(box, boxes[i])
    BY <1>5, AroundEncloses
  <2>2. PICK T : T = TreeOf(E)
    OBVIOUS
  <2>3. PICK base \in T : base = EmptyTree(box) /\ base.box = box
                          /\ \A k \in 0..Len(base.children) : Shelf(base, k) = <<>>
    BY <1>3, <2>2
  <2>4. PICK seq \in Seq(E) : seq = Entries(boxes) /\ Len(seq) = n /\ \A i \in 1..n : seq[i].index = i
    BY <1>1, <1>2, EntriesType
  <2>5. \A e \in E : \A t \in T : Inserted(capacity, t, e) \in T
    BY <2>2, InsertedType
  <2>6. \E G : GrowWalk(capacity, T, base, seq, G) /\ GrowFold(capacity, base, seq) = G[Len(seq)]
    BY <2>5, GrowWalks
  <2>7. PICK G : GrowWalk(capacity, T, base, seq, G) /\ GrowFold(capacity, base, seq) = G[n]
    BY <2>4, <2>6
  <2>8. G[0] = base /\ \A i \in 1..n : G[i] = Inserted(capacity, G[i - 1], seq[i])
    BY <2>4, <2>7 DEF GrowWalk
  <2> DEFINE P == {i \in 0..n : Holds(G[i], boxes, 1..i)}
  <2>9. 0 \in P
    <3>1. Holds(base, boxes, {})
      BY <1>2, <2>1, <2>2, <2>3, HoldsNothing
    <3>2. 1..0 = {} /\ 0 \in 0..n
      BY <1>1
    <3>3. Holds(G[0], boxes, 1..0)
      BY <2>8, <3>1, <3>2
    <3> QED BY <3>2, <3>3
  <2>10. ASSUME NEW i \in 1..n, i - 1 \in P PROVE i \in P
    <3>1. PICK A : A = 1..(i - 1)
      OBVIOUS
    <3>2. PICK t : t = G[i - 1]
      OBVIOUS
    <3>3. Holds(t, boxes, A)
      BY <2>10, <3>1, <3>2
    <3>4. PICK e \in E : e = seq[i] /\ e.index = i
      BY <2>4
    <3>5. e.index \notin A /\ A \cup {e.index} = 1..i
      BY <3>1, <3>4
    <3>6. Holds(Inserted(capacity, t, e), boxes, A \cup {e.index})
      BY <1>2, <3>3, <3>5, InsertedHolds
    <3>7. Holds(G[i], boxes, 1..i)
      BY <2>8, <3>2, <3>4, <3>5, <3>6
    <3>8. i \in 0..n
      OBVIOUS
    <3> QED BY <3>7, <3>8
  <2>11. n \in P
    <3> HIDE DEF P
    <3>1. \A i \in 0..n : i \in P
      BY <2>9, <2>10, Upwards
    <3> QED BY <1>1, <3>1
  <2>12. Built(boxes, capacity) = G[n]
    BY <1>5, <2>1, <2>3, <2>4, <2>7 DEF Built, GrowFold
  <2> QED BY <1>1, <2>11, <2>12
<1> QED BY <1>4, <1>5

(***************************************************************************)
(* The search                                                              *)
(***************************************************************************)

\* What is found of the entries with indices in D.
Found(out, boxes, region, D) ==
  /\ out \in Seq(DOMAIN boxes)
  /\ \A p, q \in DOMAIN out : out[p] = out[q] => p = q
  /\ \A i : (\E p \in DOMAIN out : out[p] = i) <=> i \in D /\ Overlaps(boxes[i], region)

LEMMA NotedFinds ==
  ASSUME NEW boxes \in Seq(BoxType), NEW region, NEW out, NEW D, Found(out, boxes, region, D),
         NEW e \in EntryType(boxes), e.index \notin D
  PROVE  Found(Noted(region, out, e), boxes, region, D \cup {e.index})
<1>1. PICK i \in DOMAIN boxes : i = e.index /\ e.box = boxes[i]
  BY EntryFields
<1>2. PICK I : I = DOMAIN boxes
  OBVIOUS
<1>3. out \in Seq(I) /\ i \in I
  BY <1>1, <1>2 DEF Found
<1>4. PICK n \in Nat : n = Len(out) /\ DOMAIN out = 1..n
  BY <1>3
<1>5. /\ \A p, q \in 1..n : out[p] = out[q] => p = q
      /\ \A j : (\E p \in 1..n : out[p] = j) <=> j \in D /\ Overlaps(boxes[j], region)
  BY <1>4 DEF Found
<1>6. PICK C : C = D \cup {i}
  OBVIOUS
<1>7. CASE Overlaps(boxes[i], region)
  <2>1. PICK longer : longer = Append(out, i)
    OBVIOUS
  <2>2. /\ longer \in Seq(I) /\ DOMAIN longer = 1..(n + 1) /\ longer[n + 1] = i
        /\ \A p \in 1..n : longer[p] = out[p]
    BY <1>3, <1>4, <2>1
  <2>3. Noted(region, out, e) = longer
    BY <1>1, <1>7, <2>1 DEF Noted
  <2>4. \A p : p \in 1..(n + 1) <=> p \in 1..n \/ p = n + 1
    OBVIOUS
  <2>5. \A p \in 1..n : out[p] # i
    BY <1>1, <1>5
  <2>6. ASSUME NEW p \in 1..(n + 1), NEW q \in 1..(n + 1), longer[p] = longer[q] PROVE p = q
    <3>1. CASE p \in 1..n /\ q \in 1..n
      BY <1>5, <2>2, <2>6, <3>1
    <3>2. CASE p \in 1..n /\ q = n + 1
      BY <2>2, <2>5, <2>6, <3>2
    <3>3. CASE p = n + 1 /\ q \in 1..n
      BY <2>2, <2>5, <2>6, <3>3
    <3>4. CASE p = n + 1 /\ q = n + 1
      BY <3>4
    <3> QED BY <2>4, <3>1, <3>2, <3>3, <3>4
  <2>7. ASSUME NEW j
        PROVE  (\E p \in 1..(n + 1) : longer[p] = j) <=> j \in C /\ Overlaps(boxes[j], region)
    <3>1. (\E p \in 1..(n + 1) : longer[p] = j) <=> (\E p \in 1..n : out[p] = j) \/ j = i
      BY <2>2, <2>4
    <3> QED BY <1>5, <1>6, <1>7, <3>1
  <2>8. Found(longer, boxes, region, C)
    BY <1>2, <2>2, <2>6, <2>7 DEF Found
  <2> QED BY <1>1, <1>6, <2>3, <2>8
<1>8. CASE ~ Overlaps(boxes[i], region)
  <2>1. Noted(region, out, e) = out
    BY <1>1, <1>8 DEF Noted
  <2>2. \A j : (\E p \in 1..n : out[p] = j) <=> j \in C /\ Overlaps(boxes[j], region)
    BY <1>5, <1>6, <1>8
  <2>3. Found(out, boxes, region, C)
    BY <1>2, <1>3, <1>4, <1>5, <2>2 DEF Found
  <2> QED BY <1>1, <1>6, <2>1, <2>3
<1> QED BY <1>7, <1>8

LEMMA NotedType ==
  ASSUME NEW boxes \in Seq(BoxType), NEW region, NEW out \in Seq(DOMAIN boxes),
         NEW e \in EntryType(boxes)
  PROVE  Noted(region, out, e) \in Seq(DOMAIN boxes)
<1>1. PICK i, I : i = e.index /\ I = DOMAIN boxes /\ i \in I
  BY EntryFields
<1>2. Append(out, i) \in Seq(I)
  BY <1>1
<1> QED BY <1>1, <1>2 DEF Noted

\* The entries of a node, in its box.
Leaf(node, boxes) ==
  /\ node.box \in BoxType /\ node.items \in Seq(EntryType(boxes))
  /\ \A j \in DOMAIN node.items : Encloses(node.box, node.items[j].box)

Marks(items) == {items[j].index : j \in DOMAIN items}

LEMMA NodeWalks ==
  ASSUME NEW boxes \in Seq(BoxType), NEW region, NEW out \in Seq(DOMAIN boxes),
         NEW items \in Seq(EntryType(boxes))
  PROVE  \E G : /\ NoteWalk(region, Seq(DOMAIN boxes), out, items, G)
               /\ NoteFold(region, out, items) = G[Len(items)]
<1>1. PICK T : T = Seq(DOMAIN boxes)
  OBVIOUS
<1>2. PICK E : E = EntryType(boxes)
  OBVIOUS
<1>3. out \in T /\ items \in Seq(E)
  BY <1>1, <1>2
<1>4. \A e \in E : \A t \in T : Noted(region, t, e) \in T
  BY <1>1, <1>2, NotedType
<1>5. \E G : /\ NoteWalk(region, T, out, items, G)
            /\ NoteFold(region, out, items) = G[Len(items)]
  BY <1>3, <1>4, NoteWalks
<1> QED BY <1>1, <1>5

LEMMA SearchedIs ==
  ASSUME NEW region, NEW out, NEW node
  PROVE  Searched(region, out, node) = IF ~ Overlaps(node.box, region) THEN out
                                       ELSE NoteFold(region, out, node.items)
BY DEF Searched, NoteFold

LEMMA SearchedType ==
  ASSUME NEW boxes \in Seq(BoxType), NEW region, NEW out \in Seq(DOMAIN boxes), NEW node,
         node.items \in Seq(EntryType(boxes))
  PROVE  Searched(region, out, node) \in Seq(DOMAIN boxes)
<1>1. PICK items \in Seq(EntryType(boxes)) : items = node.items
  OBVIOUS
<1>2. PICK G : /\ NoteWalk(region, Seq(DOMAIN boxes), out, items, G)
               /\ NoteFold(region, out, items) = G[Len(items)]
  BY NodeWalks
<1>3. PICK n \in Nat : n = Len(items) /\ n \in 0..n
  OBVIOUS
<1>4. NoteFold(region, out, items) \in Seq(DOMAIN boxes)
  BY <1>2, <1>3 DEF NoteWalk
<1> QED BY <1>1, <1>4, SearchedIs

\* A node is searched: what overlaps the region is found, and nothing is if the
\* node is passed by.
LEMMA SearchedFinds ==
  ASSUME NEW boxes \in Seq(BoxType), NEW region \in BoxType, NEW out, NEW D,
         Found(out, boxes, region, D), NEW node, Leaf(node, boxes),
         \A j \in DOMAIN node.items : node.items[j].index \notin D,
         \A j, l \in DOMAIN node.items : node.items[j].index = node.items[l].index => j = l
  PROVE  Found(Searched(region, out, node), boxes, region, D \cup Marks(node.items))
<1>1. PICK E : E = EntryType(boxes)
  OBVIOUS
<1>2. PICK items \in Seq(E) : items = node.items
  BY <1>1 DEF Leaf
<1>3. PICK n \in Nat : n = Len(items) /\ DOMAIN items = 1..n
  OBVIOUS
<1>4. PICK C : C = D \cup Marks(items)
  OBVIOUS
<1>5. CASE ~ Overlaps(node.box, region)
  <2>1. ASSUME NEW j \in 1..n
        PROVE  items[j].index \in DOMAIN boxes /\ ~ Overlaps(boxes[items[j].index], region)
    <3>1. PICK e \in E : e = items[j]
      BY <1>3
    <3>2. e.index \in DOMAIN boxes /\ e.box = boxes[e.index] /\ e.box \in BoxType
      BY <1>1, <3>1, EntryFields
    <3>3. PICK a \in BoxType, b \in BoxType : a = node.box /\ b = e.box
      BY <3>2 DEF Leaf
    <3>4. Encloses(a, b)
      BY <1>2, <1>3, <3>1, <3>3 DEF Leaf
    <3>5. ~ Overlaps(b, region)
      BY <1>5, <3>3, <3>4, EnclosingOverlaps
    <3> QED BY <3>1, <3>2, <3>3, <3>5
  <2>2. \A i : i \in C /\ Overlaps(boxes[i], region) <=> i \in D /\ Overlaps(boxes[i], region)
    BY <1>3, <1>4, <2>1 DEF Marks
  <2>3. Found(out, boxes, region, C)
    BY <2>2 DEF Found
  <2>4. Searched(region, out, node) = out
    BY <1>5, SearchedIs
  <2> QED BY <1>2, <1>4, <2>3, <2>4
<1>6. CASE Overlaps(node.box, region)
  <2>1. out \in Seq(DOMAIN boxes)
    BY DEF Found
  <2>2. PICK G : /\ NoteWalk(region, Seq(DOMAIN boxes), out, items, G)
                 /\ NoteFold(region, out, items) = G[n]
    BY <1>1, <1>3, <2>1, NodeWalks
  <2>3. G[0] = out /\ \A i \in 1..n : G[i] = Noted(region, G[i - 1], items[i])
    BY <1>3, <2>2 DEF NoteWalk
  <2> DEFINE Seen(i) == D \cup {items[j].index : j \in 1..i}
             P == {i \in 0..n : Found(G[i], boxes, region, Seen(i))}
  <2>4. 0 \in P
    <3>1. Seen(0) = D /\ 0 \in 0..n
      OBVIOUS
    <3> HIDE DEF Seen
    <3>2. Found(G[0], boxes, region, Seen(0))
      BY <2>3, <3>1
    <3> QED BY <3>1, <3>2
  <2>5. ASSUME NEW i \in 1..n, i - 1 \in P PROVE i \in P
    <3>1. PICK A, t : A = Seen(i - 1) /\ t = G[i - 1]
      OBVIOUS
    <3>2. Found(t, boxes, region, A)
      BY <2>5, <3>1
    <3>3. PICK e \in E : e = items[i]
      BY <1>3
    <3>4. e.index \notin A
      <4>1. ASSUME NEW j \in 1..(i - 1) PROVE items[j].index # items[i].index
        <5>1. j \in DOMAIN items /\ i \in DOMAIN items /\ j # i
          BY <1>3
        <5> QED BY <1>2, <5>1
      <4>2. items[i].index \notin D
        BY <1>2, <1>3
      <4> QED BY <3>1, <3>3, <4>1, <4>2
    <3>5. Found(Noted(region, t, e), boxes, region, A \cup {e.index})
      BY <1>1, <3>2, <3>4, NotedFinds
    <3>6. Seen(i) = A \cup {e.index}
      <4>1. \A j : j \in 1..i <=> j \in 1..(i - 1) \/ j = i
        OBVIOUS
      <4> QED BY <3>1, <3>3, <4>1
    <3>7. i \in 0..n
      OBVIOUS
    <3> HIDE DEF Seen
    <3>8. Found(G[i], boxes, region, Seen(i))
      BY <2>3, <3>1, <3>3, <3>5, <3>6
    <3> QED BY <3>7, <3>8
  <2>6. n \in P
    <3> HIDE DEF P
    <3>1. \A i \in 0..n : i \in P
      BY <2>4, <2>5, Upwards
    <3> QED BY <1>3, <3>1
  <2>7. Seen(n) = C
    BY <1>3, <1>4 DEF Marks
  <2>8. Searched(region, out, node) = G[n]
    BY <1>2, <1>6, <2>2, SearchedIs
  <2> QED BY <1>2, <1>4, <2>6, <2>7, <2>8
<1> QED BY <1>5, <1>6

\* The root and the children of a tree that holds all boxes, as leaves.
LEMMA RootIsLeaf ==
  ASSUME NEW boxes \in Seq(BoxType), NEW tree, NEW D, Holds(tree, boxes, D)
  PROVE  Leaf(tree, boxes)
<1>1. tree.box \in BoxType /\ tree.items \in Seq(EntryType(boxes))
  BY TreeFields DEF Holds
<1>2. ASSUME NEW j \in DOMAIN tree.items PROVE Encloses(tree.box, tree.items[j].box)
  <2>1. PICK e \in EntryType(boxes) : e = tree.items[j]
    BY <1>1
  <2>2. e.index \in DOMAIN boxes /\ e.box = boxes[e.index]
    BY EntryFields
  <2> QED BY <2>1, <2>2 DEF Holds
<1> QED BY <1>1, <1>2 DEF Leaf

LEMMA ChildIsLeaf ==
  ASSUME NEW boxes \in Seq(BoxType), NEW tree, NEW D, Holds(tree, boxes, D),
         NEW k \in 1..Len(tree.children)
  PROVE  Leaf(tree.children[k], boxes) /\ tree.children[k].items = Shelf(tree, k)
<1>1. PICK E : E = EntryType(boxes)
  OBVIOUS
<1>2. tree \in TreeOf(E)
  BY <1>1 DEF Holds
<1>3. PICK node \in NodeOf(E) : node = tree.children[k]
  BY <1>2, TreeFields
<1>4. node.box \in BoxType /\ node.items \in Seq(E)
  BY DEF NodeOf
<1>5. k # 0
  BY <1>2, TreeFields
<1>6. node.items = Shelf(tree, k)
  BY <1>3, <1>5 DEF Shelf
<1>7. \A j \in DOMAIN node.items : Encloses(node.box, node.items[j].box)
  BY <1>3, <1>6 DEF Holds
<1> QED BY <1>1, <1>3, <1>4, <1>6, <1>7 DEF Leaf

\* No two places have the same entry.
LEMMA ShelvesApart ==
  ASSUME NEW boxes, NEW tree, NEW D, Holds(tree, boxes, D), NEW k \in 0..Len(tree.children)
  PROVE  /\ \A j, l \in DOMAIN Shelf(tree, k) :
              Shelf(tree, k)[j].index = Shelf(tree, k)[l].index => j = l
         /\ \A i : i \in Marks(Shelf(tree, k)) <=> \E j : On(tree, i, k, j)
<1>1. \A i, j, l : On(tree, i, k, j) /\ On(tree, i, k, l) => j = l
  BY DEF Holds
<1>2. ASSUME NEW j \in DOMAIN Shelf(tree, k), NEW l \in DOMAIN Shelf(tree, k),
             Shelf(tree, k)[j].index = Shelf(tree, k)[l].index
      PROVE  j = l
  <2>1. PICK i : i = Shelf(tree, k)[j].index
    OBVIOUS
  <2>2. On(tree, i, k, j) /\ On(tree, i, k, l)
    BY <1>2, <2>1 DEF On
  <2> QED BY <1>1, <2>2
<1>3. \A i : i \in Marks(Shelf(tree, k)) <=> \E j : On(tree, i, k, j)
  BY DEF Marks, On
<1> QED BY <1>2, <1>3

\* A search of the whole tree.
LEMMA QueryFinds ==
  ASSUME NEW boxes \in Seq(BoxType), NEW region \in BoxType, NEW tree,
         Holds(tree, boxes, DOMAIN boxes)
  PROVE  Found(Query(tree, region), boxes, region, DOMAIN boxes)
<1>1. PICK E : E = EntryType(boxes)
  OBVIOUS
<1>2. tree \in TreeOf(E)
  BY <1>1 DEF Holds
<1>3. PICK n \in Nat : n = Len(tree.children) /\ DOMAIN tree.children = 1..n
  BY <1>2, TreeFields
<1>4. Found(<<>>, boxes, region, {})
  <2>1. <<>> \in Seq(DOMAIN boxes) /\ \A p : p \notin DOMAIN <<>>
    OBVIOUS
  <2> QED BY <2>1 DEF Found
<1>5. CASE ~ Overlaps(tree.box, region)
  <2>1. ASSUME NEW i \in DOMAIN boxes PROVE ~ Overlaps(boxes[i], region)
    <3>1. PICK a \in BoxType, b \in BoxType : a = tree.box /\ b = boxes[i]
      BY <1>2, TreeFields
    <3>2. Encloses(a, b)
      BY <3>1 DEF Holds
    <3> QED BY <1>5, <3>1, <3>2, EnclosingOverlaps
  <2>2. Found(<<>>, boxes, region, DOMAIN boxes)
    BY <1>4, <2>1 DEF Found
  <2>3. Query(tree, region) = <<>>
    BY <1>5 DEF Query
  <2> QED BY <2>2, <2>3
<1>6. CASE Overlaps(tree.box, region)
  <2> DEFINE Seen(k) == {i \in DOMAIN boxes : \E l \in 0..k : \E j : On(tree, i, l, j)}
  <2>1. /\ \A i, k, j : On(tree, i, k, j) => i \in DOMAIN boxes
        /\ \A i \in DOMAIN boxes : \E k, j : On(tree, i, k, j)
        /\ \A i, k, j, l, m : On(tree, i, k, j) /\ On(tree, i, l, m) => k = l /\ j = m
    BY DEF Holds
  <2>2. PICK first : first = Searched(region, <<>>, tree)
    OBVIOUS
  <2>3. Found(first, boxes, region, Seen(0))
    <3>1. Leaf(tree, boxes)
      BY RootIsLeaf
    <3>2. tree.items = Shelf(tree, 0) /\ 0 \in 0..Len(tree.children)
      BY <1>3 DEF Shelf
    <3>3. PICK k : k = 0
      OBVIOUS
    <3>4. /\ \A j, l \in DOMAIN tree.items : tree.items[j].index = tree.items[l].index => j = l
          /\ \A i : i \in Marks(tree.items) <=> \E j : On(tree, i, k, j)
      BY <3>2, <3>3, ShelvesApart
    <3>5. PICK none : none = {}
      OBVIOUS
    <3>6. PICK out : out = <<>>
      OBVIOUS
    <3>7. Found(out, boxes, region, none)
      BY <1>4, <3>5, <3>6
    <3>8. \A j \in DOMAIN tree.items : tree.items[j].index \notin none
      BY <3>5
    <3>9. Found(Searched(region, out, tree), boxes, region, none \cup Marks(tree.items))
      BY <3>1, <3>4, <3>7, <3>8, SearchedFinds
    <3>10. Seen(0) = none \cup Marks(tree.items)
      <4>1. \A l : l \in 0..0 <=> l = k
        BY <3>3
      <4>2. Seen(0) = {i \in DOMAIN boxes : \E j : On(tree, i, k, j)}
        BY <4>1, Zenon
      <4>3. Seen(0) = Marks(tree.items)
        <5> HIDE DEF Seen
        <5> QED BY <2>1, <3>4, <4>2, Zenon
      <4> HIDE DEF Seen
      <4> QED BY <3>5, <4>3
    <3> HIDE DEF Seen
    <3> QED BY <2>2, <3>6, <3>9, <3>10
  <2>4. PICK T : T = Seq(DOMAIN boxes)
    OBVIOUS
  <2>5. first \in T
    BY <2>3, <2>4 DEF Found
  <2>6. PICK S : S = {node \in NodeOf(E) : node.items \in Seq(EntryType(boxes))}
    OBVIOUS
  <2>7. PICK nodes \in Seq(S) : nodes = tree.children
    <3>1. tree.children \in Seq(NodeOf(E))
      BY <1>2, TreeFields
    <3>2. S = NodeOf(E)
      BY <1>1, <2>6 DEF NodeOf
    <3> QED BY <3>1, <3>2
  <2>8. \A e \in S : \A t \in T : Searched(region, t, e) \in T
    BY <2>4, <2>6, SearchedType
  <2>9. \E G : /\ VisitWalk(region, T, first, nodes, G)
              /\ VisitFold(region, first, nodes) = G[Len(nodes)]
    BY <2>5, <2>8, VisitWalks
  <2>10. PICK G : VisitWalk(region, T, first, nodes, G) /\ VisitFold(region, first, nodes) = G[n]
    BY <1>3, <2>7, <2>9
  <2>11. G[0] = first /\ \A k \in 1..n : G[k] = Searched(region, G[k - 1], nodes[k])
    BY <1>3, <2>7, <2>10 DEF VisitWalk
  <2> DEFINE P == {k \in 0..n : Found(G[k], boxes, region, Seen(k))}
  <2>12. 0 \in P
    <3>1. 0 \in 0..n
      OBVIOUS
    <3> HIDE DEF Seen
    <3> QED BY <2>3, <2>11, <3>1
  <2>13. ASSUME NEW k \in 1..n, k - 1 \in P PROVE k \in P
    <3>1. PICK A, t : A = Seen(k - 1) /\ t = G[k - 1]
      OBVIOUS
    <3>2. Found(t, boxes, region, A)
      BY <2>13, <3>1
    <3>3. PICK node : node = tree.children[k] /\ node = nodes[k]
      BY <2>7
    <3>4. Leaf(node, boxes) /\ node.items = Shelf(tree, k)
      BY <1>3, <3>3, ChildIsLeaf
    <3>5. /\ \A j, l \in DOMAIN node.items : node.items[j].index = node.items[l].index => j = l
          /\ \A i : i \in Marks(node.items) <=> \E j : On(tree, i, k, j)
      <4>1. k \in 0..Len(tree.children)
        BY <1>3
      <4> QED BY <3>4, <4>1, ShelvesApart
    <3>6. \A j \in DOMAIN node.items : node.items[j].index \notin A
      <4>1. ASSUME NEW j \in DOMAIN node.items, node.items[j].index \in A PROVE FALSE
        <5>1. PICK i : i = node.items[j].index
          OBVIOUS
        <5>2. PICK l \in 0..(k - 1) : \E m : On(tree, i, l, m)
          BY <3>1, <4>1, <5>1
        <5>3. i \in Marks(node.items)
          BY <5>1 DEF Marks
        <5>4. PICK p : On(tree, i, k, p)
          BY <3>5, <5>3
        <5>5. l = k
          BY <2>1, <5>2, <5>4
        <5> QED BY <5>5
      <4> QED BY <4>1
    <3>7. Found(Searched(region, t, node), boxes, region, A \cup Marks(node.items))
      BY <3>2, <3>4, <3>5, <3>6, SearchedFinds
    <3>8. Seen(k) = A \cup Marks(node.items)
      <4>1. \A l : l \in 0..k <=> l \in 0..(k - 1) \/ l = k
        OBVIOUS
      <4> QED BY <2>1, <3>1, <3>5, <4>1
    <3>9. k \in 0..n
      OBVIOUS
    <3> HIDE DEF Seen
    <3>10. Found(G[k], boxes, region, Seen(k))
      BY <2>11, <3>1, <3>3, <3>7, <3>8
    <3> QED BY <3>9, <3>10
  <2>14. n \in P
    <3> HIDE DEF P
    <3>1. \A k \in 0..n : k \in P
      BY <2>12, <2>13, Upwards
    <3> QED BY <1>3, <3>1
  <2>15. Seen(n) = DOMAIN boxes
    <3>1. \A i, l, j : On(tree, i, l, j) => l \in 0..n
      BY <1>3 DEF On
    <3> QED BY <2>1, <3>1
  <2>16. Query(tree, region) = G[n]
    BY <1>6, <2>2, <2>7, <2>10 DEF Query, VisitFold
  <2> QED BY <2>14, <2>15, <2>16
<1> QED BY <1>5, <1>6

\* A sequence without repetitions is as long as its set is large.
LEMMA EachOnce ==
  ASSUME NEW S, NEW out \in Seq(S), \A p, q \in DOMAIN out : out[p] = out[q] => p = q
  PROVE  Cardinality(ToSet(out)) = Len(out)
<1>1. PICK n \in Nat : n = Len(out) /\ DOMAIN out = 1..n
  OBVIOUS
<1>2. PICK R : R = ToSet(out)
  OBVIOUS
<1>3. R = {out[p] : p \in 1..n}
  BY <1>1, <1>2 DEF ToSet
<1>4. out \in [1..n -> R]
  BY <1>1, <1>3
<1>5. out \in Injection(1..n, R)
  BY <1>1, <1>4 DEF Injection, IsInjective
<1>6. out \in Surjection(1..n, R)
  BY <1>3, <1>4 DEF Surjection
<1>7. ExistsBijection(1..n, R)
  BY <1>5, <1>6 DEF ExistsBijection, Bijection
<1>8. Cardinality(R) = n
  BY <1>7, FS_CountingElements
<1> QED BY <1>1, <1>2, <1>8

\* Whatever boxes there are, however few a node may have before it is split, and
\* wherever one looks: a search finds what overlaps the region, and nothing else,
\* each thing once (Quadtree::build and query_region in spatial_tree.rs).
THEOREM SearchIsComplete ==
  ASSUME NEW boxes \in Seq(BoxType), NEW size, NEW region \in BoxType
  PROVE  Complete(boxes, size, region)
<1>1. PICK tree : tree = Built(boxes, size)
  OBVIOUS
<1>2. Holds(tree, boxes, DOMAIN boxes)
  BY <1>1, BuiltHolds
<1>3. PICK found : found = Query(tree, region)
  OBVIOUS
<1>4. Found(found, boxes, region, DOMAIN boxes)
  BY <1>2, <1>3, QueryFinds
<1>5. Cardinality(ToSet(found)) = Len(found)
  BY <1>4, EachOnce DEF Found
<1>6. \A i : i \in ToSet(found) <=> i \in DOMAIN boxes /\ Overlaps(boxes[i], region)
  <2>1. \A i : i \in ToSet(found) <=> \E p \in DOMAIN found : found[p] = i
    BY DEF ToSet
  <2> QED BY <1>4, <2>1 DEF Found
<1>7. ToSet(found) = {i \in DOMAIN boxes : Overlaps(boxes[i], region)}
  BY <1>6
<1> QED BY <1>1, <1>3, <1>5, <1>7 DEF Complete

(***************************************************************************)
(* The searches of a tick                                                  *)
(***************************************************************************)

\* The arcs that are on the air have an origin and a radius.
OnAir ==
  /\ Len(signals) \in Nat /\ DOMAIN signals = 1..Len(signals)
  /\ \A i \in DOMAIN signals : signals[i].origin \in PointType /\ signals[i].outer \in Int

\* The run has a place for every tick.
OnCourse == course \in DOMAIN Courses /\ now \in 0..(Len(Courses[course]) - 1)

LEMMA StaysOnCourse == Spec => []OnCourse
<1>1. Init => OnCourse
  <2> SUFFICES ASSUME Init PROVE OnCourse
    OBVIOUS
  <2>1. course \in DOMAIN Courses /\ now = 0
    BY DEF Init
  <2>2. Len(Courses[course]) \in Nat \ {0}
    BY <2>1, CoursesAssumption
  <2> QED BY <2>1, <2>2 DEF OnCourse
<1>2. OnCourse /\ [Next]_vars => OnCourse'
  <2> SUFFICES ASSUME OnCourse, [Next]_vars PROVE OnCourse'
    OBVIOUS
  <2>1. CASE UNCHANGED vars
    BY <2>1 DEF vars, OnCourse
  <2>2. CASE Next
    <3>1. now + 1 < Len(Courses[course])
      BY <2>2 DEF Next
    <3>2. now' = now + 1 /\ course' = course
      BY <2>2 DEF Next, Step, StepWith
    <3>3. Len(Courses[course]) \in Nat
      BY CoursesAssumption DEF OnCourse
    <3> QED BY <3>1, <3>2, <3>3 DEF OnCourse
  <2> QED BY <2>1, <2>2
<1> QED BY <1>1, <1>2, PTL DEF Spec

LEMMA ThingsStand ==
  ASSUME OnCourse
  PROVE  Standing(Here.bodies) /\ Standing(Here.ships) /\ Standing(Here.stations)
<1>1. now + 1 \in DOMAIN Courses[course]
  <2>1. Len(Courses[course]) \in Nat /\ DOMAIN Courses[course] = 1..Len(Courses[course])
    BY CoursesAssumption DEF OnCourse
  <2> QED BY <2>1 DEF OnCourse
<1> QED BY <1>1, CoursesAssumption DEF OnCourse, Here, Places

LEMMA CircleIsBox ==
  ASSUME NEW p \in PointType, NEW r \in Int
  PROVE  CircleBox(p, r) \in BoxType
BY DEF CircleBox, BoxType, PointType

LEMMA ListenersStand ==
  ASSUME OnCourse, NEW i \in DOMAIN Listeners(Here)
  PROVE  Listeners(Here)[i].pos \in PointType
<1>1. PICK ss : ss = Here.ships
  OBVIOUS
<1>2. PICK st : st = Here.stations
  OBVIOUS
<1>3. Standing(ss) /\ Standing(st)
  BY <1>1, <1>2, ThingsStand
<1>4. PICK n \in Nat : n = Len(ss) /\ DOMAIN ss = 1..n
  BY <1>3 DEF Standing
<1>5. PICK m \in Nat : m = Len(st) /\ DOMAIN st = 1..m
  BY <1>3 DEF Standing
<1>6. PICK F : F = [i_1 \in DOMAIN ss |-> Listener(ss[i_1].id, ss[i_1].pos, ss[i_1].faces, Turn \div 4, 10)]
  OBVIOUS
<1>7. PICK G : G = [i_1 \in DOMAIN st |-> Listener(st[i_1].id, st[i_1].pos, 0, Turn, 5)]
  OBVIOUS
<1>8. Listeners(Here) = F \o G
  BY <1>1, <1>2, <1>6, <1>7 DEF Listeners
<1>9. PICK T : T = {F[j] : j \in 1..n} \cup {G[j] : j \in 1..m}
  OBVIOUS
<1>10. F \in Seq(T) /\ G \in Seq(T)
  <2>1. F \in [1..n -> T]
    BY <1>4, <1>6, <1>9
  <2>2. G \in [1..m -> T]
    BY <1>5, <1>7, <1>9
  <2> QED BY <2>1, <2>2
<1>11. \A e \in T : e.pos \in PointType
  <2>1. ASSUME NEW j \in 1..n PROVE F[j].pos \in PointType
    <3>1. F[j].pos = ss[j].pos
      BY <1>4, <1>6 DEF Listener
    <3> QED BY <1>3, <1>4, <3>1 DEF Standing, PointType
  <2>2. ASSUME NEW j \in 1..m PROVE G[j].pos \in PointType
    <3>1. G[j].pos = st[j].pos
      BY <1>5, <1>7 DEF Listener
    <3> QED BY <1>3, <1>5, <3>1 DEF Standing, PointType
  <2> QED BY <1>9, <2>1, <2>2
<1>12. (F \o G)[i] \in T
  <2>1. i \in DOMAIN (F \o G)
    BY <1>8
  <2> QED BY <1>10, <2>1
<1> QED BY <1>8, <1>11, <1>12

\* At every tick the searches for the arcs over a listener, and for the bodies an
\* arc has come to, find all of them and nothing else.  That what is on the air
\* has an origin is taken for granted here: an echo of an arc that starts in the
\* very middle of a body has none, and the code divides by nought there, too
\* (clip_arc in signal.rs).
THEOREM SearchesFindAll == Spec => [](OnAir => SearchFindsAll)
<1>1. ASSUME OnCourse, OnAir PROVE SearchFindsAll
  <2>1. PICK arcs : arcs = signals
    OBVIOUS
  <2>2. PICK n \in Nat : /\ n = Len(arcs) /\ DOMAIN arcs = 1..n
                        /\ \A i \in 1..n : arcs[i].origin \in PointType /\ arcs[i].outer \in Int
    BY <1>1, <2>1 DEF OnAir
  <2>3. PICK bs : bs = Here.bodies
    OBVIOUS
  <2>4. PICK m \in Nat : DOMAIN bs = 1..m /\ \A i \in 1..m : bs[i].pos \in PointType
    BY <1>1, <2>3, ThingsStand DEF Standing, PointType
  <2>5. PICK rings : rings = [i \in DOMAIN arcs |-> CircleBox(arcs[i].origin, arcs[i].outer)]
    OBVIOUS
  <2>6. rings \in Seq(BoxType)
    <3>1. rings \in [1..n -> BoxType]
      BY <2>2, <2>5, CircleIsBox
    <3> QED BY <3>1
  <2>7. PICK things : things = [i \in DOMAIN bs |-> PointBox(bs[i].pos)]
    OBVIOUS
  <2>8. things \in Seq(BoxType)
    <3>1. \A p \in PointType : PointBox(p) \in BoxType
      BY DEF PointBox, BoxType
    <3>2. things \in [1..m -> BoxType]
      BY <2>4, <2>7, <3>1
    <3> QED BY <3>2
  <2>9. ASSUME NEW i \in DOMAIN Listeners(Here)
        PROVE  Complete(rings, SignalNode, CircleBox(Listeners(Here)[i].pos, 1))
    <3>1. CircleBox(Listeners(Here)[i].pos, 1) \in BoxType
      BY <1>1, ListenersStand, CircleIsBox
    <3> QED BY <2>6, <3>1, SearchIsComplete
  <2>10. ASSUME NEW i \in DOMAIN arcs
         PROVE  Complete(things, NodeSize, CircleBox(arcs[i].origin, arcs[i].outer))
    <3>1. CircleBox(arcs[i].origin, arcs[i].outer) \in BoxType
      BY <2>2, CircleIsBox
    <3> QED BY <2>8, <3>1, SearchIsComplete
  <2> QED BY <2>1, <2>3, <2>5, <2>7, <2>9, <2>10 DEF SearchFindsAll
<1>2. OnCourse => (OnAir => SearchFindsAll)
  BY <1>1
<1> QED BY <1>2, StaysOnCourse, PTL

(***************************************************************************)
(* Lists in order                                                          *)
(***************************************************************************)

\* What comes before i in the order of the keys.
Before(keys, i) == {j \in DOMAIN keys : keys[j] < keys[i] \/ (keys[j] = keys[i] /\ j < i)}
Place(keys, i) == Cardinality(Before(keys, i))

\* An order of the indices in which the keys do not fall.
InLine(order, keys, n) ==
  /\ n \in Nat /\ order \in [1..n -> DOMAIN keys]
  /\ \A j, k \in 1..n : j < k => keys[order[j]] <= keys[order[k]]

Keyed(keys) ==
  /\ IsFiniteSet(DOMAIN keys)
  /\ \A i \in DOMAIN keys : i \in Int /\ keys[i] \in Int

LEMMA LaterPlace ==
  ASSUME NEW keys, Keyed(keys), NEW i \in DOMAIN keys, NEW j \in DOMAIN keys,
         i \in Before(keys, j)
  PROVE  Place(keys, i) \in Nat /\ Place(keys, j) \in Nat /\ Place(keys, i) < Place(keys, j)
<1>1. PICK D : D = DOMAIN keys /\ IsFiniteSet(D) /\ \A x \in D : x \in Int /\ keys[x] \in Int
  BY DEF Keyed
<1>2. Before(keys, i) \in SUBSET Before(keys, j)
  <2>1. ASSUME NEW x \in Before(keys, i) PROVE x \in Before(keys, j)
    <3>1. x \in D /\ i \in D /\ j \in D
      BY <1>1 DEF Before
    <3>2. keys[x] < keys[i] \/ (keys[x] = keys[i] /\ x < i)
      BY DEF Before
    <3>3. keys[i] < keys[j] \/ (keys[i] = keys[j] /\ i < j)
      BY DEF Before
    <3>4. keys[x] < keys[j] \/ (keys[x] = keys[j] /\ x < j)
      BY <1>1, <3>1, <3>2, <3>3
    <3> QED BY <1>1, <3>1, <3>4 DEF Before
  <2> QED BY <2>1
<1>3. i \notin Before(keys, i)
  BY <1>1 DEF Before
<1>4. IsFiniteSet(Before(keys, j))
  <2>1. Before(keys, j) \in SUBSET D
    BY <1>1 DEF Before
  <2> QED BY <1>1, <2>1, FS_Subset
<1>5. IsFiniteSet(Before(keys, i)) /\ Cardinality(Before(keys, i)) <= Cardinality(Before(keys, j))
      /\ (Cardinality(Before(keys, i)) = Cardinality(Before(keys, j))
            => Before(keys, j) = Before(keys, i))
  BY <1>2, <1>4, FS_Subset
<1>6. Cardinality(Before(keys, i)) \in Nat /\ Cardinality(Before(keys, j)) \in Nat
  BY <1>4, <1>5, FS_CardinalityType
<1>7. Cardinality(Before(keys, i)) # Cardinality(Before(keys, j))
  BY <1>3, <1>5
<1> QED BY <1>5, <1>6, <1>7 DEF Place

LEMMA SomeBefore ==
  ASSUME NEW keys, Keyed(keys), NEW i \in DOMAIN keys, NEW j \in DOMAIN keys, i # j
  PROVE  i \in Before(keys, j) \/ j \in Before(keys, i)
<1>1. i \in Int /\ j \in Int /\ keys[i] \in Int /\ keys[j] \in Int
  BY DEF Keyed
<1> QED BY <1>1 DEF Before

LEMMA PlaceBelow ==
  ASSUME NEW keys, Keyed(keys), NEW i \in DOMAIN keys
  PROVE  Place(keys, i) \in Nat /\ Place(keys, i) < Cardinality(DOMAIN keys)
<1>1. PICK D : D = DOMAIN keys /\ IsFiniteSet(D) /\ \A x \in D : x \in Int /\ keys[x] \in Int
  BY DEF Keyed
<1>2. PICK n \in Nat : n = Cardinality(D)
  BY <1>1, FS_CardinalityType
<1>3. Before(keys, i) \in SUBSET D
  BY <1>1 DEF Before
<1>4. i \notin Before(keys, i)
  BY <1>1 DEF Before
<1>5. /\ IsFiniteSet(Before(keys, i)) /\ Cardinality(Before(keys, i)) <= Cardinality(D)
      /\ (Cardinality(Before(keys, i)) = Cardinality(D) => D = Before(keys, i))
  BY <1>1, <1>3, FS_Subset
<1>6. Cardinality(Before(keys, i)) \in Nat
  BY <1>5, FS_CardinalityType
<1>7. Cardinality(Before(keys, i)) # n
  BY <1>1, <1>2, <1>4, <1>5
<1> QED BY <1>1, <1>2, <1>5, <1>6, <1>7 DEF Place

LEMMA PlacesDiffer ==
  ASSUME NEW keys, Keyed(keys), NEW i \in DOMAIN keys, NEW j \in DOMAIN keys,
         Place(keys, i) = Place(keys, j)
  PROVE  i = j
<1>1. SUFFICES ASSUME i # j PROVE FALSE
  OBVIOUS
<1>2. i \in Before(keys, j) \/ j \in Before(keys, i)
  BY <1>1, SomeBefore
<1>3. i \in Before(keys, j) => Place(keys, i) \in Nat /\ Place(keys, i) < Place(keys, j)
  BY LaterPlace
<1>4. j \in Before(keys, i) => Place(keys, j) \in Nat /\ Place(keys, j) < Place(keys, i)
  BY LaterPlace
<1>5. PICK p \in Nat : p = Place(keys, i) /\ p = Place(keys, j)
  BY PlaceBelow
<1> QED BY <1>2, <1>3, <1>4, <1>5

\* Every place is taken by one index.
LEMMA PlacesTaken ==
  ASSUME NEW keys, Keyed(keys), NEW k \in 1..Cardinality(DOMAIN keys)
  PROVE  \E i \in DOMAIN keys : Place(keys, i) = k - 1
<1>1. PICK D : D = DOMAIN keys /\ IsFiniteSet(D)
  BY DEF Keyed
<1>2. PICK n \in Nat : n = Cardinality(D)
  BY <1>1, FS_CardinalityType
<1>3. \A i \in D : Place(keys, i) \in Nat /\ Place(keys, i) < n
  BY <1>1, <1>2, PlaceBelow
<1>4. PICK R : R = 0..(n - 1)
  OBVIOUS
<1>5. IsFiniteSet(R) /\ Cardinality(R) = n
  BY <1>4, FS_Interval
<1>6. PICK f : f = [i \in D |-> Place(keys, i)]
  OBVIOUS
<1>7. f \in [D -> R] /\ \A i \in D : f[i] = Place(keys, i)
  BY <1>3, <1>4, <1>6
<1>8. ASSUME NEW i \in D, NEW j \in D, f[i] = f[j] PROVE i = j
  <2>1. Place(keys, i) = Place(keys, j)
    BY <1>7, <1>8
  <2> QED BY <1>1, <2>1, PlacesDiffer
<1>9. f \in Injection(D, R)
  BY <1>7, <1>8 DEF Injection, IsInjective
<1>10. f \in Surjection(D, R)
  BY <1>2, <1>5, <1>9, FS_Injection
<1>11. k - 1 \in R
  BY <1>1, <1>2, <1>4
<1>12. PICK i \in D : f[i] = k - 1
  BY <1>10, <1>11 DEF Surjection
<1> QED BY <1>1, <1>7, <1>12

\* The k-th in order has the k-th place, and everything comes at its place.
LEMMA InOrderPlaces ==
  ASSUME NEW keys, Keyed(keys), NEW order, order = InOrder(keys),
         NEW n, n = Cardinality(DOMAIN keys)
  PROVE  /\ order \in [1..n -> DOMAIN keys]
         /\ \A k \in 1..n : Place(keys, order[k]) = k - 1
         /\ \A i \in DOMAIN keys : Place(keys, i) + 1 \in 1..n /\ order[Place(keys, i) + 1] = i
<1>1. n \in Nat
  BY FS_CardinalityType DEF Keyed
<1>2. order = [k \in 1..n |-> CHOOSE i \in DOMAIN keys : Place(keys, i) = k - 1]
  BY DEF InOrder, Place, Before
<1>3. \A k \in 1..n : order[k] \in DOMAIN keys /\ Place(keys, order[k]) = k - 1
  <2> SUFFICES ASSUME NEW k \in 1..n
               PROVE  order[k] \in DOMAIN keys /\ Place(keys, order[k]) = k - 1
    OBVIOUS
  <2>1. \E i \in DOMAIN keys : Place(keys, i) = k - 1
    BY PlacesTaken
  <2> QED BY <1>2, <2>1
<1>4. order \in [1..n -> DOMAIN keys]
  BY <1>2, <1>3
<1>5. ASSUME NEW i \in DOMAIN keys
      PROVE  Place(keys, i) + 1 \in 1..n /\ order[Place(keys, i) + 1] = i
  <2>1. PICK p \in Nat : p = Place(keys, i) /\ p < n
    BY PlaceBelow
  <2>2. p + 1 \in 1..n /\ (p + 1) - 1 = p
    BY <1>1, <2>1
  <2>3. order[p + 1] \in DOMAIN keys /\ Place(keys, order[p + 1]) = Place(keys, i)
    BY <1>3, <2>1, <2>2
  <2>4. order[p + 1] = i
    BY <2>3, PlacesDiffer
  <2> QED BY <2>1, <2>2, <2>4
<1> QED BY <1>3, <1>4, <1>5

LEMMA InOrderIsInLine ==
  ASSUME NEW keys, Keyed(keys)
  PROVE  InLine(InOrder(keys), keys, Cardinality(DOMAIN keys))
<1>1. PICK n \in Nat : n = Cardinality(DOMAIN keys)
  BY FS_CardinalityType DEF Keyed
<1>2. PICK order : order = InOrder(keys)
  OBVIOUS
<1>3. order \in [1..n -> DOMAIN keys] /\ \A k \in 1..n : Place(keys, order[k]) = k - 1
  BY <1>1, <1>2, InOrderPlaces
<1>4. ASSUME NEW j \in 1..n, NEW k \in 1..n, j < k
      PROVE  keys[order[j]] <= keys[order[k]]
  <2>1. PICK x, y : x = order[j] /\ y = order[k]
    OBVIOUS
  <2>2. x \in DOMAIN keys /\ y \in DOMAIN keys /\ Place(keys, x) = j - 1 /\ Place(keys, y) = k - 1
    BY <1>3, <2>1
  <2>3. y \in Before(keys, x) => Place(keys, y) < Place(keys, x)
    BY <2>2, LaterPlace
  <2>4. y \notin Before(keys, x)
    BY <1>4, <2>2, <2>3
  <2>5. keys[x] \in Int /\ keys[y] \in Int /\ ~ (keys[y] < keys[x])
    BY <2>2, <2>4 DEF Before, Keyed
  <2> QED BY <2>1, <2>5
<1> QED BY <1>1, <1>2, <1>3, <1>4 DEF InLine

\* What is taken out of a list is of the list.
LEMMA ThoseAre ==
  ASSUME NEW m \in Nat, NEW things, DOMAIN things = 1..m, NEW which, which \subseteq DOMAIN things
  PROVE  Those(things, which) \in Seq({things[i] : i \in which})
<1>1. PICK S : S = {things[i] : i \in which}
  OBVIOUS
<1>2. PICK keys : keys = [i \in which |-> i]
  OBVIOUS
<1>3. Keyed(keys) /\ DOMAIN keys = which
  <2>1. IsFiniteSet(1..m) /\ which \in SUBSET (1..m)
    BY FS_Interval
  <2>2. IsFiniteSet(which)
    BY <2>1, FS_Subset
  <2> QED BY <1>2, <2>2 DEF Keyed
<1>4. PICK n, order : n = Cardinality(which) /\ order = InOrder(keys)
  OBVIOUS
<1>5. n \in Nat /\ order \in [1..n -> which]
  BY <1>3, <1>4, InOrderIsInLine DEF InLine
<1>6. Those(things, which) = [k \in 1..n |-> things[order[k]]]
  BY <1>2, <1>4, <1>5 DEF Those, At
<1>7. PICK out : out = Those(things, which)
  OBVIOUS
<1>8. \A k \in 1..n : things[order[k]] \in S
  BY <1>1, <1>5
<1>9. out \in [1..n -> S]
  BY <1>6, <1>7, <1>8
<1>10. out \in Seq(S)
  BY <1>5, <1>9
<1> QED BY <1>1, <1>7, <1>10

(***************************************************************************)
(* Lists of lists                                                          *)
(***************************************************************************)

LEMMA WalkExists ==
  ASSUME NEW n, NEW T, NEW base, NEW f, base \in T, Steps(f, T, n)
  PROVE  \E G : Walks(f, T, base, n, G)
<1>1. PICK g : RunsUpTo(f, T, base, n, g)
  BY RunExists
<1>2. Unfolds(f, T, base, n, g)
  BY <1>1 DEF RunsUpTo, Runs, Unfolds
<1> QED BY <1>2, RunOneByOne

\* FlattenSeq is a recursive function of the index.
Flattens(lists, h) ==
  h = [i \in 1..Len(lists) |-> IF i = 1 THEN lists[i] ELSE h[i - 1] \o lists[i]]

LongerBy(lists, S, G) ==
  /\ G \in [0..Len(lists) -> Seq(S)] /\ G[0] = <<>>
  /\ \A i \in 1..Len(lists) : G[i] = G[i - 1] \o lists[i]

LEMMA FlattenWalks ==
  ASSUME NEW S, NEW lists \in Seq(Seq(S))
  PROVE  \E G : LongerBy(lists, S, G) /\ FlattenSeq(lists) = G[Len(lists)]
<1>1. PICK n \in Nat : n = Len(lists) /\ DOMAIN lists = 1..n /\ \A i \in 1..n : lists[i] \in Seq(S)
  OBVIOUS
<1>2. PICK T : T = Seq(S)
  OBVIOUS
<1> DEFINE f == [i \in 1..n |-> [t \in T |-> t \o lists[i]]]
<1>3. \A i \in 1..n : \A t \in T : f[i][t] = t \o lists[i] /\ f[i][t] \in T
  BY <1>1, <1>2
<1> HIDE DEF f
<1>4. Steps(f, T, n)
  BY <1>3 DEF Steps
<1>5. PICK base \in T : base = <<>>
  <2>1. <<>> \in Seq(S)
    OBVIOUS
  <2> QED BY <1>2, <2>1
<1>6. PICK G : Walks(f, T, base, n, G)
  BY <1>4, WalkExists
<1>7. G \in [0..n -> T] /\ G[0] = <<>> /\ \A i \in 1..n : G[i] = G[i - 1] \o lists[i]
  <2>1. \A i \in 1..n : i - 1 \in 0..n
    OBVIOUS
  <2>2. G \in [0..n -> T] /\ G[0] = base /\ \A i \in 1..n : G[i] = f[i][G[i - 1]]
    BY <1>6 DEF Walks
  <2>3. \A i \in 1..n : G[i - 1] \in T
    BY <2>1, <2>2
  <2> QED BY <1>3, <1>5, <2>2, <2>3
<1>8. LongerBy(lists, S, G)
  BY <1>1, <1>2, <1>7 DEF LongerBy
<1>9. CASE n = 0
  <2>1. FlattenSeq(lists) = lists
    BY <1>1, <1>9 DEF FlattenSeq
  <2>2. lists = <<>>
    BY <1>1, <1>9
  <2> QED BY <1>1, <1>7, <1>8, <1>9, <2>1, <2>2
<1>10. CASE n # 0
  <2> DEFINE H == [i \in 1..n |-> G[i]]
  <2>1. \A i \in 1..n : G[i] = IF i = 1 THEN lists[i] ELSE G[i - 1] \o lists[i]
    <3>1. ASSUME NEW i \in 1..n, i = 1 PROVE G[i] = lists[i]
      <4>1. i - 1 = 0
        BY <3>1
      <4>2. G[i] = <<>> \o lists[i]
        BY <1>7, <4>1
      <4>3. lists[i] \in Seq(S)
        BY <1>1
      <4> QED BY <4>2, <4>3
    <3> QED BY <1>7, <3>1
  <2>2. \A i \in 1..n : i # 1 => i - 1 \in 1..n
    OBVIOUS
  <2>3. H = [i \in 1..n |-> IF i = 1 THEN lists[i] ELSE H[i - 1] \o lists[i]]
    BY <2>1, <2>2
  <2>4. Flattens(lists, H)
    BY <1>1, <2>3 DEF Flattens
  <2> HIDE DEF H
  <2>5. PICK h : h = CHOOSE k : Flattens(lists, k)
    OBVIOUS
  <2>6. Flattens(lists, h)
    BY <2>4, <2>5
  <2>7. \A i \in 1..n : h[i] = IF i = 1 THEN lists[i] ELSE h[i - 1] \o lists[i]
    BY <1>1, <2>6 DEF Flattens
  <2>8. PICK P : P = {i \in 0..n : i = 0 \/ h[i] = G[i]}
    OBVIOUS
  <2>9. \A i \in 0..n : i \in P
    <3>1. 0 \in P
      BY <2>8
    <3>2. ASSUME NEW i \in 1..n, i - 1 \in P PROVE i \in P
      BY <2>1, <2>7, <2>8, <3>2
    <3> QED BY <3>1, <3>2, Upwards
  <2>10. h[n] = G[n]
    BY <1>10, <2>8, <2>9
  <2>11. FlattenSeq(lists) = h[n]
    BY <1>1, <1>10, <2>5 DEF FlattenSeq, Flattens
  <2> QED BY <1>1, <1>8, <2>10, <2>11
<1> QED BY <1>9, <1>10

LEMMA FlattenType ==
  ASSUME NEW S, NEW lists \in Seq(Seq(S))
  PROVE  FlattenSeq(lists) \in Seq(S)
<1>1. PICK G : LongerBy(lists, S, G) /\ FlattenSeq(lists) = G[Len(lists)]
  BY FlattenWalks
<1>2. Len(lists) \in 0..Len(lists)
  OBVIOUS
<1> QED BY <1>1, <1>2 DEF LongerBy

\* From end to end of intervals.
EndFold(base, seq) == FoldLeft(PassedEnd, base, seq)

EndSums(base, seq, h) ==
  h = [s \in SUBSET (DOMAIN seq) |->
         IF s = {} THEN base ELSE PassedEnd(h[s \ {Max(s)}], seq[Max(s)])]

EndWalk(T, base, seq, G) ==
  /\ G \in [0..Len(seq) -> T] /\ G[0] = base
  /\ \A i \in 1..Len(seq) : G[i] = PassedEnd(G[i - 1], seq[i])

LEMMA EndWalks ==
  ASSUME NEW S, NEW seq \in Seq(S), NEW T, NEW base \in T,
         \A e \in S : \A t \in T : PassedEnd(t, e) \in T
  PROVE  \E G : /\ EndWalk(T, base, seq, G)
               /\ EndFold(base, seq) = G[Len(seq)]
<1>1. PICK n \in Nat : n = Len(seq) /\ DOMAIN seq = 1..n /\ \A i \in 1..n : seq[i] \in S
  OBVIOUS
<1> DEFINE f == [i \in 1..n |-> [t \in T |-> PassedEnd(t, seq[i])]]
<1>2. \A i \in 1..n : \A t \in T : f[i][t] = PassedEnd(t, seq[i]) /\ f[i][t] \in T
  BY <1>1
<1> HIDE DEF f
<1>3. Steps(f, T, n)
  BY <1>2 DEF Steps
<1>4. PICK g : RunsUpTo(f, T, base, n, g)
  BY <1>3, RunExists
<1>5. EndSums(base, seq, g)
  <2>1. ASSUME NEW s \in SUBSET (1..n), s # {}
        PROVE  g[s] = PassedEnd(g[s \ {Max(s)}], seq[Max(s)])
    <3>1. Top(s) = Max(s)
      BY DEF Top, Max
    <3>2. Top(s) \in 1..n /\ s \ {Top(s)} \in SUBSET (1..n)
      BY <2>1, TopIn
    <3>3. g[s \ {Top(s)}] \in T
      BY <1>4, <3>2 DEF Runs, RunsUpTo
    <3>4. g[s] = f[Top(s)][g[s \ {Top(s)}]]
      BY <1>4, <2>1 DEF Runs, RunsUpTo
    <3> QED BY <1>2, <3>1, <3>2, <3>3, <3>4
  <2>2. g = [s \in SUBSET (1..n) |-> g[s]] /\ g[{}] = base
    BY <1>4 DEF Runs, RunsUpTo
  <2> QED BY <1>1, <2>1, <2>2 DEF EndSums
<1> DEFINE h == CHOOSE c : EndSums(base, seq, c)
<1>6. EndSums(base, seq, h)
  BY <1>5
<1>7. EndFold(base, seq) = h[1..n]
  BY <1>1 DEF EndFold, FoldLeft, MapThenFoldSet, EndSums
<1> HIDE DEF h
<1>8. Unfolds(f, T, base, n, h)
  <2>1. \A s \in SUBSET (1..n) :
          h[s] = IF s = {} THEN base ELSE PassedEnd(h[s \ {Max(s)}], seq[Max(s)])
    <3>1. h = [s \in SUBSET (1..n) |->
                 IF s = {} THEN base ELSE PassedEnd(h[s \ {Max(s)}], seq[Max(s)])]
      BY <1>1, <1>6 DEF EndSums
    <3> QED BY <3>1
  <2>2. ASSUME NEW s \in SUBSET (1..n), s # {}, h[s \ {Top(s)}] \in T
        PROVE  h[s] = f[Top(s)][h[s \ {Top(s)}]]
    <3>1. Top(s) = Max(s)
      BY DEF Top, Max
    <3>2. Top(s) \in 1..n
      BY <2>2, TopIn
    <3>3. PICK i, t : i = Top(s) /\ t = h[s \ {Top(s)}]
      OBVIOUS
    <3>4. h[s] = PassedEnd(t, seq[i])
      BY <2>1, <2>2, <3>1, <3>3
    <3>5. f[i][t] = PassedEnd(t, seq[i])
      BY <1>2, <2>2, <3>2, <3>3
    <3> QED BY <3>3, <3>4, <3>5
  <2>3. h[{}] = base
    BY <2>1
  <2> QED BY <2>2, <2>3 DEF Unfolds
<1>9. PICK G : Walks(f, T, base, n, G) /\ G[n] = h[1..n]
  BY <1>3, <1>8, RunOneByOne
<1>10. EndWalk(T, base, seq, G)
  <2>1. \A i \in 1..n : G[i - 1] \in T
    <3>1. \A i \in 1..n : i - 1 \in 0..n
      OBVIOUS
    <3> QED BY <1>9, <3>1 DEF Walks
  <2>2. \A i \in 1..n : G[i] = PassedEnd(G[i - 1], seq[i])
    BY <1>2, <1>9, <2>1 DEF Walks
  <2> QED BY <1>1, <1>9, <2>2 DEF Walks, EndWalk
<1> QED BY <1>1, <1>7, <1>9, <1>10

\* From one hidden interval to the next.
GapFold(to, base, seq) == FoldLeft(LAMBDA t, e : PassedInterval(to, t, e), base, seq)

GapSums(to, base, seq, h) ==
  h = [s \in SUBSET (DOMAIN seq) |->
         IF s = {} THEN base ELSE PassedInterval(to, h[s \ {Max(s)}], seq[Max(s)])]

GapWalk(to, T, base, seq, G) ==
  /\ G \in [0..Len(seq) -> T] /\ G[0] = base
  /\ \A i \in 1..Len(seq) : G[i] = PassedInterval(to, G[i - 1], seq[i])

LEMMA GapWalks ==
  ASSUME NEW to, NEW S, NEW seq \in Seq(S), NEW T, NEW base \in T,
         \A e \in S : \A t \in T : PassedInterval(to, t, e) \in T
  PROVE  \E G : /\ GapWalk(to, T, base, seq, G)
               /\ GapFold(to, base, seq) = G[Len(seq)]
<1>1. PICK n \in Nat : n = Len(seq) /\ DOMAIN seq = 1..n /\ \A i \in 1..n : seq[i] \in S
  OBVIOUS
<1> DEFINE f == [i \in 1..n |-> [t \in T |-> PassedInterval(to, t, seq[i])]]
<1>2. \A i \in 1..n : \A t \in T : f[i][t] = PassedInterval(to, t, seq[i]) /\ f[i][t] \in T
  BY <1>1
<1> HIDE DEF f
<1>3. Steps(f, T, n)
  BY <1>2 DEF Steps
<1>4. PICK g : RunsUpTo(f, T, base, n, g)
  BY <1>3, RunExists
<1>5. GapSums(to, base, seq, g)
  <2>1. ASSUME NEW s \in SUBSET (1..n), s # {}
        PROVE  g[s] = PassedInterval(to, g[s \ {Max(s)}], seq[Max(s)])
    <3>1. Top(s) = Max(s)
      BY DEF Top, Max
    <3>2. Top(s) \in 1..n /\ s \ {Top(s)} \in SUBSET (1..n)
      BY <2>1, TopIn
    <3>3. g[s \ {Top(s)}] \in T
      BY <1>4, <3>2 DEF Runs, RunsUpTo
    <3>4. g[s] = f[Top(s)][g[s \ {Top(s)}]]
      BY <1>4, <2>1 DEF Runs, RunsUpTo
    <3> QED BY <1>2, <3>1, <3>2, <3>3, <3>4
  <2>2. g = [s \in SUBSET (1..n) |-> g[s]] /\ g[{}] = base
    BY <1>4 DEF Runs, RunsUpTo
  <2> QED BY <1>1, <2>1, <2>2 DEF GapSums
<1> DEFINE h == CHOOSE c : GapSums(to, base, seq, c)
<1>6. GapSums(to, base, seq, h)
  BY <1>5
<1>7. GapFold(to, base, seq) = h[1..n]
  BY <1>1 DEF GapFold, FoldLeft, MapThenFoldSet, GapSums
<1> HIDE DEF h
<1>8. Unfolds(f, T, base, n, h)
  <2>1. \A s \in SUBSET (1..n) :
          h[s] = IF s = {} THEN base ELSE PassedInterval(to, h[s \ {Max(s)}], seq[Max(s)])
    <3>1. h = [s \in SUBSET (1..n) |->
                 IF s = {} THEN base ELSE PassedInterval(to, h[s \ {Max(s)}], seq[Max(s)])]
      BY <1>1, <1>6 DEF GapSums
    <3> QED BY <3>1
  <2>2. ASSUME NEW s \in SUBSET (1..n), s # {}, h[s \ {Top(s)}] \in T
        PROVE  h[s] = f[Top(s)][h[s \ {Top(s)}]]
    <3>1. Top(s) = Max(s)
      BY DEF Top, Max
    <3>2. Top(s) \in 1..n
      BY <2>2, TopIn
    <3>3. PICK i, t : i = Top(s) /\ t = h[s \ {Top(s)}]
      OBVIOUS
    <3>4. h[s] = PassedInterval(to, t, seq[i])
      BY <2>1, <2>2, <3>1, <3>3
    <3>5. f[i][t] = PassedInterval(to, t, seq[i])
      BY <1>2, <2>2, <3>2, <3>3
    <3> QED BY <3>3, <3>4, <3>5
  <2>3. h[{}] = base
    BY <2>1
  <2> QED BY <2>2, <2>3 DEF Unfolds
<1>9. PICK G : Walks(f, T, base, n, G) /\ G[n] = h[1..n]
  BY <1>3, <1>8, RunOneByOne
<1>10. GapWalk(to, T, base, seq, G)
  <2>1. \A i \in 1..n : G[i - 1] \in T
    <3>1. \A i \in 1..n : i - 1 \in 0..n
      OBVIOUS
    <3> QED BY <1>9, <3>1 DEF Walks
  <2>2. \A i \in 1..n : G[i] = PassedInterval(to, G[i - 1], seq[i])
    BY <1>2, <1>9, <2>1 DEF Walks
  <2> QED BY <1>1, <1>9, <2>2 DEF Walks, GapWalk
<1> QED BY <1>1, <1>7, <1>9, <1>10

\* From obstacle to obstacle.
HitFold(origin, angle, base, seq) == FoldLeft(LAMBDA t, e : Nearer(origin, angle, t, e), base, seq)

HitSums(origin, angle, base, seq, h) ==
  h = [s \in SUBSET (DOMAIN seq) |->
         IF s = {} THEN base ELSE Nearer(origin, angle, h[s \ {Max(s)}], seq[Max(s)])]

HitWalk(origin, angle, T, base, seq, G) ==
  /\ G \in [0..Len(seq) -> T] /\ G[0] = base
  /\ \A i \in 1..Len(seq) : G[i] = Nearer(origin, angle, G[i - 1], seq[i])

LEMMA HitWalks ==
  ASSUME NEW origin, NEW angle, NEW S, NEW seq \in Seq(S), NEW T, NEW base \in T,
         \A e \in S : \A t \in T : Nearer(origin, angle, t, e) \in T
  PROVE  \E G : /\ HitWalk(origin, angle, T, base, seq, G)
               /\ HitFold(origin, angle, base, seq) = G[Len(seq)]
<1>1. PICK n \in Nat : n = Len(seq) /\ DOMAIN seq = 1..n /\ \A i \in 1..n : seq[i] \in S
  OBVIOUS
<1> DEFINE f == [i \in 1..n |-> [t \in T |-> Nearer(origin, angle, t, seq[i])]]
<1>2. \A i \in 1..n : \A t \in T : f[i][t] = Nearer(origin, angle, t, seq[i]) /\ f[i][t] \in T
  BY <1>1
<1> HIDE DEF f
<1>3. Steps(f, T, n)
  BY <1>2 DEF Steps
<1>4. PICK g : RunsUpTo(f, T, base, n, g)
  BY <1>3, RunExists
<1>5. HitSums(origin, angle, base, seq, g)
  <2>1. ASSUME NEW s \in SUBSET (1..n), s # {}
        PROVE  g[s] = Nearer(origin, angle, g[s \ {Max(s)}], seq[Max(s)])
    <3>1. Top(s) = Max(s)
      BY DEF Top, Max
    <3>2. Top(s) \in 1..n /\ s \ {Top(s)} \in SUBSET (1..n)
      BY <2>1, TopIn
    <3>3. g[s \ {Top(s)}] \in T
      BY <1>4, <3>2 DEF Runs, RunsUpTo
    <3>4. g[s] = f[Top(s)][g[s \ {Top(s)}]]
      BY <1>4, <2>1 DEF Runs, RunsUpTo
    <3> QED BY <1>2, <3>1, <3>2, <3>3, <3>4
  <2>2. g = [s \in SUBSET (1..n) |-> g[s]] /\ g[{}] = base
    BY <1>4 DEF Runs, RunsUpTo
  <2> QED BY <1>1, <2>1, <2>2 DEF HitSums
<1> DEFINE h == CHOOSE c : HitSums(origin, angle, base, seq, c)
<1>6. HitSums(origin, angle, base, seq, h)
  BY <1>5
<1>7. HitFold(origin, angle, base, seq) = h[1..n]
  BY <1>1 DEF HitFold, FoldLeft, MapThenFoldSet, HitSums
<1> HIDE DEF h
<1>8. Unfolds(f, T, base, n, h)
  <2>1. \A s \in SUBSET (1..n) :
          h[s] = IF s = {} THEN base ELSE Nearer(origin, angle, h[s \ {Max(s)}], seq[Max(s)])
    <3>1. h = [s \in SUBSET (1..n) |->
                 IF s = {} THEN base ELSE Nearer(origin, angle, h[s \ {Max(s)}], seq[Max(s)])]
      BY <1>1, <1>6 DEF HitSums
    <3> QED BY <3>1
  <2>2. ASSUME NEW s \in SUBSET (1..n), s # {}, h[s \ {Top(s)}] \in T
        PROVE  h[s] = f[Top(s)][h[s \ {Top(s)}]]
    <3>1. Top(s) = Max(s)
      BY DEF Top, Max
    <3>2. Top(s) \in 1..n
      BY <2>2, TopIn
    <3>3. PICK i, t : i = Top(s) /\ t = h[s \ {Top(s)}]
      OBVIOUS
    <3>4. h[s] = Nearer(origin, angle, t, seq[i])
      BY <2>1, <2>2, <3>1, <3>3
    <3>5. f[i][t] = Nearer(origin, angle, t, seq[i])
      BY <1>2, <2>2, <3>2, <3>3
    <3> QED BY <3>3, <3>4, <3>5
  <2>3. h[{}] = base
    BY <2>1
  <2> QED BY <2>2, <2>3 DEF Unfolds
<1>9. PICK G : Walks(f, T, base, n, G) /\ G[n] = h[1..n]
  BY <1>3, <1>8, RunOneByOne
<1>10. HitWalk(origin, angle, T, base, seq, G)
  <2>1. \A i \in 1..n : G[i - 1] \in T
    <3>1. \A i \in 1..n : i - 1 \in 0..n
      OBVIOUS
    <3> QED BY <1>9, <3>1 DEF Walks
  <2>2. \A i \in 1..n : G[i] = Nearer(origin, angle, G[i - 1], seq[i])
    BY <1>2, <1>9, <2>1 DEF Walks
  <2> QED BY <1>1, <1>9, <2>2 DEF Walks, HitWalk
<1> QED BY <1>1, <1>7, <1>9, <1>10

(***************************************************************************)
(* Hidden intervals                                                        *)
(***************************************************************************)

IntervalType == Int \X Int
Span(lo, hi) == {i \in IntervalType : lo <= i[1] /\ i[1] < i[2] /\ i[2] <= hi}

\* Intervals one after the other.
Ascending(out, lo, hi) ==
  /\ out \in Seq(IntervalType)
  /\ \A k \in DOMAIN out : lo <= out[k][1] /\ out[k][1] <= out[k][2] /\ out[k][2] <= hi
  /\ \A j, k \in DOMAIN out : j < k => out[j][2] <= out[k][1]

LEMMA NormalizedRange ==
  ASSUME NEW a \in Int
  PROVE  /\ Normalized(a) \in Int /\ -16 <= Normalized(a) /\ Normalized(a) <= 16
         /\ -16 <= a /\ a <= 16 => Normalized(a) = a
         /\ 16 < a /\ a <= 48 => Normalized(a) = a - 32
         /\ -48 <= a /\ a < -16 => Normalized(a) = a + 32
BY DEF Normalized, Turn, HalfTurn

LEMMA FewIn ==
  ASSUME NEW s, s \subseteq 1..4
  PROVE  Cardinality(s) \in Nat
<1>1. PICK a \in Int, b \in Int : a = 1 /\ b = 4
  OBVIOUS
<1>2. PICK r : r = a..b /\ IsFiniteSet(r)
  BY FS_Interval
<1>3. s \in SUBSET r
  BY <1>1, <1>2
<1>4. IsFiniteSet(s)
  BY <1>2, <1>3, FS_Subset
<1> QED BY <1>4, FS_CardinalityType

LEMMA AngleInt ==
  ASSUME NEW v
  PROVE  Angle(v) \in Int
<1>1. PICK s : s = {k \in 1..4 : 100 * Magnitude(v[2]) > Tangent[k] * Magnitude(v[1])}
  OBVIOUS
<1>2. Cardinality(s) \in Nat
  BY <1>1, FewIn
<1>3. PICK up \in Int : up = 2 * Cardinality(s)
  BY <1>2
<1>4. PICK right \in Int : right = IF v[1] >= 0 THEN up ELSE HalfTurn - up
  BY DEF HalfTurn
<1>5. Angle(v) = IF v[2] >= 0 THEN right ELSE -right
  BY <1>1, <1>3, <1>4 DEF Angle
<1> QED BY <1>5

LEMMA HalfAngleInt ==
  ASSUME NEW radius, NEW d
  PROVE  HalfAngle(radius, d) \in Int
<1>1. PICK s : s = {k \in 1..4 : Sine[k + 1] * d <= 100 * radius}
  OBVIOUS
<1>2. Cardinality(s) \in Nat
  BY <1>1, FewIn
<1> QED BY <1>1, <1>2 DEF HalfAngle

LEMMA HiddenType ==
  ASSUME NEW origin, NEW thing
  PROVE  Hidden(origin, thing) \in Seq(IntervalType)
<1>1. PICK delta, half : delta = Minus(thing.pos, origin) /\ half = HalfAngle(thing.radius, Length(delta))
  OBVIOUS
<1>2. half \in Int
  BY <1>1, HalfAngleInt
<1>3. TurnToX(delta) \in Int
  BY AngleInt, NormalizedRange DEF TurnToX
<1>4. PICK a \in Int, b \in Int : a = Normalized(TurnToX(delta) - half) /\ b = Normalized(TurnToX(delta) + half)
  <2>1. TurnToX(delta) - half \in Int /\ TurnToX(delta) + half \in Int
    BY <1>2, <1>3
  <2> QED BY <2>1, NormalizedRange
<1>5. Hidden(origin, thing) = IF Inside(origin, thing) THEN <<<<-16, 16>>>> ELSE Unwrapped(a, b)
  BY <1>1, <1>4 DEF Hidden, HalfTurn
<1>6. Unwrapped(a, b) \in Seq(IntervalType)
  <2>1. PICK x, y, z : x = <<a, 16>> /\ y = <<-16, b>> /\ z = <<a, b>>
    OBVIOUS
  <2>a. x \in IntervalType /\ y \in IntervalType /\ z \in IntervalType
    BY <2>1 DEF IntervalType
  <2>2. <<x, y>> \in Seq(IntervalType) /\ <<z>> \in Seq(IntervalType)
    BY <2>a
  <2>3. Unwrapped(a, b) = IF a > b THEN <<x, y>> ELSE <<z>>
    BY <2>1 DEF Unwrapped, HalfTurn
  <2> QED BY <2>2, <2>3
<1>7. <<<<-16, 16>>>> \in Seq(IntervalType)
  BY DEF IntervalType
<1> QED BY <1>5, <1>6, <1>7

LEMMA CappedType ==
  ASSUME NEW i \in IntervalType, NEW start \in Int, NEW end \in Int
  PROVE  /\ Capped(i, start, end) \in Seq(Span(start, end))
         /\ start >= end => Capped(i, start, end) = <<>>
<1>1. i[1] \in Int /\ i[2] \in Int
  BY DEF IntervalType
<1>2. PICK lo \in Int : lo = Max({i[1], start}) /\ lo >= start
  BY <1>1, LeastOfTwo
<1>3. PICK hi \in Int : hi = Min({i[2], end}) /\ hi <= end
  BY <1>1, LeastOfTwo
<1>4. Capped(i, start, end) = IF lo < hi THEN <<<<lo, hi>>>> ELSE <<>>
  BY <1>2, <1>3 DEF Capped
<1>5. CASE lo < hi
  <2>1. <<lo, hi>> \in Span(start, end)
    BY <1>2, <1>3, <1>5 DEF Span, IntervalType
  <2>2. ~ (start >= end)
    BY <1>2, <1>3, <1>5
  <2> QED BY <1>4, <1>5, <2>1, <2>2
<1>6. CASE ~ (lo < hi)
  BY <1>4, <1>6
<1> QED BY <1>5, <1>6

\* The ends of intervals.
EndType(lo, hi) == [at : {x \in Int : lo <= x /\ x <= hi}, entering : BOOLEAN]

LEMMA EndsType ==
  ASSUME NEW lo \in Int, NEW hi \in Int, NEW intervals \in Seq(Span(lo, hi))
  PROVE  Ends(intervals) \in Seq(EndType(lo, hi)) /\ Len(Ends(intervals)) = 2 * Len(intervals)
<1>1. PICK n \in Nat : /\ n = Len(intervals)
                      /\ \A k \in 1..n : intervals[k] \in Span(lo, hi)
  OBVIOUS
<1>2. ASSUME NEW k \in 1..(2 * n)
      PROVE  (IF k % 2 = 1 THEN [at |-> intervals[(k + 1) \div 2][1], entering |-> TRUE]
              ELSE [at |-> intervals[k \div 2][2], entering |-> FALSE]) \in EndType(lo, hi)
  <2>1. CASE k % 2 = 1
    <3>1. (k + 1) \div 2 \in 1..n
      BY <2>1
    <3>2. PICK i \in Span(lo, hi) : i = intervals[(k + 1) \div 2]
      BY <1>1, <3>1
    <3>3. i[1] \in Int /\ lo <= i[1] /\ i[1] <= hi
      BY DEF Span, IntervalType
    <3> QED BY <2>1, <3>2, <3>3 DEF EndType
  <2>2. CASE k % 2 # 1
    <3>1. k \div 2 \in 1..n
      BY <2>2
    <3>2. PICK i \in Span(lo, hi) : i = intervals[k \div 2]
      BY <1>1, <3>1
    <3>3. i[2] \in Int /\ lo <= i[2] /\ i[2] <= hi
      BY DEF Span, IntervalType
    <3> QED BY <2>2, <3>2, <3>3 DEF EndType
  <2> QED BY <2>1, <2>2
<1>3. PICK m \in Nat : m = 2 * n
  OBVIOUS
<1>4. PICK ends : ends = Ends(intervals)
  OBVIOUS
<1>5. ends \in [1..m -> EndType(lo, hi)]
  BY <1>1, <1>2, <1>3, <1>4 DEF Ends
<1>6. ends \in Seq(EndType(lo, hi)) /\ Len(ends) = m
  BY <1>5
<1> QED BY <1>1, <1>3, <1>4, <1>6

\* What union_intervals has gathered when it has come to an angle: `out` ends
\* before it, and an interval that is open began after `out` ended.
AccType == [depth : Int, start : Int, out : Seq(IntervalType)]

GoodAcc(acc, lo, at) ==
  /\ acc \in AccType /\ lo <= at
  /\ Ascending(acc.out, lo, at)
  /\ acc.depth >= 1 => /\ lo <= acc.start /\ acc.start <= at
                       /\ \A k \in DOMAIN acc.out : acc.out[k][2] <= acc.start

LEMMA AppendAscends ==
  ASSUME NEW lo \in Int, NEW at \in Int, NEW hi \in Int, NEW out, Ascending(out, lo, at), at <= hi,
         NEW a \in Int, NEW b \in Int, lo <= a, a <= b, b <= hi, \A k \in DOMAIN out : out[k][2] <= a
  PROVE  Ascending(Append(out, <<a, b>>), lo, hi)
<1>1. out \in Seq(IntervalType)
  BY DEF Ascending
<1>2. PICK n \in Nat : n = Len(out) /\ DOMAIN out = 1..n
  BY <1>1
<1>3. PICK i \in IntervalType : i = <<a, b>> /\ i[1] = a /\ i[2] = b
  <2>1. <<a, b>> \in IntervalType
    BY DEF IntervalType
  <2> QED BY <2>1
<1>4. PICK new : new = Append(out, i)
  OBVIOUS
<1>5. /\ new \in Seq(IntervalType) /\ DOMAIN new = 1..(n + 1)
      /\ \A k \in 1..n : new[k] = out[k]
      /\ new[n + 1] = i
  BY <1>1, <1>2, <1>4
<1>6. \A k \in 1..n : /\ out[k][1] \in Int /\ out[k][2] \in Int
                      /\ lo <= out[k][1] /\ out[k][1] <= out[k][2] /\ out[k][2] <= at
  <2>1. \A k \in 1..n : out[k] \in IntervalType
    BY <1>1, <1>2
  <2>2. \A j \in IntervalType : j[1] \in Int /\ j[2] \in Int
    BY DEF IntervalType
  <2> QED BY <1>2, <2>1, <2>2 DEF Ascending
<1>7. ASSUME NEW k \in 1..(n + 1)
      PROVE  lo <= new[k][1] /\ new[k][1] <= new[k][2] /\ new[k][2] <= hi
  <2>1. CASE k = n + 1
    BY <1>3, <1>5, <2>1
  <2>2. CASE k # n + 1
    <3>1. k \in 1..n
      BY <2>2
    <3> QED BY <1>5, <1>6, <3>1
  <2> QED BY <2>1, <2>2
<1>8. ASSUME NEW j \in 1..(n + 1), NEW k \in 1..(n + 1), j < k PROVE new[j][2] <= new[k][1]
  <2>1. j \in 1..n
    BY <1>8
  <2>2. CASE k = n + 1
    BY <1>2, <1>3, <1>5, <2>1, <2>2
  <2>3. CASE k # n + 1
    <3>1. k \in 1..n
      BY <2>3
    <3>2. out[j][2] <= out[k][1]
      BY <1>2, <1>8, <2>1, <3>1 DEF Ascending
    <3> QED BY <1>5, <2>1, <3>1, <3>2
  <2> QED BY <2>2, <2>3
<1> QED BY <1>3, <1>4, <1>5, <1>7, <1>8 DEF Ascending

LEMMA AscendsFarther ==
  ASSUME NEW lo \in Int, NEW at \in Int, NEW hi \in Int, NEW out, Ascending(out, lo, at), at <= hi
  PROVE  Ascending(out, lo, hi)
<1>1. out \in Seq(IntervalType)
  BY DEF Ascending
<1>2. \A k \in DOMAIN out : out[k][2] \in Int
  <2>1. \A k \in DOMAIN out : out[k] \in IntervalType
    BY <1>1
  <2> QED BY <2>1 DEF IntervalType
<1> QED BY <1>2 DEF Ascending

LEMMA PassedEndGood ==
  ASSUME NEW lo \in Int, NEW at \in Int, NEW acc, GoodAcc(acc, lo, at),
         NEW hi \in Int, at <= hi, NEW e, e.at = hi
  PROVE  GoodAcc(PassedEnd(acc, e), lo, hi)
<1>1. PICK d \in Int, s \in Int, out \in Seq(IntervalType) :
        /\ d = acc.depth /\ s = acc.start /\ out = acc.out
        /\ acc = [depth |-> d, start |-> s, out |-> out]
  BY DEF GoodAcc, AccType
<1>2. /\ lo <= hi /\ Ascending(out, lo, at) /\ Ascending(out, lo, hi)
      /\ d >= 1 => /\ lo <= s /\ s <= hi
                   /\ \A k \in DOMAIN out : out[k][2] <= s
  BY <1>1, AscendsFarther DEF GoodAcc
<1>3. CASE e.entering
  <2>1. PassedEnd(acc, e) = [depth |-> d + 1, start |-> IF d = 0 THEN hi ELSE s, out |-> out]
    BY <1>1, <1>3 DEF PassedEnd
  <2>2. PICK t \in Int : t = IF d = 0 THEN hi ELSE s
    OBVIOUS
  <2>3. PICK next : next = [depth |-> d + 1, start |-> t, out |-> out]
    OBVIOUS
  <2>4. next \in AccType /\ next.depth = d + 1 /\ next.start = t /\ next.out = out
    BY <2>3 DEF AccType
  <2>5. \A k \in DOMAIN out : out[k][2] <= hi
    BY <1>2 DEF Ascending
  <2>6. d + 1 >= 1 => lo <= t /\ t <= hi /\ \A k \in DOMAIN out : out[k][2] <= t
    BY <1>2, <2>2, <2>5
  <2>7. GoodAcc(next, lo, hi)
    BY <1>2, <2>4, <2>6 DEF GoodAcc
  <2> QED BY <2>1, <2>2, <2>3, <2>7
<1>4. CASE ~ e.entering
  <2>1. PICK o : o = IF d = 1 THEN Append(out, <<s, hi>>) ELSE out
    OBVIOUS
  <2>2. PassedEnd(acc, e) = [depth |-> d - 1, start |-> s, out |-> o]
    BY <1>1, <1>4, <2>1 DEF PassedEnd
  <2>3. Ascending(o, lo, hi)
    <3>1. CASE d = 1
      BY <1>2, <2>1, <3>1, AppendAscends
    <3>2. CASE d # 1
      BY <1>2, <2>1, <3>2
    <3> QED BY <3>1, <3>2
  <2>4. d - 1 >= 1 => lo <= s /\ s <= hi /\ \A k \in DOMAIN o : o[k][2] <= s
    BY <1>2, <2>1
  <2>5. PICK next : next = [depth |-> d - 1, start |-> s, out |-> o]
    OBVIOUS
  <2>6. next \in AccType /\ next.depth = d - 1 /\ next.start = s /\ next.out = o
    BY <2>3, <2>5 DEF AccType, Ascending
  <2>7. GoodAcc(next, lo, hi)
    BY <1>2, <2>3, <2>4, <2>6 DEF GoodAcc
  <2> QED BY <2>2, <2>5, <2>7
<1> QED BY <1>3, <1>4

LEMMA PassedEndType ==
  ASSUME NEW acc \in AccType, NEW e, e.at \in Int
  PROVE  PassedEnd(acc, e) \in AccType
<1>1. PICK d \in Int, s \in Int, out \in Seq(IntervalType) :
        /\ d = acc.depth /\ s = acc.start /\ out = acc.out
        /\ acc = [depth |-> d, start |-> s, out |-> out]
  BY DEF AccType
<1>a. PICK hi \in Int : e.at = hi
  OBVIOUS
<1>2. PICK t \in Int : t = IF d = 0 THEN hi ELSE s
  OBVIOUS
<1>3. PICK o \in Seq(IntervalType) : o = IF d = 1 THEN Append(out, <<s, hi>>) ELSE out
  <2>1. <<s, hi>> \in IntervalType
    BY DEF IntervalType
  <2>2. Append(out, <<s, hi>>) \in Seq(IntervalType)
    BY <2>1
  <2> QED BY <2>2
<1>4. CASE e.entering
  <2>1. PassedEnd(acc, e) = [depth |-> d + 1, start |-> IF d = 0 THEN hi ELSE s, out |-> out]
    BY <1>1, <1>a, <1>4 DEF PassedEnd
  <2>2. [depth |-> d + 1, start |-> t, out |-> out] \in AccType
    BY DEF AccType
  <2> QED BY <1>2, <2>1, <2>2
<1>5. CASE ~ e.entering
  <2>1. PassedEnd(acc, e) = [depth |-> d - 1, start |-> s,
                             out |-> IF d = 1 THEN Append(out, <<s, hi>>) ELSE out]
    BY <1>1, <1>a, <1>5 DEF PassedEnd
  <2>2. [depth |-> d - 1, start |-> s, out |-> o] \in AccType
    BY DEF AccType
  <2> QED BY <1>3, <2>1, <2>2
<1> QED BY <1>4, <1>5

\* So many ends.
Twice(m, n) == m = 2 * n

\* The walk of union_intervals from end to end of intervals: the j-th end is the
\* one that comes as number rank[j], at the angle pos[rank[j]].
Sweeps(ends, m, lo, hi, G, pos, rank) ==
  /\ G[0] = [depth |-> 0, start |-> 0, out |-> <<>>] /\ pos[0] = lo
  /\ rank \in [1..m -> 1..m]
  /\ \A j \in 1..m : G[rank[j]] = PassedEnd(G[rank[j] - 1], ends[j]) /\ pos[rank[j]] = ends[j].at
  /\ \A k \in 1..m : \E j \in 1..m : rank[j] = k
  /\ \A i, j \in 1..m : rank[i] = rank[j] => i = j
  /\ \A k \in 0..m : pos[k] \in Int /\ lo <= pos[k]
  /\ \A k \in 1..m : pos[k] <= hi
  /\ \A j, k \in 0..m : j <= k => pos[j] <= pos[k]

LEMMA UnitedWalks ==
  ASSUME NEW lo \in Int, NEW hi \in Int, NEW intervals \in Seq(Span(lo, hi)),
         NEW m \in Nat, Twice(m, Len(intervals))
  PROVE  \E G, pos, rank : /\ Sweeps(Ends(intervals), m, lo, hi, G, pos, rank)
                           /\ United(intervals) = G[m].out
<1>1. PICK S, ends : S = EndType(lo, hi) /\ ends = Ends(intervals)
  OBVIOUS
<1>2. Len(ends) = m /\ DOMAIN ends = 1..m /\ \A k \in 1..m : ends[k] \in S
  <2>1. ends \in Seq(S) /\ Len(ends) = 2 * Len(intervals)
    BY <1>1, EndsType
  <2>2. Len(ends) = m
    BY <2>1 DEF Twice
  <2> QED BY <2>1, <2>2
<1>3. \A e \in S : e.at \in Int /\ lo <= e.at /\ e.at <= hi
  BY <1>1 DEF EndType
<1>4. PICK keys : keys = [k \in DOMAIN ends |-> ends[k].at]
  OBVIOUS
<1>5. DOMAIN keys = 1..m /\ \A k \in 1..m : keys[k] = ends[k].at /\ keys[k] \in Int
  BY <1>2, <1>3, <1>4
<1>6. Keyed(keys) /\ Cardinality(DOMAIN keys) = m
  <2>1. PICK one \in Int : one = 1
    OBVIOUS
  <2>2. IsFiniteSet(one..m) /\ Cardinality(one..m) = IF one > m THEN 0 ELSE m - one + 1
    BY FS_Interval
  <2>3. Cardinality(DOMAIN keys) = m
    BY <1>5, <2>1, <2>2
  <2>4. IsFiniteSet(DOMAIN keys)
    BY <1>5, <2>1, <2>2
  <2> QED BY <1>5, <2>3, <2>4 DEF Keyed
<1>7. PICK order : order = InOrder(keys)
  OBVIOUS
<1>8. order \in [1..m -> 1..m] /\ \A j, k \in 1..m : j < k => keys[order[j]] <= keys[order[k]]
  <2>1. InLine(order, keys, m)
    BY <1>6, <1>7, InOrderIsInLine
  <2> QED BY <1>5, <2>1 DEF InLine
<1>9. PICK rank : rank = [j \in 1..m |-> Place(keys, j) + 1]
  OBVIOUS
<1>10. /\ \A k \in 1..m : Place(keys, order[k]) = k - 1
       /\ \A j \in 1..m : Place(keys, j) + 1 \in 1..m /\ order[Place(keys, j) + 1] = j
  <2>1. PICK n : n = Cardinality(DOMAIN keys)
    OBVIOUS
  <2>2. /\ \A k \in 1..n : Place(keys, order[k]) = k - 1
        /\ \A i \in DOMAIN keys : Place(keys, i) + 1 \in 1..n /\ order[Place(keys, i) + 1] = i
    BY <1>6, <1>7, <2>1, InOrderPlaces
  <2>3. n = m
    BY <1>6, <2>1
  <2> QED BY <1>5, <2>2, <2>3
<1>11. /\ rank \in [1..m -> 1..m]
       /\ \A j \in 1..m : rank[j] \in 1..m /\ order[rank[j]] = j
  BY <1>9, <1>10
<1>12. \A k \in 1..m : rank[order[k]] = k
  <2>1. \A k \in 1..m : (k - 1) + 1 = k
    OBVIOUS
  <2> QED BY <1>8, <1>9, <1>10, <2>1
<1>13. PICK seq : seq = At(ends, order)
  OBVIOUS
<1>14. seq = [k \in 1..m |-> ends[order[k]]]
  BY <1>8, <1>13 DEF At
<1>15. \A k \in 1..m : seq[k] = ends[order[k]] /\ seq[k] \in S /\ seq[k].at = keys[order[k]]
  BY <1>2, <1>5, <1>8, <1>14
<1>16. seq \in Seq(S) /\ Len(seq) = m
  <2>1. seq \in [1..m -> S]
    BY <1>14, <1>15
  <2> QED BY <2>1
<1>17. PICK base : base = [depth |-> 0, start |-> 0, out |-> <<>>]
  OBVIOUS
<1>18. base \in AccType
  <2>1. <<>> \in Seq(IntervalType)
    OBVIOUS
  <2> QED BY <1>17, <2>1 DEF AccType
<1>19. \A e \in S : \A t \in AccType : PassedEnd(t, e) \in AccType
  BY <1>3, PassedEndType
<1>20. PICK G : EndWalk(AccType, base, seq, G) /\ EndFold(base, seq) = G[Len(seq)]
  BY <1>16, <1>18, <1>19, EndWalks
<1>21. G[0] = base /\ \A i \in 1..m : G[i] = PassedEnd(G[i - 1], seq[i])
  BY <1>16, <1>20 DEF EndWalk
<1>22. United(intervals) = G[m].out
  BY <1>1, <1>4, <1>7, <1>13, <1>16, <1>17, <1>20 DEF United, EndFold
<1>23. PICK pos : pos = [i \in 0..m |-> IF i = 0 THEN lo ELSE seq[i].at]
  OBVIOUS
<1>24. /\ pos[0] = lo /\ \A i \in 1..m : pos[i] = seq[i].at /\ pos[i] = keys[order[i]]
       /\ \A i \in 0..m : pos[i] \in Int /\ lo <= pos[i]
       /\ \A i \in 1..m : pos[i] <= hi
  <2>1. pos[0] = lo /\ \A i \in 1..m : pos[i] = seq[i].at
    BY <1>23
  <2>2. \A i \in 1..m : seq[i].at \in Int /\ lo <= seq[i].at /\ seq[i].at <= hi
    BY <1>3, <1>15
  <2>3. \A i \in 0..m : i = 0 \/ i \in 1..m
    OBVIOUS
  <2> QED BY <1>15, <2>1, <2>2, <2>3
<1>25. ASSUME NEW j \in 0..m, NEW k \in 0..m, j <= k PROVE pos[j] <= pos[k]
  <2>1. pos[j] \in Int /\ pos[k] \in Int /\ lo <= pos[k]
    BY <1>24
  <2>2. CASE j = 0
    BY <1>24, <2>1, <2>2
  <2>3. CASE j = k
    BY <2>1, <2>3
  <2>4. CASE j # 0 /\ j # k
    <3>1. j \in 1..m /\ k \in 1..m /\ j < k
      BY <1>25, <2>4
    <3>2. keys[order[j]] <= keys[order[k]]
      BY <1>8, <3>1
    <3> QED BY <1>24, <3>1, <3>2
  <2> QED BY <2>2, <2>3, <2>4
<1>26. \A j \in 1..m : G[rank[j]] = PassedEnd(G[rank[j] - 1], ends[j]) /\ pos[rank[j]] = ends[j].at
  <2> SUFFICES ASSUME NEW j \in 1..m
               PROVE  G[rank[j]] = PassedEnd(G[rank[j] - 1], ends[j]) /\ pos[rank[j]] = ends[j].at
    OBVIOUS
  <2>1. PICK k \in 1..m : k = rank[j] /\ order[k] = j
    BY <1>11
  <2>2. seq[k] = ends[j]
    BY <1>15, <2>1
  <2>3. G[k] = PassedEnd(G[k - 1], seq[k]) /\ pos[k] = seq[k].at
    BY <1>21, <1>24
  <2> QED BY <2>1, <2>2, <2>3
<1>27. \A k \in 1..m : \E j \in 1..m : rank[j] = k
  BY <1>8, <1>12
<1>28. \A i, j \in 1..m : rank[i] = rank[j] => i = j
  BY <1>11
<1>29. Sweeps(ends, m, lo, hi, G, pos, rank)
  BY <1>11, <1>17, <1>21, <1>24, <1>25, <1>26, <1>27, <1>28 DEF Sweeps
<1> QED BY <1>1, <1>22, <1>29

\* What union_intervals returns goes up and stays in the range.
LEMMA UnitedAscends ==
  ASSUME NEW lo \in Int, NEW hi \in Int, NEW intervals \in Seq(Span(lo, hi))
  PROVE  /\ Ascending(United(intervals), lo, hi)
         /\ intervals = <<>> => United(intervals) = <<>>
<1>1. PICK m \in Nat : Twice(m, Len(intervals))
  <2>1. Len(intervals) \in Nat /\ 2 * Len(intervals) \in Nat
    OBVIOUS
  <2> QED BY <2>1 DEF Twice
<1>2. PICK ends : ends = Ends(intervals)
  OBVIOUS
<1>3. PICK G, pos, rank : Sweeps(ends, m, lo, hi, G, pos, rank) /\ United(intervals) = G[m].out
  BY <1>1, <1>2, UnitedWalks
<1>4. PICK P : P = {i \in 0..m : GoodAcc(G[i], lo, pos[i])}
  OBVIOUS
<1>b. PICK base : base = [depth |-> 0, start |-> 0, out |-> <<>>]
  OBVIOUS
<1>5. base \in AccType /\ base.depth = 0 /\ base.out = <<>>
  <2>1. <<>> \in Seq(IntervalType)
    OBVIOUS
  <2> QED BY <1>b, <2>1 DEF AccType
<1>c. /\ \A k \in 0..m : pos[k] \in Int /\ lo <= pos[k]
      /\ \A j, k \in 0..m : j <= k => pos[j] <= pos[k]
  BY <1>3 DEF Sweeps
<1>d. \A k \in 1..m : pos[k] <= hi
  BY <1>3 DEF Sweeps
<1>e. /\ \A k \in 1..m : \E j \in 1..m : rank[j] = k
      /\ \A j \in 1..m : G[rank[j]] = PassedEnd(G[rank[j] - 1], ends[j]) /\ pos[rank[j]] = ends[j].at
  BY <1>3 DEF Sweeps
<1>6. G[0] = base /\ pos[0] = lo
  BY <1>3, <1>b DEF Sweeps
<1>7. 0 \in P
  <2>1. Ascending(<<>>, lo, lo)
    BY DEF Ascending
  <2>2. GoodAcc(base, lo, lo)
    BY <1>5, <2>1 DEF GoodAcc
  <2> QED BY <1>4, <1>6, <2>2
<1>8. ASSUME NEW i \in 1..m, i - 1 \in P PROVE i \in P
  <2>1. PICK j \in 1..m : rank[j] = i
    BY <1>e
  <2>2. PICK a, b, acc, e :
          /\ a \in Int /\ b \in Int /\ a <= b
          /\ a = pos[i - 1] /\ b = pos[i] /\ acc = G[i - 1] /\ e = ends[j]
    <3>1. i - 1 \in 0..m /\ i \in 0..m /\ i - 1 <= i
      OBVIOUS
    <3> QED BY <1>c, <3>1
  <2>3. GoodAcc(acc, lo, a)
    BY <1>4, <1>8, <2>2
  <2>4. G[i] = PassedEnd(acc, e) /\ e.at = b
    BY <1>e, <2>1, <2>2
  <2>5. GoodAcc(PassedEnd(acc, e), lo, b)
    BY <2>2, <2>3, <2>4, PassedEndGood
  <2> QED BY <1>4, <2>2, <2>4, <2>5
<1>9. m \in P
  <2>1. \A i \in 0..m : i \in P
    BY <1>7, <1>8, Upwards
  <2> QED BY <2>1
<1>10. CASE m = 0
  <2>1. United(intervals) = <<>>
    BY <1>3, <1>5, <1>6, <1>10
  <2>2. Ascending(<<>>, lo, hi)
    BY DEF Ascending
  <2> QED BY <2>1, <2>2
<1>11. CASE m # 0
  <2>1. PICK at \in Int : at = pos[m] /\ at <= hi
    <3>1. m \in 0..m /\ m \in 1..m
      BY <1>11
    <3> QED BY <1>c, <1>d, <3>1
  <2>2. Ascending(G[m].out, lo, at)
    BY <1>4, <1>9, <2>1 DEF GoodAcc
  <2>3. Ascending(United(intervals), lo, hi)
    BY <1>3, <2>1, <2>2, AscendsFarther
  <2>4. intervals # <<>>
    BY <1>1, <1>11 DEF Twice
  <2> QED BY <2>3, <2>4
<1> QED BY <1>10, <1>11

LEMMA NothingBetween ==
  ASSUME NEW S, S = {}, NEW seq \in Seq(S)
  PROVE  seq = <<>>
<1>1. \A k \in 1..Len(seq) : seq[k] \in S
  OBVIOUS
<1>2. Len(seq) = 0
  <2>1. Len(seq) \in Nat /\ (Len(seq) # 0 => 1 \in 1..Len(seq))
    OBVIOUS
  <2> QED BY <1>1, <2>1
<1> QED BY <1>2

\* What obstacles hide of an arc.
LEMMA OccludedAscends ==
  ASSUME NEW arc, NEW lo \in Int, NEW hi \in Int,
         lo = Normalized(arc.from), hi = Normalized(arc.to),
         NEW S, NEW obstacles \in Seq(S)
  PROVE  /\ Ascending(Occluded(arc, obstacles), lo, hi)
         /\ lo >= hi => Occluded(arc, obstacles) = <<>>
<1>1. PICK n \in Nat : n = Len(obstacles) /\ DOMAIN obstacles = 1..n
  OBVIOUS
<1>2. PICK lists : lists = [i \in DOMAIN obstacles |-> Hidden(arc.origin, obstacles[i])]
  OBVIOUS
<1>3. lists \in Seq(Seq(IntervalType))
  <2>1. lists \in [1..n -> Seq(IntervalType)]
    BY <1>1, <1>2, HiddenType
  <2> QED BY <2>1
<1>4. PICK hidden \in Seq(IntervalType) : hidden = FlattenSeq(lists)
  BY <1>3, FlattenType
<1>5. PICK m \in Nat : /\ m = Len(hidden) /\ DOMAIN hidden = 1..m
                      /\ \A i \in 1..m : hidden[i] \in IntervalType
  OBVIOUS
<1>6. PICK parts : parts = [i \in DOMAIN hidden |-> Capped(hidden[i], lo, hi)]
  OBVIOUS
<1>7. parts \in Seq(Seq(Span(lo, hi)))
  <2>1. parts \in [1..m -> Seq(Span(lo, hi))]
    BY <1>5, <1>6, CappedType
  <2> QED BY <2>1
<1>8. PICK within \in Seq(Span(lo, hi)) : within = FlattenSeq(parts)
  BY <1>7, FlattenType
<1>9. Occluded(arc, obstacles) = United(within)
  BY <1>2, <1>4, <1>6, <1>8 DEF Occluded
<1>10. lo >= hi => within = <<>>
  <2> SUFFICES ASSUME lo >= hi PROVE within = <<>>
    OBVIOUS
  <2>1. Span(lo, hi) = {}
    BY DEF Span, IntervalType
  <2> QED BY <2>1, NothingBetween
<1> QED BY <1>9, <1>10, UnitedAscends

\* The sector of an arc.
Sector(arc) ==
  /\ arc.from <= arc.to /\ arc.to - arc.from <= 32
  /\ -32 <= arc.from /\ arc.from <= 16 /\ -16 <= arc.to /\ arc.to <= 32

\* Only of an arc that does not cross the angle of half a turn is anything cut.
LEMMA OccludedWithin ==
  ASSUME NEW arc, NEW from \in Int, NEW to \in Int, from = arc.from, to = arc.to, Sector(arc),
         NEW S, NEW obstacles \in Seq(S)
  PROVE  /\ Ascending(Occluded(arc, obstacles), from, to)
         /\ Occluded(arc, obstacles) # <<>> => -16 <= from /\ from < to /\ to <= 16
<1>1. PICK lo \in Int, hi \in Int : lo = Normalized(from) /\ hi = Normalized(to)
  BY NormalizedRange
<1>2. PICK out : out = Occluded(arc, obstacles)
  OBVIOUS
<1>3. Ascending(out, lo, hi) /\ (lo >= hi => out = <<>>)
  BY <1>1, <1>2, OccludedAscends
<1>4. from <= to /\ to - from <= 32 /\ -32 <= from /\ from <= 16 /\ -16 <= to /\ to <= 32
  BY DEF Sector
<1>5. lo < hi => from = lo /\ to = hi /\ -16 <= from /\ from < to /\ to <= 16
  <2>1. /\ -16 <= from /\ from <= 16 => lo = from
        /\ -48 <= from /\ from < -16 => lo = from + 32
    BY <1>1, NormalizedRange
  <2>2. /\ -16 <= to /\ to <= 16 => hi = to
        /\ 16 < to /\ to <= 48 => hi = to - 32
    BY <1>1, NormalizedRange
  <2>3. CASE from < -16
    <3>1. lo = from + 32 /\ hi = to
      BY <1>4, <2>1, <2>2, <2>3
    <3> QED BY <1>4, <3>1
  <2>4. CASE to > 16
    <3>1. lo = from /\ hi = to - 32
      BY <1>4, <2>1, <2>2, <2>4
    <3> QED BY <1>4, <3>1
  <2>5. CASE -16 <= from /\ to <= 16
    <3>1. lo = from /\ hi = to
      BY <1>4, <2>1, <2>2, <2>5
    <3> QED BY <2>5, <3>1
  <2> QED BY <2>3, <2>4, <2>5
<1>6. CASE lo < hi
  BY <1>2, <1>3, <1>5, <1>6
<1>7. CASE ~ (lo < hi)
  <2>1. out = <<>>
    BY <1>3, <1>7
  <2>2. Ascending(<<>>, from, to)
    BY DEF Ascending
  <2> QED BY <1>2, <2>1, <2>2
<1> QED BY <1>6, <1>7

(***************************************************************************)
(* What is left of a sector                                                *)
(***************************************************************************)

In(x, i) == i[1] <= x /\ x < i[2]

\* The first k of the hidden intervals and what is visible fill the sector up to
\* c, and do not overlap.
Fills(out, vis, k, from, c) ==
  /\ Ascending(vis, from, c)
  /\ \A j \in 1..k : out[j][2] <= c
  /\ \A x \in Int : from <= x /\ x < c =>
       (\E j \in 1..k : In(x, out[j])) \/ (\E l \in DOMAIN vis : In(x, vis[l]))
  /\ \A j \in 1..k : \A l \in DOMAIN vis : out[j][2] <= vis[l][1] \/ vis[l][2] <= out[j][1]

FilledUp(vis, c, d) == IF d > c THEN Append(vis, <<c, d>>) ELSE vis

LEMMA AscendingInts ==
  ASSUME NEW out, NEW lo, NEW hi, Ascending(out, lo, hi)
  PROVE  /\ out \in Seq(IntervalType) /\ Len(out) \in Nat /\ DOMAIN out = 1..Len(out)
         /\ \A k \in DOMAIN out : out[k] \in IntervalType /\ out[k][1] \in Int /\ out[k][2] \in Int
<1>1. out \in Seq(IntervalType)
  BY DEF Ascending
<1>2. \A k \in DOMAIN out : out[k] \in IntervalType
  BY <1>1
<1>3. \A i \in IntervalType : i[1] \in Int /\ i[2] \in Int
  BY DEF IntervalType
<1> QED BY <1>1, <1>2, <1>3

\* What is visible before the next hidden interval is added.
LEMMA FillsUp ==
  ASSUME NEW out, NEW vis, NEW k \in Nat, NEW from \in Int, NEW c \in Int, NEW d \in Int,
         Fills(out, vis, k, from, c), from <= c, c <= d,
         \A j \in 1..k : out[j][2] \in Int
  PROVE  Fills(out, FilledUp(vis, c, d), k, from, d)
<1>1. Ascending(vis, from, c)
  BY DEF Fills
<1>2. CASE d = c
  BY <1>2 DEF FilledUp
<1>3. CASE d # c
  <2>1. PICK new : new = FilledUp(vis, c, d)
    OBVIOUS
  <2>2. new = Append(vis, <<c, d>>)
    BY <1>3, <2>1 DEF FilledUp
  <2>3. PICK n \in Nat : /\ n = Len(vis) /\ DOMAIN vis = 1..n
                        /\ \A l \in 1..n : vis[l][1] \in Int /\ vis[l][2] \in Int
    BY <1>1, AscendingInts
  <2>4. \A l \in DOMAIN vis : vis[l][2] <= c
    BY <1>1 DEF Ascending
  <2>5. Ascending(new, from, d)
    BY <1>1, <2>2, <2>4, AppendAscends
  <2>6. vis \in Seq(IntervalType)
    BY <1>1, AscendingInts
  <2>7. PICK i \in IntervalType : i = <<c, d>> /\ i[1] = c /\ i[2] = d
    <3>1. <<c, d>> \in IntervalType
      BY DEF IntervalType
    <3> QED BY <3>1
  <2>8. DOMAIN new = 1..(n + 1) /\ new[n + 1] = i /\ \A l \in 1..n : new[l] = vis[l]
    BY <2>2, <2>3, <2>6, <2>7
  <2>9. \A j \in 1..k : out[j][2] <= c
    BY DEF Fills
  <2>10. \A j \in 1..k : out[j][2] <= d
    BY <2>9
  <2>11. ASSUME NEW x \in Int, from <= x, x < d
         PROVE  (\E j \in 1..k : In(x, out[j])) \/ (\E l \in DOMAIN new : In(x, new[l]))
    <3>1. CASE x < c
      <4>1. (\E j \in 1..k : In(x, out[j])) \/ (\E l \in DOMAIN vis : In(x, vis[l]))
        BY <2>11, <3>1 DEF Fills
      <4>2. \A l \in DOMAIN vis : l \in DOMAIN new /\ new[l] = vis[l]
        BY <2>3, <2>8
      <4> QED BY <4>1, <4>2
    <3>2. CASE ~ (x < c)
      <4>1. In(x, i)
        BY <2>7, <2>11, <3>2 DEF In
      <4>2. n + 1 \in DOMAIN new
        BY <2>8
      <4> QED BY <2>8, <4>1, <4>2
    <3> QED BY <3>1, <3>2
  <2>12. ASSUME NEW j \in 1..k, NEW l \in DOMAIN new
         PROVE  out[j][2] <= new[l][1] \/ new[l][2] <= out[j][1]
    <3>1. CASE l = n + 1
      BY <2>7, <2>8, <2>9, <3>1
    <3>2. CASE l # n + 1
      <4>1. l \in 1..n
        BY <2>8, <3>2
      <4>2. out[j][2] <= vis[l][1] \/ vis[l][2] <= out[j][1]
        BY <2>3, <4>1 DEF Fills
      <4> QED BY <2>8, <4>1, <4>2
    <3> QED BY <3>1, <3>2
  <2>13. Fills(out, new, k, from, d)
    BY <2>5, <2>10, <2>11, <2>12 DEF Fills
  <2> QED BY <2>1, <2>13
<1> QED BY <1>2, <1>3

\* The next hidden interval begins where what is filled ends.
LEMMA FillsPast ==
  ASSUME NEW out, NEW vis, NEW k \in Nat, NEW from \in Int, NEW c \in Int, NEW d \in Int,
         Fills(out, vis, k, from, c), c <= d, out[k + 1][1] = c, out[k + 1][2] = d,
         \A j \in 1..k : out[j][2] \in Int
  PROVE  Fills(out, vis, k + 1, from, d)
<1>1. Ascending(vis, from, c)
  BY DEF Fills
<1>2. \A j \in 1..(k + 1) : j \in 1..k \/ j = k + 1
  OBVIOUS
<1>3. Ascending(vis, from, d)
  BY <1>1, AscendsFarther
<1>4. \A j \in 1..(k + 1) : out[j][2] <= d
  <2>1. \A j \in 1..k : out[j][2] <= c
    BY DEF Fills
  <2>2. \A j \in 1..k : out[j][2] <= d
    BY <2>1
  <2> QED BY <1>2, <2>2
<1>5. ASSUME NEW x \in Int, from <= x, x < d
      PROVE  (\E j \in 1..(k + 1) : In(x, out[j])) \/ (\E l \in DOMAIN vis : In(x, vis[l]))
  <2>1. CASE x < c
    <3>1. (\E j \in 1..k : In(x, out[j])) \/ (\E l \in DOMAIN vis : In(x, vis[l]))
      BY <1>5, <2>1 DEF Fills
    <3>2. \A j \in 1..k : j \in 1..(k + 1)
      OBVIOUS
    <3> QED BY <3>1, <3>2
  <2>2. CASE ~ (x < c)
    <3>1. In(x, out[k + 1])
      BY <1>5, <2>2 DEF In
    <3>2. k + 1 \in 1..(k + 1)
      OBVIOUS
    <3> QED BY <3>1, <3>2
  <2> QED BY <2>1, <2>2
<1>6. ASSUME NEW j \in 1..(k + 1), NEW l \in DOMAIN vis
      PROVE  out[j][2] <= vis[l][1] \/ vis[l][2] <= out[j][1]
  <2>1. CASE j \in 1..k
    BY <2>1 DEF Fills
  <2>2. CASE j = k + 1
    BY <1>1, <2>2 DEF Ascending
  <2> QED BY <1>2, <2>1, <2>2
<1> QED BY <1>3, <1>4, <1>5, <1>6 DEF Fills

\* subtract_intervals.
CutAcc == [out : Seq(IntervalType), cursor : Int]

LEMMA PassedIntervalType ==
  ASSUME NEW to, NEW acc \in CutAcc, NEW i \in IntervalType
  PROVE  PassedInterval(to, acc, i) \in CutAcc
<1>1. PICK a \in Int, b \in Int : a = i[1] /\ b = i[2]
  BY DEF IntervalType
<1>2. PICK vis \in Seq(IntervalType), c \in Int : vis = acc.out /\ c = acc.cursor
  BY DEF CutAcc
<1>3. PICK m \in Int : m = Max({c, b})
  BY LeastOfTwo
<1>4. PICK new \in Seq(IntervalType) : new = IF a > c THEN Append(vis, <<c, a>>) ELSE vis
  <2>1. PICK j \in IntervalType : j = <<c, a>>
    <3>1. <<c, a>> \in IntervalType
      BY DEF IntervalType
    <3> QED BY <3>1
  <2>2. Append(vis, j) \in Seq(IntervalType)
    OBVIOUS
  <2> QED BY <2>1, <2>2
<1>5. PassedInterval(to, acc, i) = IF c >= to THEN acc ELSE [out |-> new, cursor |-> m]
  BY <1>1, <1>2, <1>3, <1>4 DEF PassedInterval
<1>6. [out |-> new, cursor |-> m] \in CutAcc
  BY DEF CutAcc
<1> QED BY <1>5, <1>6

\* A hidden interval after what is filled.
LEMMA PassedIntervalIs ==
  ASSUME NEW to \in Int, NEW acc \in CutAcc, NEW i \in IntervalType,
         acc.cursor <= i[1], i[1] <= i[2], i[2] <= to
  PROVE  /\ PassedInterval(to, acc, i).cursor = i[2]
         /\ PassedInterval(to, acc, i).out = FilledUp(acc.out, acc.cursor, i[1])
<1>1. PICK a \in Int, b \in Int : a = i[1] /\ b = i[2]
  BY DEF IntervalType
<1>2. PICK vis \in Seq(IntervalType), c \in Int : vis = acc.out /\ c = acc.cursor
  BY DEF CutAcc
<1>3. CASE c >= to
  <2>1. PassedInterval(to, acc, i) = acc
    BY <1>2, <1>3 DEF PassedInterval
  <2>2. c = a /\ c = b
    BY <1>1, <1>2, <1>3
  <2> QED BY <1>1, <1>2, <2>1, <2>2 DEF FilledUp
<1>4. CASE ~ (c >= to)
  <2>1. Max({c, b}) = b
    <3>1. PICK m \in Int : m = Max({c, b}) /\ m >= c /\ m >= b
      BY LeastOfTwo
    <3>2. \E x \in {c, b} : \A y \in {c, b} : x >= y
      BY <1>1, <1>2
    <3>3. Max({c, b}) \in {c, b}
      BY <3>2 DEF Max
    <3> QED BY <1>1, <1>2, <3>1, <3>3
  <2>2. PICK new : new = IF a > c THEN Append(vis, <<c, a>>) ELSE vis
    OBVIOUS
  <2>3. PassedInterval(to, acc, i) = [out |-> new, cursor |-> b]
    BY <1>1, <1>2, <1>4, <2>1, <2>2 DEF PassedInterval
  <2> QED BY <1>1, <1>2, <2>2, <2>3 DEF FilledUp
<1> QED BY <1>3, <1>4

\* What is visible before the k-th hidden interval has ended.
Uncovered(occluded, acc, k, from) ==
  /\ from <= acc.cursor
  /\ acc.cursor = IF k = 0 THEN from ELSE occluded[k][2]
  /\ Fills(occluded, acc.out, k, from, acc.cursor)

LEMMA UncoveredOn ==
  ASSUME NEW from \in Int, NEW to \in Int, NEW out, Ascending(out, from, to),
         NEW k \in 1..Len(out), NEW acc \in CutAcc, Uncovered(out, acc, k - 1, from)
  PROVE  Uncovered(out, PassedInterval(to, acc, out[k]), k, from)
<1>1. PICK n \in Nat : /\ n = Len(out) /\ DOMAIN out = 1..n
                      /\ \A j \in 1..n : out[j] \in IntervalType /\ out[j][1] \in Int /\ out[j][2] \in Int
  BY AscendingInts
<1>2. PICK hidden \in IntervalType, a \in Int, b \in Int : hidden = out[k] /\ a = out[k][1] /\ b = out[k][2]
  BY <1>1
<1>3. PICK vis \in Seq(IntervalType), c \in Int : vis = acc.out /\ c = acc.cursor
  BY DEF CutAcc
<1>4. from <= a /\ a <= b /\ b <= to
  BY <1>1, <1>2 DEF Ascending
<1>5. PICK h \in Nat : h = k - 1
  OBVIOUS
<1>6. from <= c /\ Fills(out, vis, h, from, c) /\ c = IF h = 0 THEN from ELSE out[h][2]
  BY <1>3, <1>5 DEF Uncovered
<1>7. c <= a
  <2>1. CASE h = 0
    BY <1>4, <1>6, <2>1
  <2>2. CASE h # 0
    <3>1. h \in 1..n /\ k \in 1..n /\ h < k
      BY <1>1, <1>5, <2>2
    <3>2. out[h][2] <= out[k][1]
      BY <1>1, <3>1 DEF Ascending
    <3> QED BY <1>2, <1>6, <2>2, <3>2
  <2> QED BY <2>1, <2>2
<1>8. PICK next : next = PassedInterval(to, acc, hidden)
  OBVIOUS
<1>9. next.cursor = b /\ next.out = FilledUp(vis, c, a)
  BY <1>2, <1>3, <1>4, <1>7, <1>8, PassedIntervalIs
<1>10. \A j \in 1..h : out[j][2] \in Int
  <2>1. \A j \in 1..h : j \in 1..n
    BY <1>1, <1>5
  <2> QED BY <1>1, <2>1
<1>11. Fills(out, next.out, h, from, a)
  BY <1>6, <1>7, <1>9, <1>10, FillsUp
<1>12. h + 1 = k
  BY <1>5
<1>13. out[h + 1][1] = a /\ out[h + 1][2] = b
  BY <1>2, <1>12
<1>14. Fills(out, next.out, h + 1, from, b)
  BY <1>4, <1>10, <1>11, <1>13, FillsPast
<1>15. from <= b /\ k # 0
  BY <1>4
<1> QED BY <1>2, <1>8, <1>9, <1>12, <1>14, <1>15 DEF Uncovered

\* What subtract_intervals returns.
LEMMA VisibleFills ==
  ASSUME NEW arc, NEW from \in Int, NEW to \in Int, from = arc.from, to = arc.to, from <= to,
         NEW occluded, Ascending(occluded, from, to)
  PROVE  Fills(occluded, Visible(arc, occluded), Len(occluded), from, to)
<1>1. PICK n \in Nat : /\ n = Len(occluded) /\ DOMAIN occluded = 1..n /\ occluded \in Seq(IntervalType)
                      /\ \A j \in 1..n : /\ occluded[j] \in IntervalType
                                        /\ occluded[j][1] \in Int /\ occluded[j][2] \in Int
  BY AscendingInts
<1>2. PICK base : base = [out |-> <<>>, cursor |-> from]
  OBVIOUS
<1>3. base \in CutAcc /\ base.out = <<>> /\ base.cursor = from
  <2>1. <<>> \in Seq(IntervalType)
    OBVIOUS
  <2> QED BY <1>2, <2>1 DEF CutAcc
<1>4. \A i \in IntervalType : \A t \in CutAcc : PassedInterval(to, t, i) \in CutAcc
  BY PassedIntervalType
<1>5. PICK G : /\ GapWalk(to, CutAcc, base, occluded, G)
              /\ GapFold(to, base, occluded) = G[Len(occluded)]
  <2>1. PICK S, T : S = IntervalType /\ T = CutAcc
    OBVIOUS
  <2>2. occluded \in Seq(S) /\ base \in T /\ \A i \in S : \A t \in T : PassedInterval(to, t, i) \in T
    BY <1>1, <1>3, <1>4, <2>1
  <2>3. PICK G : /\ GapWalk(to, T, base, occluded, G)
                /\ GapFold(to, base, occluded) = G[Len(occluded)]
    BY <2>2, GapWalks
  <2> QED BY <2>1, <2>3
<1>6. /\ \A i \in 0..n : G[i] \in CutAcc
      /\ G[0] = base
      /\ \A i \in 1..n : G[i] = PassedInterval(to, G[i - 1], occluded[i])
  BY <1>1, <1>5 DEF GapWalk
<1>7. PICK P : P = {i \in 0..n : Uncovered(occluded, G[i], i, from)}
  OBVIOUS
<1>8. 0 \in P
  <2>1. Ascending(<<>>, from, from)
    BY DEF Ascending
  <2>2. Fills(occluded, <<>>, 0, from, from)
    BY <2>1 DEF Fills
  <2>3. Uncovered(occluded, base, 0, from)
    BY <1>3, <2>2 DEF Uncovered
  <2> QED BY <1>6, <1>7, <2>3
<1>9. ASSUME NEW i \in 1..n, i - 1 \in P PROVE i \in P
  <2>1. Uncovered(occluded, G[i - 1], i - 1, from)
    BY <1>7, <1>9
  <2>2. G[i - 1] \in CutAcc
    <3>1. i - 1 \in 0..n
      OBVIOUS
    <3> QED BY <1>6, <3>1
  <2>3. PICK acc \in CutAcc : acc = G[i - 1]
    BY <2>2
  <2>4. i \in 1..Len(occluded)
    BY <1>1
  <2>5. Uncovered(occluded, PassedInterval(to, acc, occluded[i]), i, from)
    BY <2>1, <2>3, <2>4, UncoveredOn
  <2> QED BY <1>6, <1>7, <2>3, <2>5
<1>10. n \in P
  <2>1. \A i \in 0..n : i \in P
    BY <1>8, <1>9, Upwards
  <2> QED BY <2>1
<1>11. PICK last \in CutAcc : last = G[n]
  BY <1>6
<1>12. PICK vis \in Seq(IntervalType), c \in Int : vis = last.out /\ c = last.cursor
  BY DEF CutAcc
<1>13. from <= c /\ Fills(occluded, vis, n, from, c) /\ c = IF n = 0 THEN from ELSE occluded[n][2]
  BY <1>7, <1>10, <1>11, <1>12 DEF Uncovered
<1>14. c <= to
  <2>1. CASE n = 0
    BY <1>13, <2>1
  <2>2. CASE n # 0
    <3>1. n \in DOMAIN occluded
      BY <1>1, <2>2
    <3> QED BY <1>13, <2>2, <3>1 DEF Ascending
  <2> QED BY <2>1, <2>2
<1>15. Visible(arc, occluded) = FilledUp(vis, c, to)
  <2>1. last = GapFold(to, base, occluded)
    BY <1>1, <1>5, <1>11
  <2>a. PICK end : end = GapFold(arc.to, [out |-> <<>>, cursor |-> arc.from], occluded)
    OBVIOUS
  <2>b. Visible(arc, occluded) = IF end.cursor < arc.to THEN Append(end.out, <<end.cursor, arc.to>>)
                                 ELSE end.out
    BY <2>a DEF Visible, GapFold
  <2>c. end = last
    BY <1>2, <2>1, <2>a
  <2>2. Visible(arc, occluded) = IF last.cursor < to THEN Append(last.out, <<last.cursor, to>>) ELSE last.out
    BY <2>b, <2>c
  <2>3. c < to <=> to > c
    OBVIOUS
  <2> QED BY <1>12, <2>2, <2>3 DEF FilledUp
<1>16. Fills(occluded, FilledUp(vis, c, to), n, from, to)
  BY <1>1, <1>13, <1>14, FillsUp
<1> QED BY <1>1, <1>15, <1>16

LEMMA CellsAre ==
  ASSUME NEW i, i[1] \in Int, i[2] \in Int
  PROVE  \A x : x \in Cells(i) <=> x \in Int /\ In(x, i)
<1>1. PICK a \in Int, b \in Int : a = i[1] /\ b = i[2]
  OBVIOUS
<1>2. Cells(i) = a..(b - 1)
  BY <1>1 DEF Cells
<1> QED BY <1>1, <1>2 DEF In

\* Hidden intervals and what is visible, put together.
LEMMA FillsTile ==
  ASSUME NEW arc, NEW from \in Int, NEW to \in Int, from = arc.from, to = arc.to, from <= to,
         NEW occluded, Ascending(occluded, from, to),
         NEW vis, Fills(occluded, vis, Len(occluded), from, to)
  PROVE  Tiles(occluded \o vis, arc)
<1>1. PICK n \in Nat : /\ n = Len(occluded) /\ DOMAIN occluded = 1..n /\ occluded \in Seq(IntervalType)
                      /\ \A j \in 1..n : occluded[j][1] \in Int /\ occluded[j][2] \in Int
  BY AscendingInts
<1>2. Ascending(vis, from, to)
  BY DEF Fills
<1>3. PICK m \in Nat : /\ m = Len(vis) /\ DOMAIN vis = 1..m /\ vis \in Seq(IntervalType)
                      /\ \A j \in 1..m : vis[j][1] \in Int /\ vis[j][2] \in Int
  BY <1>2, AscendingInts
<1>4. PICK all : all = occluded \o vis
  OBVIOUS
<1>5. /\ DOMAIN all = 1..(n + m)
      /\ \A j \in 1..n : all[j] = occluded[j]
      /\ \A j \in (n + 1)..(n + m) : all[j] = vis[j - n]
  BY <1>1, <1>3, <1>4
<1>6. /\ \A j \in 1..n : from <= occluded[j][1] /\ occluded[j][2] <= to
      /\ \A j \in 1..m : from <= vis[j][1] /\ vis[j][2] <= to
  BY <1>1, <1>2, <1>3 DEF Ascending
<1>7. \A j \in 1..(n + m) : \/ j \in 1..n /\ all[j] = occluded[j]
                            \/ j \in (n + 1)..(n + m) /\ j - n \in 1..m /\ all[j] = vis[j - n]
  BY <1>5
<1>8. \A j \in 1..(n + m) : /\ all[j][1] \in Int /\ all[j][2] \in Int
                            /\ from <= all[j][1] /\ all[j][2] <= to
  BY <1>1, <1>3, <1>6, <1>7
<1>9. ASSUME NEW x \in Int
      PROVE  (from <= x /\ x < to) <=> \E j \in 1..(n + m) : In(x, all[j])
  <2>1. ASSUME from <= x, x < to PROVE \E j \in 1..(n + m) : In(x, all[j])
    <3>1. (\E j \in 1..n : In(x, occluded[j])) \/ (\E l \in 1..m : In(x, vis[l]))
      BY <1>1, <1>3, <2>1 DEF Fills
    <3>2. ASSUME NEW j \in 1..n, In(x, occluded[j]) PROVE \E k \in 1..(n + m) : In(x, all[k])
      <4>1. j \in 1..(n + m)
        OBVIOUS
      <4> QED BY <1>5, <3>2, <4>1
    <3>3. ASSUME NEW l \in 1..m, In(x, vis[l]) PROVE \E k \in 1..(n + m) : In(x, all[k])
      <4>1. PICK k \in (n + 1)..(n + m) : k = n + l
        OBVIOUS
      <4>2. k \in 1..(n + m) /\ k - n = l
        BY <4>1
      <4>3. all[k] = vis[l]
        BY <1>5, <4>2
      <4> QED BY <3>3, <4>2, <4>3
    <3> QED BY <3>1, <3>2, <3>3
  <2>2. ASSUME NEW j \in 1..(n + m), In(x, all[j]) PROVE from <= x /\ x < to
    <3>1. PICK a \in Int, b \in Int : a = all[j][1] /\ b = all[j][2] /\ from <= a /\ b <= to
      BY <1>8
    <3>2. a <= x /\ x < b
      BY <2>2, <3>1 DEF In
    <3> QED BY <3>1, <3>2
  <2> QED BY <2>1, <2>2
<1>10. UNION {Cells(all[j]) : j \in DOMAIN all} = Cells(<<from, to>>)
  <2>1. \A x : x \in Cells(<<from, to>>) <=> x \in Int /\ from <= x /\ x < to
    <3>1. Cells(<<from, to>>) = from..(to - 1)
      BY DEF Cells
    <3> QED BY <3>1
  <2>2. \A j \in 1..(n + m) : \A x : x \in Cells(all[j]) <=> x \in Int /\ In(x, all[j])
    BY <1>8, CellsAre
  <2>3. \A x : x \in UNION {Cells(all[j]) : j \in DOMAIN all} <=>
                 x \in Int /\ \E j \in 1..(n + m) : In(x, all[j])
    BY <1>5, <2>2
  <2>4. \A x : x \in UNION {Cells(all[j]) : j \in DOMAIN all} <=> x \in Cells(<<from, to>>)
    BY <1>9, <2>1, <2>3
  <2> QED BY <2>4
<1>11. ASSUME NEW i \in 1..(n + m), NEW j \in 1..(n + m), i < j
       PROVE  all[i][2] <= all[j][1] \/ all[j][2] <= all[i][1]
  <2>1. CASE i \in 1..n /\ j \in 1..n
    <3>1. occluded[i][2] <= occluded[j][1]
      BY <1>1, <1>11, <2>1 DEF Ascending
    <3> QED BY <1>5, <2>1, <3>1
  <2>2. CASE i \in 1..n /\ j \in (n + 1)..(n + m)
    <3>1. PICK l \in 1..m : l = j - n
      BY <2>2
    <3>2. occluded[i][2] <= vis[l][1] \/ vis[l][2] <= occluded[i][1]
      BY <1>1, <1>3, <2>2 DEF Fills
    <3>3. all[i] = occluded[i] /\ all[j] = vis[l]
      BY <1>5, <2>2, <3>1
    <3> QED BY <3>2, <3>3
  <2>3. CASE i \in (n + 1)..(n + m)
    <3>1. PICK h \in 1..m, l \in 1..m : h = i - n /\ l = j - n /\ h < l
      BY <1>11, <2>3
    <3>2. vis[h][2] <= vis[l][1]
      BY <1>2, <1>3, <3>1 DEF Ascending
    <3>3. j \in (n + 1)..(n + m)
      BY <1>11, <2>3
    <3>4. all[i] = vis[h] /\ all[j] = vis[l]
      BY <1>5, <2>3, <3>1, <3>3
    <3> QED BY <3>2, <3>4
  <2> QED BY <1>11, <2>1, <2>2, <2>3
<1>12. ASSUME NEW i \in 1..(n + m), NEW j \in 1..(n + m), i # j
       PROVE  Cells(all[i]) \cap Cells(all[j]) = {}
  <2>1. all[i][2] <= all[j][1] \/ all[j][2] <= all[i][1]
    <3>1. CASE i < j
      BY <1>11, <3>1
    <3>2. CASE j < i
      BY <1>11, <3>2
    <3> QED BY <1>12, <3>1, <3>2
  <2>2. PICK a \in Int, b \in Int, c \in Int, d \in Int :
          a = all[i][1] /\ b = all[i][2] /\ c = all[j][1] /\ d = all[j][2]
    BY <1>8
  <2>3. \A x : /\ x \in Cells(all[i]) => x \in Int /\ a <= x /\ x < b
               /\ x \in Cells(all[j]) => x \in Int /\ c <= x /\ x < d
    BY <1>8, <2>2, CellsAre DEF In
  <2>4. b <= c \/ d <= a
    BY <2>1, <2>2
  <2>5. \A x : ~ (x \in Cells(all[i]) /\ x \in Cells(all[j]))
    BY <2>3, <2>4
  <2> QED BY <2>5
<1> QED BY <1>4, <1>5, <1>10, <1>12 DEF Tiles, Covered

(***************************************************************************)
(* What stands in the way                                                  *)
(***************************************************************************)

\* Wherever one looks, a search comes back with indices of the boxes.
LEMMA QueryType ==
  ASSUME NEW boxes \in Seq(BoxType), NEW region, NEW tree, NEW D, Holds(tree, boxes, D)
  PROVE  Query(tree, region) \in Seq(DOMAIN boxes)
<1>1. PICK T : T = Seq(DOMAIN boxes)
  OBVIOUS
<1>2. PICK E : E = EntryType(boxes)
  OBVIOUS
<1>3. tree \in TreeOf(E)
  BY <1>2 DEF Holds
<1>4. PICK none \in T : none = <<>>
  <2>1. <<>> \in Seq(DOMAIN boxes)
    OBVIOUS
  <2> QED BY <1>1, <2>1
<1>5. PICK first : first = Searched(region, none, tree)
  OBVIOUS
<1>6. first \in T
  <2>1. tree.items \in Seq(EntryType(boxes))
    BY <1>2, <1>3, TreeFields
  <2> QED BY <1>1, <1>5, <2>1, SearchedType
<1>7. PICK S : S = NodeOf(E)
  OBVIOUS
<1>8. PICK nodes \in Seq(S) : nodes = tree.children
  BY <1>3, <1>7, TreeFields
<1>9. \A e \in S : \A t \in T : Searched(region, t, e) \in T
  <2>1. \A e \in S : e.items \in Seq(EntryType(boxes))
    BY <1>2, <1>7 DEF NodeOf
  <2> QED BY <1>1, <2>1, SearchedType
<1>10. PICK G : VisitWalk(region, T, first, nodes, G) /\ VisitFold(region, first, nodes) = G[Len(nodes)]
  BY <1>6, <1>9, VisitWalks
<1>11. G[Len(nodes)] \in T
  <2>1. Len(nodes) \in 0..Len(nodes)
    OBVIOUS
  <2> QED BY <1>10, <2>1 DEF VisitWalk
<1>12. Query(tree, region) = IF ~ Overlaps(tree.box, region) THEN none ELSE VisitFold(region, first, nodes)
  BY <1>4, <1>5, <1>8 DEF Query, VisitFold
<1> QED BY <1>1, <1>10, <1>11, <1>12

LEMMA NearType ==
  ASSUME NEW S, NEW things \in Seq(S), \A s \in S : s.pos \in PointType, NEW origin, NEW radius
  PROVE  Near(things, origin, radius) \in Seq(S)
<1>1. PICK n \in Nat : n = Len(things) /\ DOMAIN things = 1..n /\ \A i \in 1..n : things[i] \in S
  OBVIOUS
<1>2. PICK boxes : boxes = [i \in DOMAIN things |-> PointBox(things[i].pos)]
  OBVIOUS
<1>3. boxes \in Seq(BoxType) /\ DOMAIN boxes = 1..n
  <2>1. \A p \in PointType : PointBox(p) \in BoxType
    BY DEF PointBox, BoxType
  <2>2. boxes \in [1..n -> BoxType]
    BY <1>1, <1>2, <2>1
  <2> QED BY <2>2
<1>4. PICK tree : tree = Built(boxes, NodeSize)
  OBVIOUS
<1>5. Holds(tree, boxes, DOMAIN boxes)
  BY <1>3, <1>4, BuiltHolds
<1>6. PICK region : region = CircleBox(origin, radius)
  OBVIOUS
<1>7. PICK found : found = Query(tree, region)
  OBVIOUS
<1>8. found \in Seq(1..n)
  BY <1>3, <1>5, <1>7, QueryType
<1>9. Near(things, origin, radius) = [k \in DOMAIN found |-> things[found[k]]]
  BY <1>2, <1>4, <1>6, <1>7 DEF Near, At
<1>10. PICK m \in Nat : DOMAIN found = 1..m /\ \A k \in 1..m : found[k] \in 1..n
  BY <1>8
<1>11. [k \in DOMAIN found |-> things[found[k]]] \in [1..m -> S]
  BY <1>1, <1>10
<1> QED BY <1>9, <1>11

\* Obstacles are bodies and ships, and what they reflect of a band is a number.
LEMMA ObstaclesType ==
  ASSUME NEW bs, NEW ss, Standing(bs), Standing(ss), \A i \in DOMAIN bs : bs[i].albedo \in PowerType,
         NEW arc
  PROVE  \E S : Obstacles(arc, bs, ss) \in Seq(S) /\ \A s \in S : s.albedo \in PowerType
<1>1. PICK bodies : bodies = BodyObstacles(bs)
  OBVIOUS
<1>2. PICK hulls : hulls = ShipObstacles(ss)
  OBVIOUS
<1>3. PICK n \in Nat : DOMAIN bs = 1..n /\ \A i \in 1..n : bs[i].pos \in PointType
  BY DEF Standing, PointType
<1>4. PICK m \in Nat : DOMAIN ss = 1..m /\ \A i \in 1..m : ss[i].pos \in PointType
  BY DEF Standing, PointType
<1>5. PICK S : S = {bodies[i] : i \in 1..n} \cup {hulls[i] : i \in 1..m}
  OBVIOUS
<1>6. DOMAIN bodies = 1..n /\ \A i \in 1..n : bodies[i].pos = bs[i].pos /\ bodies[i].albedo = bs[i].albedo
  BY <1>1, <1>3 DEF BodyObstacles, Obstacle
<1>7. DOMAIN hulls = 1..m /\ \A i \in 1..m : hulls[i].pos = ss[i].pos /\ hulls[i].albedo = Dark
  BY <1>2, <1>4 DEF ShipObstacles, Obstacle
<1>8. Dark \in PowerType
  BY DEF Dark, PowerType
<1>9. \A s \in S : s.pos \in PointType /\ s.albedo \in PowerType
  <2>1. \A i \in 1..n : bodies[i].pos \in PointType /\ bodies[i].albedo \in PowerType
    BY <1>3, <1>6
  <2>2. \A i \in 1..m : hulls[i].pos \in PointType /\ hulls[i].albedo \in PowerType
    BY <1>4, <1>7, <1>8
  <2> QED BY <1>5, <2>1, <2>2
<1>10. bodies \in Seq(S) /\ hulls \in Seq(S)
  <2>1. bodies = [i \in 1..n |-> bodies[i]] /\ hulls = [i \in 1..m |-> hulls[i]]
    BY <1>1, <1>2, <1>3, <1>4 DEF BodyObstacles, ShipObstacles
  <2>2. bodies \in [1..n -> S] /\ hulls \in [1..m -> S]
    BY <1>5, <2>1
  <2> QED BY <2>2
<1>11. PICK radius : radius = arc.outer + Max({Largest(bodies), Largest(hulls)})
  OBVIOUS
<1>12. PICK near \in Seq(S) : near = Near(bodies, arc.origin, radius) \o Near(hulls, arc.origin, radius)
  <2>1. PICK a \in Seq(S), b \in Seq(S) : /\ a = Near(bodies, arc.origin, radius)
                                          /\ b = Near(hulls, arc.origin, radius)
    BY <1>9, <1>10, NearType
  <2>2. a \o b \in Seq(S)
    OBVIOUS
  <2> QED BY <2>1, <2>2
<1>13. PICK which : which = {i \in DOMAIN near : near[i].id # arc.source /\ Reached(arc, near[i])}
  OBVIOUS
<1>14. Obstacles(arc, bs, ss) = Those(near, which)
  BY <1>1, <1>2, <1>11, <1>12, <1>13 DEF Obstacles, ObstaclesAmong
<1>15. which \subseteq DOMAIN near
  BY <1>13
<1>16. Those(near, which) \in Seq(S)
  <2>1. PICK k \in Nat : DOMAIN near = 1..k
    OBVIOUS
  <2>2. PICK R : R = {near[i] : i \in which}
    OBVIOUS
  <2>3. Those(near, which) \in Seq(R)
    BY <1>15, <2>1, <2>2, ThoseAre
  <2>4. R \subseteq S
    BY <1>15, <2>2
  <2> QED BY <2>3, <2>4
<1> QED BY <1>9, <1>14, <1>16

(***************************************************************************)
(* Arcs                                                                    *)
(***************************************************************************)

\* The fields of an arc.
Shaped(a) ==
  a = [id |-> a.id, origin |-> a.origin, from |-> a.from, to |-> a.to, inner |-> a.inner,
       outer |-> a.outer, power |-> a.power, keep |-> a.keep, source |-> a.source,
       generation |-> a.generation, payload |-> a.payload, born |-> a.born]

GoodArc(a) ==
  /\ Shaped(a)
  /\ a.id \in Int /\ a.generation \in Nat
  /\ a.from \in Int /\ a.to \in Int /\ Sector(a)
  /\ a.power \in PowerType /\ a.keep \in PowerType

\* Of the same sending, as far from where it began.
SameRing(a, b) ==
  /\ a.origin = b.origin /\ a.inner = b.inner /\ a.outer = b.outer
  /\ a.source = b.source /\ a.payload = b.payload /\ a.generation = b.generation

LEMMA Powers ==
  ASSUME NEW power
  PROVE  power \in PowerType <=> /\ power = [b \in Bands |-> power[b]]
                                 /\ \A b \in Bands : power[b] \in Nat
BY DEF PowerType

LEMMA SpreadGood ==
  ASSUME NEW arc, GoodArc(arc)
  PROVE  /\ GoodArc(Spread(arc))
         /\ Spread(arc).inner = arc.inner + Ring /\ Spread(arc).outer = arc.outer + Ring
         /\ Spread(arc).origin = arc.origin /\ Spread(arc).source = arc.source
         /\ Spread(arc).payload = arc.payload /\ Spread(arc).generation = arc.generation
<1>1. PICK power : power = [b \in Bands |-> (arc.power[b] * arc.keep[b]) \div 100]
  OBVIOUS
<1>2. power \in PowerType
  <2>1. ASSUME NEW p \in Nat, NEW k \in Nat PROVE (p * k) \div 100 \in Nat
    <3>1. PICK m \in Nat : m = p * k
      OBVIOUS
    <3> QED BY <3>1
  <2>2. \A b \in Bands : arc.power[b] \in Nat /\ arc.keep[b] \in Nat
    BY DEF GoodArc, PowerType
  <2>3. \A b \in Bands : (arc.power[b] * arc.keep[b]) \div 100 \in Nat
    BY <2>1, <2>2
  <2> QED BY <1>1, <2>3 DEF PowerType
<1>3. PICK new : new = [arc EXCEPT !.inner = @ + Ring, !.outer = @ + Ring, !.power = power]
  OBVIOUS
<1>4. Spread(arc) = new
  BY <1>1, <1>3 DEF Spread
<1>5. Shaped(arc)
  BY DEF GoodArc
<1>6. /\ Shaped(new)
      /\ new.inner = arc.inner + Ring /\ new.outer = arc.outer + Ring /\ new.power = power
      /\ new.origin = arc.origin /\ new.source = arc.source
      /\ new.payload = arc.payload /\ new.generation = arc.generation
      /\ new.id = arc.id /\ new.from = arc.from /\ new.to = arc.to /\ new.keep = arc.keep
  BY <1>3, <1>5 DEF Shaped
<1>7. GoodArc(new)
  BY <1>2, <1>6 DEF GoodArc, Sector
<1> QED BY <1>4, <1>6, <1>7

\* A piece of an arc.
LEMMA PieceGood ==
  ASSUME NEW arc, GoodArc(arc), NEW i \in Int, NEW a \in Int, NEW b \in Int,
         -16 <= a, a <= b, b <= 16,
         NEW new, new = [arc EXCEPT !.id = arc.id + i, !.from = a, !.to = b]
  PROVE  GoodArc(new) /\ SameRing(new, arc)
<1>1. PICK id \in Int : id = arc.id + i
  BY DEF GoodArc
<1>3. Shaped(arc)
  BY DEF GoodArc
<1>4. /\ Shaped(new) /\ SameRing(new, arc)
      /\ new.id = id /\ new.from = a /\ new.to = b /\ new.power = arc.power
      /\ new.keep = arc.keep /\ new.generation = arc.generation
  BY <1>1, <1>3 DEF Shaped, SameRing
<1>5. GoodArc(new)
  BY <1>4 DEF GoodArc, Sector
<1> QED BY <1>4, <1>5

LEMMA WiderThan ==
  ASSUME NEW d \in Int, -16 <= d, d <= 16, NEW h \in Int, 0 <= h, h <= 16
  PROVE  /\ d - h \in Int /\ d + h \in Int /\ d - h <= d + h /\ (d + h) - (d - h) <= 32
         /\ -32 <= d - h /\ d - h <= 16 /\ -16 <= d + h /\ d + h <= 32
OBVIOUS

\* What is thrown back.
LEMMA EchoGood ==
  ASSUME NEW arc, GoodArc(arc), NEW id \in Int, NEW i \in IntervalType, NEW thing,
         NEW power \in PowerType, -16 <= i[1], i[1] <= i[2], i[2] <= 16
  PROVE  /\ GoodArc(Echo(arc, id, i, thing, power))
         /\ Echo(arc, id, i, thing, power).generation > 0
         /\ Echo(arc, id, i, thing, power).power = power
<1>1. PICK away : away = Minus(arc.origin, thing.pos)
  OBVIOUS
<1>2. PICK a \in Int, b \in Int : a = i[1] /\ b = i[2]
  BY DEF IntervalType
<1>3. PICK mid \in Int, half \in Int : mid = (a + b) \div 2 /\ half = (b - a) \div 2
  OBVIOUS
<1>4. 0 <= half /\ half <= 16
  BY <1>2, <1>3
<1>5. PICK turned \in Int : turned = mid - 2 * Angle(away)
  BY AngleInt
<1>6. PICK d \in Int : d = Normalized(turned) /\ -16 <= d /\ d <= 16
  BY NormalizedRange
<1>a. PICK g \in Nat : g = arc.generation
  BY DEF GoodArc
<1>b. PICK origin : origin = Plus(thing.pos, Along(away, thing.radius + 1))
  OBVIOUS
<1>7. origin = Plus(thing.pos, Along(away, thing.radius + 1)) /\ g = arc.generation
  BY <1>a, <1>b
<1>8. PICK new : new = [arc EXCEPT !.id = id, !.origin = origin, !.from = d - half, !.to = d + half,
                                   !.power = power, !.generation = @ + 1]
  OBVIOUS
<1>9. Echo(arc, id, i, thing, power) = new
  BY <1>1, <1>2, <1>3, <1>5, <1>6, <1>7, <1>8 DEF Echo
<1>10. Shaped(arc)
  BY DEF GoodArc
<1>11. /\ Shaped(new) /\ new.id = id /\ new.from = d - half /\ new.to = d + half
       /\ new.power = power /\ new.keep = arc.keep /\ new.generation = g + 1
  BY <1>7, <1>8, <1>10 DEF Shaped
<1>12. Sector(new) /\ new.from \in Int /\ new.to \in Int
  BY <1>4, <1>6, <1>11, WiderThan DEF Sector
<1>13. GoodArc(new) /\ new.generation > 0
  BY <1>11, <1>12 DEF GoodArc
<1> QED BY <1>9, <1>11, <1>13

LEMMA NewArcGood ==
  ASSUME NEW id \in Int, NEW origin, NEW direction \in Int, NEW width \in Int, 0 <= width,
         width <= 32, NEW power \in PowerType, NEW tick
  PROVE  /\ GoodArc(NewArc(id, origin, direction, width, power, tick))
         /\ NewArc(id, origin, direction, width, power, tick).payload = Silence
         /\ NewArc(id, origin, direction, width, power, tick).origin = origin
         /\ NewArc(id, origin, direction, width, power, tick).inner = 0
<1>1. PICK d \in Int : d = Normalized(direction) /\ -16 <= d /\ d <= 16
  BY NormalizedRange
<1>2. PICK h \in Int : h = width \div 2 /\ 0 <= h /\ h <= 16
  OBVIOUS
<1>3. PICK keep : keep = [b \in Bands |-> 100]
  OBVIOUS
<1>4. keep \in PowerType
  BY <1>3 DEF PowerType
<1>5. PICK new : new = [id |-> id, origin |-> origin, from |-> d - h, to |-> d + h,
                        inner |-> 0, outer |-> 0, power |-> power, keep |-> keep,
                        source |-> NoSource, generation |-> 0, payload |-> Silence, born |-> tick]
  OBVIOUS
<1>6. NewArc(id, origin, direction, width, power, tick) = new
  BY <1>1, <1>2, <1>3, <1>5 DEF NewArc
<1>7. /\ Shaped(new) /\ new.id = id /\ new.from = d - h /\ new.to = d + h
      /\ new.power = power /\ new.keep = keep /\ new.generation = 0
      /\ new.payload = Silence /\ new.origin = origin /\ new.inner = 0
  BY <1>5 DEF Shaped
<1>8. Sector(new) /\ new.from \in Int /\ new.to \in Int
  BY <1>1, <1>2, <1>7, WiderThan DEF Sector
<1>9. GoodArc(new)
  BY <1>4, <1>7, <1>8 DEF GoodArc
<1> QED BY <1>3, <1>6, <1>7, <1>9

\* A power with one band changed.
LEMMA BandSet ==
  ASSUME NEW power \in PowerType, NEW b, NEW x \in Nat
  PROVE  [power EXCEPT ![b] = x] \in PowerType
BY DEF PowerType

LEMMA BeamGood ==
  ASSUME NEW ship, NEW id \in Int, NEW tick, ship.faces \in Int, ship.emitter[1] \in EmitterType
  PROVE  GoodArc(BeamFrom(ship, id, tick)) /\ BeamFrom(ship, id, tick).payload = Silence
<1>1. PICK e : e = ship.emitter[1]
  OBVIOUS
<1>2. PICK angle \in Int, width \in Int, power \in PowerType :
        /\ 0 <= width /\ width <= 32 /\ angle = e.angle /\ width = e.width /\ power = e.power
  BY <1>1 DEF EmitterType, Turn
<1>3. PICK direction \in Int : direction = -(ship.faces + angle)
  OBVIOUS
<1>4. PICK plain : plain = NewArc(id, ship.pos, direction, width, power, tick)
  OBVIOUS
<1>5. GoodArc(plain) /\ plain.payload = Silence
  BY <1>2, <1>4, NewArcGood
<1>6. PICK new : new = [plain EXCEPT !.source = ship.id]
  OBVIOUS
<1>7. BeamFrom(ship, id, tick) = new
  BY <1>1, <1>2, <1>3, <1>4, <1>6 DEF BeamFrom
<1>8. Shaped(plain)
  BY <1>5 DEF GoodArc
<1>9. /\ Shaped(new) /\ new.payload = plain.payload /\ new.id = plain.id /\ new.from = plain.from
      /\ new.to = plain.to /\ new.power = plain.power /\ new.keep = plain.keep
      /\ new.generation = plain.generation
  BY <1>6, <1>8 DEF Shaped
<1>10. GoodArc(new)
  BY <1>5, <1>9 DEF GoodArc, Sector
<1> QED BY <1>5, <1>7, <1>9, <1>10

LEMMA BroadcastGood ==
  ASSUME NEW station, NEW message, NEW id \in Int, NEW tick
  PROVE  LET arc == Broadcast(station, message, id, tick)
         IN  /\ GoodArc(arc) /\ arc.payload = message /\ arc.origin = station.pos
             /\ arc.inner = 0 /\ arc.outer = Ring /\ arc.source = station.id
<1>1. Dark \in PowerType
  BY DEF Dark, PowerType
<1>2. PICK power \in PowerType : power = [Dark EXCEPT !["radio"] = RadioPower]
  BY <1>1, ArcsAssumption, BandSet
<1>4. PICK zero \in Int, all \in Int : zero = 0 /\ all = 32 /\ 0 <= all /\ all <= 32
  OBVIOUS
<1>3. PICK plain : plain = NewArc(id, station.pos, zero, all, power, tick)
  OBVIOUS
<1>5. GoodArc(plain) /\ plain.origin = station.pos /\ plain.inner = 0
  BY <1>3, <1>4, NewArcGood
<1>6. plain.keep \in PowerType
  BY <1>5 DEF GoodArc
<1>7. PICK keep \in PowerType : keep = [plain.keep EXCEPT !["radio"] = RadioKeep]
  BY <1>6, ArcsAssumption, BandSet
<1>8. PICK new : new = [plain EXCEPT !.outer = Ring, !.source = station.id, !.payload = message,
                                     !.keep = keep]
  OBVIOUS
<1>9. Shaped(plain)
  BY <1>5 DEF GoodArc
<1>10. Broadcast(station, message, id, tick) = new
  <2>1. Broadcast(station, message, id, tick)
          = [plain EXCEPT !.outer = Ring, !.source = station.id, !.payload = message,
                          !.keep = [@ EXCEPT !["radio"] = RadioKeep]]
    BY <1>2, <1>3, <1>4 DEF Broadcast, Turn
  <2> QED BY <1>7, <1>8, <2>1
<1>11. /\ Shaped(new) /\ new.payload = message /\ new.source = station.id /\ new.outer = Ring
       /\ new.keep = keep /\ new.id = plain.id /\ new.from = plain.from
       /\ new.to = plain.to /\ new.power = plain.power /\ new.origin = plain.origin
       /\ new.generation = plain.generation /\ new.inner = plain.inner
  BY <1>8, <1>9 DEF Shaped
<1>12. GoodArc(new)
  BY <1>5, <1>11 DEF GoodArc, Sector
<1> QED BY <1>5, <1>10, <1>11, <1>12

LEMMA PlumeGood ==
  ASSUME NEW ship, NEW id \in Int, NEW tick, ship.faces \in Int
  PROVE  GoodArc(Plume(ship, id, tick)) /\ Plume(ship, id, tick).payload = Silence
<1>1. Dark \in PowerType
  BY DEF Dark, PowerType
<1>2. PICK hot \in PowerType : hot = [Dark EXCEPT !["engine"] = PlumePower]
  BY <1>1, ArcsAssumption, BandSet
<1>3. PICK half \in Nat : half = PlumePower \div 2
  BY ArcsAssumption
<1>4. PICK power \in PowerType : power = [hot EXCEPT !["infrared"] = half]
  BY BandSet
<1>5. PICK direction \in Int, four \in Int : /\ direction = -(ship.faces + HalfTurn) /\ four = 4
                                          /\ 0 <= four /\ four <= 32
  BY DEF HalfTurn
<1>6. PICK plain : plain = NewArc(id, ship.pos, direction, four, power, tick)
  OBVIOUS
<1>7. GoodArc(plain) /\ plain.payload = Silence
  BY <1>5, <1>6, NewArcGood
<1>8. plain.keep \in PowerType /\ Shaped(plain)
  BY <1>7 DEF GoodArc
<1>9. PICK ten \in Nat, thirty \in Nat : ten = 10 /\ thirty = 30
  OBVIOUS
<1>10. PICK less \in PowerType : less = [plain.keep EXCEPT !["engine"] = ten]
  BY <1>8, BandSet
<1>11. PICK keep \in PowerType : keep = [less EXCEPT !["infrared"] = thirty]
  BY BandSet
<1>12. PICK new : new = [plain EXCEPT !.keep = keep]
  OBVIOUS
<1>13. Plume(ship, id, tick) = new
  <2>1. Plume(ship, id, tick)
          = [plain EXCEPT !.keep = [[@ EXCEPT !["engine"] = ten] EXCEPT !["infrared"] = thirty]]
    BY <1>2, <1>3, <1>4, <1>5, <1>6, <1>9 DEF Plume
  <2> QED BY <1>10, <1>11, <1>12, <2>1
<1>14. /\ Shaped(new) /\ new.payload = plain.payload /\ new.keep = keep /\ new.id = plain.id
       /\ new.from = plain.from /\ new.to = plain.to /\ new.power = plain.power
       /\ new.generation = plain.generation
  BY <1>8, <1>12 DEF Shaped
<1>15. GoodArc(new)
  BY <1>7, <1>14 DEF GoodArc, Sector
<1> QED BY <1>7, <1>13, <1>14, <1>15

(***************************************************************************)
(* What obstacles take and throw back                                      *)
(***************************************************************************)

LEMMA FirstHitIs ==
  ASSUME NEW S, NEW obstacles \in Seq(S), NEW origin, NEW angle
  PROVE  FirstHit(origin, angle, obstacles) = <<>> \/ \E s \in S : FirstHit(origin, angle, obstacles) = <<s>>
<1>1. PICK none, T : none = <<>> /\ T = {none} \cup {<<s>> : s \in S}
  OBVIOUS
<1>2. none \in T
  BY <1>1
<1>3. \A s \in S : \A t \in T : Nearer(origin, angle, t, s) \in T
  BY <1>1 DEF Nearer
<1>4. PICK G : /\ HitWalk(origin, angle, T, none, obstacles, G)
              /\ HitFold(origin, angle, none, obstacles) = G[Len(obstacles)]
  BY <1>2, <1>3, HitWalks
<1>5. Len(obstacles) \in 0..Len(obstacles)
  OBVIOUS
<1>6. HitFold(origin, angle, none, obstacles) \in T
  BY <1>4, <1>5 DEF HitWalk
<1>7. FirstHit(origin, angle, obstacles) = HitFold(origin, angle, none, obstacles)
  BY <1>1 DEF FirstHit, HitFold
<1> QED BY <1>1, <1>6, <1>7

LEMMA Quotients ==
  ASSUME NEW x \in Nat, NEW w \in Nat, w > 0
  PROVE  x \div w \in Nat /\ (x \div w) * w <= x /\ x < (x \div w + 1) * w
OBVIOUS

LEMMA Products ==
  /\ \A x, y \in Nat : x * y \in Nat
  /\ \A x, y, z \in Nat : x <= y => z * x <= z * y /\ x * z <= y * z
  /\ \A x, y, z \in Nat : (x + y) * z = x * z + y * z /\ z * (x + y) = z * x + z * y
OBVIOUS

LEMMA QuotientAtLeast ==
  ASSUME NEW q \in Nat, NEW x \in Nat, NEW w \in Nat, w > 0, q * w <= x
  PROVE  q <= x \div w
<1>1. PICK d \in Nat : d = x \div w /\ x < (d + 1) * w
  BY Quotients
<1>2. CASE d + 1 <= q
  <2>1. (d + 1) * w <= q * w
    BY <1>2, Products
  <2>2. PICK a \in Nat, b \in Nat : a = (d + 1) * w /\ b = q * w
    BY Products
  <2> QED BY <1>1, <2>1, <2>2
<1> QED BY <1>1, <1>2

\* The shares of parts come to no more than the share of what they are parts of.
LEMMA QuotientsAdd ==
  ASSUME NEW p \in Nat, NEW a \in Nat, NEW b \in Nat, NEW c \in Nat, a + b <= c, NEW w \in Nat, w > 0
  PROVE  (p * a) \div w + (p * b) \div w <= (p * c) \div w
<1>1. PICK x \in Nat, y \in Nat, z \in Nat : x = p * a /\ y = p * b /\ z = p * c
  BY Products
<1>2. x + y <= z
  <2>1. PICK s \in Nat : s = a + b
    OBVIOUS
  <2>2. p * s <= p * c /\ p * (a + b) = p * a + p * b
    BY <2>1, Products
  <2> QED BY <1>1, <2>1, <2>2
<1>3. PICK q \in Nat, r \in Nat : q = x \div w /\ r = y \div w /\ q * w <= x /\ r * w <= y
  BY Quotients
<1>4. (q + r) * w = q * w + r * w
  BY Products
<1>5. PICK s \in Nat, u \in Nat, v \in Nat : s = q + r /\ u = q * w /\ v = r * w
  BY Products
<1>6. s * w <= z
  BY <1>2, <1>3, <1>4, <1>5
<1>7. s <= z \div w
  BY <1>6, QuotientAtLeast
<1> QED BY <1>1, <1>3, <1>5, <1>7

LEMMA QuotientBelow ==
  ASSUME NEW p \in Nat, NEW c \in Nat, NEW w \in Nat, w > 0, c <= w
  PROVE  (p * c) \div w <= p
<1>1. PICK x \in Nat, y \in Nat : x = p * c /\ y = p * w /\ x <= y
  BY Products
<1>2. PICK d \in Nat : d = x \div w /\ d * w <= x
  BY Quotients
<1>3. CASE p + 1 <= d
  <2>1. (p + 1) * w <= d * w /\ (p + 1) * w = p * w + 1 * w
    BY <1>3, Products
  <2>2. PICK a \in Nat : a = d * w
    BY Products
  <2> QED BY <1>1, <1>2, <2>1, <2>2
<1> QED BY <1>1, <1>2, <1>3

LEMMA TotalIs ==
  ASSUME NEW power \in PowerType
  PROVE  /\ power["radio"] \in Nat /\ power["engine"] \in Nat /\ power["infrared"] \in Nat
         /\ Total(power) \in Nat /\ Total(power) = power["radio"] + power["engine"] + power["infrared"]
<1>1. power["radio"] \in Nat /\ power["engine"] \in Nat /\ power["infrared"] \in Nat
  BY DEF PowerType, Bands
<1> QED BY <1>1 DEF Total

LEMMA ShareIs ==
  ASSUME NEW power \in PowerType, NEW n \in Nat, NEW w \in Nat, w > 0
  PROVE  /\ Share(power, n, w) \in PowerType
         /\ Total(Share(power, n, w)) \in Nat
         /\ Total(Share(power, n, w)) = (power["radio"] * n) \div w + (power["engine"] * n) \div w
                                          + (power["infrared"] * n) \div w
<1>1. PICK share : share = Share(power, n, w)
  OBVIOUS
<1>2. share = [b \in Bands |-> (power[b] * n) \div w]
  BY <1>1 DEF Share
<1>3. \A b \in Bands : (power[b] * n) \div w \in Nat
  <2>1. \A b \in Bands : power[b] \in Nat
    BY DEF PowerType
  <2>2. \A p \in Nat : (p * n) \div w \in Nat
    BY Products, Quotients
  <2> QED BY <2>1, <2>2
<1>4. share \in PowerType
  BY <1>2, <1>3 DEF PowerType
<1>5. /\ share["radio"] = (power["radio"] * n) \div w
      /\ share["engine"] = (power["engine"] * n) \div w
      /\ share["infrared"] = (power["infrared"] * n) \div w
  BY <1>2 DEF Bands
<1> QED BY <1>1, <1>4, <1>5, TotalIs

LEMMA SharesAdd ==
  ASSUME NEW power \in PowerType, NEW a \in Nat, NEW b \in Nat, NEW c \in Nat, a + b <= c,
         NEW w \in Nat, w > 0
  PROVE  Total(Share(power, a, w)) + Total(Share(power, b, w)) <= Total(Share(power, c, w))
<1> DEFINE Part(band, n) == (power[band] * n) \div w
<1>1. \A band \in {"radio", "engine", "infrared"} : power[band] \in Nat
  BY TotalIs
<1>2. \A band \in {"radio", "engine", "infrared"} :
        /\ Part(band, a) \in Nat /\ Part(band, b) \in Nat /\ Part(band, c) \in Nat
        /\ Part(band, a) + Part(band, b) <= Part(band, c)
  <2>1. ASSUME NEW p \in Nat
        PROVE  /\ (p * a) \div w \in Nat /\ (p * b) \div w \in Nat /\ (p * c) \div w \in Nat
               /\ (p * a) \div w + (p * b) \div w <= (p * c) \div w
    BY Products, Quotients, QuotientsAdd
  <2> QED BY <1>1, <2>1
<1>3. /\ Total(Share(power, a, w)) = Part("radio", a) + Part("engine", a) + Part("infrared", a)
      /\ Total(Share(power, b, w)) = Part("radio", b) + Part("engine", b) + Part("infrared", b)
      /\ Total(Share(power, c, w)) = Part("radio", c) + Part("engine", c) + Part("infrared", c)
  BY ShareIs
<1> HIDE DEF Part
<1> QED BY <1>2, <1>3

LEMMA ShareBelow ==
  ASSUME NEW power \in PowerType, NEW c \in Nat, NEW w \in Nat, w > 0, c <= w
  PROVE  Total(Share(power, c, w)) <= Total(power)
<1> DEFINE Part(band) == (power[band] * c) \div w
<1>1. \A band \in {"radio", "engine", "infrared"} : power[band] \in Nat
  BY TotalIs
<1>2. \A band \in {"radio", "engine", "infrared"} : Part(band) \in Nat /\ Part(band) <= power[band]
  <2>1. ASSUME NEW p \in Nat PROVE (p * c) \div w \in Nat /\ (p * c) \div w <= p
    BY Products, Quotients, QuotientBelow
  <2> QED BY <1>1, <2>1
<1>3. Total(Share(power, c, w)) = Part("radio") + Part("engine") + Part("infrared")
  BY ShareIs
<1>4. Total(power) = power["radio"] + power["engine"] + power["infrared"]
  BY TotalIs
<1> HIDE DEF Part
<1> QED BY <1>1, <1>2, <1>3, <1>4

LEMMA ReflectanceType ==
  ASSUME NEW power \in PowerType, NEW albedo \in PowerType
  PROVE  Reflectance(power, albedo) \in PowerType
<1>1. \A p, k \in Nat : (p * k) \div 100 \in Nat
  <2>1. PICK h \in Nat : h = 100
    OBVIOUS
  <2>2. \A p, k \in Nat : (p * k) \div h \in Nat
    BY <2>1, Products, Quotients
  <2> QED BY <2>1, <2>2
<1>2. \A b \in Bands : power[b] \in Nat /\ albedo[b] \in Nat
  BY DEF PowerType
<1>3. \A b \in Bands : (power[b] * albedo[b]) \div 100 \in Nat
  BY <1>1, <1>2
<1> QED BY <1>3 DEF Reflectance, PowerType

\* What comes of a part of an arc: heat, light, or neither, and together no more
\* than its share p.
Outcome(part, p) ==
  \/ part.absorbed = <<>> /\ part.reflected = <<>>
  \/ \E h : /\ part.absorbed = <<h>> /\ h.energy \in Int
            /\ \/ part.reflected = <<>> /\ h.energy <= p
               \/ \E e : /\ part.reflected = <<e>> /\ GoodArc(e) /\ e.generation > 0
                         /\ h.energy + Total(e.power) <= p

LEMMA MetIs ==
  ASSUME NEW arc, GoodArc(arc), NEW id \in Int, NEW i \in IntervalType, NEW thing,
         NEW power \in PowerType, NEW back \in PowerType, -16 <= i[1], i[1] <= i[2], i[2] <= 16
  PROVE  Outcome(Met(arc, id, i, thing, power, back), Total(power))
<1>1. PICK p \in Nat, q \in Nat : p = Total(power) /\ q = Total(back)
  BY TotalIs
<1>2. PICK e : e = Echo(arc, id, i, thing, back)
  OBVIOUS
<1>3. GoodArc(e) /\ e.generation > 0 /\ e.power = back
  BY <1>2, EchoGood
<1>4. PICK h : h = [entity |-> thing.id, energy |-> p - q]
  OBVIOUS
<1>5. h.energy \in Int /\ h.energy <= p /\ h.energy + q <= p
  <2>1. h.energy = p - q
    BY <1>4
  <2> QED BY <2>1
<1>6. PICK part : part = Met(arc, id, i, thing, power, back)
  OBVIOUS
<1>7. part = [absorbed |-> <<h>>,
              reflected |-> IF thing.merges /\ q > 0 /\ arc.generation < 3 THEN <<e>> ELSE <<>>]
  BY <1>1, <1>2, <1>4, <1>6 DEF Met
<1>8. part.absorbed = <<h>> /\ (part.reflected = <<e>> \/ part.reflected = <<>>)
  BY <1>7
<1>9. h.energy + Total(e.power) <= p
  BY <1>1, <1>3, <1>5
<1> QED BY <1>1, <1>3, <1>5, <1>6, <1>8, <1>9 DEF Outcome

LEMMA StruckIs ==
  ASSUME NEW arc, GoodArc(arc), NEW id \in Int, NEW i \in IntervalType,
         -16 <= i[1], i[1] <= i[2], i[2] <= 16, arc.from < arc.to,
         NEW S, NEW obstacles \in Seq(S), \A s \in S : s.albedo \in PowerType
  PROVE  Outcome(Struck(arc, id, i, obstacles),
                 Total(Share(arc.power, i[2] - i[1], arc.to - arc.from)))
<1>1. PICK a \in Int, b \in Int, from \in Int, to \in Int :
        a = i[1] /\ b = i[2] /\ from = arc.from /\ to = arc.to
  BY DEF IntervalType, GoodArc
<1>2. PICK n \in Nat, w \in Nat : n = b - a /\ w = to - from /\ w > 0
  <2>1. a <= b /\ from < to
    BY <1>1
  <2>2. b - a \in Nat /\ to - from \in Nat /\ to - from > 0
    BY <2>1
  <2> QED BY <2>2
<1>3. PICK power \in PowerType : power = Share(arc.power, n, w)
  BY <1>2, ShareIs DEF GoodArc
<1>4. PICK angle : angle = (a + b) \div 2
  OBVIOUS
<1>5. PICK first : first = FirstHit(arc.origin, angle, obstacles)
  OBVIOUS
<1>6. Struck(arc, id, i, obstacles) = StruckBy(arc, id, i, first, power)
  BY <1>1, <1>2, <1>3, <1>4, <1>5 DEF Struck
<1>7. first = <<>> \/ \E s \in S : first = <<s>>
  BY <1>5, FirstHitIs
<1>8. CASE first = <<>>
  <2>1. Struck(arc, id, i, obstacles) = [absorbed |-> <<>>, reflected |-> <<>>]
    BY <1>6, <1>8 DEF StruckBy
  <2> QED BY <2>1 DEF Outcome
<1>9. ASSUME NEW s \in S, first = <<s>>
      PROVE  Outcome(Struck(arc, id, i, obstacles), Total(power))
  <2>1. PICK back \in PowerType : back = Reflectance(power, s.albedo)
    BY ReflectanceType
  <2>2. Struck(arc, id, i, obstacles) = Met(arc, id, i, s, power, back)
    BY <1>6, <1>9, <2>1 DEF StruckBy
  <2> QED BY <2>2, MetIs
<1>10. i[2] - i[1] = n /\ arc.to - arc.from = w
  BY <1>1, <1>2
<1> QED BY <1>3, <1>7, <1>8, <1>9, <1>10

(***************************************************************************)
(* Cutting                                                                 *)
(***************************************************************************)

\* The heat of a list, and the light.
Heat(seq) == SumFunctionOnSet([i \in DOMAIN seq |-> seq[i].energy], DOMAIN seq)
Light(seq) == SumFunctionOnSet([i \in DOMAIN seq |-> Total(seq[i].power)], DOMAIN seq)

LEMMA UpTo ==
  ASSUME NEW n \in Nat
  PROVE  IsFiniteSet(1..n) /\ 1..(n + 1) = (1..n) \cup {n + 1} /\ n + 1 \notin 1..n
<1>1. PICK one \in Int : one = 1
  OBVIOUS
<1>2. IsFiniteSet(one..n)
  BY FS_Interval
<1> QED BY <1>1, <1>2

\* One entry more.
LEMMA OneMoreAddend ==
  ASSUME NEW n \in Nat, NEW f, NEW g, DOMAIN g = 1..(n + 1), \A i \in 1..n : f[i] = g[i],
         \A i \in 1..(n + 1) : g[i] \in Int
  PROVE  /\ SumFunctionOnSet(f, 1..n) \in Int
         /\ SumFunctionOnSet(g, 1..(n + 1)) = SumFunctionOnSet(f, 1..n) + g[n + 1]
<1>1. PICK S, e : S = 1..n /\ e = n + 1
  OBVIOUS
<1>2. IsFiniteSet(S) /\ 1..(n + 1) = S \cup {e} /\ e \notin S
  BY <1>1, UpTo
<1>3. \A x \in S \cup {e} : g[x] \in Int
  BY <1>2
<1>4. SumFunctionOnSet(g, S \cup {e}) = SumFunctionOnSet(g, S) + g[e]
  BY <1>2, <1>3, SumPutIn
<1>5. \A x \in S : f[x] = g[x]
  BY <1>1
<1>6. SumFunctionOnSet(f, S) = SumFunctionOnSet(g, S)
  BY <1>2, <1>5, SumSame
<1>7. SumFunctionOnSet(g, S) \in Int
  BY <1>2, <1>3, SumInt
<1> QED BY <1>1, <1>2, <1>4, <1>6, <1>7

LEMMA NothingAddsNothing == Heat(<<>>) = 0 /\ Light(<<>>) = 0
<1>1. DOMAIN <<>> = {}
  OBVIOUS
<1> QED BY <1>1, SumEmpty DEF Heat, Light

LEMMA MoreHeat ==
  ASSUME NEW S, NEW seq \in Seq(S), \A s \in S : s.energy \in Int, NEW h, h.energy \in Int
  PROVE  Heat(seq \o <<h>>) = Heat(seq) + h.energy /\ Heat(seq) \in Int
<1>1. PICK n \in Nat : n = Len(seq) /\ DOMAIN seq = 1..n /\ \A i \in 1..n : seq[i] \in S
  OBVIOUS
<1>2. PICK one : one = <<h>> /\ one \in Seq({h}) /\ Len(one) = 1 /\ one[1] = h
  <2>1. PICK H : H = {h} /\ h \in H
    OBVIOUS
  <2>2. <<h>> \in Seq(H) /\ Len(<<h>>) = 1 /\ <<h>>[1] = h
    BY <2>1
  <2> QED BY <2>1, <2>2
<1>3. PICK long : long = seq \o one
  OBVIOUS
<1>4. DOMAIN long = 1..(n + 1) /\ (\A i \in 1..n : long[i] = seq[i]) /\ long[n + 1] = h
  BY <1>1, <1>2, <1>3
<1>5. PICK f : f = [i \in DOMAIN seq |-> seq[i].energy]
  OBVIOUS
<1>6. PICK g : g = [i \in DOMAIN long |-> long[i].energy]
  OBVIOUS
<1>7. DOMAIN g = 1..(n + 1) /\ (\A i \in 1..n : f[i] = g[i]) /\ g[n + 1] = h.energy
  BY <1>1, <1>4, <1>5, <1>6
<1>8. \A i \in 1..(n + 1) : g[i] \in Int
  <2>1. \A i \in 1..n : f[i] \in Int
    BY <1>1, <1>5
  <2>2. \A i \in 1..(n + 1) : i \in 1..n \/ i = n + 1
    OBVIOUS
  <2> QED BY <1>7, <2>1, <2>2
<1>9. /\ SumFunctionOnSet(f, 1..n) \in Int
      /\ SumFunctionOnSet(g, 1..(n + 1)) = SumFunctionOnSet(f, 1..n) + g[n + 1]
  BY <1>7, <1>8, OneMoreAddend
<1>10. Heat(seq) = SumFunctionOnSet(f, 1..n) /\ Heat(long) = SumFunctionOnSet(g, 1..(n + 1))
  BY <1>1, <1>4, <1>5, <1>6 DEF Heat
<1> QED BY <1>2, <1>3, <1>7, <1>9, <1>10

LEMMA MoreLight ==
  ASSUME NEW S, NEW seq \in Seq(S), \A s \in S : Total(s.power) \in Int, NEW h, Total(h.power) \in Int
  PROVE  Light(seq \o <<h>>) = Light(seq) + Total(h.power) /\ Light(seq) \in Int
<1>1. PICK n \in Nat : n = Len(seq) /\ DOMAIN seq = 1..n /\ \A i \in 1..n : seq[i] \in S
  OBVIOUS
<1>2. PICK one : one = <<h>> /\ one \in Seq({h}) /\ Len(one) = 1 /\ one[1] = h
  <2>1. PICK H : H = {h} /\ h \in H
    OBVIOUS
  <2>2. <<h>> \in Seq(H) /\ Len(<<h>>) = 1 /\ <<h>>[1] = h
    BY <2>1
  <2> QED BY <2>1, <2>2
<1>3. PICK long : long = seq \o one
  OBVIOUS
<1>4. DOMAIN long = 1..(n + 1) /\ (\A i \in 1..n : long[i] = seq[i]) /\ long[n + 1] = h
  BY <1>1, <1>2, <1>3
<1>5. PICK f : f = [i \in DOMAIN seq |-> Total(seq[i].power)]
  OBVIOUS
<1>6. PICK g : g = [i \in DOMAIN long |-> Total(long[i].power)]
  OBVIOUS
<1>7. DOMAIN g = 1..(n + 1) /\ (\A i \in 1..n : f[i] = g[i]) /\ g[n + 1] = Total(h.power)
  BY <1>1, <1>4, <1>5, <1>6
<1>8. \A i \in 1..(n + 1) : g[i] \in Int
  <2>1. \A i \in 1..n : f[i] \in Int
    BY <1>1, <1>5
  <2>2. \A i \in 1..(n + 1) : i \in 1..n \/ i = n + 1
    OBVIOUS
  <2> QED BY <1>7, <2>1, <2>2
<1>9. /\ SumFunctionOnSet(f, 1..n) \in Int
      /\ SumFunctionOnSet(g, 1..(n + 1)) = SumFunctionOnSet(f, 1..n) + g[n + 1]
  BY <1>7, <1>8, OneMoreAddend
<1>10. Light(seq) = SumFunctionOnSet(f, 1..n) /\ Light(long) = SumFunctionOnSet(g, 1..(n + 1))
  BY <1>1, <1>4, <1>5, <1>6 DEF Light
<1> QED BY <1>2, <1>3, <1>7, <1>9, <1>10

LEMMA Single ==
  ASSUME NEW h
  PROVE  <<h>> # <<>> /\ <<h>>[1] = h
OBVIOUS

\* The outcomes of n parts, the shares of all up to each of them.
Shares(n, parts, p, sums) ==
  /\ DOMAIN parts = 1..n
  /\ \A i \in 1..n : Outcome(parts[i], p[i]) /\ p[i] \in Nat
  /\ \A i \in 0..n : sums[i] \in Nat
  /\ \A i \in 1..n : sums[i - 1] + p[i] <= sums[i]

\* The heat and the light of all parts are no more than the shares of the parts.
LEMMA PartsSpare ==
  ASSUME NEW n \in Nat, NEW parts, NEW p, NEW sums, Shares(n, parts, p, sums),
         NEW heat, heat = FlattenSeq([i \in DOMAIN parts |-> parts[i].absorbed]),
         NEW light, light = FlattenSeq([i \in DOMAIN parts |-> parts[i].reflected])
  PROVE  /\ Heat(heat) \in Int /\ Light(light) \in Int /\ sums[n] \in Int
         /\ Heat(heat) + Light(light) <= sums[n]
         /\ \E E : light \in Seq(E) /\ \A e \in E : GoodArc(e) /\ e.generation > 0
<1>1. PICK as, rs : /\ as = [i \in DOMAIN parts |-> parts[i].absorbed]
                   /\ rs = [i \in DOMAIN parts |-> parts[i].reflected]
  OBVIOUS
<1>2. /\ \A i \in 1..n : as[i] = parts[i].absorbed /\ rs[i] = parts[i].reflected
      /\ DOMAIN as = 1..n /\ DOMAIN rs = 1..n
  BY <1>1 DEF Shares
<1>3. PICK H, E : /\ H = {as[i][1] : i \in {j \in 1..n : as[j] # <<>>}}
                 /\ E = {rs[i][1] : i \in {j \in 1..n : rs[j] # <<>>}}
  OBVIOUS
<1>4. ASSUME NEW i \in 1..n
      PROVE  \/ as[i] = <<>> /\ rs[i] = <<>>
             \/ \E h \in H : /\ as[i] = <<h>> /\ h.energy \in Int
                             /\ \/ rs[i] = <<>> /\ h.energy <= p[i]
                                \/ \E e \in E : /\ rs[i] = <<e>> /\ GoodArc(e) /\ e.generation > 0
                                                /\ h.energy + Total(e.power) <= p[i]
  <2>1. Outcome(parts[i], p[i])
    BY DEF Shares
  <2>2. CASE parts[i].absorbed = <<>> /\ parts[i].reflected = <<>>
    BY <1>2, <2>2
  <2>3. ASSUME NEW h, parts[i].absorbed = <<h>>, h.energy \in Int,
               \/ parts[i].reflected = <<>> /\ h.energy <= p[i]
               \/ \E e : /\ parts[i].reflected = <<e>> /\ GoodArc(e) /\ e.generation > 0
                         /\ h.energy + Total(e.power) <= p[i]
        PROVE  \E x \in H : /\ as[i] = <<x>> /\ x.energy \in Int
                            /\ \/ rs[i] = <<>> /\ x.energy <= p[i]
                               \/ \E e \in E : /\ rs[i] = <<e>> /\ GoodArc(e) /\ e.generation > 0
                                               /\ x.energy + Total(e.power) <= p[i]
    <3>1. as[i] # <<>> /\ as[i][1] = h
      BY <1>2, <2>3, Single
    <3>2. h \in H
      BY <1>3, <3>1
    <3>3. ASSUME NEW e, parts[i].reflected = <<e>> PROVE e \in E
      <4>1. rs[i] # <<>> /\ rs[i][1] = e
        BY <1>2, <3>3, Single
      <4> QED BY <1>3, <4>1
    <3> QED BY <1>2, <2>3, <3>2, <3>3
  <2> QED BY <2>1, <2>2, <2>3 DEF Outcome
<1>5. ASSUME NEW h \in H PROVE h.energy \in Int
  <2>1. PICK i \in 1..n : as[i] # <<>> /\ h = as[i][1]
    BY <1>3
  <2>2. PICK x : as[i] = <<x>> /\ x.energy \in Int
    BY <1>4, <2>1
  <2>3. as[i][1] = x
    BY <2>2
  <2> QED BY <2>1, <2>2, <2>3
<1>6. ASSUME NEW e \in E PROVE GoodArc(e) /\ e.generation > 0
  <2>1. PICK i \in 1..n : rs[i] # <<>> /\ e = rs[i][1]
    BY <1>3
  <2>2. PICK x : rs[i] = <<x>> /\ GoodArc(x) /\ x.generation > 0
    BY <1>4, <2>1
  <2>3. rs[i][1] = x
    BY <2>2
  <2> QED BY <2>1, <2>2, <2>3
<1>7. \A e \in E : Total(e.power) \in Nat
  BY <1>6, TotalIs DEF GoodArc
<1>8. as \in Seq(Seq(H)) /\ rs \in Seq(Seq(E)) /\ Len(as) = n /\ Len(rs) = n
  <2>1. /\ \A h \in H : <<h>> \in Seq(H)
        /\ \A e \in E : <<e>> \in Seq(E)
        /\ <<>> \in Seq(H) /\ <<>> \in Seq(E)
    OBVIOUS
  <2>2. \A i \in 1..n : as[i] \in Seq(H) /\ rs[i] \in Seq(E)
    BY <1>4, <2>1
  <2>3. as = [i \in 1..n |-> as[i]] /\ rs = [i \in 1..n |-> rs[i]]
    BY <1>1 DEF Shares
  <2>4. PICK U, V : U = Seq(H) /\ V = Seq(E)
    OBVIOUS
  <2>5. as \in [1..n -> U] /\ rs \in [1..n -> V]
    BY <2>2, <2>3, <2>4
  <2>6. \A W : \A f \in [1..n -> W] : f \in Seq(W) /\ Len(f) = n
    OBVIOUS
  <2>7. as \in Seq(U) /\ rs \in Seq(V) /\ Len(as) = n /\ Len(rs) = n
    BY <2>5, <2>6
  <2> QED BY <2>4, <2>7
<1>9. PICK A : LongerBy(as, H, A) /\ FlattenSeq(as) = A[n]
  BY <1>8, FlattenWalks
<1>10. PICK R : LongerBy(rs, E, R) /\ FlattenSeq(rs) = R[n]
  BY <1>8, FlattenWalks
<1>11. /\ A \in [0..n -> Seq(H)] /\ A[0] = <<>> /\ \A i \in 1..n : A[i] = A[i - 1] \o as[i]
       /\ R \in [0..n -> Seq(E)] /\ R[0] = <<>> /\ \A i \in 1..n : R[i] = R[i - 1] \o rs[i]
  BY <1>8, <1>9, <1>10 DEF LongerBy
<1>12. PICK P : P = {i \in 0..n : /\ Heat(A[i]) \in Int /\ Light(R[i]) \in Int
                                  /\ Heat(A[i]) + Light(R[i]) <= sums[i]}
  OBVIOUS
<1>13. 0 \in P
  <2>1. Heat(A[0]) = 0 /\ Light(R[0]) = 0
    BY <1>11, NothingAddsNothing
  <2>2. sums[0] \in Nat
    BY DEF Shares
  <2> QED BY <1>12, <2>1, <2>2
<1>14. ASSUME NEW i \in 1..n, i - 1 \in P PROVE i \in P
  <2>1. i - 1 \in 0..n /\ i \in 0..n
    OBVIOUS
  <2>2. PICK a \in Seq(H), r \in Seq(E) : a = A[i - 1] /\ r = R[i - 1]
    BY <1>11, <2>1
  <2>3. PICK x \in Int, y \in Int, s \in Nat, t \in Nat, q \in Nat :
          /\ x = Heat(a) /\ y = Light(r) /\ s = sums[i - 1] /\ t = sums[i] /\ q = p[i]
          /\ x + y <= s /\ s + q <= t
    BY <1>12, <1>14, <2>1, <2>2 DEF Shares
  <2>c. x + y <= s /\ s + q <= t
    BY <2>3
  <2>4. A[i] = a \o as[i] /\ R[i] = r \o rs[i]
    BY <1>11, <2>2
  <2>5. a \o <<>> = a /\ r \o <<>> = r
    OBVIOUS
  <2>6. CASE as[i] = <<>> /\ rs[i] = <<>>
    <3>1. Heat(A[i]) = x /\ Light(R[i]) = y
      BY <2>3, <2>4, <2>5, <2>6
    <3>5. x + y <= t
      BY <2>c
    <3> QED BY <1>12, <2>1, <2>3, <3>1, <3>5
  <2>7. ASSUME NEW h \in H, as[i] = <<h>>, h.energy \in Int,
               \/ rs[i] = <<>> /\ h.energy <= p[i]
               \/ \E e \in E : /\ rs[i] = <<e>> /\ GoodArc(e) /\ e.generation > 0
                               /\ h.energy + Total(e.power) <= p[i]
        PROVE  i \in P
    <3>1. PICK z \in Int : z = h.energy
      BY <2>7
    <3>2. Heat(A[i]) = x + z
      BY <1>5, <2>3, <2>4, <2>7, <3>1, MoreHeat
    <3>3. CASE rs[i] = <<>> /\ h.energy <= p[i]
      <4>1. Light(R[i]) = y
        BY <2>3, <2>4, <2>5, <3>3
      <4>2. z <= q
        BY <2>3, <3>1, <3>3
      <4>3. x + z \in Int /\ (x + z) + y <= t
        BY <2>c, <4>2
      <4> QED BY <1>12, <2>1, <2>3, <3>2, <4>1, <4>3
    <3>4. ASSUME NEW e \in E, rs[i] = <<e>>, h.energy + Total(e.power) <= p[i]
          PROVE  i \in P
      <4>1. PICK u \in Nat : u = Total(e.power)
        BY <1>7
      <4>2. \A f \in E : Total(f.power) \in Int
        BY <1>7
      <4>3. Total(e.power) \in Int
        BY <4>1
      <4>4. Light(R[i]) = y + u
        BY <2>3, <2>4, <3>4, <4>1, <4>2, <4>3, MoreLight
      <4>5. z + u <= q
        BY <2>3, <3>1, <3>4, <4>1
      <4>6. x + z \in Int /\ y + u \in Int /\ (x + z) + (y + u) <= t
        BY <2>c, <4>5
      <4> QED BY <1>12, <2>1, <2>3, <3>2, <4>4, <4>6
    <3> QED BY <2>7, <3>3, <3>4
  <2> QED BY <1>4, <2>6, <2>7
<1>15. n \in P
  <2>1. \A i \in 0..n : i \in P
    BY <1>13, <1>14, Upwards
  <2> QED BY <2>1
<1>16. heat = A[n] /\ light = R[n]
  BY <1>1, <1>9, <1>10
<1>17. light \in Seq(E)
  BY <1>11, <1>16
<1>18. sums[n] \in Int
  <2>1. n \in 0..n
    OBVIOUS
  <2> QED BY <2>1 DEF Shares
<1> QED BY <1>6, <1>12, <1>15, <1>16, <1>17, <1>18

(***************************************************************************)
(* What is hidden is what is cut                                           *)
(***************************************************************************)

LEMMA SeqMono ==
  ASSUME NEW S, NEW T, S \subseteq T, NEW seq \in Seq(S)
  PROVE  seq \in Seq(T)
<1>1. seq \in [1..Len(seq) -> T] /\ Len(seq) \in Nat
  OBVIOUS
<1> QED BY <1>1

\* Somewhere in a list of intervals.
Amid(x, list) == \E k \in DOMAIN list : In(x, list[k])

LEMMA OnAppend ==
  ASSUME NEW out \in Seq(IntervalType), NEW s \in Int, NEW t \in Int
  PROVE  \A x \in Int : Amid(x, Append(out, <<s, t>>)) <=> Amid(x, out) \/ (s <= x /\ x < t)
<1>1. PICK n \in Nat : n = Len(out) /\ DOMAIN out = 1..n
  OBVIOUS
<1>2. PICK i \in IntervalType : i = <<s, t>> /\ i[1] = s /\ i[2] = t
  <2>1. <<s, t>> \in IntervalType
    BY DEF IntervalType
  <2> QED BY <2>1
<1>3. PICK new : new = Append(out, i)
  OBVIOUS
<1>5. DOMAIN new = 1..(n + 1) /\ new[n + 1] = i /\ \A k \in 1..n : new[k] = out[k]
  BY <1>1, <1>3
<1>6. \A k : k \in 1..(n + 1) <=> k \in 1..n \/ k = n + 1
  OBVIOUS
<1>7. ASSUME NEW x \in Int
      PROVE  Amid(x, new) <=> Amid(x, out) \/ In(x, i)
  BY <1>1, <1>5, <1>6 DEF Amid
<1> QED BY <1>2, <1>3, <1>7 DEF In

\* An interval is open after one of its ends and not before, or the other way
\* round.
Turns(e, O, P) ==
  \E i : IF e.entering THEN i \notin O /\ P = O \cup {i} ELSE i \in O /\ P = O \ {i}

\* What union_intervals has gathered when it has come to an angle: the intervals
\* O are open there, and what lies before it is gathered or open just if it is
\* in C.
Swept(acc, O, at, C) ==
  /\ acc \in AccType /\ IsFiniteSet(O) /\ acc.depth = Cardinality(O)
  /\ O # {} => acc.start <= at
  /\ \A x \in Int : (Amid(x, acc.out) \/ (O # {} /\ acc.start <= x /\ x < at)) <=> (x < at /\ x \in C)

LEMMA PassedFirst ==
  ASSUME NEW d \in Int, NEW s \in Int, NEW out, NEW acc, acc = [depth |-> d, start |-> s, out |-> out],
         NEW e, e.entering, NEW t, t = IF d = 0 THEN e.at ELSE s
  PROVE  PassedEnd(acc, e) = [depth |-> d + 1, start |-> t, out |-> out]
<1>1. acc.depth = d /\ acc.start = s /\ acc.out = out
  OBVIOUS
<1> QED BY <1>1 DEF PassedEnd

\* What an end that is not an entry leaves gathered.
HandedOn(d, out, j) == IF d = 1 THEN Append(out, j) ELSE out

Leaving(e) == ~ e.entering
Closing(j, s, e) == j = <<s, e.at>>
Reckoned(d, s, out) == [depth |-> d, start |-> s, out |-> out]

LEMMA PassedSecond ==
  ASSUME NEW d \in Int, NEW s \in Int, NEW out, NEW e, Leaving(e), NEW j, Closing(j, s, e)
  PROVE  PassedEnd(Reckoned(d, s, out), e) = Reckoned(d - 1, s, HandedOn(d, out, j))
<1>1. PICK acc : acc = [depth |-> d, start |-> s, out |-> out]
  OBVIOUS
<1>2. acc.depth = d /\ acc.start = s /\ acc.out = out
  BY <1>1
<1>3. j = <<s, e.at>> /\ ~ e.entering
  BY DEF Closing, Leaving
<1>4. PICK o : o = IF d = 1 THEN Append(out, j) ELSE out
  OBVIOUS
<1>5. PassedEnd(acc, e) = [depth |-> d - 1, start |-> s, out |-> o]
  BY <1>1, <1>2, <1>3, <1>4 DEF PassedEnd
<1>6. o = HandedOn(d, out, j)
  BY <1>4 DEF HandedOn
<1> QED BY <1>1, <1>5, <1>6, Zenon DEF Reckoned

LEMMA SweptOn ==
  ASSUME NEW at \in Int, NEW next \in Int, at <= next, NEW C, NEW O, NEW acc, Swept(acc, O, at, C),
         NEW e, e.at = next, NEW P, Turns(e, O, P),
         \A x \in Int : at <= x /\ x < next => (x \in C <=> O # {})
  PROVE  Swept(PassedEnd(acc, e), P, next, C)
<1>1. PICK d \in Int, s \in Int, out \in Seq(IntervalType) :
        acc = [depth |-> d, start |-> s, out |-> out]
  BY DEF Swept, AccType
<1>2. acc.depth = d /\ acc.start = s /\ acc.out = out
  BY <1>1
<1>3. IsFiniteSet(O) /\ d = Cardinality(O) /\ d >= 0 /\ (O = {} <=> d = 0)
  <2>1. IsFiniteSet(O) /\ d = Cardinality(O)
    BY <1>2 DEF Swept
  <2>2. Cardinality(O) \in Nat /\ (Cardinality(O) = 0 <=> O = {})
    BY <2>1, FS_CardinalityType, FS_EmptySet
  <2> QED BY <2>1, <2>2
<1>4. d # 0 => s <= at
  BY <1>2, <1>3 DEF Swept
<1>5. \A x \in Int : (Amid(x, out) \/ (d # 0 /\ s <= x /\ x < at)) <=> (x < at /\ x \in C)
  BY <1>2, <1>3 DEF Swept
<1>6. \A x \in Int : at <= x /\ x < next => (x \in C <=> d # 0)
  BY <1>3
<1>a. PICK i : IF e.entering THEN i \notin O /\ P = O \cup {i} ELSE i \in O /\ P = O \ {i}
  BY DEF Turns
<1>7. CASE e.entering
  <2>1. PICK t \in Int : t = IF d = 0 THEN next ELSE s
    OBVIOUS
  <2>2. PICK new : new = [depth |-> d + 1, start |-> t, out |-> out]
    OBVIOUS
  <2>3. PassedEnd(acc, e) = new
    <3>1. t = IF d = 0 THEN e.at ELSE s
      BY <2>1
    <3> QED BY <1>1, <1>7, <2>2, <3>1, PassedFirst
  <2>4. new \in AccType /\ new.depth = d + 1 /\ new.start = t /\ new.out = out
    BY <2>2 DEF AccType
  <2>5. IsFiniteSet(P) /\ Cardinality(P) = d + 1 /\ P # {}
    BY <1>3, <1>a, <1>7, FS_AddElement
  <2>6. t <= next
    BY <1>4, <2>1
  <2>7. ASSUME NEW x \in Int
        PROVE  (Amid(x, out) \/ (t <= x /\ x < next)) <=> (x < next /\ x \in C)
    <3>1. (Amid(x, out) \/ (d # 0 /\ s <= x /\ x < at)) <=> (x < at /\ x \in C)
      BY <1>5
    <3>2. at <= x /\ x < next => (x \in C <=> d # 0)
      BY <1>6
    <3> QED BY <1>4, <2>1, <3>1, <3>2
  <2> QED BY <2>3, <2>4, <2>5, <2>6, <2>7 DEF Swept
<1>8. CASE ~ e.entering
  <2>1. i \in O /\ P = O \ {i} /\ d # 0
    BY <1>3, <1>a, <1>8
  <2>2. IsFiniteSet(P) /\ Cardinality(P) = d - 1
    BY <1>3, <2>1, FS_RemoveElement
  <2>3. P = {} <=> d = 1
    <3>1. Cardinality(P) = 0 <=> P = {}
      BY <2>2, FS_EmptySet
    <3> QED BY <2>2, <3>1
  <2>a. PICK j \in IntervalType : j = <<s, next>> /\ j = <<s, e.at>>
    <3>1. <<s, next>> \in IntervalType
      BY DEF IntervalType
    <3>2. <<s, next>> = <<s, e.at>>
      BY Zenon
    <3> QED BY <3>1, <3>2
  <2>b. Append(out, j) \in Seq(IntervalType)
    BY <2>a
  <2>4. PICK o \in Seq(IntervalType) : o = IF d = 1 THEN Append(out, j) ELSE out
    BY <2>b
  <2>5. PICK new : new = [depth |-> d - 1, start |-> s, out |-> o]
    OBVIOUS
  <2>6. PassedEnd(acc, e) = new
    <3>1. Closing(j, s, e) /\ Leaving(e)
      BY <1>8, <2>a, Zenon DEF Closing, Leaving
    <3>2. acc = Reckoned(d, s, out)
      BY <1>1 DEF Reckoned
    <3>3. o = HandedOn(d, out, j)
      BY <2>4 DEF HandedOn
    <3>4. new = Reckoned(d - 1, s, HandedOn(d, out, j))
      BY <2>5, <3>3, Zenon DEF Reckoned
    <3>5. d \in Int /\ s \in Int
      BY <1>1
    <3>6. PassedEnd(Reckoned(d, s, out), e) = Reckoned(d - 1, s, HandedOn(d, out, j))
      BY <3>1, <3>5, PassedSecond
    <3> QED BY <3>2, <3>4, <3>6, Zenon
  <2>7. new \in AccType /\ new.depth = d - 1 /\ new.start = s /\ new.out = o
    BY <2>5 DEF AccType
  <2>8. ASSUME NEW x \in Int
        PROVE  Amid(x, o) <=> Amid(x, out) \/ (d = 1 /\ s <= x /\ x < next)
    <3>1. CASE d = 1
      BY <2>a, <2>4, <3>1, OnAppend
    <3>2. CASE d # 1
      BY <2>4, <3>2
    <3> QED BY <3>1, <3>2
  <2>9. ASSUME NEW x \in Int
        PROVE  (Amid(x, o) \/ (d # 1 /\ s <= x /\ x < next)) <=> (x < next /\ x \in C)
    <3>1. (Amid(x, out) \/ (s <= x /\ x < at)) <=> (x < at /\ x \in C)
      BY <1>5, <2>1
    <3>2. at <= x /\ x < next => x \in C
      BY <1>6, <2>1
    <3>3. s <= at
      BY <1>4, <2>1
    <3> QED BY <2>8, <3>1, <3>2, <3>3
  <2>10. s <= next
    BY <1>4, <2>1
  <2> QED BY <2>2, <2>3, <2>6, <2>7, <2>9, <2>10 DEF Swept
<1> QED BY <1>7, <1>8

\* The number of an interval's first end and of its second.
FirstEnd(i) == 2 * i - 1
SecondEnd(i) == 2 * i

\* The intervals of the list that are open at the k-th end.
OpenAt(n, rank, k) == {i \in 1..n : rank[FirstEnd(i)] <= k /\ k < rank[SecondEnd(i)]}

LEMMA EndsAre ==
  ASSUME NEW intervals, NEW n \in Nat, n = Len(intervals), NEW m \in Nat, Twice(m, n), NEW i \in 1..n
  PROVE  /\ FirstEnd(i) \in 1..m /\ SecondEnd(i) \in 1..m
         /\ Ends(intervals)[FirstEnd(i)].at = intervals[i][1] /\ Ends(intervals)[FirstEnd(i)].entering
         /\ Ends(intervals)[SecondEnd(i)].at = intervals[i][2] /\ ~ Ends(intervals)[SecondEnd(i)].entering
<1>1. PICK a, b : a = FirstEnd(i) /\ b = SecondEnd(i)
  OBVIOUS
<1>2. m = 2 * n
  BY DEF Twice
<1>3. a \in 1..m /\ b \in 1..m /\ a % 2 = 1 /\ b % 2 = 0 /\ (a + 1) \div 2 = i /\ b \div 2 = i
  BY <1>1, <1>2 DEF FirstEnd, SecondEnd
<1>4. PICK ends : ends = Ends(intervals)
  OBVIOUS
<1>5. \A k \in 1..m :
        ends[k] = IF k % 2 = 1 THEN [at |-> intervals[(k + 1) \div 2][1], entering |-> TRUE]
                  ELSE [at |-> intervals[k \div 2][2], entering |-> FALSE]
  BY <1>2, <1>4 DEF Ends
<1>6. ends[a] = [at |-> intervals[i][1], entering |-> TRUE]
  <2>1. ends[a] = IF a % 2 = 1 THEN [at |-> intervals[(a + 1) \div 2][1], entering |-> TRUE]
                  ELSE [at |-> intervals[a \div 2][2], entering |-> FALSE]
    BY <1>3, <1>5
  <2> QED BY <1>3, <2>1
<1>7. ends[b] = [at |-> intervals[i][2], entering |-> FALSE]
  <2>1. ends[b] = IF b % 2 = 1 THEN [at |-> intervals[(b + 1) \div 2][1], entering |-> TRUE]
                  ELSE [at |-> intervals[b \div 2][2], entering |-> FALSE]
    BY <1>3, <1>5
  <2>2. b % 2 # 1 /\ b \div 2 = i
    BY <1>3
  <2> QED BY <2>1, <2>2
<1> QED BY <1>1, <1>3, <1>4, <1>6, <1>7

\* The ends of the i-th interval of a list come in their order.
LEMMA EndsOf ==
  ASSUME NEW lo \in Int, NEW hi \in Int, NEW intervals \in Seq(Span(lo, hi)),
         NEW n \in Nat, n = Len(intervals), NEW m \in Nat, Twice(m, n),
         NEW G, NEW pos, NEW rank, Sweeps(Ends(intervals), m, lo, hi, G, pos, rank),
         NEW i \in 1..n
  PROVE  /\ FirstEnd(i) \in 1..m /\ SecondEnd(i) \in 1..m
         /\ intervals[i][1] \in Int /\ intervals[i][2] \in Int /\ lo <= intervals[i][1]
         /\ pos[rank[FirstEnd(i)]] = intervals[i][1] /\ pos[rank[SecondEnd(i)]] = intervals[i][2]
         /\ Ends(intervals)[FirstEnd(i)].entering /\ ~ Ends(intervals)[SecondEnd(i)].entering
         /\ rank[FirstEnd(i)] \in 1..m /\ rank[SecondEnd(i)] \in 1..m
         /\ rank[FirstEnd(i)] < rank[SecondEnd(i)]
<1>1. PICK a, b : a = FirstEnd(i) /\ b = SecondEnd(i)
  OBVIOUS
<1>2. PICK ends : ends = Ends(intervals)
  OBVIOUS
<1>3. /\ a \in 1..m /\ b \in 1..m
      /\ ends[a].at = intervals[i][1] /\ ends[a].entering
      /\ ends[b].at = intervals[i][2] /\ ~ ends[b].entering
  <2>1. /\ FirstEnd(i) \in 1..m /\ SecondEnd(i) \in 1..m
        /\ Ends(intervals)[FirstEnd(i)].at = intervals[i][1] /\ Ends(intervals)[FirstEnd(i)].entering
        /\ Ends(intervals)[SecondEnd(i)].at = intervals[i][2]
        /\ ~ Ends(intervals)[SecondEnd(i)].entering
    BY EndsAre
  <2> QED BY <1>1, <1>2, <2>1
<1>4. intervals[i] \in Span(lo, hi)
  OBVIOUS
<1>5. PICK x, y : /\ x = intervals[i][1] /\ y = intervals[i][2]
                  /\ x \in Int /\ y \in Int /\ x < y /\ lo <= x
  BY <1>4 DEF Span, IntervalType
<1>6. rank \in [1..m -> 1..m] /\ \A j \in 1..m : pos[rank[j]] = ends[j].at
  BY <1>2 DEF Sweeps
<1>7. \A j, k \in 0..m : j <= k => pos[j] <= pos[k]
  BY DEF Sweeps
<1>8. PICK p, q : /\ p = rank[a] /\ q = rank[b] /\ p \in 1..m /\ q \in 1..m
                  /\ pos[p] = x /\ pos[q] = y
  <2>1. rank[a] \in 1..m /\ rank[b] \in 1..m
    BY <1>3, <1>6
  <2>2. pos[rank[a]] = ends[a].at /\ pos[rank[b]] = ends[b].at
    BY <1>3, <1>6
  <2>3. pos[rank[a]] = x /\ pos[rank[b]] = y
    BY <1>3, <1>5, <2>2, Zenon
  <2> QED BY <2>1, <2>3, Zenon
<1>9. p < q
  <2>1. p \in 0..m /\ q \in 0..m /\ p \in Int /\ q \in Int
    BY <1>8
  <2>2. q <= p => y <= x
    BY <1>7, <1>8, <2>1
  <2> QED BY <1>5, <2>1, <2>2
<1> QED BY <1>1, <1>2, <1>3, <1>5, <1>8, <1>9

\* Just before the k-th end an angle is in an interval if one is open there.
LEMMA BeforeOrAfter ==
  ASSUME NEW p \in Int, NEW k \in Int, NEW a \in Int, NEW u \in Int, NEW v \in Int, NEW x \in Int,
         p <= k - 1 => a <= u, k <= p => v <= a, u <= x, x < v
  PROVE  (a <= x <=> p <= k - 1) /\ (x < a <=> k - 1 < p)
<1>1. CASE p <= k - 1
  BY <1>1
<1>2. CASE k <= p
  BY <1>2
<1> QED BY <1>1, <1>2

LEMMA OpenCovers ==
  ASSUME NEW lo \in Int, NEW hi \in Int, NEW intervals \in Seq(Span(lo, hi)),
         NEW n \in Nat, n = Len(intervals), NEW m \in Nat, Twice(m, n),
         NEW G, NEW pos, NEW rank, Sweeps(Ends(intervals), m, lo, hi, G, pos, rank),
         NEW k \in 1..m, NEW x \in Int, pos[k - 1] <= x, x < pos[k]
  PROVE  Amid(x, intervals) <=> OpenAt(n, rank, k - 1) # {}
<1>1. DOMAIN intervals = 1..n
  OBVIOUS
<1>a. \A j \in 0..m : pos[j] \in Int /\ lo <= pos[j]
  BY DEF Sweeps
<1>2. k - 1 \in 0..m /\ k \in 0..m /\ pos[k - 1] \in Int /\ pos[k] \in Int
  <2>1. k - 1 \in 0..m /\ k \in 0..m
    OBVIOUS
  <2> QED BY <1>a, <2>1
<1>3. \A i, j \in 0..m : i <= j => pos[i] <= pos[j]
  BY DEF Sweeps
<1>4. ASSUME NEW i \in 1..n
      PROVE  In(x, intervals[i]) <=> i \in OpenAt(n, rank, k - 1)
  <2>1. PICK a, b, p, q :
          /\ a = intervals[i][1] /\ b = intervals[i][2] /\ a \in Int /\ b \in Int
          /\ p = rank[FirstEnd(i)] /\ q = rank[SecondEnd(i)] /\ p \in 1..m /\ q \in 1..m
          /\ pos[p] = a /\ pos[q] = b
    <3>1. /\ intervals[i][1] \in Int /\ intervals[i][2] \in Int
          /\ pos[rank[FirstEnd(i)]] = intervals[i][1] /\ pos[rank[SecondEnd(i)]] = intervals[i][2]
          /\ rank[FirstEnd(i)] \in 1..m /\ rank[SecondEnd(i)] \in 1..m
      BY EndsOf
    <3> QED BY <3>1
  <2>2. p \in 0..m /\ q \in 0..m /\ p \in Int /\ q \in Int /\ k \in Int
    BY <2>1
  <2>3. p <= k - 1 => a <= pos[k - 1]
    BY <1>2, <1>3, <2>1, <2>2
  <2>4. k <= p => pos[k] <= a
    BY <1>2, <1>3, <2>1, <2>2
  <2>5. q <= k - 1 => b <= pos[k - 1]
    BY <1>2, <1>3, <2>1, <2>2
  <2>6. k <= q => pos[k] <= b
    BY <1>2, <1>3, <2>1, <2>2
  <2>7. (a <= x /\ x < b) <=> (p <= k - 1 /\ k - 1 < q)
    <3>1. PICK u \in Int, v \in Int : u = pos[k - 1] /\ v = pos[k] /\ u <= x /\ x < v
      BY <1>2
    <3>2. a \in Int /\ b \in Int
      BY <2>1
    <3>3. p <= k - 1 => a <= u
      BY <2>3, <3>1
    <3>4. k <= p => v <= a
      BY <2>4, <3>1
    <3>5. q <= k - 1 => b <= u
      BY <2>5, <3>1
    <3>6. k <= q => v <= b
      BY <2>6, <3>1
    <3>7. a <= x <=> p <= k - 1
      BY <2>2, <3>1, <3>2, <3>3, <3>4, BeforeOrAfter
    <3>8. x < b <=> k - 1 < q
      BY <2>2, <3>1, <3>2, <3>5, <3>6, BeforeOrAfter
    <3> QED BY <3>7, <3>8
  <2> QED BY <2>1, <2>7 DEF In, OpenAt
<1> QED BY <1>1, <1>4 DEF Amid, OpenAt

\* Every end opens or closes one interval.
LEMMA PassingBy ==
  ASSUME NEW p \in Int, NEW q \in Int, NEW k \in Int, p # k, q # k
  PROVE  (p <= k - 1 <=> p <= k) /\ (k - 1 < q <=> k < q)
OBVIOUS

LEMMA OneOpens ==
  ASSUME NEW lo \in Int, NEW hi \in Int, NEW intervals \in Seq(Span(lo, hi)),
         NEW n \in Nat, n = Len(intervals), NEW m \in Nat, Twice(m, n),
         NEW G, NEW pos, NEW rank, Sweeps(Ends(intervals), m, lo, hi, G, pos, rank),
         NEW j \in 1..m, NEW O, O = OpenAt(n, rank, rank[j] - 1),
         NEW P, P = OpenAt(n, rank, rank[j])
  PROVE  Turns(Ends(intervals)[j], O, P)
<1>1. PICK k : k = rank[j] /\ k \in 1..m
  <2>1. rank \in [1..m -> 1..m]
    BY DEF Sweeps
  <2> QED BY <2>1
<1>2. \A s, t \in 1..m : rank[s] = rank[t] => s = t
  BY DEF Sweeps
<1>3. \A i \in 1..n :
        /\ FirstEnd(i) \in 1..m /\ SecondEnd(i) \in 1..m
        /\ Ends(intervals)[FirstEnd(i)].entering /\ ~ Ends(intervals)[SecondEnd(i)].entering
        /\ rank[FirstEnd(i)] \in 1..m /\ rank[SecondEnd(i)] \in 1..m
        /\ rank[FirstEnd(i)] < rank[SecondEnd(i)]
  BY EndsOf
<1>4. /\ O = {i \in 1..n : rank[FirstEnd(i)] <= k - 1 /\ k - 1 < rank[SecondEnd(i)]}
      /\ P = {i \in 1..n : rank[FirstEnd(i)] <= k /\ k < rank[SecondEnd(i)]}
  BY <1>1 DEF OpenAt
<1>5. CASE j % 2 = 1
  <2>1. PICK i \in 1..n : j = FirstEnd(i)
    <3>1. (j + 1) \div 2 \in 1..n /\ j = 2 * ((j + 1) \div 2) - 1
      BY <1>5 DEF Twice
    <3> QED BY <3>1 DEF FirstEnd
  <2>2. Ends(intervals)[j].entering /\ rank[FirstEnd(i)] = k /\ rank[SecondEnd(i)] > k
    BY <1>1, <1>3, <2>1
  <2>3. i \notin O /\ i \in P
    <3>1. PICK p \in Int, q \in Int : p = rank[FirstEnd(i)] /\ q = rank[SecondEnd(i)] /\ p = k /\ k < q
      BY <1>3, <2>2
    <3>2. ~ (p <= k - 1) /\ p <= k
      BY <3>1
    <3> QED BY <1>4, <3>1, <3>2
  <2>4. ASSUME NEW h \in 1..n, h # i PROVE h \in O <=> h \in P
    <3>1. FirstEnd(h) # j /\ SecondEnd(h) # j
      BY <2>1, <2>4 DEF FirstEnd, SecondEnd
    <3>2. rank[FirstEnd(h)] # k /\ rank[SecondEnd(h)] # k
      BY <1>1, <1>2, <1>3, <3>1
    <3>3. rank[FirstEnd(h)] \in 1..m /\ rank[SecondEnd(h)] \in 1..m
      BY <1>3
    <3>4. PICK p \in Int, q \in Int : p = rank[FirstEnd(h)] /\ q = rank[SecondEnd(h)] /\ p # k /\ q # k
      BY <3>2, <3>3
    <3>a. k \in Int
      BY <1>1
    <3>5. (p <= k - 1 <=> p <= k) /\ (k - 1 < q <=> k < q)
      BY <3>4, <3>a, PassingBy
    <3> QED BY <1>4, <3>4, <3>5
  <2>5. P = O \cup {i}
    <3>1. O \subseteq 1..n /\ P \subseteq 1..n
      BY <1>4
    <3> QED BY <2>3, <2>4, <3>1
  <2> QED BY <2>2, <2>3, <2>5 DEF Turns
<1>6. CASE j % 2 # 1
  <2>1. PICK i \in 1..n : j = SecondEnd(i)
    <3>1. j \div 2 \in 1..n /\ j = 2 * (j \div 2)
      BY <1>6 DEF Twice
    <3> QED BY <3>1 DEF SecondEnd
  <2>2. ~ Ends(intervals)[j].entering /\ rank[SecondEnd(i)] = k /\ rank[FirstEnd(i)] < k
    BY <1>1, <1>3, <2>1
  <2>3. i \in O /\ i \notin P
    <3>1. PICK p \in Int, q \in Int : p = rank[FirstEnd(i)] /\ q = rank[SecondEnd(i)] /\ q = k /\ p < k
      BY <1>3, <2>2
    <3>2. p <= k - 1 /\ k - 1 < q /\ ~ (k < q)
      BY <3>1
    <3> QED BY <1>4, <3>1, <3>2
  <2>4. ASSUME NEW h \in 1..n, h # i PROVE h \in O <=> h \in P
    <3>1. FirstEnd(h) # j /\ SecondEnd(h) # j
      BY <2>1, <2>4 DEF FirstEnd, SecondEnd
    <3>2. rank[FirstEnd(h)] # k /\ rank[SecondEnd(h)] # k
      BY <1>1, <1>2, <1>3, <3>1
    <3>3. rank[FirstEnd(h)] \in 1..m /\ rank[SecondEnd(h)] \in 1..m
      BY <1>3
    <3>4. PICK p \in Int, q \in Int : p = rank[FirstEnd(h)] /\ q = rank[SecondEnd(h)] /\ p # k /\ q # k
      BY <3>2, <3>3
    <3>a. k \in Int
      BY <1>1
    <3>5. (p <= k - 1 <=> p <= k) /\ (k - 1 < q <=> k < q)
      BY <3>4, <3>a, PassingBy
    <3> QED BY <1>4, <3>4, <3>5
  <2>5. P = O \ {i}
    <3>1. O \subseteq 1..n /\ P \subseteq 1..n
      BY <1>4
    <3> QED BY <2>3, <2>4, <3>1
  <2> QED BY <2>2, <2>3, <2>5 DEF Turns
<1> QED BY <1>5, <1>6

\* union_intervals keeps every angle of the intervals and adds none.
LEMMA UnitedCovers ==
  ASSUME NEW lo \in Int, NEW hi \in Int, NEW intervals \in Seq(Span(lo, hi))
  PROVE  \A x \in Int : Amid(x, United(intervals)) <=> Amid(x, intervals)
<1>1. PICK n \in Nat : n = Len(intervals) /\ DOMAIN intervals = 1..n
  OBVIOUS
<1>2. PICK m \in Nat : Twice(m, n)
  <2>1. 2 * n \in Nat
    OBVIOUS
  <2> QED BY <2>1 DEF Twice
<1>3. PICK G, pos, rank : /\ Sweeps(Ends(intervals), m, lo, hi, G, pos, rank)
                          /\ United(intervals) = G[m].out
  BY <1>1, <1>2, UnitedWalks
<1>4. PICK C : C = {x \in Int : Amid(x, intervals)}
  OBVIOUS
<1>5. PICK P : P = {k \in 0..m : Swept(G[k], OpenAt(n, rank, k), pos[k], C)}
  OBVIOUS
<1>6. /\ \A k \in 0..m : pos[k] \in Int /\ lo <= pos[k]
      /\ \A i, j \in 0..m : i <= j => pos[i] <= pos[j]
      /\ pos[0] = lo
  BY <1>3 DEF Sweeps
<1>7. \A i \in 1..n : /\ rank[FirstEnd(i)] \in 1..m /\ rank[SecondEnd(i)] \in 1..m
                      /\ intervals[i][1] \in Int /\ intervals[i][2] \in Int
                      /\ pos[rank[SecondEnd(i)]] = intervals[i][2] /\ lo <= intervals[i][1]
  <2> SUFFICES ASSUME NEW i \in 1..n
               PROVE  /\ rank[FirstEnd(i)] \in 1..m /\ rank[SecondEnd(i)] \in 1..m
                      /\ intervals[i][1] \in Int /\ intervals[i][2] \in Int
                      /\ pos[rank[SecondEnd(i)]] = intervals[i][2] /\ lo <= intervals[i][1]
    OBVIOUS
  <2>1. /\ n \in Nat /\ n = Len(intervals) /\ m \in Nat /\ Twice(m, n)
        /\ Sweeps(Ends(intervals), m, lo, hi, G, pos, rank)
    BY <1>1, <1>2, <1>3
  <2>2. /\ FirstEnd(i) \in 1..m /\ SecondEnd(i) \in 1..m
        /\ intervals[i][1] \in Int /\ intervals[i][2] \in Int /\ lo <= intervals[i][1]
        /\ pos[rank[FirstEnd(i)]] = intervals[i][1] /\ pos[rank[SecondEnd(i)]] = intervals[i][2]
        /\ Ends(intervals)[FirstEnd(i)].entering /\ ~ Ends(intervals)[SecondEnd(i)].entering
        /\ rank[FirstEnd(i)] \in 1..m /\ rank[SecondEnd(i)] \in 1..m
        /\ rank[FirstEnd(i)] < rank[SecondEnd(i)]
    BY <2>1, EndsOf
  <2> QED BY <2>2
<1>8. 0 \in P
  <2>1. PICK O : O = OpenAt(n, rank, 0)
    OBVIOUS
  <2>2. O = {} /\ IsFiniteSet(O) /\ Cardinality(O) = 0
    <3>1. \A i \in 1..n : ~ (rank[FirstEnd(i)] <= 0)
      BY <1>7
    <3>2. O = {}
      BY <2>1, <3>1 DEF OpenAt
    <3> QED BY <3>2, FS_EmptySet
  <2>b. PICK base : base = [depth |-> 0, start |-> 0, out |-> <<>>]
    OBVIOUS
  <2>3. base \in AccType /\ base.depth = 0 /\ base.out = <<>>
    <3>1. <<>> \in Seq(IntervalType)
      OBVIOUS
    <3> QED BY <2>b, <3>1 DEF AccType
  <2>4. \A x \in Int : ~ Amid(x, <<>>)
    BY DEF Amid
  <2>5. \A x \in Int : x \in C => lo <= x
    <3> SUFFICES ASSUME NEW x \in Int, NEW i \in 1..n, In(x, intervals[i]) PROVE lo <= x
      BY <1>1, <1>4 DEF Amid
    <3>1. intervals[i][1] <= x
      BY DEF In
    <3> QED BY <1>7, <3>1
  <2>6. Swept(base, O, lo, C)
    BY <2>2, <2>3, <2>4, <2>5 DEF Swept
  <2>7. G[0] = base
    BY <1>3, <2>b DEF Sweeps
  <2> QED BY <1>5, <1>6, <2>1, <2>6, <2>7
<1>9. ASSUME NEW k \in 1..m, k - 1 \in P PROVE k \in P
  <2>1. PICK j \in 1..m : rank[j] = k
    BY <1>3 DEF Sweeps
  <2>2. PICK a, b, acc, e :
          /\ a \in Int /\ b \in Int /\ a <= b
          /\ a = pos[k - 1] /\ b = pos[k] /\ acc = G[k - 1] /\ e = Ends(intervals)[j]
    <3>1. k - 1 \in 0..m /\ k \in 0..m /\ k - 1 <= k
      OBVIOUS
    <3> QED BY <1>6, <3>1
  <2>3. PICK O, Q : O = OpenAt(n, rank, k - 1) /\ Q = OpenAt(n, rank, k)
    OBVIOUS
  <2>4. Swept(acc, O, a, C)
    BY <1>5, <1>9, <2>2, <2>3
  <2>5. G[k] = PassedEnd(acc, e) /\ e.at = b
    BY <1>3, <2>1, <2>2 DEF Sweeps
  <2>6. Turns(e, O, Q)
    <3>1. O = OpenAt(n, rank, rank[j] - 1) /\ Q = OpenAt(n, rank, rank[j])
      BY <2>1, <2>3
    <3>2. Turns(Ends(intervals)[j], O, Q)
      BY <1>1, <1>2, <1>3, <3>1, OneOpens
    <3> QED BY <2>2, <3>2
  <2>7. \A x \in Int : a <= x /\ x < b => (x \in C <=> O # {})
    BY <1>1, <1>2, <1>3, <1>4, <2>2, <2>3, OpenCovers
  <2>8. Swept(PassedEnd(acc, e), Q, b, C)
    BY <2>2, <2>4, <2>5, <2>6, <2>7, SweptOn
  <2>9. k \in 0..m
    OBVIOUS
  <2> QED BY <1>5, <2>2, <2>3, <2>5, <2>8, <2>9
<1>10. m \in P
  <2>1. \A i \in 0..m : i \in P
    BY <1>8, <1>9, Upwards
  <2> QED BY <2>1
<1>11. OpenAt(n, rank, m) = {}
  <2>1. \A i \in 1..n : ~ (m < rank[SecondEnd(i)])
    BY <1>7
  <2> QED BY <2>1 DEF OpenAt
<1>12. \A x \in Int : Amid(x, G[m].out) <=> (x < pos[m] /\ x \in C)
  BY <1>5, <1>10, <1>11 DEF Swept
<1>13. ASSUME NEW x \in Int, x \in C PROVE x < pos[m]
  <2>1. PICK i \in 1..n : In(x, intervals[i])
    BY <1>1, <1>4, <1>13 DEF Amid
  <2>2. PICK b, q : b = intervals[i][2] /\ b \in Int /\ q = rank[SecondEnd(i)] /\ q \in 1..m /\ pos[q] = b
    BY <1>7
  <2>3. q \in 0..m /\ m \in 0..m /\ q <= m
    BY <2>2
  <2>4. b <= pos[m] /\ pos[m] \in Int
    BY <1>6, <2>2, <2>3
  <2> QED BY <2>1, <2>2, <2>4 DEF In
<1> QED BY <1>3, <1>4, <1>12, <1>13

LEMMA OnBoth ==
  ASSUME NEW a \in Seq(IntervalType), NEW b \in Seq(IntervalType), NEW x
  PROVE  Amid(x, a \o b) <=> Amid(x, a) \/ Amid(x, b)
<1>1. PICK m \in Nat, n \in Nat : m = Len(a) /\ n = Len(b) /\ DOMAIN a = 1..m /\ DOMAIN b = 1..n
  OBVIOUS
<1>2. PICK c : c = a \o b
  OBVIOUS
<1>3. /\ DOMAIN c = 1..(m + n)
      /\ \A k \in 1..m : c[k] = a[k]
      /\ \A k \in 1..n : c[m + k] = b[k]
  BY <1>1, <1>2
<1>4. \A k \in 1..(m + n) : k \in 1..m \/ \E l \in 1..n : k = m + l
  <2> SUFFICES ASSUME NEW k \in 1..(m + n), k \notin 1..m PROVE \E l \in 1..n : k = m + l
    OBVIOUS
  <2>1. k - m \in 1..n /\ k = m + (k - m)
    OBVIOUS
  <2> QED BY <2>1
<1>5. (\A k \in 1..m : k \in 1..(m + n)) /\ (\A k \in 1..n : m + k \in 1..(m + n))
  OBVIOUS
<1>6. ASSUME NEW k \in 1..(m + n), In(x, c[k]) PROVE Amid(x, a) \/ Amid(x, b)
  <2>1. CASE k \in 1..m
    BY <1>1, <1>3, <1>6, <2>1 DEF Amid
  <2>2. CASE \E l \in 1..n : k = m + l
    <3>1. PICK l \in 1..n : k = m + l
      BY <2>2
    <3> QED BY <1>1, <1>3, <1>6, <3>1 DEF Amid
  <2> QED BY <1>4, <2>1, <2>2
<1>7. ASSUME NEW k \in 1..m, In(x, a[k]) PROVE Amid(x, c)
  BY <1>3, <1>5, <1>7 DEF Amid
<1>8. ASSUME NEW k \in 1..n, In(x, b[k]) PROVE Amid(x, c)
  BY <1>3, <1>5, <1>8 DEF Amid
<1>9. Amid(x, c) => Amid(x, a) \/ Amid(x, b)
  BY <1>3, <1>6 DEF Amid
<1>10. Amid(x, a) \/ Amid(x, b) => Amid(x, c)
  BY <1>1, <1>7, <1>8 DEF Amid
<1> QED BY <1>2, <1>9, <1>10

\* A list of lists is on wherever one of them is.
LEMMA OnFlattened ==
  ASSUME NEW lists \in Seq(Seq(IntervalType))
  PROVE  \A x : Amid(x, FlattenSeq(lists)) <=> \E i \in DOMAIN lists : Amid(x, lists[i])
<1> SUFFICES ASSUME NEW x
             PROVE  Amid(x, FlattenSeq(lists)) <=> \E i \in DOMAIN lists : Amid(x, lists[i])
  OBVIOUS
<1>1. PICK n \in Nat : /\ n = Len(lists) /\ DOMAIN lists = 1..n
                      /\ \A i \in 1..n : lists[i] \in Seq(IntervalType)
  OBVIOUS
<1>2. PICK G : LongerBy(lists, IntervalType, G) /\ FlattenSeq(lists) = G[n]
  BY <1>1, FlattenWalks
<1>3. /\ \A i \in 0..n : G[i] \in Seq(IntervalType)
      /\ G[0] = <<>> /\ \A i \in 1..n : G[i] = G[i - 1] \o lists[i]
  BY <1>1, <1>2 DEF LongerBy
<1>4. PICK P : P = {k \in 0..n : Amid(x, G[k]) <=> \E i \in 1..k : Amid(x, lists[i])}
  OBVIOUS
<1>5. 0 \in P
  <2>1. ~ Amid(x, <<>>)
    BY DEF Amid
  <2> QED BY <1>3, <1>4, <2>1
<1>6. ASSUME NEW k \in 1..n, k - 1 \in P PROVE k \in P
  <2>1. PICK a, b : /\ a = G[k - 1] /\ b = lists[k] /\ a \in Seq(IntervalType)
                    /\ b \in Seq(IntervalType) /\ G[k] = a \o b
    <3>1. k - 1 \in 0..n
      OBVIOUS
    <3> QED BY <1>1, <1>3, <3>1
  <2>2. Amid(x, a \o b) <=> Amid(x, a) \/ Amid(x, b)
    BY <2>1, OnBoth
  <2>3. Amid(x, a) <=> \E i \in 1..(k - 1) : Amid(x, lists[i])
    BY <1>4, <1>6, <2>1
  <2>4. \A i : i \in 1..k <=> i \in 1..(k - 1) \/ i = k
    OBVIOUS
  <2>5. k \in 0..n
    OBVIOUS
  <2>6. Amid(x, G[k]) <=> \E i \in 1..k : Amid(x, lists[i])
    BY <2>1, <2>2, <2>3, <2>4
  <2> QED BY <1>4, <2>5, <2>6
<1>7. n \in P
  <2>1. \A i \in 0..n : i \in P
    BY <1>5, <1>6, Upwards
  <2> QED BY <2>1
<1> QED BY <1>1, <1>2, <1>4, <1>7

LEMMA OneOfTwo ==
  ASSUME NEW x \in Int, NEW y \in Int
  PROVE  (Min({x, y}) = x \/ Min({x, y}) = y) /\ (Max({x, y}) = x \/ Max({x, y}) = y)
<1>1. \E m \in {x, y} : \A z \in {x, y} : m <= z
  OBVIOUS
<1>2. \E m \in {x, y} : \A z \in {x, y} : m >= z
  OBVIOUS
<1>3. Min({x, y}) \in {x, y}
  BY <1>1 DEF Min
<1>4. Max({x, y}) \in {x, y}
  BY <1>2 DEF Max
<1> QED BY <1>3, <1>4

LEMMA OnCapped ==
  ASSUME NEW i \in IntervalType, NEW lo \in Int, NEW hi \in Int, NEW x \in Int
  PROVE  Amid(x, Capped(i, lo, hi)) <=> lo <= x /\ x < hi /\ In(x, i)
<1>1. PICK a \in Int, b \in Int : a = i[1] /\ b = i[2]
  BY DEF IntervalType
<1>2. PICK c \in Int : c = Max({a, lo}) /\ (c = a \/ c = lo) /\ c >= a /\ c >= lo
  <2>1. Max({a, lo}) \in Int /\ Max({a, lo}) >= a /\ Max({a, lo}) >= lo
    BY LeastOfTwo
  <2>2. Max({a, lo}) = a \/ Max({a, lo}) = lo
    BY OneOfTwo
  <2> QED BY <2>1, <2>2
<1>3. PICK d \in Int : d = Min({b, hi}) /\ (d = b \/ d = hi) /\ d <= b /\ d <= hi
  <2>1. Min({b, hi}) \in Int /\ Min({b, hi}) <= b /\ Min({b, hi}) <= hi
    BY LeastOfTwo
  <2>2. Min({b, hi}) = b \/ Min({b, hi}) = hi
    BY OneOfTwo
  <2> QED BY <2>1, <2>2
<1>4. PICK j \in IntervalType : j = <<c, d>> /\ j[1] = c /\ j[2] = d
  <2>1. <<c, d>> \in IntervalType
    BY DEF IntervalType
  <2> QED BY <2>1
<1>5. Capped(i, lo, hi) = IF c < d THEN <<j>> ELSE <<>>
  BY <1>1, <1>2, <1>3, <1>4 DEF Capped
<1>6. In(x, i) <=> a <= x /\ x < b
  BY <1>1 DEF In
<1>7. CASE c < d
  <2>1. Amid(x, <<j>>) <=> In(x, j)
    BY DEF Amid
  <2>2. In(x, j) <=> c <= x /\ x < d
    BY <1>4 DEF In
  <2> QED BY <1>2, <1>3, <1>5, <1>6, <1>7, <2>1, <2>2
<1>8. CASE ~ (c < d)
  <2>1. ~ Amid(x, <<>>)
    BY DEF Amid
  <2> QED BY <1>2, <1>3, <1>5, <1>6, <1>8, <2>1
<1> QED BY <1>7, <1>8

\* What is cut of an arc is what obstacles hide of it, as far as it does not cross
\* the angle of half a turn.
LEMMA OccludedCovers ==
  ASSUME NEW arc, NEW lo \in Int, NEW hi \in Int,
         lo = Normalized(arc.from), hi = Normalized(arc.to),
         NEW S, NEW obstacles \in Seq(S), NEW x \in Int
  PROVE  Amid(x, Occluded(arc, obstacles))
           <=> /\ lo <= x /\ x < hi
               /\ \E j \in DOMAIN obstacles : Amid(x, Hidden(arc.origin, obstacles[j]))
<1>1. PICK n \in Nat : n = Len(obstacles) /\ DOMAIN obstacles = 1..n
  OBVIOUS
<1>2. PICK lists : lists = [i \in DOMAIN obstacles |-> Hidden(arc.origin, obstacles[i])]
  OBVIOUS
<1>3. lists \in Seq(Seq(IntervalType)) /\ DOMAIN lists = DOMAIN obstacles
  <2>1. lists \in [1..n -> Seq(IntervalType)]
    BY <1>1, <1>2, HiddenType
  <2> QED BY <1>1, <2>1
<1>4. PICK hidden \in Seq(IntervalType) : hidden = FlattenSeq(lists)
  BY <1>3, FlattenType
<1>5. Amid(x, hidden) <=> \E j \in DOMAIN obstacles : Amid(x, Hidden(arc.origin, obstacles[j]))
  <2>1. Amid(x, hidden) <=> \E j \in DOMAIN lists : Amid(x, lists[j])
    BY <1>3, <1>4, OnFlattened
  <2> QED BY <1>2, <1>3, <2>1
<1>6. PICK m \in Nat : /\ m = Len(hidden) /\ DOMAIN hidden = 1..m
                      /\ \A i \in 1..m : hidden[i] \in IntervalType
  OBVIOUS
<1>7. PICK parts : parts = [i \in DOMAIN hidden |-> Capped(hidden[i], lo, hi)]
  OBVIOUS
<1>8. parts \in Seq(Seq(Span(lo, hi))) /\ DOMAIN parts = 1..m
  <2>1. parts \in [1..m -> Seq(Span(lo, hi))]
    BY <1>6, <1>7, CappedType
  <2> QED BY <2>1
<1>9. parts \in Seq(Seq(IntervalType))
  <2>1. Span(lo, hi) \subseteq IntervalType
    BY DEF Span
  <2>2. \A l \in Seq(Span(lo, hi)) : l \in Seq(IntervalType)
    BY <2>1, SeqMono
  <2>3. parts \in [1..m -> Seq(IntervalType)]
    BY <1>6, <1>7, <1>8, <2>2
  <2> QED BY <2>3
<1>10. PICK within \in Seq(Span(lo, hi)) : within = FlattenSeq(parts)
  BY <1>8, FlattenType
<1>11. Occluded(arc, obstacles) = United(within)
  BY <1>2, <1>4, <1>7, <1>10 DEF Occluded
<1>12. Amid(x, United(within)) <=> Amid(x, within)
  BY UnitedCovers
<1>13. Amid(x, within) <=> \E i \in 1..m : Amid(x, parts[i])
  BY <1>8, <1>9, <1>10, OnFlattened
<1>14. \A i \in 1..m : Amid(x, parts[i]) <=> lo <= x /\ x < hi /\ In(x, hidden[i])
  BY <1>6, <1>7, OnCapped
<1>15. Amid(x, hidden) <=> \E i \in 1..m : In(x, hidden[i])
  BY <1>6 DEF Amid
<1> QED BY <1>5, <1>11, <1>12, <1>13, <1>14, <1>15

LEMMA CoveredIs ==
  ASSUME NEW list \in Seq(IntervalType)
  PROVE  \A x : x \in Covered(list) <=> x \in Int /\ Amid(x, list)
<1>1. \A k \in DOMAIN list : list[k] \in IntervalType
  OBVIOUS
<1>2. \A k \in DOMAIN list : list[k][1] \in Int /\ list[k][2] \in Int
  BY <1>1 DEF IntervalType
<1>3. \A k \in DOMAIN list : \A x : x \in Cells(list[k]) <=> x \in Int /\ In(x, list[k])
  BY <1>2, CellsAre
<1> QED BY <1>3 DEF Covered, Amid

\* An arc is cut just where it is hidden.
LEMMA CoveredIsShadow ==
  ASSUME NEW arc, arc.from \in Int, arc.to \in Int, NEW S, NEW obstacles \in Seq(S)
  PROVE  Covered(Occluded(arc, obstacles))
           = IF CrossesHalfTurn(arc) THEN {} ELSE MirroredShadow(arc, obstacles)
<1>1. PICK lo \in Int, hi \in Int : lo = Normalized(arc.from) /\ hi = Normalized(arc.to)
  BY NormalizedRange
<1>2. PICK occluded : occluded = Occluded(arc, obstacles)
  OBVIOUS
<1>3. occluded \in Seq(IntervalType)
  BY <1>1, <1>2, OccludedAscends DEF Ascending
<1>4. \A x : x \in Covered(occluded) <=> x \in Int /\ Amid(x, occluded)
  BY <1>3, CoveredIs
<1>5. PICK hidden : hidden = [j \in DOMAIN obstacles |-> Hidden(arc.origin, obstacles[j])]
  OBVIOUS
<1>6. \A j \in DOMAIN obstacles : \A x : x \in Covered(hidden[j]) <=> x \in Int /\ Amid(x, hidden[j])
  BY <1>5, HiddenType, CoveredIs
<1>7. \A x : x \in Cells(<<lo, hi>>) <=> x \in Int /\ lo <= x /\ x < hi
  <2>1. PICK i \in IntervalType : i = <<lo, hi>> /\ i[1] = lo /\ i[2] = hi
    <3>1. <<lo, hi>> \in IntervalType
      BY DEF IntervalType
    <3> QED BY <3>1
  <2> QED BY <2>1, CellsAre DEF In
<1>8. MirroredShadow(arc, obstacles) = Cells(<<lo, hi>>) \cap UNION {Covered(hidden[j]) : j \in DOMAIN obstacles}
  BY <1>1, <1>5 DEF MirroredShadow
<1>9. ASSUME NEW x
      PROVE  x \in MirroredShadow(arc, obstacles)
               <=> /\ x \in Int /\ lo <= x /\ x < hi
                   /\ \E j \in DOMAIN obstacles : Amid(x, hidden[j])
  BY <1>6, <1>7, <1>8
<1>10. ASSUME NEW x PROVE x \in Covered(occluded) <=> x \in MirroredShadow(arc, obstacles)
  BY <1>1, <1>2, <1>4, <1>5, <1>9, OccludedCovers
<1>11. CrossesHalfTurn(arc) => \A x : x \notin Covered(occluded)
  BY <1>1, <1>9, <1>10 DEF CrossesHalfTurn
<1>12. Covered(occluded) = MirroredShadow(arc, obstacles)
  BY <1>10
<1>13. CrossesHalfTurn(arc) => Covered(occluded) = {}
  BY <1>11
<1> QED BY <1>2, <1>12, <1>13

\* What is hidden of an arc and what is not make up its sector.
LEMMA PiecesTileSector ==
  ASSUME NEW arc, GoodArc(arc), NEW S, NEW obstacles \in Seq(S)
  PROVE  LET occluded == Occluded(arc, obstacles)
         IN  Tiles(occluded \o Visible(arc, occluded), arc)
<1>1. PICK from \in Int, to \in Int : from = arc.from /\ to = arc.to
  BY DEF GoodArc
<1>2. from <= to /\ Sector(arc)
  BY <1>1 DEF GoodArc, Sector
<1>3. PICK occluded : occluded = Occluded(arc, obstacles)
  OBVIOUS
<1>4. Ascending(occluded, from, to)
  BY <1>1, <1>2, <1>3, OccludedWithin
<1>5. PICK visible : visible = Visible(arc, occluded)
  OBVIOUS
<1>6. Fills(occluded, visible, Len(occluded), from, to)
  BY <1>1, <1>2, <1>4, <1>5, VisibleFills
<1>7. Tiles(occluded \o visible, arc)
  BY <1>1, <1>2, <1>4, <1>6, FillsTile
<1> QED BY <1>3, <1>5, <1>7

\* The sums of the shares of an arc that is cut into intervals.
LEMMA IntervalShares ==
  ASSUME NEW arc, GoodArc(arc), NEW id \in Int, NEW S, NEW obstacles \in Seq(S),
         \A s \in S : s.albedo \in PowerType, NEW occluded, Ascending(occluded, arc.from, arc.to),
         -16 <= arc.from, arc.from < arc.to, arc.to <= 16,
         NEW parts, parts = [i \in DOMAIN occluded |-> Struck(arc, id, occluded[i], obstacles)]
  PROVE  \E p, sums : /\ Shares(Len(occluded), parts, p, sums)
                      /\ sums[Len(occluded)] <= Total(arc.power)
<1>1. PICK from \in Int, to \in Int : from = arc.from /\ to = arc.to
  BY DEF GoodArc
<1>2. PICK n \in Nat : /\ n = Len(occluded) /\ DOMAIN occluded = 1..n
                      /\ \A j \in 1..n : /\ occluded[j] \in IntervalType
                                        /\ occluded[j][1] \in Int /\ occluded[j][2] \in Int
  BY AscendingInts
<1>3. -16 <= from /\ from < to /\ to <= 16
  BY <1>1
<1>4. PICK w \in Nat : w = to - from /\ w > 0
  <2>1. to - from \in Nat /\ to - from > 0
    BY <1>3
  <2> QED BY <2>1
<1>5. PICK power \in PowerType : power = arc.power
  BY DEF GoodArc
<1>6. /\ \A j \in 1..n : /\ from <= occluded[j][1] /\ occluded[j][1] <= occluded[j][2]
                         /\ occluded[j][2] <= to
      /\ \A j, k \in 1..n : j < k => occluded[j][2] <= occluded[k][1]
  BY <1>1, <1>2 DEF Ascending
<1> DEFINE Width(j) == occluded[j][2] - occluded[j][1]
<1> DEFINE Done(j) == IF j = 0 THEN 0 ELSE occluded[j][2] - from
<1>7. ASSUME NEW j \in 1..n
      PROVE  /\ Width(j) \in Nat /\ Done(j) \in Nat /\ Done(j - 1) \in Nat
             /\ Done(j - 1) + Width(j) <= Done(j) /\ Done(j) <= w
  <2>1. PICK a \in Int, b \in Int : a = occluded[j][1] /\ b = occluded[j][2]
    BY <1>2
  <2>2. from <= a /\ a <= b /\ b <= to
    BY <1>6, <2>1
  <2>3. CASE j = 1
    <3>1. Done(j - 1) = 0 /\ Done(j) = b - from /\ Width(j) = b - a
      BY <2>1, <2>3
    <3> HIDE DEF Done, Width
    <3> QED BY <1>4, <2>2, <3>1
  <2>4. CASE j # 1
    <3>1. j - 1 \in 1..n /\ j - 1 < j
      BY <2>4
    <3>2. PICK c \in Int : c = occluded[j - 1][2]
      BY <1>2, <3>1
    <3>3. from <= c /\ c <= a
      <4>1. from <= occluded[j - 1][1] /\ occluded[j - 1][1] <= occluded[j - 1][2]
        BY <1>6, <3>1
      <4>2. occluded[j - 1][1] \in Int
        BY <1>2, <3>1
      <4>3. from <= c
        BY <3>2, <4>1, <4>2
      <4>4. c <= a
        BY <1>6, <2>1, <3>1, <3>2
      <4> QED BY <4>3, <4>4
    <3>4. Done(j - 1) = c - from /\ Done(j) = b - from /\ Width(j) = b - a
      BY <2>1, <3>1, <3>2
    <3> HIDE DEF Done, Width
    <3> QED BY <1>4, <2>2, <3>3, <3>4
  <2> QED BY <2>3, <2>4
<1> DEFINE p == [j \in 1..n |-> Total(Share(power, Width(j), w))]
<1> DEFINE sums == [j \in 0..n |-> Total(Share(power, Done(j), w))]
<1>8. Done(0) = 0
  OBVIOUS
<1>9. ASSUME NEW j \in 0..n PROVE Done(j) \in Nat /\ Done(j) <= w
  <2>1. CASE j = 0
    <3>1. Done(j) = 0
      BY <1>8, <2>1
    <3> HIDE DEF Done
    <3> QED BY <1>4, <3>1
  <2>2. CASE j # 0
    <3>1. j \in 1..n
      BY <2>2
    <3> HIDE DEF Done
    <3> QED BY <1>7, <3>1
  <2> QED BY <2>1, <2>2
<1>10. \A j \in 1..n : j - 1 \in 0..n /\ j \in 0..n
  OBVIOUS
<1>11. \A j \in 1..n : Struck(arc, id, occluded[j], obstacles) = parts[j]
  BY <1>2
<1>12. ASSUME NEW j \in 1..n PROVE Outcome(parts[j], Total(Share(power, Width(j), w)))
  <2>1. PICK i \in IntervalType : i = occluded[j]
    BY <1>2
  <2>2. -16 <= i[1] /\ i[1] <= i[2] /\ i[2] <= 16
    <3>1. PICK a \in Int, b \in Int : a = i[1] /\ b = i[2]
      BY DEF IntervalType
    <3>2. from <= a /\ a <= b /\ b <= to
      BY <1>6, <2>1, <3>1
    <3> QED BY <1>3, <3>1, <3>2
  <2>3. Outcome(Struck(arc, id, i, obstacles), Total(Share(arc.power, i[2] - i[1], arc.to - arc.from)))
    BY <2>2, StruckIs
  <2>4. i[2] - i[1] = Width(j) /\ arc.to - arc.from = w
    BY <1>1, <1>4, <2>1
  <2> QED BY <1>5, <1>11, <2>1, <2>3, <2>4
<1> HIDE DEF Done, Width
<1>13. \A j \in 1..n : Total(Share(power, Width(j), w)) \in Nat
  BY <1>4, <1>7, ShareIs
<1>14. \A j \in 0..n : Total(Share(power, Done(j), w)) \in Nat
  BY <1>4, <1>9, ShareIs
<1>15. \A j \in 1..n : Total(Share(power, Done(j - 1), w)) + Total(Share(power, Width(j), w))
                         <= Total(Share(power, Done(j), w))
  BY <1>4, <1>7, SharesAdd
<1>16. /\ \A j \in 1..n : p[j] = Total(Share(power, Width(j), w))
       /\ \A j \in 0..n : sums[j] = Total(Share(power, Done(j), w))
  OBVIOUS
<1>17. n \in 0..n
  OBVIOUS
<1>18. Total(Share(power, Done(n), w)) <= Total(power)
  BY <1>4, <1>9, <1>17, ShareBelow
<1>19. DOMAIN parts = 1..n
  BY <1>2
<1> HIDE DEF p, sums
<1>20. Shares(n, parts, p, sums)
  <2>1. \A j \in 1..n : Outcome(parts[j], p[j]) /\ p[j] \in Nat
    BY <1>12, <1>13, <1>16
  <2>2. \A j \in 0..n : sums[j] \in Nat
    BY <1>14, <1>16
  <2>3. \A j \in 1..n : sums[j - 1] + p[j] <= sums[j]
    BY <1>10, <1>15, <1>16
  <2> QED BY <1>19, <2>1, <2>2, <2>3 DEF Shares
<1>21. sums[n] <= Total(arc.power)
  BY <1>5, <1>16, <1>17, <1>18
<1> QED BY <1>2, <1>20, <1>21

\* What clip_arc returns.
CutOf(cut, arc) ==
  /\ Spares(cut, arc)
  /\ \E R : cut.remaining \in Seq(R) /\ \A b \in R : GoodArc(b) /\ SameRing(b, arc)
  /\ \E E : cut.reflected \in Seq(E) /\ \A e \in E : GoodArc(e) /\ e.generation > 0

LEMMA UntouchedIs ==
  ASSUME NEW arc, GoodArc(arc)
  PROVE  CutOf(Untouched(arc), arc)
<1>1. PICK cut : cut = Untouched(arc)
  OBVIOUS
<1>2. cut.remaining = <<arc>> /\ cut.reflected = <<>> /\ cut.absorbed = <<>>
  BY <1>1 DEF Untouched
<1>3. Spares(cut, arc)
  <2>1. Heat(cut.absorbed) + Light(cut.reflected) = 0
    BY <1>2, NothingAddsNothing
  <2>2. Total(arc.power) \in Nat
    BY TotalIs DEF GoodArc
  <2>3. Heat(cut.absorbed) + Light(cut.reflected) <= Total(arc.power)
    BY <2>1, <2>2
  <2> QED BY <2>3 DEF Spares, Heat, Light
<1>4. PICK R : R = {arc}
  OBVIOUS
<1>5. <<arc>> \in Seq(R) /\ \A b \in R : GoodArc(b) /\ SameRing(b, arc)
  BY <1>4 DEF SameRing
<1>6. PICK E : E = {}
  OBVIOUS
<1>7. <<>> \in Seq(E) /\ \A e \in E : GoodArc(e) /\ e.generation > 0
  BY <1>6
<1> QED BY <1>1, <1>2, <1>3, <1>5, <1>7 DEF CutOf

LEMMA ClippedIs ==
  ASSUME NEW arc, GoodArc(arc), NEW S, NEW obstacles \in Seq(S),
         \A s \in S : s.albedo \in PowerType
  PROVE  CutOf(Clipped(arc, obstacles), arc)
<1>1. PICK from \in Int, to \in Int : from = arc.from /\ to = arc.to
  BY DEF GoodArc
<1>2. from <= to /\ Sector(arc)
  BY <1>1 DEF GoodArc, Sector
<1>3. PICK occluded : occluded = Occluded(arc, obstacles)
  OBVIOUS
<1>4. Ascending(occluded, from, to) /\ (occluded # <<>> => -16 <= from /\ from < to /\ to <= 16)
  BY <1>1, <1>2, <1>3, OccludedWithin
<1>5. CASE occluded = <<>>
  <2>1. Clipped(arc, obstacles) = Untouched(arc)
    BY <1>3, <1>5 DEF Clipped, CutBy
  <2> QED BY <2>1, UntouchedIs
<1>6. CASE occluded # <<>>
  <2>1. -16 <= from /\ from < to /\ to <= 16
    BY <1>4, <1>6
  <2>2. PICK visible : visible = Visible(arc, occluded)
    OBVIOUS
  <2>3. Ascending(visible, from, to)
    BY <1>1, <1>2, <1>4, <2>2, VisibleFills DEF Fills
  <2>4. PICK m \in Nat : /\ m = Len(visible) /\ DOMAIN visible = 1..m
                        /\ \A j \in 1..m : visible[j][1] \in Int /\ visible[j][2] \in Int
    BY <2>3, AscendingInts
  <2>5. PICK id \in Int : id = arc.id + Len(visible) + 1
    BY <2>4 DEF GoodArc
  <2>6. PICK parts : parts = [i \in DOMAIN occluded |-> Struck(arc, id, occluded[i], obstacles)]
    OBVIOUS
  <2>7. PICK cut : cut = Cut(visible, parts, arc)
    OBVIOUS
  <2>8. Clipped(arc, obstacles) = cut
    BY <1>3, <1>6, <2>2, <2>5, <2>6, <2>7 DEF Clipped, CutBy, CutFrom
  <2>9. /\ cut.remaining = [i \in 1..m |-> [arc EXCEPT !.id = arc.id + i, !.from = visible[i][1],
                                                       !.to = visible[i][2]]]
        /\ cut.reflected = FlattenSeq([i \in DOMAIN parts |-> parts[i].reflected])
        /\ cut.absorbed = FlattenSeq([i \in DOMAIN parts |-> parts[i].absorbed])
    BY <2>4, <2>7 DEF Cut
  <2>10. PICK p, sums : Shares(Len(occluded), parts, p, sums) /\ sums[Len(occluded)] <= Total(arc.power)
    <3>1. Ascending(occluded, arc.from, arc.to) /\ -16 <= arc.from /\ arc.from < arc.to /\ arc.to <= 16
      BY <1>1, <1>4, <2>1
    <3> QED BY <2>6, <3>1, IntervalShares
  <2>11. PICK n \in Nat : n = Len(occluded)
    BY <1>4, AscendingInts
  <2>12. Shares(n, parts, p, sums) /\ sums[n] <= Total(arc.power)
    BY <2>10, <2>11
  <2>a. PICK heat, light : /\ heat = FlattenSeq([i \in DOMAIN parts |-> parts[i].absorbed])
                            /\ light = FlattenSeq([i \in DOMAIN parts |-> parts[i].reflected])
    OBVIOUS
  <2>b. heat = cut.absorbed /\ light = cut.reflected
    BY <2>9, <2>a
  <2>c. /\ Heat(heat) \in Int /\ Light(light) \in Int /\ sums[n] \in Int
        /\ Heat(heat) + Light(light) <= sums[n]
        /\ \E E : light \in Seq(E) /\ \A e \in E : GoodArc(e) /\ e.generation > 0
    BY <2>12, <2>a, PartsSpare
  <2>13. \E E : cut.reflected \in Seq(E) /\ \A e \in E : GoodArc(e) /\ e.generation > 0
    BY <2>b, <2>c
  <2>14. Heat(cut.absorbed) + Light(cut.reflected) <= Total(arc.power)
    <3>1. PICK x \in Int, y \in Int, z \in Int, t \in Nat :
            x = Heat(heat) /\ y = Light(light) /\ z = sums[n] /\ t = Total(arc.power)
      BY <2>c, TotalIs DEF GoodArc
    <3>2. x + y <= z /\ z <= t
      BY <2>12, <2>c, <3>1
    <3>3. x + y <= t
      BY <3>2
    <3> QED BY <2>b, <3>1, <3>3
  <2>15. Spares(cut, arc)
    BY <2>14 DEF Spares, Heat, Light
  <2>16. PICK R : R = {cut.remaining[i] : i \in 1..m}
    OBVIOUS
  <2>17. cut.remaining \in Seq(R)
    <3>1. cut.remaining \in [1..m -> R]
      BY <2>9, <2>16
    <3> QED BY <3>1
  <2>18. ASSUME NEW i \in 1..m PROVE GoodArc(cut.remaining[i]) /\ SameRing(cut.remaining[i], arc)
    <3>1. PICK a \in Int, b \in Int : a = visible[i][1] /\ b = visible[i][2]
      BY <2>4
    <3>2. from <= a /\ a <= b /\ b <= to
      BY <2>3, <2>4, <3>1 DEF Ascending
    <3>3. -16 <= a /\ b <= 16
      BY <2>1, <3>2
    <3>4. cut.remaining[i] = [arc EXCEPT !.id = arc.id + i, !.from = a, !.to = b]
      BY <2>9, <3>1
    <3>5. i \in Int /\ a <= b
      BY <3>2
    <3>6. PICK new : new = cut.remaining[i] /\ new = [arc EXCEPT !.id = arc.id + i, !.from = a, !.to = b]
      BY <3>4
    <3>7. GoodArc(new) /\ SameRing(new, arc)
      BY <3>3, <3>5, <3>6, PieceGood
    <3> QED BY <3>6, <3>7
  <2>19. \A b \in R : GoodArc(b) /\ SameRing(b, arc)
    BY <2>16, <2>18
  <2> QED BY <2>8, <2>13, <2>15, <2>17, <2>19 DEF CutOf
<1> QED BY <1>5, <1>6

(***************************************************************************)
(* Lists of arcs                                                           *)
(***************************************************************************)

\* A message in an arc that was never thrown back was sent at the tick and from
\* the place that the ring of the arc says.
Told(a, log, t) ==
  a.payload # Silence /\ a.generation = 0 =>
    \E s \in log : /\ s.message = a.payload /\ s.station = a.source /\ s.origin = a.origin
                   /\ a.inner = (t - 1 - s.tick) * Ring /\ a.outer = (t - s.tick) * Ring

AirOf(arcs, log, t) == \E S : arcs \in Seq(S) /\ \A a \in S : GoodArc(a) /\ Told(a, log, t)

Logged(log) == \A s \in log : s.tick \in Int

LEMMA OneTickOn ==
  ASSUME NEW x \in Int
  PROVE  x * Ring + Ring = (x + 1) * Ring /\ x * Ring \in Int
<1>1. Ring \in Int
  BY ArcsAssumption
<1>2. \A r \in Int : x * r + r = (x + 1) * r /\ x * r \in Int
  OBVIOUS
<1> QED BY <1>1, <1>2

LEMMA OfItsOwn ==
  ASSUME NEW S, NEW seq \in Seq(S)
  PROVE  /\ seq \in Seq(ToSet(seq)) /\ ToSet(seq) \subseteq S
         /\ \A R : ToSet(seq) \subseteq R => seq \in Seq(R)
<1>1. PICK n \in Nat : n = Len(seq) /\ DOMAIN seq = 1..n /\ seq = [i \in 1..n |-> seq[i]]
                      /\ \A i \in 1..n : seq[i] \in S
  OBVIOUS
<1>2. PICK own : own = ToSet(seq)
  OBVIOUS
<1>3. own = {seq[i] : i \in 1..n}
  BY <1>1, <1>2 DEF ToSet
<1>4. own \subseteq S
  BY <1>1, <1>3
<1>5. ASSUME NEW R, own \subseteq R PROVE seq \in Seq(R)
  <2>1. seq \in [1..n -> R]
    BY <1>1, <1>3, <1>5
  <2> QED BY <2>1
<1> QED BY <1>2, <1>4, <1>5

LEMMA AirTogether ==
  ASSUME NEW a, NEW b, NEW log, NEW t, AirOf(a, log, t), AirOf(b, log, t)
  PROVE  AirOf(a \o b, log, t)
<1>1. PICK S : a \in Seq(S) /\ \A x \in S : GoodArc(x) /\ Told(x, log, t)
  BY DEF AirOf
<1>2. PICK T : b \in Seq(T) /\ \A x \in T : GoodArc(x) /\ Told(x, log, t)
  BY DEF AirOf
<1>3. PICK U : U = S \cup T
  OBVIOUS
<1>4. a \in Seq(U) /\ b \in Seq(U)
  <2>1. S \subseteq U /\ T \subseteq U
    BY <1>3
  <2> QED BY <1>1, <1>2, <2>1
<1>5. a \o b \in Seq(U)
  BY <1>4
<1>6. \A x \in U : GoodArc(x) /\ Told(x, log, t)
  BY <1>1, <1>2, <1>3
<1> QED BY <1>5, <1>6 DEF AirOf

LEMMA AirThose ==
  ASSUME NEW arcs, NEW log, NEW t, AirOf(arcs, log, t), NEW which, which \subseteq DOMAIN arcs
  PROVE  AirOf(Those(arcs, which), log, t)
<1>1. PICK S : arcs \in Seq(S) /\ \A x \in S : GoodArc(x) /\ Told(x, log, t)
  BY DEF AirOf
<1>2. PICK n \in Nat : DOMAIN arcs = 1..n /\ \A i \in 1..n : arcs[i] \in S
  BY <1>1
<1>3. PICK R : R = {arcs[i] : i \in which}
  OBVIOUS
<1>4. Those(arcs, which) \in Seq(R)
  BY <1>2, <1>3, ThoseAre
<1>5. \A x \in R : GoodArc(x) /\ Told(x, log, t)
  BY <1>1, <1>2, <1>3
<1> QED BY <1>4, <1>5 DEF AirOf

LEMMA AirLater ==
  ASSUME NEW arcs, NEW log, NEW t, AirOf(arcs, log, t), NEW more, log \subseteq more
  PROVE  AirOf(arcs, more, t)
<1>1. \A a : Told(a, log, t) => Told(a, more, t)
  BY DEF Told
<1> QED BY <1>1 DEF AirOf

LEMMA ToldSpread ==
  ASSUME NEW a, GoodArc(a), NEW log, Logged(log), NEW t \in Int, Told(a, log, t)
  PROVE  Told(Spread(a), log, t + 1)
<1>1. PICK b : b = Spread(a)
  OBVIOUS
<1>2. /\ b.inner = a.inner + Ring /\ b.outer = a.outer + Ring /\ b.origin = a.origin
      /\ b.source = a.source /\ b.payload = a.payload /\ b.generation = a.generation
  BY <1>1, SpreadGood
<1>a. PICK u \in Int : u = t + 1
  OBVIOUS
<1>b. SUFFICES Told(b, log, u)
  BY <1>1, <1>a
<1>3. SUFFICES ASSUME b.payload # Silence, b.generation = 0
               PROVE  \E s \in log : /\ s.message = b.payload /\ s.station = b.source
                                     /\ s.origin = b.origin
                                     /\ b.inner = (u - 1 - s.tick) * Ring
                                     /\ b.outer = (u - s.tick) * Ring
  BY DEF Told
<1>4. PICK s \in log : /\ s.message = a.payload /\ s.station = a.source /\ s.origin = a.origin
                       /\ a.inner = (t - 1 - s.tick) * Ring /\ a.outer = (t - s.tick) * Ring
  BY <1>2, <1>3 DEF Told
<1>5. PICK k \in Int : k = s.tick
  BY DEF Logged
<1>6. PICK x \in Int, y \in Int : /\ x = t - 1 - k /\ y = t - k
                                 /\ u - 1 - k = x + 1 /\ u - k = y + 1
  BY <1>a
<1>7. a.inner = x * Ring /\ a.outer = y * Ring
  BY <1>4, <1>5, <1>6
<1>8. b.inner = (x + 1) * Ring /\ b.outer = (y + 1) * Ring
  BY <1>2, <1>7, OneTickOn
<1> QED BY <1>2, <1>4, <1>5, <1>6, <1>8

LEMMA AirPropagated ==
  ASSUME NEW arcs, NEW log, Logged(log), NEW t \in Int, AirOf(arcs, log, t)
  PROVE  AirOf(Propagated(arcs), log, t + 1)
<1>1. PICK S : arcs \in Seq(S) /\ \A x \in S : GoodArc(x) /\ Told(x, log, t)
  BY DEF AirOf
<1>2. PICK n \in Nat : DOMAIN arcs = 1..n /\ \A i \in 1..n : arcs[i] \in S
  BY <1>1
<1>3. PICK spread : spread = [i \in DOMAIN arcs |-> Spread(arcs[i])]
  OBVIOUS
<1>4. PICK R : R = {Spread(a) : a \in S}
  OBVIOUS
<1>5. spread \in Seq(R)
  <2>1. spread \in [1..n -> R]
    BY <1>2, <1>3, <1>4
  <2> QED BY <2>1
<1>6. \A x \in R : GoodArc(x) /\ Told(x, log, t + 1)
  BY <1>1, <1>4, SpreadGood, ToldSpread
<1>7. AirOf(spread, log, t + 1)
  BY <1>5, <1>6 DEF AirOf
<1>8. PICK which : which = {i \in DOMAIN spread : /\ spread[i].outer <= Boundary
                                                 /\ Total(spread[i].power) > 0}
  OBVIOUS
<1>9. Propagated(arcs) = Those(spread, which)
  BY <1>3, <1>8 DEF Propagated
<1>10. which \subseteq DOMAIN spread
  BY <1>8
<1> QED BY <1>7, <1>9, <1>10, AirThose

\* Places of which nothing strange is said.
Furnished(place) ==
  /\ Standing(place.bodies) /\ Standing(place.ships) /\ Standing(place.stations)
  /\ \A i \in DOMAIN place.bodies : place.bodies[i].albedo \in PowerType
  /\ \A i \in DOMAIN place.ships :
       /\ place.ships[i].faces \in Int
       /\ place.ships[i].emitter # <<>> => place.ships[i].emitter[1] \in EmitterType

LEMMA AirCut ==
  ASSUME NEW arcs, NEW log, NEW t, AirOf(arcs, log, t), NEW place, Furnished(place)
  PROVE  /\ AirOf(ClippedAll(arcs, place.bodies, place.ships).remaining, log, t)
         /\ AirOf(ClippedAll(arcs, place.bodies, place.ships).reflected, log, t)
<1>1. PICK S : arcs \in Seq(S) /\ \A x \in S : GoodArc(x) /\ Told(x, log, t)
  BY DEF AirOf
<1>2. PICK n \in Nat : DOMAIN arcs = 1..n /\ \A i \in 1..n : arcs[i] \in S
  BY <1>1
<1>3. PICK bs, ss : bs = place.bodies /\ ss = place.ships
  OBVIOUS
<1>4. Standing(bs) /\ Standing(ss) /\ \A i \in DOMAIN bs : bs[i].albedo \in PowerType
  BY <1>3 DEF Furnished
<1>5. PICK cuts : cuts = [i \in DOMAIN arcs |-> Clipped(arcs[i], Obstacles(arcs[i], bs, ss))]
  OBVIOUS
<1>6. ASSUME NEW i \in 1..n PROVE CutOf(cuts[i], arcs[i])
  <2>1. PICK T : /\ Obstacles(arcs[i], bs, ss) \in Seq(T)
                 /\ \A s \in T : s.albedo \in PowerType
    BY <1>4, ObstaclesType
  <2>2. GoodArc(arcs[i])
    BY <1>1, <1>2
  <2>3. CutOf(Clipped(arcs[i], Obstacles(arcs[i], bs, ss)), arcs[i])
    BY <2>1, <2>2, ClippedIs
  <2> QED BY <1>2, <1>5, <2>3
<1>7. PICK kept, back : /\ kept = [i \in DOMAIN cuts |-> cuts[i].remaining]
                       /\ back = [i \in DOMAIN cuts |-> cuts[i].reflected]
  OBVIOUS
<1>8. /\ ClippedAll(arcs, bs, ss).remaining = FlattenSeq(kept)
      /\ ClippedAll(arcs, bs, ss).reflected = FlattenSeq(back)
  BY <1>5, <1>7 DEF ClippedAll, Gathered
<1>9. /\ kept = [i \in 1..n |-> kept[i]] /\ back = [i \in 1..n |-> back[i]]
      /\ \A i \in 1..n : kept[i] = cuts[i].remaining /\ back[i] = cuts[i].reflected
  BY <1>2, <1>5, <1>7
<1>10. PICK K, B : /\ K = UNION {ToSet(kept[i]) : i \in 1..n}
                  /\ B = UNION {ToSet(back[i]) : i \in 1..n}
  OBVIOUS
<1>11. ASSUME NEW i \in 1..n
       PROVE  /\ kept[i] \in Seq(K) /\ back[i] \in Seq(B)
              /\ \A b \in ToSet(kept[i]) \cup ToSet(back[i]) : GoodArc(b) /\ Told(b, log, t)
  <2>1. PICK R : kept[i] \in Seq(R) /\ \A b \in R : GoodArc(b) /\ SameRing(b, arcs[i])
    BY <1>6, <1>9 DEF CutOf
  <2>2. PICK E : back[i] \in Seq(E) /\ \A e \in E : GoodArc(e) /\ e.generation > 0
    BY <1>6, <1>9 DEF CutOf
  <2>3. ToSet(kept[i]) \subseteq K /\ ToSet(back[i]) \subseteq B
    BY <1>10
  <2>4. kept[i] \in Seq(K) /\ ToSet(kept[i]) \subseteq R
    BY <2>1, <2>3, OfItsOwn
  <2>5. back[i] \in Seq(B) /\ ToSet(back[i]) \subseteq E
    BY <2>2, <2>3, OfItsOwn
  <2>6. Told(arcs[i], log, t)
    BY <1>1, <1>2
  <2>7. \A b \in R : Told(b, log, t)
    BY <2>1, <2>6 DEF SameRing, Told
  <2>8. \A e \in E : Told(e, log, t)
    <3>1. \A e \in E : e.generation # 0
      BY <2>2
    <3> QED BY <3>1 DEF Told
  <2> QED BY <2>1, <2>2, <2>4, <2>5, <2>7, <2>8
<1>12. \A b \in K \cup B : GoodArc(b) /\ Told(b, log, t)
  BY <1>10, <1>11
<1>13. kept \in Seq(Seq(K)) /\ back \in Seq(Seq(B))
  <2>1. PICK U, V : U = Seq(K) /\ V = Seq(B)
    OBVIOUS
  <2>2. kept \in [1..n -> U] /\ back \in [1..n -> V]
    BY <1>9, <1>11, <2>1
  <2>3. kept \in Seq(U) /\ back \in Seq(V)
    BY <2>2
  <2> QED BY <2>1, <2>3
<1>14. FlattenSeq(kept) \in Seq(K) /\ FlattenSeq(back) \in Seq(B)
  BY <1>13, FlattenType
<1> QED BY <1>3, <1>8, <1>12, <1>14 DEF AirOf

LEMMA AirFlying ==
  ASSUME NEW cut, NEW there, NEW log, NEW t, AirOf(cut.remaining, log, t), AirOf(cut.reflected, log, t)
  PROVE  AirOf(Flying(cut, there), log, t)
<1>1. PICK all : all = cut.remaining \o cut.reflected
  OBVIOUS
<1>2. AirOf(all, log, t)
  BY <1>1, AirTogether
<1>3. PICK positions : positions = {there.ships[i].pos : i \in DOMAIN there.ships}
                                     \cup {there.stations[i].pos : i \in DOMAIN there.stations}
  OBVIOUS
<1>4. PICK which : which = {i \in DOMAIN all : CanReach(all[i], positions)}
  OBVIOUS
<1>5. Flying(cut, there) = Those(all, which)
  BY <1>1, <1>3, <1>4 DEF Flying, Culled
<1>6. which \subseteq DOMAIN all
  BY <1>4
<1> QED BY <1>2, <1>5, <1>6, AirThose

LEMMA AirLimited ==
  ASSUME NEW arcs, NEW log, NEW t, AirOf(arcs, log, t)
  PROVE  AirOf(Limited(arcs), log, t)
<1>1. PICK S : arcs \in Seq(S) /\ \A x \in S : GoodArc(x) /\ Told(x, log, t)
  BY DEF AirOf
<1>2. PICK n \in Nat : n = Len(arcs) /\ DOMAIN arcs = 1..n /\ \A i \in 1..n : arcs[i] \in S
  BY <1>1
<1>3. PICK max \in Nat : max = MaxSignals
  BY ArcsAssumption
<1>4. PICK keys : keys = [i \in DOMAIN arcs |-> arcs[i].id]
  OBVIOUS
<1>5. PICK one \in Int : one = 1
  OBVIOUS
<1>6. IsFiniteSet(one..n) /\ Cardinality(one..n) = IF one > n THEN 0 ELSE n - one + 1
  BY FS_Interval
<1>7. Keyed(keys) /\ Cardinality(DOMAIN keys) = n
  <2>1. \A i \in 1..n : keys[i] \in Int
    BY <1>1, <1>2, <1>4 DEF GoodArc
  <2>2. DOMAIN keys = 1..n
    BY <1>2, <1>4
  <2>3. IsFiniteSet(DOMAIN keys) /\ Cardinality(DOMAIN keys) = n
    BY <1>5, <1>6, <2>2
  <2> QED BY <2>1, <2>2, <2>3 DEF Keyed
<1>8. PICK order : order = InOrder(keys)
  OBVIOUS
<1>9. order \in [1..n -> 1..n]
  <2>1. InLine(order, keys, n)
    BY <1>7, <1>8, InOrderIsInLine
  <2>2. DOMAIN keys = 1..n
    BY <1>2, <1>4
  <2> QED BY <2>1, <2>2 DEF InLine
<1>10. CASE n <= max
  <2>1. Limited(arcs) = arcs
    BY <1>2, <1>3, <1>10 DEF Limited
  <2> QED BY <2>1
<1>11. CASE ~ (n <= max)
  <2>1. PICK first \in 1..n : first = n - max + 1 \/ max = 0
    <3>1. CASE max = 0
      <4>1. 1 \in 1..n
        BY <1>11, <3>1
      <4> QED BY <3>1, <4>1
    <3>2. CASE max # 0
      <4>1. n - max + 1 \in 1..n
        BY <1>11, <3>2
      <4> QED BY <4>1
    <3> QED BY <3>1, <3>2
  <2>2. order \in Seq(1..n) /\ Len(order) = n
    BY <1>9
  <2>3. PICK last : last = SubSeq(order, n - max + 1, n)
    OBVIOUS
  <2>4. last = [i \in 1..max |-> order[i + (n - max + 1) - 1]]
    <3>1. last = [i \in 1..(n - (n - max + 1) + 1) |-> order[i + (n - max + 1) - 1]]
      BY <2>2, <2>3
    <3>2. n - (n - max + 1) + 1 = max
      OBVIOUS
    <3> QED BY <3>1, <3>2
  <2>5. \A i \in 1..max : i + (n - max + 1) - 1 \in 1..n
    BY <1>11
  <2>6. PICK out : out = At(arcs, last)
    OBVIOUS
  <2>7. out = [i \in 1..max |-> arcs[last[i]]] /\ \A i \in 1..max : last[i] \in 1..n
    BY <1>9, <2>4, <2>5, <2>6 DEF At
  <2>8. out \in [1..max -> S]
    BY <1>2, <2>7
  <2>9. out \in Seq(S)
    BY <2>8
  <2>10. Limited(arcs) = out
    BY <1>2, <1>3, <1>4, <1>8, <1>11, <2>2, <2>3, <2>6 DEF Limited
  <2> QED BY <1>1, <2>9, <2>10 DEF AirOf
<1> QED BY <1>10, <1>11

\* What goes in the log of a tick.
Entry(there, p, tick) ==
  [message |-> p.message, station |-> p.station, tick |-> tick,
   origin |-> OfId(there.stations, p.station).pos]

LEMMA ToldBroadcast ==
  ASSUME NEW there, NEW p, NEW id \in Int, NEW t \in Int, NEW log, Entry(there, p, t) \in log,
         \E k \in DOMAIN there.stations : p.station = there.stations[k].id
  PROVE  LET arc == Broadcast(OfId(there.stations, p.station), p.message, id, t)
         IN  GoodArc(arc) /\ Told(arc, log, t + 1)
<1>1. PICK station : station = OfId(there.stations, p.station)
  OBVIOUS
<1>2. station.id = p.station
  <2>1. \E k \in DOMAIN there.stations : there.stations[k].id = p.station
    OBVIOUS
  <2>2. PICK k : k = CHOOSE i \in DOMAIN there.stations : there.stations[i].id = p.station
    OBVIOUS
  <2>3. there.stations[k].id = p.station
    BY <2>1, <2>2
  <2> QED BY <1>1, <2>2, <2>3 DEF OfId
<1>3. PICK arc, message : arc = Broadcast(station, message, id, t) /\ message = p.message
  OBVIOUS
<1>4. /\ GoodArc(arc) /\ arc.payload = message /\ arc.origin = station.pos
      /\ arc.inner = 0 /\ arc.outer = Ring /\ arc.source = station.id
  BY <1>3, BroadcastGood
<1>5. PICK s : s = Entry(there, p, t)
  OBVIOUS
<1>6. s.message = message /\ s.station = p.station /\ s.tick = t /\ s.origin = station.pos
  BY <1>1, <1>3, <1>5 DEF Entry
<1>7. PICK u \in Int : u = t + 1 /\ u - 1 - t = 0 /\ u - t = 1
  OBVIOUS
<1>8. arc.inner = (u - 1 - s.tick) * Ring /\ arc.outer = (u - s.tick) * Ring
  <2>1. \A r \in Nat : 0 * r = 0 /\ 1 * r = r
    OBVIOUS
  <2>2. 0 * Ring = 0 /\ 1 * Ring = Ring
    BY <2>1, ArcsAssumption
  <2> QED BY <1>4, <1>6, <1>7, <2>2
<1>9. Told(arc, log, u)
  BY <1>2, <1>4, <1>5, <1>6, <1>8 DEF Told
<1> QED BY <1>1, <1>3, <1>4, <1>7, <1>9

\* What is sent in a tick: beams, broadcasts and plumes.
LEMMA AirEmitted ==
  ASSUME NEW there, NEW beaming, NEW saying, NEW burning, NEW t \in Int, NEW log, next_id \in Int,
         NEW B, beaming \in Seq(B), \A b \in B : b.faces \in Int /\ b.emitter[1] \in EmitterType,
         NEW Q, saying \in Seq(Q), \A p \in Q : \E k \in DOMAIN there.stations : p.station = there.stations[k].id,
         NEW F, burning \in Seq(F), \A f \in F : f.faces \in Int,
         \A p \in ToSet(saying) : Entry(there, p, t) \in log
  PROVE  /\ AirOf(Emitted(there, beaming, saying, burning, t), log, t + 1)
         /\ Len(Emitted(there, beaming, saying, burning, t)) \in Int
<1>1. PICK n \in Nat : n = Len(beaming) /\ DOMAIN beaming = 1..n /\ \A i \in 1..n : beaming[i] \in B
  OBVIOUS
<1>2. PICK m \in Nat : /\ m = Len(saying) /\ DOMAIN saying = 1..m
                      /\ \A i \in 1..m : saying[i] \in Q /\ saying[i] \in ToSet(saying)
  BY DEF ToSet
<1>3. PICK l \in Nat : DOMAIN burning = 1..l /\ \A i \in 1..l : burning[i] \in F
  OBVIOUS
<1>4. PICK id \in Int : id = next_id
  OBVIOUS
<1>5. PICK x, y, z :
        /\ x = [i \in 1..n |-> BeamFrom(beaming[i], id + i - 1, t)]
        /\ y = [i \in 1..m |-> Broadcast(OfId(there.stations, saying[i].station), saying[i].message,
                                         id + n + i - 1, t)]
        /\ z = [i \in 1..l |-> Plume(burning[i], id + (n + m) + i - 1, t)]
  OBVIOUS
<1>6. Emitted(there, beaming, saying, burning, t) = x \o y \o z
  BY <1>1, <1>2, <1>3, <1>4, <1>5 DEF Emitted
<1>7. PICK S : S = {x[i] : i \in 1..n} \cup {y[i] : i \in 1..m} \cup {z[i] : i \in 1..l}
  OBVIOUS
<1>8. x \in Seq(S) /\ y \in Seq(S) /\ z \in Seq(S)
  <2>1. x \in [1..n -> S] /\ y \in [1..m -> S] /\ z \in [1..l -> S]
    BY <1>5, <1>7
  <2> QED BY <2>1
<1>9. \A a : a.payload = Silence => Told(a, log, t + 1)
  BY DEF Told
<1>10. ASSUME NEW i \in 1..n PROVE GoodArc(x[i]) /\ Told(x[i], log, t + 1)
  <2>1. PICK k \in Int, b \in B : k = id + i - 1 /\ b = beaming[i]
    BY <1>1
  <2>2. GoodArc(BeamFrom(b, k, t)) /\ BeamFrom(b, k, t).payload = Silence
    BY BeamGood
  <2>3. x[i] = BeamFrom(b, k, t)
    BY <1>5, <2>1
  <2> QED BY <1>9, <2>2, <2>3
<1>11. ASSUME NEW i \in 1..m PROVE GoodArc(y[i]) /\ Told(y[i], log, t + 1)
  <2>1. PICK k \in Int, p \in Q : k = id + n + i - 1 /\ p = saying[i] /\ p \in ToSet(saying)
    BY <1>2
  <2>2. PICK arc : arc = Broadcast(OfId(there.stations, p.station), p.message, k, t)
    OBVIOUS
  <2>3. Entry(there, p, t) \in log
    BY <2>1
  <2>4. GoodArc(arc) /\ Told(arc, log, t + 1)
    BY <2>2, <2>3, ToldBroadcast
  <2>5. y[i] = arc
    BY <1>5, <2>1, <2>2
  <2> QED BY <2>4, <2>5
<1>12. ASSUME NEW i \in 1..l PROVE GoodArc(z[i]) /\ Told(z[i], log, t + 1)
  <2>1. PICK k \in Int, f \in F : k = id + (n + m) + i - 1 /\ f = burning[i]
    BY <1>3
  <2>2. GoodArc(Plume(f, k, t)) /\ Plume(f, k, t).payload = Silence
    BY PlumeGood
  <2>3. z[i] = Plume(f, k, t)
    BY <1>5, <2>1
  <2> QED BY <1>9, <2>2, <2>3
<1>13. \A a \in S : GoodArc(a) /\ Told(a, log, t + 1)
  BY <1>7, <1>10, <1>11, <1>12
<1>14. x \o y \o z \in Seq(S) /\ Len(x \o y \o z) \in Int
  BY <1>8
<1> QED BY <1>6, <1>13, <1>14 DEF AirOf

(***************************************************************************)
(* The air, tick by tick                                                   *)
(***************************************************************************)

\* All that is known of the air: what is on it, what was heard, and what was sent.
OfTheAir ==
  /\ AirOf(signals, sent, now) /\ Logged(sent)
  /\ next_id \in Int
  /\ \E P : posters \in Seq(P)
  /\ heard = {} \/ heard = UNION {Heard(signals, listener) : listener \in ToSet(Listeners(Here))}

LEMMA PlacesFurnished ==
  ASSUME OnCourse, NEW tick \in 0..(Len(Courses[course]) - 1)
  PROVE  Furnished(Places(tick))
<1>1. Len(Courses[course]) \in Nat /\ DOMAIN Courses[course] = 1..Len(Courses[course])
  BY CoursesAssumption DEF OnCourse
<1>2. tick + 1 \in DOMAIN Courses[course]
  BY <1>1
<1> QED BY <1>2, CoursesAssumption, ThingsAssumption DEF OnCourse, Places, Furnished

LEMMA AirBegins == Init => OfTheAir
<1> SUFFICES ASSUME Init PROVE OfTheAir
  OBVIOUS
<1>1. signals = <<>> /\ posters = <<>> /\ heard = {} /\ sent = {} /\ next_id = FirstId
  BY DEF Init
<1>2. PICK E : E = {}
  OBVIOUS
<1>3. <<>> \in Seq(E) /\ \A a \in E : GoodArc(a) /\ Told(a, sent, now)
  BY <1>2
<1>4. AirOf(signals, sent, now)
  BY <1>1, <1>3 DEF AirOf
<1>5. next_id \in Int
  BY <1>1, ThingsAssumption
<1> QED BY <1>1, <1>3, <1>4, <1>5 DEF OfTheAir, Logged

\* What stations have to say is theirs.
LEMMA UnsentIs ==
  ASSUME NEW there, Standing(there.stations), NEW P, NEW all \in Seq(P)
  PROVE  \E Q : /\ Unsent(there, all) \in Seq(Q)
               /\ \A p \in Q : \E k \in DOMAIN there.stations : p.station = there.stations[k].id
<1>1. PICK n \in Nat : DOMAIN there.stations = 1..n
  BY DEF Standing
<1>2. PICK m \in Nat : DOMAIN all = 1..m
  OBVIOUS
<1> DEFINE Of(k) == {i \in DOMAIN all : /\ all[i].station = there.stations[k].id
                                        /\ ~ all[i].broadcasted}
<1>3. PICK lists : lists = [k \in DOMAIN there.stations |-> Those(all, Of(k))]
  OBVIOUS
<1>4. Unsent(there, all) = FlattenSeq(lists)
  BY <1>3 DEF Unsent
<1>5. PICK Q : Q = UNION {{all[i] : i \in Of(k)} : k \in 1..n}
  OBVIOUS
<1>6. ASSUME NEW k \in 1..n PROVE Those(all, Of(k)) \in Seq(Q)
  <2>1. PICK which : which = Of(k)
    OBVIOUS
  <2>2. which \subseteq DOMAIN all
    BY <2>1
  <2>3. PICK R : R = {all[i] : i \in which}
    OBVIOUS
  <2>4. R \subseteq Q
    BY <1>5, <2>1, <2>3
  <2>5. Those(all, which) \in Seq(R)
    BY <1>2, <2>2, <2>3, ThoseAre
  <2> HIDE DEF Of
  <2> QED BY <2>1, <2>4, <2>5
<1>7. \A p \in Q : \E k \in DOMAIN there.stations : p.station = there.stations[k].id
  BY <1>1, <1>5
<1> HIDE DEF Of
<1>8. lists \in Seq(Seq(Q))
  <2>1. PICK U : U = Seq(Q)
    OBVIOUS
  <2>2. lists \in [1..n -> U]
    BY <1>1, <1>3, <1>6, <2>1
  <2>3. lists \in Seq(U)
    BY <2>2
  <2> QED BY <2>1, <2>3
<1> QED BY <1>4, <1>7, <1>8, FlattenType

LEMMA NewsType ==
  ASSUME NEW news \in NextNews
  PROVE  \E P : news \in Seq(P)
<1>1. PICK N : N = [station : {Here.stations[i].id : i \in DOMAIN Here.stations},
                    message : Fresh, broadcasted : {FALSE}]
  OBVIOUS
<1>2. news \in UNION {[1..n -> N] : n \in 0..MaxNews}
  BY <1>1 DEF NextNews
<1>3. PICK n \in 0..MaxNews : news \in [1..n -> N]
  BY <1>2
<1>4. n \in Nat
  BY ThingsAssumption
<1>5. news \in Seq(N)
  BY <1>3, <1>4
<1> QED BY <1>5

\* One tick with all its posters and orders.
LEMMA AirInStep ==
  ASSUME OnCourse, OfTheAir, now + 1 < Len(Courses[course]),
         NEW news, \E P : news \in Seq(P), NEW firing, NEW beaming, Step(news, firing, beaming)
  PROVE  OfTheAir'
<1>1. PICK t \in Int : t = now /\ t \in 0..(Len(Courses[course]) - 1) /\ t + 1 \in 0..(Len(Courses[course]) - 1)
  <2>1. Len(Courses[course]) \in Nat
    BY CoursesAssumption DEF OnCourse
  <2>2. now \in 0..(Len(Courses[course]) - 1)
    BY DEF OnCourse
  <2> QED BY <2>1, <2>2
<1>2. PICK there, cut, all : /\ there = Places(now + 1)
                            /\ cut = ClippedAll(Propagated(signals), there.bodies, there.ships)
                            /\ all = posters \o news
  OBVIOUS
<1>3. StepWith(there, cut, all, firing, beaming)
  BY <1>2 DEF Step
<1>4. Furnished(there)
  BY <1>1, <1>2, PlacesFurnished
<1>5. Furnished(Here)
  BY <1>1, PlacesFurnished DEF Here
<1>6. PICK A : all \in Seq(A)
  <2>1. PICK P : posters \in Seq(P)
    BY DEF OfTheAir
  <2>2. PICK N : news \in Seq(N)
    OBVIOUS
  <2>3. PICK A : A = P \cup N
    OBVIOUS
  <2>4. posters \in Seq(A) /\ news \in Seq(A)
    <3>1. P \subseteq A /\ N \subseteq A
      BY <2>3
    <3> QED BY <2>1, <2>2, <3>1
  <2>5. all \in Seq(A)
    BY <1>2, <2>4
  <2> QED BY <2>5
<1>7. PICK saying : saying = Unsent(there, all)
  OBVIOUS
<1>8. PICK Q : /\ saying \in Seq(Q)
              /\ \A p \in Q : \E k \in DOMAIN there.stations : p.station = there.stations[k].id
  BY <1>4, <1>6, <1>7, UnsentIs DEF Furnished
<1>9. PICK on, fires :
        /\ on = {i \in DOMAIN there.ships : there.ships[i].id \in beaming /\ there.ships[i].emitter # <<>>}
        /\ fires = {i \in DOMAIN Here.ships : Here.ships[i].id \in firing}
  OBVIOUS
<1>10. PICK beams, burning : beams = Those(there.ships, on) /\ burning = Those(Here.ships, fires)
  OBVIOUS
<1>11. PICK B : beams \in Seq(B) /\ \A b \in B : b.faces \in Int /\ b.emitter[1] \in EmitterType
  <2>1. PICK n \in Nat : DOMAIN there.ships = 1..n
    BY <1>4 DEF Furnished, Standing
  <2>2. PICK B : B = {there.ships[i] : i \in on}
    OBVIOUS
  <2>3. on \subseteq DOMAIN there.ships
    BY <1>9
  <2>4. beams \in Seq(B)
    BY <1>10, <2>1, <2>2, <2>3, ThoseAre
  <2>5. \A i \in on : there.ships[i].faces \in Int /\ there.ships[i].emitter[1] \in EmitterType
    BY <1>4, <1>9 DEF Furnished
  <2> QED BY <2>2, <2>4, <2>5
<1>12. PICK F : burning \in Seq(F) /\ \A f \in F : f.faces \in Int
  <2>1. PICK n \in Nat : DOMAIN Here.ships = 1..n
    BY <1>5 DEF Furnished, Standing
  <2>2. PICK F : F = {Here.ships[i] : i \in fires}
    OBVIOUS
  <2>3. fires \subseteq DOMAIN Here.ships
    BY <1>9
  <2>4. burning \in Seq(F)
    BY <1>10, <2>1, <2>2, <2>3, ThoseAre
  <2>5. \A i \in fires : Here.ships[i].faces \in Int
    BY <1>5, <1>9 DEF Furnished
  <2> QED BY <2>2, <2>4, <2>5
<1>13. PICK log : log = sent'
  OBVIOUS
<1>14. log = sent \cup {Entry(there, p, t) : p \in ToSet(saying)}
  BY <1>1, <1>3, <1>7, <1>13 DEF StepWith, RecordSent, Entry
<1>15. Logged(sent) /\ Logged(log)
  <2>1. \A p : Entry(there, p, t).tick \in Int
    BY DEF Entry
  <2>2. Logged(sent)
    BY DEF OfTheAir
  <2> QED BY <1>14, <2>1, <2>2 DEF Logged
<1>16. PICK flying, emitted : /\ flying = Flying(cut, there)
                             /\ emitted = Emitted(there, beams, saying, burning, t)
  OBVIOUS
<1>17. AirOf(flying, log, t + 1)
  <2>1. PICK arcs : arcs = Propagated(signals)
    OBVIOUS
  <2>2. AirOf(arcs, sent, t + 1)
    BY <1>1, <1>15, <2>1, AirPropagated DEF OfTheAir
  <2>3. sent \subseteq log
    BY <1>14
  <2>4. PICK u : u = t + 1
    OBVIOUS
  <2>5. AirOf(arcs, log, u)
    BY <2>2, <2>3, <2>4, AirLater
  <2>6. AirOf(cut.remaining, log, u) /\ AirOf(cut.reflected, log, u)
    BY <1>2, <1>4, <2>1, <2>5, AirCut
  <2>7. AirOf(flying, log, u)
    BY <1>16, <2>6, AirFlying
  <2> QED BY <2>4, <2>7
<1>18. AirOf(emitted, log, t + 1) /\ Len(emitted) \in Int
  <2>1. \A p \in ToSet(saying) : Entry(there, p, t) \in log
    BY <1>14
  <2>2. next_id \in Int
    BY DEF OfTheAir
  <2> QED BY <1>8, <1>11, <1>12, <1>16, <2>1, <2>2, AirEmitted
<1>19. Air(flying, emitted)
  BY <1>1, <1>3, <1>7, <1>9, <1>10, <1>16 DEF StepWith
<1>20. signals' = Limited(flying \o emitted) /\ next_id' = next_id + Len(emitted)
  BY <1>19 DEF Air
<1>21. AirOf(signals', log, t + 1)
  <2>1. PICK u : u = t + 1
    OBVIOUS
  <2>2. AirOf(flying \o emitted, log, u)
    BY <1>17, <1>18, <2>1, AirTogether
  <2>3. AirOf(Limited(flying \o emitted), log, u)
    BY <2>2, AirLimited
  <2> QED BY <1>20, <2>1, <2>3
<1>22. now' = t + 1 /\ course' = course
  BY <1>1, <1>3 DEF StepWith
<1>23. AirOf(signals', sent', now') /\ Logged(sent')
  BY <1>13, <1>15, <1>21, <1>22
<1>24. next_id' \in Int
  BY <1>18, <1>20 DEF OfTheAir
<1>25. \E P : posters' \in Seq(P)
  <2>1. PICK n \in Nat : DOMAIN all = 1..n
    BY <1>6
  <2>2. PICK new : new = posters'
    OBVIOUS
  <2>3. new = [i \in 1..n |-> [all[i] EXCEPT !.broadcasted = TRUE]]
    BY <1>3, <2>1, <2>2 DEF StepWith
  <2>4. PICK P : P = {new[i] : i \in 1..n}
    OBVIOUS
  <2>5. new \in [1..n -> P]
    BY <2>3, <2>4
  <2>6. new \in Seq(P)
    BY <2>5
  <2> QED BY <2>2, <2>6
<1>26. heard' = UNION {Heard(signals', listener) : listener \in ToSet(Listeners(there))}
  BY <1>3 DEF StepWith
<1>27. Here' = there
  BY <1>1, <1>2, <1>22 DEF Here, Places
<1>28. heard' = UNION {Heard(signals', listener) : listener \in ToSet(Listeners(Here'))}
  BY <1>26, <1>27
<1> QED BY <1>23, <1>24, <1>25, <1>28 DEF OfTheAir

LEMMA AirGoesOn ==
  ASSUME OnCourse, OfTheAir, [Next]_vars
  PROVE  OfTheAir'
<1>1. CASE UNCHANGED vars
  <2>1. /\ signals' = signals /\ sent' = sent /\ now' = now /\ next_id' = next_id
        /\ posters' = posters /\ heard' = heard /\ course' = course
    BY <1>1 DEF vars
  <2>2. Here' = Here
    BY <2>1 DEF Here, Places
  <2> QED BY <2>1, <2>2 DEF OfTheAir
<1>2. CASE Next
  <2>1. PICK news \in NextNews, order \in Orders :
          now + 1 < Len(Courses[course]) /\ Step(news, order.firing, order.beaming)
    BY <1>2 DEF Next
  <2>2. \E P : news \in Seq(P)
    BY NewsType
  <2> QED BY <2>1, <2>2, AirInStep
<1> QED BY <1>1, <1>2

LEMMA AirStaysSo == Spec => []OfTheAir
<1> QED BY AirBegins, AirGoesOn, StaysOnCourse, PTL DEF Spec

\* However obstacles overlap, and whatever there is on a course: what is cut from
\* an arc and what is left cover its sector without gap or overlap, the cut parts
\* are just where angular_occlusion puts the obstacles, mirrored as it does, and
\* bring no more power to them than the arc has - except that an arc across the
\* angle of half a turn is not cut at all (clip_arc, union_intervals,
\* add_clipped_interval and subtract_intervals in signal.rs).
THEOREM PiecesAlwaysTile == Spec => []PiecesTile
<1>1. ASSUME OnCourse, OfTheAir PROVE PiecesTile
  <2> SUFFICES ASSUME NEW k \in DOMAIN signals
               PROVE  \A arc \in {Spread(signals[k])} :
                        \A obstacles \in {Obstacles(arc, Here.bodies, Here.ships)} :
                          /\ \A occluded \in {Occluded(arc, obstacles)} :
                               /\ Covered(occluded) = IF CrossesHalfTurn(arc) THEN {}
                                                      ELSE MirroredShadow(arc, obstacles)
                               /\ Tiles(occluded \o Visible(arc, occluded), arc)
                          /\ Spares(Clipped(arc, obstacles), arc)
    BY DEF PiecesTile
  <2>1. PICK arc : arc = Spread(signals[k])
    OBVIOUS
  <2>2. PICK S : signals \in Seq(S) /\ \A a \in S : GoodArc(a)
    BY <1>1 DEF OfTheAir, AirOf
  <2>3. GoodArc(arc)
    BY <2>1, <2>2, SpreadGood
  <2>4. PICK bs, ss, obstacles : /\ bs = Here.bodies /\ ss = Here.ships
                                /\ obstacles = Obstacles(arc, bs, ss)
    OBVIOUS
  <2>5. Standing(bs) /\ Standing(ss) /\ \A i \in DOMAIN bs : bs[i].albedo \in PowerType
    <3>1. Furnished(Here)
      BY <1>1, PlacesFurnished DEF Here, OnCourse
    <3> QED BY <2>4, <3>1 DEF Furnished
  <2>6. PICK T : obstacles \in Seq(T) /\ \A s \in T : s.albedo \in PowerType
    BY <2>4, <2>5, ObstaclesType
  <2>7. PICK occluded : occluded = Occluded(arc, obstacles)
    OBVIOUS
  <2>8. Tiles(occluded \o Visible(arc, occluded), arc)
    BY <2>3, <2>6, <2>7, PiecesTileSector
  <2>9. Spares(Clipped(arc, obstacles), arc)
    BY <2>3, <2>6, ClippedIs DEF CutOf
  <2>10. Covered(occluded) = IF CrossesHalfTurn(arc) THEN {} ELSE MirroredShadow(arc, obstacles)
    <3>1. arc.from \in Int /\ arc.to \in Int
      BY <2>3 DEF GoodArc
    <3> QED BY <2>6, <2>7, <3>1, CoveredIsShadow
  <2> QED BY <2>1, <2>4, <2>7, <2>8, <2>9, <2>10
<1>2. OnCourse /\ OfTheAir => PiecesTile
  BY <1>1
<1> QED BY <1>2, StaysOnCourse, AirStaysSo, PTL

\* Who is heard has a ring over the listener.
LEMMA OverIsOver ==
  ASSUME NEW n \in Nat, NEW arcs, DOMAIN arcs = 1..n,
         \A i \in DOMAIN arcs : arcs[i].origin \in PointType /\ arcs[i].outer \in Int,
         NEW listener, NEW i \in Over(arcs, listener)
  PROVE  /\ i \in DOMAIN arcs
         /\ Length(Minus(listener.pos, arcs[i].origin)) >= arcs[i].inner
         /\ Length(Minus(listener.pos, arcs[i].origin)) <= arcs[i].outer
<1>1. PICK rings : rings = [j \in DOMAIN arcs |-> CircleBox(arcs[j].origin, arcs[j].outer)]
  OBVIOUS
<1>2. rings \in Seq(BoxType) /\ DOMAIN rings = 1..n
  <2>1. rings \in [1..n -> BoxType]
    BY <1>1, CircleIsBox
  <2> QED BY <2>1
<1>3. PICK region : region = CircleBox(listener.pos, 1)
  OBVIOUS
<1>4. PICK found : found = Query(Built(rings, SignalNode), region)
  OBVIOUS
<1>5. /\ i \in ToSet(found)
      /\ Length(Minus(listener.pos, arcs[i].origin)) >= arcs[i].inner
      /\ Length(Minus(listener.pos, arcs[i].origin)) <= arcs[i].outer
  BY <1>1, <1>3, <1>4 DEF Over
<1>6. found \in Seq(1..n)
  <2>1. Holds(Built(rings, SignalNode), rings, DOMAIN rings)
    BY <1>2, BuiltHolds
  <2> QED BY <1>2, <1>4, <2>1, QueryType
<1>7. ToSet(found) \subseteq 1..n
  BY <1>6, OfItsOwn
<1> QED BY <1>5, <1>7

\* Whatever stands in the way and however often an arc was cut: a message that was
\* not thrown back is heard when light from where it was sent comes, neither
\* earlier nor later (compute_sensor_detections in sensor.rs, propagate and
\* clip_arc in signal.rs, emit_market_broadcasts in station.rs).  As above, what
\* is on the air has an origin.
THEOREM HeardAtTheSpeedOfLight == Spec => [](OnAir => AtTheSpeedOfLight)
<1>1. ASSUME OnCourse, OfTheAir, OnAir PROVE AtTheSpeedOfLight
  <2> SUFFICES ASSUME NEW h \in heard, h.generation = 0
               PROVE  \E s \in sent, listener \in ToSet(Listeners(Here)) :
                        /\ s.message = h.message /\ s.station = h.source /\ listener.id = h.listener
                        /\ RingOver(s, Distance(listener, s))
    BY DEF AtTheSpeedOfLight
  <2>1. heard = UNION {Heard(signals, listener) : listener \in ToSet(Listeners(Here))}
    BY <1>1 DEF OfTheAir
  <2>2. PICK listener \in ToSet(Listeners(Here)) : h \in Heard(signals, listener)
    BY <2>1
  <2>3. PICK i \in Over(signals, listener) :
          /\ h = [listener |-> listener.id, message |-> signals[i].payload, source |-> signals[i].source,
                  generation |-> signals[i].generation,
                  dist |-> Length(Minus(listener.pos, signals[i].origin))]
          /\ signals[i].payload # Silence
    BY <2>2 DEF Heard
  <2>4. PICK a : a = signals[i]
    OBVIOUS
  <2>5. /\ i \in DOMAIN signals
        /\ Length(Minus(listener.pos, a.origin)) >= a.inner
        /\ Length(Minus(listener.pos, a.origin)) <= a.outer
    <3>1. PICK n \in Nat : DOMAIN signals = 1..n
      BY <1>1 DEF OnAir
    <3> QED BY <1>1, <2>4, <3>1, OverIsOver DEF OnAir
  <2>6. PICK S : signals \in Seq(S) /\ \A x \in S : Told(x, sent, now)
    BY <1>1 DEF OfTheAir, AirOf
  <2>7. Told(a, sent, now)
    BY <2>4, <2>5, <2>6
  <2>8. /\ h.listener = listener.id /\ h.message = a.payload /\ h.source = a.source
        /\ h.generation = a.generation /\ a.payload # Silence
    BY <2>3, <2>4
  <2>9. PICK s \in sent : /\ s.message = a.payload /\ s.station = a.source /\ s.origin = a.origin
                          /\ a.inner = (now - 1 - s.tick) * Ring /\ a.outer = (now - s.tick) * Ring
    BY <2>7, <2>8 DEF Told
  <2>10. PICK d : d = Length(Minus(listener.pos, a.origin))
    OBVIOUS
  <2>11. Distance(listener, s) = d
    BY <2>9, <2>10 DEF Distance
  <2>12. RingOver(s, d)
    <3>1. PICK x \in Int, y \in Int : x = a.inner /\ y = a.outer
      <4>1. now - 1 - s.tick \in Int /\ now - s.tick \in Int
        BY <1>1 DEF OfTheAir, Logged, OnCourse
      <4>2. (now - 1 - s.tick) * Ring \in Int /\ (now - s.tick) * Ring \in Int
        BY <4>1, OneTickOn
      <4> QED BY <2>9, <4>2
    <3>2. d >= x /\ d <= y
      BY <2>5, <2>10, <3>1
    <3>3. x <= d
      BY <3>2
    <3> QED BY <2>9, <3>1, <3>2, <3>3 DEF RingOver
  <2> QED BY <2>2, <2>8, <2>9, <2>11, <2>12
<1>2. OnCourse /\ OfTheAir => (OnAir => AtTheSpeedOfLight)
  BY <1>1
<1> QED BY <1>2, StaysOnCourse, AirStaysSo, PTL

================================================================================
