----------------------------- MODULE OrderProofs -----------------------------
(***************************************************************************)
(* The order stays one of the program: as it is made, and whatever is      *)
(* moved, relabelled and joined.  So its questions are answered exactly.   *)
(***************************************************************************)
EXTENDS TopoProofs, FiniteSetTheorems, WellFoundedInduction

------------------------------------------------------------------------------
(* Induction                                                                *)

\* A set of naturals has a least one.
LEMMA LeastOf ==
    ASSUME NEW S \in SUBSET Nat, S # {}
    PROVE  \E m \in S : \A i \in S : m <= i
  <1> DEFINE R == OpToRel(<, Nat)
  <1>1. IsWellFoundedOn(R, Nat)
    BY NatLessThanWellFounded
  <1>2. \A i, j \in Nat : <<j, i>> \in R <=> j < i
    BY DEF OpToRel
  <1> HIDE DEF R
  <1>3. PICK m \in S : \A i \in S : ~(<<i, m>> \in R)
    <2>1. \E x \in S : \A y \in S : ~(<<y, x>> \in R)
      BY <1>1, WFMin
    <2>2. QED
      BY <2>1
  <1>4. ASSUME NEW i \in S
        PROVE  m <= i
    <2>1. i \in Nat /\ m \in Nat /\ ~(<<i, m>> \in R)
      BY <1>3
    <2>2. ~(i < m)
      BY <1>2, <2>1
    <2>3. QED
      BY <2>1, <2>2
  <1>5. QED
    BY <1>4

\* What holds first and of each after the one before it holds of all.
LEMMA Inductive ==
    ASSUME NEW n \in Nat, NEW S, 0 \in S, \A i \in 1..n : i - 1 \in S => i \in S
    PROVE  0..n \subseteq S
  <1> SUFFICES ASSUME (0..n) \ S # {}
               PROVE  FALSE
    OBVIOUS
  <1>1. PICK m \in (0..n) \ S : \A i \in (0..n) \ S : m <= i
    <2> DEFINE out == (0..n) \ S
    <2>1. out \in SUBSET Nat /\ out # {}
      OBVIOUS
    <2> HIDE DEF out
    <2>2. \E m \in out : \A i \in out : m <= i
      BY <2>1, LeastOf
    <2>3. QED
      BY <2>2 DEF out
  <1>2. m \in 1..n
    BY <1>1
  <1>3. m - 1 \in 0..n /\ m - 1 \in S
    BY <1>1, <1>2
  <1>4. QED
    BY <1>1, <1>2, <1>3

\* A function each of whose values is had from the one before it stays in
\* what leads from there on.
LEMMA StaysIn ==
    ASSUME NEW n \in Nat, NEW D, NEW f, f[0] \in D[0],
           \A i \in 1..n : f[i - 1] \in D[i - 1] => f[i] \in D[i]
    PROVE  \A i \in 0..n : f[i] \in D[i]
  <1> DEFINE S == {i \in 0..n : f[i] \in D[i]}
  <1>1. 0 \in S
    OBVIOUS
  <1>2. ASSUME NEW i \in 1..n, i - 1 \in S
        PROVE  i \in S
    BY <1>2
  <1> HIDE DEF S
  <1>3. 0..n \subseteq S
    BY <1>1, <1>2, Inductive
  <1>4. QED
    BY <1>3 DEF S

\* f begins at d, and each of its values comes next after the one before it.
Iterates(f, n, d, next) == f = [i \in 0..n |-> IF i = 0 THEN d ELSE next[i][f[i - 1]]]

\* There is such a function.
LEMMA Recursive ==
    ASSUME NEW n \in Nat, NEW d, NEW next
    PROVE  \E f : Iterates(f, n, d, next)
  <1> DEFINE Upto(f, m) == Iterates(f, m, d, next)
             S == {m \in 0..n : \E f : Upto(f, m)}
  <1>1. 0 \in S
    <2>1. Upto([i \in 0..0 |-> d], 0)
      BY DEF Iterates
    <2> HIDE DEF Upto
    <2>2. QED
      BY <2>1
  <1>2. ASSUME NEW m \in 1..n, m - 1 \in S
        PROVE  m \in S
    <2>1. PICK f : Upto(f, m - 1)
      BY <1>2
    <2> DEFINE g == [i \in 0..m |-> IF i = m THEN next[m][f[m - 1]] ELSE f[i]]
    <2>2. ASSUME NEW i \in 0..m
          PROVE  g[i] = IF i = 0 THEN d ELSE next[i][g[i - 1]]
      <3>1. CASE i = m
        BY <3>1
      <3>2. CASE i # m
        <4>1. i \in 0..(m - 1) /\ (i # 0 => i - 1 \in 0..m /\ i - 1 # m)
          BY <3>2
        <4>2. f[i] = IF i = 0 THEN d ELSE next[i][f[i - 1]]
          BY <2>1, <4>1 DEF Iterates
        <4>3. QED
          BY <3>2, <4>1, <4>2
      <3>3. QED
        BY <3>1, <3>2
    <2>3. Upto(g, m)
      <3> DEFINE h == [i \in 0..m |-> IF i = 0 THEN d ELSE next[i][g[i - 1]]]
      <3>1. \A i \in 0..m : g[i] = h[i]
        BY <2>2
      <3>2. g = h
        BY <3>1
      <3>3. QED
        BY <3>2 DEF Iterates
    <2> HIDE DEF g, Upto
    <2>4. QED
      BY <2>3
  <1> HIDE DEF S
  <1>3. 0..n \subseteq S
    BY <1>1, <1>2, Inductive
  <1>4. n \in S
    BY <1>3
  <1>5. QED
    BY <1>4 DEF S

------------------------------------------------------------------------------
(* Ranks                                                                    *)

\* Ranks count from one, and are ordered as the keys are.
LEMMA RanksOrder ==
    ASSUME NEW S, IsFiniteSet(S), NEW key, \A v \in S : key[v] \in Int,
           NEW v \in S, NEW w \in S
    PROVE  /\ Rank(S, key, v) \in 1..Cardinality(S)
           /\ key[v] < key[w] <=> Rank(S, key, v) < Rank(S, key, w)
  <1> DEFINE Upto(x) == {y \in S : key[y] <= key[x]}
  <1>1. \A x \in S : /\ IsFiniteSet(Upto(x)) /\ Upto(x) \in SUBSET S
                     /\ Cardinality(Upto(x)) \in Nat
                     /\ Cardinality(Upto(x)) <= Cardinality(S) /\ Cardinality(Upto(x)) # 0
    <2>1. ASSUME NEW x \in S
          PROVE  /\ IsFiniteSet(Upto(x)) /\ Upto(x) \in SUBSET S
                 /\ Cardinality(Upto(x)) \in Nat
                 /\ Cardinality(Upto(x)) <= Cardinality(S) /\ Cardinality(Upto(x)) # 0
      <3>1. Upto(x) \in SUBSET S /\ x \in Upto(x)
        OBVIOUS
      <3> HIDE DEF Upto
      <3>2. IsFiniteSet(Upto(x)) /\ Cardinality(Upto(x)) <= Cardinality(S)
        BY <3>1, FS_Subset
      <3>3. QED
        BY <3>1, <3>2, FS_CardinalityType, FS_EmptySet
    <2>2. QED
      BY <2>1
  <1>2. \A x, y \in S : Cardinality(Upto(x)) \in Nat /\ Cardinality(Upto(y)) \in Nat
    BY <1>1
  <1>3. ASSUME NEW x \in S, NEW y \in S, key[x] < key[y]
        PROVE  Cardinality(Upto(x)) < Cardinality(Upto(y))
    <2>1. key[x] \in Int /\ key[y] \in Int
      OBVIOUS
    <2>2. Upto(x) \in SUBSET Upto(y) /\ y \in Upto(y) /\ y \notin Upto(x)
      BY <1>3, <2>1
    <2> HIDE DEF Upto
    <2>3. /\ Cardinality(Upto(x)) <= Cardinality(Upto(y))
          /\ Cardinality(Upto(y)) # Cardinality(Upto(x))
      BY <1>1, <2>2, FS_Subset
    <2>4. QED
      BY <1>1, <2>3
  <1>4. ASSUME NEW x \in S, NEW y \in S, key[x] = key[y]
        PROVE  Cardinality(Upto(x)) = Cardinality(Upto(y))
    BY <1>4
  <1>5. key[v] \in Int /\ key[w] \in Int
    OBVIOUS
  <1>6. Rank(S, key, v) = Cardinality(Upto(v)) /\ Rank(S, key, w) = Cardinality(Upto(w))
    BY DEF Rank
  <1>7. Cardinality(S) \in Nat
    BY FS_CardinalityType
  <1> HIDE DEF Upto
  <1>8. key[v] < key[w] \/ key[v] = key[w] \/ key[w] < key[v]
    BY <1>5
  <1>9. QED
    BY <1>1, <1>2, <1>3, <1>4, <1>5, <1>6, <1>7, <1>8

\* Each number up to theirs is the rank of one.
LEMMA RanksFill ==
    ASSUME NEW S, IsFiniteSet(S), NEW key, \A v \in S : key[v] \in Int,
           \A v, w \in S : key[v] = key[w] => v = w,
           NEW q \in 1..Cardinality(S)
    PROVE  \E v \in S : Rank(S, key, v) = q
  <1> DEFINE n == Cardinality(S)
             f == [v \in S |-> Rank(S, key, v)]
  <1>1. n \in Nat
    BY FS_CardinalityType
  <1>2. IsFiniteSet(1..n) /\ Cardinality(1..n) = n
    <2> HIDE DEF n
    <2>1. QED
      BY <1>1, FS_Interval
  <1>3. \A v \in S : Rank(S, key, v) \in 1..n
    BY RanksOrder
  <1>4. \A v, w \in S : Rank(S, key, v) = Rank(S, key, w) => v = w
    <2>1. ASSUME NEW v \in S, NEW w \in S, Rank(S, key, v) = Rank(S, key, w)
          PROVE  v = w
      <3>1. key[v] \in Int /\ key[w] \in Int
        OBVIOUS
      <3>2. Rank(S, key, v) \in Int /\ Rank(S, key, w) \in Int
        BY <1>3
      <3>3. ~(key[v] < key[w]) /\ ~(key[w] < key[v])
        BY <2>1, <3>2, RanksOrder
      <3>4. key[v] = key[w]
        BY <3>1, <3>3
      <3>5. QED
        BY <3>4
    <2>2. QED
      BY <2>1
  <1>5. f \in Injection(S, 1..n)
    BY <1>3, <1>4 DEF Injection, IsInjective
  <1> HIDE DEF f
  <1>6. f \in Surjection(S, 1..n)
    BY <1>2, <1>5, FS_Injection
  <1>7. QED
    BY <1>6 DEF Surjection, f

\* What is sorted is all there, once, in the order of its keys.
LEMMA SortedSorts ==
    ASSUME NEW S, IsFiniteSet(S), NEW key, \A v \in S : key[v] \in Int,
           \A v, w \in S : key[v] = key[w] => v = w
    PROVE  /\ Sorted(S, key) \in Seq(S) /\ Len(Sorted(S, key)) = Cardinality(S)
           /\ ToSet(Sorted(S, key)) = S
           /\ \A q, r \in DOMAIN Sorted(S, key) :
                 q < r => key[Sorted(S, key)[q]] < key[Sorted(S, key)[r]]
  <1> DEFINE n == Cardinality(S)
             at(q) == CHOOSE v \in S : Rank(S, key, v) = q
             sorted == Sorted(S, key)
  <1>1. n \in Nat
    BY FS_CardinalityType
  <1>2. sorted = [q \in 1..n |-> at(q)]
    BY DEF Sorted
  <1>3. \A q \in 1..n : at(q) \in S /\ Rank(S, key, at(q)) = q
    BY RanksFill
  <1> HIDE DEF n, sorted, at
  <1>4. sorted \in Seq(S) /\ Len(sorted) = n /\ DOMAIN sorted = 1..n /\ \A q \in 1..n : sorted[q] = at(q)
    BY <1>1, <1>2, <1>3
  <1>5. ASSUME NEW v \in S
        PROVE  \E q \in 1..n : sorted[q] = v
    <2> DEFINE q == Rank(S, key, v)
    <2>1. q \in 1..n
      BY RanksOrder DEF n
    <2>2. at(q) \in S /\ Rank(S, key, at(q)) = q
      BY <1>3, <2>1
    <2>3. key[at(q)] \in Int /\ key[v] \in Int
      BY <2>2
    <2>4. ~(key[at(q)] < key[v]) /\ ~(key[v] < key[at(q)])
      BY <1>1, <2>1, <2>2, RanksOrder
    <2>5. at(q) = v
      BY <2>2, <2>3, <2>4
    <2>6. QED
      BY <1>4, <2>1, <2>5
  <1>6. ToSet(sorted) = S
    BY <1>3, <1>4, <1>5 DEF ToSet
  <1>7. ASSUME NEW q \in 1..n, NEW r \in 1..n, q < r
        PROVE  key[sorted[q]] < key[sorted[r]]
    BY <1>3, <1>4, <1>7, RanksOrder
  <1>8. QED
    BY <1>4, <1>6, <1>7 DEF n, sorted

\* A finite set of numbers, ascending.
LEMMA AscendingSorts ==
    ASSUME NEW S \in SUBSET Int, IsFiniteSet(S)
    PROVE  /\ Ascending(S) \in Seq(S) /\ Len(Ascending(S)) = Cardinality(S)
           /\ ToSet(Ascending(S)) = S
           /\ \A q, r \in DOMAIN Ascending(S) : q < r => Ascending(S)[q] < Ascending(S)[r]
  <1> DEFINE key == [x \in S |-> x]
  <1>1. Ascending(S) = Sorted(S, key)
    BY DEF Ascending
  <1>2. \A x \in S : key[x] = x /\ key[x] \in Int
    OBVIOUS
  <1> HIDE DEF key
  <1>3. /\ Sorted(S, key) \in Seq(S) /\ Len(Sorted(S, key)) = Cardinality(S)
        /\ ToSet(Sorted(S, key)) = S
        /\ \A q, r \in DOMAIN Sorted(S, key) :
              q < r => key[Sorted(S, key)[q]] < key[Sorted(S, key)[r]]
    BY <1>2, SortedSorts
  <1>4. \A q \in DOMAIN Sorted(S, key) : Sorted(S, key)[q] \in S
    BY <1>3
  <1>5. QED
    BY <1>1, <1>2, <1>3, <1>4

\* The places of what of a sequence lies in a set.
TakenAt(seq, G, at) ==
    /\ Those(seq, G) = [i \in DOMAIN at |-> seq[at[i]]]
    /\ \A i \in DOMAIN at : seq[at[i]] \in G
    /\ \A i, j \in DOMAIN at : i < j => at[i] < at[j]
    /\ \A q \in DOMAIN seq : seq[q] \in G => \E i \in DOMAIN at : at[i] = q

\* There they are, in the order it was in.
LEMMA ThoseOf ==
    ASSUME NEW T, NEW seq \in Seq(T), NEW G
    PROVE  \E at \in Seq(DOMAIN seq) : TakenAt(seq, G, at)
  <1> DEFINE P == {q \in DOMAIN seq : seq[q] \in G}
             at == Ascending(P)
  <1>1. Len(seq) \in Nat /\ DOMAIN seq = 1..Len(seq)
    OBVIOUS
  <1>2. P \in SUBSET (1..Len(seq)) /\ P \in SUBSET Int
    BY <1>1
  <1>3. IsFiniteSet(P)
    <2>1. IsFiniteSet(1..Len(seq))
      BY <1>1, FS_Interval
    <2> HIDE DEF P
    <2>2. QED
      BY <1>2, <2>1, FS_Subset
  <1>4. Those(seq, G) = [i \in DOMAIN at |-> seq[at[i]]]
    BY DEF Those
  <1>5. /\ at \in Seq(P) /\ ToSet(at) = P
        /\ \A i, j \in DOMAIN at : i < j => at[i] < at[j]
    <2> HIDE DEF P
    <2>1. QED
      BY <1>2, <1>3, AscendingSorts
  <1>6. at \in Seq(DOMAIN seq)
    <2>1. P \subseteq DOMAIN seq
      OBVIOUS
    <2> HIDE DEF P
    <2>2. QED
      BY <1>5, <2>1, SeqMonotonic
  <1>7. \A i \in DOMAIN at : at[i] \in P
    BY <1>5
  <1>8. \A q \in P : \E i \in DOMAIN at : at[i] = q
    <2> HIDE DEF P, at
    <2>1. QED
      BY <1>5 DEF ToSet
  <1>9. \A i \in DOMAIN at : seq[at[i]] \in G
    BY <1>7
  <1>10. \A q \in DOMAIN seq : seq[q] \in G => \E i \in DOMAIN at : at[i] = q
    BY <1>8
  <1> HIDE DEF at
  <1>11. QED
    BY <1>4, <1>5, <1>6, <1>9, <1>10 DEF TakenAt

\* What of it is there.
LEMMA ThoseMembers ==
    ASSUME NEW T, NEW seq \in Seq(T), NEW G
    PROVE  Those(seq, G) \in Seq(T \cap G) /\ ToSet(Those(seq, G)) = ToSet(seq) \cap G
  <1>1. PICK at \in Seq(DOMAIN seq) : TakenAt(seq, G, at)
    BY ThoseOf
  <1>2. Len(at) \in Nat /\ DOMAIN at = 1..Len(at) /\ \A i \in DOMAIN at : at[i] \in DOMAIN seq
    OBVIOUS
  <1>3. \A i \in DOMAIN at : seq[at[i]] \in T \cap G
    BY <1>1, <1>2 DEF TakenAt
  <1>4. Those(seq, G) \in Seq(T \cap G)
    BY <1>1, <1>2, <1>3 DEF TakenAt
  <1>5. ToSet(Those(seq, G)) \subseteq ToSet(seq) \cap G
    BY <1>1, <1>2 DEF ToSet, TakenAt
  <1>6. ToSet(seq) \cap G \subseteq ToSet(Those(seq, G))
    <2>1. ASSUME NEW q \in DOMAIN seq, seq[q] \in G
          PROVE  \E i \in DOMAIN Those(seq, G) : Those(seq, G)[i] = seq[q]
      BY <1>1, <2>1 DEF TakenAt
    <2>2. QED
      BY <2>1 DEF ToSet
  <1>7. QED
    BY <1>4, <1>5, <1>6

------------------------------------------------------------------------------
(* Powers                                                                   *)

\* Each power is the base times the one before it.
LEMMA PowersOf ==
    ASSUME NEW b \in Nat
    PROVE  /\ Powers(b) \in [0..LabelBits -> Nat] /\ Powers(b)[0] = 1
           /\ \A i \in 1..LabelBits : Powers(b)[i] = b * Powers(b)[i - 1]
  <1> DEFINE L == LabelBits
             next == [i \in 1..L |-> [x \in Nat |-> b * x]]
             IsPower(f) == f = [i \in 0..L |-> IF i = 0 THEN 1 ELSE b * f[i - 1]]
  <1>1. L \in Nat
    BY TopoAssumption
  <1>2. PICK f : Iterates(f, L, 1, next)
    <2> HIDE DEF next, L
    <2>1. QED
      BY <1>1, Recursive
  <1>3. ASSUME NEW g, g[0] = 1, \A i \in 1..L : g[i - 1] \in Nat => g[i] \in Nat
        PROVE  \A i \in 0..L : g[i] \in Nat
    <2> DEFINE D == [i \in 0..L |-> Nat]
    <2>1. g[0] \in D[0] /\ \A i \in 1..L : g[i - 1] \in D[i - 1] => g[i] \in D[i]
      BY <1>1, <1>3
    <2> HIDE DEF D
    <2>2. \A i \in 0..L : g[i] \in D[i]
      BY <1>1, <2>1, StaysIn
    <2>3. QED
      BY <2>2 DEF D
  <1>4. \A i \in 0..L : f[i] \in Nat
    <2>1. f[0] = 1
      BY <1>1, <1>2 DEF Iterates
    <2>2. ASSUME NEW i \in 1..L, f[i - 1] \in Nat
          PROVE  f[i] \in Nat
      <3>1. i \in 0..L /\ i # 0
        BY <1>1
      <3>2. f[i] = next[i][f[i - 1]]
        BY <1>2, <3>1 DEF Iterates
      <3>3. QED
        BY <2>2, <3>2
    <2> HIDE DEF L
    <2>3. QED
      BY <1>3, <2>1, <2>2
  <1>5. IsPower(f)
    <2>1. ASSUME NEW i \in 0..L
          PROVE  f[i] = IF i = 0 THEN 1 ELSE b * f[i - 1]
      <3>1. f[i] = IF i = 0 THEN 1 ELSE next[i][f[i - 1]]
        BY <1>2 DEF Iterates
      <3>2. i # 0 => i \in 1..L /\ f[i - 1] \in Nat
        BY <1>1, <1>4
      <3>3. QED
        BY <3>1, <3>2
    <2> HIDE DEF next
    <2>2. QED
      BY <1>2, <2>1 DEF Iterates
  <1>6. IsPower(Powers(b))
    <2>1. Powers(b) = CHOOSE g : IsPower(g)
      BY DEF Powers
    <2> HIDE DEF IsPower
    <2>2. QED
      BY <1>5, <2>1
  <1> DEFINE g == Powers(b)
  <1> HIDE DEF g
  <1>7. /\ g[0] = 1 /\ DOMAIN g = 0..L
        /\ \A i \in 1..L : g[i] = b * g[i - 1]
    <2>1. g = [i \in 0..L |-> IF i = 0 THEN 1 ELSE b * g[i - 1]]
      BY <1>6 DEF g
    <2>2. \A i \in 1..L : i \in 0..L /\ i # 0
      BY <1>1
    <2>3. QED
      BY <1>1, <2>1, <2>2
  <1>8. \A i \in 0..L : g[i] \in Nat
    <2>1. ASSUME NEW i \in 1..L, g[i - 1] \in Nat
          PROVE  g[i] \in Nat
      BY <1>7, <2>1
    <2> HIDE DEF L
    <2>2. QED
      BY <1>3, <1>7, <2>1
  <1>9. g \in [0..L -> Nat]
    <2>1. g = [i \in 0..L |-> IF i = 0 THEN 1 ELSE b * g[i - 1]]
      BY <1>6 DEF g
    <2>2. QED
      BY <1>8, <2>1
  <1>10. QED
    BY <1>7, <1>9 DEF g

\* What is below a multiple and is one is a whole step below.
LEMMA StepBelow ==
    ASSUME NEW a \in Nat \ {0}, NEW d \in Nat, NEW m \in Nat, a * d < a * m
    PROVE  a * d + a <= a * m
  <1>1. d < m
    BY Z3
  <1>2. d + 1 <= m
    BY <1>1
  <1>3. a * (d + 1) <= a * m
    BY <1>2, Z3
  <1>4. a * (d + 1) = a * d + a
    BY Z3
  <1>5. QED
    BY <1>3, <1>4

\* A power of two divides the number of labels.
LEMMA PowersDivide ==
    ASSUME NEW i \in 0..LabelBits
    PROVE  /\ Powers(2)[i] \in Nat \ {0}
           /\ \E m \in Nat : Powers(2)[LabelBits] = Powers(2)[i] * m
  <1> DEFINE L == LabelBits
             g == Powers(2)
  <1>1. L \in Nat
    BY TopoAssumption
  <1>2. /\ g \in [0..L -> Nat] /\ g[0] = 1
        /\ \A j \in 1..L : g[j] = 2 * g[j - 1]
    BY PowersOf
  <1> HIDE DEF L, g
  <1>3. \A j \in 0..L : g[j] \in Nat \ {0}
    <2> DEFINE D == [j \in 0..L |-> Nat \ {0}]
    <2>1. g[0] \in D[0]
      BY <1>1, <1>2
    <2>2. ASSUME NEW j \in 1..L, g[j - 1] \in D[j - 1]
          PROVE  g[j] \in D[j]
      <3>1. j \in 0..L /\ j - 1 \in 0..L
        BY <1>1
      <3>2. g[j - 1] \in Nat \ {0} /\ g[j] = 2 * g[j - 1]
        BY <1>2, <2>2, <3>1
      <3>3. QED
        BY <3>1, <3>2
    <2> HIDE DEF D
    <2>3. \A j \in 0..L : g[j] \in D[j]
      BY <1>1, <2>1, <2>2, StaysIn
    <2>4. QED
      BY <2>3 DEF D
  <1>4. \A j \in 0..L : \E m \in Nat : g[L] = g[L - j] * m
    <2> DEFINE S == {j \in 0..L : \E m \in Nat : g[L] = g[L - j] * m}
    <2>1. 0 \in S
      <3>1. g[L] = g[L - 0] * 1
        BY <1>1, <1>2
      <3>2. QED
        BY <1>1, <3>1
    <2>2. ASSUME NEW j \in 1..L, j - 1 \in S
          PROVE  j \in S
      <3>1. PICK m \in Nat : g[L] = g[L - (j - 1)] * m
        BY <2>2
      <3>2. L - (j - 1) \in 1..L /\ L - (j - 1) - 1 = L - j /\ L - j \in 0..L /\ j \in 0..L
        BY <1>1
      <3>3. g[L - (j - 1)] = 2 * g[L - j] /\ g[L - j] \in Nat
        BY <1>2, <3>2
      <3>4. g[L] = g[L - j] * (2 * m)
        BY <3>1, <3>3, Z3
      <3>5. QED
        BY <3>2, <3>4
    <2> HIDE DEF S
    <2>3. 0..L \subseteq S
      BY <1>1, <2>1, <2>2, Inductive
    <2>4. QED
      BY <2>3 DEF S
  <1>5. L - i \in 0..L /\ L - (L - i) = i
    BY <1>1 DEF L
  <1>6. QED
    BY <1>3, <1>4, <1>5 DEF L, g

\* The aligned range of labels around one lies within the labels.
LEMMA RangeWithin ==
    ASSUME NEW lo \in 0..MaxLabel, NEW i \in 1..LabelBits
    PROVE  /\ Powers(2)[i] \in Nat \ {0} /\ Base(lo, i) \in Nat
           /\ Base(lo, i) <= lo /\ lo < Base(lo, i) + Powers(2)[i]
           /\ Base(lo, i) + Powers(2)[i] <= MaxLabel + 1
  <1> DEFINE a == Powers(2)[i]
             d == lo \div a
  <1>1. LabelBits \in Nat /\ i \in 0..LabelBits /\ LabelBits \in 0..LabelBits
    BY TopoAssumption
  <1>2. a \in Nat \ {0}
    BY <1>1, PowersDivide
  <1>3. PICK m \in Nat : Powers(2)[LabelBits] = a * m
    BY <1>1, PowersDivide
  <1>4. Powers(2)[LabelBits] \in Nat
    BY <1>1, PowersDivide
  <1>5. MaxLabel + 1 = a * m
    BY <1>3, <1>4 DEF MaxLabel
  <1>6. MaxLabel \in Int /\ lo \in Nat
    BY <1>4 DEF MaxLabel
  <1> HIDE DEF a
  <1>7. d \in Nat /\ lo = a * d + (lo % a) /\ (lo % a) \in Nat /\ (lo % a) < a
    BY <1>2, <1>6
  <1>8. Base(lo, i) = a * d
    <2>1. Base(lo, i) = lo - (lo % a)
      BY DEF Base, a
    <2>2. a * d \in Nat
      BY <1>2, <1>7
    <2> HIDE DEF d
    <2>3. QED
      BY <1>6, <1>7, <2>1, <2>2
  <1> HIDE DEF d
  <1>9. a * d \in Nat /\ a * m \in Nat
    BY <1>2, <1>7
  <1>10. a * d < a * m
    BY <1>5, <1>6, <1>7, <1>9
  <1>11. a * d + a <= a * m
    BY <1>2, <1>7, <1>10, StepBelow
  <1>12. QED
    BY <1>2, <1>5, <1>6, <1>7, <1>8, <1>9, <1>11 DEF a

\* A range sparse enough for two has labels to spare.
LEMMA SparseSpares ==
    ASSUME NEW i \in 1..LabelBits, i # LabelBits, NEW c \in Nat, c >= 2, Sparse(c, i)
    PROVE  c + 3 <= Powers(2)[i]
  <1> DEFINE L == LabelBits
             two == Powers(2)
             three == Powers(3)
             four == Powers(4)
  <1>1. L \in Nat
    BY TopoAssumption
  <1>2. /\ two \in [0..L -> Nat] /\ two[0] = 1 /\ \A j \in 1..L : two[j] = 2 * two[j - 1]
        /\ three \in [0..L -> Nat] /\ three[0] = 1 /\ \A j \in 1..L : three[j] = 3 * three[j - 1]
        /\ four \in [0..L -> Nat] /\ four[0] = 1 /\ \A j \in 1..L : four[j] = 4 * four[j - 1]
    BY PowersOf
  <1>3. c * three[i] < four[i]
    BY DEF Sparse
  <1> HIDE DEF L, two, three, four
  <1> DEFINE S == {j \in 0..L : /\ three[j] > 0
                                /\ j = 1 => two[j] = 2 /\ three[j] = 3 /\ four[j] = 4
                                /\ j = 2 => two[j] = 4 /\ three[j] = 9 /\ four[j] = 16
                                /\ j >= 3 => four[j] + 3 * three[j] <= two[j] * three[j]}
  <1>4. 0 \in S
    BY <1>1, <1>2
  <1>5. ASSUME NEW j \in 1..L, j - 1 \in S
        PROVE  j \in S
    <2> DEFINE a == two[j - 1]
               b == three[j - 1]
               d == four[j - 1]
    <2>1. j \in 0..L /\ j - 1 \in 0..L /\ a \in Nat /\ b \in Nat /\ d \in Nat
      BY <1>1, <1>2
    <2>2. two[j] = 2 * a /\ three[j] = 3 * b /\ four[j] = 4 * d
      BY <1>2
    <2>3. /\ b > 0
          /\ j = 2 => a = 2 /\ b = 3 /\ d = 4
          /\ j = 3 => a = 4 /\ b = 9 /\ d = 16
          /\ j >= 4 => d + 3 * b <= a * b
      BY <1>5, <2>1
    <2>4. j = 1 => a = 1 /\ b = 1 /\ d = 1
      BY <1>2
    <2> HIDE DEF a, b, d
    <2>5. a * b \in Nat /\ (2 * a) * (3 * b) = 6 * (a * b)
      BY <2>1, Z3
    <2>6. j >= 4 => 4 * d + 9 * b <= 6 * (a * b)
      BY <2>1, <2>3, <2>5
    <2>7. j = 3 => 4 * d + 9 * b <= 6 * (a * b)
      BY <2>3
    <2>8. j >= 3 => four[j] + 3 * three[j] <= two[j] * three[j]
      BY <2>1, <2>2, <2>5, <2>6, <2>7
    <2>9. QED
      BY <2>1, <2>2, <2>3, <2>4, <2>8
  <1> HIDE DEF S
  <1>6. 0..L \subseteq S
    BY <1>1, <1>4, <1>5, Inductive
  <1>7. i \in S /\ i \in 1..L /\ i \in 0..L
    BY <1>1, <1>6 DEF L
  <1>8. two[i] \in Nat /\ three[i] \in Nat \ {0} /\ four[i] \in Nat
    BY <1>2, <1>7 DEF S
  <1>9. i >= 3
    BY <1>3, <1>7 DEF S
  <1>10. four[i] + 3 * three[i] <= two[i] * three[i]
    BY <1>7, <1>9 DEF S
  <1>11. (c + 3) * three[i] < two[i] * three[i]
    <2>1. (c + 3) * three[i] = c * three[i] + 3 * three[i]
      BY <1>8, Z3
    <2>2. c * three[i] \in Nat /\ two[i] * three[i] \in Nat
      BY <1>8
    <2>3. QED
      BY <1>3, <1>8, <1>10, <2>1, <2>2
  <1>12. c + 3 < two[i]
    BY <1>8, <1>11, Z3
  <1>13. QED
    BY <1>8, <1>12 DEF two

------------------------------------------------------------------------------
(* Lists and their labels                                                   *)

\* `list` is of D, each once, in the order of the labels.
OrderedBy(list, label, D) ==
    /\ list \in Seq(D) /\ ToSet(list) = D
    /\ \A q, r \in DOMAIN list : q < r => label[list[q]] < label[list[r]]

\* Everything has one place in it, which goes with the label.
LEMMA PlacesOrder ==
    ASSUME NEW D, NEW list, NEW label, \A v \in D : label[v] \in Int,
           OrderedBy(list, label, D), NEW v \in D, NEW w \in D
    PROVE  /\ Place(list, v) \in DOMAIN list /\ list[Place(list, v)] = v
           /\ Place(list, v) = Place(list, w) => v = w
           /\ Place(list, v) < Place(list, w) <=> label[v] < label[w]
           /\ \A q \in DOMAIN list : list[q] = v => q = Place(list, v)
  <1>1. list \in Seq(D) /\ ToSet(list) = D /\ Len(list) \in Nat /\ DOMAIN list = 1..Len(list)
    BY DEF OrderedBy
  <1>2. \A q \in DOMAIN list : list[q] \in D /\ label[list[q]] \in Int
    BY <1>1
  <1>3. \A x \in D : Place(list, x) \in DOMAIN list /\ list[Place(list, x)] = x
    <2>1. ASSUME NEW x \in D
          PROVE  \E q \in DOMAIN list : list[q] = x
      BY <1>1 DEF ToSet
    <2>2. QED
      BY <2>1 DEF Place
  <1>4. ASSUME NEW q \in DOMAIN list, NEW r \in DOMAIN list
        PROVE  q < r <=> label[list[q]] < label[list[r]]
    <2>1. q \in Nat /\ r \in Nat
      BY <1>1
    <2>2. q < r => label[list[q]] < label[list[r]]
      BY DEF OrderedBy
    <2>3. r < q => label[list[r]] < label[list[q]]
      BY DEF OrderedBy
    <2>4. label[list[q]] \in Int /\ label[list[r]] \in Int
      BY <1>2
    <2>5. q = r => label[list[q]] = label[list[r]]
      OBVIOUS
    <2>6. QED
      BY <2>1, <2>2, <2>3, <2>4, <2>5
  <1>5. ASSUME NEW q \in DOMAIN list, list[q] = v
        PROVE  q = Place(list, v)
    <2>1. q \in Nat /\ Place(list, v) \in Nat
      BY <1>1, <1>3
    <2>2. ~(q < Place(list, v)) /\ ~(Place(list, v) < q)
      BY <1>2, <1>3, <1>4, <1>5
    <2>3. QED
      BY <2>1, <2>2
  <1>6. QED
    BY <1>3, <1>4, <1>5

\* `new` is seq with e at place `at`, what was from there on one on.
Shifted(new, seq, at, e) ==
    /\ DOMAIN new = 1..(Len(seq) + 1)
    /\ \A q \in 1..(Len(seq) + 1) :
          new[q] = IF q < at THEN seq[q] ELSE IF q = at THEN e ELSE seq[q - 1]

\* One into another place of a sequence, and the rest as it was.
LEMMA InsertedAt ==
    ASSUME NEW T, NEW seq \in Seq(T), NEW at \in 1..(Len(seq) + 1), NEW e \in T
    PROVE  InsertAt(seq, at, e) \in Seq(T) /\ Shifted(InsertAt(seq, at, e), seq, at, e)
  <1> DEFINE n == Len(seq)
             pre == SubSeq(seq, 1, at - 1)
             post == SubSeq(seq, at, n)
             mid == pre \o <<e>>
  <1>1. n \in Nat /\ at \in Int /\ DOMAIN seq = 1..n
    OBVIOUS
  <1>2. /\ pre \in Seq(T) /\ Len(pre) = at - 1 /\ \A q \in 1..(at - 1) : pre[q] = seq[q]
    <2>1. at - 1 \in Nat /\ at - 1 <= n
      BY <1>1
    <2>2. \A q \in 1..(at - 1) : seq[q] \in T
      BY <1>1, <2>1
    <2>3. QED
      BY <1>1, <2>1, <2>2
  <1>3. /\ post \in Seq(T) /\ Len(post) = n + 1 - at /\ \A q \in 1..(n + 1 - at) : post[q] = seq[at + q - 1]
    <2>1. \A q \in at..n : seq[q] \in T
      BY <1>1
    <2>2. QED
      BY <1>1, <2>1
  <1>4. InsertAt(seq, at, e) = mid \o post
    BY DEF InsertAt
  <1> HIDE DEF pre, post
  <1>5. /\ mid \in Seq(T) /\ Len(mid) = at /\ mid[at] = e
        /\ \A q \in 1..(at - 1) : mid[q] = seq[q]
    BY <1>1, <1>2
  <1> HIDE DEF mid
  <1>6. (mid \o post) \in Seq(T) /\ Len(mid \o post) = n + 1
    BY <1>1, <1>3, <1>5
  <1>7. ASSUME NEW q \in 1..(n + 1)
        PROVE  (mid \o post)[q] = IF q < at THEN seq[q] ELSE IF q = at THEN e ELSE seq[q - 1]
    <2>1. CASE q <= at
      <3>1. (mid \o post)[q] = mid[q]
        BY <1>1, <1>3, <1>5, <2>1
      <3>2. QED
        BY <1>1, <1>5, <2>1, <3>1
    <2>2. CASE q > at
      <3>1. (mid \o post)[q] = post[q - at]
        BY <1>1, <1>3, <1>5, <1>6, <2>2
      <3>2. q - at \in 1..(n + 1 - at) /\ at + (q - at) - 1 = q - 1
        BY <1>1, <2>2
      <3>3. QED
        BY <1>1, <1>3, <2>2, <3>1, <3>2
    <2>3. q <= at \/ q > at
      BY <1>1
    <2>4. QED
      BY <2>1, <2>2, <2>3
  <1>8. QED
    BY <1>1, <1>4, <1>6, <1>7 DEF Shifted

\* No two in a list have the same label.
LEMMA LabelsApart ==
    ASSUME NEW D, NEW list, NEW label, \A v \in D : label[v] \in Int, OrderedBy(list, label, D)
    PROVE  \A v, w \in D : label[v] = label[w] => v = w
  <1>1. \A q \in DOMAIN list : q \in Int
    BY DEF OrderedBy
  <1>2. ASSUME NEW v \in D, NEW w \in D, label[v] = label[w]
        PROVE  v = w
    <2>1. /\ Place(list, v) \in DOMAIN list /\ Place(list, w) \in DOMAIN list
          /\ Place(list, v) = Place(list, w) => v = w
          /\ Place(list, v) < Place(list, w) <=> label[v] < label[w]
          /\ Place(list, w) < Place(list, v) <=> label[w] < label[v]
      BY PlacesOrder
    <2>2. label[v] \in Int /\ label[w] \in Int
      OBVIOUS
    <2>3. QED
      BY <1>1, <1>2, <2>1, <2>2
  <1>3. QED
    BY <1>2

\* Labels that leave room for w right after x.
Room(label, D, x, w) == [v \in D \cup {w} |-> IF v = w THEN 2 * label[x] + 1 ELSE 2 * label[v]]

\* Two ways to label the same in the same order.
Agree(D, a, b) == \A v, w \in D : a[v] < a[w] <=> b[v] < b[w]

\* Labels that keep the order of a list order it too.
LEMMA AgreeOrdered ==
    ASSUME NEW D, NEW list, NEW a, NEW b, \A v \in D : a[v] \in Int /\ b[v] \in Int,
           OrderedBy(list, a, D), \A v, w \in D : a[v] < a[w] => b[v] < b[w]
    PROVE  OrderedBy(list, b, D) /\ Agree(D, a, b)
  <1>1. \A q \in DOMAIN list : list[q] \in D
    BY DEF OrderedBy
  <1>2. OrderedBy(list, b, D)
    BY <1>1 DEF OrderedBy
  <1>3. ASSUME NEW v \in D, NEW w \in D
        PROVE  a[v] < a[w] <=> b[v] < b[w]
    <2>1. a[v] < a[w] => b[v] < b[w]
      OBVIOUS
    <2>2. a[w] < a[v] => b[w] < b[v]
      OBVIOUS
    <2>3. a[v] \in Int /\ a[w] \in Int /\ b[v] \in Int /\ b[w] \in Int
      OBVIOUS
    <2>4. a[v] = a[w] => v = w
      BY LabelsApart
    <2>5. QED
      BY <2>1, <2>2, <2>3, <2>4
  <1>4. QED
    BY <1>2, <1>3 DEF Agree

\* Linked right after x, w comes right after it.
LEMMA LinkedOrdered ==
    ASSUME NEW D, NEW list, NEW label, \A v \in D : label[v] \in Int,
           OrderedBy(list, label, D), NEW x \in D, NEW w, w \notin D
    PROVE  OrderedBy(InsertAt(list, Place(list, x) + 1, w), Room(label, D, x, w), D \cup {w})
  <1> DEFINE E == D \cup {w}
             at == Place(list, x) + 1
             n == Len(list)
             room == Room(label, D, x, w)
             new == InsertAt(list, at, w)
  <1>1. /\ list \in Seq(D) /\ ToSet(list) = D /\ n \in Nat /\ DOMAIN list = 1..n
        /\ \A q, r \in DOMAIN list : q < r => label[list[q]] < label[list[r]]
    BY DEF OrderedBy
  <1>2. Place(list, x) \in DOMAIN list /\ list[Place(list, x)] = x
    BY PlacesOrder
  <1>3. list \in Seq(E)
    BY <1>1, SeqMonotonic
  <1>4. at \in 1..(n + 1) /\ at - 1 \in 1..n /\ list[at - 1] = x
    BY <1>1, <1>2
  <1> HIDE DEF at
  <1>5. /\ new \in Seq(E) /\ DOMAIN new = 1..(n + 1)
        /\ \A q \in 1..(n + 1) : new[q] = IF q < at THEN list[q] ELSE IF q = at THEN w ELSE list[q - 1]
    <2>1. w \in E
      OBVIOUS
    <2> HIDE DEF E
    <2>2. new \in Seq(E) /\ Shifted(new, list, at, w)
      BY <1>3, <1>4, <2>1, InsertedAt
    <2> HIDE DEF new
    <2>3. QED
      BY <2>2 DEF Shifted
  <1> HIDE DEF new
  <1>6. room[w] = 2 * label[x] + 1 /\ \A v \in D : room[v] = 2 * label[v]
    BY DEF Room
  <1>7. \A q \in 1..n : list[q] \in D /\ label[list[q]] \in Int
    BY <1>1
  <1>8. ASSUME NEW q \in 1..(n + 1), NEW r \in 1..(n + 1), q < r
        PROVE  room[new[q]] < room[new[r]]
    <2>1. CASE q < at /\ r < at
      <3>1. q \in 1..n /\ r \in 1..n /\ new[q] = list[q] /\ new[r] = list[r]
        BY <1>1, <1>4, <1>5, <2>1
      <3>2. QED
        BY <1>1, <1>6, <1>7, <1>8, <3>1
    <2>2. CASE q < at /\ r = at
      <3>1. q \in 1..n /\ new[q] = list[q] /\ new[r] = w /\ q <= at - 1
        BY <1>1, <1>4, <1>5, <2>2
      <3>2. label[list[q]] <= label[list[at - 1]]
        BY <1>1, <1>4, <1>7, <3>1
      <3>3. QED
        BY <1>4, <1>6, <1>7, <3>1, <3>2
    <2>3. CASE q < at /\ r > at
      <3>1. q \in 1..n /\ r - 1 \in 1..n /\ q < r - 1 /\ new[q] = list[q] /\ new[r] = list[r - 1]
        BY <1>1, <1>4, <1>5, <2>3
      <3>2. label[list[q]] < label[list[r - 1]]
        BY <1>1, <3>1
      <3>3. QED
        BY <1>6, <1>7, <3>1, <3>2
    <2>4. CASE q = at
      <3>1. r - 1 \in 1..n /\ at - 1 < r - 1 /\ new[q] = w /\ new[r] = list[r - 1]
        BY <1>1, <1>4, <1>5, <1>8, <2>4
      <3>2. label[x] < label[list[r - 1]]
        BY <1>1, <1>4, <3>1
      <3>3. QED
        BY <1>4, <1>6, <1>7, <3>1, <3>2
    <2>5. CASE q > at
      <3>1. /\ q - 1 \in 1..n /\ r - 1 \in 1..n /\ q - 1 < r - 1
            /\ new[q] = list[q - 1] /\ new[r] = list[r - 1]
        BY <1>1, <1>4, <1>5, <1>8, <2>5
      <3>2. label[list[q - 1]] < label[list[r - 1]]
        BY <1>1, <3>1
      <3>3. /\ room[new[q]] = 2 * label[list[q - 1]] /\ label[list[q - 1]] \in Int
            /\ room[new[r]] = 2 * label[list[r - 1]] /\ label[list[r - 1]] \in Int
        BY <1>6, <1>7, <3>1
      <3>4. QED
        BY <3>2, <3>3
    <2>6. QED
      BY <1>4, <1>8, <2>1, <2>2, <2>3, <2>4, <2>5
  <1>9. ToSet(new) = E
    <2>1. \A q \in 1..(n + 1) : new[q] \in E
      BY <1>5
    <2>2. ASSUME NEW v \in D
          PROVE  \E q \in 1..(n + 1) : new[q] = v
      <3>1. PICK q \in 1..n : list[q] = v
        BY <1>1 DEF ToSet
      <3>2. CASE q < at
        <4>1. q \in 1..(n + 1) /\ new[q] = v
          BY <1>1, <1>5, <3>1, <3>2
        <4>2. QED
          BY <4>1
      <3>3. CASE q >= at
        <4>1. q + 1 \in 1..(n + 1) /\ ~(q + 1 < at) /\ q + 1 # at /\ (q + 1) - 1 = q
          BY <1>1, <1>4, <3>3
        <4>2. new[q + 1] = v
          BY <1>5, <3>1, <4>1
        <4>3. QED
          BY <4>1, <4>2
      <3>4. QED
        BY <1>4, <3>2, <3>3
    <2>3. new[at] = w
      BY <1>4, <1>5
    <2>4. \A v \in E : \E q \in 1..(n + 1) : new[q] = v
      BY <1>4, <2>2, <2>3
    <2>5. DOMAIN new = 1..(n + 1)
      BY <1>5
    <2> HIDE DEF E, n
    <2>6. QED
      BY <2>1, <2>4, <2>5 DEF ToSet
  <1>10. QED
    BY <1>5, <1>8, <1>9 DEF OrderedBy, new, at

\* Multiples are ordered as what they are of.
LEMMA StepsOrder ==
    ASSUME NEW a \in Nat \ {0}, NEW d \in Nat, NEW m \in Nat
    PROVE  /\ a * d \in Nat /\ a * m \in Nat /\ (d < m <=> a * d < a * m)
           /\ m > 0 => a <= a * m
  <1>1. a * d \in Nat /\ a * m \in Nat
    OBVIOUS
  <1>2. d < m => a * d < a * m
    <2>1. ASSUME d < m
          PROVE  a * d < a * m
      <3>1. a * (d + 1) <= a * m /\ a * (d + 1) = a * d + a
        BY <2>1, Z3
      <3>2. QED
        BY <1>1, <3>1
    <2>2. QED
      BY <2>1
  <1>3. ~(d < m) => ~(a * d < a * m)
    BY Z3
  <1>4. m > 0 => a <= a * m
    BY Z3
  <1>5. QED
    BY <1>1, <1>2, <1>3, <1>4

\* u is o with the labels of `set` between two, in the order of key.
SpreadOut(o, u, set, from, to, key) ==
    /\ u = [o EXCEPT !.label = u.label] /\ u.label \in [0..(o.n + 1) -> 0..MaxLabel]
    /\ \A v \in set : from < u.label[v] /\ u.label[v] < to
    /\ \A v, w \in set : key[v] < key[w] => u.label[v] < u.label[w]
    /\ \A v \in 0..(o.n + 1) : v \notin set => u.label[v] = o.label[v]

\* With room enough, so they are spread.
LEMMA SpreadBetween ==
    ASSUME NEW n \in Nat, NEW o \in Orders(n), NEW D, NEW key, \A v \in D : key[v] \in Int,
           OrderedBy(o.list, key, D), NEW set, set \subseteq D, set \subseteq 1..n,
           NEW from \in Nat, NEW to \in Nat, to <= MaxLabel, to - from >= Cardinality(set) + 1
    PROVE  SpreadOut(o, Spread(o, set, from, to), set, from, to, key)
  <1> DEFINE c == Cardinality(set)
             place == [v \in set |-> Place(o.list, v)]
             gap == (to - from) \div (c + 1)
             rank(v) == Rank(set, place, v)
             new == [v \in DOMAIN o.label |-> IF v \in set THEN from + gap * rank(v) ELSE o.label[v]]
             u == Spread(o, set, from, to)
  <1>1. IsFiniteSet(set) /\ c \in Nat
    <2>1. IsFiniteSet(1..n)
      BY FS_Interval
    <2>2. QED
      BY <2>1, FS_Subset, FS_CardinalityType
  <1>2. o.n = n /\ o.label \in [0..(n + 1) -> 0..MaxLabel] /\ DOMAIN o.label = 0..(n + 1)
    BY DEF Orders
  <1>3. u = [o EXCEPT !.label = new]
    BY DEF Spread
  <1>4. u.label = new /\ u = [o EXCEPT !.label = u.label]
    BY <1>3 DEF Orders
  <1>5. \A v \in set : place[v] = Place(o.list, v)
    OBVIOUS
  <1> HIDE DEF place
  <1>6. o.list \in Seq(D)
    BY DEF OrderedBy
  <1>7. ASSUME NEW v \in set, NEW w \in set
        PROVE  /\ place[v] \in Nat
               /\ place[v] < place[w] <=> key[v] < key[w]
    <2> DEFINE list == o.list
    <2>1. v \in D /\ w \in D /\ list \in Seq(D) /\ OrderedBy(list, key, D)
      BY <1>6
    <2>2. place[v] = Place(list, v) /\ place[w] = Place(list, w)
      BY <1>5
    <2> HIDE DEF list
    <2>3. /\ Place(list, v) \in DOMAIN list
          /\ Place(list, v) < Place(list, w) <=> key[v] < key[w]
      BY <2>1, PlacesOrder
    <2>4. QED
      BY <2>1, <2>2, <2>3
  <1>8. ASSUME NEW v \in set, NEW w \in set
        PROVE  /\ rank(v) \in 1..c /\ rank(w) \in 1..c
               /\ place[v] < place[w] <=> rank(v) < rank(w)
    <2>1. \A x \in set : place[x] \in Int
      BY <1>7
    <2>2. QED
      BY <1>1, <2>1, RanksOrder
  <1>9. gap \in Nat \ {0} /\ gap * (c + 1) <= to - from
    <2> DEFINE room == to - from
               d == c + 1
    <2>1. room \in Nat /\ d \in Nat \ {0} /\ room >= d
      BY <1>1
    <2> HIDE DEF room, d
    <2>2. room \div d \in Nat /\ room = d * (room \div d) + (room % d) /\ (room % d) \in Nat /\ (room % d) < d
      BY <2>1
    <2> DEFINE g == room \div d
    <2> HIDE DEF g
    <2>3. g \in Nat /\ d * g \in Nat /\ g # 0 /\ g * d = d * g
      <3>1. g \in Nat /\ room = d * g + (room % d)
        BY <2>2 DEF g
      <3>2. d * g \in Nat /\ g * d = d * g
        BY <2>1, <3>1
      <3>3. g = 0 => d * g = 0
        BY <2>1
      <3>4. QED
        BY <2>1, <2>2, <3>1, <3>2, <3>3
    <2>4. g * d <= room
      BY <2>2, <2>3 DEF g
    <2>5. QED
      BY <2>3, <2>4 DEF g, room, d
  <1> HIDE DEF gap, rank, c
  <1>10. gap * (c + 1) = gap * c + gap /\ gap * c \in Nat
    BY <1>1, <1>9, Z3
  <1>11. ASSUME NEW v \in set
         PROVE  /\ gap * rank(v) \in Nat /\ gap <= gap * rank(v)
                /\ gap * rank(v) < to - from
    <2>1. rank(v) \in Nat \ {0} /\ rank(v) < c + 1 /\ c + 1 \in Nat
      BY <1>1, <1>8
    <2>2. gap * rank(v) \in Nat /\ gap <= gap * rank(v) /\ gap * rank(v) < gap * (c + 1)
      BY <1>9, <2>1, StepsOrder
    <2>3. gap * (c + 1) \in Nat
      BY <1>1, <1>9
    <2>4. QED
      BY <1>9, <2>2, <2>3
  <1>12. \A v \in set : new[v] = from + gap * rank(v)
    BY <1>2
  <1>13. \A v \in 0..(n + 1) : v \notin set => new[v] = o.label[v]
    BY <1>2
  <1>14. DOMAIN new = 0..(n + 1)
    BY <1>2
  <1>15. new = [v \in 0..(n + 1) |-> new[v]]
    BY <1>2
  <1> HIDE DEF new
  <1>16. ASSUME NEW v \in set
         PROVE  new[v] \in Nat /\ from < new[v] /\ new[v] < to
    BY <1>9, <1>11, <1>12
  <1>17. ASSUME NEW v \in set, NEW w \in set, key[v] < key[w]
         PROVE  new[v] < new[w]
    <2>1. rank(v) \in Nat /\ rank(w) \in Nat /\ rank(v) < rank(w)
      BY <1>1, <1>7, <1>8, <1>17
    <2>2. gap * rank(v) < gap * rank(w)
      BY <1>9, <2>1, StepsOrder
    <2>3. QED
      BY <1>11, <1>12, <2>2
  <1>18. MaxLabel \in Nat
    <2>1. LabelBits \in 0..LabelBits
      BY TopoAssumption
    <2>2. Powers(2)[LabelBits] \in Nat
      BY <2>1, PowersDivide
    <2>3. QED
      BY <2>2 DEF MaxLabel
  <1>19. \A v \in 0..(n + 1) : new[v] \in 0..MaxLabel
    BY <1>2, <1>13, <1>16, <1>18
  <1>20. new \in [0..(n + 1) -> 0..MaxLabel]
    BY <1>15, <1>19
  <1> HIDE DEF u
  <1>21. QED
    BY <1>2, <1>4, <1>13, <1>16, <1>17, <1>20 DEF SpreadOut, u

------------------------------------------------------------------------------
(* One linked after another                                                 *)

\* The largest label is an integer, a natural unless it is below zero.
LEMMA MaxLabelOf == MaxLabel \in Int /\ (MaxLabel >= 0 => MaxLabel \in Nat)
  <1>1. LabelBits \in 0..LabelBits
    BY TopoAssumption
  <1>2. Powers(2)[LabelBits] \in Nat
    BY <1>1, PowersDivide
  <1>3. QED
    BY <1>2 DEF MaxLabel

\* The labels of an order are integers up to the largest.
LEMMA LabelsAreInts ==
    ASSUME NEW n, NEW o \in Orders(n)
    PROVE  \A z \in 0..(n + 1) : o.label[z] \in 0..MaxLabel /\ o.label[z] \in Int
  <1> DEFINE label == o.label
  <1>1. label \in [0..(n + 1) -> 0..MaxLabel]
    BY DEF Orders
  <1> HIDE DEF label
  <1>2. \A z \in 0..(n + 1) : label[z] \in 0..MaxLabel /\ label[z] \in Int
    BY <1>1
  <1>3. QED
    BY <1>2 DEF label

\* The list of o is of D, its ends as far apart as labels go.
Chain(o, D) ==
    /\ OrderedBy(o.list, o.label, D)
    /\ o.label[0] = 0 /\ o.label[o.n + 1] = MaxLabel

\* u has w after x, before what came after x, and the rest in its order.
After(o, u, D, x, w) ==
    /\ u = [o EXCEPT !.list = u.list, !.label = u.label]
    /\ Agree(D, o.label, u.label)
    /\ \A v \in D : u.label[w] < u.label[v] <=> o.label[x] < o.label[v]

\* An order that may take w after x.
Takes(n, o, D, x, w) ==
    /\ n \in Nat /\ n + 2 <= MaxLabel /\ o \in Orders(n)
    /\ D \in SUBSET (0..(n + 1)) /\ 0 \in D /\ n + 1 \in D /\ Chain(o, D)
    /\ x \in D /\ x # n + 1 /\ w \in 1..n /\ w \notin D

\* What the labels are.
LEMMA LabelsOfTaking ==
    ASSUME NEW n, NEW o, NEW D, NEW x, NEW w, Takes(n, o, D, x, w)
    PROVE  /\ o.label \in [0..(n + 1) -> 0..MaxLabel] /\ o.n = n /\ MaxLabel \in Nat
           /\ w \in 0..(n + 1) /\ x \in 0..(n + 1)
           /\ \A v \in D : o.label[v] \in 0..MaxLabel /\ o.label[v] \in Int
           /\ OrderedBy(o.list, o.label, D) /\ o.label[0] = 0 /\ o.label[n + 1] = MaxLabel
           /\ o.label[x] < MaxLabel
  <1>1. /\ n \in Nat /\ n + 2 <= MaxLabel /\ o \in Orders(n)
        /\ D \in SUBSET (0..(n + 1)) /\ n + 1 \in D /\ Chain(o, D)
        /\ x \in D /\ x # n + 1 /\ w \in 1..n
    BY DEF Takes
  <1>2. o.label \in [0..(n + 1) -> 0..MaxLabel] /\ o.n = n
    BY <1>1 DEF Orders
  <1>3. MaxLabel \in Nat
    BY <1>1, MaxLabelOf
  <1>4. \A v \in D : o.label[v] \in 0..MaxLabel /\ o.label[v] \in Int
    BY <1>1, <1>2
  <1>5. OrderedBy(o.list, o.label, D) /\ o.label[0] = 0 /\ o.label[n + 1] = MaxLabel
    BY <1>1, <1>2 DEF Chain
  <1>6. o.label[x] < MaxLabel
    <2>1. o.label[x] # o.label[n + 1]
      BY <1>1, <1>4, <1>5, LabelsApart
    <2>2. o.label[x] \in 0..MaxLabel
      BY <1>1, <1>4
    <2>3. QED
      BY <1>3, <1>5, <2>1, <2>2
  <1>7. QED
    BY <1>1, <1>2, <1>3, <1>4, <1>5, <1>6

\* What of the labels makes w come after x.
LEMMA Landed ==
    ASSUME NEW n, NEW o, NEW D, NEW x, NEW w, Takes(n, o, D, x, w),
           NEW u \in Orders(n), u = [o EXCEPT !.list = u.list, !.label = u.label],
           u.list = InsertAt(o.list, Place(o.list, x) + 1, w),
           u.label[0] = 0, u.label[n + 1] = MaxLabel,
           \A v, y \in D \cup {w} : Room(o.label, D, x, w)[v] < Room(o.label, D, x, w)[y]
                                      => u.label[v] < u.label[y]
    PROVE  Chain(u, D \cup {w}) /\ After(o, u, D, x, w)
  <1> DEFINE E == D \cup {w}
             room == Room(o.label, D, x, w)
             list == u.list
             label == o.label
             new == u.label
  <1>1. /\ n \in Nat /\ D \in SUBSET (0..(n + 1)) /\ x \in D /\ w \in 0..(n + 1) /\ w \notin D
        /\ \A v \in D : label[v] \in Int
        /\ OrderedBy(o.list, o.label, D)
    BY LabelsOfTaking DEF Takes
  <1>2. u.n = n /\ new \in [0..(n + 1) -> 0..MaxLabel]
    BY DEF Orders
  <1>3. OrderedBy(list, room, E)
    BY <1>1, LinkedOrdered
  <1>4. room[w] = 2 * label[x] + 1 /\ \A v \in D : room[v] = 2 * label[v]
    BY <1>1 DEF Room
  <1> HIDE DEF room
  <1>5. \A v \in E : room[v] \in Int /\ new[v] \in Int
    <2>1. label[x] \in Int
      BY <1>1
    <2>2. 2 * label[x] + 1 \in Int /\ \A v \in D : 2 * label[v] \in Int
      BY <1>1, <2>1
    <2>3. \A v \in E : room[v] \in Int
      BY <1>4, <2>2
    <2>4. \A v \in E : v \in 0..(n + 1)
      BY <1>1
    <2> HIDE DEF new
    <2>5. \A v \in 0..(n + 1) : new[v] \in Int
      BY <1>2
    <2>6. QED
      BY <2>3, <2>4, <2>5
  <1>6. \A v, y \in E : room[v] < room[y] => new[v] < new[y]
    BY DEF room
  <1>7. OrderedBy(list, new, E) /\ Agree(E, room, new)
    <2> HIDE DEF E, list, new
    <2>1. QED
      BY <1>3, <1>5, <1>6, AgreeOrdered
  <1>8. Chain(u, E)
    BY <1>2, <1>7 DEF Chain
  <1>9. ASSUME NEW v \in D, NEW y \in D
        PROVE  label[v] < label[y] <=> new[v] < new[y]
    <2>1. room[v] < room[y] <=> new[v] < new[y]
      BY <1>7 DEF Agree
    <2>2. label[v] \in Int /\ label[y] \in Int /\ room[v] = 2 * label[v] /\ room[y] = 2 * label[y]
      BY <1>1, <1>4
    <2>3. QED
      BY <2>1, <2>2
  <1>10. ASSUME NEW v \in D
         PROVE  new[w] < new[v] <=> label[x] < label[v]
    <2>1. room[w] < room[v] <=> new[w] < new[v]
      BY <1>7 DEF Agree
    <2>2. label[v] \in Int /\ label[x] \in Int /\ room[v] = 2 * label[v] /\ room[w] = 2 * label[x] + 1
      BY <1>1, <1>4
    <2>3. QED
      BY <2>1, <2>2
  <1>11. After(o, u, D, x, w)
    <2>1. Agree(D, o.label, u.label)
      BY <1>9 DEF Agree
    <2>2. QED
      BY <1>10, <2>1 DEF After
  <1>12. QED
    BY <1>8, <1>11

\* What comes next after x has the least label above its.
LEMMA NextOf ==
    ASSUME NEW D, NEW list, NEW label, \A v \in D : label[v] \in Int,
           OrderedBy(list, label, D), NEW x \in D, NEW z \in D, label[x] < label[z]
    PROVE  /\ Place(list, x) + 1 \in DOMAIN list /\ list[Place(list, x) + 1] \in D
           /\ label[x] < label[list[Place(list, x) + 1]]
           /\ \A v \in D : label[x] < label[v] => label[list[Place(list, x) + 1]] <= label[v]
  <1> DEFINE q == Place(list, x)
  <1>1. /\ list \in Seq(D) /\ Len(list) \in Nat /\ DOMAIN list = 1..Len(list)
        /\ \A i, j \in DOMAIN list : i < j => label[list[i]] < label[list[j]]
    BY DEF OrderedBy
  <1>2. q \in DOMAIN list /\ list[q] = x
    BY PlacesOrder
  <1>3. ASSUME NEW v \in D, label[x] < label[v]
        PROVE  \E i \in DOMAIN list : list[i] = v /\ q + 1 <= i
    <2>1. /\ Place(list, v) \in DOMAIN list /\ list[Place(list, v)] = v
          /\ Place(list, x) < Place(list, v) <=> label[x] < label[v]
      BY PlacesOrder
    <2>2. q + 1 <= Place(list, v)
      BY <1>1, <1>2, <1>3, <2>1
    <2>3. QED
      BY <2>1, <2>2
  <1> HIDE DEF q
  <1>4. q + 1 \in DOMAIN list
    <2>1. PICK i \in DOMAIN list : list[i] = z /\ q + 1 <= i
      BY <1>3
    <2>2. QED
      BY <1>1, <1>2, <2>1
  <1>5. list[q + 1] \in D /\ label[list[q + 1]] \in Int
    BY <1>1, <1>4
  <1>6. label[x] < label[list[q + 1]]
    BY <1>1, <1>2, <1>4
  <1>7. ASSUME NEW v \in D, label[x] < label[v]
        PROVE  label[list[q + 1]] <= label[v]
    <2>1. PICK i \in DOMAIN list : list[i] = v /\ q + 1 <= i
      BY <1>3, <1>7
    <2>2. label[v] \in Int
      OBVIOUS
    <2>3. q + 1 < i => label[list[q + 1]] < label[list[i]]
      BY <1>1, <1>4
    <2>4. i \in Int /\ q \in Int
      BY <1>1, <1>2
    <2>5. QED
      BY <1>5, <2>1, <2>2, <2>3, <2>4
  <1>8. QED
    BY <1>4, <1>5, <1>6, <1>7 DEF q

\* With a label between, w gets it.
LEMMA GapLands ==
    ASSUME NEW n, NEW o, NEW D, NEW x, NEW w, Takes(n, o, D, x, w),
           o.label[o.list[Place(o.list, x) + 1]] - o.label[x] >= 2
    PROVE  /\ InsertAfter(o, x, w) \in Orders(n) /\ Chain(InsertAfter(o, x, w), D \cup {w})
           /\ After(o, InsertAfter(o, x, w), D, x, w)
  <1> DEFINE q == Place(o.list, x)
             label == o.label
             lo == label[x]
             hi == label[o.list[q + 1]]
             mid == lo + (hi - lo) \div 2
             list == InsertAt(o.list, q + 1, w)
             new == [label EXCEPT ![w] = mid]
             u == [o EXCEPT !.list = list, !.label = new]
             E == D \cup {w}
             room == Room(label, D, x, w)
  <1>1. /\ n \in Nat /\ o \in Orders(n) /\ D \in SUBSET (0..(n + 1)) /\ 0 \in D /\ n + 1 \in D
        /\ x \in D /\ w \in 1..n /\ w \notin D
    BY DEF Takes
  <1>2. /\ label \in [0..(n + 1) -> 0..MaxLabel] /\ o.n = n /\ MaxLabel \in Nat
        /\ w \in 0..(n + 1) /\ x \in 0..(n + 1)
        /\ \A v \in D : label[v] \in 0..MaxLabel /\ label[v] \in Int
        /\ OrderedBy(o.list, label, D) /\ label[0] = 0 /\ label[n + 1] = MaxLabel /\ lo < MaxLabel
    BY LabelsOfTaking
  <1>3. InsertAfter(o, x, w) = u
    <2>1. o.list[q + 1] = o.list[Place(o.list, x) + 1] /\ hi - lo >= 2
      OBVIOUS
    <2>2. InsertAfter(o, x, w) = [[o EXCEPT !.list = list] EXCEPT !.label[w] = mid]
      BY <2>1 DEF InsertAfter
    <2>3. [[o EXCEPT !.list = list] EXCEPT !.label[w] = mid] = u
      <3> HIDE DEF list, mid
      <3>1. QED
        BY <1>1 DEF Orders
    <2>4. QED
      BY <2>2, <2>3
  <1>4. /\ q + 1 \in DOMAIN o.list /\ hi \in Int /\ hi <= MaxLabel
        /\ \A v \in D : lo < label[v] => hi <= label[v]
    <2> DEFINE tail == n + 1
               seq == o.list
    <2>1. tail \in D /\ label[x] < label[tail] /\ OrderedBy(seq, label, D) /\ \A v \in D : label[v] \in Int
      BY <1>1, <1>2
    <2> HIDE DEF tail, seq, label
    <2>2. /\ Place(seq, x) + 1 \in DOMAIN seq /\ seq[Place(seq, x) + 1] \in D
          /\ \A v \in D : label[x] < label[v] => label[seq[Place(seq, x) + 1]] <= label[v]
      BY <1>1, <2>1, NextOf
    <2>3. QED
      BY <1>2, <2>2 DEF seq, tail
  <1>5. mid \in Nat /\ lo < mid /\ mid < hi /\ mid \in 0..MaxLabel /\ lo \in Nat
    <2>1. lo \in Nat /\ hi \in Int /\ hi - lo >= 2
      BY <1>1, <1>2, <1>4
    <2> HIDE DEF lo, hi
    <2>2. (hi - lo) \div 2 >= 1 /\ (hi - lo) \div 2 < hi - lo /\ (hi - lo) \div 2 \in Int
      BY <2>1
    <2>3. QED
      BY <1>2, <1>4, <2>1, <2>2 DEF hi
  <1> HIDE DEF mid
  <1>6. /\ new \in [0..(n + 1) -> 0..MaxLabel] /\ new[w] = mid
        /\ \A v \in D : new[v] = label[v]
    BY <1>1, <1>2, <1>5
  <1>7. list \in Seq(0..(n + 1))
    <2>1. o.list \in Seq(0..(n + 1)) /\ DOMAIN o.list = 1..Len(o.list) /\ Len(o.list) \in Nat
      BY <1>1 DEF Orders
    <2>2. q + 1 \in 1..(Len(o.list) + 1)
      BY <1>4, <2>1
    <2> HIDE DEF q
    <2>3. QED
      BY <1>2, <2>1, <2>2, InsertedAt
  <1>8. u \in Orders(n) /\ u.list = list /\ u.label = new
    <2> HIDE DEF list, new
    <2>1. QED
      BY <1>1, <1>6, <1>7 DEF Orders
  <1> HIDE DEF list, new, u
  <1>9. ASSUME NEW v \in E, NEW y \in E, room[v] < room[y]
        PROVE  new[v] < new[y]
    <2>1. room[w] = 2 * lo + 1 /\ \A z \in D : room[z] = 2 * label[z]
      BY <1>1 DEF Room
    <2> HIDE DEF room
    <2>2. CASE v \in D /\ y \in D
      <3>1. label[v] \in Int /\ label[y] \in Int /\ room[v] = 2 * label[v] /\ room[y] = 2 * label[y]
        BY <1>2, <2>1, <2>2
      <3>2. label[v] < label[y]
        BY <1>9, <3>1
      <3>3. QED
        BY <1>6, <2>2, <3>2
    <2>3. CASE v \in D /\ y = w
      <3>1. label[v] \in Int /\ room[v] = 2 * label[v] /\ room[y] = 2 * lo + 1
        BY <1>2, <2>1, <2>3
      <3>2. label[v] <= lo
        BY <1>5, <1>9, <3>1
      <3>3. QED
        BY <1>5, <1>6, <2>3, <3>1, <3>2
    <2>4. CASE v = w /\ y \in D
      <3>1. label[y] \in Int /\ room[y] = 2 * label[y] /\ room[v] = 2 * lo + 1
        BY <1>2, <2>1, <2>4
      <3>2. lo < label[y]
        BY <1>5, <1>9, <3>1
      <3>3. QED
        BY <1>4, <1>5, <1>6, <2>4, <3>1, <3>2
    <2>5. CASE v = w /\ y = w
      <3>1. room[w] \in Int
        BY <1>5, <2>1
      <3>2. QED
        BY <1>9, <2>5, <3>1
    <2>6. QED
      BY <2>2, <2>3, <2>4, <2>5
  <1>10. u = [o EXCEPT !.list = u.list, !.label = u.label]
    BY <1>8 DEF u
  <1>11. u.label[0] = 0 /\ u.label[n + 1] = MaxLabel
    BY <1>1, <1>2, <1>6, <1>8
  <1>12. u.list = InsertAt(o.list, Place(o.list, x) + 1, w)
    BY <1>8 DEF list
  <1>13. \A v, y \in D \cup {w} : Room(o.label, D, x, w)[v] < Room(o.label, D, x, w)[y]
                                     => u.label[v] < u.label[y]
    BY <1>8, <1>9
  <1>14. Chain(u, D \cup {w}) /\ After(o, u, D, x, w)
    BY <1>8, <1>10, <1>11, <1>12, <1>13, Landed
  <1>15. QED
    BY <1>3, <1>8, <1>14

\* A range of labels around lo, what of r lies in it with w, and where that
\* is spread.
Ranged(n, r, lo, w, set, base, end, from, to) ==
    /\ set = {v \in ToSet(r.list) : v = w \/ /\ v \notin {0, n + 1}
                                             /\ base <= r.label[v] /\ r.label[v] < end}
    /\ base \in Nat /\ end \in Nat /\ from \in Nat /\ to \in Nat
    /\ base <= lo /\ lo < end /\ base <= from /\ to <= end /\ to <= MaxLabel
    /\ to - from >= Cardinality(set) + 1

\* What a relabelling spreads has room.
LEMMA RelabelRanged ==
    ASSUME NEW n, NEW o, NEW D, NEW x, NEW w, Takes(n, o, D, x, w),
           o.label[o.list[Place(o.list, x) + 1]] - o.label[x] < 2,
           NEW r \in Orders(n), r.label = o.label, ToSet(r.list) = D \cup {w}
    PROVE  \E set, base, end, from, to :
              /\ Relabel(r, x, w) = Spread(r, set, from, to)
              /\ Ranged(n, r, r.label[x], w, set, base, end, from, to)
  <1> DEFINE lo == r.label[x]
             set(i) == Inside(r, lo, w, i)
             fits(i) == Sparse(Cardinality(set(i)), i)
             i0 == CHOOSE i \in 1..LabelBits : fits(i) /\ \A l \in 1..(i - 1) : ~fits(l)
             size == Powers(2)[i0]
             base == Base(lo, i0)
             end == base + size
             from == IF base = 0 THEN 1 ELSE base
             to == IF end < MaxLabel THEN end ELSE MaxLabel
             c == Cardinality(set(i0))
  <1>1. /\ n \in Nat /\ D \in SUBSET (0..(n + 1)) /\ 0 \in D /\ n + 1 \in D
        /\ x \in D /\ x # n + 1 /\ w \in 1..n /\ w \notin D /\ n + 2 <= MaxLabel
    BY DEF Takes
  <1>2. /\ r.label \in [0..(n + 1) -> 0..MaxLabel] /\ r.n = n /\ MaxLabel \in Nat
        /\ w \in 0..(n + 1) /\ x \in 0..(n + 1)
        /\ \A v \in D : r.label[v] \in 0..MaxLabel /\ r.label[v] \in Int
        /\ OrderedBy(o.list, r.label, D) /\ r.label[0] = 0 /\ r.label[n + 1] = MaxLabel
        /\ lo < MaxLabel /\ lo \in 0..MaxLabel
    <2>1. /\ o.label \in [0..(n + 1) -> 0..MaxLabel] /\ MaxLabel \in Nat
          /\ w \in 0..(n + 1) /\ x \in 0..(n + 1)
          /\ \A v \in D : o.label[v] \in 0..MaxLabel /\ o.label[v] \in Int
          /\ OrderedBy(o.list, o.label, D) /\ o.label[0] = 0 /\ o.label[n + 1] = MaxLabel
          /\ o.label[x] < MaxLabel
      BY LabelsOfTaking
    <2>2. r.n = n
      BY DEF Orders
    <2>3. o.label[x] \in 0..MaxLabel
      BY <1>1, <2>1
    <2>4. QED
      BY <2>1, <2>2, <2>3
  <1>3. LabelBits \in Nat /\ LabelBits >= 1
    <2>1. LabelBits \in Nat
      BY TopoAssumption
    <2>2. LabelBits # 0
      <3>1. Powers(2)[0] = 1
        BY PowersOf
      <3>2. QED
        BY <1>1, <3>1 DEF MaxLabel
    <2>3. QED
      BY <2>1, <2>2
  <1>4. i0 \in 1..LabelBits /\ fits(i0)
    <2> DEFINE S == {i \in 1..LabelBits : fits(i)}
    <2>1. fits(LabelBits)
      BY DEF Sparse
    <2> HIDE DEF fits
    <2>2. S \in SUBSET Nat /\ S # {}
      BY <1>3, <2>1
    <2> HIDE DEF S
    <2>3. PICK m \in S : \A i \in S : m <= i
      BY <2>2, LeastOf
    <2> USE DEF S
    <2>4. m \in 1..LabelBits /\ fits(m)
      BY <2>3
    <2>5. \A l \in 1..(m - 1) : ~fits(l)
      BY <1>3, <2>3, <2>4
    <2>6. QED
      BY <2>4, <2>5
  <1>5. Relabel(r, x, w) = Spread(r, set(i0), from, to)
    BY DEF Relabel
  <1>6. /\ size \in Nat \ {0} /\ base \in Nat /\ base <= lo /\ lo < base + size
        /\ base + size <= MaxLabel + 1
    BY <1>2, <1>4, RangeWithin
  <1> HIDE DEF i0
  <1>7. set(i0) = {v \in D \cup {w} : v = w \/ /\ v \notin {0, n + 1}
                                               /\ base <= r.label[v] /\ r.label[v] < end}
    <2>1. \A v \in D : r.label[v] \in base..(base + size - 1) <=> base <= r.label[v] /\ r.label[v] < end
      <3>1. \A v \in D : r.label[v] \in Int
        BY <1>2
      <3> HIDE DEF base, size
      <3>2. QED
        BY <1>6, <3>1
    <2>2. set(i0) = {v \in D \cup {w} : v = w \/ /\ v \notin {0, n + 1}
                                                 /\ r.label[v] \in base..(base + size - 1)}
      BY <1>2 DEF Inside
    <2> HIDE DEF base, end, size
    <2>3. QED
      BY <2>1, <2>2
  <1> DEFINE set0 == set(i0)
  <1>8. set0 \subseteq 1..n /\ w \in set0 /\ IsFiniteSet(set0) /\ c \in Nat /\ c <= n
    <2>1. set0 \subseteq 1..n /\ w \in set0
      BY <1>1, <1>7
    <2>2. IsFiniteSet(1..n) /\ Cardinality(1..n) = n
      BY <1>1, FS_Interval
    <2> HIDE DEF set
    <2>3. QED
      BY <2>1, <2>2, FS_Subset, FS_CardinalityType
  <1>9. \E y \in set0 : y # w
    <2>1. CASE x # 0
      <3>1. x \in set0
        BY <1>1, <1>6, <1>7, <2>1
      <3>2. QED
        BY <1>1, <3>1
    <2>2. CASE x = 0
      <3> DEFINE y == o.list[Place(o.list, x) + 1]
      <3>1. y \in D /\ r.label[x] < r.label[y]
        <4> DEFINE tail == n + 1
                   seq == o.list
                   label == r.label
        <4>1. tail \in D /\ label[x] < label[tail] /\ OrderedBy(seq, label, D) /\ \A v \in D : label[v] \in Int
          BY <1>1, <1>2
        <4> HIDE DEF tail, seq, label
        <4>2. /\ seq[Place(seq, x) + 1] \in D /\ label[x] < label[seq[Place(seq, x) + 1]]
          BY <1>1, <4>1, NextOf
        <4>3. QED
          BY <4>2 DEF seq, label
      <3>2. r.label[y] - r.label[x] < 2
        OBVIOUS
      <3>3. r.label[x] = 0 /\ r.label[y] \in Int
        BY <1>2, <2>2, <3>1
      <3> HIDE DEF y
      <3>4. r.label[y] = 1
        BY <3>1, <3>2, <3>3
      <3>5. y # 0 /\ y # n + 1
        <4>1. y = n + 1 => r.label[y] = MaxLabel
          BY <1>2
        <4>2. y = 0 => r.label[y] = 0
          BY <1>2
        <4>3. MaxLabel # 1
          BY <1>1, <1>2
        <4>4. QED
          BY <3>4, <4>1, <4>2, <4>3
      <3>6. size >= 2
        <4>1. i0 - 1 \in 0..LabelBits
          BY <1>3, <1>4
        <4>2. Powers(2)[i0 - 1] \in Nat /\ Powers(2)[i0 - 1] # 0
          BY <4>1, PowersDivide
        <4>3. size = 2 * Powers(2)[i0 - 1]
          BY <1>4, PowersOf
        <4>4. QED
          BY <4>2, <4>3
      <3>7. base = 0
        BY <1>6, <2>2, <3>3
      <3>8. y \in set0
        BY <1>6, <1>7, <3>1, <3>4, <3>5, <3>6, <3>7
      <3>9. QED
        BY <1>1, <3>1, <3>8
    <2>3. QED
      BY <2>1, <2>2
  <1>10. c >= 2
    <2>1. PICK y \in set0 : y # w
      BY <1>9
    <2> DEFINE pair == {w, y}
    <2>2. pair \subseteq set0
      BY <1>8, <2>1
    <2>3. Cardinality({w}) = 1 /\ IsFiniteSet({w}) /\ y \notin {w}
      BY <2>1, FS_Singleton
    <2>4. Cardinality({w} \cup {y}) = Cardinality({w}) + 1
      BY <2>3, FS_AddElement
    <2>5. {w} \cup {y} = pair
      OBVIOUS
    <2>6. Cardinality(pair) = 2
      BY <2>3, <2>4, <2>5
    <2> HIDE DEF pair, set
    <2>7. Cardinality(pair) <= Cardinality(set0)
      BY <1>8, <2>2, FS_Subset
    <2>8. QED
      BY <2>6, <2>7
  <1>11. to - from >= c + 1
    <2>1. CASE i0 = LabelBits
      <3>1. size = MaxLabel + 1
        <4>1. LabelBits \in 0..LabelBits
          BY <1>3
        <4>2. Powers(2)[LabelBits] \in Nat
          BY <4>1, PowersDivide
        <4>3. QED
          BY <2>1, <4>2 DEF MaxLabel
      <3>2. base = 0
        BY <1>2, <1>6, <3>1
      <3>3. from = 1 /\ to = MaxLabel
        BY <1>2, <1>6, <3>1, <3>2
      <3> HIDE DEF c, from, to
      <3>4. QED
        BY <1>1, <1>2, <1>8, <3>3
    <2>2. CASE i0 # LabelBits
      <3>1. c + 3 <= size
        <4> HIDE DEF set
        <4>1. QED
          BY <1>4, <1>8, <1>10, <2>2, SparseSpares
      <3> HIDE DEF c, size, base
      <3>2. from <= base + 1 /\ to >= base + size - 1 /\ from \in Int /\ to \in Int
        BY <1>2, <1>6
      <3> HIDE DEF from, to
      <3>3. QED
        BY <1>6, <1>8, <3>1, <3>2
    <2>3. QED
      BY <2>1, <2>2
  <1>12. /\ end \in Nat /\ from \in Nat /\ to \in Nat /\ base <= from /\ to <= end /\ to <= MaxLabel
    <2> HIDE DEF size, base
    <2>1. from \in Nat /\ base <= from
      BY <1>6
    <2>2. end \in Nat /\ to \in Nat /\ to <= end /\ to <= MaxLabel
      <3>1. CASE end < MaxLabel
        BY <1>2, <1>6, <3>1
      <3>2. CASE ~(end < MaxLabel)
        BY <1>2, <1>6, <3>2
      <3>3. QED
        BY <3>1, <3>2
    <2>3. QED
      BY <2>1, <2>2
  <1>13. Ranged(n, r, lo, w, set0, base, end, from, to)
    <2>1. set0 = {v \in ToSet(r.list) : v = w \/ /\ v \notin {0, n + 1}
                                                 /\ base <= r.label[v] /\ r.label[v] < end}
      BY <1>7
    <2>2. base <= lo /\ lo < end
      BY <1>6
    <2> HIDE DEF set, from, to, end, base, size, lo
    <2>3. QED
      BY <1>6, <1>11, <1>12, <2>1, <2>2 DEF Ranged
  <1>14. Relabel(r, x, w) = Spread(r, set0, from, to)
    BY <1>5
  <1> HIDE DEF set0, from, to, end, base, size, set
  <1>15. QED
    BY <1>13, <1>14

\* Spreading the range keeps the order, w in its place.
LEMMA SpreadKeeps ==
    ASSUME NEW n \in Nat, NEW r \in Orders(n), NEW D \in SUBSET (0..(n + 1)), NEW x \in D, NEW w \in 1..n,
           w \notin D, \A v \in D : r.label[v] \in 0..MaxLabel /\ r.label[v] \in Int,
           ToSet(r.list) = D \cup {w}, r.label[0] = 0, r.label[n + 1] = MaxLabel, r.label[x] < MaxLabel,
           MaxLabel \in Nat,
           NEW set, NEW base, NEW end, NEW from, NEW to,
           Ranged(n, r, r.label[x], w, set, base, end, from, to),
           NEW u, SpreadOut(r, u, set, from, to, Room(r.label, D, x, w)),
           NEW v \in D \cup {w}, NEW y \in D \cup {w},
           Room(r.label, D, x, w)[v] < Room(r.label, D, x, w)[y]
    PROVE  u.label[v] < u.label[y]
  <1> DEFINE lo == r.label[x]
             label == r.label
             new == u.label
             room == Room(label, D, x, w)
  <1>1. room[w] = 2 * lo + 1 /\ \A z \in D : room[z] = 2 * label[z]
    BY DEF Room
  <1>2. room[v] < room[y]
    OBVIOUS
  <1> HIDE DEF room
  <1>3. /\ set = {z \in D \cup {w} : z = w \/ (z \notin {0, n + 1} /\ base <= label[z] /\ label[z] < end)}
        /\ base \in Nat /\ end \in Nat /\ from \in Nat /\ to \in Nat
        /\ base <= lo /\ lo < end /\ base <= from /\ to <= end /\ to <= MaxLabel
    BY DEF Ranged
  <1>4. lo \in Nat /\ lo < MaxLabel
    OBVIOUS
  <1>5. r.n = n
    BY DEF Orders
  <1>6. /\ new \in [0..(n + 1) -> 0..MaxLabel]
        /\ \A z \in set : from < new[z] /\ new[z] < to
        /\ \A z1, z2 \in set : room[z1] < room[z2] => new[z1] < new[z2]
        /\ \A z \in 0..(n + 1) : z \notin set => new[z] = label[z]
    BY <1>5 DEF SpreadOut, room
  <1>7. v \in 0..(n + 1) /\ y \in 0..(n + 1) /\ new[v] \in Int /\ new[y] \in Int
    <2>1. v \in 0..(n + 1) /\ y \in 0..(n + 1)
      OBVIOUS
    <2> HIDE DEF new
    <2>2. QED
      BY <1>6, <2>1
  <1>8. \A z \in D : label[z] \in Int /\ 0 <= label[z] /\ label[z] <= MaxLabel /\ room[z] = 2 * label[z]
    BY <1>1
  <1>9. label[0] = 0 /\ label[n + 1] = MaxLabel
    OBVIOUS
  <1> SUFFICES new[v] < new[y]
    OBVIOUS
  <1> HIDE DEF new, label, lo
  <1>10. CASE v \in set /\ y \in set
    BY <1>2, <1>6, <1>10
  <1>11. CASE v \notin set /\ y \notin set
    <2>1. v \in D /\ y \in D
      BY <1>3, <1>11
    <2>2. new[v] = label[v] /\ new[y] = label[y]
      BY <1>6, <1>7, <1>11
    <2>3. QED
      BY <1>2, <1>8, <2>1, <2>2
  <1>12. CASE v \in set /\ y \notin set
    <2>1. y \in D /\ new[y] = label[y] /\ label[y] \in Int /\ room[y] = 2 * label[y]
      BY <1>3, <1>6, <1>7, <1>8, <1>12
    <2>2. new[v] < to
      BY <1>6, <1>12
    <2>3. /\ v = w => room[v] = 2 * lo + 1
          /\ v # w => /\ base <= label[v] /\ label[v] \in Int /\ room[v] = 2 * label[v]
      BY <1>1, <1>3, <1>8, <1>12
    <2>4. room[v] >= 2 * base /\ room[v] \in Int
      BY <1>3, <1>4, <2>3
    <2>5. label[y] > base
      <3>1. CASE v = w
        BY <1>2, <1>3, <1>4, <2>1, <2>3, <3>1
      <3>2. CASE v # w
        BY <1>2, <1>3, <1>4, <2>1, <2>3, <3>2
      <3>3. QED
        BY <3>1, <3>2
    <2>6. y # 0
      BY <1>3, <1>9, <2>5
    <2>7. y = n + 1 \/ label[y] >= end
      BY <1>3, <1>12, <2>1, <2>5, <2>6
    <2>8. label[y] >= to
      BY <1>3, <1>9, <2>1, <2>7
    <2>9. QED
      BY <1>3, <1>7, <2>1, <2>2, <2>8
  <1>13. CASE v \notin set /\ y \in set
    <2>1. v \in D /\ new[v] = label[v] /\ label[v] \in Int /\ room[v] = 2 * label[v]
      BY <1>3, <1>6, <1>7, <1>8, <1>13
    <2>2. from < new[y]
      BY <1>6, <1>13
    <2>3. /\ y = w => room[y] = 2 * lo + 1
          /\ y # w => /\ label[y] < end /\ label[y] \in Int /\ room[y] = 2 * label[y]
                      /\ label[y] <= MaxLabel
      BY <1>1, <1>3, <1>8, <1>13
    <2>4. label[v] < end /\ label[v] < MaxLabel
      <3>1. CASE y = w
        BY <1>2, <1>3, <1>4, <2>1, <2>3, <3>1
      <3>2. CASE y # w
        BY <1>2, <1>3, <1>4, <2>1, <2>3, <3>2
      <3>3. QED
        BY <3>1, <3>2
    <2>5. v # n + 1
      BY <1>9, <2>1, <2>4
    <2>6. v = 0 \/ label[v] < base
      BY <1>3, <1>13, <2>1, <2>4, <2>5
    <2>7. label[v] <= from
      BY <1>3, <1>9, <2>1, <2>6
    <2>8. QED
      BY <1>3, <1>7, <2>1, <2>2, <2>7
  <1>14. QED
    BY <1>10, <1>11, <1>12, <1>13

\* Without a label between, what is around x is spread and w gets one.
LEMMA RelabelLands ==
    ASSUME NEW n, NEW o, NEW D, NEW x, NEW w, Takes(n, o, D, x, w),
           ~(o.label[o.list[Place(o.list, x) + 1]] - o.label[x] >= 2)
    PROVE  /\ InsertAfter(o, x, w) \in Orders(n) /\ Chain(InsertAfter(o, x, w), D \cup {w})
           /\ After(o, InsertAfter(o, x, w), D, x, w)
  <1> DEFINE q == Place(o.list, x)
             list == InsertAt(o.list, q + 1, w)
             r == [o EXCEPT !.list = list]
             E == D \cup {w}
             room == Room(o.label, D, x, w)
             u == InsertAfter(o, x, w)
             lo == o.label[x]
             hi == o.label[o.list[q + 1]]
  <1>1. /\ n \in Nat /\ o \in Orders(n) /\ D \in SUBSET (0..(n + 1)) /\ 0 \in D /\ n + 1 \in D
        /\ x \in D /\ w \in 1..n /\ w \notin D
    BY DEF Takes
  <1>2. /\ o.label \in [0..(n + 1) -> 0..MaxLabel] /\ o.n = n /\ MaxLabel \in Nat
        /\ w \in 0..(n + 1) /\ x \in 0..(n + 1)
        /\ \A v \in D : o.label[v] \in 0..MaxLabel /\ o.label[v] \in Int
        /\ OrderedBy(o.list, o.label, D) /\ o.label[0] = 0 /\ o.label[n + 1] = MaxLabel
        /\ o.label[x] < MaxLabel
    BY LabelsOfTaking
  <1>3. u = Relabel(r, x, w)
    BY DEF InsertAfter
  <1>4. lo \in Int /\ hi \in Int
    <2> DEFINE tail == n + 1
               seq == o.list
               label == o.label
    <2>1. tail \in D /\ label[x] < label[tail] /\ OrderedBy(seq, label, D) /\ \A v \in D : label[v] \in Int
      BY <1>1, <1>2
    <2> HIDE DEF tail, seq, label
    <2>2. seq[Place(seq, x) + 1] \in D
      BY <1>1, <2>1, NextOf
    <2>3. QED
      BY <1>1, <1>2, <2>2 DEF seq
  <1>5. hi - lo < 2
    <2>1. ~(hi - lo >= 2)
      OBVIOUS
    <2> HIDE DEF hi, lo
    <2>2. QED
      BY <1>4, <2>1
  <1>6. OrderedBy(list, room, E)
    BY <1>1, <1>2, LinkedOrdered
  <1>7. list \in Seq(0..(n + 1)) /\ ToSet(list) = E
    <2>1. list \in Seq(E) /\ ToSet(list) = E
      BY <1>6 DEF OrderedBy
    <2>2. E \subseteq 0..(n + 1)
      BY <1>1, <1>2
    <2> HIDE DEF list, E
    <2>3. QED
      BY <2>1, <2>2, SeqMonotonic
  <1>8. r \in Orders(n) /\ r.list = list /\ r.label = o.label
    <2> HIDE DEF list
    <2>1. QED
      BY <1>1, <1>7 DEF Orders
  <1> HIDE DEF list
  <1>9. PICK set, base, end, from, to :
           /\ Relabel(r, x, w) = Spread(r, set, from, to)
           /\ Ranged(n, r, r.label[x], w, set, base, end, from, to)
    <2>1. ToSet(r.list) = D \cup {w}
      BY <1>7, <1>8
    <2> HIDE DEF r
    <2>2. QED
      BY <1>5, <1>8, <2>1, RelabelRanged
  <1>10. SpreadOut(r, u, set, from, to, room)
    <2>1. set \subseteq E /\ set \subseteq 1..n
      <3>1. set = {v \in E : v = w \/ (v \notin {0, n + 1} /\ base <= r.label[v] /\ r.label[v] < end)}
        BY <1>7, <1>8, <1>9 DEF Ranged
      <3>2. QED
        BY <1>1, <3>1
    <2>2. from \in Nat /\ to \in Nat /\ to <= MaxLabel /\ to - from >= Cardinality(set) + 1
      BY <1>9 DEF Ranged
    <2>3. \A v \in E : room[v] \in Int
      <3>1. 2 * lo + 1 \in Int /\ \A v \in D : 2 * o.label[v] \in Int
        BY <1>2, <1>4
      <3>2. QED
        BY <1>1, <3>1 DEF Room
    <2>4. OrderedBy(r.list, room, E)
      BY <1>6, <1>8
    <2> HIDE DEF E, room, r
    <2>5. SpreadOut(r, Spread(r, set, from, to), set, from, to, room)
      BY <1>1, <1>8, <2>1, <2>2, <2>3, <2>4, SpreadBetween
    <2>6. QED
      BY <1>3, <1>9, <2>5
  <1>11. \A v, y \in D \cup {w} : Room(o.label, D, x, w)[v] < Room(o.label, D, x, w)[y]
                                     => u.label[v] < u.label[y]
    <2>1. SUFFICES ASSUME NEW v \in D \cup {w}, NEW y \in D \cup {w},
                          Room(o.label, D, x, w)[v] < Room(o.label, D, x, w)[y]
                   PROVE  u.label[v] < u.label[y]
      OBVIOUS
    <2>2. /\ \A z \in D : r.label[z] \in 0..MaxLabel /\ r.label[z] \in Int
          /\ ToSet(r.list) = D \cup {w} /\ r.label[0] = 0 /\ r.label[n + 1] = MaxLabel
          /\ r.label[x] < MaxLabel
      BY <1>2, <1>7, <1>8
    <2>3. Room(r.label, D, x, w)[v] < Room(r.label, D, x, w)[y]
      BY <1>8, <2>1
    <2>4. SpreadOut(r, u, set, from, to, Room(r.label, D, x, w))
      BY <1>8, <1>10
    <2> HIDE DEF r, u
    <2>5. QED
      BY <1>1, <1>2, <1>8, <1>9, <2>2, <2>3, <2>4, SpreadKeeps
  <1>12. u = [r EXCEPT !.label = u.label] /\ u.label \in [0..(n + 1) -> 0..MaxLabel]
    <2>1. r.n = n
      BY <1>8 DEF Orders
    <2> HIDE DEF r, u
    <2>2. QED
      BY <1>10, <2>1 DEF SpreadOut
  <1> DEFINE new == u.label
  <1>13. new \in [0..(n + 1) -> 0..MaxLabel] /\ u = [r EXCEPT !.label = new]
    BY <1>12
  <1> HIDE DEF new, u
  <1>14. u = [o EXCEPT !.list = list, !.label = new]
    <2>1. [[o EXCEPT !.list = list] EXCEPT !.label = new] = [o EXCEPT !.list = list, !.label = new]
      BY <1>1 DEF Orders
    <2>2. QED
      BY <1>13, <2>1
  <1>15. u \in Orders(n) /\ u.list = list
    BY <1>1, <1>7, <1>13, <1>14 DEF Orders
  <1>16. u = [o EXCEPT !.list = u.list, !.label = u.label]
    BY <1>14, <1>15 DEF new
  <1>17. u.label[0] = 0 /\ u.label[n + 1] = MaxLabel
    <2>1. 0 \notin set /\ n + 1 \notin set
      <3>1. set = {v \in E : v = w \/ (v \notin {0, n + 1} /\ base <= r.label[v] /\ r.label[v] < end)}
        BY <1>7, <1>8, <1>9 DEF Ranged
      <3>2. QED
        BY <1>1, <3>1
    <2>2. r.n = n
      BY <1>8 DEF Orders
    <2>3. \A v \in 0..(n + 1) : v \notin set => u.label[v] = r.label[v]
      BY <1>10, <2>2 DEF SpreadOut
    <2>4. 0 \in 0..(n + 1) /\ n + 1 \in 0..(n + 1)
      BY <1>1
    <2>5. QED
      BY <1>2, <1>8, <2>1, <2>3, <2>4
  <1>18. u.list = InsertAt(o.list, Place(o.list, x) + 1, w)
    BY <1>15 DEF list
  <1>19. Chain(u, D \cup {w}) /\ After(o, u, D, x, w)
    BY <1>11, <1>15, <1>16, <1>17, <1>18, Landed
  <1>20. QED
    BY <1>15, <1>19 DEF u

\* So w always lands right after x.
LEMMA InsertedAfter ==
    ASSUME NEW n, NEW o, NEW D, NEW x, NEW w, Takes(n, o, D, x, w)
    PROVE  /\ InsertAfter(o, x, w) \in Orders(n) /\ Chain(InsertAfter(o, x, w), D \cup {w})
           /\ After(o, InsertAfter(o, x, w), D, x, w)
  BY GapLands, RelabelLands

------------------------------------------------------------------------------
(* A side moves                                                             *)

\* What is left of a list is in its order.
LEMMA ThoseOrdered ==
    ASSUME NEW D, NEW list, NEW label, OrderedBy(list, label, D), NEW set
    PROVE  OrderedBy(Those(list, ToSet(list) \ set), label, D \ set)
  <1> DEFINE G == ToSet(list) \ set
  <1>1. list \in Seq(D) /\ ToSet(list) = D /\ Len(list) \in Nat /\ DOMAIN list = 1..Len(list)
    BY DEF OrderedBy
  <1>2. G = D \ set /\ D \cap G = D \ set
    BY <1>1
  <1> HIDE DEF G
  <1>3. Those(list, G) \in Seq(D \cap G) /\ ToSet(Those(list, G)) = D \cap G
    BY <1>1, ThoseMembers
  <1>4. PICK at \in Seq(DOMAIN list) : TakenAt(list, G, at)
    BY <1>1, ThoseOf
  <1>5. \A i \in DOMAIN at : at[i] \in DOMAIN list
    BY <1>4
  <1>6. ASSUME NEW q \in DOMAIN Those(list, G), NEW r \in DOMAIN Those(list, G), q < r
        PROVE  label[Those(list, G)[q]] < label[Those(list, G)[r]]
    <2>1. q \in DOMAIN at /\ r \in DOMAIN at
      BY <1>4 DEF TakenAt
    <2>2. Those(list, G)[q] = list[at[q]] /\ Those(list, G)[r] = list[at[r]] /\ at[q] < at[r]
      BY <1>4, <1>6, <2>1 DEF TakenAt
    <2>3. QED
      BY <1>5, <2>1, <2>2 DEF OrderedBy
  <1>7. OrderedBy(Those(list, G), label, D \ set)
    BY <1>2, <1>3, <1>6 DEF OrderedBy
  <1>8. QED
    BY <1>7 DEF G

\* What is to be put after `start`, one after another.
Putting(n, o, D, start, sorted) ==
    /\ n \in Nat /\ n + 2 <= MaxLabel /\ o \in Orders(n)
    /\ D \in SUBSET (0..(n + 1)) /\ 0 \in D /\ n + 1 \in D /\ Chain(o, D)
    /\ start \in D /\ start # n + 1
    /\ sorted \in Seq(1..n) /\ \A r \in DOMAIN sorted : sorted[r] \notin D
    /\ \A q, r \in DOMAIN sorted : sorted[q] = sorted[r] => q = r

\* The first q of them have been, giving u.
PutSo(n, o, D, start, sorted, q, u) ==
    /\ u \in Orders(n) /\ Chain(u, D \cup {sorted[r] : r \in 1..q})
    /\ u = [o EXCEPT !.list = u.list, !.label = u.label]
    /\ Agree(D, o.label, u.label)
    /\ \A r \in 1..q : \A v \in D : u.label[sorted[r]] < u.label[v] <=> o.label[start] < o.label[v]
    /\ \A r1, r2 \in 1..q : r1 < r2 => u.label[sorted[r1]] < u.label[sorted[r2]]

\* Before the first there is nothing to say.
LEMMA PutFirst ==
    ASSUME NEW n, NEW o, NEW D, NEW start, NEW sorted, Putting(n, o, D, start, sorted)
    PROVE  PutSo(n, o, D, start, sorted, 0, o)
  <1>1. D \cup {sorted[r] : r \in 1..0} = D
    OBVIOUS
  <1>2. o \in Orders(n) /\ Chain(o, D)
    BY DEF Putting
  <1>3. o = [o EXCEPT !.list = o.list, !.label = o.label]
    BY <1>2 DEF Orders
  <1>4. QED
    BY <1>1, <1>2, <1>3 DEF PutSo, Agree

\* The next goes after the last.
LEMMA PutNext ==
    ASSUME NEW n, NEW o, NEW D, NEW start, NEW sorted, Putting(n, o, D, start, sorted),
           NEW q \in 1..Len(sorted), NEW u, PutSo(n, o, D, start, sorted, q - 1, u)
    PROVE  PutSo(n, o, D, start, sorted, q,
                 InsertAfter(u, IF q = 1 THEN start ELSE sorted[q - 1], sorted[q]))
  <1> DEFINE x == IF q = 1 THEN start ELSE sorted[q - 1]
             w == sorted[q]
             E == D \cup {sorted[r] : r \in 1..(q - 1)}
             F == D \cup {sorted[r] : r \in 1..q}
             y == InsertAfter(u, x, w)
  <1>1. /\ n \in Nat /\ n + 2 <= MaxLabel /\ o \in Orders(n)
        /\ D \in SUBSET (0..(n + 1)) /\ 0 \in D /\ n + 1 \in D
        /\ start \in D /\ start # n + 1
        /\ sorted \in Seq(1..n) /\ \A r \in DOMAIN sorted : sorted[r] \notin D
        /\ \A i, r \in DOMAIN sorted : sorted[i] = sorted[r] => i = r
    BY DEF Putting
  <1>2. /\ Len(sorted) \in Nat /\ DOMAIN sorted = 1..Len(sorted) /\ q \in Nat /\ q >= 1
        /\ q \in DOMAIN sorted /\ \A r \in 1..q : r \in DOMAIN sorted /\ sorted[r] \in 1..n
    BY <1>1
  <1>3. /\ u \in Orders(n) /\ Chain(u, E)
        /\ u = [o EXCEPT !.list = u.list, !.label = u.label]
        /\ Agree(D, o.label, u.label)
        /\ \A r \in 1..(q - 1) : \A v \in D : u.label[sorted[r]] < u.label[v] <=> o.label[start] < o.label[v]
        /\ \A r1, r2 \in 1..(q - 1) : r1 < r2 => u.label[sorted[r1]] < u.label[sorted[r2]]
    BY DEF PutSo
  <1>4. q # 1 => q - 1 \in 1..(q - 1) /\ q - 1 \in 1..q
    BY <1>2
  <1>5. x \in E /\ x # n + 1
    <2>1. CASE q = 1
      BY <1>1, <2>1
    <2>2. CASE q # 1
      <3>1. x = sorted[q - 1] /\ sorted[q - 1] \in 1..n /\ q - 1 \in 1..(q - 1)
        BY <1>2, <1>4, <2>2
      <3>2. QED
        BY <1>1, <3>1
    <2>3. QED
      BY <2>1, <2>2
  <1>6. w \in 1..n /\ w \notin E
    <2>1. ASSUME NEW r \in 1..(q - 1)
          PROVE  sorted[r] # w
      <3>1. r \in 1..q /\ r # q
        BY <1>2
      <3>2. r \in DOMAIN sorted /\ q \in DOMAIN sorted
        BY <1>2, <3>1
      <3>3. sorted[q] = sorted[r] => q = r
        BY <1>1, <3>2
      <3>4. QED
        BY <3>1, <3>3
    <2>2. w \in 1..n /\ w \notin D
      <3>1. sorted[q] \notin D
        BY <1>1, <1>2
      <3>2. q \in 1..q
        BY <1>2
      <3>3. QED
        BY <1>2, <3>1, <3>2
    <2> HIDE DEF w
    <2>3. QED
      BY <2>1, <2>2
  <1>7. E \in SUBSET (0..(n + 1)) /\ D \subseteq E
    <2>1. \A r \in 1..(q - 1) : r \in 1..q
      BY <1>2
    <2>2. \A r \in 1..(q - 1) : sorted[r] \in 0..(n + 1)
      BY <1>1, <1>2, <2>1
    <2>3. QED
      BY <1>1, <2>2
  <1>8. F = E \cup {w}
    <2>1. 1..q = 1..(q - 1) \cup {q}
      BY <1>2
    <2>2. QED
      BY <2>1
  <1> HIDE DEF x, E, F
  <1>9. Takes(n, u, E, x, w)
    BY <1>1, <1>3, <1>5, <1>6, <1>7 DEF Takes
  <1>10. y \in Orders(n) /\ Chain(y, E \cup {w}) /\ After(u, y, E, x, w)
    BY <1>9, InsertedAfter
  <1> HIDE DEF y, w
  <1>11. /\ y = [u EXCEPT !.list = y.list, !.label = y.label]
         /\ \A v, z \in E : u.label[v] < u.label[z] <=> y.label[v] < y.label[z]
         /\ \A v \in E : y.label[w] < y.label[v] <=> u.label[x] < u.label[v]
    BY <1>10 DEF After, Agree
  <1>12. y = [o EXCEPT !.list = y.list, !.label = y.label]
    <2> DEFINE list == u.list
               label == u.label
               list2 == y.list
               label2 == y.label
    <2>1. u = [o EXCEPT !.list = list, !.label = label]
      BY <1>3
    <2>2. y = [u EXCEPT !.list = list2, !.label = label2]
      BY <1>11
    <2> HIDE DEF list, label, list2, label2
    <2>3. y = [o EXCEPT !.list = list2, !.label = label2]
      BY <1>1, <2>1, <2>2 DEF Orders
    <2>4. QED
      BY <2>3 DEF list2, label2
  <1>13. Agree(D, o.label, y.label)
    BY <1>3, <1>7, <1>11 DEF Agree
  <1>14. ASSUME NEW v \in D
         PROVE  u.label[x] < u.label[v] <=> o.label[start] < o.label[v]
    <2>1. CASE q = 1
      <3>1. x = start
        BY <2>1 DEF x
      <3>2. QED
        BY <1>1, <1>3, <3>1 DEF Agree
    <2>2. CASE q # 1
      <3>1. x = sorted[q - 1] /\ q - 1 \in 1..(q - 1)
        BY <1>4, <2>2 DEF x
      <3>2. QED
        BY <1>3, <3>1
    <2>3. QED
      BY <2>1, <2>2
  <1>15. ASSUME NEW r \in 1..q, NEW v \in D
         PROVE  y.label[sorted[r]] < y.label[v] <=> o.label[start] < o.label[v]
    <2>1. CASE r = q
      <3>1. sorted[r] = w /\ v \in E
        BY <1>7, <2>1 DEF w
      <3>2. QED
        BY <1>11, <1>14, <3>1
    <2>2. CASE r # q
      <3>1. r \in 1..(q - 1)
        BY <1>2, <2>2
      <3>2. sorted[r] \in E /\ v \in E
        BY <1>7, <3>1 DEF E
      <3>3. QED
        BY <1>3, <1>11, <3>1, <3>2
    <2>3. QED
      BY <2>1, <2>2
  <1>16. ASSUME NEW r1 \in 1..q, NEW r2 \in 1..q, r1 < r2
         PROVE  y.label[sorted[r1]] < y.label[sorted[r2]]
    <2>1. r1 \in 1..(q - 1) /\ sorted[r1] \in E
      <3>1. r1 \in 1..(q - 1)
        BY <1>2, <1>16
      <3>2. QED
        BY <3>1 DEF E
    <2>2. CASE r2 # q
      <3>1. r2 \in 1..(q - 1)
        BY <1>2, <2>2
      <3>2. sorted[r2] \in E
        BY <3>1 DEF E
      <3>3. QED
        BY <1>3, <1>11, <1>16, <2>1, <3>1, <3>2
    <2>3. CASE r2 = q
      <3> DEFINE label == y.label
                 list == y.list
                 v == sorted[r1]
                 old == u.label
      <3>1. sorted[r2] = w
        BY <2>3 DEF w
      <3>2. q # 1 /\ x = sorted[q - 1] /\ q - 1 \in 1..(q - 1) /\ q - 1 \in 1..q
        BY <1>2, <1>4, <2>1 DEF x
      <3>3. ~(u.label[x] < u.label[v])
        <4>1. CASE r1 = q - 1
          <5>1. v = x /\ u.label[x] \in Int
            <6>1. x \in 0..(n + 1)
              BY <1>5, <1>7
            <6>2. u.label[x] \in Int
              BY <1>3, <6>1, LabelsAreInts
            <6>3. QED
              BY <3>2, <4>1, <6>2
          <5>2. QED
            BY <5>1
        <4>2. CASE r1 # q - 1
          <5>1. r1 < q - 1
            BY <1>2, <2>1, <4>2
          <5>2. u.label[v] < u.label[x]
            BY <1>3, <2>1, <3>2, <5>1
          <5>3. u.label[v] \in Int /\ u.label[x] \in Int
            <6>1. x \in 0..(n + 1) /\ v \in 0..(n + 1)
              BY <1>5, <1>7, <2>1
            <6> HIDE DEF v
            <6>2. QED
              BY <1>3, <6>1, LabelsAreInts
          <5>4. QED
            BY <5>2, <5>3
        <4>3. QED
          BY <4>1, <4>2
      <3>4. ~(label[w] < label[v])
        BY <1>11, <2>1, <3>3
      <3>5. OrderedBy(list, label, E \cup {w}) /\ \A z \in E \cup {w} : label[z] \in Int
        <4>1. OrderedBy(list, label, E \cup {w})
          BY <1>10 DEF Chain
        <4>2. \A z \in E \cup {w} : z \in 0..(n + 1)
          BY <1>1, <1>6, <1>7
        <4>3. \A z \in 0..(n + 1) : y.label[z] \in Int
          BY <1>10, LabelsAreInts
        <4>4. QED
          BY <4>1, <4>2, <4>3
      <3>6. v \in E \cup {w} /\ w \in E \cup {w} /\ v # w
        BY <1>6, <2>1
      <3> HIDE DEF label, list, v
      <3>7. \A z \in E \cup {w} : label[z] \in Int
        BY <3>5
      <3>8. label[v] # label[w] /\ label[v] \in Int /\ label[w] \in Int
        BY <3>5, <3>6, <3>7, LabelsApart
      <3>9. label[v] < label[w]
        BY <3>4, <3>8
      <3>10. QED
        BY <3>1, <3>9 DEF label, v
    <2>4. QED
      BY <2>2, <2>3
  <1>17. Chain(y, F)
    BY <1>8, <1>10
  <1>18. PutSo(n, o, D, start, sorted, q, y)
    BY <1>10, <1>12, <1>13, <1>15, <1>16, <1>17 DEF PutSo, F
  <1>19. QED
    BY <1>18 DEF y, x, w

\* What comes right before v has the greatest label below its.
LEMMA PreviousOf ==
    ASSUME NEW D, NEW list, NEW label, \A v \in D : label[v] \in Int,
           OrderedBy(list, label, D), NEW y \in D, NEW z \in D, label[z] < label[y]
    PROVE  /\ Place(list, y) - 1 \in DOMAIN list /\ list[Place(list, y) - 1] \in D
           /\ label[list[Place(list, y) - 1]] < label[y]
           /\ \A v \in D : label[list[Place(list, y) - 1]] < label[v] <=> label[y] <= label[v]
  <1> DEFINE q == Place(list, y)
             x == list[q - 1]
  <1>1. /\ list \in Seq(D) /\ Len(list) \in Nat /\ DOMAIN list = 1..Len(list)
        /\ \A i, j \in DOMAIN list : i < j => label[list[i]] < label[list[j]]
    BY DEF OrderedBy
  <1>2. q \in DOMAIN list /\ list[q] = y
    BY PlacesOrder
  <1>3. q - 1 \in DOMAIN list
    <2>1. Place(list, z) \in DOMAIN list /\ Place(list, z) < q
      BY PlacesOrder
    <2>2. QED
      BY <1>1, <1>2, <2>1
  <1> HIDE DEF q
  <1>4. x \in D /\ label[x] < label[y] /\ label[x] \in Int /\ label[y] \in Int
    BY <1>1, <1>2, <1>3
  <1>5. ASSUME NEW v \in D
        PROVE  label[x] < label[v] <=> label[y] <= label[v]
    <2>1. /\ Place(list, v) \in DOMAIN list /\ list[Place(list, v)] = v
      BY PlacesOrder
    <2> DEFINE r == Place(list, v)
    <2>2. r \in DOMAIN list /\ list[r] = v
      BY <2>1
    <2> HIDE DEF r
    <2>3. label[v] \in Int
      OBVIOUS
    <2>4. r < q - 1 => label[v] < label[x]
      BY <1>1, <1>3, <2>2
    <2>5. r = q - 1 => v = x
      BY <2>2
    <2>6. r = q => v = y
      BY <1>2, <2>2
    <2>7. q < r => label[y] < label[v]
      BY <1>1, <1>2, <2>2
    <2>8. r < q - 1 \/ r = q - 1 \/ r = q \/ q < r
      BY <1>1, <1>2, <2>2
    <2>9. QED
      BY <1>4, <2>3, <2>4, <2>5, <2>6, <2>7, <2>8
  <1>6. QED
    BY <1>3, <1>4, <1>5 DEF q

\* u is o with what the search x found moved, all of it in the order it was
\* in, right before the kernel or right after the accumulator.
MovedSo(n, o, x, set, u) ==
    /\ u \in Orders(n) /\ Chain(u, 0..(n + 1))
    /\ u = [o EXCEPT !.seen = x.seen, !.stamp = x.mark, !.list = u.list, !.label = u.label]
    /\ Agree(0..(n + 1) \ set, o.label, u.label) /\ Agree(set, o.label, u.label)
    /\ \A i \in set : \A v \in 0..(n + 1) \ set :
         u.label[i] < u.label[v] <=> IF x.outcome = "backward" THEN o.label[x.k] <= o.label[v]
                                     ELSE o.label[x.a] < o.label[v]

\* The move of what a search found, `set`, one after another after `start`,
\* in what is left of the list.
Moves(n, o, x, set, apart, start, sorted) ==
    /\ n \in Nat /\ n + 2 <= MaxLabel /\ o \in Orders(n) /\ Chain(o, 0..(n + 1))
    /\ x \in Searches(n) /\ x.outcome \in {"forward", "backward"}
    /\ set = IF x.outcome = "backward" THEN x.back ELSE x.fwd
    /\ x.outcome = "backward" => x.k \notin set
    /\ x.outcome = "forward" => x.a \notin set
    /\ apart = [Searched(o, x) EXCEPT !.list = Those(@, ToSet(@) \ set)]
    /\ start = IF x.outcome = "backward" THEN apart.list[Place(apart.list, x.k) - 1] ELSE x.a
    /\ sorted = Sorted(set, [v \in set |-> o.label[v]])

\* What the move starts from.
LEMMA MoveStarts ==
    ASSUME NEW n, NEW o, NEW x, NEW set, NEW apart, NEW start, NEW sorted,
           Moves(n, o, x, set, apart, start, sorted)
    PROVE  /\ Putting(n, apart, 0..(n + 1) \ set, start, sorted)
           /\ apart = [o EXCEPT !.seen = x.seen, !.stamp = x.mark, !.list = apart.list]
           /\ apart.label = o.label
           /\ ToSet(sorted) = set /\ \A q, r \in DOMAIN sorted : q < r => o.label[sorted[q]] < o.label[sorted[r]]
           /\ \A v \in 0..(n + 1) \ set :
                o.label[start] < o.label[v] <=> IF x.outcome = "backward" THEN o.label[x.k] <= o.label[v]
                                                ELSE o.label[x.a] < o.label[v]
  <1> DEFINE A == 0..(n + 1)
             D == A \ set
             list == Those(o.list, ToSet(o.list) \ set)
             label == o.label
             key == [v \in set |-> label[v]]
  <1>0. /\ n \in Nat /\ n + 2 <= MaxLabel /\ o \in Orders(n) /\ Chain(o, A)
        /\ x \in Searches(n) /\ x.outcome \in {"forward", "backward"}
        /\ set = IF x.outcome = "backward" THEN x.back ELSE x.fwd
        /\ x.outcome = "backward" => x.k \notin set
        /\ x.outcome = "forward" => x.a \notin set
    BY DEF Moves
  <1>1. /\ o.n = n /\ label \in [A -> 0..MaxLabel] /\ o.list \in Seq(A)
        /\ \A v \in A : label[v] \in Int
    <2>1. o.n = n /\ label \in [A -> 0..MaxLabel] /\ o.list \in Seq(A)
      BY <1>0 DEF Orders
    <2>2. QED
      BY <1>0, <2>1, LabelsAreInts
  <1>2. OrderedBy(o.list, label, A) /\ label[0] = 0 /\ label[n + 1] = MaxLabel
    BY <1>0, <1>1 DEF Chain
  <1>3. /\ set \subseteq 1..n /\ x.k \in 1..n /\ x.a \in 1..n
        /\ x.seen \in [1..n -> Nat] /\ x.mark \in Nat
    BY <1>0 DEF Searches
  <1>4. apart = [o EXCEPT !.seen = x.seen, !.stamp = x.mark, !.list = list]
    <2> HIDE DEF list
    <2>1. Searched(o, x) = [o EXCEPT !.seen = x.seen, !.stamp = x.mark]
      BY DEF Searched
    <2>2. Searched(o, x).list = o.list
      BY <1>0, <2>1 DEF Orders
    <2>3. apart = [Searched(o, x) EXCEPT !.list = list]
      BY <2>2 DEF list, Moves
    <2>4. QED
      BY <1>0, <2>1, <2>3 DEF Orders
  <1>5. OrderedBy(list, label, D)
    <2> HIDE DEF A, label
    <2>1. QED
      BY <1>2, ThoseOrdered
  <1>6. list \in Seq(A)
    <2>1. list \in Seq(D) /\ D \subseteq A
      BY <1>5 DEF OrderedBy
    <2> HIDE DEF list, D, A
    <2>2. QED
      BY <2>1, SeqMonotonic
  <1> HIDE DEF list
  <1>7. /\ apart \in Orders(n) /\ apart.list = list /\ apart.label = label /\ apart.n = n
    BY <1>0, <1>3, <1>4, <1>6 DEF Orders
  <1>8. Chain(apart, D)
    BY <1>2, <1>5, <1>7 DEF Chain
  <1>9. 0 \in D /\ n + 1 \in D /\ D \in SUBSET (0..(n + 1)) /\ \A v \in D : label[v] \in Int
    <2>1. 0 \in D /\ n + 1 \in D /\ D \subseteq A
      BY <1>0, <1>3
    <2> HIDE DEF label
    <2>2. \A v \in A : label[v] \in Int
      BY <1>1
    <2> HIDE DEF D
    <2>3. QED
      BY <2>1, <2>2
  <1>10. \A v, w \in A : label[v] = label[w] => v = w
    <2> HIDE DEF A, label
    <2>1. QED
      BY <1>1, <1>2, LabelsApart
  <1>11. /\ start \in D /\ start # n + 1
         /\ \A v \in D : label[start] < label[v] <=> IF x.outcome = "backward" THEN label[x.k] <= label[v]
                                                     ELSE label[x.a] < label[v]
    <2>1. CASE x.outcome = "backward"
      <3> DEFINE y == x.k
                 zero == 0
      <3>1. y \in D /\ y \in A /\ y # 0 /\ y # n + 1
        BY <1>0, <1>3, <2>1
      <3>2. label[0] < label[y] /\ label[y] < label[n + 1]
        <4>1. label[y] \in 0..MaxLabel /\ MaxLabel \in Int
          BY <1>1, <3>1, MaxLabelOf
        <4>2. label[y] # label[0] /\ label[y] # label[n + 1]
          BY <1>10, <1>9, <3>1
        <4> HIDE DEF label, y
        <4>3. QED
          BY <1>2, <4>1, <4>2
      <3>3. start = list[Place(list, y) - 1]
        BY <1>7, <2>1 DEF Moves
      <3>4. zero \in D /\ label[zero] < label[y]
        BY <1>9, <3>2
      <3> HIDE DEF D, label, y, zero
      <3> DEFINE first == list[Place(list, y) - 1]
      <3>5. /\ start \in D /\ label[start] < label[y]
            /\ \A v \in D : label[start] < label[v] <=> label[y] <= label[v]
        <4>1. /\ first \in D /\ label[first] < label[y]
              /\ \A v \in D : label[first] < label[v] <=> label[y] <= label[v]
          BY <1>5, <1>9, <3>1, <3>4, PreviousOf
        <4> HIDE DEF first
        <4>2. start = first
          BY <3>3 DEF first
        <4>3. QED
          BY <4>1, <4>2
      <3>6. start # n + 1
        <4>1. label[start] \in Int /\ label[y] \in Int
          BY <1>9, <3>1, <3>5
        <4>2. start = n + 1 => label[start] = label[n + 1]
          OBVIOUS
        <4>3. label[n + 1] \in Int
          BY <1>9
        <4>4. QED
          BY <3>2, <3>5, <4>1, <4>2, <4>3
      <3>7. QED
        BY <2>1, <3>5, <3>6 DEF y
    <2>2. CASE x.outcome = "forward"
      <3>1. start = x.a /\ x.outcome # "backward"
        BY <2>2 DEF Moves
      <3>2. QED
        BY <1>0, <1>3, <2>2, <3>1
    <2>3. QED
      BY <1>0, <2>1, <2>2
  <1>12. IsFiniteSet(set)
    <2>1. IsFiniteSet(1..n)
      BY <1>0, FS_Interval
    <2>2. QED
      BY <1>3, <2>1, FS_Subset
  <1>13. /\ \A v \in set : key[v] = label[v] /\ key[v] \in Int
         /\ \A v, w \in set : key[v] = key[w] => v = w
    <2>1. set \subseteq A
      BY <1>0, <1>3
    <2> HIDE DEF A, label
    <2>2. QED
      BY <1>1, <1>10, <2>1
  <1>14. sorted = Sorted(set, key)
    BY DEF Moves
  <1> HIDE DEF key
  <1>15. /\ sorted \in Seq(set) /\ ToSet(sorted) = set
         /\ \A q, r \in DOMAIN sorted : q < r => key[sorted[q]] < key[sorted[r]]
    BY <1>12, <1>13, <1>14, SortedSorts
  <1>16. \A q \in DOMAIN sorted : sorted[q] \in set
    BY <1>15
  <1>17. \A q, r \in DOMAIN sorted : q < r => label[sorted[q]] < label[sorted[r]]
    BY <1>13, <1>15, <1>16
  <1>18. ASSUME NEW q \in DOMAIN sorted, NEW r \in DOMAIN sorted, sorted[q] = sorted[r]
         PROVE  q = r
    <2>1. q \in Int /\ r \in Int
      BY <1>15
    <2>2. key[sorted[q]] \in Int /\ key[sorted[q]] = key[sorted[r]]
      BY <1>13, <1>16, <1>18
    <2>3. ~(q < r) /\ ~(r < q)
      BY <1>15, <2>2
    <2>4. QED
      BY <2>1, <2>3
  <1>19. sorted \in Seq(1..n)
    BY <1>3, <1>15, SeqMonotonic
  <1>20. Putting(n, apart, D, start, sorted)
    <2>1. \A r \in DOMAIN sorted : sorted[r] \notin D
      BY <1>16
    <2> HIDE DEF D, A, label
    <2>2. QED
      BY <1>0, <1>7, <1>8, <1>9, <1>11, <1>18, <1>19, <2>1 DEF Putting
  <1>21. apart = [o EXCEPT !.seen = x.seen, !.stamp = x.mark, !.list = apart.list]
    BY <1>4, <1>7
  <1> HIDE DEF D
  <1>22. QED
    BY <1>7, <1>11, <1>15, <1>17, <1>20, <1>21 DEF D

\* What is put is put one after another.
PutsAll(f, o, start, sorted) ==
    f = [q \in 0..Len(sorted) |->
           IF q = 0 THEN o
           ELSE InsertAfter(f[q - 1], IF q = 1 THEN start ELSE sorted[q - 1], sorted[q])]

PutsNext(f, start, sorted, q) ==
    f[q] = InsertAfter(f[q - 1], IF q = 1 THEN start ELSE sorted[q - 1], sorted[q])

\* So each has been put in its turn.
LEMMA PutEach ==
    ASSUME NEW n, NEW o, NEW D, NEW start, NEW sorted, Putting(n, o, D, start, sorted),
           NEW f, f[0] = o,
           \A q \in 1..Len(sorted) :
              PutSo(n, o, D, start, sorted, q - 1, f[q - 1]) => PutsNext(f, start, sorted, q)
    PROVE  \A q \in 0..Len(sorted) : PutSo(n, o, D, start, sorted, q, f[q])
  <1> DEFINE m == Len(sorted)
             P(q, u) == PutSo(n, o, D, start, sorted, q, u)
             S == {q \in 0..m : P(q, f[q])}
  <1>1. m \in Nat
    BY DEF Putting
  <1>2. 0 \in S
    BY <1>1, PutFirst
  <1>3. ASSUME NEW q \in 1..m, q - 1 \in S
        PROVE  q \in S
    <2>1. P(q - 1, f[q - 1])
      BY <1>3
    <2>2. f[q] = InsertAfter(f[q - 1], IF q = 1 THEN start ELSE sorted[q - 1], sorted[q])
      BY <2>1 DEF PutsNext
    <2>3. P(q, InsertAfter(f[q - 1], IF q = 1 THEN start ELSE sorted[q - 1], sorted[q]))
      BY <2>1, PutNext
    <2>4. P(q, f[q])
      BY <2>2, <2>3
    <2>5. q \in 0..m
      BY <1>1
    <2> HIDE DEF P
    <2>6. QED
      BY <2>4, <2>5
  <1> HIDE DEF S
  <1>4. 0..m \subseteq S
    BY <1>1, <1>2, <1>3, Inductive
  <1>5. QED
    BY <1>4 DEF S

\* It can be put.
LEMMA PutsExist ==
    ASSUME NEW n, NEW o, NEW D, NEW start, NEW sorted, Putting(n, o, D, start, sorted)
    PROVE  \E f : PutsAll(f, o, start, sorted)
  <1> DEFINE m == Len(sorted)
             put(q, u) == InsertAfter(u, IF q = 1 THEN start ELSE sorted[q - 1], sorted[q])
             next == [q \in 1..m |-> [u \in Orders(n) |-> put(q, u)]]
  <1>1. m \in Nat
    BY DEF Putting
  <1>2. PICK f : Iterates(f, m, o, next)
    <2> HIDE DEF next, m
    <2>1. QED
      BY <1>1, Recursive
  <1> HIDE DEF put
  <1>3. f[0] = o
    BY <1>1, <1>2 DEF Iterates
  <1>4. ASSUME NEW q \in 1..m, f[q - 1] \in Orders(n)
        PROVE  f[q] = put(q, f[q - 1])
    <2>1. q \in 0..m /\ q # 0
      BY <1>1
    <2>2. f[q] = next[q][f[q - 1]]
      <3> HIDE DEF next
      <3>1. QED
        BY <1>2, <2>1 DEF Iterates
    <2>3. QED
      BY <1>4, <2>2
  <1>5. \A q \in 0..m : PutSo(n, o, D, start, sorted, q, f[q])
    <2>1. ASSUME NEW q \in 1..m, PutSo(n, o, D, start, sorted, q - 1, f[q - 1])
          PROVE  PutsNext(f, start, sorted, q)
      <3>1. f[q - 1] \in Orders(n)
        BY <2>1 DEF PutSo
      <3>2. f[q] = put(q, f[q - 1])
        BY <1>4, <3>1
      <3>3. QED
        BY <3>2 DEF PutsNext, put
    <2>2. QED
      BY <1>3, <2>1, PutEach
  <1>6. ASSUME NEW q \in 0..m
        PROVE  f[q] = IF q = 0 THEN o ELSE put(q, f[q - 1])
    <2>1. CASE q = 0
      BY <1>3, <2>1
    <2>2. CASE q # 0
      <3>1. q \in 1..m /\ q - 1 \in 0..m
        BY <1>1, <2>2
      <3>2. f[q - 1] \in Orders(n)
        BY <1>5, <3>1 DEF PutSo
      <3>3. QED
        BY <1>4, <2>2, <3>1, <3>2
    <2>3. QED
      BY <2>1, <2>2
  <1>7. f = [q \in 0..m |-> IF q = 0 THEN o ELSE put(q, f[q - 1])]
    <2> DEFINE g == [q \in 0..m |-> IF q = 0 THEN o ELSE put(q, f[q - 1])]
    <2>1. \A q \in 0..m : f[q] = g[q]
      BY <1>6
    <2>2. f = [q \in 0..m |-> f[q]]
      <3> HIDE DEF next
      <3>1. QED
        BY <1>2 DEF Iterates
    <2>3. g = [q \in 0..m |-> g[q]]
      OBVIOUS
    <2> HIDE DEF g
    <2>4. f = g
      BY <2>1, <2>2, <2>3
    <2>5. QED
      BY <2>4 DEF g
  <1>8. PutsAll(f, o, start, sorted)
    BY <1>7 DEF PutsAll, put
  <1>9. QED
    BY <1>8

\* The move does it.
LEMMA MoveMoves ==
    ASSUME NEW n, NEW o, NEW x, NEW set, NEW apart, NEW start, NEW sorted,
           Moves(n, o, x, set, apart, start, sorted)
    PROVE  \E u : Moved(o, x) = Joined(u, x.a, x.k) /\ MovedSo(n, o, x, set, u)
  <1> DEFINE A == 0..(n + 1)
             D == A \ set
             m == Len(sorted)
             put == CHOOSE f : PutsAll(f, apart, start, sorted)
             u == put[m]
  <1>1. /\ Putting(n, apart, D, start, sorted)
        /\ apart = [o EXCEPT !.seen = x.seen, !.stamp = x.mark, !.list = apart.list]
        /\ apart.label = o.label
        /\ ToSet(sorted) = set /\ \A q, r \in DOMAIN sorted : q < r => o.label[sorted[q]] < o.label[sorted[r]]
        /\ \A v \in D :
             o.label[start] < o.label[v] <=> IF x.outcome = "backward" THEN o.label[x.k] <= o.label[v]
                                             ELSE o.label[x.a] < o.label[v]
    BY MoveStarts
  <1>2. /\ n \in Nat /\ o \in Orders(n) /\ set \subseteq 1..n
        /\ sorted \in Seq(1..n) /\ m \in Nat /\ DOMAIN sorted = 1..m
    BY <1>1 DEF Putting, Moves, Searches
  <1>3. PutsAll(put, apart, start, sorted)
    <2>1. \E f : PutsAll(f, apart, start, sorted)
      BY <1>1, PutsExist
    <2>2. QED
      BY <2>1
  <1>4. Moved(o, x) = Joined(u, x.a, x.k)
    <2>1. /\ set = IF x.outcome = "backward" THEN x.back ELSE x.fwd
          /\ apart = [Searched(o, x) EXCEPT !.list = Those(@, ToSet(@) \ set)]
          /\ start = IF x.outcome = "backward" THEN apart.list[Place(apart.list, x.k) - 1] ELSE x.a
          /\ sorted = Sorted(set, [v \in set |-> o.label[v]])
      BY DEF Moves
    <2>2. QED
      BY <2>1 DEF Moved, PutsAll
  <1> HIDE DEF put
  <1>5. PutSo(n, apart, D, start, sorted, m, u)
    <2>1. put[0] = apart
      BY <1>2, <1>3 DEF PutsAll
    <2>2. ASSUME NEW q \in 1..m
          PROVE  PutsNext(put, start, sorted, q)
      <3>1. q \in 0..m /\ q # 0
        BY <1>2
      <3>2. QED
        BY <1>3, <3>1 DEF PutsAll, PutsNext
    <2>3. \A q \in 0..m : PutSo(n, apart, D, start, sorted, q, put[q])
      <3>1. Putting(n, apart, D, start, sorted)
        BY <1>1
      <3> HIDE DEF D
      <3>2. QED
        BY <2>1, <2>2, <3>1, PutEach
    <2>4. m \in 0..m
      BY <1>2
    <2> HIDE DEF m, D
    <2>5. QED
      BY <2>3, <2>4
  <1> HIDE DEF u, D
  <1>6. {sorted[r] : r \in 1..m} = set
    BY <1>1, <1>2 DEF ToSet
  <1>7. /\ u \in Orders(n) /\ Chain(u, D \cup set)
        /\ u = [apart EXCEPT !.list = u.list, !.label = u.label]
        /\ Agree(D, o.label, u.label)
        /\ \A r \in 1..m : \A v \in D : u.label[sorted[r]] < u.label[v] <=> o.label[start] < o.label[v]
        /\ \A r1, r2 \in 1..m : r1 < r2 => u.label[sorted[r1]] < u.label[sorted[r2]]
    <2>1. Chain(u, D \cup {sorted[r] : r \in 1..m})
      BY <1>5 DEF PutSo
    <2>2. Chain(u, D \cup set)
      BY <1>6, <2>1
    <2>3. Agree(D, apart.label, u.label)
      BY <1>5 DEF PutSo
    <2>4. \A r \in 1..m : \A v \in D : u.label[sorted[r]] < u.label[v] <=> apart.label[start] < apart.label[v]
      BY <1>5 DEF PutSo
    <2>5. apart.label = o.label
      BY <1>1
    <2>6. /\ u \in Orders(n) /\ u = [apart EXCEPT !.list = u.list, !.label = u.label]
          /\ \A r1, r2 \in 1..m : r1 < r2 => u.label[sorted[r1]] < u.label[sorted[r2]]
      BY <1>5 DEF PutSo
    <2>7. Agree(D, o.label, u.label)
      BY <2>3, <2>5
    <2>8. \A r \in 1..m : \A v \in D : u.label[sorted[r]] < u.label[v] <=> o.label[start] < o.label[v]
      BY <2>4, <2>5
    <2>9. QED
      BY <2>2, <2>6, <2>7, <2>8
  <1>8. D \cup set = A
    <2>1. set \subseteq A
      BY <1>2
    <2> HIDE DEF A
    <2>2. QED
      BY <2>1 DEF D
  <1>9. u = [o EXCEPT !.seen = x.seen, !.stamp = x.mark, !.list = u.list, !.label = u.label]
    <2> DEFINE list == u.list
               label == u.label
               mid == apart.list
    <2>1. apart = [o EXCEPT !.seen = x.seen, !.stamp = x.mark, !.list = mid]
      BY <1>1
    <2>2. u = [apart EXCEPT !.list = list, !.label = label]
      BY <1>7
    <2> HIDE DEF list, label, mid
    <2>3. u = [o EXCEPT !.seen = x.seen, !.stamp = x.mark, !.list = list, !.label = label]
      BY <1>2, <2>1, <2>2 DEF Orders
    <2>4. QED
      BY <2>3 DEF list, label
  <1>10. \A i \in set : \E r \in 1..m : sorted[r] = i
    BY <1>6
  <1>11. ASSUME NEW i \in set, NEW v \in D
         PROVE  u.label[i] < u.label[v] <=> IF x.outcome = "backward" THEN o.label[x.k] <= o.label[v]
                                            ELSE o.label[x.a] < o.label[v]
    <2>1. PICK r \in 1..m : sorted[r] = i
      BY <1>10
    <2>2. u.label[i] < u.label[v] <=> o.label[start] < o.label[v]
      BY <1>7, <2>1
    <2>3. QED
      BY <1>1, <2>2
  <1>12. ASSUME NEW i \in set, NEW j \in set
         PROVE  o.label[i] < o.label[j] <=> u.label[i] < u.label[j]
    <2>1. PICK q \in 1..m : sorted[q] = i
      BY <1>10
    <2>2. PICK r \in 1..m : sorted[r] = j
      BY <1>10
    <2>3. q < r \/ q = r \/ r < q
      BY <1>2
    <2>4. /\ q < r => o.label[i] < o.label[j] /\ u.label[i] < u.label[j]
          /\ r < q => o.label[j] < o.label[i] /\ u.label[j] < u.label[i]
      BY <1>1, <1>2, <1>7, <2>1, <2>2
    <2>5. /\ o.label[i] \in Int /\ o.label[j] \in Int /\ u.label[i] \in Int /\ u.label[j] \in Int
      <3>1. i \in A /\ j \in A
        BY <1>8
      <3>2. QED
        BY <1>2, <1>7, <3>1, LabelsAreInts
    <2>6. q = r => i = j
      BY <2>1, <2>2
    <2>7. QED
      BY <2>3, <2>4, <2>5, <2>6
  <1>13. Agree(set, o.label, u.label)
    BY <1>12 DEF Agree
  <1>14. MovedSo(n, o, x, set, u)
    BY <1>7, <1>8, <1>9, <1>11, <1>13 DEF MovedSo, D
  <1>15. QED
    BY <1>4, <1>14

------------------------------------------------------------------------------
(* The order with an edge more                                              *)

\* A list of all is as long as they are many.
LEMMA ChainLength ==
    ASSUME NEW n \in Nat, NEW list, NEW label, \A v \in 0..(n + 1) : label[v] \in Int,
           OrderedBy(list, label, 0..(n + 1))
    PROVE  Len(list) = n + 2
  <1> DEFINE A == 0..(n + 1)
             m == Len(list)
  <1>1. /\ list \in Seq(A) /\ m \in Nat /\ DOMAIN list = 1..m /\ ToSet(list) = A
        /\ \A q, r \in DOMAIN list : q < r => label[list[q]] < label[list[r]]
    BY DEF OrderedBy
  <1>2. IsFiniteSet(A) /\ Cardinality(A) = n + 2
    <2>1. 0 \in Int /\ n + 1 \in Int /\ (n + 1) - 0 + 1 = n + 2 /\ ~(0 > n + 1)
      OBVIOUS
    <2>2. IsFiniteSet(A) /\ Cardinality(A) = IF 0 > n + 1 THEN 0 ELSE (n + 1) - 0 + 1
      <3> DEFINE top == n + 1
      <3> HIDE DEF top
      <3>1. IsFiniteSet(0..top) /\ Cardinality(0..top) = IF 0 > top THEN 0 ELSE top - 0 + 1
        BY <2>1, FS_Interval DEF top
      <3>2. QED
        BY <3>1 DEF top
    <2>3. QED
      BY <2>1, <2>2
  <1>3. IsFiniteSet(1..m) /\ Cardinality(1..m) = m
    <2> HIDE DEF m
    <2>1. QED
      BY <1>1, FS_Interval
  <1>4. ASSUME NEW q \in 1..m, NEW r \in 1..m, list[q] = list[r]
        PROVE  q = r
    <2>1. q \in Int /\ r \in Int
      BY <1>1
    <2>2. list[q] \in A
      BY <1>1
    <2>3. label[list[q]] \in Int
      BY <2>2
    <2>4. label[list[q]] = label[list[r]]
      BY <1>4
    <2>5. /\ q < r => label[list[q]] < label[list[r]]
          /\ r < q => label[list[r]] < label[list[q]]
      BY <1>1
    <2> HIDE DEF m
    <2>6. QED
      BY <2>1, <2>3, <2>4, <2>5
  <1>5. list \in Bijection(1..m, A)
    <2>1. list \in [1..m -> A]
      BY <1>1
    <2>2. \A v \in A : \E q \in 1..m : list[q] = v
      BY <1>1 DEF ToSet
    <2> HIDE DEF A, m
    <2>3. QED
      BY <1>4, <2>1, <2>2 DEF Bijection, Injection, Surjection, IsInjective
  <1>6. Cardinality(1..m) = Cardinality(A)
    <2> HIDE DEF A, m
    <2>1. QED
      BY <1>3, <1>5, FS_Bijection DEF ExistsBijection
  <1>7. QED
    BY <1>2, <1>3, <1>6

\* The same reads, and the kernel's of what it takes.
ReadsMore(n, reads, reads2, k0, a) ==
    \A i \in 1..n : reads2[i] = reads[i] \cup IF i = k0 THEN {a} ELSE {}

\* Kernel k0 may read a: whatever the labels say it may.
LEMMA JoinedOrdered ==
    ASSUME NEW n \in Nat, NEW u \in Orders(n), Chain(u, 0..(n + 1)),
           NEW reads, NEW reads2, NEW a \in 1..n, NEW k0 \in 1..n,
           ReadsMore(n, reads, reads2, k0, a),
           \A j \in 1..n : ToSet(Readers(u, j)) = {i \in 1..n : j \in reads[i]},
           \A i \in 1..n : \A j \in reads2[i] : u.label[j] < u.label[i],
           \A w \in 1..n : u.seen[w] <= u.stamp + 1
    PROVE  /\ Joined(u, a, k0) \in Orders(n) /\ OrderOf(Joined(u, a, k0), reads2)
           /\ Chain(Joined(u, a, k0), 0..(n + 1))
  <1> DEFINE y == Joined(u, a, k0)
             old == u.added
             new == [old EXCEPT ![a] = Append(old[a], k0)]
  <1>1. /\ u.n = n /\ old \in [1..n -> Seq(1..n)] /\ u.readers \in [1..n -> Seq(1..n)]
        /\ u.list \in Seq(0..(n + 1))
    BY DEF Orders
  <1>2. y = [u EXCEPT !.added = new]
    <2>1. ~(a > u.n)
      BY <1>1
    <2>2. QED
      BY <2>1 DEF Joined
  <1>3. new \in [1..n -> Seq(1..n)]
    <2>1. Append(old[a], k0) \in Seq(1..n)
      BY <1>1
    <2> HIDE DEF old
    <2>2. QED
      BY <1>1, <2>1
  <1>4. \A j \in 1..n : new[j] = IF j = a THEN Append(old[a], k0) ELSE old[j]
    BY <1>1
  <1> HIDE DEF new
  <1>5. /\ y \in Orders(n) /\ y.n = n /\ y.label = u.label /\ y.list = u.list
        /\ y.readers = u.readers /\ y.added = new /\ y.seen = u.seen /\ y.stamp = u.stamp
    BY <1>2, <1>3 DEF Orders
  <1> HIDE DEF y
  <1>6. Chain(y, 0..(n + 1))
    BY <1>1, <1>5 DEF Chain
  <1>7. ASSUME NEW j \in 1..n
        PROVE  ToSet(Readers(y, j)) = {i \in 1..n : j \in reads2[i]}
    <2> DEFINE one == u.readers[j]
               two == old[j]
    <2>1. ToSet(one \o two) = {i \in 1..n : j \in reads[i]} /\ one \in Seq(1..n) /\ two \in Seq(1..n)
      BY <1>1 DEF Readers
    <2>2. CASE j = a
      <3>1. Readers(y, j) = one \o Append(two, k0)
        BY <1>4, <1>5, <2>2 DEF Readers
      <3>2. {i \in 1..n : j \in reads2[i]} = {i \in 1..n : j \in reads[i]} \cup {k0}
        BY <2>2 DEF ReadsMore
      <3> HIDE DEF one, two
      <3>3. one \o Append(two, k0) = Append(one \o two, k0)
        BY <2>1
      <3> DEFINE both == one \o two
      <3>4. both \in Seq(1..n)
        BY <2>1
      <3> HIDE DEF both
      <3>5. ToSet(Append(both, k0)) = ToSet(both) \cup {k0}
        <4> DEFINE S == 1..n
        <4>1. both \in Seq(S) /\ k0 \in S
          BY <3>4
        <4> HIDE DEF S
        <4>2. /\ DOMAIN Append(both, k0) = DOMAIN both \cup {Len(both) + 1}
              /\ Append(both, k0)[Len(both) + 1] = k0
              /\ \A q \in DOMAIN both : Append(both, k0)[q] = both[q]
          BY <4>1, Pushed
        <4>3. QED
          BY <4>2 DEF ToSet
      <3>6. QED
        BY <2>1, <3>1, <3>2, <3>3, <3>5 DEF both
    <2>3. CASE j # a
      <3>1. Readers(y, j) = one \o two
        BY <1>4, <1>5, <2>3 DEF Readers
      <3>2. {i \in 1..n : j \in reads2[i]} = {i \in 1..n : j \in reads[i]}
        BY <2>3 DEF ReadsMore
      <3>3. QED
        BY <2>1, <3>1, <3>2
    <2>4. QED
      BY <2>2, <2>3
  <1>8. Len(u.list) = n + 2
    <2> DEFINE list == u.list
               label == u.label
    <2>1. OrderedBy(list, label, 0..(n + 1))
      BY DEF Chain
    <2>2. \A v \in 0..(n + 1) : label[v] \in Int
      BY LabelsAreInts
    <2> HIDE DEF list, label
    <2>3. Len(list) = n + 2
      BY <2>1, <2>2, ChainLength
    <2>4. QED
      BY <2>3 DEF list
  <1>9. OrderOf(y, reads2)
    <2>1. /\ Len(y.list) = y.n + 2 /\ ToSet(y.list) = 0..(y.n + 1)
          /\ \A q, r \in DOMAIN y.list : q < r => y.label[y.list[q]] < y.label[y.list[r]]
      BY <1>5, <1>6, <1>8 DEF Chain, OrderedBy
    <2>2. \A i \in 1..y.n : \A j \in reads2[i] : y.label[j] < y.label[i]
      BY <1>5
    <2>3. \A w \in 1..y.n : y.seen[w] <= y.stamp + 1
      BY <1>5
    <2>4. QED
      BY <1>5, <1>7, <2>1, <2>2, <2>3 DEF OrderOf
  <1>10. QED
    BY <1>5, <1>6, <1>9 DEF y

\* What a sound order lists is all there is.
LEMMA SoundChain ==
    ASSUME NEW n \in Nat, NEW o \in Orders(n), NEW reads, OrderOf(o, reads),
           o.label[0] = 0, o.label[n + 1] = MaxLabel
    PROVE  Chain(o, 0..(n + 1))
  <1>1. o.n = n /\ o.list \in Seq(0..(n + 1))
    BY DEF Orders
  <1>2. QED
    BY <1>1 DEF OrderOf, Chain, OrderedBy

\* A search's answer: the accumulator does not depend on the kernel, and the
\* side that moves is all there is of it.
Answered(n, o, reads, x, set) ==
    /\ x \in Searches(n) /\ x.outcome \in {"forward", "backward"}
    /\ o.label[x.k] < o.label[x.a]
    /\ x.k \notin DependsOn(reads, {x.a})
    /\ x.outcome = "backward" => set = x.back /\ set = Below(o, reads, x)
    /\ x.outcome = "forward" => set = x.fwd /\ set = Above(o, reads, x)
    /\ \A w \in 1..n : x.seen[w] <= x.mark + 1

\* The move leaves no reader before what it reads, nor the kernel before
\* what it takes.
LEMMA MoveOrders ==
    ASSUME NEW n \in Nat, NEW o \in Orders(n), NEW reads \in [1..n -> SUBSET (1..n)], OrderOf(o, reads),
           NEW x, NEW set, Answered(n, o, reads, x, set), NEW u, MovedSo(n, o, x, set, u)
    PROVE  /\ \A i \in 1..n : \A j \in reads[i] : u.label[j] < u.label[i]
           /\ u.label[x.a] < u.label[x.k]
  <1> DEFINE A == 0..(n + 1)
             D == A \ set
             old == o.label
             new == u.label
             a == x.a
             k0 == x.k
             below == DependsOn(reads, {a})
  <1>1. /\ o.n = n /\ k0 \in 1..n /\ a \in 1..n /\ x.outcome \in {"forward", "backward"}
        /\ old[k0] < old[a] /\ k0 \notin below
        /\ x.outcome = "backward" => set = {j \in below : old[j] > old[k0]}
        /\ x.outcome = "forward" => set = {v \in 1..n : k0 \in DependsOn(reads, {v}) /\ old[v] < old[a]}
        /\ below \subseteq 1..n
    <2>1. o.n = n /\ DOMAIN reads = 1..n
      BY DEF Orders
    <2>2. below \subseteq 1..n
      BY <2>1 DEF DependsOn
    <2>3. k0 \in 1..n /\ a \in 1..n
      BY DEF Answered, Searches
    <2>4. /\ x.outcome = "backward" => set = {j \in below : old[j] > old[k0]}
          /\ x.outcome = "forward" => set = {v \in 1..n : k0 \in DependsOn(reads, {v}) /\ old[v] < old[a]}
      BY <2>1 DEF Answered, Above, Below
    <2>5. QED
      BY <2>1, <2>2, <2>3, <2>4 DEF Answered
  <1>2. set \subseteq 1..n /\ 1..n \subseteq A
    <2>1. set \subseteq 1..n
      <3> HIDE DEF below, old
      <3>1. QED
        BY <1>1
    <2>2. QED
      BY <2>1
  <1>3. /\ u \in Orders(n) /\ Chain(u, A)
        /\ \A i, j \in D : old[i] < old[j] <=> new[i] < new[j]
        /\ \A i, j \in set : old[i] < old[j] <=> new[i] < new[j]
        /\ \A i \in set : \A v \in D : new[i] < new[v] <=> IF x.outcome = "backward" THEN old[k0] <= old[v]
                                                           ELSE old[a] < old[v]
    BY DEF MovedSo, Agree
  <1>4. \A v \in A : old[v] \in Int /\ new[v] \in Int
    BY <1>3, LabelsAreInts
  <1>5. \A i, j \in 1..n : i # j => old[i] # old[j]
    BY <1>1, LabelsDiffer
  <1>6. \A i, j \in A : new[i] = new[j] => i = j
    <2>1. OrderedBy(u.list, new, A)
      BY <1>3 DEF Chain
    <2> HIDE DEF A, new
    <2>2. QED
      BY <1>4, <2>1, LabelsApart
  <1>7. \A i \in 1..n : \A j \in reads[i] : j \in 1..n /\ old[j] < old[i]
    BY <1>1 DEF OrderOf
  <1>8. \A i \in below : \A j \in reads[i] : j \in below
    BY DependsOnwards
  <1>9. \A i \in 1..n : \A j \in reads[i] : k0 \in DependsOn(reads, {j}) => k0 \in DependsOn(reads, {i})
    BY DependsThrough
  <1>10. a \in below /\ k0 \in DependsOn(reads, {k0})
    BY <1>1, DependsOnItself
  <1> HIDE DEF old, new, below, A
  <1>11. CASE x.outcome = "backward"
    <2>1. /\ set = {j \in below : old[j] > old[k0]}
          /\ \A i \in set : \A v \in D : new[i] < new[v] <=> old[k0] <= old[v]
      BY <1>1, <1>3, <1>11
    <2>2. ASSUME NEW i \in 1..n, NEW j \in reads[i]
          PROVE  new[j] < new[i]
      <3>1. j \in 1..n /\ old[j] < old[i] /\ i \in A /\ j \in A
        BY <1>2, <1>7
      <3>2. CASE (i \in set /\ j \in set) \/ (i \in D /\ j \in D)
        BY <1>3, <3>1, <3>2
      <3>3. CASE i \in set /\ j \in D
        <4>1. j \in below /\ j # k0
          BY <1>1, <1>8, <2>1, <3>3
        <4>2. ~(old[j] > old[k0]) /\ old[j] # old[k0] /\ old[j] \in Int /\ old[k0] \in Int
          BY <1>1, <1>2, <1>4, <1>5, <2>1, <3>1, <3>3, <4>1
        <4>3. ~(new[i] < new[j])
          BY <2>1, <3>3, <4>2
        <4>4. new[i] # new[j] /\ new[i] \in Int /\ new[j] \in Int
          BY <1>4, <1>6, <3>1, <3>3
        <4>5. QED
          BY <4>3, <4>4
      <3>4. CASE i \in D /\ j \in set
        <4>1. old[j] > old[k0] /\ old[j] \in Int /\ old[k0] \in Int /\ old[i] \in Int
          BY <1>1, <1>2, <1>4, <2>1, <3>1, <3>4
        <4>2. old[k0] <= old[i]
          BY <3>1, <4>1
        <4>3. QED
          BY <2>1, <3>4, <4>2
      <3>5. QED
        BY <3>1, <3>2, <3>3, <3>4
    <2>3. new[a] < new[k0]
      <3>1. old[a] \in Int /\ old[k0] \in Int /\ k0 \in A
        BY <1>1, <1>2, <1>4
      <3>2. a \in set /\ k0 \in D
        BY <1>1, <1>10, <2>1, <3>1
      <3>3. QED
        BY <2>1, <3>1, <3>2
    <2>4. QED
      BY <2>2, <2>3 DEF new
  <1>12. CASE x.outcome = "forward"
    <2>1. /\ set = {v \in 1..n : k0 \in DependsOn(reads, {v}) /\ old[v] < old[a]}
          /\ \A i \in set : \A v \in D : new[i] < new[v] <=> old[a] < old[v]
      BY <1>1, <1>3, <1>12
    <2>2. ASSUME NEW i \in 1..n, NEW j \in reads[i]
          PROVE  new[j] < new[i]
      <3>1. j \in 1..n /\ old[j] < old[i] /\ i \in A /\ j \in A
        BY <1>2, <1>7
      <3>2. CASE (i \in set /\ j \in set) \/ (i \in D /\ j \in D)
        BY <1>3, <3>1, <3>2
      <3>3. CASE i \in set /\ j \in D
        <4>1. ~(old[a] < old[j])
          <5>1. old[i] < old[a] /\ old[i] \in Int /\ old[a] \in Int /\ old[j] \in Int
            BY <1>1, <1>2, <1>4, <2>1, <3>1, <3>3
          <5>2. QED
            BY <3>1, <5>1
        <4>2. ~(new[i] < new[j])
          BY <2>1, <3>3, <4>1
        <4>3. new[i] # new[j] /\ new[i] \in Int /\ new[j] \in Int
          BY <1>4, <1>6, <3>1, <3>3
        <4>4. QED
          BY <4>2, <4>3
      <3>4. CASE i \in D /\ j \in set
        <4>1. k0 \in DependsOn(reads, {i})
          BY <1>9, <2>1, <3>4
        <4>2. i # a
          BY <1>1, <4>1 DEF below
        <4>3. ~(old[i] < old[a]) /\ old[i] # old[a] /\ old[i] \in Int /\ old[a] \in Int
          <5>1. i \notin set
            BY <3>4
          <5>2. ~(old[i] < old[a])
            BY <2>1, <4>1, <5>1
          <5>3. a \in 1..n /\ a \in A
            BY <1>1, <1>2
          <5>4. QED
            BY <1>4, <1>5, <3>1, <4>2, <5>2, <5>3
        <4>4. old[a] < old[i]
          BY <4>3
        <4>5. QED
          BY <2>1, <3>4, <4>4
      <3>5. QED
        BY <3>1, <3>2, <3>3, <3>4
    <2>3. new[a] < new[k0]
      <3>1. old[a] \in Int /\ old[k0] \in Int /\ a \in A /\ k0 \in A
        BY <1>1, <1>2, <1>4
      <3>2. k0 \in set /\ a \in D
        <4>1. k0 \in set
          BY <1>1, <1>10, <2>1
        <4>2. a \notin set
          <5>1. ~(old[a] < old[a])
            BY <3>1
          <5>2. QED
            BY <2>1, <5>1
        <4>3. QED
          BY <3>1, <4>1, <4>2
      <3>3. ~(new[k0] < new[a])
        <4>1. ~(old[a] < old[a])
          BY <3>1
        <4> HIDE DEF D
        <4>2. QED
          BY <2>1, <3>2, <4>1
      <3>4. new[k0] # new[a] /\ new[k0] \in Int /\ new[a] \in Int
        BY <1>4, <1>6, <3>1, <3>2
      <3>5. QED
        BY <3>3, <3>4
    <2>4. QED
      BY <2>2, <2>3 DEF new
  <1>13. QED
    BY <1>1, <1>11, <1>12

\* What moves the kernel's side or the accumulator's leaves an order of the
\* program with the accumulator taken.
LEMMA MovedOrdered ==
    ASSUME NEW n \in Nat, n + 2 <= MaxLabel, NEW o \in Orders(n), NEW reads \in [1..n -> SUBSET (1..n)],
           OrderOf(o, reads), o.label[0] = 0, o.label[n + 1] = MaxLabel,
           NEW x, NEW set, Answered(n, o, reads, x, set),
           NEW reads2, ReadsMore(n, reads, reads2, x.k, x.a)
    PROVE  /\ Moved(o, x) \in Orders(n) /\ OrderOf(Moved(o, x), reads2)
           /\ Chain(Moved(o, x), 0..(n + 1))
  <1> DEFINE apart == [Searched(o, x) EXCEPT !.list = Those(@, ToSet(@) \ set)]
             start == IF x.outcome = "backward" THEN apart.list[Place(apart.list, x.k) - 1] ELSE x.a
             sorted == Sorted(set, [v \in set |-> o.label[v]])
  <1>1. /\ x \in Searches(n) /\ x.outcome \in {"forward", "backward"}
        /\ x.k \in 1..n /\ x.a \in 1..n /\ \A w \in 1..n : x.seen[w] <= x.mark + 1
    BY DEF Answered, Searches
  <1>2. set = IF x.outcome = "backward" THEN x.back ELSE x.fwd
    BY <1>1 DEF Answered
  <1>3. /\ x.outcome = "backward" => x.k \notin set
        /\ x.outcome = "forward" => x.a \notin set
    <2>1. o.label[x.k] \in Int /\ o.label[x.a] \in Int
      <3>1. x.k \in 0..(n + 1) /\ x.a \in 0..(n + 1)
        BY <1>1
      <3>2. QED
        BY <3>1, LabelsAreInts
    <2>2. ~(o.label[x.k] > o.label[x.k]) /\ ~(o.label[x.a] < o.label[x.a])
      BY <2>1
    <2>3. QED
      BY <2>2 DEF Answered, Above, Below
  <1>4. Chain(o, 0..(n + 1))
    BY SoundChain
  <1>5. Moves(n, o, x, set, apart, start, sorted)
    <2> HIDE DEF sorted, start, apart
    <2>1. QED
      BY <1>1, <1>2, <1>3, <1>4 DEF Moves, apart, start, sorted
  <1>6. PICK u : Moved(o, x) = Joined(u, x.a, x.k) /\ MovedSo(n, o, x, set, u)
    BY <1>5, MoveMoves
  <1>7. /\ u \in Orders(n) /\ Chain(u, 0..(n + 1))
        /\ u.readers = o.readers /\ u.added = o.added /\ u.seen = x.seen /\ u.stamp = x.mark /\ o.n = n
    <2>1. u \in Orders(n) /\ Chain(u, 0..(n + 1))
      BY <1>6 DEF MovedSo
    <2> DEFINE list == u.list
               label == u.label
    <2>2. u = [o EXCEPT !.seen = x.seen, !.stamp = x.mark, !.list = list, !.label = label]
      BY <1>6 DEF MovedSo
    <2> HIDE DEF list, label
    <2>3. /\ u.readers = o.readers /\ u.added = o.added /\ u.seen = x.seen /\ u.stamp = x.mark
          /\ o.n = n
      BY <2>2 DEF Orders
    <2>4. QED
      BY <2>1, <2>3
  <1>8. /\ \A i \in 1..n : \A j \in reads[i] : u.label[j] < u.label[i]
        /\ u.label[x.a] < u.label[x.k]
    BY <1>6, MoveOrders
  <1>9. ASSUME NEW i \in 1..n, NEW j \in reads2[i]
        PROVE  u.label[j] < u.label[i]
    <2>1. j \in reads[i] \/ (i = x.k /\ j = x.a)
      BY <1>9 DEF ReadsMore
    <2>2. QED
      BY <1>8, <2>1
  <1>10. \A j \in 1..n : ToSet(Readers(u, j)) = {i \in 1..n : j \in reads[i]}
    BY <1>7 DEF OrderOf, Readers
  <1>11. \A w \in 1..n : u.seen[w] <= u.stamp + 1
    BY <1>1, <1>7
  <1> DEFINE a == x.a
             k0 == x.k
  <1>12. a \in 1..n /\ k0 \in 1..n /\ ReadsMore(n, reads, reads2, k0, a)
    BY <1>1
  <1>13. Moved(o, x) = Joined(u, a, k0)
    BY <1>6
  <1> HIDE DEF a, k0
  <1>14. u \in Orders(n) /\ Chain(u, 0..(n + 1))
    BY <1>7
  <1>15. \A i \in 1..n : \A j \in reads2[i] : u.label[j] < u.label[i]
    BY <1>9
  <1>16. /\ Joined(u, a, k0) \in Orders(n) /\ OrderOf(Joined(u, a, k0), reads2)
         /\ Chain(Joined(u, a, k0), 0..(n + 1))
    BY <1>10, <1>11, <1>12, <1>14, <1>15, JoinedOrdered
  <1>17. QED
    BY <1>13, <1>16

------------------------------------------------------------------------------
(* The program                                                              *)

\* What an instruction of a program is.
Instructions(q) ==
    [kind : {q.insts[i].kind : i \in DOMAIN q.insts}, ins : Seq(RefsTo(Len(q.insts))),
     nOut : Nat, pure : BOOLEAN]

\* The instructions of a program are instructions, and their operands it may read.
LEMMA InstructionsOf ==
    ASSUME NEW q, WellTyped(q)
    PROVE  /\ q.insts \in Seq(Instructions(q)) /\ Len(q.insts) \in Nat
           /\ DOMAIN q.insts = 1..Len(q.insts)
           /\ \A i \in 1..Len(q.insts) : /\ q.insts[i] \in Instructions(q)
                                         /\ q.insts[i].ins \in Seq(RefsTo(Len(q.insts)))
  <1>1. q.insts \in Seq(Instructions(q))
    BY DEF WellTyped, Instructions
  <1>2. Len(q.insts) \in Nat /\ DOMAIN q.insts = 1..Len(q.insts)
    BY <1>1
  <1>3. \A i \in 1..Len(q.insts) : q.insts[i] \in Instructions(q)
    BY <1>1, <1>2
  <1>4. \A x \in Instructions(q) : x.ins \in Seq(RefsTo(Len(q.insts)))
    BY DEF Instructions
  <1>5. QED
    BY <1>1, <1>2, <1>3, <1>4

\* A reference is to an instruction, or to an input.
LEMMA RefsAre ==
    ASSUME NEW n \in Nat, NEW r \in RefsTo(n)
    PROVE  IsValue(r) => r[2] \in 1..n
  BY DEF RefsTo, IsValue

\* What is read is there, and the operands are as many.
LEMMA ReadsWithin ==
    ASSUME NEW q, WellTyped(q), NEW n, n = Len(q.insts)
    PROVE  /\ \A i \in 1..n : Reads(q.insts[i]) \in SUBSET (1..n)
           /\ Operands(q) \in [1..n -> Seq(0..n)]
  <1>1. /\ n \in Nat /\ DOMAIN q.insts = 1..n
        /\ \A i \in 1..n : q.insts[i].ins \in Seq(RefsTo(n))
    BY InstructionsOf
  <1>2. ASSUME NEW i \in 1..n
        PROVE  /\ Reads(q.insts[i]) \in SUBSET (1..n)
               /\ [a \in DOMAIN q.insts[i].ins |->
                     IF IsValue(q.insts[i].ins[a]) THEN q.insts[i].ins[a][2] ELSE 0] \in Seq(0..n)
    <2> DEFINE ins == q.insts[i].ins
               in == [a \in DOMAIN ins |-> IF IsValue(ins[a]) THEN ins[a][2] ELSE 0]
    <2>1. ins \in Seq(RefsTo(n)) /\ Len(ins) \in Nat /\ DOMAIN ins = 1..Len(ins)
      BY <1>1
    <2>2. \A a \in DOMAIN ins : ins[a] \in RefsTo(n)
      BY <2>1
    <2>3. \A a \in DOMAIN ins : IsValue(ins[a]) => ins[a][2] \in 1..n
      BY <1>1, <2>2, RefsAre
    <2>4. Reads(q.insts[i]) \in SUBSET (1..n)
      BY <2>3 DEF Reads
    <2> HIDE DEF ins
    <2>5. \A a \in 1..Len(ins) : in[a] \in 0..n
      BY <1>1, <2>1, <2>3
    <2>6. in \in Seq(0..n)
      BY <2>1, <2>5
    <2>7. QED
      BY <2>4, <2>6 DEF ins
  <1>3. Operands(q) \in [1..n -> Seq(0..n)]
    BY <1>1, <1>2 DEF Operands
  <1>4. QED
    BY <1>2, <1>3

\* An instruction gets operands more.
Grown(q, k0, refs) == [q EXCEPT !.insts[k0].ins = @ \o refs]

\* It is the only one to change, and by them.
OnlyGrown(q, n, k0, refs, q2) ==
    /\ WellTyped(q2) /\ Len(q2.insts) = n /\ DOMAIN q2.insts = 1..n
    /\ q2.insts[k0].ins = q.insts[k0].ins \o refs
    /\ \A i \in 1..n : i # k0 => q2.insts[i] = q.insts[i]

\* A program with an instruction given operands more is one, and no other instruction changes.
LEMMA ProgramGrows ==
    ASSUME NEW q, WellTyped(q), NEW n, n = Len(q.insts), NEW k0 \in 1..n,
           NEW refs \in Seq(RefsTo(n)), NEW q2, q2 = Grown(q, k0, refs)
    PROVE  OnlyGrown(q, n, k0, refs, q2)
  <1> DEFINE old == q.insts
             ins == old[k0].ins \o refs
             inst == [old[k0] EXCEPT !.ins = ins]
             new == [old EXCEPT ![k0] = inst]
  <1>1. /\ n \in Nat /\ old \in Seq(Instructions(q)) /\ DOMAIN old = 1..n
        /\ \A i \in 1..n : old[i] \in Instructions(q) /\ old[i].ins \in Seq(RefsTo(n))
    BY InstructionsOf
  <1>2. ins \in Seq(RefsTo(n))
    BY <1>1
  <1> HIDE DEF ins
  <1>3. inst \in Instructions(q) /\ inst.ins = ins /\ inst.kind = old[k0].kind
    <2>1. old[k0] \in Instructions(q)
      BY <1>1
    <2> HIDE DEF old
    <2>2. QED
      BY <1>2, <2>1 DEF Instructions
  <1> HIDE DEF inst
  <1>4. /\ new \in Seq(Instructions(q)) /\ DOMAIN new = 1..n /\ Len(new) = n /\ new[k0] = inst
        /\ \A i \in 1..n : i # k0 => new[i] = old[i]
    <2> HIDE DEF old
    <2>1. QED
      BY <1>1, <1>3
  <1>5. q2 = [q EXCEPT !.insts = new]
    BY DEF inst, ins, Grown
  <1> HIDE DEF new
  <1>6. /\ q2.insts = new /\ q2.roots = q.roots /\ q2.place = q.place /\ q2.kept = q.kept
        /\ q2 \in [insts : {new}, roots : {q.roots}, place : {q.place}, kept : {q.kept}]
    <2>1. PICK S : q \in [insts : S, roots : {q.roots}, place : {q.place}, kept : {q.kept}]
      BY DEF WellTyped
    <2> DEFINE roots == q.roots
               place == q.place
               kept == q.kept
    <2>2. q \in [insts : S, roots : {roots}, place : {place}, kept : {kept}]
      BY <2>1
    <2> HIDE DEF roots, place, kept
    <2>3. /\ q2.insts = new /\ q2.roots = roots /\ q2.place = place /\ q2.kept = kept
          /\ q2 \in [insts : {new}, roots : {roots}, place : {place}, kept : {kept}]
      BY <1>5, <2>2
    <2>4. QED
      BY <2>3 DEF roots, place, kept
  <1>7. \A i \in 1..n : new[i].kind = old[i].kind
    BY <1>3, <1>4
  <1> HIDE DEF old
  <1>8. Instructions(q2) = Instructions(q)
    <2> DEFINE kinds == {old[i].kind : i \in 1..n}
    <2>1. {new[i].kind : i \in 1..n} = kinds
      BY <1>7
    <2>2. {q2.insts[i].kind : i \in DOMAIN q2.insts} = kinds
      <3>1. q2.insts = new /\ DOMAIN new = 1..n
        BY <1>4, <1>6
      <3> HIDE DEF kinds
      <3>2. QED
        BY <2>1, <3>1
    <2>3. {q.insts[i].kind : i \in DOMAIN q.insts} = kinds
      BY <1>1 DEF old
    <2>4. Len(q2.insts) = n
      BY <1>4, <1>6
    <2> HIDE DEF kinds
    <2>5. Instructions(q2) = [kind : kinds, ins : Seq(RefsTo(n)), nOut : Nat, pure : BOOLEAN]
      BY <2>2, <2>4 DEF Instructions
    <2>6. Instructions(q) = [kind : kinds, ins : Seq(RefsTo(n)), nOut : Nat, pure : BOOLEAN]
      BY <2>3 DEF Instructions
    <2>7. QED
      BY <2>5, <2>6
  <1>9. WellTyped(q2)
    <2>1. new \in Seq(Instructions(q2))
      BY <1>4, <1>8
    <2>2. q2 \in [insts : Seq(Instructions(q2)), roots : {q2.roots}, place : {q2.place}, kept : {q2.kept}]
      BY <1>6, <2>1
    <2>3. QED
      BY <2>2 DEF WellTyped, Instructions
  <1>10. QED
    BY <1>3, <1>4, <1>6, <1>9 DEF ins, old, OnlyGrown

\* What a kernel takes, as operands.
LEMMA TakenOperands ==
    ASSUME NEW n \in Nat, NEW T \in SUBSET (1..n),
           NEW refs, refs = [q \in DOMAIN Ascending(T) |-> Value(Ascending(T)[q], 0)]
    PROVE  /\ refs \in Seq(RefsTo(n))
           /\ \A q \in DOMAIN refs : IsValue(refs[q]) /\ refs[q][2] \in T
           /\ \A a \in T : \E q \in DOMAIN refs : refs[q][2] = a
  <1> DEFINE asc == Ascending(T)
  <1>1. IsFiniteSet(T) /\ T \in SUBSET Int
    <2> DEFINE all == 1..n
    <2>1. IsFiniteSet(all) /\ all \in SUBSET Int /\ T \in SUBSET all
      BY FS_Interval
    <2> HIDE DEF all
    <2>2. QED
      BY <2>1, FS_Subset
  <1>2. asc \in Seq(T) /\ ToSet(asc) = T
    BY <1>1, AscendingSorts
  <1> HIDE DEF asc
  <1>3. Len(asc) \in Nat /\ DOMAIN asc = 1..Len(asc) /\ \A q \in DOMAIN asc : asc[q] \in T
    BY <1>2
  <1>4. DOMAIN refs = DOMAIN asc /\ \A q \in DOMAIN asc : refs[q] = Value(asc[q], 0)
    BY DEF asc
  <1>5. \A q \in DOMAIN asc : /\ refs[q] \in RefsTo(n) /\ IsValue(refs[q]) /\ refs[q][2] = asc[q]
    BY <1>3, <1>4 DEF Value, RefsTo, IsValue
  <1>6. refs \in Seq(RefsTo(n))
    <2>1. refs = [q \in 1..Len(asc) |-> refs[q]]
      BY <1>3 DEF asc
    <2> DEFINE R == RefsTo(n)
    <2>2. \A q \in 1..Len(asc) : refs[q] \in R
      BY <1>3, <1>5
    <2> HIDE DEF R
    <2>3. refs \in Seq(R)
      BY <1>3, <2>1, <2>2
    <2>4. QED
      BY <2>3 DEF R
  <1>7. \A a \in T : \E q \in DOMAIN asc : asc[q] = a
    BY <1>2 DEF ToSet
  <1>8. QED
    BY <1>3, <1>4, <1>5, <1>6, <1>7

\* j is one of the operands `refs`.
Names(refs, j) == \E q \in DOMAIN refs : IsValue(refs[q]) /\ refs[q][2] = j

\* Operands more are reads more.
LEMMA ReadsOfBoth ==
    ASSUME NEW X, NEW one \in Seq(X), NEW two \in Seq(X), NEW inst, NEW inst2,
           inst.ins = one, inst2.ins = one \o two, NEW j
    PROVE  j \in Reads(inst2) <=> j \in Reads(inst) \/ Names(two, j)
  <1>1. /\ Len(one) \in Nat /\ Len(two) \in Nat /\ DOMAIN one = 1..Len(one) /\ DOMAIN two = 1..Len(two)
        /\ DOMAIN (one \o two) = 1..(Len(one) + Len(two))
        /\ \A q \in 1..Len(one) : (one \o two)[q] = one[q]
        /\ \A q \in 1..Len(two) : (one \o two)[Len(one) + q] = two[q]
    OBVIOUS
  <1> DEFINE both == one \o two
  <1>2. \A q \in DOMAIN both : q \in DOMAIN one \/ \E r \in DOMAIN two : q = Len(one) + r
    <2>1. ASSUME NEW q \in DOMAIN both, q \notin DOMAIN one
          PROVE  q - Len(one) \in DOMAIN two /\ q = Len(one) + (q - Len(one))
      BY <1>1, <2>1
    <2>2. QED
      BY <2>1
  <1>3. \A r \in DOMAIN two : Len(one) + r \in DOMAIN both /\ both[Len(one) + r] = two[r]
    BY <1>1
  <1>4. \A q \in DOMAIN one : q \in DOMAIN both /\ both[q] = one[q]
    BY <1>1
  <1>0. inst2.ins = both
    OBVIOUS
  <1> HIDE DEF both
  <1>5. j \in Reads(inst) <=> \E e \in DOMAIN one : IsValue(one[e]) /\ one[e][2] = j
    BY ReadsAreValues
  <1>6. j \in Reads(inst2) <=> \E e \in DOMAIN both : IsValue(both[e]) /\ both[e][2] = j
    BY <1>0, ReadsAreValues
  <1>7. QED
    BY <1>2, <1>3, <1>4, <1>5, <1>6 DEF Names

------------------------------------------------------------------------------
(* The invariant                                                            *)

\* The program is of the instructions ordered, and they are fewer than labels.
ProgramOK == WellTyped(p) /\ Len(p.insts) = t.n /\ t.n + 2 <= MaxLabel

\* The ends of the list keep the first label and the last.
EndsOK == t.label[0] = 0 /\ t.label[t.n + 1] = MaxLabel

\* No mark is past the search's own two.
MarksOK == s # <<>> => \A w \in 1..t.n : s.seen[w] <= s.mark + 1

OrderInv == OrderSound /\ SearchOK /\ ProgramOK /\ EndsOK /\ MarksOK

\* What the kernel takes is among the instructions.
LEMMA TakenWithin ==
    ASSUME TypeOK
    PROVE  /\ taken \in SUBSET (1..t.n)
           /\ \A i \in 1..t.n : Sources[i] = Reads(p.insts[i]) \cup IF i = k THEN taken ELSE {}
  <1>1. \A i \in 1..t.n : Sources[i] = Reads(p.insts[i]) \cup IF i = k THEN taken ELSE {}
    BY DEF Sources
  <1>2. Sources[k] \in SUBSET (1..t.n) /\ k \in 1..t.n
    BY DEF TypeOK
  <1>3. QED
    BY <1>1, <1>2

\* The next kernel: it follows, and what the one before it took are operands.
LEMMA NextKernelKeeps ==
    ASSUME OrderInv, NextKernel
    PROVE  OrderInv'
  <1> DEFINE n == t.n
             refs == [q \in DOMAIN Ascending(taken) |-> Value(Ascending(taken)[q], 0)]
  <1>1. /\ TypeOK /\ OrderOf(t, Sources) /\ n \in Nat /\ t \in Orders(n) /\ k \in 1..n
        /\ WellTyped(p) /\ Len(p.insts) = n /\ n + 2 <= MaxLabel
    BY DEF OrderInv, OrderSound, TypeOK, ProgramOK
  <1>2. /\ p' = [p EXCEPT !.insts[k].ins = @ \o refs] /\ taken' = {} /\ t' = t /\ s' = s /\ s = <<>>
        /\ k' = MinOf(KernelsAfter(k)) /\ KernelsAfter(k) # {}
    BY DEF NextKernel
  <1>3. taken \in SUBSET (1..n) /\ \A i \in 1..n : Sources[i] = Reads(p.insts[i]) \cup IF i = k THEN taken ELSE {}
    BY <1>1, TakenWithin
  <1>4. /\ refs \in Seq(RefsTo(n))
        /\ \A q \in DOMAIN refs : IsValue(refs[q]) /\ refs[q][2] \in taken
        /\ \A a \in taken : \E q \in DOMAIN refs : refs[q][2] = a
    BY <1>1, <1>3, TakenOperands
  <1> HIDE DEF refs
  <1>5. /\ WellTyped(p') /\ Len(p'.insts) = n /\ DOMAIN p'.insts = 1..n
        /\ p'.insts[k].ins = p.insts[k].ins \o refs
        /\ \A i \in 1..n : i # k => p'.insts[i] = p.insts[i]
    <2>1. n = Len(p.insts) /\ WellTyped(p) /\ k \in 1..n /\ refs \in Seq(RefsTo(n))
      BY <1>1, <1>4
    <2>2. p' = Grown(p, k, refs)
      BY <1>2 DEF Grown
    <2> HIDE DEF n
    <2>3. OnlyGrown(p, n, k, refs, p')
      BY <2>1, <2>2, ProgramGrows
    <2>4. QED
      BY <2>3 DEF OnlyGrown
  <1>6. k' \in 1..n
    <2>1. KernelsAfter(k) \in SUBSET Nat /\ KernelsAfter(k) \subseteq 1..n
      BY <1>1, InstructionsOf DEF KernelsAfter
    <2>2. \E m \in KernelsAfter(k) : \A i \in KernelsAfter(k) : m <= i
      BY <1>2, <2>1, LeastOf
    <2>3. k' \in KernelsAfter(k)
      BY <1>2, <2>2 DEF MinOf
    <2>4. QED
      BY <2>1, <2>3
  <1>7. \A i \in 1..n : Reads(p'.insts[i]) = Sources[i]
    <2>1. ASSUME NEW i \in 1..n, i # k
          PROVE  Reads(p'.insts[i]) = Sources[i]
      BY <1>3, <1>5, <2>1
    <2>2. \A j : j \in Reads(p'.insts[k]) <=> j \in Reads(p.insts[k]) \/ j \in taken
      <3>1. p.insts[k].ins \in Seq(RefsTo(n))
        BY <1>1, InstructionsOf
      <3> DEFINE one == p.insts[k].ins
                 old == p.insts[k]
                 new == p'.insts[k]
                 X == RefsTo(n)
      <3>2. one \in Seq(X) /\ refs \in Seq(X) /\ old.ins = one /\ new.ins = one \o refs
        BY <1>4, <1>5, <3>1
      <3> HIDE DEF one, old, new, X
      <3>4. \A j : j \in Reads(new) <=> j \in Reads(old) \/ Names(refs, j)
        BY <3>2, ReadsOfBoth
      <3>3. QED
        BY <1>4, <3>4 DEF old, new, Names
    <2>3. QED
      BY <1>1, <1>3, <2>1, <2>2
  <1>8. Sources' = Sources
    <2>1. Sources' = [i \in 1..n |-> Sources[i]]
      BY <1>2, <1>7 DEF Sources
    <2>2. QED
      BY <2>1 DEF Sources
  <1>9. Operands(p)' \in [1..n -> Seq(0..n)]
    <2>1. n = Len(p'.insts)
      BY <1>5
    <2>2. Operands(p') \in [1..n -> Seq(0..n)]
      BY <1>5, <2>1, ReadsWithin
    <2>3. QED
      BY <2>2 DEF Operands
  <1>10. OrderSound'
    <2>1. Sources \in [1..n -> SUBSET (1..n)]
      BY <1>1 DEF TypeOK
    <2>2. TypeOK'
      BY <1>1, <1>2, <1>5, <1>6, <1>8, <1>9, <2>1 DEF TypeOK
    <2>3. OrderOf(t', Sources')
      BY <1>1, <1>2, <1>8
    <2>4. QED
      BY <2>2, <2>3 DEF OrderSound
  <1>11. SearchOK' /\ MarksOK'
    BY <1>2 DEF SearchOK, MarksOK
  <1>12. ProgramOK' /\ EndsOK'
    BY <1>1, <1>2, <1>5 DEF OrderInv, ProgramOK, EndsOK
  <1>13. QED
    BY <1>10, <1>11, <1>12 DEF OrderInv

\* What one accumulator more changes of what is read.
LEMMA TakesMore ==
    ASSUME TypeOK, NEW a \in 1..t.n, p' = p, k' = k, t'.n = t.n, taken' = taken \cup {a}
    PROVE  /\ ReadsMore(t.n, Sources, Sources', k, a)
           /\ Sources' \in [1..t.n -> SUBSET (1..t.n)]
  <1> DEFINE n == t.n
  <1>1. /\ taken \in SUBSET (1..n)
        /\ \A i \in 1..n : Sources[i] = Reads(p.insts[i]) \cup IF i = k THEN taken ELSE {}
    BY TakenWithin
  <1>2. Sources' = [i \in 1..n |-> Reads(p.insts[i]) \cup IF i = k THEN taken \cup {a} ELSE {}]
    BY DEF Sources
  <1>3. \A i \in 1..n : Sources'[i] = Sources[i] \cup IF i = k THEN {a} ELSE {}
    <2>1. ASSUME NEW i \in 1..n
          PROVE  Sources'[i] = Sources[i] \cup IF i = k THEN {a} ELSE {}
      <3>1. Sources'[i] = Reads(p.insts[i]) \cup IF i = k THEN taken \cup {a} ELSE {}
        BY <1>2
      <3>2. Sources[i] = Reads(p.insts[i]) \cup IF i = k THEN taken ELSE {}
        BY <1>1
      <3>3. QED
        BY <3>1, <3>2
    <2>2. QED
      BY <2>1
  <1>4. Sources \in [1..n -> SUBSET (1..n)]
    BY DEF TypeOK
  <1>5. \A i \in 1..n : Sources'[i] \in SUBSET (1..n)
    BY <1>3, <1>4
  <1>6. Sources' \in [1..n -> SUBSET (1..n)]
    BY <1>2, <1>5
  <1>7. QED
    BY <1>3, <1>6 DEF ReadsMore

\* An accumulator more, and an order of the program that has it.
LEMMA TakenKeeps ==
    ASSUME OrderInv, NEW a \in 1..t.n, p' = p, k' = k, s' = <<>>, taken' = taken \cup {a},
           t' \in Orders(t.n), OrderOf(t', Sources'), Chain(t', 0..(t.n + 1))
    PROVE  OrderInv'
  <1> DEFINE n == t.n
  <1>1. /\ TypeOK /\ n \in Nat /\ WellTyped(p) /\ Len(p.insts) = n /\ n + 2 <= MaxLabel
    BY DEF OrderInv, OrderSound, TypeOK, ProgramOK
  <1>2. t'.n = n
    BY DEF Orders
  <1>3. Sources' \in [1..n -> SUBSET (1..n)]
    BY <1>1, <1>2, TakesMore
  <1>4. TypeOK'
    BY <1>1, <1>2, <1>3 DEF TypeOK, Operands
  <1>5. EndsOK' /\ ProgramOK'
    BY <1>1, <1>2 DEF EndsOK, ProgramOK, Chain
  <1>6. SearchOK' /\ MarksOK'
    BY DEF SearchOK, MarksOK
  <1>7. OrderSound'
    BY <1>4 DEF OrderSound
  <1>8. QED
    BY <1>5, <1>6, <1>7 DEF OrderInv

\* A question: the accumulator is before the kernel, or a search starts.
LEMMA AskKeeps ==
    ASSUME OrderInv, NEW a \in 1..t.n, Ask(a)
    PROVE  OrderInv'
  <1> DEFINE n == t.n
  <1>1. /\ TypeOK /\ OrderOf(t, Sources) /\ n \in Nat /\ t \in Orders(n) /\ k \in 1..n
        /\ t.label[0] = 0 /\ t.label[n + 1] = MaxLabel
    BY DEF OrderInv, OrderSound, TypeOK, EndsOK
  <1>2. s = <<>> /\ a # k /\ a \notin taken /\ p' = p /\ k' = k
    BY DEF Ask
  <1>3. CASE Before(t, a, k)
    <2>1. t' = Joined(t, a, k) /\ taken' = taken \cup {a} /\ s' = <<>>
      BY <1>2, <1>3 DEF Ask
    <2>2. t'.n = n
      BY <1>1, <2>1 DEF Joined, Orders
    <2>3. ReadsMore(n, Sources, Sources', k, a)
      BY <1>1, <1>2, <2>1, <2>2, TakesMore
    <2>4. Chain(t, 0..(n + 1))
      BY <1>1, SoundChain
    <2> DEFINE reads == Sources
               reads2 == Sources'
    <2>5. /\ \A j \in 1..n : ToSet(Readers(t, j)) = {i \in 1..n : j \in reads[i]}
          /\ \A w \in 1..n : t.seen[w] <= t.stamp + 1
          /\ \A i \in 1..n : \A j \in reads[i] : t.label[j] < t.label[i]
      BY <1>1 DEF OrderOf
    <2>6. t.label[a] < t.label[k]
      BY <1>1, <1>3 DEF Before
    <2> HIDE DEF reads, reads2
    <2>7. ReadsMore(n, reads, reads2, k, a)
      BY <2>3 DEF reads, reads2
    <2>8. \A i \in 1..n : \A j \in reads2[i] : t.label[j] < t.label[i]
      <3>1. ASSUME NEW i \in 1..n, NEW j \in reads2[i]
            PROVE  j \in reads[i] \/ (i = k /\ j = a)
        BY <2>7 DEF ReadsMore
      <3>2. QED
        BY <2>5, <2>6, <3>1
    <2>9. /\ Joined(t, a, k) \in Orders(n) /\ OrderOf(Joined(t, a, k), reads2)
          /\ Chain(Joined(t, a, k), 0..(n + 1))
      <3> DEFINE k0 == k
                 o == t
      <3>1. /\ o \in Orders(n) /\ Chain(o, 0..(n + 1)) /\ k0 \in 1..n /\ ReadsMore(n, reads, reads2, k0, a)
            /\ \A j \in 1..n : ToSet(Readers(o, j)) = {i \in 1..n : j \in reads[i]}
            /\ \A i \in 1..n : \A j \in reads2[i] : o.label[j] < o.label[i]
            /\ \A w \in 1..n : o.seen[w] <= o.stamp + 1
            /\ n \in Nat /\ a \in 1..n
        BY <1>1, <2>4, <2>5, <2>7, <2>8
      <3> HIDE DEF k0, o, n
      <3>2. /\ Joined(o, a, k0) \in Orders(n) /\ OrderOf(Joined(o, a, k0), reads2)
            /\ Chain(Joined(o, a, k0), 0..(n + 1))
        BY <3>1, JoinedOrdered
      <3>3. QED
        BY <3>2 DEF k0, o
    <2>10. /\ t' \in Orders(n) /\ OrderOf(t', Sources') /\ Chain(t', 0..(n + 1))
      BY <2>1, <2>9 DEF reads2
    <2>11. QED
      BY <1>2, <2>1, <2>10, TakenKeeps
  <1>4. CASE ~Before(t, a, k)
    <2>1. s' = Search(t, k, a) /\ t' = t /\ taken' = taken
      BY <1>4 DEF Ask
    <2>2. SearchOK'
      <3>1. [Next]_vars
        BY DEF Next
      <3>2. QED
        BY <3>1, SearchesKept DEF OrderInv
    <2>3. OrderSound' /\ ProgramOK' /\ EndsOK'
      BY <1>2, <2>1 DEF OrderInv, OrderSound, TypeOK, Sources, ProgramOK, EndsOK
    <2>4. MarksOK'
      <3> DEFINE mark == Stamped(t).stamp
                 old == Stamped(t).seen
                 seen == [old EXCEPT ![k] = mark, ![a] = mark + 1]
      <3>1. s'.seen = seen /\ s'.mark = mark
        BY <2>1 DEF Search
      <3>2. /\ t.stamp \in Nat /\ t.seen \in [1..n -> Nat] /\ \A w \in 1..n : t.seen[w] <= t.stamp + 1
        BY <1>1 DEF Orders, OrderOf
      <3>3. mark \in Nat /\ old \in [1..n -> Nat] /\ \A w \in 1..n : old[w] <= mark + 1
        <4>1. CASE t.stamp > MaxStamp - 4
          <5>1. mark = 2 /\ old = [w \in DOMAIN t.seen |-> 0]
            BY <1>1, <4>1 DEF Stamped, Orders
          <5>2. DOMAIN t.seen = 1..n
            BY <3>2
          <5> HIDE DEF mark, old, n
          <5>3. old = [w \in 1..n |-> 0]
            BY <5>1, <5>2
          <5>4. old \in [1..n -> Nat] /\ \A w \in 1..n : old[w] = 0
            BY <5>3
          <5>5. QED
            BY <5>1, <5>4
        <4>2. CASE ~(t.stamp > MaxStamp - 4)
          <5>1. mark = t.stamp + 2 /\ old = t.seen
            BY <1>1, <4>2 DEF Stamped, Orders
          <5>2. ASSUME NEW w \in 1..n
                PROVE  t.seen[w] <= (t.stamp + 2) + 1
            <6>1. t.seen[w] \in Nat /\ t.seen[w] <= t.stamp + 1
              BY <3>2
            <6>2. QED
              BY <3>2, <6>1
          <5>3. QED
            BY <3>2, <5>1, <5>2
        <4>3. QED
          BY <4>1, <4>2
      <3> HIDE DEF mark, old
      <3>4. \A w \in 1..n : seen[w] <= mark + 1
        BY <1>1, <3>3
      <3>5. QED
        BY <2>1, <3>1, <3>4 DEF MarksOK
    <2>5. QED
      BY <2>2, <2>3, <2>4 DEF OrderInv
  <1>5. QED
    BY <1>3, <1>4

\* An edge looked at.
LEMMA StepKeeps ==
    ASSUME OrderInv, Step
    PROVE  OrderInv'
  <1> DEFINE n == t.n
  <1>1. /\ s # <<>> /\ UNCHANGED <<p, t, k, taken>>
        /\ s' = ForwardEdge(t, s) \/ s' = BackwardEdge(t, Operands(p), s)
    BY DEF Step
  <1>2. SearchOK'
    <2>1. [Next]_vars
      BY DEF Next
    <2>2. QED
      BY <2>1, SearchesKept DEF OrderInv
  <1>3. OrderSound' /\ ProgramOK' /\ EndsOK'
    BY <1>1 DEF OrderInv, OrderSound, TypeOK, Sources, ProgramOK, EndsOK
  <1>4. /\ s \in Searches(n) /\ s.mark \in Nat /\ s.seen \in [1..n -> Nat]
        /\ \A w \in 1..n : s.seen[w] <= s.mark + 1
    BY <1>1 DEF OrderInv, SearchOK, MarksOK, Found, Searches
  <1>5. /\ s'.mark = s.mark
        /\ \/ s'.seen = s.seen
           \/ \E r : \E m \in {s.mark, s.mark + 1} : s'.seen = [s.seen EXCEPT ![r] = m]
    <2>1. CASE s' = ForwardEdge(t, s)
      BY <1>4, <2>1 DEF ForwardEdge, Searches
    <2>2. CASE s' = BackwardEdge(t, Operands(p), s)
      BY <1>4, <2>2 DEF BackwardEdge, Searches
    <2>3. QED
      BY <1>1, <2>1, <2>2
  <1>6. \A w \in 1..n : s'.seen[w] <= s'.mark + 1
    <2> DEFINE seen == s.seen
               mark == s.mark
               new == s'.seen
    <2>1. mark \in Nat /\ seen \in [1..n -> Nat] /\ \A w \in 1..n : seen[w] <= mark + 1
      BY <1>4
    <2> HIDE DEF seen, mark, new, n
    <2>2. CASE new = seen
      BY <2>1, <2>2, <1>5 DEF mark, new
    <2>3. CASE \E r : \E m \in {mark, mark + 1} : new = [seen EXCEPT ![r] = m]
      <3>1. PICK r : \E m \in {mark, mark + 1} : new = [seen EXCEPT ![r] = m]
        BY <2>3
      <3>0. PICK m \in {mark, mark + 1} : new = [seen EXCEPT ![r] = m]
        BY <3>1
      <3>2. \A w \in 1..n : new[w] = seen[w] \/ new[w] = m
        BY <2>1, <3>0
      <3>3. \A w \in 1..n : new[w] <= mark + 1
        BY <2>1, <3>2
      <3>4. QED
        BY <1>5, <3>3 DEF mark, new
    <2>4. QED
      BY <1>5, <2>2, <2>3 DEF seen, mark, new
  <1>7. MarksOK'
    BY <1>1, <1>6 DEF MarksOK
  <1>8. QED
    BY <1>2, <1>3, <1>7 DEF OrderInv

\* A search that met itself leaves its marks; another moves a side.
LEMMA AnswerKeeps ==
    ASSUME OrderInv, Answer
    PROVE  OrderInv'
  <1> DEFINE n == t.n
  <1>1. /\ TypeOK /\ OrderOf(t, Sources) /\ n \in Nat /\ t \in Orders(n) /\ k \in 1..n
        /\ Sources \in [1..n -> SUBSET (1..n)]
        /\ t.label[0] = 0 /\ t.label[n + 1] = MaxLabel /\ n + 2 <= MaxLabel
    BY DEF OrderInv, OrderSound, TypeOK, EndsOK, ProgramOK
  <1>2. /\ s # <<>> /\ s.outcome # "none" /\ p' = p /\ k' = k /\ s' = <<>>
        /\ t' = IF s.outcome = "cycle" THEN Searched(t, s) ELSE Moved(t, s)
        /\ taken' = IF s.outcome = "cycle" THEN taken ELSE taken \cup {s.a}
    BY DEF Answer
  <1>3. /\ s \in Searches(n) /\ s.k = k /\ s.a \in 1..n /\ t.label[s.k] < t.label[s.a]
        /\ s.outcome \in {"cycle", "forward", "backward"} /\ s.mark \in Nat /\ s.seen \in [1..n -> Nat]
        /\ \A w \in 1..n : s.seen[w] <= s.mark + 1
    BY <1>2 DEF OrderInv, SearchOK, Found, Searches, MarksOK
  <1>4. CASE s.outcome = "cycle"
    <2>1. t' = Searched(t, s) /\ taken' = taken
      BY <1>2, <1>4
    <2>2. /\ t' \in Orders(n) /\ t'.n = n /\ t'.label = t.label /\ t'.list = t.list /\ t'.readers = t.readers
          /\ t'.added = t.added /\ t'.seen = s.seen /\ t'.stamp = s.mark
      BY <1>1, <1>3, <2>1 DEF Searched, Orders
    <2>3. Sources' = Sources /\ Operands(p)' = Operands(p)
      BY <1>2, <2>1, <2>2 DEF Sources, Operands
    <2>4. TypeOK'
      BY <1>1, <1>2, <2>2, <2>3 DEF TypeOK
    <2>5. OrderOf(t', Sources')
      <3> DEFINE reads == Sources
                 o == t'
      <3>1. OrderOf(t, reads)
        BY <1>1
      <3> HIDE DEF reads
      <3>2. \A j \in 1..n : Readers(o, j) = Readers(t, j)
        BY <2>2 DEF Readers
      <3>3. \A w \in 1..n : o.seen[w] <= o.stamp + 1
        BY <1>3, <2>2
      <3>4. \A j \in 1..n : ToSet(Readers(o, j)) = {i \in 1..n : j \in reads[i]}
        BY <3>1, <3>2 DEF OrderOf
      <3>5. OrderOf(o, reads)
        BY <2>2, <3>1, <3>3, <3>4 DEF OrderOf
      <3>6. QED
        BY <2>3, <3>5 DEF reads
    <2>6. SearchOK' /\ MarksOK'
      BY <1>2 DEF SearchOK, MarksOK
    <2>7. ProgramOK' /\ EndsOK'
      BY <1>1, <1>2, <2>2 DEF OrderInv, ProgramOK, EndsOK
    <2>8. QED
      BY <2>4, <2>5, <2>6, <2>7 DEF OrderInv, OrderSound
  <1>5. CASE s.outcome \in {"forward", "backward"}
    <2> DEFINE set == IF s.outcome = "backward" THEN s.back ELSE s.fwd
               reads == Sources
               reads2 == Sources'
               a == s.a
    <2>1. t' = Moved(t, s) /\ taken' = taken \cup {a}
      BY <1>2, <1>5
    <2>2. AnswerExact
      BY FoundAnswers DEF OrderInv
    <2>3. Answered(n, t, reads, s, set)
      <3>1. s.k \notin DependsOn(Sources, {s.a})
        BY <1>2, <1>5, <2>2 DEF AnswerExact
      <3>2. s.outcome = "backward" => s.back = Below(t, Sources, s)
        BY <1>2, <2>2 DEF AnswerExact, Below
      <3>3. s.outcome = "forward" => s.fwd = Above(t, Sources, s)
        BY <1>2, <2>2 DEF AnswerExact, Above
      <3>4. QED
        BY <1>3, <1>5, <3>1, <3>2, <3>3 DEF Answered
    <2> HIDE DEF set
    <2>4. t'.n = n
      <3> DEFINE more == [i \in 1..n |-> reads[i] \cup IF i = s.k THEN {s.a} ELSE {}]
      <3>1. ReadsMore(n, reads, more, s.k, s.a)
        BY DEF ReadsMore
      <3> HIDE DEF more
      <3> DEFINE o == t
                 x == s
      <3>2. /\ n \in Nat /\ n + 2 <= MaxLabel /\ o \in Orders(n) /\ reads \in [1..n -> SUBSET (1..n)]
            /\ OrderOf(o, reads) /\ o.label[0] = 0 /\ o.label[n + 1] = MaxLabel
            /\ Answered(n, o, reads, x, set) /\ ReadsMore(n, reads, more, x.k, x.a)
        BY <1>1, <2>3, <3>1
      <3> HIDE DEF o, x, n, reads
      <3>3. Moved(o, x) \in Orders(n)
        BY <3>2, MovedOrdered
      <3>4. Moved(o, x).n = n
        BY <3>3 DEF Orders
      <3>5. QED
        BY <2>1, <3>4 DEF o, x
    <2>5. ReadsMore(n, reads, reads2, k, a)
      BY <1>1, <1>2, <1>3, <2>1, <2>4, TakesMore
    <2>6. /\ Moved(t, s) \in Orders(n) /\ OrderOf(Moved(t, s), reads2)
          /\ Chain(Moved(t, s), 0..(n + 1))
      <3> DEFINE o == t
                 x == s
      <3>2. /\ n \in Nat /\ n + 2 <= MaxLabel /\ o \in Orders(n) /\ reads \in [1..n -> SUBSET (1..n)]
            /\ OrderOf(o, reads) /\ o.label[0] = 0 /\ o.label[n + 1] = MaxLabel
            /\ Answered(n, o, reads, x, set) /\ ReadsMore(n, reads, reads2, x.k, x.a)
        BY <1>1, <1>3, <2>3, <2>5
      <3> HIDE DEF o, x, n, reads, reads2
      <3>3. /\ Moved(o, x) \in Orders(n) /\ OrderOf(Moved(o, x), reads2)
            /\ Chain(Moved(o, x), 0..(n + 1))
        BY <3>2, MovedOrdered
      <3>4. QED
        BY <3>3 DEF o, x
    <2>7. QED
      BY <1>2, <1>3, <2>1, <2>6, TakenKeeps
  <1>6. QED
    BY <1>3, <1>4, <1>5

\* Every step keeps the order, and what goes with it.
LEMMA StepsKeep == OrderInv /\ [Next]_vars => OrderInv'
  <1> SUFFICES ASSUME OrderInv, [Next]_vars
               PROVE  OrderInv'
    OBVIOUS
  <1>1. CASE UNCHANGED vars
    BY <1>1 DEF vars, OrderInv, OrderSound, TypeOK, Sources, SearchOK, ProgramOK, EndsOK, MarksOK
  <1>2. QED
    BY <1>1, NextKernelKeeps, AskKeeps, StepKeeps, AnswerKeeps DEF Next

------------------------------------------------------------------------------
(* Sequences of each once                                                   *)

\* Nothing is in it twice.
Apart(seq) == \A q, r \in DOMAIN seq : seq[q] = seq[r] => q = r

\* One more at the end.
LEMMA AppendApart ==
    ASSUME NEW T, NEW seq \in Seq(T), NEW e \in T, Apart(seq), e \notin ToSet(seq)
    PROVE  /\ Append(seq, e) \in Seq(T) /\ Apart(Append(seq, e))
           /\ ToSet(Append(seq, e)) = ToSet(seq) \cup {e}
           /\ Len(Append(seq, e)) = Len(seq) + 1 /\ Append(seq, e)[Len(seq) + 1] = e
           /\ \A q \in 1..Len(seq) : Append(seq, e)[q] = seq[q]
  <1> DEFINE n == Len(seq)
             new == Append(seq, e)
  <1>1. /\ n \in Nat /\ DOMAIN seq = 1..n /\ DOMAIN new = 1..(n + 1) /\ new[n + 1] = e
        /\ \A q \in 1..n : new[q] = seq[q]
        /\ new \in Seq(T) /\ Len(new) = n + 1
    OBVIOUS
  <1>2. \A q \in 1..n : seq[q] # e
    BY <1>1 DEF ToSet
  <1> HIDE DEF n, new
  <1>3. \A q \in 1..(n + 1) : q \in 1..n \/ q = n + 1
    BY <1>1
  <1>4. Apart(new)
    BY <1>1, <1>2, <1>3 DEF Apart
  <1>5. ToSet(new) = ToSet(seq) \cup {e}
    BY <1>1, <1>3 DEF ToSet
  <1>6. QED
    BY <1>1, <1>4, <1>5 DEF n, new

\* All but the last.
LEMMA FrontApart ==
    ASSUME NEW T, NEW seq \in Seq(T), seq # <<>>, Apart(seq)
    PROVE  /\ Front(seq) \in Seq(T) /\ Apart(Front(seq)) /\ Last(seq) \in ToSet(seq)
           /\ ToSet(Front(seq)) = ToSet(seq) \ {Last(seq)}
  <1> DEFINE n == Len(seq)
             front == Front(seq)
             last == Last(seq)
  <1>1. n \in Nat \ {0} /\ DOMAIN seq = 1..n /\ last = seq[n]
    BY DEF Last
  <1>2. front \in Seq(T) /\ DOMAIN front = 1..(n - 1) /\ \A q \in 1..(n - 1) : front[q] = seq[q]
    BY <1>1 DEF Front
  <1> HIDE DEF n, front, last
  <1>3. \A q \in 1..n : q \in 1..(n - 1) \/ q = n
    BY <1>1
  <1>4. \A q \in 1..(n - 1) : q \in 1..n /\ q # n
    BY <1>1
  <1>5. Apart(front)
    BY <1>1, <1>2, <1>4 DEF Apart
  <1>6. \A q \in 1..(n - 1) : seq[q] # last
    BY <1>1, <1>4 DEF Apart
  <1>7. ToSet(front) = ToSet(seq) \ {last}
    BY <1>1, <1>2, <1>3, <1>4, <1>6 DEF ToSet
  <1>8. last \in ToSet(seq)
    BY <1>1 DEF ToSet
  <1>9. QED
    BY <1>2, <1>5, <1>7, <1>8 DEF front, last

\* One after another.
LEMMA ConcatApart ==
    ASSUME NEW T, NEW one \in Seq(T), NEW two \in Seq(T), Apart(one), Apart(two),
           ToSet(one) \cap ToSet(two) = {}
    PROVE  /\ one \o two \in Seq(T) /\ Apart(one \o two)
           /\ ToSet(one \o two) = ToSet(one) \cup ToSet(two)
  <1> DEFINE both == one \o two
             n == Len(one)
             m == Len(two)
  <1>1. /\ n \in Nat /\ m \in Nat /\ DOMAIN one = 1..n /\ DOMAIN two = 1..m /\ both \in Seq(T)
        /\ DOMAIN both = 1..(n + m)
        /\ \A q \in 1..n : both[q] = one[q]
        /\ \A q \in 1..m : both[n + q] = two[q]
    OBVIOUS
  <1> HIDE DEF both, n, m
  <1>2. \A q \in 1..(n + m) : q \in 1..n \/ (q - n \in 1..m /\ q = n + (q - n))
    BY <1>1
  <1>3. \A q \in 1..n : q \in 1..(n + m) /\ \A r \in 1..m : n + r \in 1..(n + m)
    BY <1>1
  <1>4. \A r \in 1..m : n + r \in 1..(n + m)
    BY <1>1
  <1>5. \A q \in 1..(n + m) : q \notin 1..n => q - n \in 1..m /\ both[q] = two[q - n]
    BY <1>1, <1>2
  <1>6. \A q \in 1..n : \A r \in 1..m : one[q] # two[r]
    BY <1>1 DEF ToSet
  <1>7. ASSUME NEW q \in 1..(n + m), NEW r \in 1..(n + m), both[q] = both[r]
        PROVE  q = r
    <2>1. CASE q \in 1..n /\ r \in 1..n
      BY <1>1, <1>7, <2>1 DEF Apart
    <2>2. CASE q \notin 1..n /\ r \notin 1..n
      <3>1. q - n \in 1..m /\ r - n \in 1..m /\ two[q - n] = two[r - n]
        BY <1>5, <1>7, <2>2
      <3>2. q - n = r - n
        BY <1>1, <3>1 DEF Apart
      <3>3. QED
        BY <1>1, <3>2
    <2>3. CASE q \in 1..n /\ r \notin 1..n
      BY <1>1, <1>5, <1>6, <1>7, <2>3
    <2>4. CASE q \notin 1..n /\ r \in 1..n
      BY <1>1, <1>5, <1>6, <1>7, <2>4
    <2>5. QED
      BY <2>1, <2>2, <2>3, <2>4
  <1>8. Apart(both)
    BY <1>1, <1>7 DEF Apart
  <1>9. ToSet(both) = ToSet(one) \cup ToSet(two)
    <2>1. \A q \in 1..(n + m) : both[q] \in ToSet(one) \cup ToSet(two)
      BY <1>1, <1>5 DEF ToSet
    <2>2. \A q \in 1..n : one[q] \in ToSet(both)
      BY <1>1, <1>3 DEF ToSet
    <2>3. \A q \in 1..m : two[q] \in ToSet(both)
      BY <1>1, <1>4 DEF ToSet
    <2>4. QED
      BY <1>1, <2>1, <2>2, <2>3 DEF ToSet
  <1>10. QED
    BY <1>1, <1>8, <1>9 DEF both

\* Turned around.
LEMMA ReverseApart ==
    ASSUME NEW T, NEW seq \in Seq(T), Apart(seq)
    PROVE  Reverse(seq) \in Seq(T) /\ Apart(Reverse(seq)) /\ ToSet(Reverse(seq)) = ToSet(seq)
  <1> DEFINE n == Len(seq)
             new == Reverse(seq)
  <1>1. n \in Nat /\ DOMAIN seq = 1..n /\ \A q \in 1..n : seq[q] \in T
    OBVIOUS
  <1>2. new = [q \in 1..n |-> seq[(n - q) + 1]]
    BY DEF Reverse
  <1> HIDE DEF n, new
  <1>3. \A q \in 1..n : (n - q) + 1 \in 1..n /\ (n - ((n - q) + 1)) + 1 = q
    BY <1>1
  <1>4. new \in Seq(T) /\ DOMAIN new = 1..n /\ \A q \in 1..n : new[q] = seq[(n - q) + 1]
    BY <1>1, <1>2, <1>3
  <1>5. ASSUME NEW q \in 1..n, NEW r \in 1..n, new[q] = new[r]
        PROVE  q = r
    <2>1. (n - q) + 1 = (n - r) + 1
      BY <1>1, <1>3, <1>4, <1>5 DEF Apart
    <2>2. QED
      BY <1>1, <2>1
  <1>6. Apart(new)
    BY <1>4, <1>5 DEF Apart
  <1>7. \A q \in 1..n : new[(n - q) + 1] = seq[q]
    BY <1>3, <1>4
  <1>8. ToSet(new) = ToSet(seq)
    BY <1>1, <1>3, <1>4, <1>7 DEF ToSet
  <1>9. QED
    BY <1>4, <1>6, <1>8 DEF new

\* Some of it.
LEMMA ThoseApart ==
    ASSUME NEW T, NEW seq \in Seq(T), Apart(seq), NEW G
    PROVE  Apart(Those(seq, G))
  <1>1. PICK at \in Seq(DOMAIN seq) : TakenAt(seq, G, at)
    BY ThoseOf
  <1>2. Len(at) \in Nat /\ DOMAIN at = 1..Len(at) /\ \A i \in DOMAIN at : at[i] \in DOMAIN seq
    OBVIOUS
  <1>3. DOMAIN seq = 1..Len(seq) /\ Len(seq) \in Nat
    OBVIOUS
  <1>4. DOMAIN Those(seq, G) = DOMAIN at /\ \A i \in DOMAIN at : Those(seq, G)[i] = seq[at[i]]
    BY <1>1 DEF TakenAt
  <1>5. ASSUME NEW i \in DOMAIN at, NEW j \in DOMAIN at, seq[at[i]] = seq[at[j]]
        PROVE  i = j
    <2>1. at[i] = at[j] /\ at[i] \in Nat /\ i \in Nat /\ j \in Nat
      BY <1>2, <1>3, <1>5 DEF Apart
    <2>2. ~(i < j) /\ ~(j < i)
      BY <1>1, <2>1 DEF TakenAt
    <2>3. QED
      BY <2>1, <2>2
  <1>6. QED
    BY <1>4, <1>5 DEF Apart

\* A set of numbers ascending.
LEMMA AscendingApart ==
    ASSUME NEW n \in Nat, NEW S \in SUBSET (1..n)
    PROVE  Ascending(S) \in Seq(1..n) /\ Apart(Ascending(S)) /\ ToSet(Ascending(S)) = S
  <1> DEFINE all == 1..n
             asc == Ascending(S)
  <1>1. IsFiniteSet(all) /\ all \in SUBSET Int /\ S \in SUBSET all
    BY FS_Interval
  <1> HIDE DEF all
  <1>2. IsFiniteSet(S) /\ S \in SUBSET Int
    BY <1>1, FS_Subset
  <1>3. asc \in Seq(S) /\ ToSet(asc) = S /\ \A q, r \in DOMAIN asc : q < r => asc[q] < asc[r]
    BY <1>2, AscendingSorts
  <1> HIDE DEF asc
  <1>4. Len(asc) \in Nat /\ DOMAIN asc = 1..Len(asc) /\ \A q \in DOMAIN asc : asc[q] \in Int
    <2>1. Len(asc) \in Nat /\ DOMAIN asc = 1..Len(asc) /\ \A q \in DOMAIN asc : asc[q] \in S
      BY <1>3
    <2>2. QED
      BY <1>2, <2>1
  <1>5. ASSUME NEW q \in DOMAIN asc, NEW r \in DOMAIN asc, asc[q] = asc[r]
        PROVE  q = r
    <2>1. q \in Nat /\ r \in Nat /\ asc[q] \in Int
      BY <1>4
    <2>2. ~(q < r) /\ ~(r < q)
      <3>1. ~(asc[q] < asc[r]) /\ ~(asc[r] < asc[q])
        BY <1>5, <2>1
      <3>2. QED
        BY <1>3, <3>1
    <2>3. QED
      BY <2>1, <2>2
  <1>6. asc \in Seq(all)
    BY <1>1, <1>3, SeqMonotonic
  <1>7. QED
    BY <1>3, <1>5, <1>6 DEF Apart, asc, all

\* Fewer than n leave one of n out, and n of them do not.
LEMMA ApartFill ==
    ASSUME NEW n \in Nat, NEW seq \in Seq(1..n), Apart(seq)
    PROVE  Len(seq) <= n /\ (Len(seq) = n <=> ToSet(seq) = 1..n)
  <1> DEFINE A == 1..n
             m == Len(seq)
  <1>1. m \in Nat /\ DOMAIN seq = 1..m /\ seq \in [1..m -> A]
    OBVIOUS
  <1>2. IsFiniteSet(A) /\ Cardinality(A) = n
    BY FS_Interval
  <1>3. IsFiniteSet(1..m) /\ Cardinality(1..m) = m
    <2> HIDE DEF m
    <2>1. QED
      BY <1>1, FS_Interval
  <1> HIDE DEF A, m
  <1>4. seq \in Injection(1..m, A)
    BY <1>1 DEF Injection, IsInjective, Apart
  <1>5. m <= n /\ (m = n <=> seq \in Surjection(1..m, A))
    BY <1>2, <1>3, <1>4, FS_Injection
  <1>6. seq \in Surjection(1..m, A) <=> \A v \in A : \E q \in 1..m : seq[q] = v
    BY <1>1 DEF Surjection
  <1>7. (\A v \in A : \E q \in 1..m : seq[q] = v) <=> ToSet(seq) = A
    BY <1>1 DEF ToSet
  <1>8. QED
    BY <1>5, <1>6, <1>7 DEF A, m

------------------------------------------------------------------------------
(* The order as it is made                                                  *)

\* What each of n reads, and the readers of each: no reads go round.
Reading(n, reads, readers) ==
    /\ n \in Nat /\ reads \in [1..n -> SUBSET (1..n)] /\ readers \in [1..n -> Seq(1..n)]
    /\ \A j \in 1..n : ToSet(readers[j]) = {i \in 1..n : j \in reads[i]} /\ Apart(readers[j])
    /\ \A set \in SUBSET (1..n) : set # {} => \E i \in set : reads[i] \cap set = {}

\* What may be placed after `placed`.
Waiting(n, reads, placed) == {i \in (1..n) \ placed : reads[i] \subseteq placed}

States(n) == [at : Seq(1..n), ready : Seq(1..n), kernels : SUBSET (1..n)]

\* Everything placed comes after what it reads.
AfterReads(reads, at) ==
    \A e \in DOMAIN at : \A j \in reads[at[e]] : \E d \in DOMAIN at : d < e /\ at[d] = j

\* q are placed, and what waits is all that may come next.
Arranged(n, reads, q, x) ==
    /\ x \in States(n) /\ Len(x.at) = q /\ Apart(x.at) /\ Apart(x.ready)
    /\ AfterReads(reads, x.at)
    /\ ToSet(x.ready) \cup x.kernels = Waiting(n, reads, ToSet(x.at))
    /\ ToSet(x.ready) \cap x.kernels = {}

\* The readers of i that may come once it is placed.
Freed(n, readers, at, i) ==
    Those(readers[i], {r \in ToSet(readers[i]) :
            \A j \in 1..n : Contains(readers[j], r) => Contains(at, j)})

\* i is placed next.
PutNow(n, insts, readers, x, i, y) ==
    /\ x.ready # <<>> => i = Last(x.ready)
    /\ x.ready = <<>> => i \in x.kernels
    /\ y = [at |-> Append(x.at, i),
            ready |-> (IF x.ready # <<>> THEN Front(x.ready) ELSE <<>>)
                        \o Those(Freed(n, readers, Append(x.at, i), i),
                                 {r \in ToSet(Freed(n, readers, Append(x.at, i), i)) : ~IsKernel(insts[r])}),
            kernels |-> (x.kernels \ {i})
                          \cup {r \in ToSet(Freed(n, readers, Append(x.at, i), i)) : IsKernel(insts[r])}]

\* A sequence contains what it holds.
LEMMA ContainsIs ==
    ASSUME NEW T, NEW seq \in Seq(T), NEW e
    PROVE  Contains(seq, e) <=> e \in ToSet(seq)
  BY DEF Contains, ToSet

\* They are what reads i, all that it reads placed.
FreedAll(n, reads, readers, at, i) ==
    /\ Freed(n, readers, at, i) \in Seq(1..n) /\ Apart(Freed(n, readers, at, i))
    /\ ToSet(Freed(n, readers, at, i)) = {r \in 1..n : i \in reads[r] /\ reads[r] \subseteq ToSet(at)}

\* What is freed reads i, and all it reads is placed.
LEMMA FreedAre ==
    ASSUME NEW n, NEW reads, NEW readers, Reading(n, reads, readers), NEW at \in Seq(1..n), NEW i \in 1..n
    PROVE  FreedAll(n, reads, readers, at, i)
  <1> DEFINE all == 1..n
             G == {r \in ToSet(readers[i]) : \A j \in 1..n : Contains(readers[j], r) => Contains(at, j)}
             seq == readers[i]
  <1>1. /\ n \in Nat /\ seq \in Seq(all) /\ Apart(seq) /\ ToSet(seq) = {r \in all : i \in reads[r]}
        /\ reads \in [all -> SUBSET all]
    BY DEF Reading
  <1>2. ASSUME NEW r \in all
        PROVE  (\A j \in 1..n : Contains(readers[j], r) => Contains(at, j)) <=> reads[r] \subseteq ToSet(at)
    <2>1. \A j \in all : Contains(readers[j], r) <=> j \in reads[r]
      <3>1. ASSUME NEW j \in all
            PROVE  Contains(readers[j], r) <=> j \in reads[r]
        <4>1. readers[j] \in Seq(all) /\ ToSet(readers[j]) = {v \in all : j \in reads[v]}
          BY DEF Reading
        <4>2. Contains(readers[j], r) <=> r \in ToSet(readers[j])
          <5> DEFINE it == readers[j]
          <5>1. it \in Seq(all)
            BY <4>1
          <5> HIDE DEF it, all
          <5>2. Contains(it, r) <=> r \in ToSet(it)
            BY <5>1, ContainsIs
          <5>3. QED
            BY <5>2 DEF it
        <4>3. QED
          BY <4>1, <4>2
      <3>2. QED
        BY <3>1
    <2>2. \A j \in all : Contains(at, j) <=> j \in ToSet(at)
      BY ContainsIs
    <2>3. reads[r] \subseteq all
      BY <1>1
    <2>4. QED
      BY <2>1, <2>2, <2>3
  <1>3. G = {r \in all : i \in reads[r] /\ reads[r] \subseteq ToSet(at)}
    BY <1>1, <1>2
  <1>4. Freed(n, readers, at, i) = Those(seq, G)
    BY DEF Freed
  <1> HIDE DEF seq, G
  <1>5. Those(seq, G) \in Seq(all \cap G) /\ ToSet(Those(seq, G)) = ToSet(seq) \cap G
    <2> HIDE DEF all
    <2>1. QED
      BY <1>1, ThoseMembers
  <1>6. Apart(Those(seq, G))
    <2> HIDE DEF all
    <2>1. QED
      BY <1>1, ThoseApart
  <1>7. Those(seq, G) \in Seq(all)
    <2> DEFINE some == all \cap G
    <2>1. some \subseteq all /\ Those(seq, G) \in Seq(some)
      BY <1>5
    <2> HIDE DEF some, all
    <2>2. QED
      BY <2>1, SeqMonotonic
  <1>8. ToSet(Those(seq, G)) = {r \in all : i \in reads[r] /\ reads[r] \subseteq ToSet(at)}
    BY <1>1, <1>3, <1>5
  <1>9. QED
    BY <1>4, <1>6, <1>7, <1>8 DEF FreedAll

\* What is placed next was waiting, and what it frees joins what waits.
LEMMA PutArranged ==
    ASSUME NEW n, NEW reads, NEW readers, Reading(n, reads, readers), NEW insts,
           NEW q \in 1..n, NEW x, Arranged(n, reads, q - 1, x),
           NEW i, NEW y, PutNow(n, insts, readers, x, i, y)
    PROVE  Arranged(n, reads, q, y)
  <1> DEFINE all == 1..n
             at == x.at
             placed == ToSet(at)
             ready == x.ready
             kernels == x.kernels
             at2 == Append(at, i)
             left == IF ready # <<>> THEN Front(ready) ELSE <<>>
             freed == Freed(n, readers, at2, i)
             F == {r \in all : i \in reads[r] /\ reads[r] \subseteq placed \cup {i}}
             P == {r \in ToSet(freed) : ~IsKernel(insts[r])}
             K == {r \in ToSet(freed) : IsKernel(insts[r])}
             plain == Those(freed, P)
             W == Waiting(n, reads, placed)
  <1>1. /\ n \in Nat /\ reads \in [all -> SUBSET all] /\ q \in Nat
        /\ at \in Seq(all) /\ ready \in Seq(all) /\ kernels \in SUBSET all
        /\ Len(at) = q - 1 /\ Apart(at) /\ Apart(ready) /\ AfterReads(reads, at)
        /\ ToSet(ready) \cup kernels = W /\ ToSet(ready) \cap kernels = {}
    BY DEF Reading, Arranged, States
  <1>2. /\ ready # <<>> => i = Last(ready)
        /\ ready = <<>> => i \in kernels
        /\ y = [at |-> at2, ready |-> left \o plain, kernels |-> (kernels \ {i}) \cup K]
    BY DEF PutNow
  <1>3. /\ left \in Seq(all) /\ Apart(left) /\ i \in W
        /\ ToSet(left) \cup (kernels \ {i}) = W \ {i} /\ ToSet(left) \cap kernels = {}
    <2> HIDE DEF ready, kernels, all, W
    <2>1. CASE ready # <<>>
      <3>1. /\ Front(ready) \in Seq(all) /\ Apart(Front(ready)) /\ Last(ready) \in ToSet(ready)
            /\ ToSet(Front(ready)) = ToSet(ready) \ {Last(ready)}
        BY <1>1, <2>1, FrontApart
      <3>2. left = Front(ready) /\ i = Last(ready)
        BY <1>2, <2>1
      <3> HIDE DEF left
      <3>3. QED
        BY <1>1, <3>1, <3>2
    <2>2. CASE ready = <<>>
      <3>1. left = <<>> /\ i \in kernels
        BY <1>2, <2>2
      <3>2. ToSet(<<>>) = {} /\ <<>> \in Seq(all) /\ Apart(<<>>)
        BY DEF ToSet, Apart
      <3> HIDE DEF left
      <3>3. QED
        BY <1>1, <2>2, <3>1, <3>2
    <2>3. QED
      BY <2>1, <2>2
  <1>4. i \in all /\ i \notin placed /\ reads[i] \subseteq placed
    BY <1>3 DEF Waiting
  <1>5. /\ at2 \in Seq(all) /\ Apart(at2) /\ ToSet(at2) = placed \cup {i} /\ Len(at2) = q
        /\ at2[q] = i /\ \A e \in 1..(q - 1) : at2[e] = at[e]
    <2> HIDE DEF all, at, at2
    <2>1. /\ Append(at, i) \in Seq(all) /\ Apart(Append(at, i)) /\ ToSet(Append(at, i)) = ToSet(at) \cup {i}
          /\ Len(Append(at, i)) = Len(at) + 1 /\ Append(at, i)[Len(at) + 1] = i
          /\ \A e \in 1..Len(at) : Append(at, i)[e] = at[e]
      BY <1>1, <1>4, AppendApart
    <2>2. Len(at) + 1 = q
      BY <1>1
    <2>3. QED
      BY <1>1, <2>1, <2>2 DEF at2
  <1>6. \A r \in placed : reads[r] \subseteq placed
    <2>1. ASSUME NEW r \in placed, NEW j \in reads[r]
          PROVE  j \in placed
      <3>1. PICK e \in DOMAIN at : at[e] = r
        BY DEF ToSet
      <3>2. PICK d \in DOMAIN at : at[d] = j
        BY <1>1, <2>1, <3>1 DEF AfterReads
      <3>3. QED
        BY <3>2 DEF ToSet
    <2>2. QED
      BY <2>1
  <1>7. freed \in Seq(all) /\ Apart(freed) /\ ToSet(freed) = F
    <2>1. at2 \in Seq(1..n) /\ i \in 1..n
      BY <1>4, <1>5
    <2> HIDE DEF at2
    <2>2. FreedAll(n, reads, readers, at2, i)
      BY <2>1, FreedAre
    <2>3. QED
      BY <1>5, <2>2 DEF FreedAll
  <1>8. F \cap W = {} /\ Waiting(n, reads, placed \cup {i}) = (W \ {i}) \cup F
    <2>1. \A r \in F : r \notin placed /\ r # i
      BY <1>4, <1>6
    <2>2. F \cap W = {}
      BY <1>4 DEF Waiting
    <2>3. \A r : r \in Waiting(n, reads, placed \cup {i}) <=> r \in (W \ {i}) \cup F
      <3>1. ASSUME NEW r \in F
            PROVE  r \in Waiting(n, reads, placed \cup {i})
        BY <2>1 DEF Waiting
      <3>2. ASSUME NEW r \in W \ {i}
            PROVE  r \in Waiting(n, reads, placed \cup {i})
        BY DEF Waiting
      <3>3. ASSUME NEW r \in Waiting(n, reads, placed \cup {i})
            PROVE  r \in (W \ {i}) \cup F
        BY DEF Waiting
      <3>4. QED
        BY <3>1, <3>2, <3>3
    <2>4. QED
      BY <2>2, <2>3
  <1> HIDE DEF W, F
  <1>9. plain \in Seq(all) /\ Apart(plain) /\ ToSet(plain) = P
    <2> HIDE DEF freed, P, all
    <2>1. Those(freed, P) \in Seq(all \cap P) /\ ToSet(Those(freed, P)) = ToSet(freed) \cap P
      BY <1>7, ThoseMembers
    <2>2. Apart(Those(freed, P))
      BY <1>7, ThoseApart
    <2>3. Those(freed, P) \in Seq(all)
      <3> DEFINE some == all \cap P
      <3>1. some \subseteq all /\ Those(freed, P) \in Seq(some)
        BY <2>1
      <3> HIDE DEF some
      <3>2. QED
        BY <3>1, SeqMonotonic
    <2>4. P \subseteq ToSet(freed)
      BY DEF P
    <2>5. QED
      BY <2>1, <2>2, <2>3, <2>4
  <1>10. P \cup K = F /\ P \cap K = {}
    BY <1>7
  <1>11. F \subseteq all
    BY DEF F
  <1> HIDE DEF P, K, plain, left, freed
  <1>12. /\ left \o plain \in Seq(all) /\ Apart(left \o plain)
         /\ ToSet(left \o plain) = ToSet(left) \cup P
    <2>1. ToSet(left) \cap ToSet(plain) = {}
      BY <1>3, <1>8, <1>9, <1>10
    <2> HIDE DEF all
    <2>2. QED
      BY <1>3, <1>9, <2>1, ConcatApart
  <1>13. AfterReads(reads, at2)
    <2>1. DOMAIN at2 = 1..q /\ DOMAIN at = 1..(q - 1)
      BY <1>1, <1>5
    <2> HIDE DEF at, at2, placed
    <2>2. ASSUME NEW e \in 1..q, NEW j \in reads[at2[e]]
          PROVE  \E d \in 1..q : d < e /\ at2[d] = j
      <3>1. CASE e = q
        <4>1. j \in ToSet(at)
          BY <1>4, <1>5, <2>2, <3>1 DEF placed
        <4>2. PICK d \in 1..(q - 1) : at[d] = j
          BY <2>1, <4>1 DEF ToSet
        <4>3. d \in 1..q /\ d < e /\ at2[d] = j
          BY <1>1, <1>5, <3>1, <4>2
        <4>4. QED
          BY <4>3
      <3>2. CASE e # q
        <4>0. e \in 1..(q - 1)
          BY <1>1, <3>2
        <4>1. e \in 1..(q - 1) /\ j \in reads[at[e]]
          BY <1>5, <2>2, <4>0
        <4>2. PICK d \in 1..(q - 1) : d < e /\ at[d] = j
          BY <1>1, <2>1, <4>1 DEF AfterReads
        <4>3. d \in 1..q /\ at2[d] = j
          BY <1>1, <1>5, <4>2
        <4>4. QED
          BY <4>2, <4>3
      <3>3. QED
        BY <3>1, <3>2
    <2>3. QED
      BY <2>1, <2>2 DEF AfterReads
  <1>14. y \in States(n)
    <2>1. (kernels \ {i}) \cup K \in SUBSET all
      BY <1>1, <1>10, <1>11
    <2>2. QED
      BY <1>2, <1>5, <1>12, <2>1 DEF States
  <1>15. y.at = at2 /\ y.ready = left \o plain /\ y.kernels = (kernels \ {i}) \cup K
    BY <1>2
  <1> HIDE DEF at2, at, placed, kernels, all
  <1>16. ToSet(y.ready) \cup y.kernels = Waiting(n, reads, ToSet(y.at))
    BY <1>3, <1>5, <1>8, <1>10, <1>12, <1>15
  <1>17. ToSet(y.ready) \cap y.kernels = {}
    BY <1>3, <1>8, <1>10, <1>12, <1>15
  <1>18. QED
    BY <1>5, <1>12, <1>13, <1>14, <1>15, <1>16, <1>17 DEF Arranged

\* As long as one is not placed, one waits.
LEMMA OneWaits ==
    ASSUME NEW n, NEW reads, NEW readers, Reading(n, reads, readers),
           NEW q \in 1..n, NEW x, Arranged(n, reads, q - 1, x)
    PROVE  ToSet(x.ready) \cup x.kernels # {}
  <1> DEFINE out == (1..n) \ ToSet(x.at)
  <1>1. /\ n \in Nat /\ x.at \in Seq(1..n) /\ Apart(x.at) /\ Len(x.at) = q - 1
        /\ reads \in [1..n -> SUBSET (1..n)]
    BY DEF Arranged, States, Reading
  <1>2. ToSet(x.at) # 1..n /\ ToSet(x.at) \subseteq 1..n
    <2> DEFINE at == x.at
    <2>1. at \in Seq(1..n) /\ Apart(at) /\ Len(at) # n
      BY <1>1
    <2> HIDE DEF at
    <2>2. ToSet(at) \subseteq 1..n
      <3> DEFINE all == 1..n
      <3>1. at \in Seq(all)
        BY <2>1
      <3> HIDE DEF all
      <3>2. \A e \in DOMAIN at : at[e] \in all
        BY <3>1
      <3>3. QED
        BY <3>2 DEF ToSet, all
    <2>3. ToSet(at) # 1..n
      BY <1>1, <2>1, ApartFill
    <2>4. QED
      BY <2>2, <2>3 DEF at
  <1>3. out # {} /\ out \in SUBSET (1..n)
    BY <1>2
  <1>4. PICK i \in out : reads[i] \cap out = {}
    <2> HIDE DEF out
    <2>1. QED
      BY <1>3 DEF Reading
  <1>5. i \in Waiting(n, reads, ToSet(x.at))
    BY <1>1, <1>4 DEF Waiting
  <1>6. QED
    BY <1>5 DEF Arranged

\* Whichever is chosen, it waits.
LEMMA PlacedPuts ==
    ASSUME NEW p0, NEW hints, IsFiniteSet(hints), NEW n, n = Len(p0.insts),
           NEW reads, NEW readers, Reading(n, reads, readers),
           NEW q \in 1..n, NEW x, Arranged(n, reads, q - 1, x)
    PROVE  \E i : PutNow(n, p0.insts, readers, x, i, Placed(p0, readers, hints, x))
  <1> DEFINE Open(k0) == Cardinality({h \in hints : h[2] = k0 /\ ~Contains(x.at, h[1])})
             kernels == {k0 \in x.kernels : Open(k0) = 0}
             fewest == {k0 \in x.kernels : \A l \in x.kernels : Open(k0) <= Open(l)}
             i == IF x.ready # <<>> THEN Last(x.ready)
                  ELSE IF kernels # {} THEN MinOf(kernels) ELSE MinOf(fewest)
  <1>1. x.kernels \in SUBSET (1..n) /\ n \in Nat
    BY DEF Arranged, States, Reading
  <1>2. x.ready = <<>> => x.kernels # {}
    <2>1. ToSet(x.ready) \cup x.kernels # {}
      BY OneWaits
    <2>2. ToSet(<<>>) = {}
      BY DEF ToSet
    <2>3. QED
      BY <2>1, <2>2
  <1>3. \A k0 : Open(k0) \in Nat
    <2>1. ASSUME NEW k0
          PROVE  Open(k0) \in Nat
      <3> DEFINE of == {h \in hints : h[2] = k0 /\ ~Contains(x.at, h[1])}
      <3>1. of \in SUBSET hints
        OBVIOUS
      <3> HIDE DEF of
      <3>2. IsFiniteSet(of)
        BY <3>1, FS_Subset
      <3>3. Cardinality(of) \in Nat
        BY <3>2, FS_CardinalityType
      <3>4. QED
        BY <3>3 DEF of
    <2>2. QED
      BY <2>1
  <1> HIDE DEF Open
  <1>4. x.ready = <<>> => fewest # {}
    <2> SUFFICES ASSUME x.kernels # {}
                 PROVE  fewest # {}
      BY <1>2
    <2> DEFINE counts == {Open(k0) : k0 \in x.kernels}
    <2>1. counts \in SUBSET Nat /\ counts # {}
      BY <1>3
    <2> HIDE DEF counts
    <2>2. PICK m \in counts : \A c \in counts : m <= c
      BY <2>1, LeastOf
    <2>3. PICK k0 \in x.kernels : Open(k0) = m
      BY DEF counts
    <2>4. k0 \in fewest
      BY <2>2, <2>3 DEF counts
    <2>5. QED
      BY <2>4
  <1>5. \A set \in SUBSET x.kernels : set # {} => MinOf(set) \in set
    <2>1. ASSUME NEW set \in SUBSET x.kernels, set # {}
          PROVE  MinOf(set) \in set
      <3>1. set \in SUBSET Nat
        BY <1>1
      <3>2. \E m \in set : \A c \in set : m <= c
        BY <2>1, <3>1, LeastOf
      <3>3. QED
        BY <3>2 DEF MinOf
    <2>2. QED
      BY <2>1
  <1>6. x.ready = <<>> => i \in x.kernels
    BY <1>4, <1>5
  <1>7. x.ready # <<>> => i = Last(x.ready)
    OBVIOUS
  <1>8. ~(x.ready = <<>> /\ x.kernels = {})
    BY <1>2
  <1>9. Placed(p0, readers, hints, x) =
          [at |-> Append(x.at, i),
           ready |-> (IF x.ready # <<>> THEN Front(x.ready) ELSE <<>>)
                       \o Those(Freed(n, readers, Append(x.at, i), i),
                                {r \in ToSet(Freed(n, readers, Append(x.at, i), i)) : ~IsKernel(p0.insts[r])}),
           kernels |-> (x.kernels \ {i})
                         \cup {r \in ToSet(Freed(n, readers, Append(x.at, i), i)) : IsKernel(p0.insts[r])}]
    BY <1>8 DEF Placed, Freed, Open
  <1> HIDE DEF i
  <1>10. QED
    BY <1>6, <1>7, <1>9 DEF PutNow

\* One after another is placed.
PlacesAll(f, p0, readers, hints, first) ==
    f = [q \in 0..Len(p0.insts) |->
           IF q = 0 THEN first ELSE Placed(p0, readers, hints, f[q - 1])]

\* From a state arranged, each state of the placement is: as many are placed as steps were taken.
LEMMA PlacesEach ==
    ASSUME NEW p0, NEW hints, IsFiniteSet(hints), NEW n, n = Len(p0.insts),
           NEW reads, NEW readers, Reading(n, reads, readers),
           NEW first, Arranged(n, reads, 0, first), NEW f, f[0] = first,
           \A q \in 1..n : f[q - 1] \in States(n) => f[q] = Placed(p0, readers, hints, f[q - 1])
    PROVE  \A q \in 0..n : Arranged(n, reads, q, f[q])
  <1> DEFINE S == {q \in 0..n : Arranged(n, reads, q, f[q])}
  <1>1. n \in Nat
    BY DEF Reading
  <1>2. 0 \in S
    BY <1>1
  <1>3. ASSUME NEW q \in 1..n, q - 1 \in S
        PROVE  q \in S
    <2> DEFINE x == f[q - 1]
               y == f[q]
    <2>1. Arranged(n, reads, q - 1, x)
      BY <1>3
    <2>2. x \in States(n)
      BY <2>1 DEF Arranged
    <2>3. y = Placed(p0, readers, hints, x)
      BY <2>2
    <2> HIDE DEF x, y
    <2>4. PICK i : PutNow(n, p0.insts, readers, x, i, y)
      BY <2>1, <2>3, PlacedPuts
    <2>5. Arranged(n, reads, q, y)
      BY <2>1, <2>4, PutArranged
    <2>6. q \in 0..n
      BY <1>1
    <2>7. QED
      BY <2>5, <2>6 DEF y
  <1> HIDE DEF S
  <1>4. 0..n \subseteq S
    BY <1>1, <1>2, <1>3, Inductive
  <1>5. QED
    BY <1>4 DEF S

\* They can be.
LEMMA PlacesExist ==
    ASSUME NEW p0, NEW hints, IsFiniteSet(hints), NEW n, n = Len(p0.insts),
           NEW reads, NEW readers, Reading(n, reads, readers),
           NEW first, Arranged(n, reads, 0, first)
    PROVE  \E f : PlacesAll(f, p0, readers, hints, first)
  <1> DEFINE place(u) == Placed(p0, readers, hints, u)
             next == [q \in 1..n |-> [u \in States(n) |-> place(u)]]
  <1>1. n \in Nat
    BY DEF Reading
  <1>2. PICK f : Iterates(f, n, first, next)
    <2> HIDE DEF next
    <2>1. QED
      BY <1>1, Recursive
  <1> HIDE DEF place
  <1>3. f[0] = first
    BY <1>1, <1>2 DEF Iterates
  <1>4. ASSUME NEW q \in 1..n, f[q - 1] \in States(n)
        PROVE  f[q] = place(f[q - 1])
    <2>1. q \in 0..n /\ q # 0
      BY <1>1
    <2>2. f[q] = next[q][f[q - 1]]
      <3> HIDE DEF next
      <3>1. QED
        BY <1>2, <2>1 DEF Iterates
    <2>3. QED
      BY <1>4, <2>2
  <1>5. \A q \in 0..n : Arranged(n, reads, q, f[q])
    <2>1. \A q \in 1..n : f[q - 1] \in States(n) => f[q] = Placed(p0, readers, hints, f[q - 1])
      BY <1>4 DEF place
    <2>2. QED
      BY <1>3, <2>1, PlacesEach
  <1>6. ASSUME NEW q \in 0..n
        PROVE  f[q] = IF q = 0 THEN first ELSE place(f[q - 1])
    <2>1. CASE q = 0
      BY <1>3, <2>1
    <2>2. CASE q # 0
      <3>1. q \in 1..n /\ q - 1 \in 0..n
        BY <1>1, <2>2
      <3>2. f[q - 1] \in States(n)
        BY <1>5, <3>1 DEF Arranged
      <3>3. QED
        BY <1>4, <2>2, <3>1, <3>2
    <2>3. QED
      BY <2>1, <2>2
  <1>7. f = [q \in 0..n |-> IF q = 0 THEN first ELSE place(f[q - 1])]
    <2> DEFINE g == [q \in 0..n |-> IF q = 0 THEN first ELSE place(f[q - 1])]
    <2>1. \A q \in 0..n : f[q] = g[q]
      BY <1>6
    <2>2. f = [q \in 0..n |-> f[q]]
      <3> HIDE DEF next
      <3>1. QED
        BY <1>2 DEF Iterates
    <2>3. g = [q \in 0..n |-> g[q]]
      OBVIOUS
    <2> HIDE DEF g
    <2>4. f = g
      BY <2>1, <2>2, <2>3
    <2>5. QED
      BY <2>4 DEF g
  <1>8. PlacesAll(f, p0, readers, hints, first)
    BY <1>7 DEF PlacesAll, place
  <1>9. QED
    BY <1>8

\* All are placed, each after what it reads.
AllPlaced(n, reads, at) ==
    /\ at \in Seq(1..n) /\ Len(at) = n /\ Apart(at) /\ ToSet(at) = 1..n
    /\ AfterReads(reads, at)

\* One after another, they all are.
LEMMA ArrangePlaces ==
    ASSUME NEW p0, NEW hints, IsFiniteSet(hints), NEW n, n = Len(p0.insts),
           NEW reads, NEW readers, Reading(n, reads, readers),
           NEW first, Arranged(n, reads, 0, first), NEW at, at = Arrange(p0, readers, hints, first)
    PROVE  AllPlaced(n, reads, at)
  <1> DEFINE f == CHOOSE g : PlacesAll(g, p0, readers, hints, first)
             x == f[n]
  <1>1. n \in Nat
    BY DEF Reading
  <1>2. PlacesAll(f, p0, readers, hints, first)
    <2>1. \E g : PlacesAll(g, p0, readers, hints, first)
      BY PlacesExist
    <2>2. QED
      BY <2>1
  <1>3. at = x.at
    BY DEF Arrange, PlacesAll
  <1> HIDE DEF f
  <1>4. f[0] = first
    BY <1>1, <1>2 DEF PlacesAll
  <1>5. ASSUME NEW q \in 1..n
        PROVE  f[q] = Placed(p0, readers, hints, f[q - 1])
    <2>1. q \in 0..n /\ q # 0
      BY <1>1
    <2>2. QED
      BY <1>2, <2>1 DEF PlacesAll
  <1>6. \A q \in 0..n : Arranged(n, reads, q, f[q])
    <2>1. \A q \in 1..n : f[q - 1] \in States(n) => f[q] = Placed(p0, readers, hints, f[q - 1])
      BY <1>5
    <2>2. QED
      BY <1>4, <2>1, PlacesEach
  <1>7. Arranged(n, reads, n, x)
    <2>1. n \in 0..n
      BY <1>1
    <2>2. QED
      BY <1>6, <2>1
  <1>8. at \in Seq(1..n) /\ Len(at) = n /\ Apart(at) /\ AfterReads(reads, at)
    BY <1>3, <1>7 DEF Arranged, States
  <1>9. ToSet(at) = 1..n
    BY <1>1, <1>8, ApartFill
  <1>10. QED
    BY <1>8, <1>9 DEF AllPlaced

\* The list of what is placed, the ends around it.
LEMMA ListOf ==
    ASSUME NEW n \in Nat, NEW at \in Seq(1..n), Len(at) = n, ToSet(at) = 1..n
    PROVE  /\ NewList(at) \in Seq(0..(n + 1)) /\ DOMAIN NewList(at) = 1..(n + 2)
           /\ NewList(at)[1] = 0 /\ NewList(at)[n + 2] = n + 1
           /\ \A q \in 1..n : NewList(at)[q + 1] = at[q]
           /\ ToSet(NewList(at)) = 0..(n + 1)
  <1> DEFINE list == NewList(at)
             all == 0..(n + 1)
  <1>1. at \in Seq(all)
    <2> DEFINE some == 1..n
    <2>1. some \subseteq all /\ at \in Seq(some)
      OBVIOUS
    <2> HIDE DEF some, all
    <2>2. QED
      BY <2>1, SeqMonotonic
  <1>2. 0 \in all /\ n + 1 \in all
    OBVIOUS
  <1>3. list = (<<0>> \o at) \o <<n + 1>>
    BY DEF NewList
  <1> DEFINE tail == n + 1
             one == <<0>> \o at
  <1>4. /\ one \in Seq(all) /\ Len(one) = n + 1 /\ one[1] = 0
        /\ \A q \in 1..n : one[q + 1] = at[q]
    <2> HIDE DEF all
    <2>1. QED
      BY <1>1, <1>2
  <1> HIDE DEF one, list, all, tail
  <1>5. list = one \o <<tail>> /\ tail \in all
    BY <1>2, <1>3 DEF one, tail
  <1>6. /\ list \in Seq(all) /\ Len(list) = n + 2 /\ DOMAIN list = 1..(n + 2)
        /\ \A q \in 1..(n + 1) : list[q] = one[q]
        /\ list[n + 2] = tail
    BY <1>4, <1>5
  <1>7. \A q \in 1..n : list[q + 1] = at[q]
    BY <1>4, <1>6
  <1>8. list[1] = 0
    BY <1>4, <1>6
  <1>9. ToSet(list) = all
    <2>1. \A v \in all : \E q \in 1..(n + 2) : list[q] = v
      <3>1. ASSUME NEW v \in all
            PROVE  v = 0 \/ v = tail \/ v \in 1..n
        BY DEF all, tail
      <3>2. ASSUME NEW v \in 1..n
            PROVE  \E q \in 1..(n + 2) : list[q] = v
        <4>1. PICK q \in DOMAIN at : at[q] = v
          BY DEF ToSet
        <4>2. q \in 1..n
          OBVIOUS
        <4>3. q + 1 \in 1..(n + 2)
          BY <4>2
        <4>4. QED
          BY <1>7, <4>1, <4>2, <4>3
      <3>3. 1 \in 1..(n + 2) /\ n + 2 \in 1..(n + 2)
        OBVIOUS
      <3>4. QED
        BY <1>6, <1>8, <3>1, <3>2, <3>3
    <2>2. DOMAIN list = 1..(n + 2) /\ list \in Seq(all)
      BY <1>6
    <2>3. \A q \in DOMAIN list : list[q] \in all
      BY <2>2
    <2>4. QED
      BY <2>1, <2>2, <2>3 DEF ToSet
  <1>10. QED
    BY <1>6, <1>7, <1>8, <1>9 DEF list, all, tail

\* The labels it starts with are as its places.
LEMMA LabelsStart ==
    ASSUME NEW n \in Nat, n + 2 <= MaxLabel, NEW at \in Seq(1..n), Len(at) = n, Apart(at), ToSet(at) = 1..n
    PROVE  /\ NewLabels(at) \in [0..(n + 1) -> 0..MaxLabel]
           /\ NewLabels(at)[0] = 0 /\ NewLabels(at)[n + 1] = MaxLabel
           /\ \A e \in 1..n : 0 < NewLabels(at)[at[e]] /\ NewLabels(at)[at[e]] < MaxLabel
           /\ \A d, e \in 1..n : d < e => NewLabels(at)[at[d]] < NewLabels(at)[at[e]]
  <1> DEFINE step == MaxLabel \div (n + 2)
             label == NewLabels(at)
             M == MaxLabel
  <1>1. M \in Nat
    BY MaxLabelOf
  <1>2. step \in Nat \ {0} /\ (n + 2) * step <= M
    <2> DEFINE c == n + 2
    <2>1. c \in Nat \ {0} /\ c <= M
      OBVIOUS
    <2> HIDE DEF c, M
    <2>2. /\ M \div c \in Int /\ c * (M \div c) <= M /\ M < c * ((M \div c) + 1)
      BY <1>1, <2>1, Z3
    <2> DEFINE d == M \div c
    <2>3. d \in Int /\ c * d <= M /\ M < c * (d + 1)
      BY <2>2
    <2> HIDE DEF d
    <2>4. d >= 1
      <3>1. d <= 0 => c * (d + 1) <= c
        BY <2>1, <2>3, Z3
      <3>2. QED
        BY <1>1, <2>1, <2>3, <3>1, Z3
    <2>5. QED
      BY <2>3, <2>4 DEF c, d, M
  <1>3. label = [v \in 0..(n + 1) |-> IF v = 0 THEN 0 ELSE IF v = n + 1 THEN M
                                      ELSE Place(at, v) * step]
    BY DEF NewLabels
  <1> HIDE DEF step, label, M
  <1>4. ASSUME NEW e \in 1..n
        PROVE  label[at[e]] = step * e /\ at[e] \in 1..n
    <2>1. at[e] \in 1..n /\ e \in DOMAIN at
      OBVIOUS
    <2>2. Place(at, at[e]) \in DOMAIN at /\ at[Place(at, at[e])] = at[e]
      BY <2>1 DEF Place
    <2>3. Place(at, at[e]) = e
      BY <2>1, <2>2 DEF Apart
    <2>4. at[e] # 0 /\ at[e] # n + 1 /\ at[e] \in 0..(n + 1)
      BY <2>1
    <2>5. label[at[e]] = e * step
      BY <1>3, <2>3, <2>4
    <2>6. e * step = step * e
      BY <1>2
    <2>7. QED
      BY <2>1, <2>5, <2>6
  <1>5. \A e \in 1..n : step * e \in Nat /\ 0 < step * e /\ step * e < M
    <2>1. ASSUME NEW e \in 1..n
          PROVE  step * e \in Nat /\ 0 < step * e /\ step * e < M
      <3>1. e \in Nat /\ n + 2 \in Nat /\ e > 0 /\ e < n + 2
        OBVIOUS
      <3> DEFINE c == n + 2
      <3> HIDE DEF c
      <3>2. /\ step * e \in Nat /\ step * c \in Nat /\ (e < c <=> step * e < step * c)
            /\ step <= step * e
        BY <1>2, <3>1, StepsOrder DEF c
      <3>3. step * c = c * step
        BY <1>2, <3>1 DEF c
      <3>4. step * c <= M
        BY <1>2, <3>3 DEF c
      <3>5. QED
        BY <1>1, <1>2, <3>1, <3>2, <3>4 DEF c
    <2>2. QED
      BY <2>1
  <1>6. \A d, e \in 1..n : d < e => step * d < step * e
    <2>1. ASSUME NEW d \in 1..n, NEW e \in 1..n, d < e
          PROVE  step * d < step * e
      <3>1. d \in Nat /\ e \in Nat
        OBVIOUS
      <3>2. QED
        BY <1>2, <2>1, <3>1, StepsOrder
    <2>2. QED
      BY <2>1
  <1>7. \A v \in 1..n : \E e \in 1..n : at[e] = v
    <2> DEFINE all == 1..n
    <2>1. DOMAIN at = all /\ ToSet(at) = all
      OBVIOUS
    <2> HIDE DEF all
    <2>2. \A v \in all : \E e \in all : at[e] = v
      BY <2>1 DEF ToSet
    <2>3. QED
      BY <2>2 DEF all
  <1>8. label[0] = 0 /\ label[n + 1] = M
    <2>1. 0 \in 0..(n + 1) /\ n + 1 \in 0..(n + 1) /\ n + 1 # 0
      OBVIOUS
    <2>2. QED
      BY <1>3, <2>1
  <1>9. \A v \in 0..(n + 1) : label[v] \in 0..M
    <2>1. \A v \in 1..n : label[v] \in 0..M
      <3>1. \A e \in 1..n : label[at[e]] \in 0..M
        <4>1. ASSUME NEW e \in 1..n
              PROVE  label[at[e]] \in 0..M
          <5> DEFINE l == step * e
          <5>1. label[at[e]] = l /\ l \in Nat /\ 0 < l /\ l < M
            BY <1>4, <1>5
          <5> HIDE DEF l
          <5>2. QED
            BY <1>1, <5>1
        <4>2. QED
          BY <4>1
      <3>2. QED
        BY <1>7, <3>1
    <2>2. \A v \in 0..(n + 1) : v \in 1..n \/ v = 0 \/ v = n + 1
      OBVIOUS
    <2>3. QED
      BY <1>1, <1>8, <2>1, <2>2
  <1>10. label \in [0..(n + 1) -> 0..M]
    BY <1>3, <1>9
  <1>11. \A e \in 1..n : 0 < label[at[e]] /\ label[at[e]] < M
    BY <1>4, <1>5
  <1>12. \A d, e \in 1..n : d < e => label[at[d]] < label[at[e]]
    BY <1>4, <1>6
  <1>13. QED
    BY <1>8, <1>10, <1>11, <1>12 DEF label, M

\* The readers it starts with are those of the program.
LEMMA ReadersAre ==
    ASSUME NEW p0, WellTyped(p0), NEW n, n = Len(p0.insts), NEW k0,
           NEW reads, reads = [i \in 1..n |-> Reads(p0.insts[i])],
           \A set \in SUBSET (1..n) : set # {} => \E i \in set : reads[i] \cap set = {}
    PROVE  Reading(n, reads, ReadersOf(p0, k0, {}))
  <1> DEFINE readers == ReadersOf(p0, k0, {})
             of(j) == {i \in 1..n : j \in Reads(p0.insts[i])}
  <1>1. n \in Nat /\ \A i \in 1..n : Reads(p0.insts[i]) \in SUBSET (1..n)
    BY InstructionsOf, ReadsWithin
  <1>2. reads \in [1..n -> SUBSET (1..n)]
    BY <1>1
  <1>3. readers = [j \in 1..n |-> Ascending(of(j))]
    BY DEF ReadersOf
  <1>4. ASSUME NEW j \in 1..n
        PROVE  /\ readers[j] \in Seq(1..n) /\ Apart(readers[j])
               /\ ToSet(readers[j]) = {i \in 1..n : j \in reads[i]}
    <2> DEFINE set == of(j)
    <2>1. set \in SUBSET (1..n) /\ set = {i \in 1..n : j \in reads[i]}
      OBVIOUS
    <2>2. readers[j] = Ascending(set)
      BY <1>3
    <2> HIDE DEF set, readers
    <2>3. Ascending(set) \in Seq(1..n) /\ Apart(Ascending(set)) /\ ToSet(Ascending(set)) = set
      BY <1>1, <2>1, AscendingApart
    <2>4. QED
      BY <2>1, <2>2, <2>3
  <1>5. readers \in [1..n -> Seq(1..n)]
    <2>1. DOMAIN readers = 1..n /\ readers = [j \in 1..n |-> readers[j]]
      BY <1>3
    <2> HIDE DEF readers
    <2>2. QED
      BY <1>4, <2>1
  <1> HIDE DEF readers
  <1>6. Reading(n, reads, readers)
    BY <1>1, <1>2, <1>4, <1>5 DEF Reading
  <1>7. QED
    BY <1>6 DEF readers

\* What nothing is read by, and all that is placed before the first.
FreeOf(n, readers) == {i \in 1..n : \A j \in 1..n : ~Contains(readers[j], i)}
FirstOf(free, insts) ==
    [at |-> <<>>,
     ready |-> Reverse(Ascending({i \in free : ~IsKernel(insts[i])})),
     kernels |-> {i \in free : IsKernel(insts[i])}]

\* Before the first is placed, what reads nothing waits.
LEMMA ArrangeStarts ==
    ASSUME NEW n, NEW reads, NEW readers, Reading(n, reads, readers), NEW insts,
           NEW free, free = FreeOf(n, readers), NEW first, first = FirstOf(free, insts)
    PROVE  Arranged(n, reads, 0, first)
  <1> DEFINE plain == {i \in free : ~IsKernel(insts[i])}
             kern == {i \in free : IsKernel(insts[i])}
             ready == Reverse(Ascending(plain))
  <1>1. /\ n \in Nat /\ reads \in [1..n -> SUBSET (1..n)]
        /\ \A j \in 1..n : readers[j] \in Seq(1..n) /\ ToSet(readers[j]) = {i \in 1..n : j \in reads[i]}
    BY DEF Reading
  <1>2. \A j \in 1..n : \A i : Contains(readers[j], i) <=> i \in ToSet(readers[j])
    <2>1. ASSUME NEW j \in 1..n, NEW i
          PROVE  Contains(readers[j], i) <=> i \in ToSet(readers[j])
      <3> DEFINE it == readers[j]
                 all == 1..n
      <3>1. it \in Seq(all)
        BY <1>1
      <3> HIDE DEF it, all
      <3>2. Contains(it, i) <=> i \in ToSet(it)
        BY <3>1, ContainsIs
      <3>3. QED
        BY <3>2 DEF it
    <2>2. QED
      BY <2>1
  <1>3. free = {i \in 1..n : reads[i] = {}}
    <2>1. ASSUME NEW i \in 1..n
          PROVE  (\A j \in 1..n : ~Contains(readers[j], i)) <=> reads[i] = {}
      <3>1. \A j \in 1..n : Contains(readers[j], i) <=> j \in reads[i]
        BY <1>1, <1>2
      <3>2. reads[i] \subseteq 1..n
        BY <1>1
      <3>3. QED
        BY <3>1, <3>2
    <2>2. QED
      BY <2>1 DEF FreeOf
  <1>4. free = Waiting(n, reads, {})
    BY <1>3 DEF Waiting
  <1>5. plain \in SUBSET (1..n) /\ kern \in SUBSET (1..n) /\ plain \cup kern = free /\ plain \cap kern = {}
    BY <1>3
  <1> HIDE DEF plain, kern
  <1>6. Ascending(plain) \in Seq(1..n) /\ Apart(Ascending(plain)) /\ ToSet(Ascending(plain)) = plain
    BY <1>1, <1>5, AscendingApart
  <1>7. ready \in Seq(1..n) /\ Apart(ready) /\ ToSet(ready) = plain
    <2> DEFINE asc == Ascending(plain)
               all == 1..n
    <2>1. asc \in Seq(all) /\ Apart(asc) /\ ToSet(asc) = plain
      BY <1>6
    <2> HIDE DEF asc, all
    <2>2. Reverse(asc) \in Seq(all) /\ Apart(Reverse(asc)) /\ ToSet(Reverse(asc)) = ToSet(asc)
      BY <2>1, ReverseApart
    <2>3. QED
      BY <2>1, <2>2 DEF asc, all
  <1>8. first = [at |-> <<>>, ready |-> ready, kernels |-> kern]
    BY DEF plain, kern, FirstOf
  <1> HIDE DEF ready
  <1>9. first.at = <<>> /\ first.ready = ready /\ first.kernels = kern /\ first \in States(n)
    BY <1>5, <1>7, <1>8 DEF States
  <1>10. Apart(first.at) /\ Len(first.at) = 0 /\ ToSet(first.at) = {} /\ AfterReads(reads, first.at)
    BY <1>9 DEF Apart, ToSet, AfterReads
  <1>11. QED
    BY <1>4, <1>5, <1>7, <1>9, <1>10 DEF Arranged

\* The parts of the order a program starts with.
Starts(n, p0, hints, readers, at, o) ==
    /\ at = Arrange(p0, readers, hints, FirstOf(FreeOf(n, readers), p0.insts))
    /\ o = [n |-> n, label |-> NewLabels(at), list |-> NewList(at),
            readers |-> readers, added |-> [i \in 1..n |-> <<>>],
            seen |-> [i \in 1..n |-> 0], stamp |-> 0]

\* The order a program starts with, by its parts.
LEMMA NewTopoIs ==
    ASSUME NEW p0, NEW hints, NEW k0, NEW n, n = Len(p0.insts)
    PROVE  \E at : Starts(n, p0, hints, ReadersOf(p0, k0, {}), at, NewTopo(p0, hints, k0, {}))
  BY DEF Starts, NewTopo, Given, FirstOf, FreeOf

\* An order of a program, as made.
MadeOrder(n, reads, o) ==
    /\ o \in Orders(n) /\ OrderOf(o, reads) /\ o.n = n
    /\ o.label[0] = 0 /\ o.label[n + 1] = MaxLabel

\* What is made is an order of the program.
LEMMA NewTopoOrdered ==
    ASSUME NEW p0, NEW hints, WellTyped(p0), IsFiniteSet(hints), NEW n, n = Len(p0.insts), n + 2 <= MaxLabel,
           NEW reads, reads = [i \in 1..n |-> Reads(p0.insts[i])],
           \A set \in SUBSET (1..n) : set # {} => \E i \in set : reads[i] \cap set = {},
           NEW k0, NEW o, o = NewTopo(p0, hints, k0, {})
    PROVE  MadeOrder(n, reads, o)
  <1> DEFINE readers == ReadersOf(p0, k0, {})
             free == FreeOf(n, readers)
             first == FirstOf(free, p0.insts)
  <1>1. Reading(n, reads, readers)
    BY ReadersAre
  <1>2. PICK at : Starts(n, p0, hints, readers, at, o)
    BY NewTopoIs
  <1>3. at = Arrange(p0, readers, hints, first)
    BY <1>2 DEF Starts
  <1>4. Arranged(n, reads, 0, first)
    <2> DEFINE insts == p0.insts
    <2>1. free = FreeOf(n, readers) /\ first = FirstOf(free, insts)
      OBVIOUS
    <2> HIDE DEF readers, free, first, insts
    <2>2. QED
      BY <1>1, <2>1, ArrangeStarts
  <1> HIDE DEF readers, first
  <1>5. /\ at \in Seq(1..n) /\ Len(at) = n /\ Apart(at) /\ ToSet(at) = 1..n
        /\ AfterReads(reads, at)
    <2>1. AllPlaced(n, reads, at)
      BY <1>1, <1>3, <1>4, ArrangePlaces
    <2>2. QED
      BY <2>1 DEF AllPlaced
  <1>6. /\ n \in Nat /\ reads \in [1..n -> SUBSET (1..n)] /\ readers \in [1..n -> Seq(1..n)]
        /\ \A j \in 1..n : ToSet(readers[j]) = {i \in 1..n : j \in reads[i]}
    BY <1>1 DEF Reading
  <1> DEFINE list == NewList(at)
             label == NewLabels(at)
  <1> DEFINE added == [i \in 1..n |-> <<>>]
             seen == [i \in 1..n |-> 0]
  <1>7. o = [n |-> n, label |-> label, list |-> list, readers |-> readers, added |-> added,
             seen |-> seen, stamp |-> 0]
    BY <1>2 DEF Starts
  <1>70. /\ added \in [1..n -> Seq(1..n)] /\ \A i \in 1..n : added[i] = <<>>
         /\ seen \in [1..n -> Nat] /\ \A i \in 1..n : seen[i] = 0
    OBVIOUS
  <1>8. /\ list \in Seq(0..(n + 1)) /\ DOMAIN list = 1..(n + 2)
        /\ list[1] = 0 /\ list[n + 2] = n + 1
        /\ \A q \in 1..n : list[q + 1] = at[q]
        /\ ToSet(list) = 0..(n + 1)
    BY <1>5, <1>6, ListOf
  <1>9. /\ label \in [0..(n + 1) -> 0..MaxLabel]
        /\ label[0] = 0 /\ label[n + 1] = MaxLabel
        /\ \A e \in 1..n : 0 < label[at[e]] /\ label[at[e]] < MaxLabel
        /\ \A d, e \in 1..n : d < e => label[at[d]] < label[at[e]]
    BY <1>5, <1>6, LabelsStart
  <1> HIDE DEF list, label, added, seen
  <1>10. /\ o.n = n /\ o.label = label /\ o.list = list /\ o.readers = readers
         /\ o.added = added /\ o.seen = seen /\ o.stamp = 0
    BY <1>7
  <1>11. o \in Orders(n)
    BY <1>6, <1>7, <1>70, <1>8, <1>9 DEF Orders
  <1>12. \A q, r \in 1..(n + 2) : q < r => label[list[q]] < label[list[r]]
    <2> DEFINE m == MaxLabel
               at1(q) == q - 1
    <2>1. m \in Nat
      BY MaxLabelOf, <1>6
    <2>2. \A q \in 1..(n + 2) : q = 1 \/ q = n + 2 \/ (q - 1 \in 1..n /\ list[q] = at[q - 1])
      <3>1. ASSUME NEW q \in 1..(n + 2), q # 1, q # n + 2
            PROVE  q - 1 \in 1..n /\ list[q] = at[q - 1]
        <4>1. q - 1 \in 1..n /\ (q - 1) + 1 = q
          BY <1>6, <3>1
        <4>2. QED
          BY <1>8, <4>1
      <3>2. QED
        BY <3>1
    <2>3. label[list[1]] = 0 /\ label[list[n + 2]] = m
      BY <1>8, <1>9
    <2> HIDE DEF m
    <2>4. m > 0
      BY <2>1, <1>6 DEF m
    <2>5. ASSUME NEW q \in 1..(n + 2), NEW r \in 1..(n + 2), q < r
          PROVE  label[list[q]] < label[list[r]]
      <3>1. CASE q = 1 /\ r = n + 2
        BY <2>3, <2>4, <3>1
      <3>2. CASE q = 1 /\ r # n + 2
        <4>1. r - 1 \in 1..n /\ list[r] = at[r - 1]
          BY <1>6, <2>2, <2>5, <3>2
        <4>2. QED
          BY <1>9, <2>3, <3>2, <4>1
      <3>3. CASE q # 1 /\ r = n + 2
        <4>1. q - 1 \in 1..n /\ list[q] = at[q - 1]
          BY <1>6, <2>2, <2>5, <3>3
        <4>2. QED
          BY <1>9, <2>3, <3>3, <4>1 DEF m
      <3>4. CASE q # 1 /\ r # n + 2
        <4>1. /\ q - 1 \in 1..n /\ list[q] = at[q - 1]
              /\ r - 1 \in 1..n /\ list[r] = at[r - 1] /\ q - 1 < r - 1
          BY <1>6, <2>2, <2>5, <3>4
        <4>2. QED
          BY <1>9, <4>1
      <3>5. QED
        BY <3>1, <3>2, <3>3, <3>4
    <2>6. QED
      BY <2>5
  <1>13. ASSUME NEW i \in 1..n, NEW j \in reads[i]
         PROVE  label[j] < label[i]
    <2> DEFINE all == 1..n
    <2>1. DOMAIN at = all /\ ToSet(at) = all
      BY <1>5
    <2>2. PICK e \in all : at[e] = i
      <3>1. i \in ToSet(at)
        BY <1>5
      <3>2. PICK e \in DOMAIN at : at[e] = i
        BY <3>1 DEF ToSet
      <3> HIDE DEF all
      <3>3. QED
        BY <2>1, <3>2
    <2>3. PICK d \in all : d < e /\ at[d] = j
      BY <1>5, <1>13, <2>1, <2>2 DEF AfterReads
    <2>4. QED
      BY <1>9, <2>2, <2>3
  <1>14. \A j \in 1..n : Readers(o, j) = readers[j]
    <2>1. ASSUME NEW j \in 1..n
          PROVE  Readers(o, j) = readers[j]
      <3> DEFINE it == readers[j]
      <3>1. o.added[j] = <<>> /\ o.readers[j] = it /\ it \in Seq(1..n)
        BY <1>6, <1>10, <1>70
      <3> HIDE DEF it
      <3>2. it \o <<>> = it
        BY <3>1
      <3>3. QED
        BY <3>1, <3>2 DEF Readers, it
    <2>2. QED
      BY <2>1
  <1>15. OrderOf(o, reads)
    <2>1. Len(list) = n + 2
      BY <1>6, <1>8
    <2>2. \A w \in 1..n : o.seen[w] <= o.stamp + 1
      BY <1>10, <1>70
    <2>3. \A j \in 1..n : ToSet(Readers(o, j)) = {i \in 1..n : j \in reads[i]}
      BY <1>6, <1>14
    <2>4. \A i \in 1..n : \A j \in reads[i] : label[j] < label[i]
      BY <1>13
    <2>5. /\ Len(o.list) = o.n + 2 /\ ToSet(o.list) = 0..(o.n + 1)
          /\ \A i \in 1..o.n : \A j \in reads[i] : o.label[j] < o.label[i]
          /\ \A w \in 1..o.n : o.seen[w] <= o.stamp + 1
      BY <1>8, <1>10, <2>1, <2>2, <2>4
    <2>6. \A q, r \in DOMAIN o.list : q < r => o.label[o.list[q]] < o.label[o.list[r]]
      BY <1>8, <1>10, <1>12
    <2>7. \A j \in 1..o.n : ToSet(Readers(o, j)) = {i \in 1..o.n : j \in reads[i]}
      BY <1>10, <2>3
    <2>8. QED
      BY <2>5, <2>6, <2>7 DEF OrderOf
  <1>16. QED
    BY <1>9, <1>10, <1>11, <1>15 DEF MadeOrder

------------------------------------------------------------------------------
(* The theorems                                                             *)

\* The order it starts with.
LEMMA StartsSound == Init => OrderInv
  <1> SUFFICES ASSUME Init
               PROVE  OrderInv
    OBVIOUS
  <1>1. PICK c \in Programs0 :
          /\ p = c.p /\ k = MinOf({j \in DOMAIN c.p.insts : IsKernel(c.p.insts[j])})
          /\ t = NewTopo(c.p, c.hints, k, {})
          /\ taken = {} /\ s = <<>>
    BY DEF Init
  <1> DEFINE n == Len(p.insts)
             reads == [i \in 1..n |-> Reads(p.insts[i])]
             kernels == {j \in DOMAIN p.insts : IsKernel(p.insts[j])}
  <1>2. /\ WellTyped(p) /\ IsFiniteSet(c.hints) /\ n + 2 <= MaxLabel /\ kernels # {}
        /\ \A set \in SUBSET DOMAIN p.insts :
             set # {} => \E i \in set : Reads(p.insts[i]) \cap set = {}
    BY <1>1, TopoAssumption DEF WellFormed
  <1>3. n \in Nat /\ DOMAIN p.insts = 1..n
    BY <1>2, InstructionsOf
  <1>4. /\ reads \in [1..n -> SUBSET (1..n)] /\ Operands(p) \in [1..n -> Seq(0..n)]
    BY <1>2, ReadsWithin
  <1>5. \A set \in SUBSET (1..n) : set # {} => \E i \in set : reads[i] \cap set = {}
    BY <1>2, <1>3
  <1>6. k \in 1..n
    <2>1. kernels \in SUBSET Nat /\ kernels \subseteq 1..n
      BY <1>3
    <2>2. k = MinOf(kernels)
      BY <1>1
    <2> HIDE DEF kernels
    <2>3. \E m \in kernels : \A i \in kernels : m <= i
      BY <1>2, <2>1, LeastOf
    <2>4. k \in kernels
      BY <2>2, <2>3 DEF MinOf
    <2>5. QED
      BY <2>1, <2>4
  <1>7. /\ t \in Orders(n) /\ OrderOf(t, reads) /\ t.n = n
        /\ t.label[0] = 0 /\ t.label[n + 1] = MaxLabel
    <2>1. t = NewTopo(p, c.hints, k, {})
      BY <1>1
    <2> DEFINE hints == c.hints
    <2>2. IsFiniteSet(hints) /\ t = NewTopo(p, hints, k, {})
      BY <1>2, <2>1
    <2> HIDE DEF hints, n
    <2>3. n = Len(p.insts) /\ reads = [i \in 1..n |-> Reads(p.insts[i])]
      BY DEF n
    <2> DEFINE o == t
               p0 == p
               k0 == k
    <2>4. /\ WellTyped(p0) /\ IsFiniteSet(hints) /\ n = Len(p0.insts) /\ n + 2 <= MaxLabel
          /\ reads = [i \in 1..n |-> Reads(p0.insts[i])]
          /\ \A set \in SUBSET (1..n) : set # {} => \E i \in set : reads[i] \cap set = {}
          /\ o = NewTopo(p0, hints, k0, {})
      BY <1>2, <1>5, <2>2, <2>3 DEF n
    <2> HIDE DEF reads, o, p0, k0
    <2>5. MadeOrder(n, reads, o)
      BY <2>4, NewTopoOrdered
    <2>6. QED
      BY <2>5 DEF MadeOrder, o
  <1>8. Sources = reads
    BY <1>1, <1>7 DEF Sources
  <1>9. TypeOK
    BY <1>3, <1>4, <1>6, <1>7, <1>8 DEF TypeOK
  <1>10. OrderSound
    BY <1>7, <1>8, <1>9 DEF OrderSound
  <1>11. SearchOK /\ MarksOK
    BY <1>1 DEF SearchOK, MarksOK
  <1>12. ProgramOK /\ EndsOK
    BY <1>2, <1>7 DEF ProgramOK, EndsOK
  <1>13. QED
    BY <1>10, <1>11, <1>12 DEF OrderInv

\* The order is one of the program, and the search's findings are true, in
\* every state.
LEMMA OrderInvariant == Spec => []OrderInv
  BY StartsSound, StepsKeep, PTL DEF Spec

\* The order stays one of the program with everything taken, whatever is
\* asked, searched, moved and relabelled (topo.rs:66-262).
THEOREM OrderStaysSound == Spec => []OrderSound
  <1>1. OrderInv => OrderSound
    BY DEF OrderInv
  <1>2. QED
    BY <1>1, OrderInvariant, PTL

\* The two-way search answers exactly: it refuses an accumulator exactly if
\* that depends on the kernel, and what the side that moves has found is all
\* that must (topo.rs:160-250).
THEOREM AnswersAreExact == Spec => []AnswerExact
  <1>1. OrderInv => AnswerExact
    BY FoundAnswers DEF OrderInv
  <1>2. QED
    BY <1>1, OrderInvariant, PTL

\* No kernel ever takes an accumulator that depends on it, and none is refused
\* that does not.
THEOREM TakesExactly == Spec => NoCycleTaken /\ RefusedForACycle
  <1>1. OrderInv /\ [Next]_vars =>
          /\ [\A a \in taken' \ taken : k \notin DependsOn(Sources, {a})]_vars
          /\ [s # <<>> /\ s' = <<>> /\ s.a \notin taken' => k \in DependsOn(Sources, {s.a})]_vars
    BY StepTakes DEF OrderInv
  <1>2. QED
    BY <1>1, OrderInvariant, PTL DEF Spec, NoCycleTaken, RefusedForACycle

=============================================================================
