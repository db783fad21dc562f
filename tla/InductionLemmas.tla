-------------------------- MODULE InductionLemmas --------------------------
(***************************************************************************)
(* Induction over naturals and finite sets in a first-order form, and what *)
(* it says of functions defined by recursion over an interval 0 .. n.  The *)
(* step of a recursion is itself a function here, so that every recursive  *)
(* function of the specifications is an instance.                          *)
(***************************************************************************)
EXTENDS Integers, FiniteSets, WellFoundedInduction, FiniteSetTheorems, TLAPS

(* A nonempty set of naturals has a least element. *)
LEMMA LeastElement ==
    ASSUME NEW T \in SUBSET Nat, T # {}
    PROVE  \E x \in T : \A y \in T : x <= y
<1>1. \E x \in T : \A y \in T : ~ (<<y, x>> \in OpToRel(<, Nat))
  BY WFMin, NatLessThanWellFounded
<1>2. PICK x \in T : \A y \in T : ~ (<<y, x>> \in OpToRel(<, Nat))
  BY <1>1
<1>3. ASSUME NEW y \in T PROVE x <= y
  <2>1. x \in Nat /\ y \in Nat
    OBVIOUS
  <2>2. ~ (y < x)
    BY <1>2, <2>1 DEF OpToRel
  <2>3. QED
    BY <2>1, <2>2
<1>4. QED
  BY <1>3

(* The sets of a family that contain no other one. *)
Smallest(F) == {T \in F : \A U \in F : U \subseteq T => U = T}

(* Among some subsets of a finite set there is a smallest one. *)
LEMMA SmallestSet ==
    ASSUME NEW S, IsFiniteSet(S), NEW F \in SUBSET SUBSET S, F # {}
    PROVE  Smallest(F) # {}
<1> DEFINE R == StrictSubsetOrdering(S)
<1>1. IsWellFoundedOn(R, SUBSET S)
  BY FS_StrictSubsetOrderingWellFounded, FS_FiniteSubsetsOfFinite
<1> HIDE DEF R
<1>2. \E T \in F : \A U \in F : ~ (<<U, T>> \in R)
  BY <1>1, WFMin
<1>3. PICK T \in F : \A U \in F : ~ (<<U, T>> \in R)
  BY <1>2
<1>4. ASSUME NEW U \in F, U \subseteq T, U # T PROVE FALSE
  <2>1. <<U, T>> \in (SUBSET S) \X (SUBSET S)
    OBVIOUS
  <2>2. <<U, T>> \in R
    BY <2>1, <1>4 DEF R, StrictSubsetOrdering
  <2>3. QED
    BY <2>2, <1>3
<1>5. QED
  BY <1>4 DEF Smallest

(* A nonempty finite set of naturals has a largest element. *)
LEMMA LargestElement ==
    ASSUME NEW S \in SUBSET Nat, IsFiniteSet(S), S # {}
    PROVE  \E x \in S : \A y \in S : y <= x
<1> DEFINE HasLargest(T) == \E x \in T : \A y \in T : y <= x
           F == {T \in SUBSET S : T # {} /\ ~ HasLargest(T)}
<1>1. SUFFICES ASSUME ~ HasLargest(S) PROVE FALSE
  OBVIOUS
<1>2. F \in SUBSET SUBSET S /\ F # {}
  BY <1>1
<1> HIDE DEF F
<1>3. PICK T \in F : \A U \in F : U \subseteq T => U = T
  <2>1. Smallest(F) # {}
    BY <1>2, SmallestSet
  <2>2. QED
    BY <2>1 DEF Smallest
<1>4. /\ T \in SUBSET Nat /\ T # {} /\ T \in SUBSET S
      /\ \A x \in T : \E y \in T : ~ (y <= x)
  BY <1>3 DEF F
<1>5. PICK z \in T : TRUE
  BY <1>4
<1> DEFINE U == T \ {z}
<1>6. U \in SUBSET S /\ U \subseteq T /\ U # T
  BY <1>4
<1>7. U # {}
  <2>1. PICK y \in T : ~ (y <= z)
    BY <1>4
  <2>2. y # z
    BY <2>1, <1>4
  <2>3. QED
    BY <2>2
<1>8. U \notin F
  BY <1>3, <1>6
<1>9. HasLargest(U)
  BY <1>6, <1>7, <1>8 DEF F
<1>10. PICK x \in U : \A y \in U : y <= x
  BY <1>9
<1>11. HasLargest(T)
  <2>1. x \in Nat /\ z \in Nat /\ x \in T
    BY <1>4
  <2>2. CASE z <= x
    BY <2>1, <2>2, <1>10
  <2>3. CASE x <= z
    <3>1. \A y \in T : y \in Nat
      BY <1>4
    <3>2. ASSUME NEW y \in T PROVE y <= z
      BY <2>1, <2>3, <1>10, <3>1
    <3>3. QED
      BY <3>2
  <2>4. QED
    BY <2>1, <2>2, <2>3
<1>12. QED
  BY <1>4, <1>11

(* A set that holds 0 and, with each i below n, also i + 1, holds 0 .. n. *)
LEMMA IntervalInduction ==
    ASSUME NEW n \in Nat, NEW P,
           0 \in P,
           \A i \in 0 .. n - 1 : i \in P => i + 1 \in P
    PROVE  0 .. n \subseteq P
<1>1. SUFFICES ASSUME ~ (0 .. n \subseteq P) PROVE FALSE
  OBVIOUS
<1> DEFINE T == (0 .. n) \ P
<1>2. T \in SUBSET Nat /\ T # {}
  BY <1>1
<1> HIDE DEF T
<1>3. PICK x \in T : \A y \in T : x <= y
  BY <1>2, LeastElement
<1>4. x \in 0 .. n /\ x \notin P
  BY <1>3 DEF T
<1>5. x # 0
  BY <1>4
<1>6. x - 1 \in 0 .. n - 1
  BY <1>4, <1>5
<1>7. x - 1 \notin T
  BY <1>3, <1>4, <1>6
<1>8. x - 1 \in P
  BY <1>6, <1>7 DEF T
<1>9. (x - 1) + 1 \in P
  BY <1>6, <1>8
<1>10. (x - 1) + 1 = x
  BY <1>4
<1>11. QED
  BY <1>4, <1>9, <1>10

(* The functions that begin with base and go on from i - 1 to i by step[i]. *)
Solutions(n, V, base, step) ==
    {f \in [0 .. n -> V] : f[0] = base /\ \A i \in 1 .. n : f[i] = step[i][f[i - 1]]}

(* The equations of a recursion over 0 .. n with values in V have a solution. *)
LEMMA RecursionExists ==
    ASSUME NEW n \in Nat, NEW V, NEW base \in V, NEW step \in [1 .. n -> [V -> V]]
    PROVE  Solutions(n, V, base, step) # {}
<1> DEFINE Solves(g, k) ==
              g[0] = base /\ \A i \in 1 .. k : g[i] = step[i][g[i - 1]]
           P == {k \in 0 .. n : \E g \in [0 .. k -> V] : Solves(g, k)}
<1>1. 0 \in P
  <2>1. Solves([i \in 0 .. 0 |-> base], 0)
    OBVIOUS
  <2>2. [i \in 0 .. 0 |-> base] \in [0 .. 0 -> V]
    OBVIOUS
  <2>3. 0 \in 0 .. n
    OBVIOUS
  <2> HIDE DEF Solves
  <2>4. QED
    BY <2>1, <2>2, <2>3
<1>2. ASSUME NEW i \in 0 .. n - 1, i \in P
      PROVE  i + 1 \in P
  <2>1. PICK g \in [0 .. i -> V] : Solves(g, i)
    BY <1>2
  <2> DEFINE h == [j \in 0 .. i + 1 |-> IF j = i + 1 THEN step[i + 1][g[i]] ELSE g[j]]
  <2>2. i + 1 \in 1 .. n /\ g[i] \in V
    OBVIOUS
  <2>3. step[i + 1][g[i]] \in V
    BY <2>2
  <2>4. h \in [0 .. i + 1 -> V]
    BY <2>3
  <2>5. ASSUME NEW j \in 1 .. i + 1
        PROVE  h[j] = step[j][h[j - 1]]
    <3>1. CASE j = i + 1
      <4>1. h[j] = step[i + 1][g[i]]
        BY <3>1
      <4>2. h[j - 1] = g[i]
        BY <3>1
      <4>3. QED
        BY <3>1, <4>1, <4>2
    <3>2. CASE j # i + 1
      <4>1. j \in 1 .. i /\ j - 1 \in 0 .. i
        BY <3>2
      <4>2. h[j] = g[j] /\ h[j - 1] = g[j - 1]
        BY <4>1
      <4>3. g[j] = step[j][g[j - 1]]
        BY <2>1, <4>1
      <4>4. QED
        BY <4>2, <4>3
    <3>3. QED
      BY <3>1, <3>2
  <2>6. Solves(h, i + 1)
    <3>1. h[0] = base
      BY <2>1
    <3> HIDE DEF h
    <3>2. QED
      BY <3>1, <2>5
  <2>7. i + 1 \in 0 .. n
    OBVIOUS
  <2> HIDE DEF h, Solves
  <2>8. QED
    BY <2>4, <2>6, <2>7
<1> HIDE DEF P
<1>3. 0 .. n \subseteq P
  BY <1>1, <1>2, IntervalInduction
<1>4. n \in P
  BY <1>3
<1>5. QED
  BY <1>4 DEF P, Solutions

(* Two solutions of the same recursion, as far as the steps agree, are equal. *)
LEMMA RecursionUnique ==
    ASSUME NEW n \in Nat, NEW f, NEW g,
           f[0] = g[0],
           \A i \in 1 .. n : f[i - 1] = g[i - 1] => f[i] = g[i]
    PROVE  \A i \in 0 .. n : f[i] = g[i]
<1> DEFINE P == {k \in 0 .. n : f[k] = g[k]}
<1>1. 0 \in P
  OBVIOUS
<1>2. ASSUME NEW i \in 0 .. n - 1, i \in P
      PROVE  i + 1 \in P
  <2>1. i + 1 \in 1 .. n /\ (i + 1) - 1 = i
    OBVIOUS
  <2>2. f[i] = g[i]
    BY <1>2
  <2>3. f[i + 1] = g[i + 1]
    BY <2>1, <2>2
  <2>4. QED
    BY <2>1, <2>3
<1> HIDE DEF P
<1>3. 0 .. n \subseteq P
  BY <1>1, <1>2, IntervalInduction
<1>4. QED
  BY <1>3 DEF P

\* Two functions start alike, and go on alike as long as they do.
Agree(n, f, g) == f[0] = g[0] /\ \A i \in 1 .. n : f[i - 1] = g[i - 1] => f[i] = g[i]

(* The same, for two functions that are known to agree step by step. *)
LEMMA RecursionAgrees ==
    ASSUME NEW n \in Nat, NEW f, NEW g, Agree(n, f, g)
    PROVE  \A i \in 0 .. n : f[i] = g[i]
<1>1. f[0] = g[0] /\ \A i \in 1 .. n : f[i - 1] = g[i - 1] => f[i] = g[i]
  BY DEF Agree
<1>2. QED
  BY <1>1, RecursionUnique

=============================================================================
