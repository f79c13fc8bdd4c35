---------------------------- MODULE FoldTheorems ----------------------------
(***************************************************************************)
(* What the folds of the community modules compute.  Folds recur over the  *)
(* subsets of a finite set; a function that takes the chosen element and   *)
(* the fold of the others to the fold of all stands for the operator.      *)
(***************************************************************************)
EXTENDS Integers, FiniteSets, Functions, FiniteSetTheorems, WellFoundedInduction, TLAPS

(* A set of natural numbers has a least element, which makes induction     *)
(* available for the formulas below.                                       *)
LEMMA NatMin ==
  ASSUME NEW Z, Z \subseteq Nat, Z # {}
  PROVE  \E y \in Z : \A x \in Z : y <= x
<1> DEFINE R == OpToRel(<, Nat)
<1>1. IsWellFoundedOn(R, Nat)
  BY NatLessThanWellFounded
<1>2. \A x, y \in Nat : x < y => <<x, y>> \in R
  BY DEF OpToRel
<1> HIDE DEF R
<1>3. PICK y \in Z : \A x \in Z : ~(<<x, y>> \in R)
  BY <1>1, WFMin
<1>4. \A x \in Z : ~(x < y)
  BY <1>2, <1>3
<1> QED
  BY <1>3, <1>4

(* The subsets of S of at most n elements.                                 *)
Small(S, n) == {T \in SUBSET S : Cardinality(T) <= n}

(* it is the fold that starts at base, takes c[T] out of T and goes on     *)
(* from the fold of the others with G.                                     *)
Recurs(it, S, domain, base, c, G) ==
  it = [T \in domain |-> IF T = {} THEN base ELSE G[<<c[T], it[T \ {c[T]}]>>]]

Chooses(c, S) == \A T \in SUBSET S : T # {} => c[T] \in T

(* Taking the chosen element out of a set makes it smaller.                *)
LEMMA OneLess ==
  ASSUME NEW S, IsFiniteSet(S), NEW c, Chooses(c, S), NEW T, T \subseteq S, T # {}
  PROVE  /\ T \ {c[T]} \subseteq S /\ IsFiniteSet(T) /\ Cardinality(T) \in Nat
         /\ Cardinality(T \ {c[T]}) = Cardinality(T) - 1
         /\ Cardinality(T \ {c[T]}) \in Nat
<1>1. IsFiniteSet(T) /\ Cardinality(T) \in Nat
  BY FS_Subset, FS_CardinalityType
<1>2. c[T] \in T
  BY DEF Chooses
<1>3. IsFiniteSet(T \ {c[T]}) /\ Cardinality(T \ {c[T]}) = Cardinality(T) - 1
  BY <1>1, <1>2, FS_RemoveElement
<1>4. Cardinality(T \ {c[T]}) \in Nat
  BY <1>3, FS_CardinalityType
<1> QED
  BY <1>1, <1>3, <1>4

(* The subsets of S in Good reach from the empty set to all of S.          *)
Closed(Good, c, S) ==
  /\ {} \in Good
  /\ \A T \in SUBSET S : T # {} /\ T \ {c[T]} \in Good => T \in Good

(* What is true of the empty set, and of a set when it is true of it       *)
(* without its chosen element, is true of all subsets: Good is the set of  *)
(* the subsets it is true of.                                              *)
LEMMA SubsetInduction ==
  ASSUME NEW S, IsFiniteSet(S), NEW c, Chooses(c, S), NEW Good,
         Closed(Good, c, S)
  PROVE  SUBSET S \subseteq Good
<1> SUFFICES ASSUME ~(SUBSET S \subseteq Good)
             PROVE  FALSE
  OBVIOUS
<1> DEFINE Bad == {T \in SUBSET S : T \notin Good}
           Sizes == {Cardinality(T) : T \in Bad}
<1>1. Sizes \subseteq Nat /\ Sizes # {}
  <2>1. \A T \in Bad : Cardinality(T) \in Nat
    BY FS_Subset, FS_CardinalityType
  <2> QED
    BY <2>1
<1>2. PICK n \in Sizes : \A y \in Sizes : n <= y
  <2> HIDE DEF Sizes
  <2> QED
    BY <1>1, NatMin
<1>3. PICK T \in Bad : Cardinality(T) = n
  <2> HIDE DEF Bad
  <2> QED
    BY <1>2
<1>4. T # {} /\ T \in SUBSET S
  BY <1>3 DEF Closed
<1> HIDE DEF Bad, Sizes
<1>5. Cardinality(T) \in Nat
  BY <1>4, FS_Subset, FS_CardinalityType
<1>6. Cardinality(T \ {c[T]}) = Cardinality(T) - 1
  <2>1. c[T] \in T
    BY <1>4 DEF Chooses
  <2>2. IsFiniteSet(T)
    BY <1>4, FS_Subset
  <2> QED
    BY <2>1, <2>2, FS_RemoveElement
<1>7. T \ {c[T]} \in Bad
  <2>1. T \ {c[T]} \in SUBSET S
    BY <1>4
  <2> QED
    BY <1>3, <1>4, <2>1 DEF Closed, Bad
<1>8. Cardinality(T \ {c[T]}) \in Sizes
  BY <1>7 DEF Sizes
<1>9. Cardinality(T) <= Cardinality(T \ {c[T]})
  BY <1>2, <1>3, <1>8
<1> QED
  BY <1>5, <1>6, <1>9

(* There is such a fold.                                                   *)
LEMMA FoldExists ==
  ASSUME NEW S, IsFiniteSet(S), NEW c, Chooses(c, S), NEW G, NEW base
  PROVE  \E it : Recurs(it, S, SUBSET S, base, c, G)
<1> DEFINE Good == {n \in Nat : \E it : Recurs(it, S, Small(S, n), base, c, G)}
           Bad == Nat \ Good
<1>1. Bad = {}
  <2> SUFFICES ASSUME Bad # {}
               PROVE  FALSE
    OBVIOUS
  <2>1. PICK n \in Bad : \A y \in Bad : n <= y
    <3>1. Bad \subseteq Nat
      OBVIOUS
    <3> HIDE DEF Bad
    <3> QED
      BY <3>1, NatMin
  <2>2. n # 0
    <3>1. \A T \in Small(S, 0) : T = {}
      <4> SUFFICES ASSUME NEW T \in Small(S, 0)
                   PROVE  T = {}
        OBVIOUS
      <4>1. T \in SUBSET S /\ Cardinality(T) <= 0
        BY DEF Small
      <4>2. IsFiniteSet(T) /\ Cardinality(T) \in Nat
        BY <4>1, FS_Subset, FS_CardinalityType
      <4> QED
        BY <4>1, <4>2, FS_EmptySet
    <3> DEFINE h == [T \in Small(S, 0) |-> base]
    <3>2. Recurs(h, S, Small(S, 0), base, c, G)
      BY <3>1 DEF Recurs
    <3> QED
      BY <2>1, <3>2
  <2>3. n - 1 \in Nat /\ n \in Nat /\ n - 1 \in Good
    BY <2>1, <2>2
  <2>4. PICK f : Recurs(f, S, Small(S, n - 1), base, c, G)
    BY <2>3
  <2> DEFINE h == [T \in Small(S, n) |->
                     IF T = {} THEN base ELSE G[<<c[T], f[T \ {c[T]}]>>]]
  <2>5. \A T \in Small(S, n - 1) : T \in Small(S, n) /\ h[T] = f[T]
    <3> SUFFICES ASSUME NEW T \in Small(S, n - 1)
                 PROVE  T \in Small(S, n) /\ h[T] = f[T]
      OBVIOUS
    <3>1. T \in SUBSET S /\ Cardinality(T) <= n - 1
      BY DEF Small
    <3>2. Cardinality(T) \in Nat
      BY <3>1, FS_Subset, FS_CardinalityType
    <3>3. T \in Small(S, n)
      BY <2>3, <3>1, <3>2 DEF Small
    <3>4. f[T] = IF T = {} THEN base ELSE G[<<c[T], f[T \ {c[T]}]>>]
      BY <2>4 DEF Recurs
    <3> QED
      BY <3>3, <3>4
  <2>6. \A T \in Small(S, n) : T # {} => T \ {c[T]} \in Small(S, n - 1)
    <3> SUFFICES ASSUME NEW T \in Small(S, n), T # {}
                 PROVE  T \ {c[T]} \in Small(S, n - 1)
      OBVIOUS
    <3>1. T \in SUBSET S /\ Cardinality(T) <= n
      BY DEF Small
    <3>2. /\ T \ {c[T]} \in SUBSET S /\ Cardinality(T) \in Nat
          /\ Cardinality(T \ {c[T]}) = Cardinality(T) - 1
      BY <3>1, OneLess
    <3> QED
      BY <2>3, <3>1, <3>2 DEF Small
  <2>7. Recurs(h, S, Small(S, n), base, c, G)
    <3>1. \A T \in Small(S, n) :
            h[T] = IF T = {} THEN base ELSE G[<<c[T], h[T \ {c[T]}]>>]
      BY <2>5, <2>6
    <3> QED
      BY <3>1 DEF Recurs
  <2> HIDE DEF h
  <2> QED
    BY <2>1, <2>3, <2>7
<1>2. Cardinality(S) \in Nat
  BY FS_CardinalityType
<1>3. \E it : Recurs(it, S, Small(S, Cardinality(S)), base, c, G)
  BY <1>1, <1>2
<1>4. Small(S, Cardinality(S)) = SUBSET S
  <2> SUFFICES ASSUME NEW T \in SUBSET S
               PROVE  Cardinality(T) <= Cardinality(S)
    BY DEF Small
  <2> QED
    BY FS_Subset
<1> QED
  BY <1>3, <1>4

(* A fold stays in a set that its base is in and every step stays in.      *)
LEMMA FoldStays ==
  ASSUME NEW S, IsFiniteSet(S), NEW c, Chooses(c, S), NEW G, NEW base,
         NEW it, Recurs(it, S, SUBSET S, base, c, G),
         NEW B, base \in B, \A x \in S, b \in B : G[<<x, b>>] \in B
  PROVE  \A T \in SUBSET S : it[T] \in B
<1> DEFINE Good == {T \in SUBSET S : it[T] \in B}
<1>1. \A T \in SUBSET S : it[T] = IF T = {} THEN base ELSE G[<<c[T], it[T \ {c[T]}]>>]
  BY DEF Recurs
<1>2. Closed(Good, c, S)
  <2>1. {} \in Good
    BY <1>1
  <2>2. ASSUME NEW T \in SUBSET S, T # {}, T \ {c[T]} \in Good
        PROVE  T \in Good
    <3>1. c[T] \in S
      BY <2>2 DEF Chooses
    <3>2. it[T] = G[<<c[T], it[T \ {c[T]}]>>]
      BY <1>1, <2>2
    <3> QED
      BY <2>2, <3>1, <3>2
  <2> HIDE DEF Good
  <2> QED
    BY <2>1, <2>2 DEF Closed
<1>3. SUBSET S \subseteq Good
  <2> HIDE DEF Good
  <2> QED
    BY <1>2, SubsetInduction
<1> QED
  BY <1>3

(* A fold whose steps stay in a set exists and stays in it.                *)
LEMMA FoldDefined ==
  ASSUME NEW S, IsFiniteSet(S), NEW c, Chooses(c, S), NEW G, NEW base,
         NEW B, base \in B, \A x \in S, b \in B : G[<<x, b>>] \in B
  PROVE  \E it : Recurs(it, S, SUBSET S, base, c, G) /\ \A T \in SUBSET S : it[T] \in B
<1>1. PICK it : Recurs(it, S, SUBSET S, base, c, G)
  BY FoldExists
<1>2. \A T \in SUBSET S : it[T] \in B
  BY <1>1, FoldStays
<1> QED
  BY <1>1, <1>2

(* The largest of some indices of a sequence is one of them.               *)
LEMMA LargestIndex ==
  ASSUME NEW n \in Nat, NEW T, T \subseteq 1 .. n, T # {}
  PROVE  \E x \in T : \A y \in T : x >= y
<1> DEFINE Z == {n - x : x \in T}
<1>0. \A x \in T : x \in Int /\ 1 <= x /\ x <= n
  OBVIOUS
<1>1. Z \subseteq Nat /\ Z # {}
  <2>1. \A x \in T : n - x \in Nat
    BY <1>0
  <2> QED
    BY <2>1
<1>2. PICK z \in Z : \A y \in Z : z <= y
  <2> HIDE DEF Z
  <2> QED
    BY <1>1, NatMin
<1>3. PICK x \in T : z = n - x
  OBVIOUS
<1>4. \A y \in T : n - y \in Z
  OBVIOUS
<1>5. ASSUME NEW y \in T
      PROVE  x >= y
  <2>1. n - x <= n - y
    BY <1>2, <1>3, <1>4
  <2>2. x \in Int /\ y \in Int
    BY <1>0
  <2> QED
    BY <2>1, <2>2
<1> QED
  BY <1>5

-----------------------------------------------------------------------------
(* Sums *)

(* it sums up the values of f over the subsets of S.                       *)
Sums(it, f, S) ==
  it = [T \in SUBSET S |->
         IF T = {} THEN 0 ELSE f[CHOOSE x \in T : TRUE] + it[T \ {CHOOSE x \in T : TRUE}]]

(* The values of a function on a finite set have sums.                     *)
LEMMA SumExists ==
  ASSUME NEW S, IsFiniteSet(S), NEW f \in [S -> Nat]
  PROVE  \E it : Sums(it, f, S) /\ SumFunction(f) = it[S] /\ it \in [SUBSET S -> Nat]
<1> DEFINE c == [T \in SUBSET S |-> CHOOSE x \in T : TRUE]
           G == [p \in S \X Nat |-> f[p[1]] + p[2]]
           it == CHOOSE h : Sums(h, f, S)
<1>1. Chooses(c, S)
  <2> SUFFICES ASSUME NEW T \in SUBSET S, T # {}
               PROVE  (CHOOSE x \in T : TRUE) \in T
    BY DEF Chooses
  <2> QED
    OBVIOUS
<1>2. \A x \in S, n \in Nat : G[<<x, n>>] = f[x] + n /\ G[<<x, n>>] \in Nat
  <2> SUFFICES ASSUME NEW x \in S, NEW n \in Nat
               PROVE  G[<<x, n>>] = f[x] + n /\ G[<<x, n>>] \in Nat
    OBVIOUS
  <2>1. f[x] \in Nat
    OBVIOUS
  <2>2. <<x, n>> \in S \X Nat /\ G[<<x, n>>] = f[x] + n
    OBVIOUS
  <2> HIDE DEF G
  <2> QED
    BY <2>1, <2>2
<1> HIDE DEF G
<1>3. PICK h : /\ Recurs(h, S, SUBSET S, 0, c, G)
               /\ \A T \in SUBSET S : h[T] \in Nat
  <2>1. \A x \in S, n \in Nat : G[<<x, n>>] \in Nat
    BY <1>2
  <2> HIDE DEF c
  <2> QED
    BY <1>1, <2>1, FoldDefined
<1>4. Sums(h, f, S)
  <2>1. \A T \in SUBSET S : T # {} =>
          G[<<c[T], h[T \ {c[T]}]>>]
            = f[CHOOSE x \in T : TRUE] + h[T \ {CHOOSE x \in T : TRUE}]
    <3> SUFFICES ASSUME NEW T \in SUBSET S, T # {}
                 PROVE  G[<<c[T], h[T \ {c[T]}]>>]
                          = f[CHOOSE x \in T : TRUE] + h[T \ {CHOOSE x \in T : TRUE}]
      OBVIOUS
    <3>1. c[T] = (CHOOSE x \in T : TRUE) /\ c[T] \in S
      BY <1>1 DEF Chooses
    <3>2. h[T \ {c[T]}] \in Nat
      BY <1>3
    <3> HIDE DEF c
    <3> QED
      BY <1>2, <3>1, <3>2
  <2>2. h = [T \in SUBSET S |->
              IF T = {} THEN 0
              ELSE f[CHOOSE x \in T : TRUE] + h[T \ {CHOOSE x \in T : TRUE}]]
    BY <1>3, <2>1 DEF Recurs
  <2> QED
    BY <2>2 DEF Sums
<1>5. Sums(it, f, S)
  BY <1>4
<1>6. SumFunction(f) = it[S]
  <2>1. DOMAIN f = S
    OBVIOUS
  <2>2. SumFunction(f) =
          (CHOOSE k : k =
             [T \in SUBSET DOMAIN f |->
               IF T = {} THEN 0
               ELSE f[CHOOSE x \in T : TRUE] + k[T \ {CHOOSE x \in T : TRUE}]])[DOMAIN f]
    BY DEF SumFunction, SumFunctionOnSet, FoldFunctionOnSet, MapThenFoldSet
  <2>3. SumFunction(f) = (CHOOSE k : Sums(k, f, DOMAIN f))[DOMAIN f]
    BY <2>2 DEF Sums
  <2> QED
    BY <2>1, <2>3
<1> HIDE DEF it
<1>7. it \in [SUBSET S -> Nat]
  <2> DEFINE Good == {T \in SUBSET S : it[T] \in Nat}
  <2>1. \A T \in SUBSET S :
          it[T] = IF T = {} THEN 0
                  ELSE f[CHOOSE x \in T : TRUE] + it[T \ {CHOOSE x \in T : TRUE}]
    BY <1>5 DEF Sums
  <2>2. {} \in Good
    BY <2>1
  <2>3. ASSUME NEW T \in SUBSET S, T # {}, T \ {c[T]} \in Good
        PROVE  T \in Good
    <3>1. c[T] = (CHOOSE x \in T : TRUE) /\ c[T] \in S
      BY <1>1, <2>3 DEF Chooses
    <3> HIDE DEF c
    <3>2. it[T] = f[c[T]] + it[T \ {c[T]}]
      BY <2>1, <2>3, <3>1
    <3>3. f[c[T]] \in Nat /\ it[T \ {c[T]}] \in Nat
      BY <2>3, <3>1
    <3> QED
      BY <3>2, <3>3
  <2>4. Closed(Good, c, S)
    <3>1. \A T \in SUBSET S : T # {} /\ T \ {c[T]} \in Good => T \in Good
      <4> HIDE DEF Good, c
      <4> QED
        BY <2>3
    <3> HIDE DEF Good, c
    <3> QED
      BY <2>2, <3>1 DEF Closed
  <2>5. SUBSET S \subseteq Good
    <3> HIDE DEF Good, c
    <3> QED
      BY <1>1, <2>4, SubsetInduction
  <2>6. \A T \in SUBSET S : it[T] \in Nat
    BY <2>5
  <2> QED
    BY <1>5, <2>6 DEF Sums
<1> QED
  BY <1>5, <1>6, <1>7

(* A sum changes by as much as the value that changes.                     *)
LEMMA SumChange ==
  ASSUME NEW S, IsFiniteSet(S), NEW f \in [S -> Nat], NEW s \in S, NEW v \in Nat
  PROVE  /\ SumFunction(f) \in Nat
         /\ SumFunction([f EXCEPT ![s] = v]) = SumFunction(f) - f[s] + v
<1> DEFINE g == [f EXCEPT ![s] = v]
           c == [T \in SUBSET S |-> CHOOSE x \in T : TRUE]
           d == v - f[s]
<1>0. g \in [S -> Nat] /\ g[s] = v /\ \A x \in S \ {s} : g[x] = f[x]
  OBVIOUS
<1> HIDE DEF g
<1>1. PICK F : Sums(F, f, S) /\ SumFunction(f) = F[S] /\ F \in [SUBSET S -> Nat]
  BY SumExists
<1>2. PICK H : Sums(H, g, S) /\ SumFunction(g) = H[S] /\ H \in [SUBSET S -> Nat]
  BY <1>0, SumExists
<1>3. \A T \in SUBSET S : T # {} => c[T] = (CHOOSE x \in T : TRUE) /\ c[T] \in T
  OBVIOUS
<1>4. \A T \in SUBSET S :
        /\ F[T] = IF T = {} THEN 0 ELSE f[c[T]] + F[T \ {c[T]}]
        /\ H[T] = IF T = {} THEN 0 ELSE g[c[T]] + H[T \ {c[T]}]
  <2>1. \A T \in SUBSET S :
          /\ F[T] = IF T = {} THEN 0
                    ELSE f[CHOOSE x \in T : TRUE] + F[T \ {CHOOSE x \in T : TRUE}]
          /\ H[T] = IF T = {} THEN 0
                    ELSE g[CHOOSE x \in T : TRUE] + H[T \ {CHOOSE x \in T : TRUE}]
    BY <1>1, <1>2 DEF Sums
  <2> HIDE DEF c
  <2> QED
    BY <1>3, <2>1
<1>5. Chooses(c, S)
  BY <1>3 DEF Chooses
<1> HIDE DEF c
<1> DEFINE Good == {T \in SUBSET S : H[T] = F[T] + (IF s \in T THEN d ELSE 0)}
<1>6. f[s] \in Nat /\ d \in Int
  OBVIOUS
<1>7. {} \in Good
  <2>1. H[{}] = 0 /\ F[{}] = 0 /\ {} \in SUBSET S
    BY <1>4
  <2> QED
    BY <2>1
<1>8. ASSUME NEW T \in SUBSET S, T # {}, T \ {c[T]} \in Good
      PROVE  T \in Good
  <2> DEFINE x == c[T]
             R == T \ {x}
  <2>1. x \in T /\ R \in SUBSET S
    BY <1>3, <1>8
  <2>2. F[T] = f[x] + F[R] /\ H[T] = g[x] + H[R]
    BY <1>4, <1>8
  <2>3. H[R] = F[R] + (IF s \in R THEN d ELSE 0)
    BY <1>8
  <2>4. F[R] \in Nat /\ H[R] \in Nat /\ f[x] \in Nat /\ g[x] \in Nat
    BY <1>0, <1>1, <1>2, <2>1
  <2>5. (x = s => g[x] = v /\ f[x] = f[s] /\ s \notin R /\ s \in T)
        /\ (x # s => g[x] = f[x] /\ (s \in R <=> s \in T))
    BY <1>0, <2>1
  <2> HIDE DEF x, R
  <2>6. H[T] = F[T] + (IF s \in T THEN d ELSE 0)
    <3>1. CASE x = s
      BY <1>6, <2>2, <2>3, <2>4, <2>5, <3>1
    <3>2. CASE x # s
      <4>1. g[x] = f[x] /\ (s \in R <=> s \in T)
        BY <2>5, <3>2
      <4> HIDE DEF d
      <4> QED
        BY <1>6, <2>2, <2>3, <2>4, <4>1
    <3> QED
      BY <3>1, <3>2
  <2> QED
    BY <2>6
<1>9. Closed(Good, c, S)
  <2>1. \A T \in SUBSET S : T # {} /\ T \ {c[T]} \in Good => T \in Good
    <3> HIDE DEF Good
    <3> QED
      BY <1>8
  <2> HIDE DEF Good
  <2> QED
    BY <1>7, <2>1 DEF Closed
<1>10. S \in Good
  <2>1. S \in SUBSET S
    OBVIOUS
  <2>2. SUBSET S \subseteq Good
    <3> HIDE DEF Good
    <3> QED
      BY <1>5, <1>9, SubsetInduction
  <2> QED
    BY <2>1, <2>2
<1>11. H[S] = F[S] + d /\ F[S] \in Nat
  BY <1>1, <1>10
<1>12. SumFunction(g) = SumFunction(f) - f[s] + v
  BY <1>1, <1>2, <1>6, <1>11
<1> QED
  BY <1>1, <1>11, <1>12 DEF g

(* A function that is 0 everywhere sums up to 0.                           *)
LEMMA SumOfZeros ==
  ASSUME NEW S, IsFiniteSet(S)
  PROVE  SumFunction([x \in S |-> 0]) = 0
<1> DEFINE f == [x \in S |-> 0]
           c == [T \in SUBSET S |-> CHOOSE x \in T : TRUE]
<1>1. f \in [S -> Nat] /\ \A x \in S : f[x] = 0
  OBVIOUS
<1> HIDE DEF f
<1>2. PICK F : Sums(F, f, S) /\ SumFunction(f) = F[S] /\ F \in [SUBSET S -> Nat]
  BY <1>1, SumExists
<1>3. \A T \in SUBSET S : T # {} => c[T] = (CHOOSE x \in T : TRUE) /\ c[T] \in T
  OBVIOUS
<1>4. \A T \in SUBSET S : F[T] = IF T = {} THEN 0 ELSE f[c[T]] + F[T \ {c[T]}]
  <2>1. \A T \in SUBSET S :
          F[T] = IF T = {} THEN 0
                 ELSE f[CHOOSE x \in T : TRUE] + F[T \ {CHOOSE x \in T : TRUE}]
    BY <1>2 DEF Sums
  <2> HIDE DEF c
  <2> QED
    BY <1>3, <2>1
<1>5. Chooses(c, S)
  BY <1>3 DEF Chooses
<1> HIDE DEF c
<1> DEFINE Good == {T \in SUBSET S : F[T] = 0}
<1>6. Closed(Good, c, S)
  <2>1. {} \in Good
    BY <1>4
  <2>2. \A T \in SUBSET S : T # {} /\ T \ {c[T]} \in Good => T \in Good
    <3> SUFFICES ASSUME NEW T \in SUBSET S, T # {}, F[T \ {c[T]}] = 0
                 PROVE  F[T] = 0
      OBVIOUS
    <3>1. F[T] = f[c[T]] + F[T \ {c[T]}] /\ c[T] \in S
      BY <1>3, <1>4
    <3> QED
      BY <1>1, <3>1
  <2> HIDE DEF Good
  <2> QED
    BY <2>1, <2>2 DEF Closed
<1>7. S \in Good
  <2>1. S \in SUBSET S
    OBVIOUS
  <2>2. SUBSET S \subseteq Good
    <3> HIDE DEF Good
    <3> QED
      BY <1>5, <1>6, SubsetInduction
  <2> QED
    BY <2>1, <2>2
<1> QED
  BY <1>2, <1>7 DEF f

=============================================================================
