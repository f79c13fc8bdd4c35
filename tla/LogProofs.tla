----------------------------- MODULE LogProofs ------------------------------
(***************************************************************************)
(* Proofs about SensorLog and WateringLog, for every calendar, every log   *)
(* and every query.                                                        *)
(***************************************************************************)
EXTENDS SensorLog, WateringLog, FoldTheorems, SequenceTheorems, FiniteSetTheorems, TLAPS

-----------------------------------------------------------------------------
(* Sequences and folds over them *)

(* What is true of 0, and of a number when it is true of the one before,   *)
(* is true up to n: Good is the set of the numbers it is true of.          *)
LEMMA NatInductionTo ==
  ASSUME NEW n \in Nat, NEW Good, 0 \in Good,
         \A i \in 1 .. n : i - 1 \in Good => i \in Good
  PROVE  \A i \in 0 .. n : i \in Good
<1> SUFFICES ASSUME ~(\A i \in 0 .. n : i \in Good)
             PROVE  FALSE
  OBVIOUS
<1> DEFINE Bad == {i \in 0 .. n : i \notin Good}
<1>1. PICK j \in Bad : \A i \in Bad : j <= i
  <2>1. Bad \subseteq Nat /\ Bad # {}
    OBVIOUS
  <2> HIDE DEF Bad
  <2> QED
    BY <2>1, NatMin
<1>2. j \in 1 .. n /\ j - 1 \in 0 .. n
  OBVIOUS
<1>3. j - 1 \notin Bad
  <2>1. ~(j <= j - 1)
    BY <1>2
  <2> HIDE DEF Bad
  <2> QED
    BY <1>1, <2>1
<1> QED
  BY <1>2, <1>3

(* What is true of the empty sequence, and of a sequence when it is true   *)
(* of it without its last element, is true of all sequences.               *)
LEMMA SeqInduction ==
  ASSUME NEW X, NEW Good, << >> \in Good,
         \A s \in Seq(X), e \in X : s \in Good => Append(s, e) \in Good
  PROVE  \A s \in Seq(X) : s \in Good
<1> SUFFICES ASSUME ~(\A s \in Seq(X) : s \in Good)
             PROVE  FALSE
  OBVIOUS
<1> DEFINE Bad == {s \in Seq(X) : s \notin Good}
           Lens == {Len(s) : s \in Bad}
<1>1. Lens \subseteq Nat /\ Lens # {}
  <2>1. \A s \in Bad : Len(s) \in Nat
    OBVIOUS
  <2>2. Bad # {}
    OBVIOUS
  <2> HIDE DEF Bad
  <2> QED
    BY <2>1, <2>2
<1>2. PICK n \in Lens : \A k \in Lens : n <= k
  <2> HIDE DEF Lens
  <2> QED
    BY <1>1, NatMin
<1>3. PICK s \in Seq(X) : s \notin Good /\ Len(s) = n
  OBVIOUS
<1>4. PICK t \in Seq(X), e \in X : s = Append(t, e)
  <2>1. s # << >>
    BY <1>3
  <2> QED
    BY <2>1, SequenceEmptyOrAppend
<1>5. Len(t) \in Nat /\ Len(s) = Len(t) + 1
  BY <1>4
<1>6. t \notin Good
  BY <1>3, <1>4
<1>7. Len(t) \in Lens
  BY <1>6
<1>8. n <= Len(t)
  BY <1>2, <1>7
<1> QED
  BY <1>3, <1>5, <1>8

(* The largest of the first n numbers, and of any of them.                 *)
LEMMA MaxOfIndices ==
  ASSUME NEW n \in Nat
  PROVE  /\ \A T \in SUBSET (1 .. n) : T # {} => Max(T) \in T
         /\ \A i \in 1 .. n : Max(1 .. i) = i /\ (1 .. i) \ {i} = 1 .. (i - 1)
<1>1. ASSUME NEW T \in SUBSET (1 .. n), T # {}
      PROVE  Max(T) \in T
  <2>1. \E x \in T : \A y \in T : x >= y
    BY <1>1, LargestIndex
  <2> QED
    BY <2>1 DEF Max
<1>2. ASSUME NEW i \in 1 .. n
      PROVE  Max(1 .. i) = i /\ (1 .. i) \ {i} = 1 .. (i - 1)
  <2>1. i \in 1 .. i /\ \A y \in 1 .. i : i >= y
    OBVIOUS
  <2>2. \A x \in 1 .. i : (\A y \in 1 .. i : x >= y) => x = i
    BY <2>1
  <2>3. Max(1 .. i) = i
    BY <2>1, <2>2 DEF Max
  <2> QED
    BY <2>3
<1> QED
  BY <1>1, <1>2

(* h folds the elements of s at the indices in T, for each T, from the     *)
(* left, with G.                                                           *)
Folds(h, s, base, G) ==
  \A T \in SUBSET (1 .. Len(s)) :
    h[T] = IF T = {} THEN base ELSE G[<<h[T \ {Max(T)}], s[Max(T)]>>]

(* G takes an element and what was folded before to a member of B.         *)
StepsIn(G, X, B) == \A b \in B, x \in X : G[<<b, x>>] \in B

LEMMA FoldsExist ==
  ASSUME NEW X, NEW s \in Seq(X), NEW B, NEW base \in B, NEW G, StepsIn(G, X, B)
  PROVE  \E h \in [SUBSET (1 .. Len(s)) -> B] : Folds(h, s, base, G)
<1> DEFINE D == 1 .. Len(s)
           c == [T \in SUBSET D |-> Max(T)]
           K == [p \in D \X B |-> G[<<p[2], s[p[1]]>>]]
<1>1. Len(s) \in Nat /\ \A i \in D : s[i] \in X
  OBVIOUS
<1>2. IsFiniteSet(D)
  BY <1>1, FS_Interval
<1>3. \A T \in SUBSET D : T # {} => c[T] = Max(T) /\ Max(T) \in T
  BY <1>1, MaxOfIndices
<1>4. Chooses(c, D)
  BY <1>3 DEF Chooses
<1>5. \A i \in D, b \in B : K[<<i, b>>] = G[<<b, s[i]>>] /\ K[<<i, b>>] \in B
  <2> SUFFICES ASSUME NEW i \in D, NEW b \in B
               PROVE  K[<<i, b>>] = G[<<b, s[i]>>] /\ K[<<i, b>>] \in B
    OBVIOUS
  <2>1. K[<<i, b>>] = G[<<b, s[i]>>]
    OBVIOUS
  <2> HIDE DEF K, D
  <2> QED
    BY <1>1, <2>1 DEF StepsIn
<1> HIDE DEF D, c, K
<1>6. PICK h : Recurs(h, D, SUBSET D, base, c, K) /\ \A T \in SUBSET D : h[T] \in B
  <2>1. \A i \in D, b \in B : K[<<i, b>>] \in B
    BY <1>5
  <2> QED
    BY <1>2, <1>4, <2>1, FoldDefined
<1>7. h \in [SUBSET D -> B]
  <2>1. h = [T \in SUBSET D |-> h[T]]
    BY <1>6 DEF Recurs
  <2> QED
    BY <1>6, <2>1
<1>8. ASSUME NEW T \in SUBSET D
      PROVE  h[T] = IF T = {} THEN base ELSE G[<<h[T \ {Max(T)}], s[Max(T)]>>]
  <2>1. h[T] = IF T = {} THEN base ELSE K[<<c[T], h[T \ {c[T]}]>>]
    BY <1>6 DEF Recurs
  <2>2. ASSUME T # {}
        PROVE  h[T] = G[<<h[T \ {Max(T)}], s[Max(T)]>>]
    <3>1. c[T] = Max(T) /\ Max(T) \in D /\ T \ {Max(T)} \in SUBSET D
      BY <1>3, <2>2
    <3>2. h[T \ {Max(T)}] \in B
      BY <1>6, <3>1
    <3> QED
      BY <1>5, <2>1, <2>2, <3>1, <3>2
  <2> QED
    BY <2>1, <2>2
<1> QED
  BY <1>7, <1>8 DEF Folds, D

(* f and h agree on a set of the first n numbers if they do without its    *)
(* largest element.                                                        *)
AgreeBySteps(f, h, n) ==
  /\ f[{}] = h[{}]
  /\ \A T \in SUBSET (1 .. n) :
       T # {} /\ f[T \ {Max(T)}] = h[T \ {Max(T)}] => f[T] = h[T]

(* Two solutions of the recursion of a fold are equal.                     *)
LEMMA FoldsAgree ==
  ASSUME NEW n \in Nat, NEW f, NEW h, AgreeBySteps(f, h, n)
  PROVE  \A T \in SUBSET (1 .. n) : f[T] = h[T]
<1> DEFINE D == 1 .. n
           c == [T \in SUBSET D |-> Max(T)]
           Good == {T \in SUBSET D : f[T] = h[T]}
<1>1. IsFiniteSet(D)
  BY FS_Interval
<1>2. \A T \in SUBSET D : T # {} => c[T] = Max(T) /\ Max(T) \in T
  BY MaxOfIndices
<1>3. Chooses(c, D)
  BY <1>2 DEF Chooses
<1>4. ASSUME NEW T \in SUBSET D, T # {}, T \ {c[T]} \in Good
      PROVE  T \in Good
  <2>1. f[T \ {Max(T)}] = h[T \ {Max(T)}]
    BY <1>2, <1>4
  <2> QED
    BY <1>4, <2>1 DEF AgreeBySteps
<1>5. {} \in Good
  BY DEF AgreeBySteps
<1> HIDE DEF c, Good, D
<1>6. Closed(Good, c, D)
  BY <1>4, <1>5 DEF Closed
<1>7. SUBSET D \subseteq Good
  BY <1>1, <1>3, <1>6, SubsetInduction
<1> QED
  BY <1>7 DEF Good, D

(* The fold of a longer sequence goes on from the fold of the shorter one. *)
LEMMA FoldsAppend ==
  ASSUME NEW X, NEW s \in Seq(X), NEW e \in X, NEW base, NEW G, NEW f, NEW h,
         Folds(f, s, base, G), Folds(h, Append(s, e), base, G)
  PROVE  h[1 .. Len(Append(s, e))] = G[<<f[1 .. Len(s)], e>>]
<1> DEFINE n == Len(s)
           t == Append(s, e)
<1>1. n \in Nat /\ Len(t) = n + 1 /\ t[n + 1] = e /\ \A i \in 1 .. n : t[i] = s[i]
  OBVIOUS
<1> HIDE DEF t, n
<1>2. \A T \in SUBSET (1 .. n) :
        /\ f[T] = IF T = {} THEN base ELSE G[<<f[T \ {Max(T)}], s[Max(T)]>>]
        /\ h[T] = IF T = {} THEN base ELSE G[<<h[T \ {Max(T)}], t[Max(T)]>>]
  <2>1. SUBSET (1 .. n) \subseteq SUBSET (1 .. Len(t))
    BY <1>1
  <2> QED
    BY <2>1 DEF Folds, n, t
<1>3. \A T \in SUBSET (1 .. n) : T # {} => Max(T) \in 1 .. n
  BY <1>1, MaxOfIndices
<1>4. \A T \in SUBSET (1 .. n) : f[T] = h[T]
  <2>1. f[{}] = h[{}]
    <3>1. {} \in SUBSET (1 .. n)
      OBVIOUS
    <3> QED
      BY <1>2, <3>1
  <2>2. \A T \in SUBSET (1 .. n) :
          T # {} /\ f[T \ {Max(T)}] = h[T \ {Max(T)}] => f[T] = h[T]
    BY <1>1, <1>2, <1>3
  <2>3. AgreeBySteps(f, h, n)
    BY <2>1, <2>2 DEF AgreeBySteps
  <2> QED
    BY <1>1, <2>3, FoldsAgree
<1>5. n + 1 \in 1 .. (n + 1) /\ n + 1 \in Nat
  BY <1>1
<1>6. Max(1 .. (n + 1)) = n + 1 /\ (1 .. (n + 1)) \ {n + 1} = 1 .. n
  <2>1. (n + 1) - 1 = n
    BY <1>1
  <2>2. Max(1 .. (n + 1)) = n + 1 /\ (1 .. (n + 1)) \ {n + 1} = 1 .. ((n + 1) - 1)
    BY <1>5, MaxOfIndices
  <2> QED
    BY <2>1, <2>2
<1>7. h[1 .. (n + 1)] = G[<<h[1 .. n], t[n + 1]>>]
  <2>1. 1 .. (n + 1) \in SUBSET (1 .. Len(t)) /\ 1 .. (n + 1) # {}
    BY <1>1, <1>5
  <2>2. h[1 .. (n + 1)] = G[<<h[(1 .. (n + 1)) \ {Max(1 .. (n + 1))}], t[Max(1 .. (n + 1))]>>]
    BY <2>1 DEF Folds, t
  <2> QED
    BY <1>6, <2>2
<1>8. h[1 .. n] = f[1 .. n]
  BY <1>4
<1>9. h[1 .. Len(t)] = G[<<f[1 .. n], e>>]
  BY <1>1, <1>7, <1>8
<1> QED
  BY <1>9 DEF t, n

-----------------------------------------------------------------------------
(* The lines chosen from a file *)

(* Goes on with a list of lines of X: adds a line that is among S.         *)
ChooseOne(X, S) ==
  [p \in Seq(X) \X X |-> IF p[2] \in S THEN Append(p[1], p[2]) ELSE p[1]]

LEMMA ChosenFold ==
  ASSUME NEW X, NEW s \in Seq(X), NEW S
  PROVE  \E h \in [SUBSET (1 .. Len(s)) -> Seq(X)] :
           Folds(h, s, << >>, ChooseOne(X, S)) /\ Chosen(s, S) = h[1 .. Len(s)]
<1> DEFINE D == 1 .. Len(s)
           G == ChooseOne(X, S)
           Good(h) == h = [T \in SUBSET D |->
                            IF T = {} THEN << >>
                            ELSE IF s[Max(T)] \in S
                                 THEN Append(h[T \ {Max(T)}], s[Max(T)])
                                 ELSE h[T \ {Max(T)}]]
           f == CHOOSE h : Good(h)
<1>1. Len(s) \in Nat /\ DOMAIN s = D /\ \A i \in D : s[i] \in X
  OBVIOUS
<1>2. Chosen(s, S) = f[D]
  <2>1. Chosen(s, S) =
          (CHOOSE h : h =
             [T \in SUBSET DOMAIN s |->
               IF T = {} THEN << >>
               ELSE IF s[Max(T)] \in S
                    THEN Append(h[T \ {Max(T)}], s[Max(T)])
                    ELSE h[T \ {Max(T)}]])[DOMAIN s]
    BY DEF Chosen, FoldLeft, MapThenFoldSet
  <2> HIDE DEF D
  <2> QED
    BY <1>1, <2>1
<1>3. \A b \in Seq(X), x \in X :
        /\ G[<<b, x>>] = IF x \in S THEN Append(b, x) ELSE b
        /\ G[<<b, x>>] \in Seq(X)
  BY DEF ChooseOne
<1>4. PICK h \in [SUBSET D -> Seq(X)] : Folds(h, s, << >>, G)
  <2>1. StepsIn(G, X, Seq(X)) /\ << >> \in Seq(X)
    BY <1>3 DEF StepsIn
  <2> HIDE DEF G
  <2> QED
    BY <2>1, FoldsExist
<1>5. \A T \in SUBSET D : T # {} => Max(T) \in T
  BY <1>1, MaxOfIndices
<1>6. ASSUME NEW T \in SUBSET D
      PROVE  h[T] = IF T = {} THEN << >>
                    ELSE IF s[Max(T)] \in S
                         THEN Append(h[T \ {Max(T)}], s[Max(T)])
                         ELSE h[T \ {Max(T)}]
  <2>1. h[T] = IF T = {} THEN << >> ELSE G[<<h[T \ {Max(T)}], s[Max(T)]>>]
    BY <1>4 DEF Folds
  <2>2. T # {} => h[T \ {Max(T)}] \in Seq(X) /\ s[Max(T)] \in X
    BY <1>1, <1>4, <1>5
  <2> HIDE DEF G, D
  <2> QED
    BY <1>3, <2>1, <2>2
<1>7. Good(h)
  <2>1. h = [T \in SUBSET D |-> h[T]]
    BY <1>4
  <2> HIDE DEF D
  <2> QED
    BY <1>6, <2>1
<1>8. ASSUME NEW g, Good(g)
      PROVE  g[D] = h[D]
  <2>1. \A T \in SUBSET D :
          g[T] = IF T = {} THEN << >>
                 ELSE IF s[Max(T)] \in S
                      THEN Append(g[T \ {Max(T)}], s[Max(T)])
                      ELSE g[T \ {Max(T)}]
    BY <1>8
  <2> HIDE DEF G, Good
  <2>2. AgreeBySteps(g, h, Len(s))
    BY <1>6, <2>1 DEF AgreeBySteps
  <2> QED
    BY <1>1, <2>2, FoldsAgree
<1>9. Chosen(s, S) = h[D]
  <2> HIDE DEF D, G, Good
  <2>1. Good(f)
    BY <1>7
  <2> HIDE DEF f
  <2> QED
    BY <1>2, <1>8, <2>1
<1> QED
  <2> HIDE DEF f, Good
  <2> QED
    BY <1>4, <1>9

LEMMA ChosenEmpty ==
  ASSUME NEW S
  PROVE  Chosen(<< >>, S) = << >>
<1> DEFINE X == {}
<1>1. ASSUME NEW s \in Seq(X), s = << >>
      PROVE  Chosen(s, S) = << >>
  <2>1. 1 .. Len(s) = {}
    BY <1>1
  <2> HIDE DEF X
  <2>2. PICK h : Folds(h, s, << >>, ChooseOne(X, S)) /\ Chosen(s, S) = h[1 .. Len(s)]
    BY ChosenFold
  <2>3. {} \in SUBSET (1 .. Len(s)) /\ h[{}] = << >>
    BY <2>2 DEF Folds
  <2> QED
    BY <2>1, <2>2, <2>3
<1>2. << >> \in Seq(X)
  OBVIOUS
<1> QED
  BY <1>1, <1>2

LEMMA ChosenType ==
  ASSUME NEW X, NEW S, NEW s \in Seq(X)
  PROVE  Chosen(s, S) \in Seq(X)
<1>1. PICK h \in [SUBSET (1 .. Len(s)) -> Seq(X)] : Chosen(s, S) = h[1 .. Len(s)]
  BY ChosenFold
<1> QED
  BY <1>1

(* What the loop does with the next line.                                  *)
LEMMA ChosenAppend ==
  ASSUME NEW X, NEW S, NEW s \in Seq(X), NEW e \in X
  PROVE  Chosen(Append(s, e), S) =
           IF e \in S THEN Append(Chosen(s, S), e) ELSE Chosen(s, S)
<1> DEFINE t == Append(s, e)
           G == ChooseOne(X, S)
<1>1. t \in Seq(X)
  OBVIOUS
<1>2. PICK f : Folds(f, s, << >>, G) /\ Chosen(s, S) = f[1 .. Len(s)]
  BY ChosenFold
<1>3. PICK h : Folds(h, t, << >>, G) /\ Chosen(t, S) = h[1 .. Len(t)]
  <2> HIDE DEF t
  <2> QED
    BY <1>1, ChosenFold
<1>4. Chosen(t, S) = G[<<Chosen(s, S), e>>]
  <2> HIDE DEF G
  <2> QED
    BY <1>2, <1>3, FoldsAppend
<1>5. Chosen(s, S) \in Seq(X)
  BY ChosenType
<1>6. G[<<Chosen(s, S), e>>] = IF e \in S THEN Append(Chosen(s, S), e) ELSE Chosen(s, S)
  BY <1>5 DEF ChooseOne
<1> HIDE DEF t, G
<1>7. Chosen(t, S) = IF e \in S THEN Append(Chosen(s, S), e) ELSE Chosen(s, S)
  BY <1>4, <1>6
<1> QED
  BY <1>7 DEF t

(* Choosing twice is choosing what is in both sets.                        *)
LEMMA ChosenTwice ==
  ASSUME NEW X, NEW A, NEW B, NEW s \in Seq(X)
  PROVE  Chosen(Chosen(s, A), B) = Chosen(s, A \cap B)
<1> DEFINE Good == {t \in Seq(X) : Chosen(Chosen(t, A), B) = Chosen(t, A \cap B)}
<1>1. << >> \in Good
  BY ChosenEmpty
<1>2. ASSUME NEW t \in Seq(X), NEW e \in X, t \in Good
      PROVE  Append(t, e) \in Good
  <2>1. Chosen(t, A) \in Seq(X) /\ Append(t, e) \in Seq(X)
    BY ChosenType, AppendProperties
  <2>2. /\ Chosen(Append(t, e), A) = IF e \in A THEN Append(Chosen(t, A), e) ELSE Chosen(t, A)
        /\ Chosen(Append(t, e), A \cap B) =
             IF e \in A \cap B THEN Append(Chosen(t, A \cap B), e) ELSE Chosen(t, A \cap B)
        /\ Chosen(Append(Chosen(t, A), e), B) =
             IF e \in B THEN Append(Chosen(Chosen(t, A), B), e) ELSE Chosen(Chosen(t, A), B)
    BY <2>1, ChosenAppend
  <2>3. Chosen(Chosen(t, A), B) = Chosen(t, A \cap B)
    BY <1>2
  <2>4. Chosen(Chosen(Append(t, e), A), B) = Chosen(Append(t, e), A \cap B)
    <3>1. CASE e \in A
      <4>1. Chosen(Append(t, e), A) = Append(Chosen(t, A), e)
        BY <2>2, <3>1
      <4>2. e \in A \cap B <=> e \in B
        BY <3>1
      <4>3. CASE e \in B
        BY <2>2, <2>3, <4>1, <4>2, <4>3, Zenon
      <4>4. CASE e \notin B
        BY <2>2, <2>3, <4>1, <4>2, <4>4, Zenon
      <4> QED
        BY <4>3, <4>4
    <3>2. CASE e \notin A
      BY <2>2, <2>3, <3>2
    <3> QED
      BY <3>1, <3>2
  <2> QED
    BY <2>1, <2>4
<1> HIDE DEF Good
<1>3. s \in Good
  BY <1>1, <1>2, SeqInduction
<1> QED
  BY <1>3 DEF Good

(* Only which of the lines are in the set matters.                         *)
LEMMA ChosenSame ==
  ASSUME NEW X, NEW A, NEW B, NEW s \in Seq(X),
         \A i \in 1 .. Len(s) : s[i] \in A <=> s[i] \in B
  PROVE  Chosen(s, A) = Chosen(s, B)
<1> DEFINE Good == {t \in Seq(X) : (\A i \in 1 .. Len(t) : t[i] \in A <=> t[i] \in B)
                                     => Chosen(t, A) = Chosen(t, B)}
<1>1. << >> \in Good
  BY ChosenEmpty
<1>2. ASSUME NEW t \in Seq(X), NEW e \in X, t \in Good
      PROVE  Append(t, e) \in Good
  <2> SUFFICES ASSUME \A i \in 1 .. Len(Append(t, e)) :
                        Append(t, e)[i] \in A <=> Append(t, e)[i] \in B
               PROVE  Chosen(Append(t, e), A) = Chosen(Append(t, e), B)
    BY AppendProperties
  <2>1. /\ Len(t) \in Nat /\ Len(Append(t, e)) = Len(t) + 1
        /\ \A i \in 1 .. Len(t) : Append(t, e)[i] = t[i]
        /\ Append(t, e)[Len(t) + 1] = e
    BY AppendProperties, LenProperties
  <2>2. \A i \in 1 .. Len(t) : t[i] \in A <=> t[i] \in B
    BY <2>1
  <2>3. e \in A <=> e \in B
    BY <2>1
  <2>4. Chosen(t, A) = Chosen(t, B)
    BY <1>2, <2>2
  <2>5. /\ Chosen(Append(t, e), A) = IF e \in A THEN Append(Chosen(t, A), e) ELSE Chosen(t, A)
        /\ Chosen(Append(t, e), B) = IF e \in B THEN Append(Chosen(t, B), e) ELSE Chosen(t, B)
    BY ChosenAppend
  <2> QED
    BY <2>3, <2>4, <2>5
<1> HIDE DEF Good
<1>3. s \in Good
  BY <1>1, <1>2, SeqInduction
<1> QED
  BY <1>3 DEF Good

(* All, and none of the lines.                                             *)
LEMMA ChosenAllNone ==
  ASSUME NEW X, NEW s \in Seq(X)
  PROVE  Chosen(s, X) = s /\ Chosen(s, {}) = << >>
<1> DEFINE Good == {t \in Seq(X) : Chosen(t, X) = t /\ Chosen(t, {}) = << >>}
<1>1. << >> \in Good
  BY ChosenEmpty
<1>2. ASSUME NEW t \in Seq(X), NEW e \in X, t \in Good
      PROVE  Append(t, e) \in Good
  <2>1. Append(t, e) \in Seq(X)
    BY AppendProperties
  <2>2. Chosen(Append(t, e), X) = Append(t, e) /\ Chosen(Append(t, e), {}) = << >>
    BY <1>2, ChosenAppend
  <2> QED
    BY <2>1, <2>2
<1> HIDE DEF Good
<1>3. s \in Good
  BY <1>1, <1>2, SeqInduction
<1> QED
  BY <1>3 DEF Good

(* The elements of a sequence.                                             *)
Elems(s) == {s[i] : i \in 1 .. Len(s)}

LEMMA ElemsAppend ==
  ASSUME NEW X, NEW s \in Seq(X), NEW e \in X
  PROVE  Elems(Append(s, e)) = Elems(s) \cup {e} /\ Elems(<< >>) = {} /\ Elems(s) \subseteq X
<1>1. /\ Len(s) \in Nat /\ Len(Append(s, e)) = Len(s) + 1
      /\ \A i \in 1 .. Len(s) : Append(s, e)[i] = s[i]
      /\ Append(s, e)[Len(s) + 1] = e
  BY AppendProperties, LenProperties
<1>2. 1 .. (Len(s) + 1) = (1 .. Len(s)) \cup {Len(s) + 1}
  BY <1>1
<1>3. Elems(Append(s, e)) = Elems(s) \cup {e}
  BY <1>1, <1>2 DEF Elems
<1>4. Elems(<< >>) = {} /\ Elems(s) \subseteq X
  BY DEF Elems
<1> QED
  BY <1>3, <1>4

LEMMA ElemsConcat ==
  ASSUME NEW X, NEW s \in Seq(X), NEW t \in Seq(X)
  PROVE  Elems(s \o t) = Elems(s) \cup Elems(t)
<1> DEFINE n == Len(s)
           k == Len(t)
           u == s \o t
<1>1. /\ n \in Nat /\ k \in Nat /\ Len(u) = n + k
      /\ \A i \in 1 .. n + k : u[i] = IF i <= n THEN s[i] ELSE t[i - n]
  BY ConcatProperties, LenProperties
<1> HIDE DEF n, k, u
<1>2. ASSUME NEW i \in 1 .. n
      PROVE  i \in 1 .. n + k /\ u[i] = s[i]
  BY <1>1
<1>3. ASSUME NEW i \in 1 .. k
      PROVE  n + i \in 1 .. n + k /\ u[n + i] = t[i]
  <2>1. n + i \in 1 .. n + k /\ ~(n + i <= n) /\ (n + i) - n = i
    BY <1>1
  <2> QED
    BY <1>1, <2>1
<1>4. ASSUME NEW i \in 1 .. n + k
      PROVE  i \in 1 .. n \/ (i - n \in 1 .. k /\ u[i] = t[i - n])
  BY <1>1
<1>5. {u[i] : i \in 1 .. n + k} = {s[i] : i \in 1 .. n} \cup {t[i] : i \in 1 .. k}
  <2>1. ASSUME NEW x \in {u[i] : i \in 1 .. n + k}
        PROVE  x \in {s[i] : i \in 1 .. n} \cup {t[i] : i \in 1 .. k}
    BY <1>2, <1>4
  <2>2. ASSUME NEW x \in {s[i] : i \in 1 .. n}
        PROVE  x \in {u[i] : i \in 1 .. n + k}
    BY <1>2
  <2>3. ASSUME NEW x \in {t[i] : i \in 1 .. k}
        PROVE  x \in {u[i] : i \in 1 .. n + k}
    BY <1>3
  <2> QED
    BY <2>1, <2>2, <2>3
<1> QED
  BY <1>1, <1>5 DEF Elems, n, k, u

(* The chosen lines are the lines in the set.                              *)
LEMMA ChosenRange ==
  ASSUME NEW X, NEW A, NEW s \in Seq(X)
  PROVE  Elems(Chosen(s, A)) = Elems(s) \cap A
<1> DEFINE Good == {t \in Seq(X) : Elems(Chosen(t, A)) = Elems(t) \cap A}
<1>1. << >> \in Good
  <2>1. Elems(<< >>) = {}
    BY DEF Elems
  <2> QED
    BY <2>1, ChosenEmpty
<1>2. ASSUME NEW t \in Seq(X), NEW e \in X, t \in Good
      PROVE  Append(t, e) \in Good
  <2>1. Chosen(t, A) \in Seq(X) /\ Append(t, e) \in Seq(X)
    BY ChosenType, AppendProperties
  <2>2. Chosen(Append(t, e), A) = IF e \in A THEN Append(Chosen(t, A), e) ELSE Chosen(t, A)
    BY ChosenAppend
  <2>3. Elems(Chosen(t, A)) = Elems(t) \cap A
    BY <1>2
  <2>4. /\ Elems(Append(t, e)) = Elems(t) \cup {e}
        /\ Elems(Append(Chosen(t, A), e)) = Elems(Chosen(t, A)) \cup {e}
    BY <2>1, ElemsAppend
  <2>5. Elems(Chosen(Append(t, e), A)) = Elems(Append(t, e)) \cap A
    BY <2>2, <2>3, <2>4
  <2> QED
    BY <2>1, <2>5
<1> HIDE DEF Good
<1>3. s \in Good
  BY <1>1, <1>2, SeqInduction
<1> QED
  BY <1>3 DEF Good

(* What is true of every line before a later one is true of the chosen     *)
(* ones.                                                                   *)
Ordered(s, R) == \A i, j \in 1 .. Len(s) : i < j => <<s[i], s[j]>> \in R

LEMMA OrderedAppend ==
  ASSUME NEW X, NEW s \in Seq(X), NEW e \in X, NEW R
  PROVE  Ordered(Append(s, e), R) <=> /\ Ordered(s, R)
                                      /\ \A i \in 1 .. Len(s) : <<s[i], e>> \in R
<1>1. /\ Len(s) \in Nat /\ Len(Append(s, e)) = Len(s) + 1
      /\ \A i \in 1 .. Len(s) : Append(s, e)[i] = s[i]
      /\ Append(s, e)[Len(s) + 1] = e
  BY AppendProperties, LenProperties
<1> QED
  BY <1>1 DEF Ordered

LEMMA OrderedConcat ==
  ASSUME NEW X, NEW s \in Seq(X), NEW t \in Seq(X), NEW R, Ordered(s, R), Ordered(t, R),
         \A x \in Elems(s), y \in Elems(t) : <<x, y>> \in R
  PROVE  Ordered(s \o t, R)
<1> DEFINE n == Len(s)
           k == Len(t)
           u == s \o t
<1>1. /\ n \in Nat /\ k \in Nat /\ Len(u) = n + k
      /\ \A i \in 1 .. n + k : u[i] = IF i <= n THEN s[i] ELSE t[i - n]
  BY ConcatProperties, LenProperties
<1>2. \A i \in 1 .. n, j \in 1 .. k : <<s[i], t[j]>> \in R
  BY DEF Elems
<1> HIDE DEF u
<1>3. ASSUME NEW i \in 1 .. Len(u), NEW j \in 1 .. Len(u), i < j
      PROVE  <<u[i], u[j]>> \in R
  <2>1. CASE j <= n
    <3>1. i \in 1 .. n /\ j \in 1 .. n /\ u[i] = s[i] /\ u[j] = s[j]
      BY <1>1, <1>3, <2>1
    <3> QED
      BY <1>3, <3>1 DEF Ordered
  <2>2. CASE i <= n /\ n < j
    <3>1. i \in 1 .. n /\ j - n \in 1 .. k /\ u[i] = s[i] /\ u[j] = t[j - n]
      BY <1>1, <1>3, <2>2
    <3> QED
      BY <1>2, <3>1
  <2>3. CASE n < i
    <3>1. /\ i - n \in 1 .. k /\ j - n \in 1 .. k /\ i - n < j - n
          /\ u[i] = t[i - n] /\ u[j] = t[j - n]
      BY <1>1, <1>3, <2>3
    <3> QED
      BY <3>1 DEF Ordered
  <2> QED
    BY <1>1, <2>1, <2>2, <2>3
<1>4. Ordered(u, R)
  BY <1>3 DEF Ordered
<1> QED
  BY <1>4 DEF u

LEMMA ChosenOrdered ==
  ASSUME NEW X, NEW A, NEW s \in Seq(X), NEW R, Ordered(s, R)
  PROVE  Ordered(Chosen(s, A), R)
<1> DEFINE Good == {t \in Seq(X) : Ordered(t, R) => Ordered(Chosen(t, A), R)}
<1>1. << >> \in Good
  BY ChosenEmpty DEF Ordered
<1>2. ASSUME NEW t \in Seq(X), NEW e \in X, t \in Good
      PROVE  Append(t, e) \in Good
  <2> SUFFICES ASSUME Ordered(Append(t, e), R)
               PROVE  Ordered(Chosen(Append(t, e), A), R)
    BY AppendProperties
  <2>1. Ordered(t, R) /\ \A i \in 1 .. Len(t) : <<t[i], e>> \in R
    BY OrderedAppend
  <2>2. Chosen(t, A) \in Seq(X) /\ Ordered(Chosen(t, A), R)
    BY <1>2, <2>1, ChosenType
  <2>3. ASSUME NEW i \in 1 .. Len(Chosen(t, A))
        PROVE  <<Chosen(t, A)[i], e>> \in R
    <3>1. Chosen(t, A)[i] \in Elems(t)
      <4>1. Chosen(t, A)[i] \in Elems(Chosen(t, A))
        BY DEF Elems
      <4> QED
        BY <4>1, ChosenRange
    <3> QED
      BY <2>1, <3>1 DEF Elems
  <2>4. Ordered(Append(Chosen(t, A), e), R)
    BY <2>2, <2>3, OrderedAppend
  <2>5. Chosen(Append(t, e), A) = IF e \in A THEN Append(Chosen(t, A), e) ELSE Chosen(t, A)
    BY ChosenAppend
  <2> QED
    BY <2>2, <2>4, <2>5
<1> HIDE DEF Good
<1>3. s \in Good
  BY <1>1, <1>2, SeqInduction
<1> QED
  BY <1>3 DEF Good

Apart(A, B) == A \cap B = {}

(* The pairs of lines that no one of B comes before one of A in.            *)
NoneBefore(X, B, A) == {p \in X \X X : ~(p[1] \in B /\ p[2] \in A)}

(* If no line in A comes after one in B, the lines in either are those in  *)
(* A followed by those in B.                                               *)
LEMMA ChosenSplit ==
  ASSUME NEW X, NEW A, NEW B, NEW s \in Seq(X), Apart(A, B),
         Ordered(s, NoneBefore(X, B, A))
  PROVE  \A U : U = A \cup B => Chosen(s, U) = Chosen(s, A) \o Chosen(s, B)
<1> USE DEF NoneBefore, Apart
<1> DEFINE R == NoneBefore(X, B, A)
           Good == {t \in Seq(X) : Ordered(t, R) =>
                      Chosen(t, A \cup B) = Chosen(t, A) \o Chosen(t, B)}
<1>1. << >> \in Good
  <2>1. << >> \in Seq(X) /\ << >> \o << >> = << >>
    OBVIOUS
  <2>2. Chosen(<< >>, A \cup B) = << >> /\ Chosen(<< >>, A) = << >> /\ Chosen(<< >>, B) = << >>
    BY ChosenEmpty
  <2> HIDE DEF R
  <2> QED
    BY <2>1, <2>2
<1>2. ASSUME NEW t \in Seq(X), NEW e \in X, t \in Good
      PROVE  Append(t, e) \in Good
  <2>0. Append(t, e) \in Seq(X)
    BY AppendProperties
  <2> SUFFICES ASSUME Ordered(Append(t, e), R)
               PROVE  Chosen(Append(t, e), A \cup B)
                        = Chosen(Append(t, e), A) \o Chosen(Append(t, e), B)
    <3> HIDE DEF R
    <3> QED
      BY <2>0
  <2> DEFINE a == Chosen(t, A)
             b == Chosen(t, B)
  <2>1. Ordered(t, R) /\ \A i \in 1 .. Len(t) : <<t[i], e>> \in R
    <3> HIDE DEF R
    <3> QED
      BY OrderedAppend
  <2>2. a \in Seq(X) /\ b \in Seq(X) /\ Chosen(t, A \cup B) = a \o b
    <3> HIDE DEF R
    <3> QED
      BY <1>2, <2>1, ChosenType
  <2> DEFINE Next(C) == Chosen(Append(t, e), C)
  <2>6. /\ Next(A \cup B) = IF e \in A \cup B THEN Append(a \o b, e) ELSE a \o b
        /\ Next(A) = IF e \in A THEN Append(a, e) ELSE a
        /\ Next(B) = IF e \in B THEN Append(b, e) ELSE b
    <3>1. /\ Next(A \cup B) = IF e \in A \cup B THEN Append(Chosen(t, A \cup B), e)
                             ELSE Chosen(t, A \cup B)
          /\ Next(A) = IF e \in A THEN Append(Chosen(t, A), e) ELSE Chosen(t, A)
          /\ Next(B) = IF e \in B THEN Append(Chosen(t, B), e) ELSE Chosen(t, B)
      BY ChosenAppend
    <3> QED
      BY <2>2, <3>1
  <2>3. CASE e \in A
    <3>1. e \notin B
      BY <2>3
    <3>2. \A i \in 1 .. Len(t) : t[i] \in B <=> t[i] \in {}
      BY <2>1, <2>3
    <3>3. b = << >>
      BY <3>2, ChosenSame, ChosenAllNone
    <3>4. /\ Chosen(Append(t, e), A \cup B) = Append(a \o b, e)
          /\ Chosen(Append(t, e), A) = Append(a, e)
          /\ Chosen(Append(t, e), B) = b
      BY <2>3, <2>6, <3>1
    <3> HIDE DEF a, b
    <3>5. a \o << >> = a /\ Append(a, e) \o << >> = Append(a, e)
      BY <2>2, ConcatEmptySeq, AppendProperties
    <3> QED
      BY <3>3, <3>4, <3>5
  <2>4. CASE e \in B
    <3>1. e \notin A
      BY <2>4
    <3>2. /\ Chosen(Append(t, e), A \cup B) = Append(a \o b, e)
          /\ Chosen(Append(t, e), A) = a
          /\ Chosen(Append(t, e), B) = Append(b, e)
      BY <2>4, <2>6, <3>1
    <3> HIDE DEF a, b
    <3>3. Append(a \o b, e) = (a \o b) \o <<e>> /\ Append(b, e) = b \o <<e>>
      BY <2>2, AppendIsConcat, ConcatProperties
    <3>4. (a \o b) \o <<e>> = a \o (b \o <<e>>)
      <4>1. <<e>> \in Seq(X)
        OBVIOUS
      <4> QED
        BY <2>2, <4>1, ConcatAssociative
    <3> QED
      BY <3>2, <3>3, <3>4
  <2>5. CASE e \notin A \cup B
    BY <2>5, <2>6
  <2> QED
    BY <2>3, <2>4, <2>5
<1> HIDE DEF Good
<1>3. s \in Good
  BY <1>1, <1>2, SeqInduction
<1> QED
  BY <1>3 DEF Good

(* The pairs of lines in which none comes after one of L but another of L. *)
Staying(X, L) == {p \in X \X X : p[1] \in L => p[2] \in L}

(* If every line after one that is too late is too late, the lines up to   *)
(* the first of these are the lines that are not.                          *)
LEMMA UpToIsChosen ==
  ASSUME NEW X, NEW L, NEW s \in Seq(X),
         Ordered(s, Staying(X, L))
  PROVE  \A U : U = X \ L => UpTo(s, L) = Chosen(s, U)
<1> USE DEF Staying
<1> DEFINE R == Staying(X, L)
           late(t) == {i \in 1 .. Len(t) : t[i] \in L}
           Good == {t \in Seq(X) : Ordered(t, R) =>
                      Chosen(t, X \ L) = IF late(t) = {} THEN t ELSE SubSeq(t, 1, Min(late(t)) - 1)}
<1>1. << >> \in Good
  BY ChosenEmpty
<1>2. ASSUME NEW t \in Seq(X), NEW e \in X, t \in Good
      PROVE  Append(t, e) \in Good
  <2> DEFINE u == Append(t, e)
             n == Len(t)
  <2> SUFFICES ASSUME Ordered(u, R)
               PROVE  Chosen(u, X \ L) =
                        IF late(u) = {} THEN u ELSE SubSeq(u, 1, Min(late(u)) - 1)
    <3>1. u \in Seq(X)
      BY AppendProperties
    <3> HIDE DEF R, late
    <3> QED
      BY <3>1
  <2>1. /\ n \in Nat /\ Len(u) = n + 1 /\ u \in Seq(X)
        /\ \A i \in 1 .. n : u[i] = t[i] /\ u[n + 1] = e
    BY AppendProperties, LenProperties
  <2>2. Ordered(t, R) /\ \A i \in 1 .. n : <<t[i], e>> \in R
    <3> HIDE DEF R
    <3> QED
      BY OrderedAppend
  <2>3. Chosen(t, X \ L) = IF late(t) = {} THEN t ELSE SubSeq(t, 1, Min(late(t)) - 1)
    BY <1>2, <2>2
  <2>4. Chosen(u, X \ L) = IF e \in L THEN Chosen(t, X \ L) ELSE Append(Chosen(t, X \ L), e)
    BY ChosenAppend
  <2>5. u[n + 1] = e
    BY AppendProperties
  <2>6. late(u) = late(t) \cup (IF e \in L THEN {n + 1} ELSE {})
    <3> HIDE DEF u
    <3> QED
      BY <2>1, <2>5
  <2>7. CASE late(t) = {} /\ e \notin L
    <3>1. late(u) = {}
      BY <2>6, <2>7
    <3> HIDE DEF late
    <3> QED
      BY <2>3, <2>4, <2>7, <3>1
  <2>8. CASE late(t) = {} /\ e \in L
    <3>1. late(u) = {n + 1}
      BY <2>6, <2>8
    <3>2. Min({n + 1}) = n + 1
      BY <2>1 DEF Min
    <3>3. SubSeq(u, 1, (n + 1) - 1) = t
      <4>1. (n + 1) - 1 = n
        BY <2>1
      <4>2. SubSeq(u, 1, n) = t
        <5> HIDE DEF u
        <5> QED
          BY <2>1
      <4> QED
        BY <4>1, <4>2
    <3> HIDE DEF late, u, n
    <3> QED
      BY <2>3, <2>4, <2>8, <3>1, <3>2, <3>3
  <2>9. CASE late(t) # {}
    <3>1. PICK j \in late(t) : \A i \in late(t) : j <= i
      <4>1. late(t) \subseteq Nat
        OBVIOUS
      <4> HIDE DEF late
      <4> QED
        BY <2>9, <4>1, NatMin
    <3>2. e \in L
      BY <2>2, <3>1
    <3>3. late(u) = late(t) \cup {n + 1}
      BY <2>6, <3>2
    <3>4. Min(late(t)) = j
      <4>1. \A x \in late(t) : x \in Nat /\ ((\A y \in late(t) : x <= y) => x = j)
        BY <3>1
      <4> HIDE DEF late
      <4> QED
        BY <3>1, <4>1 DEF Min
    <3>5. Min(late(u)) = j
      <4>1. j \in late(u) /\ \A y \in late(u) : j <= y
        <5> HIDE DEF u
        <5>1. j <= n + 1
          BY <2>1, <3>1
        <5> HIDE DEF late, n
        <5> QED
          BY <3>1, <3>3, <5>1
      <4>2. \A x \in late(u) : x \in Nat /\ ((\A y \in late(u) : x <= y) => x = j)
        <5>1. \A x \in late(u) : x \in Nat
          BY <2>1
        <5> HIDE DEF late
        <5> QED
          BY <4>1, <5>1
      <4> HIDE DEF late
      <4> QED
        BY <4>1, <4>2 DEF Min
    <3>6. SubSeq(u, 1, j - 1) = SubSeq(t, 1, j - 1)
      <4>1. j \in 1 .. n
        BY <3>1
      <4> HIDE DEF u, late
      <4> QED
        BY <2>1, <4>1
    <3>7. late(u) # {}
      BY <3>3
    <3> HIDE DEF late, u, n
    <3> QED
      BY <2>3, <2>4, <2>9, <3>2, <3>4, <3>5, <3>6, <3>7
  <2> QED
    <3> HIDE DEF late, u, n
    <3> QED
      BY <2>7, <2>8, <2>9
<1> HIDE DEF Good
<1>3. s \in Good
  BY <1>1, <1>2, SeqInduction
<1>4. Chosen(s, X \ L) = IF late(s) = {} THEN s ELSE SubSeq(s, 1, Min(late(s)) - 1)
  BY <1>3 DEF Good
<1>5. late(s) = {i \in DOMAIN s : s[i] \in L}
  BY LenProperties
<1> HIDE DEF late
<1> QED
  BY <1>4, <1>5 DEF UpTo

-----------------------------------------------------------------------------
(* Sequences of sequences, one for each file *)

(* F[i] joins the first i of the sequences.                                *)
Joins(F, p) == F[0] = << >> /\ \A i \in 1 .. Len(p) : F[i] = F[i - 1] \o p[i]

LEMMA JoinsExist ==
  ASSUME NEW X, NEW p \in Seq(Seq(X))
  PROVE  \E F \in [0 .. Len(p) -> Seq(X)] : Joins(F, p)
<1> DEFINE n == Len(p)
           Joined(F, k) == F[0] = << >> /\ \A i \in 1 .. k : F[i] = F[i - 1] \o p[i]
           Good == {k \in 0 .. n : \E F \in [0 .. k -> Seq(X)] : Joined(F, k)}
<1>1. n \in Nat /\ \A i \in 1 .. n : p[i] \in Seq(X)
  OBVIOUS
<1> HIDE DEF n
<1>2. 0 \in Good
  <2> DEFINE F == [i \in 0 .. 0 |-> << >>]
  <2>1. F \in [0 .. 0 -> Seq(X)] /\ Joined(F, 0)
    OBVIOUS
  <2> HIDE DEF F, Joined
  <2> QED
    BY <1>1, <2>1
<1>3. ASSUME NEW k \in 1 .. n, k - 1 \in Good
      PROVE  k \in Good
  <2>1. PICK F \in [0 .. k - 1 -> Seq(X)] : Joined(F, k - 1)
    BY <1>3
  <2> DEFINE H == [i \in 0 .. k |-> IF i = k THEN F[k - 1] \o p[k] ELSE F[i]]
  <2>2. k \in Nat /\ k - 1 \in 0 .. k - 1 /\ \A i \in 0 .. k : i # k => i \in 0 .. k - 1
    BY <1>1
  <2>3. F[k - 1] \o p[k] \in Seq(X)
    BY <1>1, <2>1, <2>2, ConcatProperties
  <2>4. H \in [0 .. k -> Seq(X)]
    BY <2>2, <2>3
  <2>5. H[0] = << >>
    BY <2>1, <2>2
  <2>6. ASSUME NEW i \in 1 .. k
        PROVE  H[i] = H[i - 1] \o p[i]
    <3>1. i - 1 \in 0 .. k - 1 /\ i - 1 # k /\ i \in 0 .. k /\ i - 1 \in 0 .. k
      BY <2>2
    <3>2. H[i - 1] = F[i - 1]
      BY <3>1
    <3>3. CASE i = k
      BY <3>1, <3>2, <3>3
    <3>4. CASE i # k
      <4>1. i \in 1 .. k - 1
        BY <2>2, <3>4
      <4>2. H[i] = F[i] /\ F[i] = F[i - 1] \o p[i]
        BY <2>1, <3>1, <3>4, <4>1
      <4> QED
        BY <3>2, <4>2
    <3> QED
      BY <3>3, <3>4
  <2> HIDE DEF H
  <2>7. Joined(H, k)
    BY <2>5, <2>6
  <2>8. k \in 0 .. n
    BY <1>1
  <2> HIDE DEF Joined
  <2> QED
    BY <2>4, <2>7, <2>8
<1> HIDE DEF Good
<1>4. n \in Good
  <2>1. n \in 0 .. n
    BY <1>1
  <2> QED
    BY <1>1, <1>2, <1>3, <2>1, NatInductionTo
<1> QED
  BY <1>4 DEF Good, Joins, n

LEMMA Flattened ==
  ASSUME NEW X, NEW p \in Seq(Seq(X)), Len(p) > 0,
         NEW F \in [0 .. Len(p) -> Seq(X)], Joins(F, p)
  PROVE  FlattenSeq(p) = F[Len(p)]
<1> DEFINE n == Len(p)
           Solves(f) == f = [i \in 1 .. n |-> IF i = 1 THEN p[i] ELSE f[i - 1] \o p[i]]
           H == [i \in 1 .. n |-> F[i]]
<1>1. n \in Nat /\ n > 0 /\ \A i \in 1 .. n : p[i] \in Seq(X)
  OBVIOUS
<1>2. FlattenSeq(p) = (CHOOSE f : Solves(f))[n]
  <2>1. ~(Len(p) = 0)
    BY <1>1
  <2>2. FlattenSeq(p) =
          (CHOOSE f : f = [i \in 1 .. Len(p) |->
                            IF i = 1 THEN p[i] ELSE f[i - 1] \o p[i]])[Len(p)]
    BY <2>1 DEF FlattenSeq
  <2> QED
    BY <2>2
<1> HIDE DEF n
<1>3. \A i \in 1 .. n : F[i] = IF i = 1 THEN p[i] ELSE F[i - 1] \o p[i]
  <2> SUFFICES ASSUME NEW i \in 1 .. n
               PROVE  F[i] = IF i = 1 THEN p[i] ELSE F[i - 1] \o p[i]
    OBVIOUS
  <2>1. F[i] = F[i - 1] \o p[i]
    BY DEF Joins, n
  <2>2. i = 1 => F[i - 1] = << >>
    BY DEF Joins
  <2>3. << >> \o p[i] = p[i]
    BY <1>1, ConcatEmptySeq
  <2> QED
    BY <2>1, <2>2, <2>3
<1>4. Solves(H)
  <2>1. \A i \in 1 .. n : H[i] = IF i = 1 THEN p[i] ELSE H[i - 1] \o p[i]
    <3>1. \A i \in 1 .. n : i # 1 => i - 1 \in 1 .. n
      BY <1>1
    <3> QED
      BY <1>3, <3>1
  <2> QED
    BY <2>1
<1>5. ASSUME NEW f, Solves(f)
      PROVE  f[n] = F[n]
  <2> DEFINE Good == {k \in 0 .. n : k # 0 => f[k] = F[k]}
  <2>1. \A i \in 1 .. n : f[i] = IF i = 1 THEN p[i] ELSE f[i - 1] \o p[i]
    BY <1>5
  <2> HIDE DEF Solves, H
  <2>2. 0 \in Good
    BY <1>1
  <2>3. ASSUME NEW k \in 1 .. n, k - 1 \in Good
        PROVE  k \in Good
    <3>1. k \in 0 .. n /\ (k # 1 => f[k - 1] = F[k - 1])
      BY <1>1, <2>3
    <3> QED
      BY <1>3, <2>1, <3>1
  <2> HIDE DEF Good
  <2>4. n \in Good
    <3>1. n \in 0 .. n
      BY <1>1
    <3> QED
      BY <1>1, <2>2, <2>3, <3>1, NatInductionTo
  <2> QED
    BY <1>1, <2>4 DEF Good
<1>6. Solves(CHOOSE f : Solves(f))
  <2> HIDE DEF Solves, H
  <2> QED
    BY <1>4
<1>7. (CHOOSE f : Solves(f))[n] = F[n]
  <2> HIDE DEF Solves
  <2> QED
    BY <1>5, <1>6
<1> QED
  <2> HIDE DEF Solves
  <2> QED
    BY <1>2, <1>7 DEF n


(* What f is of each line.                                                 *)
Mapped(f, s) == [i \in DOMAIN s |-> f[s[i]]]

IsMap(f, X, Y)  == f \in [X -> Y]
IsJoin(u, s, t) == u = s \o t

LEMMA MappedConcat ==
  ASSUME NEW X, NEW Y, NEW f, IsMap(f, X, Y), NEW s \in Seq(X), NEW t \in Seq(X),
         NEW v, IsJoin(v, s, t)
  PROVE  /\ Mapped(f, s) \in Seq(Y)
         /\ Mapped(f, v) = Mapped(f, s) \o Mapped(f, t)
         /\ Mapped(f, << >>) = << >>
<1>0. f \in [X -> Y]
  BY DEF IsMap
<1>1. ASSUME NEW w \in Seq(X)
      PROVE  Mapped(f, w) \in Seq(Y) /\ Len(Mapped(f, w)) = Len(w)
  <2>1. \A i \in 1 .. Len(w) : w[i] \in X /\ f[w[i]] \in Y
    BY <1>0
  <2> QED
    BY <2>1 DEF Mapped
<1>2. /\ Len(s) \in Nat /\ Len(t) \in Nat /\ Len(s \o t) = Len(s) + Len(t)
      /\ s \o t \in Seq(X)
      /\ \A i \in 1 .. Len(s) : (s \o t)[i] = s[i]
      /\ \A i \in 1 .. Len(t) : (s \o t)[Len(s) + i] = t[i]
  BY ConcatProperties
<1>3. /\ Mapped(f, s) \o Mapped(f, t) \in Seq(Y)
      /\ Len(Mapped(f, s) \o Mapped(f, t)) = Len(s) + Len(t)
      /\ \A i \in 1 .. Len(s) : (Mapped(f, s) \o Mapped(f, t))[i] = Mapped(f, s)[i]
      /\ \A i \in 1 .. Len(t) : (Mapped(f, s) \o Mapped(f, t))[Len(s) + i] = Mapped(f, t)[i]
  <2>1. PICK a, b : a = Mapped(f, s) /\ b = Mapped(f, t)
    OBVIOUS
  <2>2. /\ a \in Seq(Y) /\ b \in Seq(Y)
        /\ Len(a) = Len(s) /\ Len(b) = Len(t) /\ Len(s) \in Nat /\ Len(t) \in Nat
    BY <1>1, <2>1
  <2>3. /\ a \o b \in Seq(Y)
        /\ Len(a \o b) = Len(s) + Len(t)
        /\ \A i \in 1 .. Len(s) : (a \o b)[i] = a[i]
        /\ \A i \in 1 .. Len(t) : (a \o b)[Len(s) + i] = b[i]
    <3>1. /\ a \o b \in Seq(Y)
          /\ Len(a \o b) = Len(a) + Len(b)
          /\ \A i \in 1 .. Len(a) : (a \o b)[i] = a[i]
          /\ \A i \in 1 .. Len(b) : (a \o b)[Len(a) + i] = b[i]
      <4>1. /\ a \o b \in Seq(Y)
            /\ Len(a \o b) = Len(a) + Len(b)
            /\ \A i \in 1 .. Len(a) + Len(b) :
                 (a \o b)[i] = IF i <= Len(a) THEN a[i] ELSE b[i - Len(a)]
        BY <2>2, ConcatProperties
      <4>2. Len(a) \in Nat /\ Len(b) \in Nat
        BY <2>2
      <4>3. ASSUME NEW i \in 1 .. Len(a)
            PROVE  (a \o b)[i] = a[i]
        BY <4>1, <4>2
      <4>4. ASSUME NEW i \in 1 .. Len(b)
            PROVE  (a \o b)[Len(a) + i] = b[i]
        <5>1. PICK j : j = Len(a) + i
          OBVIOUS
        <5>2. j \in 1 .. Len(a) + Len(b) /\ ~(j <= Len(a)) /\ j - Len(a) = i
          BY <4>2, <5>1
        <5> QED
          BY <4>1, <5>1, <5>2
      <4> QED
        BY <4>1, <4>3, <4>4
    <3> QED
      BY <2>2, <3>1
  <2> QED
    BY <2>1, <2>3
<1>4. /\ Mapped(f, s \o t) \in Seq(Y) /\ Len(Mapped(f, s \o t)) = Len(s) + Len(t)
  BY <1>1, <1>2
<1>5. /\ \A i \in 1 .. Len(s) : Mapped(f, s \o t)[i] = Mapped(f, s)[i]
      /\ \A i \in 1 .. Len(t) : Mapped(f, s \o t)[Len(s) + i] = Mapped(f, t)[i]
  <2>1. \A w \in Seq(X) : \A i \in 1 .. Len(w) : Mapped(f, w)[i] = f[w[i]]
    BY DEF Mapped
  <2>2. PICK u : u = s \o t
    OBVIOUS
  <2>3. /\ u \in Seq(X)
        /\ \A i \in 1 .. Len(s) : u[i] = s[i] /\ i \in 1 .. Len(u)
        /\ \A i \in 1 .. Len(t) : u[Len(s) + i] = t[i] /\ Len(s) + i \in 1 .. Len(u)
    BY <1>2, <2>2
  <2>4. /\ \A i \in 1 .. Len(s) : Mapped(f, u)[i] = Mapped(f, s)[i]
        /\ \A i \in 1 .. Len(t) : Mapped(f, u)[Len(s) + i] = Mapped(f, t)[i]
    <3>1. ASSUME NEW i \in 1 .. Len(s)
          PROVE  Mapped(f, u)[i] = Mapped(f, s)[i]
      <4>1. u[i] = s[i] /\ i \in 1 .. Len(u)
        BY <2>3
      <4>2. Mapped(f, u)[i] = f[u[i]] /\ Mapped(f, s)[i] = f[s[i]]
        BY <2>1, <2>3, <4>1
      <4> QED
        BY <4>1, <4>2
    <3>2. ASSUME NEW i \in 1 .. Len(t)
          PROVE  Mapped(f, u)[Len(s) + i] = Mapped(f, t)[i]
      <4>1. u[Len(s) + i] = t[i] /\ Len(s) + i \in 1 .. Len(u)
        BY <2>3
      <4>2. Mapped(f, u)[Len(s) + i] = f[u[Len(s) + i]] /\ Mapped(f, t)[i] = f[t[i]]
        BY <2>1, <2>3, <4>1
      <4> QED
        BY <4>1, <4>2
    <3> QED
      BY <3>1, <3>2
  <2> QED
    BY <2>2, <2>4
<1>6. ASSUME NEW i \in 1 .. Len(s) + Len(t)
      PROVE  Mapped(f, s \o t)[i] = (Mapped(f, s) \o Mapped(f, t))[i]
  <2>1. CASE i \in 1 .. Len(s)
    BY <1>3, <1>5, <2>1
  <2>2. CASE i \notin 1 .. Len(s)
    <3>1. PICK j \in 1 .. Len(t) : i = Len(s) + j
      <4>1. i - Len(s) \in 1 .. Len(t) /\ i = Len(s) + (i - Len(s))
        BY <1>2, <2>2
      <4> QED
        BY <4>1
    <3> QED
      BY <1>3, <1>5, <3>1
  <2> QED
    BY <2>1, <2>2
<1>7. Mapped(f, s \o t) = Mapped(f, s) \o Mapped(f, t)
  BY <1>3, <1>4, <1>6, SeqEqual
<1>8. Mapped(f, << >>) = << >>
  BY DEF Mapped
<1> QED
  BY <1>1, <1>7, <1>8 DEF IsJoin

-----------------------------------------------------------------------------
(* The calendar *)

LEMMA TimesAtLeast ==
  ASSUME NEW x \in Int, NEW k \in Nat, x >= 1
  PROVE  x * k >= k
<1>1. x * k = (x - 1) * k + k
  OBVIOUS
<1>2. x - 1 \in Nat
  OBVIOUS
<1>3. (x - 1) * k \in Nat
  BY <1>2
<1> QED
  BY <1>1, <1>3

(* The number with the larger digit in front is the larger one.            *)
LEMMA DigitsOrder ==
  ASSUME NEW a \in Int, NEW b \in Int, NEW k \in Nat, NEW r \in 0 .. k - 1, NEW v \in Nat, a < b
  PROVE  a * k + r < b * k + v
<1>1. b - a \in Int /\ b - a >= 1
  OBVIOUS
<1>2. (b - a) * k >= k
  BY <1>1, TimesAtLeast
<1>3. (b - a) * k = b * k - a * k /\ a * k \in Int /\ b * k \in Int
  OBVIOUS
<1> QED
  BY <1>2, <1>3

LEMMA DivMod ==
  ASSUME NEW t \in Nat, NEW k \in Nat \ {0}
  PROVE  /\ t \div k \in Nat /\ t % k \in 0 .. k - 1
         /\ t = (t \div k) * k + (t % k)
         /\ \A a \in Nat, r \in 0 .. k - 1 : t = a * k + r => t \div k = a /\ t % k = r
<1>1. t \div k \in Nat /\ t % k \in 0 .. k - 1 /\ t = (t \div k) * k + (t % k)
  <2>1. t \div k \in Int /\ t % k \in 0 .. k - 1
    OBVIOUS
  <2>2. t = k * (t \div k) + (t % k)
    OBVIOUS
  <2>3. t \div k \in Nat
    OBVIOUS
  <2>4. k * (t \div k) = (t \div k) * k
    BY <2>1
  <2> QED
    BY <2>1, <2>2, <2>3, <2>4
<1>2. ASSUME NEW a \in Nat, NEW r \in 0 .. k - 1, t = a * k + r
      PROVE  t \div k = a /\ t % k = r
  <2> DEFINE b == t \div k
             v == t % k
  <2>1. b \in Nat /\ v \in 0 .. k - 1 /\ t = b * k + v
    BY <1>1
  <2> HIDE DEF b, v
  <2>2. v \in Nat /\ r \in Nat /\ k \in Nat
    BY <2>1
  <2>3. ~(a < b)
    BY <1>2, <2>1, <2>2, DigitsOrder
  <2>4. ~(b < a)
    BY <1>2, <2>1, <2>2, DigitsOrder
  <2>5. a = b
    BY <2>1, <2>3, <2>4
  <2>6. a * k \in Int
    OBVIOUS
  <2>7. r = v
    BY <1>2, <2>1, <2>2, <2>5, <2>6
  <2> QED
    BY <2>5, <2>7 DEF b, v
<1> QED
  BY <1>1, <1>2

(* The fields of a time, and the number of its month and of its day.       *)
MonthNr(t) == YearOf(t) * MONTHS + MonthOf(t)
DayNr(t)   == MonthNr(t) * DAYS + DayOf(t)

LEMMA Fields ==
  ASSUME NEW t \in Nat
  PROVE  /\ YearOf(t) \in Nat /\ MonthOf(t) \in 0 .. MONTHS - 1
         /\ DayOf(t) \in 0 .. DAYS - 1 /\ HourOf(t) \in 0 .. HOURS - 1
         /\ MonthNr(t) \in Nat /\ DayNr(t) \in Nat
         /\ t = DayNr(t) * HOURS + HourOf(t)
         /\ t - (t % (HOURS * DAYS)) = MonthNr(t) * (HOURS * DAYS)
<1> DEFINE a == t \div HOURS
           b == a \div DAYS
           c == b \div MONTHS
<1>0. /\ HOURS \in Nat \ {0} /\ DAYS \in Nat \ {0} /\ MONTHS \in Nat \ {0}
      /\ HOURS \in Nat /\ DAYS \in Nat /\ MONTHS \in Nat
  BY CalendarAssumption DEF CalendarAssumption
<1>1. a \in Nat /\ HourOf(t) \in 0 .. HOURS - 1 /\ t = a * HOURS + HourOf(t)
  BY <1>0, DivMod DEF HourOf
<1> HIDE DEF a
<1>2. b \in Nat /\ a % DAYS \in 0 .. DAYS - 1 /\ a = b * DAYS + (a % DAYS)
  BY <1>0, <1>1, DivMod
<1> HIDE DEF b
<1>3. c \in Nat /\ b % MONTHS \in 0 .. MONTHS - 1 /\ b = c * MONTHS + (b % MONTHS)
  BY <1>0, <1>2, DivMod
<1> HIDE DEF c
<1>4. DayOf(t) = a % DAYS
  BY DEF DayOf, a
<1>5. HOURS * DAYS \in Nat \ {0}
  BY <1>0
<1>6. \A x \in Int, k \in Nat : x * k \in Int
  OBVIOUS
<1>8. /\ t = b * (HOURS * DAYS) + ((a % DAYS) * HOURS + HourOf(t))
      /\ (a % DAYS) * HOURS + HourOf(t) \in 0 .. HOURS * DAYS - 1
  <2> DEFINE d == a % DAYS
             h == HourOf(t)
  <2>1. d \in 0 .. DAYS - 1 /\ h \in 0 .. HOURS - 1 /\ d \in Int
    BY <1>1, <1>2
  <2>9. a = b * DAYS + d /\ t = a * HOURS + h
    BY <1>1, <1>2
  <2> HIDE DEF d, h
  <2>2. t = (b * DAYS + d) * HOURS + h
    BY <2>9
  <2>3. (b * DAYS + d) * HOURS = b * (HOURS * DAYS) + d * HOURS
    BY <1>0, <1>2, <2>1
  <2>4. d * HOURS + h < DAYS * HOURS + 0
    BY <1>0, <2>1, DigitsOrder
  <2>5. d * HOURS \in Nat /\ DAYS * HOURS = HOURS * DAYS /\ DAYS * HOURS \in Nat
    BY <1>0, <2>1
  <2>6. b * (HOURS * DAYS) \in Nat
    BY <1>2, <1>5
  <2>7. t = b * (HOURS * DAYS) + (d * HOURS + h)
    BY <2>1, <2>2, <2>3, <2>5, <2>6
  <2>8. d * HOURS + h \in 0 .. HOURS * DAYS - 1
    BY <2>1, <2>4, <2>5
  <2> QED
    BY <2>7, <2>8 DEF d, h
<1>9. /\ t \div (HOURS * DAYS) = b
      /\ t % (HOURS * DAYS) = (a % DAYS) * HOURS + HourOf(t)
  BY <1>2, <1>5, <1>8, DivMod
<1>10. MonthOf(t) = b % MONTHS
  BY <1>9 DEF MonthOf
<1>11. YearOf(t) = c
  <2> DEFINE K == HOURS * DAYS
             m == b % MONTHS
             r == t % K
  <2>1. /\ K \in Nat \ {0} /\ K \in Nat /\ m \in 0 .. MONTHS - 1 /\ m \in Int
        /\ r \in 0 .. K - 1 /\ t = b * K + r /\ b = c * MONTHS + m
    <3>1. m \in 0 .. MONTHS - 1 /\ m \in Int /\ b = c * MONTHS + m
      BY <1>3
    <3>2. r = (a % DAYS) * HOURS + HourOf(t)
      BY <1>9
    <3> HIDE DEF r, m
    <3>3. r \in 0 .. K - 1 /\ t = b * K + r
      BY <1>8, <3>2
    <3> QED
      BY <1>5, <3>1, <3>3
  <2> HIDE DEF K, m, r
  <2>2. b * K = c * (K * MONTHS) + m * K
    BY <1>0, <1>3, <2>1
  <2>3. m * K + r < MONTHS * K + 0
    BY <1>0, <2>1, DigitsOrder
  <2>4. m * K \in Nat /\ MONTHS * K = K * MONTHS /\ K * MONTHS \in Nat \ {0}
    BY <1>0, <2>1
  <2>5. c * (K * MONTHS) \in Nat
    BY <1>3, <2>4
  <2>6. t = c * (K * MONTHS) + (m * K + r)
    BY <2>1, <2>2, <2>4, <2>5
  <2>7. m * K + r \in 0 .. (K * MONTHS) - 1
    BY <2>1, <2>3, <2>4
  <2>8. t \div (K * MONTHS) = c
    BY <1>3, <2>4, <2>6, <2>7, DivMod
  <2> QED
    BY <2>8 DEF YearOf, K
<1>12. MonthNr(t) = b /\ DayNr(t) = a
  <2>1. MonthNr(t) = b
    BY <1>3, <1>10, <1>11 DEF MonthNr
  <2> QED
    BY <1>2, <1>4, <2>1 DEF DayNr
<1>13. t - (t % (HOURS * DAYS)) = b * (HOURS * DAYS)
  <2>1. b * (HOURS * DAYS) \in Nat
    BY <1>2, <1>5
  <2> QED
    BY <1>8, <1>9, <2>1
<1> QED
  BY <1>1, <1>2, <1>3, <1>4, <1>10, <1>11, <1>12, <1>13

LEMMA FieldsAreNat ==
  ASSUME NEW t \in Nat
  PROVE  /\ MonthOf(t) \in Nat /\ DayOf(t) \in Nat /\ HourOf(t) \in Nat /\ YearOf(t) \in Nat
         /\ MonthOf(t) <= MONTHS - 1 /\ DayOf(t) <= DAYS - 1 /\ HourOf(t) <= HOURS - 1
         /\ DayNr(t) \in Nat
<1>1. HOURS \in Nat /\ DAYS \in Nat /\ MONTHS \in Nat
  BY CalendarAssumption
<1>2. /\ YearOf(t) \in Nat /\ MonthOf(t) \in 0 .. MONTHS - 1
      /\ DayOf(t) \in 0 .. DAYS - 1 /\ HourOf(t) \in 0 .. HOURS - 1 /\ DayNr(t) \in Nat
  BY Fields
<1> QED
  BY <1>1, <1>2

(* Times are in the order of their days; a midnight is the first time of   *)
(* its day.                                                                *)
LEMMA DayOrder ==
  ASSUME NEW t \in Nat, NEW u \in Nat
  PROVE  /\ DayNr(t) < DayNr(u) => t < u
         /\ DayNr(t) = DayNr(u) => t - u = HourOf(t) - HourOf(u)
         /\ HourOf(u) = 0 => (u <= t <=> DayNr(u) <= DayNr(t))
         /\ HourOf(u) = 0 => (t < u + HOURS <=> DayNr(t) <= DayNr(u))
         /\ HourOf(u) = 0 => DayNr(u + HOURS) = DayNr(u) + 1 /\ HourOf(u + HOURS) = 0
<1> DEFINE a == DayNr(t)
           b == DayNr(u)
           h == HourOf(t)
           g == HourOf(u)
<1>0. HOURS \in Nat /\ HOURS > 0 /\ HOURS \in Nat \ {0}
  BY CalendarAssumption DEF CalendarAssumption
<1>1. /\ a \in Nat /\ b \in Nat /\ h \in 0 .. HOURS - 1 /\ g \in 0 .. HOURS - 1
      /\ t = a * HOURS + h /\ u = b * HOURS + g
  BY Fields
<1> HIDE DEF a, b, h, g
<1>2. a * HOURS \in Nat /\ b * HOURS \in Nat /\ h \in Nat /\ g \in Nat
  BY <1>0, <1>1
<1>3. a < b => t < u
  BY <1>0, <1>1, <1>2, DigitsOrder
<1>4. b < a => u < t
  BY <1>0, <1>1, <1>2, DigitsOrder
<1>5. a = b => t - u = h - g
  BY <1>1, <1>2
<1>6. g = 0 => (u <= t <=> b <= a)
  BY <1>1, <1>2, <1>3, <1>4, <1>5
<1>7. (b + 1) * HOURS = b * HOURS + HOURS /\ b + 1 \in Nat
  BY <1>0, <1>1
<1>8. a < b + 1 => a * HOURS + h < (b + 1) * HOURS + 0
  BY <1>0, <1>1, <1>7, DigitsOrder
<1>9. b + 1 < a => (b + 1) * HOURS + 0 < a * HOURS + h
  <2>1. 0 \in 0 .. HOURS - 1
    BY <1>0
  <2> QED
    BY <1>0, <1>1, <1>2, <1>7, <2>1, DigitsOrder
<1>10. a = b + 1 => a * HOURS = b * HOURS + HOURS
  BY <1>7
<1>11. g = 0 => (t < u + HOURS <=> a <= b)
  BY <1>0, <1>1, <1>2, <1>7, <1>8, <1>9, <1>10
<1>12. g = 0 => DayNr(u + HOURS) = b + 1 /\ HourOf(u + HOURS) = 0
  <2> SUFFICES ASSUME g = 0
               PROVE  DayNr(u + HOURS) = b + 1 /\ HourOf(u + HOURS) = 0
    OBVIOUS
  <2>1. ASSUME NEW w \in Nat, w = (b + 1) * HOURS + 0
        PROVE  DayNr(w) = b + 1 /\ HourOf(w) = 0
    <3>1. PICK x \in Nat, y \in 0 .. HOURS - 1 :
            x = DayNr(w) /\ y = HourOf(w) /\ w = x * HOURS + y
      BY Fields
    <3>2. w \div HOURS = b + 1
      <4>1. 0 \in 0 .. HOURS - 1
        BY <1>0
      <4> QED
        BY <1>0, <1>7, <2>1, <4>1, DivMod
    <3>3. w \div HOURS = x
      BY <1>0, <3>1, DivMod
    <3>4. x = b + 1
      BY <3>2, <3>3
    <3>5. x * HOURS = (b + 1) * HOURS /\ (b + 1) * HOURS \in Nat
      BY <1>0, <1>7, <3>4
    <3> QED
      BY <2>1, <3>1, <3>4, <3>5
  <2>2. u + HOURS \in Nat /\ u + HOURS = (b + 1) * HOURS + 0
    BY <1>0, <1>1, <1>2, <1>7
  <2> QED
    BY <2>1, <2>2
<1> QED
  BY <1>3, <1>5, <1>6, <1>11, <1>12 DEF a, b, h, g

(* Days are in the order of their months, months in that of their years.   *)
LEMMA MonthOrder ==
  ASSUME NEW t \in Nat, NEW u \in Nat
  PROVE  /\ YearOf(t) < YearOf(u) => MonthNr(t) < MonthNr(u)
         /\ YearOf(t) = YearOf(u) => MonthNr(t) - MonthNr(u) = MonthOf(t) - MonthOf(u)
         /\ MonthNr(t) < MonthNr(u) => DayNr(t) < DayNr(u)
         /\ MonthNr(t) = MonthNr(u) => /\ YearOf(t) = YearOf(u) /\ MonthOf(t) = MonthOf(u)
                                       /\ DayNr(t) - DayNr(u) = DayOf(t) - DayOf(u)
<1>0. DAYS \in Nat /\ MONTHS \in Nat
  BY CalendarAssumption DEF CalendarAssumption
<1>1. /\ YearOf(t) \in Nat /\ MonthOf(t) \in 0 .. MONTHS - 1 /\ DayOf(t) \in 0 .. DAYS - 1
      /\ YearOf(u) \in Nat /\ MonthOf(u) \in 0 .. MONTHS - 1 /\ DayOf(u) \in 0 .. DAYS - 1
      /\ MonthNr(t) \in Nat /\ MonthNr(u) \in Nat
  BY Fields
<1>2. /\ MonthOf(t) \in Nat /\ MonthOf(u) \in Nat /\ DayOf(t) \in Nat /\ DayOf(u) \in Nat
      /\ YearOf(t) * MONTHS \in Nat /\ YearOf(u) * MONTHS \in Nat
      /\ MonthNr(t) * DAYS \in Nat /\ MonthNr(u) * DAYS \in Nat
  BY <1>0, <1>1
<1>3. YearOf(t) < YearOf(u) => MonthNr(t) < MonthNr(u)
  BY <1>0, <1>1, <1>2, DigitsOrder DEF MonthNr
<1>4. YearOf(u) < YearOf(t) => MonthNr(u) < MonthNr(t)
  BY <1>0, <1>1, <1>2, DigitsOrder DEF MonthNr
<1>5. YearOf(t) = YearOf(u) => MonthNr(t) - MonthNr(u) = MonthOf(t) - MonthOf(u)
  BY <1>2 DEF MonthNr
<1>6. MonthNr(t) < MonthNr(u) => DayNr(t) < DayNr(u)
  BY <1>0, <1>1, <1>2, DigitsOrder DEF DayNr
<1>7. MonthNr(t) = MonthNr(u) => /\ YearOf(t) = YearOf(u) /\ MonthOf(t) = MonthOf(u)
                                 /\ DayNr(t) - DayNr(u) = DayOf(t) - DayOf(u)
  <2> SUFFICES ASSUME MonthNr(t) = MonthNr(u)
               PROVE  /\ YearOf(t) = YearOf(u) /\ MonthOf(t) = MonthOf(u)
                      /\ DayNr(t) - DayNr(u) = DayOf(t) - DayOf(u)
    OBVIOUS
  <2>1. YearOf(t) = YearOf(u)
    BY <1>1, <1>3, <1>4
  <2>2. MonthOf(t) = MonthOf(u)
    BY <1>1, <1>2, <1>5, <2>1
  <2>3. DayNr(t) - DayNr(u) = DayOf(t) - DayOf(u)
    BY <1>2 DEF DayNr
  <2> QED
    BY <2>1, <2>2, <2>3
<1> QED
  BY <1>3, <1>5, <1>6, <1>7

(* Within a year, days are in the order of their month and day.            *)
LEMMA DateOrder ==
  ASSUME NEW t \in Nat, NEW u \in Nat, YearOf(t) = YearOf(u)
  PROVE  DayNr(u) <= DayNr(t) <=> \/ MonthOf(u) < MonthOf(t)
                                  \/ MonthOf(u) = MonthOf(t) /\ DayOf(u) <= DayOf(t)
<1>1. /\ MonthNr(t) \in Nat /\ MonthNr(u) \in Nat /\ DayNr(t) \in Nat /\ DayNr(u) \in Nat
      /\ MonthOf(t) \in Int /\ MonthOf(u) \in Int /\ DayOf(t) \in Int /\ DayOf(u) \in Int
  BY Fields
<1>2. MonthNr(t) - MonthNr(u) = MonthOf(t) - MonthOf(u)
  BY MonthOrder
<1>3. CASE MonthNr(u) < MonthNr(t)
  <2>1. DayNr(u) < DayNr(t)
    BY <1>3, MonthOrder
  <2> QED
    BY <1>1, <1>2, <1>3, <2>1
<1>4. CASE MonthNr(t) < MonthNr(u)
  <2>1. DayNr(t) < DayNr(u)
    BY <1>4, MonthOrder
  <2> QED
    BY <1>1, <1>2, <1>4, <2>1
<1>5. CASE MonthNr(t) = MonthNr(u)
  <2>1. DayNr(t) - DayNr(u) = DayOf(t) - DayOf(u)
    BY <1>5, MonthOrder
  <2> QED
    BY <1>1, <1>2, <1>5, <2>1
<1> QED
  BY <1>1, <1>3, <1>4, <1>5

(* Years are in the order of their days.                                   *)
LEMMA YearOrder ==
  ASSUME NEW t \in Nat, NEW u \in Nat
  PROVE  YearOf(t) < YearOf(u) => DayNr(t) < DayNr(u)
BY MonthOrder

(* Which times are from the first day, q, to the last, end, of a query:    *)
(* by their month and day.                                                 *)
LEMMA InQuery ==
  ASSUME NEW q \in Nat, HourOf(q) = 0, NEW end \in Nat, HourOf(end) = 0, q <= end,
         NEW t \in Nat
  PROVE  /\ YearOf(q) <= YearOf(end)
         /\ YearOf(t) = YearOf(q) =>
              (q <= t <=> \/ MonthOf(t) > MonthOf(q)
                          \/ MonthOf(t) = MonthOf(q) /\ DayOf(t) >= DayOf(q))
         /\ YearOf(t) = YearOf(end) =>
              (t < end + HOURS <=> \/ MonthOf(t) < MonthOf(end)
                                   \/ MonthOf(t) = MonthOf(end) /\ DayOf(t) <= DayOf(end))
         /\ YearOf(end) # YearOf(q) /\ YearOf(t) = YearOf(q) => t < end + HOURS
         /\ YearOf(end) = YearOf(q) /\ q <= t /\ t < end + HOURS => YearOf(t) = YearOf(q)
<1>1. /\ YearOf(q) \in Nat /\ YearOf(end) \in Nat /\ YearOf(t) \in Nat
      /\ DayNr(q) \in Nat /\ DayNr(end) \in Nat /\ DayNr(t) \in Nat
      /\ MonthOf(q) \in Int /\ MonthOf(end) \in Int /\ MonthOf(t) \in Int
      /\ DayOf(q) \in Int /\ DayOf(end) \in Int /\ DayOf(t) \in Int
  BY Fields
<1>2. DayNr(q) <= DayNr(end)
  BY DayOrder
<1>3. q <= t <=> DayNr(q) <= DayNr(t)
  BY DayOrder
<1>4. t < end + HOURS <=> DayNr(t) <= DayNr(end)
  BY DayOrder
<1>5. YearOf(q) <= YearOf(end)
  BY <1>1, <1>2, YearOrder
<1>6. ASSUME YearOf(t) = YearOf(q)
      PROVE  q <= t <=> \/ MonthOf(t) > MonthOf(q)
                        \/ MonthOf(t) = MonthOf(q) /\ DayOf(t) >= DayOf(q)
  BY <1>1, <1>3, <1>6, DateOrder
<1>7. ASSUME YearOf(t) = YearOf(end)
      PROVE  t < end + HOURS <=> \/ MonthOf(t) < MonthOf(end)
                                 \/ MonthOf(t) = MonthOf(end) /\ DayOf(t) <= DayOf(end)
  BY <1>1, <1>4, <1>7, DateOrder
<1>8. ASSUME YearOf(end) # YearOf(q), YearOf(t) = YearOf(q)
      PROVE  t < end + HOURS
  <2>1. YearOf(t) < YearOf(end)
    BY <1>1, <1>5, <1>8
  <2>2. DayNr(t) < DayNr(end)
    BY <2>1, YearOrder
  <2> QED
    BY <1>1, <1>4, <2>2
<1>9. ASSUME YearOf(end) = YearOf(q), q <= t, t < end + HOURS
      PROVE  YearOf(t) = YearOf(q)
  <2>1. ~(YearOf(t) < YearOf(q))
    BY <1>1, <1>3, <1>9, YearOrder
  <2>2. ~(YearOf(end) < YearOf(t))
    BY <1>1, <1>4, <1>9, YearOrder
  <2> QED
    BY <1>1, <1>9, <2>1, <2>2
<1> QED
  BY <1>5, <1>6, <1>7, <1>8, <1>9

LEMMA QuotientIs ==
  ASSUME NEW k \in Nat \ {0}, NEW a \in Nat, NEW r \in 0 .. k - 1, NEW t \in Nat,
         t = a * k + r
  PROVE  t \div k = a
BY DivMod

(* The end of a query that ends on a midnight is on the day asked for: an  *)
(* int does not hold the seconds of a day.                                 *)
LEMMA EndOfQuery ==
  ASSUME NEW q \in Nat, NEW asked \in Nat, HourOf(asked) = 0, q <= asked,
         NEW end, end = EndOf(q, asked)
  PROVE  /\ end \in Nat /\ q <= end
         /\ YearOf(end) = YearOf(asked) /\ MonthOf(end) = MonthOf(asked)
         /\ DayOf(end) = DayOf(asked)
<1>1. HOURS \in Nat \ {0} /\ DAYS \in Nat \ {0} /\ MONTHS \in Nat \ {0} /\ DAY \in 0 .. HOURS - 1
  BY CalendarAssumption, DayAssumption DEF CalendarAssumption, DayAssumption
<1>2. end = asked + DAY /\ end \in Nat /\ q <= end
  BY <1>1 DEF EndOf
<1>3. DayNr(end) = DayNr(asked)
  <2>0. \A t \in Nat : /\ DayNr(t) \in Nat /\ HourOf(t) \in 0 .. HOURS - 1
                       /\ t = DayNr(t) * HOURS + HourOf(t)
    BY Fields
  <2>5. PICK a \in Nat, g \in 0 .. HOURS - 1 :
          a = DayNr(asked) /\ g = HourOf(asked) /\ asked = a * HOURS + g
    BY <2>0
  <2>6. PICK b \in Nat, h \in 0 .. HOURS - 1 :
          b = DayNr(end) /\ h = HourOf(end) /\ end = b * HOURS + h
    BY <1>2, <2>0
  <2>4. a * HOURS \in Nat /\ b * HOURS \in Nat
    BY <1>1
  <2>1. g = 0 /\ asked = a * HOURS + g
    BY <2>5
  <2>2. end = a * HOURS + DAY
    BY <1>1, <1>2, <2>1, <2>4
  <2>9. HOURS \in Nat \ {0} /\ DAY \in 0 .. HOURS - 1 /\ end \in Nat
    BY <1>1, <1>2
  <2>3. end \div HOURS = a
    BY <2>2, <2>9, QuotientIs
  <2>7. end = b * HOURS + h
    BY <2>6
  <2>8. end \div HOURS = b
    BY <2>7, <2>9, QuotientIs
  <2> QED
    BY <2>3, <2>5, <2>6, <2>8
<1>4. MonthNr(end) = MonthNr(asked)
  <2>1. /\ DayNr(end) \in Nat /\ DayNr(asked) \in Nat
        /\ MonthNr(end) \in Nat /\ MonthNr(asked) \in Nat
    BY <1>2, Fields
  <2>2. ~(MonthNr(end) < MonthNr(asked)) /\ ~(MonthNr(asked) < MonthNr(end))
    BY <1>2, <1>3, <2>1, MonthOrder
  <2> QED
    BY <2>1, <2>2
<1>5. /\ YearOf(end) = YearOf(asked) /\ MonthOf(end) = MonthOf(asked)
      /\ DayNr(end) - DayNr(asked) = DayOf(end) - DayOf(asked)
  BY <1>2, <1>4, MonthOrder
<1>6. /\ DayOf(end) \in Int /\ DayOf(asked) \in Int
      /\ DayNr(end) \in Int /\ DayNr(asked) \in Int
  BY <1>2, Fields
<1> QED
  BY <1>2, <1>3, <1>5, <1>6

(* Midnights are in the order of their days.                               *)
LEMMA MidnightOrder ==
  ASSUME NEW t \in Nat, NEW u \in Nat, Midnight(t) <= Midnight(u)
  PROVE  DayNr(t) <= DayNr(u)
<1>0. \A x \in Nat : /\ DayNr(x) \in Nat /\ HourOf(x) \in 0 .. HOURS - 1
                     /\ x = DayNr(x) * HOURS + HourOf(x)
  BY Fields
<1>1. PICK a \in Nat, h \in 0 .. HOURS - 1 :
        a = DayNr(t) /\ h = HourOf(t) /\ t = a * HOURS + h
  BY <1>0
<1>7. PICK b \in Nat, g \in 0 .. HOURS - 1 :
        b = DayNr(u) /\ g = HourOf(u) /\ u = b * HOURS + g
  BY <1>0
<1>2. HOURS \in Nat \ {0}
  BY CalendarAssumption DEF CalendarAssumption
<1>3. a * HOURS \in Nat /\ b * HOURS \in Nat
  BY <1>2
<1>4. Midnight(t) = a * HOURS /\ Midnight(u) = b * HOURS
  <2>1. Midnight(t) = t - h /\ Midnight(u) = u - g
    BY <1>1, <1>7 DEF Midnight
  <2> QED
    BY <1>1, <1>3, <1>7, <2>1
<1>5. b < a => b * HOURS + 0 < a * HOURS + 0
  BY <1>2, DigitsOrder
<1>6. a <= b
  BY <1>3, <1>4, <1>5
<1> QED
  BY <1>1, <1>6, <1>7

(* A time is what its fields say.                                          *)
LEMMA TimeOfFields ==
  ASSUME NEW t \in Nat
  PROVE  TimeOf(YearOf(t), MonthOf(t), DayOf(t), HourOf(t)) = t
BY Fields DEF TimeOf, DayNr, MonthNr

-----------------------------------------------------------------------------
(* SensorLog: sums of readings *)

(* What is added up is the readings as they are read back.                 *)
LEMMA ReadBackType == \A v \in Int : ReadBack(v) \in Int
<1>1. \A v \in Int, n \in Nat \ {0} : (((v + (n \div 2)) % n) - (n \div 2)) \in Int
  OBVIOUS
<1> QED
  BY <1>1, ReadingsAssumption DEF ReadingsAssumption, ReadBack

AddReading == [p \in Int \X Records |-> p[1] + ReadBack(p[2].reading)]

LEMMA TotalFold ==
  ASSUME NEW s \in Seq(Records)
  PROVE  \E h \in [SUBSET (1 .. Len(s)) -> Int] :
           Folds(h, s, 0, AddReading) /\ Total(s) = h[1 .. Len(s)]
<1> DEFINE D == 1 .. Len(s)
           G == AddReading
           Good(h) == h = [T \in SUBSET D |->
                            IF T = {} THEN 0
                            ELSE h[T \ {Max(T)}] + ReadBack(s[Max(T)].reading)]
           f == CHOOSE h : Good(h)
<1>1. Len(s) \in Nat /\ DOMAIN s = D /\ \A i \in D : s[i] \in Records
  OBVIOUS
<1>2. Total(s) = f[D]
  <2>1. Total(s) =
          (CHOOSE h : h =
             [T \in SUBSET DOMAIN s |->
               IF T = {} THEN 0
               ELSE h[T \ {Max(T)}] + ReadBack(s[Max(T)].reading)])[DOMAIN s]
    BY DEF Total, FoldLeft, MapThenFoldSet
  <2> HIDE DEF D
  <2> QED
    BY <1>1, <2>1
<1>3. \A b \in Int, x \in Records :
        G[<<b, x>>] = b + ReadBack(x.reading) /\ G[<<b, x>>] \in Int
  <2>1. \A x \in Records : ReadBack(x.reading) \in Int
    BY ReadBackType, ReadingsAssumption DEF ReadingsAssumption, Records
  <2> QED
    BY <2>1 DEF AddReading
<1>4. PICK h \in [SUBSET D -> Int] : Folds(h, s, 0, G)
  <2>1. StepsIn(G, Records, Int) /\ 0 \in Int
    <3>1. 0 \in Int
      OBVIOUS
    <3> HIDE DEF G
    <3> QED
      BY <1>3, <3>1 DEF StepsIn
  <2> HIDE DEF G
  <2> QED
    BY <2>1, FoldsExist
<1>5. \A T \in SUBSET D : T # {} => Max(T) \in T
  BY <1>1, MaxOfIndices
<1>6. ASSUME NEW T \in SUBSET D
      PROVE  h[T] = IF T = {} THEN 0
                    ELSE h[T \ {Max(T)}] + ReadBack(s[Max(T)].reading)
  <2>1. h[T] = IF T = {} THEN 0 ELSE G[<<h[T \ {Max(T)}], s[Max(T)]>>]
    <3> HIDE DEF G
    <3> QED
      BY <1>4 DEF Folds
  <2>2. T # {} => h[T \ {Max(T)}] \in Int /\ s[Max(T)] \in Records
    BY <1>1, <1>4, <1>5
  <2> HIDE DEF G, D
  <2> QED
    BY <1>3, <2>1, <2>2
<1>7. Good(h)
  <2>1. h = [T \in SUBSET D |-> h[T]]
    BY <1>4
  <2> HIDE DEF D
  <2> QED
    BY <1>6, <2>1
<1>8. ASSUME NEW g, Good(g)
      PROVE  g[D] = h[D]
  <2>1. \A T \in SUBSET D :
          g[T] = IF T = {} THEN 0
                 ELSE g[T \ {Max(T)}] + ReadBack(s[Max(T)].reading)
    BY <1>8
  <2> HIDE DEF G, Good
  <2>2. AgreeBySteps(g, h, Len(s))
    BY <1>6, <2>1 DEF AgreeBySteps
  <2> QED
    BY <1>1, <2>2, FoldsAgree
<1>9. Total(s) = h[D]
  <2> HIDE DEF D, G, Good
  <2>1. Good(f)
    BY <1>7
  <2> HIDE DEF f
  <2> QED
    BY <1>2, <1>8, <2>1
<1> QED
  <2> HIDE DEF f, Good
  <2> QED
    BY <1>4, <1>9

LEMMA TotalEmpty ==
  Total(<< >>) = 0
<1>1. ASSUME NEW u \in Seq(Records), u = << >>
      PROVE  Total(u) = 0
  <2>1. 1 .. Len(u) = {}
    BY <1>1
  <2>2. PICK h : Folds(h, u, 0, AddReading) /\ Total(u) = h[1 .. Len(u)]
    BY TotalFold
  <2>3. {} \in SUBSET (1 .. Len(u)) /\ h[{}] = 0
    BY <2>2 DEF Folds
  <2> QED
    BY <2>1, <2>2, <2>3
<1>2. << >> \in Seq(Records)
  OBVIOUS
<1> QED
  BY <1>1, <1>2

LEMMA TotalAppend ==
  ASSUME NEW s \in Seq(Records)
  PROVE  /\ Total(s) \in Int
         /\ \A e \in Records : Total(Append(s, e)) = Total(s) + ReadBack(e.reading)
<1> DEFINE G == AddReading
<1>1. Total(s) \in Int
  <2>1. PICK g \in [SUBSET (1 .. Len(s)) -> Int] : Total(s) = g[1 .. Len(s)]
    BY TotalFold
  <2> QED
    BY <2>1
<1>2. ASSUME NEW e \in Records
      PROVE  Total(Append(s, e)) = Total(s) + ReadBack(e.reading)
  <2> DEFINE t == Append(s, e)
  <2>1. t \in Seq(Records)
    OBVIOUS
  <2>2. PICK f : Folds(f, s, 0, G) /\ Total(s) = f[1 .. Len(s)]
    BY TotalFold
  <2>3. PICK h : Folds(h, t, 0, G) /\ Total(t) = h[1 .. Len(t)]
    <3> HIDE DEF t
    <3> QED
      BY <2>1, TotalFold
  <2>4. Total(t) = G[<<Total(s), e>>]
    <3> HIDE DEF G
    <3> QED
      BY <2>2, <2>3, FoldsAppend
  <2>5. G[<<Total(s), e>>] = Total(s) + ReadBack(e.reading)
    BY <1>1 DEF AddReading
  <2> HIDE DEF G
  <2> QED
    BY <2>4, <2>5
<1> QED
  BY <1>1, <1>2

(* What is summed up from the records of a file.                           *)
Sum0    == [stamp |-> 0, sum |-> 0, n |-> 0, out |-> << >>]
SumType == [stamp : Nat, sum : Int, n : Nat, out : Seq(Nat \X Int)]

SummedUp(t, z) == FoldLeft(LAMBDA acc, r : SumUp(acc, r, z), Sum0, t)

Summaries == {"hour", "day", "month"}

(* The stamp of a record is a time of its month; stamps are in the order   *)
(* of the times.                                                           *)
LEMMA Stamps ==
  ASSUME NEW z \in Summaries, NEW t \in Nat
  PROVE  /\ StampOf(t, z) \in Nat
         /\ MonthNr(StampOf(t, z)) = MonthNr(t)
         /\ StampOf(t, "month") = MonthNr(t) * (HOURS * DAYS)
         /\ \A u \in Nat : t <= u => StampOf(t, z) <= StampOf(u, z)
<1>0. HOURS \in Nat \ {0} /\ HOURS * DAYS \in Nat \ {0}
  BY CalendarAssumption DEF CalendarAssumption
<1>1. \A u \in Nat :
        /\ MonthNr(u) \in Nat /\ DayNr(u) \in Nat /\ HourOf(u) \in 0 .. HOURS - 1
        /\ u = DayNr(u) * HOURS + HourOf(u)
        /\ u - (u % (HOURS * DAYS)) = MonthNr(u) * (HOURS * DAYS)
  BY Fields
<1>2. ASSUME NEW u \in Nat, t <= u
      PROVE  DayNr(t) <= DayNr(u) /\ MonthNr(t) <= MonthNr(u)
  <2>1. ~(DayNr(u) < DayNr(t))
    BY <1>2, DayOrder
  <2>2. ~(MonthNr(u) < MonthNr(t))
    BY <2>1, MonthOrder
  <2> QED
    BY <1>1, <2>1, <2>2
<1>3. \A a, b, k \in Nat : a <= b => a * k <= b * k
  <2> SUFFICES ASSUME NEW a \in Nat, NEW b \in Nat, NEW k \in Nat, a <= b
               PROVE  a * k <= b * k
    OBVIOUS
  <2>1. (b - a) * k \in Nat /\ (b - a) * k = b * k - a * k
    OBVIOUS
  <2>2. a * k \in Nat /\ b * k \in Nat
    OBVIOUS
  <2> QED
    BY <2>1, <2>2
<1>4. StampOf(t, "month") = MonthNr(t) * (HOURS * DAYS)
  BY <1>1 DEF StampOf
<1>5. CASE z = "hour"
  BY <1>4, <1>5 DEF StampOf
<1>6. CASE z = "day"
  <2>1. \A u \in Nat : StampOf(u, z) = DayNr(u) * HOURS /\ DayNr(u) * HOURS \in Nat
    <3> SUFFICES ASSUME NEW u \in Nat
                 PROVE  StampOf(u, z) = DayNr(u) * HOURS /\ DayNr(u) * HOURS \in Nat
      OBVIOUS
    <3>1. PICK x \in Nat, y \in 0 .. HOURS - 1 :
            x = DayNr(u) /\ y = HourOf(u) /\ u = x * HOURS + y
      BY <1>1
    <3>2. x * HOURS \in Nat
      BY <1>0
    <3>3. StampOf(u, z) = u - y
      BY <1>6, <3>1 DEF StampOf, Midnight
    <3>4. u - y = x * HOURS
      BY <3>1, <3>2
    <3>5. x = DayNr(u)
      BY <3>1
    <3> QED
      BY <3>2, <3>3, <3>4, <3>5
  <2>2. \A u \in Nat : t <= u => StampOf(t, z) <= StampOf(u, z)
    <3> SUFFICES ASSUME NEW u \in Nat, t <= u
                 PROVE  StampOf(t, z) <= StampOf(u, z)
      OBVIOUS
    <3>1. DayNr(t) \in Nat /\ DayNr(u) \in Nat /\ DayNr(t) <= DayNr(u) /\ HOURS \in Nat
      BY <1>0, <1>1, <1>2
    <3>2. DayNr(t) * HOURS <= DayNr(u) * HOURS
      BY <1>3, <3>1
    <3> QED
      BY <2>1, <3>2
  <2>3. ASSUME NEW v \in Nat, v = DayNr(t) * HOURS
        PROVE  MonthNr(v) = MonthNr(t)
    <3>1. PICK x \in Nat, y \in 0 .. HOURS - 1 :
            x = DayNr(v) /\ y = HourOf(v) /\ v = x * HOURS + y
      BY <1>1
    <3>2. DayNr(t) \in Nat /\ 0 \in 0 .. HOURS - 1 /\ v = DayNr(t) * HOURS + 0
      BY <1>0, <1>1, <2>3
    <3>7. v = x * HOURS + y
      BY <3>1
    <3>3. v \div HOURS = x
      BY <1>0, <3>7, DivMod
    <3>4. v \div HOURS = DayNr(t)
      BY <1>0, <3>2, DivMod
    <3>5. DayNr(v) = DayNr(t)
      BY <3>1, <3>3, <3>4
    <3>6. ~(DayNr(v) < DayNr(t)) /\ ~(DayNr(t) < DayNr(v))
      BY <3>2, <3>5
    <3>8. ~(MonthNr(v) < MonthNr(t)) /\ ~(MonthNr(t) < MonthNr(v))
      BY <3>6, MonthOrder
    <3>9. MonthNr(v) \in Nat /\ MonthNr(t) \in Nat
      BY <1>1
    <3> QED
      BY <3>8, <3>9
  <2> QED
    BY <1>4, <2>1, <2>2, <2>3
<1>7. CASE z = "month"
  <2>0. PICK K \in Nat : K = HOURS * DAYS /\ K \in Nat \ {0}
    BY <1>0
  <2>1. \A u \in Nat : StampOf(u, z) = MonthNr(u) * K /\ MonthNr(u) * K \in Nat
    <3>1. \A u \in Nat : StampOf(u, z) = MonthNr(u) * K
      BY <1>1, <1>7, <2>0 DEF StampOf
    <3>2. \A u \in Nat : MonthNr(u) * K \in Nat
      BY <1>1
    <3> QED
      BY <3>1, <3>2
  <2>2. \A u \in Nat : t <= u => StampOf(t, z) <= StampOf(u, z)
    <3> SUFFICES ASSUME NEW u \in Nat, t <= u
                 PROVE  StampOf(t, z) <= StampOf(u, z)
      OBVIOUS
    <3>1. MonthNr(t) \in Nat /\ MonthNr(u) \in Nat /\ MonthNr(t) <= MonthNr(u)
      BY <1>1, <1>2
    <3>2. MonthNr(t) * K <= MonthNr(u) * K
      BY <1>3, <3>1
    <3> QED
      BY <2>1, <3>2
  <2>3. ASSUME NEW v \in Nat, v = MonthNr(t) * K
        PROVE  MonthNr(v) = MonthNr(t)
    <3>1. 0 \in 0 .. K - 1 /\ MonthNr(t) \in Nat
      BY <1>1, <2>0
    <3>2. v - (v % K) = MonthNr(v) * K /\ MonthNr(v) \in Nat
      BY <1>1, <2>0
    <3>3. PICK m \in Nat : m = MonthNr(t) /\ v = m * K + 0
      BY <2>3, <3>1
    <3>4. v % K = 0 /\ v \div K = m
      <4>1. K \in Nat \ {0} /\ 0 \in 0 .. K - 1
        BY <2>0
      <4>2. v = m * K + 0
        BY <3>3
      <4> QED
        BY <4>1, <4>2, DivMod
    <3>5. PICK x \in Nat : x = MonthNr(v)
      BY <3>2
    <3>6. v = x * K + 0
      BY <3>2, <3>4, <3>5
    <3>7. v \div K = x
      BY <2>0, <3>1, <3>6, DivMod
    <3> QED
      BY <3>3, <3>4, <3>5, <3>7
  <2> QED
    BY <1>4, <2>0, <2>1, <2>2, <2>3
<1> QED
  BY <1>5, <1>6, <1>7 DEF Summaries

LEMMA TimesAreNat == Times \subseteq Nat /\ \A r \in Records : r.at \in Nat /\ ReadBack(r.reading) \in Int
<1>1. HOURS * DAYS * MONTHS * YEARS - 1 \in Int
  BY CalendarAssumption DEF CalendarAssumption
<1>2. Times \subseteq Nat
  BY <1>1 DEF Times
<1> QED
  BY <1>2, ReadBackType, ReadingsAssumption DEF ReadingsAssumption, Records

LEMMA AverageType == \A n \in Nat \ {0}, sum \in Int : Average(sum, n) \in Int
<1>1. \A n \in Nat \ {0}, a \in Int : (a \div n) \in Int
  OBVIOUS
<1>2. ASSUME NEW n \in Nat \ {0}, NEW sum \in Int
      PROVE  (sum \div n) \in Int /\ -((-sum) \div n) \in Int
  <2>1. -sum \in Int
    OBVIOUS
  <2>2. ((-sum) \div n) \in Int
    BY <1>1, <2>1
  <2> QED
    BY <1>1, <2>2
<1> QED
  BY <1>2 DEF Average

LEMMA SumUpType ==
  ASSUME NEW z \in Summaries, NEW acc \in SumType, NEW r \in Records
  PROVE  SumUp(acc, r, z) \in SumType
<1>1. r.at \in Nat /\ ReadBack(r.reading) \in Int
  BY TimesAreNat
<1>2. StampOf(r.at, z) \in Nat
  BY <1>1, Stamps
<1>3. CASE acc.n = 0
  <2>1. SumUp(acc, r, z) =
          [stamp |-> StampOf(r.at, z), sum |-> ReadBack(r.reading), n |-> 1, out |-> acc.out]
    BY <1>3 DEF SumUp, SumType
  <2>2. acc.out \in Seq(Nat \X Int)
    BY DEF SumType
  <2> QED
    BY <1>1, <1>2, <2>1, <2>2 DEF SumType
<1>4. CASE acc.n # 0 /\ acc.stamp = StampOf(r.at, z)
  <2>1. SumUp(acc, r, z) = [acc EXCEPT !.sum = acc.sum + ReadBack(r.reading), !.n = acc.n + 1]
    BY <1>4 DEF SumUp
  <2>2. acc.sum + ReadBack(r.reading) \in Int /\ acc.n + 1 \in Nat
    BY <1>1 DEF SumType
  <2> QED
    BY <2>1, <2>2 DEF SumType
<1>5. CASE acc.n # 0 /\ acc.stamp # StampOf(r.at, z)
  <2>1. acc.n \in Nat \ {0} /\ acc.sum \in Int /\ acc.stamp \in Nat /\ acc.out \in Seq(Nat \X Int)
    BY <1>5 DEF SumType
  <2>2. Average(acc.sum, acc.n) \in Int
    BY <2>1, AverageType
  <2>3. Append(acc.out, <<acc.stamp, Average(acc.sum, acc.n)>>) \in Seq(Nat \X Int)
    BY <2>1, <2>2
  <2>4. SumUp(acc, r, z) = [stamp |-> StampOf(r.at, z), sum |-> ReadBack(r.reading), n |-> 1,
                            out |-> Append(acc.out, <<acc.stamp, Average(acc.sum, acc.n)>>)]
    BY <1>5 DEF SumUp
  <2> QED
    BY <1>1, <1>2, <2>3, <2>4 DEF SumType
<1> QED
  BY <1>3, <1>4, <1>5

SumStep(z) == [p \in SumType \X Records |-> SumUp(p[1], p[2], z)]

LEMMA SummedFold ==
  ASSUME NEW z \in Summaries, NEW s \in Seq(Records)
  PROVE  \E h \in [SUBSET (1 .. Len(s)) -> SumType] :
           Folds(h, s, Sum0, SumStep(z)) /\ SummedUp(s, z) = h[1 .. Len(s)]
<1> DEFINE D == 1 .. Len(s)
           G == SumStep(z)
           Good(h) == h = [T \in SUBSET D |->
                            IF T = {} THEN Sum0
                            ELSE SumUp(h[T \ {Max(T)}], s[Max(T)], z)]
           f == CHOOSE h : Good(h)
<1>1. Len(s) \in Nat /\ DOMAIN s = D /\ \A i \in D : s[i] \in Records
  OBVIOUS
<1>2. SummedUp(s, z) = f[D]
  <2>1. SummedUp(s, z) =
          (CHOOSE h : h =
             [T \in SUBSET DOMAIN s |->
               IF T = {} THEN Sum0
               ELSE SumUp(h[T \ {Max(T)}], s[Max(T)], z)])[DOMAIN s]
    BY DEF SummedUp, FoldLeft, MapThenFoldSet
  <2> HIDE DEF D
  <2> QED
    BY <1>1, <2>1
<1>3. \A b \in SumType, x \in Records :
        G[<<b, x>>] = SumUp(b, x, z) /\ G[<<b, x>>] \in SumType
  BY SumUpType DEF SumStep
<1>4. PICK h \in [SUBSET D -> SumType] : Folds(h, s, Sum0, G)
  <2>1. StepsIn(G, Records, SumType) /\ Sum0 \in SumType
    <3>1. Sum0 \in SumType
      BY DEF Sum0, SumType
    <3> HIDE DEF G
    <3> QED
      BY <1>3, <3>1 DEF StepsIn
  <2> HIDE DEF G
  <2> QED
    BY <2>1, FoldsExist
<1>5. \A T \in SUBSET D : T # {} => Max(T) \in T
  BY <1>1, MaxOfIndices
<1>6. ASSUME NEW T \in SUBSET D
      PROVE  h[T] = IF T = {} THEN Sum0
                    ELSE SumUp(h[T \ {Max(T)}], s[Max(T)], z)
  <2>1. h[T] = IF T = {} THEN Sum0 ELSE G[<<h[T \ {Max(T)}], s[Max(T)]>>]
    <3> HIDE DEF G
    <3> QED
      BY <1>4 DEF Folds
  <2>2. T # {} => h[T \ {Max(T)}] \in SumType /\ s[Max(T)] \in Records
    BY <1>1, <1>4, <1>5
  <2> HIDE DEF G, D
  <2> QED
    BY <1>3, <2>1, <2>2
<1>7. Good(h)
  <2>1. h = [T \in SUBSET D |-> h[T]]
    BY <1>4
  <2> HIDE DEF D
  <2> QED
    BY <1>6, <2>1
<1>8. ASSUME NEW g, Good(g)
      PROVE  g[D] = h[D]
  <2>1. \A T \in SUBSET D :
          g[T] = IF T = {} THEN Sum0
                 ELSE SumUp(g[T \ {Max(T)}], s[Max(T)], z)
    BY <1>8
  <2> HIDE DEF G, Good
  <2>2. AgreeBySteps(g, h, Len(s))
    BY <1>6, <2>1 DEF AgreeBySteps
  <2> QED
    BY <1>1, <2>2, FoldsAgree
<1>9. SummedUp(s, z) = h[D]
  <2> HIDE DEF D, G, Good
  <2>1. Good(f)
    BY <1>7
  <2> HIDE DEF f
  <2> QED
    BY <1>2, <1>8, <2>1
<1> QED
  <2> HIDE DEF f, Good
  <2> QED
    BY <1>4, <1>9

LEMMA SummedEmpty ==
  ASSUME NEW z \in Summaries
  PROVE  SummedUp(<< >>, z) = Sum0
<1>1. ASSUME NEW u \in Seq(Records), u = << >>
      PROVE  SummedUp(u, z) = Sum0
  <2>1. 1 .. Len(u) = {}
    BY <1>1
  <2>2. PICK h : Folds(h, u, Sum0, SumStep(z)) /\ SummedUp(u, z) = h[1 .. Len(u)]
    BY SummedFold
  <2>3. {} \in SUBSET (1 .. Len(u)) /\ h[{}] = Sum0
    BY <2>2 DEF Folds
  <2> QED
    BY <2>1, <2>2, <2>3
<1>2. << >> \in Seq(Records)
  OBVIOUS
<1> QED
  BY <1>1, <1>2

LEMMA SummedAppend ==
  ASSUME NEW z \in Summaries, NEW s \in Seq(Records)
  PROVE  /\ SummedUp(s, z) \in SumType
         /\ \A e \in Records : SummedUp(Append(s, e), z) = SumUp(SummedUp(s, z), e, z)
<1> DEFINE G == SumStep(z)
<1>1. SummedUp(s, z) \in SumType
  <2>1. PICK g \in [SUBSET (1 .. Len(s)) -> SumType] : SummedUp(s, z) = g[1 .. Len(s)]
    BY SummedFold
  <2> QED
    BY <2>1
<1>2. ASSUME NEW e \in Records
      PROVE  SummedUp(Append(s, e), z) = SumUp(SummedUp(s, z), e, z)
  <2> DEFINE t == Append(s, e)
  <2>1. t \in Seq(Records)
    OBVIOUS
  <2>2. PICK f : Folds(f, s, Sum0, G) /\ SummedUp(s, z) = f[1 .. Len(s)]
    BY SummedFold
  <2>3. PICK h : Folds(h, t, Sum0, G) /\ SummedUp(t, z) = h[1 .. Len(t)]
    <3> HIDE DEF t
    <3> QED
      BY <2>1, SummedFold
  <2>4. SummedUp(t, z) = G[<<SummedUp(s, z), e>>]
    <3> HIDE DEF G
    <3> QED
      BY <2>2, <2>3, FoldsAppend
  <2>5. G[<<SummedUp(s, z), e>>] = SumUp(SummedUp(s, z), e, z)
    BY <1>1 DEF SumStep
  <2> HIDE DEF G
  <2> QED
    BY <2>4, <2>5
<1> QED
  BY <1>1, <1>2

(* The records of a stamp, which its average is taken of.                  *)
Group(t, x, z) == Chosen(t, {r \in Records : StampOf(r.at, z) = x})

LEMMA GroupAppend ==
  ASSUME NEW z \in Summaries, NEW t \in Seq(Records), NEW e \in Records, NEW x
  PROVE  /\ Group(t, x, z) \in Seq(Records)
         /\ StampOf(e.at, z) = x => Group(Append(t, e), x, z) = Append(Group(t, x, z), e)
         /\ StampOf(e.at, z) # x => Group(Append(t, e), x, z) = Group(t, x, z)
         /\ (\A r \in Elems(t) : StampOf(r.at, z) # x) => Group(t, x, z) = << >>
<1> DEFINE S == {r \in Records : StampOf(r.at, z) = x}
<1>1. Chosen(t, S) \in Seq(Records)
  <2> HIDE DEF S
  <2> QED
    BY ChosenType
<1>2. Chosen(Append(t, e), S) = IF e \in S THEN Append(Chosen(t, S), e) ELSE Chosen(t, S)
  <2> HIDE DEF S
  <2> QED
    BY ChosenAppend
<1>3. e \in S <=> StampOf(e.at, z) = x
  OBVIOUS
<1>4. ASSUME \A r \in Elems(t) : StampOf(r.at, z) # x
      PROVE  Chosen(t, S) = << >>
  <2>1. \A i \in 1 .. Len(t) : t[i] \in S <=> t[i] \in {}
    BY <1>4 DEF Elems
  <2>2. Chosen(t, S) = Chosen(t, {})
    <3> HIDE DEF S
    <3> QED
      BY <2>1, ChosenSame
  <2> QED
    BY <2>2, ChosenAllNone
<1> HIDE DEF S
<1>5. /\ StampOf(e.at, z) = x => Chosen(Append(t, e), S) = Append(Chosen(t, S), e)
      /\ StampOf(e.at, z) # x => Chosen(Append(t, e), S) = Chosen(t, S)
  BY <1>2, <1>3
<1> QED
  BY <1>1, <1>4, <1>5 DEF Group, S

(* The orders of the records by their stamps.                              *)
ByStamp(z) == {p \in Records \X Records : StampOf(p[1].at, z) <= StampOf(p[2].at, z)}

Rising  == {p \in (Nat \X Int) \X (Nat \X Int) : p[1][1] < p[2][1]}

(* What is summed up after the records t: the open sum is that of the last *)
(* stamp; those before it are out, once each and in order.                 *)
SumInv(t, acc, z) ==
  /\ t = << >> <=> acc.n = 0
  /\ acc.n = 0 => acc.out = << >>
  /\ acc.n # 0 =>
       /\ acc.n = Len(Group(t, acc.stamp, z))
       /\ acc.sum = Total(Group(t, acc.stamp, z))
       /\ \E r \in Elems(t) : StampOf(r.at, z) = acc.stamp
       /\ \A r \in Elems(t) : \/ StampOf(r.at, z) = acc.stamp
                              \/ \E p \in Elems(acc.out) : p[1] = StampOf(r.at, z)
  /\ Ordered(acc.out, Rising)
  /\ \A p \in Elems(acc.out) :
       /\ p[1] < acc.stamp
       /\ p[2] = AverageOf(p[1], t, z)
       /\ \E r \in Elems(t) : p[1] = StampOf(r.at, z)

LEMMA SumInvStep ==
  ASSUME NEW z \in Summaries, NEW t \in Seq(Records), NEW e \in Records,
         Ordered(Append(t, e), ByStamp(z)), NEW acc \in SumType, SumInv(t, acc, z)
  PROVE  SumInv(Append(t, e), SumUp(acc, e, z), z)
<1> DEFINE u == Append(t, e)
           y == StampOf(e.at, z)
           next == SumUp(acc, e, z)
<1>0. /\ e.at \in Nat /\ ReadBack(e.reading) \in Int /\ y \in Nat
      /\ acc.stamp \in Nat /\ acc.sum \in Int /\ acc.n \in Nat /\ acc.out \in Seq(Nat \X Int)
  <2>1. e.at \in Nat /\ ReadBack(e.reading) \in Int
    BY TimesAreNat
  <2> QED
    BY <2>1, Stamps DEF SumType
<1>1. \A r \in Elems(t) : r \in Records /\ StampOf(r.at, z) \in Nat /\ StampOf(r.at, z) <= y
  <2> SUFFICES ASSUME NEW r \in Elems(t)
               PROVE  r \in Records /\ StampOf(r.at, z) \in Nat /\ StampOf(r.at, z) <= y
    OBVIOUS
  <2>1. r \in Records
    BY ElemsAppend
  <2>2. StampOf(r.at, z) <= y
    <3>1. \A i \in 1 .. Len(t) : <<t[i], e>> \in ByStamp(z)
      BY OrderedAppend
    <3>2. <<r, e>> \in ByStamp(z)
      BY <3>1 DEF Elems
    <3> QED
      BY <3>2 DEF ByStamp
  <2>3. r.at \in Nat
    BY <2>1, TimesAreNat
  <2> QED
    BY <1>0, <2>1, <2>2, <2>3, Stamps
<1>2. Elems(u) = Elems(t) \cup {e} /\ u # << >>
  BY ElemsAppend, AppendProperties
<1>3. \A x : /\ Group(t, x, z) \in Seq(Records)
             /\ x = y => Group(u, x, z) = Append(Group(t, x, z), e)
             /\ x # y => Group(u, x, z) = Group(t, x, z)
             /\ (\A r \in Elems(t) : StampOf(r.at, z) # x) => Group(t, x, z) = << >>
  BY GroupAppend
<1>4. \A g \in Seq(Records) :
        /\ Total(Append(g, e)) = Total(g) + ReadBack(e.reading) /\ Total(g) \in Int /\ Total(<< >>) = 0
        /\ Len(Append(g, e)) = Len(g) + 1 /\ Len(g) \in Nat
  BY TotalAppend, TotalEmpty
<1>5. \A x : x # y => AverageOf(x, u, z) = AverageOf(x, t, z)
  <2>1. \A x : /\ AverageOf(x, u, z) = Average(Total(Group(u, x, z)), Len(Group(u, x, z)))
               /\ AverageOf(x, t, z) = Average(Total(Group(t, x, z)), Len(Group(t, x, z)))
    BY DEF AverageOf, Group
  <2> HIDE DEF u, y
  <2> QED
    BY <1>3, <2>1
<1>6. \A p \in Elems(acc.out) : p \in Nat \X Int
  <2>1. Elems(acc.out) \subseteq Nat \X Int
    BY <1>0 DEF Elems
  <2> QED
    BY <2>1
<1> HIDE DEF u, y, next
<1>7. CASE acc.n = 0
  <2>1. t = << >> /\ acc.out = << >> /\ Elems(t) = {} /\ Elems(acc.out) = {}
    BY <1>7 DEF SumInv, Elems
  <2>2. next.stamp = y /\ next.sum = ReadBack(e.reading) /\ next.n = 1 /\ next.out = << >>
    <3>1. next = [acc EXCEPT !.stamp = y, !.sum = ReadBack(e.reading), !.n = 1]
      BY <1>7 DEF SumUp, next, y
    <3> QED
      BY <2>1, <3>1 DEF SumType
  <2>3. Group(u, y, z) = Append(<< >>, e)
    BY <1>3, <2>1
  <2>4. Len(Append(<< >>, e)) = 1 /\ Total(Append(<< >>, e)) = ReadBack(e.reading)
    <3>1. << >> \in Seq(Records) /\ Len(Append(<< >>, e)) = 1
      OBVIOUS
    <3>2. Total(Append(<< >>, e)) = Total(<< >>) + ReadBack(e.reading) /\ Total(<< >>) = 0
      BY <3>1, TotalAppend, TotalEmpty
    <3> QED
      BY <1>0, <3>1, <3>2
  <2>5. Ordered(<< >>, Rising)
    BY DEF Ordered
  <2>6. Elems(u) = {e} /\ StampOf(e.at, z) = y
    BY <1>2, <2>1 DEF y
  <2>7. Elems(next.out) = {}
    BY <2>1, <2>2
  <2>8. SumInv(u, next, z)
    BY <1>2, <2>2, <2>3, <2>4, <2>5, <2>6, <2>7 DEF SumInv
  <2> QED
    BY <2>8 DEF u, next
<1>8. CASE acc.n # 0 /\ acc.stamp = y
  <2>1. next.stamp = y /\ next.sum = acc.sum + ReadBack(e.reading) /\ next.n = acc.n + 1 /\ next.out = acc.out
    <3>1. next = [acc EXCEPT !.sum = acc.sum + ReadBack(e.reading), !.n = acc.n + 1]
      BY <1>8 DEF SumUp, next, y
    <3>2. PICK a : a = [acc EXCEPT !.sum = acc.sum + ReadBack(e.reading)]
      OBVIOUS
    <3>3. a \in SumType
      <4>1. acc.sum + ReadBack(e.reading) \in Int
        BY <1>0
      <4> QED
        BY <3>2, <4>1 DEF SumType
    <3>4. a.stamp = y /\ a.sum = acc.sum + ReadBack(e.reading) /\ a.out = acc.out
      BY <1>8, <3>2 DEF SumType
    <3>5. next = [a EXCEPT !.n = acc.n + 1]
      BY <3>1, <3>2, Zenon
    <3> QED
      BY <3>3, <3>4, <3>5 DEF SumType
  <2>2. acc.n = Len(Group(t, y, z)) /\ acc.sum = Total(Group(t, y, z))
    BY <1>8 DEF SumInv
  <2>3. next.n = Len(Group(u, y, z)) /\ next.sum = Total(Group(u, y, z)) /\ next.n # 0
    <3>1. Group(t, y, z) \in Seq(Records) /\ Group(u, y, z) = Append(Group(t, y, z), e)
      BY <1>3
    <3>2. /\ Total(Group(u, y, z)) = Total(Group(t, y, z)) + ReadBack(e.reading)
          /\ Len(Group(u, y, z)) = Len(Group(t, y, z)) + 1
      BY <1>4, <3>1
    <3> QED
      BY <1>0, <2>1, <2>2, <3>2
  <2>4. e \in Elems(u) /\ StampOf(e.at, z) = y
    BY <1>2 DEF y
  <2>5. \A r \in Elems(u) : \/ StampOf(r.at, z) = y
                            \/ \E p \in Elems(next.out) : p[1] = StampOf(r.at, z)
    BY <1>2, <1>8, <2>1, <2>4 DEF SumInv
  <2>6. Ordered(next.out, Rising)
    BY <2>1 DEF SumInv
  <2>7. ASSUME NEW p \in Elems(next.out)
        PROVE  /\ p[1] < y /\ p[2] = AverageOf(p[1], u, z)
               /\ \E r \in Elems(u) : p[1] = StampOf(r.at, z)
    <3>1. p[1] < y /\ p[2] = AverageOf(p[1], t, z) /\ \E r \in Elems(t) : p[1] = StampOf(r.at, z)
      BY <1>8, <2>1 DEF SumInv
    <3>2. p[1] # y
      BY <1>0, <1>6, <2>1, <3>1
    <3> QED
      BY <1>2, <1>5, <3>1, <3>2
  <2>8. SumInv(u, next, z)
    <3>1. u # << >> /\ next.n # 0
      BY <1>2, <2>3
    <3> QED
      BY <2>1, <2>3, <2>4, <2>5, <2>6, <2>7, <3>1 DEF SumInv
  <2> QED
    BY <2>8 DEF u, next
<1>9. CASE acc.n # 0 /\ acc.stamp # y
  <2> DEFINE new == <<acc.stamp, Average(acc.sum, acc.n)>>
  <2>1. /\ next.stamp = y /\ next.sum = ReadBack(e.reading) /\ next.n = 1
        /\ next.out = Append(acc.out, new)
    <3>1. next = [stamp |-> y, sum |-> ReadBack(e.reading), n |-> 1, out |-> Append(acc.out, new)]
      BY <1>9 DEF SumUp, next, y
    <3> HIDE DEF new
    <3> QED
      BY <3>1
  <2>2. acc.stamp < y
    <3>1. PICK r \in Elems(t) : StampOf(r.at, z) = acc.stamp
      BY <1>9 DEF SumInv
    <3> QED
      BY <1>0, <1>1, <1>9, <3>1
  <2>3. new \in Nat \X Int
    <3>1. acc.n \in Nat \ {0}
      BY <1>0, <1>9
    <3>2. Average(acc.sum, acc.n) \in Int
      BY <1>0, <3>1, AverageType
    <3> QED
      BY <1>0, <3>2
  <2>4. Elems(next.out) = Elems(acc.out) \cup {new}
    <3> HIDE DEF new
    <3>1. acc.out \in Seq(Nat \X Int)
      BY <1>0
    <3>2. Elems(Append(acc.out, new)) = Elems(acc.out) \cup {new}
      BY <2>3, <3>1, ElemsAppend
    <3> QED
      BY <2>1, <3>2
  <2>5. \A r \in Elems(t) : StampOf(r.at, z) # y
    <3> SUFFICES ASSUME NEW r \in Elems(t), StampOf(r.at, z) = y
                 PROVE  FALSE
      OBVIOUS
    <3>1. \E p \in Elems(acc.out) : p[1] = y
      BY <1>9 DEF SumInv
    <3>2. \A p \in Elems(acc.out) : p[1] < acc.stamp /\ p[1] \in Nat
      BY <1>6 DEF SumInv
    <3> QED
      BY <1>0, <2>2, <3>1, <3>2
  <2>6. Group(u, y, z) = Append(<< >>, e)
    BY <1>3, <2>5
  <2>7. Len(Append(<< >>, e)) = 1 /\ Total(Append(<< >>, e)) = ReadBack(e.reading)
    <3>1. << >> \in Seq(Records) /\ Len(Append(<< >>, e)) = 1
      OBVIOUS
    <3>2. Total(Append(<< >>, e)) = Total(<< >>) + ReadBack(e.reading) /\ Total(<< >>) = 0
      BY <3>1, TotalAppend, TotalEmpty
    <3> QED
      BY <1>0, <3>1, <3>2
  <2>8. e \in Elems(u) /\ StampOf(e.at, z) = y
    BY <1>2 DEF y
  <2>9. \A r \in Elems(u) : \/ StampOf(r.at, z) = y
                            \/ \E p \in Elems(next.out) : p[1] = StampOf(r.at, z)
    <3> SUFFICES ASSUME NEW r \in Elems(t)
                 PROVE  \E p \in Elems(next.out) : p[1] = StampOf(r.at, z)
      BY <1>2, <2>8
    <3>1. CASE StampOf(r.at, z) = acc.stamp
      <4>1. new \in Elems(next.out) /\ new[1] = acc.stamp
        BY <2>4
      <4> QED
        BY <3>1, <4>1
    <3>2. CASE StampOf(r.at, z) # acc.stamp
      BY <1>9, <2>4, <3>2 DEF SumInv
    <3> QED
      BY <3>1, <3>2
  <2>10. Ordered(next.out, Rising)
    <3>1. Ordered(acc.out, Rising)
      BY DEF SumInv
    <3>2. ASSUME NEW i \in 1 .. Len(acc.out)
          PROVE  <<acc.out[i], new>> \in Rising
      <4>1. acc.out[i] \in Elems(acc.out)
        BY DEF Elems
      <4>2. acc.out[i][1] < acc.stamp /\ acc.out[i] \in Nat \X Int
        BY <1>6, <4>1 DEF SumInv
      <4>3. new[1] = acc.stamp
        OBVIOUS
      <4> HIDE DEF new
      <4> QED
        BY <2>3, <4>2, <4>3 DEF Rising
    <3> HIDE DEF new
    <3> QED
      BY <1>0, <2>1, <2>3, <3>1, <3>2, OrderedAppend
  <2>11. ASSUME NEW p \in Elems(next.out)
         PROVE  /\ p[1] < y /\ p[2] = AverageOf(p[1], u, z)
                /\ \E r \in Elems(u) : p[1] = StampOf(r.at, z)
    <3>1. CASE p \in Elems(acc.out)
      <4>1. /\ p[1] < acc.stamp /\ p[2] = AverageOf(p[1], t, z)
            /\ \E r \in Elems(t) : p[1] = StampOf(r.at, z)
        BY <3>1 DEF SumInv
      <4>2. p[1] \in Nat
        BY <1>6, <3>1
      <4>3. p[1] < y /\ p[1] # y
        BY <1>0, <2>2, <4>1, <4>2
      <4> QED
        BY <1>2, <1>5, <4>1, <4>3
    <3>2. CASE p = new
      <4>1. p[1] = acc.stamp /\ p[2] = Average(acc.sum, acc.n)
        BY <3>2
      <4>2. \E r \in Elems(t) : StampOf(r.at, z) = acc.stamp
        BY <1>9 DEF SumInv
      <4>3. AverageOf(acc.stamp, t, z) = Average(acc.sum, acc.n)
        <5>1. acc.n = Len(Group(t, acc.stamp, z)) /\ acc.sum = Total(Group(t, acc.stamp, z))
          BY <1>9 DEF SumInv
        <5> QED
          BY <5>1 DEF AverageOf, Group
      <4> QED
        BY <1>2, <1>5, <1>9, <2>2, <4>1, <4>2, <4>3
    <3> QED
      BY <2>4, <3>1, <3>2
  <2>12. SumInv(u, next, z)
    <3>1. u # << >> /\ next.n # 0
      BY <1>2, <2>1
    <3> HIDE DEF new
    <3> QED
      BY <2>1, <2>6, <2>7, <2>8, <2>9, <2>10, <2>11, <3>1 DEF SumInv
  <2> QED
    BY <2>12 DEF u, next
<1> QED
  BY <1>7, <1>8, <1>9

LEMMA SummedIsRight ==
  ASSUME NEW z \in Summaries, NEW t \in Seq(Records), Ordered(t, ByStamp(z))
  PROVE  SummedUp(t, z) \in SumType /\ SumInv(t, SummedUp(t, z), z)
<1> DEFINE Good == {s \in Seq(Records) : Ordered(s, ByStamp(z)) => SumInv(s, SummedUp(s, z), z)}
<1>1. << >> \in Good
  <2>1. SummedUp(<< >>, z) = Sum0
    BY SummedEmpty
  <2>2. Elems(<< >>) = {} /\ Ordered(<< >>, Rising)
    BY DEF Elems, Ordered
  <2>3. SumInv(<< >>, Sum0, z)
    BY <2>2 DEF SumInv, Sum0
  <2> QED
    BY <2>1, <2>3
<1>2. ASSUME NEW s \in Seq(Records), NEW e \in Records, s \in Good
      PROVE  Append(s, e) \in Good
  <2>0. Append(s, e) \in Seq(Records)
    BY AppendProperties
  <2> SUFFICES ASSUME Ordered(Append(s, e), ByStamp(z))
               PROVE  SumInv(Append(s, e), SummedUp(Append(s, e), z), z)
    BY <2>0
  <2>1. Ordered(s, ByStamp(z))
    BY OrderedAppend
  <2>2. SumInv(s, SummedUp(s, z), z)
    BY <1>2, <2>1
  <2>3. SummedUp(s, z) \in SumType
    BY SummedAppend
  <2>4. SummedUp(Append(s, e), z) = SumUp(SummedUp(s, z), e, z)
    BY SummedAppend
  <2> QED
    BY <2>2, <2>3, <2>4, SumInvStep
<1> HIDE DEF Good
<1>3. t \in Good
  BY <1>1, <1>2, SeqInduction
<1>4. SummedUp(t, z) \in SumType
  BY SummedAppend
<1> QED
  BY <1>3, <1>4 DEF Good

-----------------------------------------------------------------------------
(* SensorLog: a query, month by month.                                     *)

Asked(q)      == {r \in Records : q[1] <= r.at /\ r.at < q[2] + HOURS}
OfMonth(q, m) == {r \in Asked(q) : MonthOf(r.at) = m}
ToMonth(q, m) == {r \in Asked(q) : MonthOf(r.at) <= m}

(* The times of a query.                                                   *)
LEMMA TimesOfQuery ==
  ASSUME NEW q \in Queries, NEW end, end = EndOf(q[1], q[2])
  PROVE  /\ q[1] \in Nat /\ q[2] \in Nat /\ end \in Nat
         /\ HourOf(q[1]) = 0 /\ HourOf(q[2]) = 0 /\ q[1] <= q[2]
         /\ YearOf(q[2]) = YearOf(q[1]) /\ YearOf(end) = YearOf(q[1])
         /\ MonthOf(end) = MonthOf(q[2]) /\ DayOf(end) = DayOf(q[2])
         /\ MonthOf(q[1]) \in Nat /\ MonthOf(end) \in Nat /\ MonthOf(q[1]) <= MonthOf(end)
         /\ \A r \in Asked(q) : /\ YearOf(r.at) = YearOf(q[1])
                                /\ MonthOf(r.at) \in Nat /\ MonthOf(r.at) \in 0 .. MONTHS - 1
                                /\ MonthOf(q[1]) <= MonthOf(r.at)
                                /\ MonthOf(r.at) <= MonthOf(end)
<1>1. /\ q[1] \in Nat /\ q[2] \in Nat /\ HourOf(q[1]) = 0 /\ HourOf(q[2]) = 0 /\ q[1] <= q[2]
      /\ YearOf(q[2]) = YearOf(q[1])
  <2>1. /\ q[1] \in Midnights /\ q[2] \in Midnights /\ q[1] <= q[2]
        /\ YearOf(q[2]) = YearOf(q[1])
    BY DEF Queries
  <2> QED
    BY <2>1, TimesAreNat DEF Midnights
<1>2. /\ end \in Nat /\ YearOf(end) = YearOf(q[2])
      /\ MonthOf(end) = MonthOf(q[2]) /\ DayOf(end) = DayOf(q[2])
  BY <1>1, EndOfQuery
<1>3. MonthOf(q[1]) \in Nat /\ MonthOf(q[2]) \in Nat
  BY <1>1, Fields
<1>4. MonthOf(q[1]) <= MonthOf(q[2])
  <2>1. DayNr(q[1]) <= DayNr(q[2])
    BY <1>1, DayOrder
  <2>2. MonthNr(q[2]) >= MonthNr(q[1])
    <3>1. MonthNr(q[2]) < MonthNr(q[1]) => DayNr(q[2]) < DayNr(q[1])
      BY <1>1, MonthOrder
    <3>2. /\ DayNr(q[2]) \in Nat /\ DayNr(q[1]) \in Nat
          /\ MonthNr(q[2]) \in Nat /\ MonthNr(q[1]) \in Nat
      BY <1>1, Fields
    <3> QED
      BY <2>1, <3>1, <3>2
  <2>3. MonthNr(q[2]) - MonthNr(q[1]) = MonthOf(q[2]) - MonthOf(q[1])
    BY <1>1, MonthOrder
  <2>4. MonthNr(q[2]) \in Nat /\ MonthNr(q[1]) \in Nat
    BY <1>1, Fields
  <2> QED
    BY <1>3, <2>2, <2>3, <2>4
<1>5. ASSUME NEW r \in Asked(q)
      PROVE  /\ YearOf(r.at) = YearOf(q[1]) /\ MonthOf(r.at) \in Nat
             /\ MonthOf(r.at) \in 0 .. MONTHS - 1
             /\ MonthOf(q[1]) <= MonthOf(r.at) /\ MonthOf(r.at) <= MonthOf(q[2])
  <2>1. r \in Records /\ q[1] <= r.at /\ r.at < q[2] + HOURS
    BY DEF Asked
  <2>2. r.at \in Nat
    BY <2>1, TimesAreNat
  <2>3. YearOf(r.at) = YearOf(q[1])
    BY <1>1, <2>1, <2>2, InQuery
  <2>4. /\ MonthOf(r.at) > MonthOf(q[1]) \/ MonthOf(r.at) = MonthOf(q[1])
        /\ MonthOf(r.at) < MonthOf(q[2]) \/ MonthOf(r.at) = MonthOf(q[2])
    BY <1>1, <2>1, <2>2, <2>3, InQuery
  <2>5. MonthOf(r.at) \in Nat /\ MonthOf(r.at) \in 0 .. MONTHS - 1
    BY <2>2, Fields
  <2> QED
    BY <1>3, <2>3, <2>4, <2>5
<1> QED
  BY <1>1, <1>2, <1>3, <1>4, <1>5

(* The order of the records by their days.                                 *)
ByDay == {p \in Records \X Records : DayNr(p[1].at) <= DayNr(p[2].at)}

LEMMA OrdersOfRecords ==
  ASSUME records \in Seq(Records), NEW z \in Summaries
  PROVE  /\ InOrder("day") => Ordered(records, ByDay)
         /\ InOrder(z) => Ordered(records, ByStamp(z))
<1>1. \A i \in 1 .. Len(records) : records[i] \in Records /\ records[i].at \in Nat
  BY TimesAreNat
<1>2. DOMAIN records = 1 .. Len(records)
  OBVIOUS
<1>3. ASSUME InOrder("day")
      PROVE  Ordered(records, ByDay)
  <2> SUFFICES ASSUME NEW i \in 1 .. Len(records), NEW j \in 1 .. Len(records), i < j
               PROVE  <<records[i], records[j]>> \in ByDay
    BY DEF Ordered
  <2>1. StampOf(records[i].at, "day") <= StampOf(records[j].at, "day")
    BY <1>2, <1>3 DEF InOrder
  <2>2. Midnight(records[i].at) <= Midnight(records[j].at)
    BY <2>1 DEF StampOf
  <2> QED
    BY <1>1, <2>2, MidnightOrder DEF ByDay
<1>4. ASSUME InOrder(z)
      PROVE  Ordered(records, ByStamp(z))
  BY <1>1, <1>2, <1>4 DEF InOrder, Ordered, ByStamp
<1> QED
  BY <1>3, <1>4

(* What a query takes of the file of a month.                              *)
Taken(file, start, end) ==
  Chosen(UpTo(file, {r \in Records : AfterEnd(r, end)}), {r \in Records : FromStart(r, start)})

LEMMA TakenOfMonth ==
  ASSUME records \in Seq(Records), Ordered(records, ByDay), NEW q \in Queries, NEW m
  PROVE  Taken(FileOf(YearOf(q[1]), m), q[1], EndOf(q[1], q[2])) = Chosen(records, OfMonth(q, m))
<1>1. PICK end : end = EndOf(q[1], q[2])
  OBVIOUS
<1> DEFINE A == {r \in Records : YearOf(r.at) = YearOf(q[1]) /\ MonthOf(r.at) = m}
           L == {r \in Records : AfterEnd(r, end)}
           S == {r \in Records : FromStart(r, q[1])}
           B == (Records \ L) \cap S
<1>2. PICK file : file = FileOf(YearOf(q[1]), m)
  OBVIOUS
<1>3. file = Chosen(records, A)
  BY <1>2 DEF FileOf
<1>4. \A r \in A : /\ r \in Records /\ r.at \in Nat /\ YearOf(r.at) = YearOf(q[1])
                   /\ MonthOf(r.at) \in Int /\ DayOf(r.at) \in Int /\ MonthOf(r.at) = m
  <2> SUFFICES ASSUME NEW r \in A
               PROVE  r.at \in Nat /\ MonthOf(r.at) \in Int /\ DayOf(r.at) \in Int
    OBVIOUS
  <2>1. PICK t \in Nat : t = r.at
    BY TimesAreNat
  <2>2. MonthOf(t) \in Nat /\ DayOf(t) \in Nat
    BY FieldsAreNat
  <2> QED
    BY <2>1, <2>2
<1>5. /\ MonthOf(end) = MonthOf(q[2]) /\ DayOf(end) = DayOf(q[2]) /\ YearOf(end) = YearOf(q[1])
      /\ q[1] \in Nat /\ q[2] \in Nat /\ HourOf(q[1]) = 0 /\ HourOf(q[2]) = 0 /\ q[1] <= q[2]
      /\ YearOf(q[2]) = YearOf(q[1])
      /\ MonthOf(q[2]) \in Int /\ DayOf(q[2]) \in Int
  BY <1>1, TimesOfQuery, Fields
<1>6. \A r \in A : /\ r \in L <=> ~(r.at < q[2] + HOURS)
                   /\ r \in S <=> q[1] <= r.at
  <2> SUFFICES ASSUME NEW r \in A
               PROVE  /\ AfterEnd(r, end) <=> ~(r.at < q[2] + HOURS)
                      /\ FromStart(r, q[1]) <=> q[1] <= r.at
    BY <1>4
  <2>1. /\ q[1] <= r.at <=> \/ MonthOf(r.at) > MonthOf(q[1])
                            \/ MonthOf(r.at) = MonthOf(q[1]) /\ DayOf(r.at) >= DayOf(q[1])
        /\ r.at < q[2] + HOURS <=> \/ MonthOf(r.at) < MonthOf(q[2])
                                   \/ MonthOf(r.at) = MonthOf(q[2]) /\ DayOf(r.at) <= DayOf(q[2])
    BY <1>4, <1>5, InQuery
  <2>2. MonthOf(r.at) \in Int /\ DayOf(r.at) \in Int
    BY <1>4
  <2> QED
    BY <1>5, <2>1, <2>2 DEF AfterEnd, FromStart
<1>7. A \cap B = OfMonth(q, m)
  <2>1. ASSUME NEW r \in A \cap B
        PROVE  r \in OfMonth(q, m)
    <3>1. r \in Records /\ r \in A /\ MonthOf(r.at) = m
      OBVIOUS
    <3>2. q[1] <= r.at /\ r.at < q[2] + HOURS
      BY <1>6, <3>1
    <3> HIDE DEF A, B
    <3> QED
      BY <3>1, <3>2 DEF OfMonth, Asked
  <2>2. ASSUME NEW r \in OfMonth(q, m)
        PROVE  r \in A \cap B
    <3>1. r \in Asked(q) /\ MonthOf(r.at) = m
      BY DEF OfMonth
    <3>2. r \in Records /\ q[1] <= r.at /\ r.at < q[2] + HOURS
      BY <3>1 DEF Asked
    <3>3. YearOf(r.at) = YearOf(q[1])
      BY <1>1, <3>1, TimesOfQuery
    <3>4. r \in A
      BY <3>1, <3>2, <3>3
    <3> QED
      BY <1>6, <3>2, <3>4
  <2> QED
    BY <2>1, <2>2
<1>8. file \in Seq(Records) /\ Ordered(file, Staying(Records, L))
  <2>1. file \in Seq(Records) /\ Ordered(file, ByDay)
    <3> HIDE DEF A
    <3> QED
      BY <1>3, ChosenType, ChosenOrdered
  <2>2. Elems(file) \subseteq A
    <3> HIDE DEF A
    <3> QED
      BY <1>3, ChosenRange
  <2> SUFFICES ASSUME NEW i \in 1 .. Len(file), NEW j \in 1 .. Len(file), i < j, file[i] \in L
               PROVE  file[j] \in L
    <3>1. \A i \in 1 .. Len(file) : file[i] \in Records
      BY <2>1
    <3> HIDE DEF L
    <3> QED
      BY <2>1, <3>1 DEF Ordered, Staying
  <2>3. file[i] \in A /\ file[j] \in A
    BY <2>2 DEF Elems
  <2>4. DayNr(file[i].at) <= DayNr(file[j].at)
    <3>1. <<file[i], file[j]>> \in ByDay
      BY <2>1 DEF Ordered
    <3> QED
      BY <3>1 DEF ByDay
  <2>5. file[i].at \in Nat /\ file[j].at \in Nat
    BY <1>4, <2>3
  <2>6. ~(file[i].at < q[2] + HOURS)
    BY <1>6, <2>3
  <2>7. ~(DayNr(file[i].at) <= DayNr(q[2]))
    BY <1>5, <2>5, <2>6, DayOrder
  <2>8. DayNr(file[i].at) \in Nat /\ DayNr(file[j].at) \in Nat /\ DayNr(q[2]) \in Nat
    BY <1>5, <2>5, Fields
  <2>9. ~(DayNr(file[j].at) <= DayNr(q[2]))
    BY <2>4, <2>7, <2>8
  <2>10. ~(file[j].at < q[2] + HOURS)
    BY <1>5, <2>5, <2>9, DayOrder
  <2> QED
    BY <1>6, <2>3, <2>10
<1> HIDE DEF A, L, S
<1>9. UpTo(file, L) = Chosen(file, Records \ L)
  BY <1>8, UpToIsChosen
<1>10. Chosen(Chosen(file, Records \ L), S) = Chosen(file, (Records \ L) \cap S)
  BY <1>8, ChosenTwice
<1>11. Chosen(Chosen(records, A), B) = Chosen(records, A \cap B)
  <2> HIDE DEF B
  <2> QED
    BY ChosenTwice
<1>12. Taken(file, q[1], end) = Chosen(UpTo(file, L), S)
  BY DEF Taken, L, S
<1> QED
  BY <1>1, <1>2, <1>3, <1>7, <1>9, <1>10, <1>11, <1>12

LEMMA SmallDivMod ==
  ASSUME NEW k \in Nat \ {0}, NEW j \in 0 .. k - 1
  PROVE  (j \div k) = 0 /\ (j % k) = j
OBVIOUS

(* A query joins the output of its months.                                 *)
LEMMA MonthsOfQuery ==
  ASSUME NEW q \in Queries, NEW z, NEW end, end = EndOf(q[1], q[2]),
         NEW n, n = MonthOf(end) - MonthOf(q[1]) + 1
  PROVE  /\ n \in Nat \ {0}
         /\ EmitSensorLog(q[1], q[2], z) =
              FlattenSeq([i \in 1 .. n |->
                EmitFile(FileOf(YearOf(q[1]), MonthOf(q[1]) + (i - 1)), q[1], end, z)])
<1>1. /\ YearOf(end) = YearOf(q[1]) /\ MonthOf(q[1]) \in Nat /\ MonthOf(end) \in Nat
      /\ MonthOf(q[1]) <= MonthOf(end) /\ YearOf(q[1]) \in Nat
  BY TimesOfQuery, Fields
<1>2. n \in Nat \ {0}
  BY <1>1
<1>3. Cardinality(MonthOf(q[1]) .. MonthOf(end)) = n
  BY <1>1, FS_Interval
<1>4. (YearOf(end) - YearOf(q[1]) + 1) * n = n
  <2>1. YearOf(end) - YearOf(q[1]) + 1 = 1
    BY <1>1
  <2> QED
    BY <1>2, <2>1
<1>5. ASSUME NEW i \in 1 .. n
      PROVE  ((i - 1) \div n) = 0 /\ ((i - 1) % n) = i - 1
  <2>1. PICK j \in 0 .. n - 1 : j = i - 1
    BY <1>2
  <2>2. (j \div n) = 0 /\ (j % n) = j
    BY <1>2, <2>1, SmallDivMod
  <2> QED
    BY <2>1, <2>2
<1> DEFINE File(i) == FileOf(YearOf(q[1]) + ((i - 1) \div n), MonthOf(q[1]) + ((i - 1) % n))
           Files == [i \in 1 .. n |-> File(i)]
<1>6. EmitSensorLog(q[1], q[2], z) =
        FlattenSeq([i \in DOMAIN Files |-> EmitFile(Files[i], q[1], end, z)])
  BY <1>3, <1>4 DEF EmitSensorLog
<1>7. ASSUME NEW i \in 1 .. n
      PROVE  File(i) = FileOf(YearOf(q[1]), MonthOf(q[1]) + (i - 1))
  <2>1. YearOf(q[1]) + 0 = YearOf(q[1])
    BY <1>1
  <2> QED
    BY <1>5, <2>1
<1>8. DOMAIN Files = 1 .. n
  OBVIOUS
<1> HIDE DEF File
<1>9. [i \in DOMAIN Files |-> EmitFile(Files[i], q[1], end, z)]
        = [i \in 1 .. n |->
             EmitFile(FileOf(YearOf(q[1]), MonthOf(q[1]) + (i - 1)), q[1], end, z)]
  BY <1>7, <1>8
<1> HIDE DEF Files
<1> QED
  BY <1>2, <1>6, <1>9

(* The records up to a month are those up to the month before it, then     *)
(* those of the month.                                                     *)
LEMMA NextMonth ==
  ASSUME records \in Seq(Records), Ordered(records, ByDay), NEW q \in Queries, NEW m \in Int
  PROVE  Chosen(records, ToMonth(q, m))
           = Chosen(records, ToMonth(q, m - 1)) \o Chosen(records, OfMonth(q, m))
<1>0. PICK A, B : A = ToMonth(q, m - 1) /\ B = OfMonth(q, m)
  OBVIOUS
<1>1. \A r \in Asked(q) : /\ MonthOf(r.at) \in Nat /\ YearOf(r.at) = YearOf(q[1])
                          /\ r \in Records /\ r.at \in Nat
  BY TimesOfQuery, TimesAreNat DEF Asked
<1>2. A \cap B = {} /\ A \cup B = ToMonth(q, m)
  BY <1>0, <1>1 DEF ToMonth, OfMonth
<1>3. ASSUME NEW i \in 1 .. Len(records), NEW j \in 1 .. Len(records), i < j
      PROVE  <<records[i], records[j]>> \in
               NoneBefore(Records, B, A)
  <2>1. <<records[i], records[j]>> \in ByDay
    BY <1>3 DEF Ordered
  <2>2. /\ records[i] \in Records /\ records[j] \in Records
        /\ DayNr(records[i].at) <= DayNr(records[j].at)
    BY <2>1 DEF ByDay
  <2>3. ASSUME records[i] \in B, records[j] \in A
        PROVE  FALSE
    <3>1. /\ records[i] \in Asked(q) /\ records[j] \in Asked(q)
          /\ MonthOf(records[i].at) = m /\ MonthOf(records[j].at) <= m - 1
      BY <1>0, <2>3 DEF ToMonth, OfMonth
    <3>2. /\ YearOf(records[i].at) = YearOf(records[j].at)
          /\ records[i].at \in Nat /\ records[j].at \in Nat
          /\ MonthOf(records[i].at) \in Nat /\ MonthOf(records[j].at) \in Nat
      BY <1>1, <3>1
    <3>3. MonthNr(records[j].at) < MonthNr(records[i].at)
      <4>1. MonthNr(records[i].at) - MonthNr(records[j].at)
              = MonthOf(records[i].at) - MonthOf(records[j].at)
        BY <3>2, MonthOrder
      <4>2. MonthNr(records[i].at) \in Nat /\ MonthNr(records[j].at) \in Nat
        BY <3>2, Fields
      <4> QED
        BY <3>1, <3>2, <4>1, <4>2
    <3>4. DayNr(records[j].at) < DayNr(records[i].at)
      BY <3>2, <3>3, MonthOrder
    <3>5. DayNr(records[j].at) \in Nat /\ DayNr(records[i].at) \in Nat
      BY <3>2, Fields
    <3> QED
      BY <2>2, <3>4, <3>5
  <2> QED
    BY <2>2, <2>3 DEF NoneBefore
<1>4. Ordered(records, NoneBefore(Records, B, A))
  BY <1>3 DEF Ordered
<1>5. Chosen(records, A \cup B) = Chosen(records, A) \o Chosen(records, B)
  <2>1. Apart(A, B)
    BY <1>2 DEF Apart
  <2> QED
    BY <1>4, <2>1, ChosenSplit
<1> QED
  BY <1>0, <1>2, <1>5

LEMMA FirstAndLastMonth ==
  ASSUME records \in Seq(Records), NEW q \in Queries
  PROVE  /\ Chosen(records, ToMonth(q, MonthOf(q[1]) - 1)) = << >>
         /\ Chosen(records, ToMonth(q, MonthOf(EndOf(q[1], q[2])))) = Within(q)
<1>1. ToMonth(q, MonthOf(q[1]) - 1) = {}
  <2> SUFFICES ASSUME NEW r \in Asked(q), MonthOf(r.at) <= MonthOf(q[1]) - 1
               PROVE  FALSE
    BY DEF ToMonth
  <2>1. MonthOf(r.at) \in Nat /\ MonthOf(q[1]) \in Nat /\ MonthOf(q[1]) <= MonthOf(r.at)
    BY TimesOfQuery
  <2> QED
    BY <2>1
<1>2. ToMonth(q, MonthOf(EndOf(q[1], q[2]))) = Asked(q)
  BY TimesOfQuery DEF ToMonth
<1> QED
  BY <1>1, <1>2, ChosenAllNone DEF Within, Asked

(* The lines of the log are records, in any order.                         *)
LogTyped == records \in Seq(Records)

LEMMA LogIsTyped == LogSpec => []LogTyped
<1>1. LogInit => LogTyped
  BY DEF LogInit, LogTyped
<1>2. LogTyped /\ [LogNext]_records => LogTyped'
  <2> SUFFICES ASSUME LogTyped, [LogNext]_records
               PROVE  LogTyped'
    OBVIOUS
  <2>1. CASE UNCHANGED records
    BY <2>1 DEF LogTyped
  <2>2. ASSUME NEW t \in Times, NEW v \in Readings, LogSensorReading(t, v)
        PROVE  LogTyped'
    <3>1. PICK e : e = [at |-> t, reading |-> v]
      OBVIOUS
    <3>2. e \in Records /\ records \in Seq(Records) /\ records' = Append(records, e)
      BY <2>2, <3>1 DEF LogSensorReading, LogTyped, Records
    <3> QED
      BY <3>2, AppendProperties DEF LogTyped
  <2> QED
    BY <2>1, <2>2 DEF LogNext
<1> QED
  BY <1>1, <1>2, PTL DEF LogSpec

-----------------------------------------------------------------------------
(* SensorLog: a query without a summary.                                   *)

Pairs(w) == [i \in DOMAIN w |-> <<w[i].at, ReadBack(w[i].reading)>>]

LEMMA PairsConcat ==
  ASSUME NEW s \in Seq(Records), NEW t \in Seq(Records)
  PROVE  /\ Pairs(s) \in Seq(Nat \X Int)
         /\ Pairs(s \o t) = Pairs(s) \o Pairs(t) /\ Pairs(<< >>) = << >>
<1>1. PICK f : f = [r \in Records |-> <<r.at, ReadBack(r.reading)>>]
  OBVIOUS
<1>2. f \in [Records -> Nat \X Int] /\ \A r \in Records : f[r] = <<r.at, ReadBack(r.reading)>>
  BY <1>1, TimesAreNat
<1>3. ASSUME NEW w \in Seq(Records)
      PROVE  Pairs(w) = Mapped(f, w)
  <2>1. \A i \in DOMAIN w : w[i] \in Records
    OBVIOUS
  <2> QED
    BY <1>2, <2>1 DEF Pairs, Mapped
<1>4. PICK u \in Seq(Records) : u = s \o t
  BY ConcatProperties
<1>5. /\ Mapped(f, s) \in Seq(Nat \X Int)
      /\ Mapped(f, u) = Mapped(f, s) \o Mapped(f, t) /\ Mapped(f, << >>) = << >>
  <2>1. PICK Y : Y = Nat \X Int
    OBVIOUS
  <2>2. IsMap(f, Records, Y)
    BY <1>2, <2>1 DEF IsMap
  <2>3. /\ Mapped(f, s) \in Seq(Y)
        /\ Mapped(f, u) = Mapped(f, s) \o Mapped(f, t) /\ Mapped(f, << >>) = << >>
    <3>1. IsJoin(u, s, t)
      BY <1>4 DEF IsJoin
    <3> QED
      BY <2>2, <3>1, MappedConcat
  <2> QED
    BY <2>1, <2>3
<1>6. << >> \in Seq(Records)
  OBVIOUS
<1> QED
  BY <1>3, <1>4, <1>5, <1>6

LEMMA RawOfQuery ==
  ASSUME records \in Seq(Records), InOrder("day"), NEW q \in Queries
  PROVE  EmitSensorLog(q[1], q[2], "none") = Pairs(Within(q))
<1>1. records \in Seq(Records) /\ Ordered(records, ByDay)
  BY OrdersOfRecords DEF Summaries
<1>2. PICK end : end = EndOf(q[1], q[2])
  OBVIOUS
<1>3. PICK first, n : first = MonthOf(q[1]) /\ n = MonthOf(end) - first + 1
  OBVIOUS
<1>4. n \in Nat \ {0} /\ first \in Nat /\ MonthOf(end) = first + n - 1
  BY <1>2, <1>3, TimesOfQuery
<1> DEFINE out(i) == Pairs(Chosen(records, OfMonth(q, first + (i - 1))))
           joined(i) == Pairs(Chosen(records, ToMonth(q, first + (i - 1))))
<1>5. EmitSensorLog(q[1], q[2], "none") = FlattenSeq([i \in 1 .. n |-> out(i)])
  <2>1. EmitSensorLog(q[1], q[2], "none") =
          FlattenSeq([i \in 1 .. n |->
            EmitFile(FileOf(YearOf(q[1]), first + (i - 1)), q[1], end, "none")])
    BY <1>2, <1>3, MonthsOfQuery
  <2>2. ASSUME NEW i \in 1 .. n
        PROVE  EmitFile(FileOf(YearOf(q[1]), first + (i - 1)), q[1], end, "none") = out(i)
    <3>1. PICK file : file = FileOf(YearOf(q[1]), first + (i - 1))
      OBVIOUS
    <3>2. Taken(file, q[1], end) = Chosen(records, OfMonth(q, first + (i - 1)))
      BY <1>1, <1>2, <3>1, TakenOfMonth
    <3>3. EmitFile(file, q[1], end, "none") = Pairs(Taken(file, q[1], end))
      BY DEF EmitFile, Pairs, Taken
    <3> QED
      BY <3>1, <3>2, <3>3
  <2> HIDE DEF out
  <2> QED
    BY <2>1, <2>2
<1>6. \A i \in 0 .. n : out(i) \in Seq(Nat \X Int) /\ joined(i) \in Seq(Nat \X Int)
  BY <1>1, ChosenType, PairsConcat
<1>7. joined(0) = << >>
  <2>1. first + (0 - 1) = MonthOf(q[1]) - 1
    BY <1>3, <1>4
  <2> QED
    BY <1>1, <2>1, FirstAndLastMonth, PairsConcat
<1>8. ASSUME NEW i \in 1 .. n
      PROVE  joined(i) = joined(i - 1) \o out(i)
  <2>1. PICK m \in Int : m = first + (i - 1)
    BY <1>4
  <2>2. m - 1 = first + ((i - 1) - 1)
    BY <1>4, <2>1
  <2>3. Chosen(records, ToMonth(q, m))
          = Chosen(records, ToMonth(q, m - 1)) \o Chosen(records, OfMonth(q, m))
    BY <1>1, NextMonth
  <2>4. Pairs(Chosen(records, ToMonth(q, m)))
          = Pairs(Chosen(records, ToMonth(q, m - 1))) \o Pairs(Chosen(records, OfMonth(q, m)))
    <3>1. /\ Chosen(records, ToMonth(q, m - 1)) \in Seq(Records)
          /\ Chosen(records, OfMonth(q, m)) \in Seq(Records)
      BY <1>1, ChosenType
    <3> QED
      BY <2>3, <3>1, PairsConcat
  <2> QED
    BY <2>1, <2>2, <2>4
<1>9. joined(n) = Pairs(Within(q))
  <2>1. first + (n - 1) = MonthOf(end)
    BY <1>4
  <2> QED
    BY <1>1, <1>2, <2>1, FirstAndLastMonth
<1> HIDE DEF out, joined
<1>10. PICK p : p = [i \in 1 .. n |-> out(i)]
  OBVIOUS
<1>11. p \in Seq(Seq(Nat \X Int)) /\ Len(p) = n /\ \A i \in 1 .. n : p[i] = out(i)
  <2>1. 1 .. n \subseteq 0 .. n
    BY <1>4
  <2> QED
    BY <1>4, <1>6, <1>10, <2>1
<1>12. PICK F : F = [i \in 0 .. n |-> joined(i)]
  OBVIOUS
<1>13. F \in [0 .. Len(p) -> Seq(Nat \X Int)] /\ Joins(F, p)
  <2>1. F \in [0 .. n -> Seq(Nat \X Int)] /\ \A i \in 0 .. n : F[i] = joined(i)
    BY <1>6, <1>12
  <2>2. 0 \in 0 .. n /\ \A i \in 1 .. n : i \in 0 .. n /\ i - 1 \in 0 .. n
    BY <1>4
  <2>3. F[0] = << >>
    BY <1>7, <2>1, <2>2
  <2>4. ASSUME NEW i \in 1 .. n
        PROVE  F[i] = F[i - 1] \o p[i]
    BY <1>8, <1>11, <2>1, <2>2
  <2> QED
    BY <1>11, <2>1, <2>3, <2>4 DEF Joins
<1>14. FlattenSeq(p) = F[n]
  <2>1. p \in Seq(Seq(Nat \X Int)) /\ Len(p) = n /\ Len(p) > 0
    BY <1>4, <1>11
  <2>2. F \in [0 .. Len(p) -> Seq(Nat \X Int)] /\ Joins(F, p)
    BY <1>13
  <2>3. FlattenSeq(p) = F[Len(p)]
    BY <2>1, <2>2, Flattened
  <2> QED
    BY <2>1, <2>3
<1> QED
  BY <1>4, <1>5, <1>9, <1>10, <1>12, <1>14

(* A query without a summary returns every reading from the first day      *)
(* asked for to the last one, once and in order, as an int holds it, for   *)
(* every calendar and every log in which no reading of an earlier day      *)
(* follows one of a later day (EmitSensorLog).                             *)
THEOREM RawSeriesComplete == LogSpec => []RawIsComplete
<1>1. LogTyped => RawIsComplete
  <2> SUFFICES ASSUME LogTyped, InOrder("day")
               PROVE  \A q \in Queries :
                        EmitSensorLog(q[1], q[2], "none") =
                          LET w == Within(q)
                          IN  [i \in DOMAIN w |-> <<w[i].at, ReadBack(w[i].reading)>>]
    BY DEF RawIsComplete
  <2> QED
    BY RawOfQuery DEF Pairs, LogTyped
<1> QED
  BY <1>1, LogIsTyped, PTL

-----------------------------------------------------------------------------
(* SensorLog: a query with a summary.                                      *)

(* The stamps that a later one of the same month follows.                  *)
Followed(x, w, z) ==
  \E r, t \in Elems(w) : /\ StampOf(r.at, z) = x /\ x < StampOf(t.at, z)
                         /\ MonthNr(r.at) = MonthNr(t.at)

(* out is the summary of the records w, with the averages of the query q.  *)
IsSummary(q, z, w, out) ==
  /\ out \in Seq(Nat \X Int)
  /\ Ordered(out, Rising)
  /\ \A p \in Elems(out) : Followed(p[1], w, z) /\ p[2] = AverageOf(p[1], Within(q), z)
  /\ \A x : Followed(x, w, z) => \E p \in Elems(out) : p[1] = x

(* The average of a stamp can be taken over the records of its month.      *)
LEMMA AverageOfMonth ==
  ASSUME records \in Seq(Records), NEW q \in Queries, NEW z \in Summaries, NEW m,
         NEW r \in OfMonth(q, m), NEW x, x = StampOf(r.at, z)
  PROVE  AverageOf(x, Chosen(records, OfMonth(q, m)), z) = AverageOf(x, Within(q), z)
<1> DEFINE S == {t \in Records : StampOf(t.at, z) = x}
<1>1. OfMonth(q, m) \cap S = Asked(q) \cap S
  <2> SUFFICES ASSUME NEW t \in Asked(q), t \in S
               PROVE  MonthOf(t.at) = m
    BY DEF OfMonth
  <2>1. t \in Records /\ r \in Records /\ r \in Asked(q) /\ MonthOf(r.at) = m
    BY DEF OfMonth, Asked
  <2>2. t.at \in Nat /\ r.at \in Nat
    BY <2>1, TimesAreNat
  <2>3. MonthNr(t.at) = MonthNr(x) /\ MonthNr(r.at) = MonthNr(x)
    <3>1. StampOf(t.at, z) = x
      OBVIOUS
    <3> QED
      BY <2>2, <3>1, Stamps
  <2>4. MonthOf(t.at) = MonthOf(r.at)
    BY <2>2, <2>3, MonthOrder
  <2> QED
    BY <2>1, <2>4
<1> HIDE DEF S
<1>2. Chosen(Chosen(records, OfMonth(q, m)), S) = Chosen(Within(q), S)
  <2>1. /\ Chosen(Chosen(records, OfMonth(q, m)), S) = Chosen(records, OfMonth(q, m) \cap S)
        /\ Chosen(Chosen(records, Asked(q)), S) = Chosen(records, Asked(q) \cap S)
    BY ChosenTwice
  <2>2. Within(q) = Chosen(records, Asked(q))
    BY DEF Within, Asked
  <2> QED
    BY <1>1, <2>1, <2>2
<1> QED
  BY <1>2 DEF AverageOf, S

(* The output of the file of a month is the summary of its records.        *)
LEMMA SummaryOfMonth ==
  ASSUME records \in Seq(Records), NEW q \in Queries, NEW z \in Summaries, InOrder(z),
         NEW m, NEW w, w = Chosen(records, OfMonth(q, m))
  PROVE  IsSummary(q, z, w, SummedUp(w, z).out)
<1>1. records \in Seq(Records) /\ Ordered(records, ByStamp(z))
  BY OrdersOfRecords
<1>2. w \in Seq(Records) /\ Ordered(w, ByStamp(z))
  BY <1>1, ChosenType, ChosenOrdered
<1>3. PICK acc : acc = SummedUp(w, z)
  OBVIOUS
<1>4. acc \in SumType /\ SumInv(w, acc, z)
  BY <1>2, <1>3, SummedIsRight
<1>5. /\ acc.stamp \in Nat /\ acc.n \in Nat /\ acc.out \in Seq(Nat \X Int)
      /\ Elems(acc.out) \subseteq Nat \X Int
  BY <1>4 DEF SumType, Elems
<1>6. \A r \in Elems(w) : /\ r \in OfMonth(q, m) /\ r \in Asked(q) /\ r \in Records
                          /\ r.at \in Nat /\ StampOf(r.at, z) \in Nat
                          /\ YearOf(r.at) = YearOf(q[1]) /\ MonthOf(r.at) = m
  <2>1. Elems(w) = Elems(records) \cap OfMonth(q, m)
    BY <1>1, ChosenRange
  <2>2. \A r \in OfMonth(q, m) : /\ r \in Asked(q) /\ r \in Records /\ MonthOf(r.at) = m
                                 /\ YearOf(r.at) = YearOf(q[1])
    BY TimesOfQuery DEF OfMonth, Asked
  <2> QED
    BY <2>1, <2>2, TimesAreNat, Stamps
<1>7. \A r, t \in Elems(w) : MonthNr(r.at) = MonthNr(t.at)
  BY <1>6 DEF MonthNr
<1>8. ASSUME NEW p \in Elems(acc.out)
      PROVE  Followed(p[1], w, z) /\ p[2] = AverageOf(p[1], Within(q), z)
  <2>1. /\ p[1] < acc.stamp /\ p[2] = AverageOf(p[1], w, z)
        /\ \E r \in Elems(w) : p[1] = StampOf(r.at, z)
    BY <1>4 DEF SumInv
  <2>2. PICK r \in Elems(w) : p[1] = StampOf(r.at, z)
    BY <2>1
  <2>3. acc.n # 0
    <3>1. acc.n = 0 => acc.out = << >>
      BY <1>4 DEF SumInv
    <3> QED
      BY <3>1 DEF Elems
  <2>4. PICK t \in Elems(w) : StampOf(t.at, z) = acc.stamp
    BY <1>4, <2>3 DEF SumInv
  <2>5. Followed(p[1], w, z)
    BY <1>7, <2>1, <2>2, <2>4 DEF Followed
  <2>6. AverageOf(p[1], w, z) = AverageOf(p[1], Within(q), z)
    <3>1. r \in OfMonth(q, m)
      BY <1>6
    <3> QED
      BY <1>1, <2>2, <3>1, AverageOfMonth
  <2> QED
    BY <2>1, <2>5, <2>6
<1>9. ASSUME NEW x, Followed(x, w, z)
      PROVE  \E p \in Elems(acc.out) : p[1] = x
  <2>1. PICK r \in Elems(w), t \in Elems(w) : StampOf(r.at, z) = x /\ x < StampOf(t.at, z)
    BY <1>9 DEF Followed
  <2>2. acc.n # 0
    <3>1. acc.n = 0 => w = << >>
      BY <1>4 DEF SumInv
    <3> QED
      BY <3>1 DEF Elems
  <2>3. \A s \in Elems(w) : \/ StampOf(s.at, z) = acc.stamp
                            \/ \E p \in Elems(acc.out) : p[1] = StampOf(s.at, z)
    BY <1>4, <2>2 DEF SumInv
  <2>4. \A p \in Elems(acc.out) : p[1] < acc.stamp /\ p[1] \in Nat
    BY <1>4, <1>5 DEF SumInv
  <2>5. StampOf(t.at, z) <= acc.stamp
    <3>1. StampOf(t.at, z) = acc.stamp \/ \E p \in Elems(acc.out) : p[1] = StampOf(t.at, z)
      BY <2>3
    <3> QED
      BY <1>5, <1>6, <2>4, <3>1
  <2>6. x # acc.stamp
    BY <1>5, <1>6, <2>1, <2>5
  <2> QED
    BY <2>1, <2>3, <2>6
<1> QED
  BY <1>3, <1>4, <1>5, <1>8, <1>9 DEF IsSummary, SumInv

(* The summary of one month, then that of later ones.                      *)
LEMMA SummaryConcat ==
  ASSUME NEW q, NEW z \in Summaries, NEW s \in Seq(Records), NEW t \in Seq(Records),
         NEW a, NEW b, IsSummary(q, z, s, a), IsSummary(q, z, t, b),
         \A r \in Elems(s), e \in Elems(t) : MonthNr(r.at) < MonthNr(e.at)
  PROVE  IsSummary(q, z, s \o t, a \o b)
<1>1. /\ a \in Seq(Nat \X Int) /\ b \in Seq(Nat \X Int)
      /\ Ordered(a, Rising) /\ Ordered(b, Rising)
  BY DEF IsSummary
<1>2. /\ Elems(a \o b) = Elems(a) \cup Elems(b) /\ Elems(s \o t) = Elems(s) \cup Elems(t)
      /\ a \o b \in Seq(Nat \X Int)
  <2>1. Elems(a \o b) = Elems(a) \cup Elems(b)
    BY <1>1, ElemsConcat
  <2>2. Elems(s \o t) = Elems(s) \cup Elems(t)
    BY ElemsConcat
  <2>3. a \o b \in Seq(Nat \X Int)
    BY <1>1, ConcatProperties
  <2> QED
    BY <2>1, <2>2, <2>3
<1>3. \A r \in Elems(s) \cup Elems(t) : /\ r \in Records /\ r.at \in Nat /\ MonthNr(r.at) \in Nat
                                        /\ StampOf(r.at, z) \in Nat
                                        /\ MonthNr(StampOf(r.at, z)) = MonthNr(r.at)
  <2>1. Elems(s) \subseteq Records /\ Elems(t) \subseteq Records
    BY DEF Elems
  <2> QED
    BY <2>1, TimesAreNat, Stamps, Fields
<1>4. \A x : Followed(x, s \o t, z) <=> Followed(x, s, z) \/ Followed(x, t, z)
  <2>1. ASSUME NEW x, Followed(x, s \o t, z)
        PROVE  Followed(x, s, z) \/ Followed(x, t, z)
    <3>1. PICK r \in Elems(s) \cup Elems(t), e \in Elems(s) \cup Elems(t) :
            /\ StampOf(r.at, z) = x /\ x < StampOf(e.at, z)
            /\ MonthNr(r.at) = MonthNr(e.at)
      BY <1>2, <2>1 DEF Followed
    <3>2. ~(r \in Elems(s) /\ e \in Elems(t)) /\ ~(r \in Elems(t) /\ e \in Elems(s))
      <4>1. \A c \in Elems(s), d \in Elems(t) : MonthNr(c.at) < MonthNr(d.at)
        OBVIOUS
      <4>2. MonthNr(r.at) \in Nat /\ MonthNr(e.at) \in Nat
        BY <1>3
      <4> QED
        BY <3>1, <4>1, <4>2
    <3> QED
      BY <3>1, <3>2 DEF Followed
  <2>2. ASSUME NEW x, Followed(x, s, z) \/ Followed(x, t, z)
        PROVE  Followed(x, s \o t, z)
    BY <1>2, <2>2 DEF Followed
  <2> QED
    BY <2>1, <2>2
<1>5. Ordered(a \o b, Rising)
  <2>1. ASSUME NEW p \in Elems(a), NEW o \in Elems(b)
        PROVE  <<p, o>> \in Rising
    <3>1. p \in Nat \X Int /\ o \in Nat \X Int
      BY <1>1 DEF Elems
    <3>2. PICK r \in Elems(s) : StampOf(r.at, z) = p[1]
      BY DEF IsSummary, Followed
    <3>3. PICK e \in Elems(t) : StampOf(e.at, z) = o[1]
      BY DEF IsSummary, Followed
    <3>4. PICK x \in Nat, y \in Nat : x = p[1] /\ y = o[1]
      BY <3>1
    <3>5. MonthNr(x) < MonthNr(y)
      <4>1. MonthNr(r.at) < MonthNr(e.at)
        OBVIOUS
      <4>2. MonthNr(x) = MonthNr(r.at) /\ MonthNr(y) = MonthNr(e.at)
        BY <1>3, <3>2, <3>3, <3>4
      <4> QED
        BY <4>1, <4>2
    <3>6. x < y
      BY <3>5, MonthOrder, DayOrder
    <3> QED
      BY <3>1, <3>4, <3>6 DEF Rising
  <2> QED
    BY <1>1, <2>1, OrderedConcat
<1>6. /\ \A p \in Elems(a) : Followed(p[1], s, z) /\ p[2] = AverageOf(p[1], Within(q), z)
      /\ \A p \in Elems(b) : Followed(p[1], t, z) /\ p[2] = AverageOf(p[1], Within(q), z)
      /\ \A x : Followed(x, s, z) => \E p \in Elems(a) : p[1] = x
      /\ \A x : Followed(x, t, z) => \E p \in Elems(b) : p[1] = x
  BY DEF IsSummary
<1>7. \A p \in Elems(a \o b) : Followed(p[1], s \o t, z) /\ p[2] = AverageOf(p[1], Within(q), z)
  BY <1>2, <1>4, <1>6
<1>8. \A x : Followed(x, s \o t, z) => \E p \in Elems(a \o b) : p[1] = x
  BY <1>2, <1>4, <1>6
<1> QED
  BY <1>2, <1>5, <1>7, <1>8 DEF IsSummary

(* What a query returns is the summary of the records it is about.         *)
LEMMA SummaryOfQuery ==
  ASSUME records \in Seq(Records), NEW q \in Queries, NEW z \in Summaries,
         InOrder("day"), InOrder(z)
  PROVE  IsSummary(q, z, Within(q), EmitSensorLog(q[1], q[2], z))
<1>1. records \in Seq(Records) /\ Ordered(records, ByDay)
  BY OrdersOfRecords
<1>2. PICK end : end = EndOf(q[1], q[2])
  OBVIOUS
<1>3. PICK first, n : first = MonthOf(q[1]) /\ n = MonthOf(end) - first + 1
  OBVIOUS
<1>4. n \in Nat \ {0} /\ first \in Nat /\ MonthOf(end) = first + n - 1
  BY <1>2, <1>3, TimesOfQuery
<1> DEFINE month(i) == Chosen(records, OfMonth(q, first + (i - 1)))
           upto(i)  == Chosen(records, ToMonth(q, first + (i - 1)))
           out(i)   == SummedUp(month(i), z).out
<1>5. EmitSensorLog(q[1], q[2], z) = FlattenSeq([i \in 1 .. n |-> out(i)])
  <2>1. EmitSensorLog(q[1], q[2], z) =
          FlattenSeq([i \in 1 .. n |->
            EmitFile(FileOf(YearOf(q[1]), first + (i - 1)), q[1], end, z)])
    BY <1>2, <1>3, MonthsOfQuery
  <2>2. ASSUME NEW i \in 1 .. n
        PROVE  EmitFile(FileOf(YearOf(q[1]), first + (i - 1)), q[1], end, z) = out(i)
    <3>1. PICK file : file = FileOf(YearOf(q[1]), first + (i - 1))
      OBVIOUS
    <3>2. PICK taken : taken = Taken(file, q[1], end)
      OBVIOUS
    <3>3. taken = month(i)
      BY <1>1, <1>2, <3>1, <3>2, TakenOfMonth
    <3>4. z # "none"
      BY DEF Summaries
    <3>5. EmitFile(file, q[1], end, z) = SummedUp(taken, z).out
      BY <3>2, <3>4 DEF EmitFile, SummedUp, Sum0, Taken
    <3> HIDE DEF month
    <3> QED
      BY <3>1, <3>3, <3>5
  <2> HIDE DEF out
  <2> QED
    BY <2>1, <2>2
<1>6. \A i \in 0 .. n : /\ month(i) \in Seq(Records) /\ upto(i) \in Seq(Records)
                        /\ IsSummary(q, z, month(i), out(i))
  BY <1>1, ChosenType, SummaryOfMonth
<1>7. upto(0) = << >>
  <2>1. first + (0 - 1) = MonthOf(q[1]) - 1
    BY <1>3, <1>4
  <2> QED
    BY <1>1, <2>1, FirstAndLastMonth
<1>8. ASSUME NEW i \in 1 .. n
      PROVE  /\ upto(i) = upto(i - 1) \o month(i)
             /\ \A r \in Elems(upto(i - 1)), e \in Elems(month(i)) : MonthNr(r.at) < MonthNr(e.at)
  <2>1. PICK m \in Int : m = first + (i - 1)
    BY <1>4
  <2>2. m - 1 = first + ((i - 1) - 1)
    BY <1>4, <2>1
  <2>3. Chosen(records, ToMonth(q, m))
          = Chosen(records, ToMonth(q, m - 1)) \o Chosen(records, OfMonth(q, m))
    BY <1>1, NextMonth
  <2>4. upto(i) = upto(i - 1) \o month(i)
    BY <2>1, <2>2, <2>3
  <2>5. ASSUME NEW r \in Elems(upto(i - 1)), NEW e \in Elems(month(i))
        PROVE  MonthNr(r.at) < MonthNr(e.at)
    <3>1. Elems(upto(i - 1)) \subseteq ToMonth(q, m - 1) /\ Elems(month(i)) \subseteq OfMonth(q, m)
      BY <1>1, <2>1, <2>2, ChosenRange
    <3>2. /\ r \in Asked(q) /\ e \in Asked(q) /\ MonthOf(r.at) <= m - 1 /\ MonthOf(e.at) = m
      BY <3>1 DEF ToMonth, OfMonth
    <3>3. r.at \in Nat /\ e.at \in Nat /\ YearOf(r.at) = YearOf(e.at) /\ MonthOf(r.at) \in Nat
      BY <3>2, TimesOfQuery, TimesAreNat DEF Asked
    <3>4. MonthNr(r.at) - MonthNr(e.at) = MonthOf(r.at) - MonthOf(e.at)
      BY <3>3, MonthOrder
    <3>5. MonthNr(r.at) \in Nat /\ MonthNr(e.at) \in Nat
      BY <3>3, Fields
    <3> QED
      BY <3>2, <3>3, <3>4, <3>5
  <2> HIDE DEF month, upto
  <2> QED
    BY <2>4, <2>5
<1>9. upto(n) = Within(q)
  <2>1. first + (n - 1) = MonthOf(end)
    BY <1>4
  <2> QED
    BY <1>1, <1>2, <2>1, FirstAndLastMonth
<1> HIDE DEF month, upto, out
<1>10. PICK p : p = [i \in 1 .. n |-> out(i)]
  OBVIOUS
<1>11. p \in Seq(Seq(Nat \X Int)) /\ Len(p) = n /\ \A i \in 1 .. n : p[i] = out(i)
  <2>1. \A i \in 1 .. n : i \in 0 .. n /\ out(i) \in Seq(Nat \X Int)
    BY <1>4, <1>6 DEF IsSummary
  <2> QED
    BY <1>4, <1>10, <2>1
<1>12. PICK F \in [0 .. Len(p) -> Seq(Nat \X Int)] : Joins(F, p)
  BY <1>11, JoinsExist
<1> DEFINE Good == {i \in 0 .. n : IsSummary(q, z, upto(i), F[i])}
<1>13. 0 \in Good
  <2>1. F[0] = << >> /\ 0 \in 0 .. n
    BY <1>4, <1>12 DEF Joins
  <2>2. Elems(<< >>) = {} /\ Ordered(<< >>, Rising)
    BY DEF Elems, Ordered
  <2>3. << >> \in Seq(Nat \X Int)
    OBVIOUS
  <2>4. IsSummary(q, z, << >>, << >>)
    BY <2>2, <2>3 DEF IsSummary, Followed
  <2> QED
    BY <1>7, <2>1, <2>4
<1>14. ASSUME NEW i \in 1 .. n, i - 1 \in Good
       PROVE  i \in Good
  <2>1. i - 1 \in 0 .. n /\ i \in 0 .. n
    BY <1>4
  <2>2. F[i] = F[i - 1] \o out(i)
    BY <1>11, <1>12 DEF Joins
  <2>3. PICK s \in Seq(Records), t \in Seq(Records) : s = upto(i - 1) /\ t = month(i)
    BY <1>6, <2>1
  <2>4. PICK a, b : a = F[i - 1] /\ b = out(i)
    OBVIOUS
  <2>5. IsSummary(q, z, s, a) /\ IsSummary(q, z, t, b)
    BY <1>6, <1>14, <2>1, <2>3, <2>4
  <2>6. \A r \in Elems(s), e \in Elems(t) : MonthNr(r.at) < MonthNr(e.at)
    BY <1>8, <2>3
  <2>7. IsSummary(q, z, s \o t, a \o b)
    BY <2>5, <2>6, SummaryConcat
  <2>8. upto(i) = s \o t /\ F[i] = a \o b
    BY <1>8, <2>2, <2>3, <2>4
  <2> QED
    BY <2>1, <2>7, <2>8
<1>15. n \in Good
  <2> HIDE DEF Good
  <2>1. n \in Nat /\ n \in 0 .. n
    BY <1>4
  <2>2. \A i \in 1 .. n : i - 1 \in Good => i \in Good
    BY <1>14
  <2> QED
    BY <1>13, <2>1, <2>2, NatInductionTo
<1>16. FlattenSeq(p) = F[n]
  <2>1. p \in Seq(Seq(Nat \X Int)) /\ Len(p) = n /\ Len(p) > 0
    BY <1>4, <1>11
  <2>2. FlattenSeq(p) = F[Len(p)]
    BY <1>12, <2>1, Flattened
  <2> QED
    BY <2>1, <2>2
<1> QED
  BY <1>5, <1>9, <1>10, <1>15, <1>16

(* A stamp is of the month of its record; StampOf tells the months apart.  *)
LEMMA SameMonthStamp ==
  ASSUME NEW s \in Nat, NEW t \in Nat
  PROVE  StampOf(s, "month") = StampOf(t, "month") <=> MonthNr(s) = MonthNr(t)
<1>1. PICK k \in Nat \ {0} : k = HOURS * DAYS
  BY CalendarAssumption
<1>2. PICK a \in Nat, b \in Nat : a = MonthNr(s) /\ b = MonthNr(t)
  BY Fields
<1>3. StampOf(s, "month") = a * k /\ StampOf(t, "month") = b * k
  <2>1. "month" \in Summaries
    BY DEF Summaries
  <2> QED
    BY <1>1, <1>2, <2>1, Stamps
<1>4. a * k = b * k <=> a = b
  <2>1. a < b => a * k + 0 < b * k + 0
    BY <1>1, DigitsOrder
  <2>2. b < a => b * k + 0 < a * k + 0
    BY <1>1, DigitsOrder
  <2>3. a * k \in Nat /\ b * k \in Nat
    BY <1>1
  <2> QED
    BY <2>1, <2>2, <2>3
<1> QED
  BY <1>2, <1>3, <1>4

(* A summary returns the average of every hour, day or month that a later  *)
(* one of its month follows, once and in order, and no other, for every    *)
(* calendar and every log in which no reading of an earlier day, or hour   *)
(* where hours are summed up, follows one of a later one (EmitSensorLog).  *)
THEOREM SummariesComplete == LogSpec => []SummaryLacksTheLast
<1>1. LogTyped => SummaryLacksTheLast
  <2> SUFFICES ASSUME LogTyped, NEW q \in Queries, NEW z \in {"hour", "day", "month"},
                      InOrder("day"), InOrder(z)
               PROVE  LET w      == Within(q)
                          stamps == {StampOf(w[i].at, z) : i \in DOMAIN w}
                          closed == {s \in stamps : \E t \in stamps :
                                       s < t /\ StampOf(s, "month") = StampOf(t, "month")}
                          out    == EmitSensorLog(q[1], q[2], z)
                      IN  /\ {out[i][1] : i \in DOMAIN out} = closed
                          /\ \A i, j \in DOMAIN out : i < j => out[i][1] < out[j][1]
                          /\ \A i \in DOMAIN out : out[i][2] = AverageOf(out[i][1], w, z)
    BY DEF SummaryLacksTheLast
  <2>1. PICK w, out : w = Within(q) /\ out = EmitSensorLog(q[1], q[2], z)
    OBVIOUS
  <2>2. z \in Summaries /\ IsSummary(q, z, w, out)
    BY <2>1, SummaryOfQuery DEF Summaries, LogTyped
  <2>3. w \in Seq(Records) /\ out \in Seq(Nat \X Int) /\ Ordered(out, Rising)
    BY <2>1, <2>2, ChosenType DEF LogTyped, Within, IsSummary
  <2>4. DOMAIN w = 1 .. Len(w) /\ DOMAIN out = 1 .. Len(out)
    BY <2>3
  <2> DEFINE stamps == {StampOf(w[i].at, z) : i \in DOMAIN w}
             closed == {s \in stamps : \E t \in stamps :
                          s < t /\ StampOf(s, "month") = StampOf(t, "month")}
  <2>5. \A r \in Elems(w) : /\ StampOf(r.at, z) \in Nat
                            /\ MonthNr(StampOf(r.at, z)) = MonthNr(r.at)
    <3>1. Elems(w) \subseteq Records
      BY <2>3 DEF Elems
    <3> QED
      BY <2>2, <3>1, TimesAreNat, Stamps
  <2>6. \A x : x \in stamps <=> \E r \in Elems(w) : x = StampOf(r.at, z)
    BY <2>4 DEF Elems
  <2> HIDE DEF stamps
  <2>7. \A x : x \in closed <=> Followed(x, w, z)
    <3>1. ASSUME NEW x, x \in closed
          PROVE  Followed(x, w, z)
      <4>1. PICK r \in Elems(w), e \in Elems(w) :
              /\ x = StampOf(r.at, z) /\ x < StampOf(e.at, z)
              /\ StampOf(x, "month") = StampOf(StampOf(e.at, z), "month")
        BY <2>6, <3>1
      <4>2. MonthNr(r.at) = MonthNr(e.at)
        BY <2>5, <4>1, SameMonthStamp
      <4> QED
        BY <4>1, <4>2 DEF Followed
    <3>2. ASSUME NEW x, Followed(x, w, z)
          PROVE  x \in closed
      <4>1. PICK r \in Elems(w), e \in Elems(w) :
              /\ StampOf(r.at, z) = x /\ x < StampOf(e.at, z)
              /\ MonthNr(r.at) = MonthNr(e.at)
        BY <3>2 DEF Followed
      <4>2. PICK t : t = StampOf(e.at, z)
        OBVIOUS
      <4>3. StampOf(x, "month") = StampOf(t, "month")
        BY <2>5, <4>1, <4>2, SameMonthStamp
      <4>4. x \in stamps /\ t \in stamps
        BY <2>6, <4>1, <4>2
      <4> QED
        BY <4>1, <4>2, <4>3, <4>4
    <3> QED
      BY <3>1, <3>2
  <2> HIDE DEF closed
  <2>8. {out[i][1] : i \in DOMAIN out} = closed
    <3>1. \A x : Followed(x, w, z) <=> \E p \in Elems(out) : p[1] = x
      BY <2>2 DEF IsSummary
    <3>2. \A x : (\E p \in Elems(out) : p[1] = x) <=> x \in {out[i][1] : i \in DOMAIN out}
      BY <2>4 DEF Elems
    <3> QED
      BY <2>7, <3>1, <3>2
  <2>9. \A i, j \in DOMAIN out : i < j => out[i][1] < out[j][1]
    BY <2>3, <2>4 DEF Ordered, Rising
  <2>10. \A i \in DOMAIN out : out[i][2] = AverageOf(out[i][1], w, z)
    <3>1. \A p \in Elems(out) : p[2] = AverageOf(p[1], w, z)
      BY <2>1, <2>2 DEF IsSummary
    <3> QED
      BY <2>4, <3>1 DEF Elems
  <2> QED
    BY <2>1, <2>8, <2>9, <2>10 DEF stamps, closed
<1> QED
  BY <1>1, LogIsTyped, PTL

(* The web client gets the series of readings, and their averages, that it *)
(* may count on.                                                           *)
THEOREM SeriesComplete == LogSpec => []SeriesAreComplete
<1>1. RawIsComplete /\ SummaryLacksTheLast => SeriesAreComplete
  BY DEF SeriesAreComplete
<1> QED
  BY <1>1, RawSeriesComplete, SummariesComplete, PTL

-----------------------------------------------------------------------------
(* WateringLog: the lines of both logs, in any order.                      *)

WaterLogTyped == zoneLines \in Seq(Lines) /\ schedLines \in Seq(Lines)

LEMMA LineTimes == \A l \in Lines : l.at \in Nat /\ l.start \in Nat /\ l.duration \in Nat
BY TimesAreNat, RunsAssumption DEF Lines, RunsAssumption

LEMMA WaterLogIsTyped == WaterLogSpec => []WaterLogTyped
<1>1. WaterLogInit => WaterLogTyped
  BY DEF WaterLogInit, WaterLogTyped
<1>2. WaterLogTyped /\ [WaterLogNext]_waterLogVars => WaterLogTyped'
  <2> SUFFICES ASSUME WaterLogTyped, [WaterLogNext]_waterLogVars
               PROVE  zoneLines' \in Seq(Lines) /\ schedLines' \in Seq(Lines)
    BY DEF WaterLogTyped, Lines, Times
  <2>1. zoneLines \in Seq(Lines) /\ schedLines \in Seq(Lines)
    BY DEF WaterLogTyped
  <2>2. CASE UNCHANGED waterLogVars
    BY <2>1, <2>2 DEF waterLogVars
  <2>3. CASE LogZoneEvent
    BY <2>1, <2>3, AppendProperties DEF LogZoneEvent
  <2>4. CASE LogSchedEvent
    BY <2>1, <2>4, AppendProperties DEF LogSchedEvent
  <2> QED
    BY <2>2, <2>3, <2>4 DEF WaterLogNext
<1> QED
  BY <1>1, <1>2, PTL DEF WaterLogSpec

(* The order of the lines by the days that they give as their start.       *)
StartOrder == {p \in Lines \X Lines : DayNr(p[1].start) <= DayNr(p[2].start)}

LEMMA OrderOfLines ==
  ASSUME NEW log \in Seq(Lines), StartsInOrder(log)
  PROVE  Ordered(log, StartOrder)
<1> SUFFICES ASSUME NEW i \in 1 .. Len(log), NEW j \in 1 .. Len(log), i < j
             PROVE  <<log[i], log[j]>> \in StartOrder
  BY DEF Ordered
<1>1. log[i] \in Lines /\ log[j] \in Lines /\ log[i].start \in Nat /\ log[j].start \in Nat
  BY LineTimes
<1>2. Midnight(log[i].start) <= Midnight(log[j].start)
  BY DEF StartsInOrder
<1> QED
  BY <1>1, <1>2, MidnightOrder DEF StartOrder

-----------------------------------------------------------------------------
(* WateringLog: the days of a query.                                       *)

LEMMA DaysOfTable ==
  ASSUME NEW q \in LogQueries, NEW end, end = EndOf(q[1], q[2]),
         NEW month, month = EndMonth(q[1], end), NEW day, day = EndDay(q[1], end)
  PROVE  /\ q[1] \in Nat /\ q[2] \in Nat /\ end \in Nat
         /\ month \in Nat /\ day \in Nat /\ MonthOf(q[1]) \in Nat /\ MonthOf(q[1]) <= month
         /\ \A t \in Nat : YearOf(t) = YearOf(q[1]) =>
              /\ q[1] <= t <=> \/ MonthOf(t) > MonthOf(q[1])
                               \/ MonthOf(t) = MonthOf(q[1]) /\ DayOf(t) >= DayOf(q[1])
              /\ t < q[2] + HOURS <=> \/ MonthOf(t) < month
                                      \/ MonthOf(t) = month /\ DayOf(t) <= day
<1>1. /\ q[1] \in Nat /\ q[2] \in Nat /\ HourOf(q[1]) = 0 /\ HourOf(q[2]) = 0 /\ q[1] <= q[2]
  BY TimesAreNat DEF LogQueries
<1>2. /\ end \in Nat /\ YearOf(end) = YearOf(q[2])
      /\ MonthOf(end) = MonthOf(q[2]) /\ DayOf(end) = DayOf(q[2])
  BY <1>1, EndOfQuery
<1>3. /\ MonthOf(q[1]) \in 0 .. MONTHS - 1 /\ MonthOf(end) \in 0 .. MONTHS - 1
      /\ DayOf(end) \in 0 .. DAYS - 1 /\ YearOf(end) \in Nat /\ YearOf(q[1]) \in Nat
      /\ YearOf(q[1]) <= YearOf(end) /\ MONTHS \in Nat \ {0} /\ DAYS \in Nat \ {0}
  <2>1. YearOf(q[1]) <= YearOf(end)
    <3>1. YearOf(q[1]) <= YearOf(q[2])
      BY <1>1, InQuery
    <3> QED
      BY <1>2, <3>1
  <2>2. MONTHS \in Nat \ {0} /\ DAYS \in Nat \ {0}
    BY CalendarAssumption
  <2>3. /\ MonthOf(q[1]) \in 0 .. MONTHS - 1 /\ MonthOf(end) \in 0 .. MONTHS - 1
        /\ DayOf(end) \in 0 .. DAYS - 1 /\ YearOf(end) \in Nat /\ YearOf(q[1]) \in Nat
    BY <1>1, <1>2, Fields
  <2> QED
    BY <2>1, <2>2, <2>3
<1>4. CASE YearOf(end) # YearOf(q[1])
  <2>1. month = MONTHS - 1 /\ day = DAYS - 1
    BY <1>4 DEF EndMonth, EndDay
  <2>2. month \in Nat /\ day \in Nat /\ MonthOf(q[1]) \in Nat /\ MonthOf(q[1]) <= month
    BY <1>3, <2>1
  <2>3. ASSUME NEW t \in Nat, YearOf(t) = YearOf(q[1])
        PROVE  /\ t < q[2] + HOURS
               /\ MonthOf(t) < month \/ (MonthOf(t) = month /\ DayOf(t) <= day)
    <3>1. t < q[2] + HOURS
      BY <1>1, <1>2, <1>4, <2>3, InQuery
    <3>2. MonthOf(t) \in 0 .. MONTHS - 1 /\ DayOf(t) \in 0 .. DAYS - 1
      BY Fields
    <3> QED
      BY <1>3, <2>1, <3>1, <3>2
  <2>4. \A t \in Nat : YearOf(t) = YearOf(q[1]) =>
          (q[1] <= t <=> \/ MonthOf(t) > MonthOf(q[1])
                         \/ MonthOf(t) = MonthOf(q[1]) /\ DayOf(t) >= DayOf(q[1]))
    BY <1>1, <1>2, InQuery
  <2> QED
    BY <1>1, <1>2, <2>2, <2>3, <2>4
<1>5. CASE YearOf(end) = YearOf(q[1])
  <2>1. month = MonthOf(end) /\ day = DayOf(end)
    BY <1>5 DEF EndMonth, EndDay
  <2>a. YearOf(q[2]) = YearOf(q[1])
    BY <1>2, <1>5
  <2>2. MonthOf(q[1]) <= MonthOf(end)
    <3>1. PICK t \in Nat : t = q[2]
      BY <1>1
    <3>2. YearOf(t) = YearOf(q[1]) /\ q[1] <= t
      BY <1>1, <2>a, <3>1
    <3>3. MonthOf(t) > MonthOf(q[1]) \/ MonthOf(t) = MonthOf(q[1])
      BY <1>1, <3>2, InQuery
    <3>4. MonthOf(t) = MonthOf(end) /\ MonthOf(t) \in Nat /\ MonthOf(q[1]) \in Nat
      BY <1>1, <1>2, <3>1, FieldsAreNat
    <3> QED
      BY <3>3, <3>4
  <2>3. month \in Nat /\ day \in Nat /\ MonthOf(q[1]) \in Nat /\ MonthOf(q[1]) <= month
    BY <1>3, <2>1, <2>2
  <2>4. \A t \in Nat : YearOf(t) = YearOf(q[1]) =>
          /\ q[1] <= t <=> \/ MonthOf(t) > MonthOf(q[1])
                           \/ MonthOf(t) = MonthOf(q[1]) /\ DayOf(t) >= DayOf(q[1])
          /\ t < q[2] + HOURS <=> \/ MonthOf(t) < month
                                  \/ MonthOf(t) = month /\ DayOf(t) <= day
    <3> SUFFICES ASSUME NEW t \in Nat, YearOf(t) = YearOf(q[1])
                 PROVE  /\ q[1] <= t <=> \/ MonthOf(t) > MonthOf(q[1])
                                         \/ MonthOf(t) = MonthOf(q[1]) /\ DayOf(t) >= DayOf(q[1])
                        /\ t < q[2] + HOURS <=> \/ MonthOf(t) < month
                                                \/ MonthOf(t) = month /\ DayOf(t) <= day
      OBVIOUS
    <3>1. q[1] <= t <=> \/ MonthOf(t) > MonthOf(q[1])
                        \/ MonthOf(t) = MonthOf(q[1]) /\ DayOf(t) >= DayOf(q[1])
      BY <1>1, InQuery
    <3>2. t < q[2] + HOURS <=> \/ MonthOf(t) < MonthOf(q[2])
                               \/ MonthOf(t) = MonthOf(q[2]) /\ DayOf(t) <= DayOf(q[2])
      BY <1>1, <2>a, InQuery
    <3>3. month = MonthOf(q[2]) /\ day = DayOf(q[2])
      BY <1>2, <2>1
    <3> QED
      BY <3>1, <3>2, <3>3
  <2> QED
    BY <1>1, <1>2, <2>3, <2>4
<1> QED
  BY <1>4, <1>5

-----------------------------------------------------------------------------
(* WateringLog: the table of schedules.                                    *)

LEMMA ScheduleTable ==
  ASSUME schedLines \in Seq(Lines), StartsInOrder(schedLines), ~SchedStraddles, NEW q \in LogQueries
  PROVE  TableSchedule(q[1], q[2]) = StartedWithin(schedLines, q)
<1>1. PICK end, month, day : /\ end = EndOf(q[1], q[2])
                             /\ month = EndMonth(q[1], end) /\ day = EndDay(q[1], end)
  OBVIOUS
<1>2. /\ schedLines \in Seq(Lines) /\ Ordered(schedLines, StartOrder)
      /\ \A i \in 1 .. Len(schedLines) : YearOf(schedLines[i].at) = YearOf(schedLines[i].start)
  BY OrderOfLines DEF SchedStraddles
<1>3. /\ q[1] \in Nat /\ month \in Nat /\ day \in Nat /\ MonthOf(q[1]) \in Nat
      /\ \A t \in Nat : YearOf(t) = YearOf(q[1]) =>
              /\ q[1] <= t <=> \/ MonthOf(t) > MonthOf(q[1])
                               \/ MonthOf(t) = MonthOf(q[1]) /\ DayOf(t) >= DayOf(q[1])
              /\ t < q[2] + HOURS <=> \/ MonthOf(t) < month
                                      \/ MonthOf(t) = month /\ DayOf(t) <= day
  BY <1>1, DaysOfTable
<1> DEFINE Y == {l \in Lines : YearOf(l.at) = YearOf(q[1])}
           L == {l \in Lines : \/ MonthOf(l.start) > month
                               \/ MonthOf(l.start) = month /\ DayOf(l.start) > day}
           D == {l \in Lines : \/ MonthOf(l.start) > MonthOf(q[1])
                               \/ /\ MonthOf(l.start) = MonthOf(q[1])
                                  /\ DayOf(l.start) >= DayOf(q[1])}
           S == {l \in Lines : /\ q[1] <= l.start /\ l.start < q[2] + HOURS
                               /\ YearOf(l.start) = YearOf(q[1])}
<1>4. TableSchedule(q[1], q[2]) = Chosen(UpTo(Chosen(schedLines, Y), L), D)
  BY <1>1 DEF TableSchedule
<1>5. \A i \in 1 .. Len(schedLines) :
        schedLines[i] \in (Y \cap (Lines \ L)) \cap D <=> schedLines[i] \in S
  <2> SUFFICES ASSUME NEW i \in 1 .. Len(schedLines), NEW l, l = schedLines[i]
               PROVE  l \in (Y \cap (Lines \ L)) \cap D <=> l \in S
    OBVIOUS
  <2>1. l \in Lines /\ YearOf(l.at) = YearOf(l.start)
    BY <1>2
  <2>2. PICK t \in Nat : t = l.start
    BY <2>1, LineTimes
  <2>3. MonthOf(t) \in Nat /\ DayOf(t) \in Nat
    BY FieldsAreNat
  <2>4. l \in S <=> YearOf(t) = YearOf(q[1]) /\ q[1] <= t /\ t < q[2] + HOURS
    BY <2>1, <2>2
  <2>5. l \in (Y \cap (Lines \ L)) \cap D <=>
          /\ YearOf(t) = YearOf(q[1])
          /\ ~(MonthOf(t) > month \/ (MonthOf(t) = month /\ DayOf(t) > day))
          /\ MonthOf(t) > MonthOf(q[1]) \/ (MonthOf(t) = MonthOf(q[1]) /\ DayOf(t) >= DayOf(q[1]))
    <3>1. l \in Y <=> YearOf(t) = YearOf(q[1])
      BY <2>1, <2>2
    <3>2. l \in L <=> MonthOf(t) > month \/ (MonthOf(t) = month /\ DayOf(t) > day)
      BY <2>1, <2>2
    <3>3. l \in D <=> \/ MonthOf(t) > MonthOf(q[1])
                      \/ MonthOf(t) = MonthOf(q[1]) /\ DayOf(t) >= DayOf(q[1])
      BY <2>1, <2>2
    <3>4. l \in (Y \cap (Lines \ L)) \cap D <=> l \in Y /\ l \notin L /\ l \in D
      <4> HIDE DEF Y, L, D, S
      <4> QED
        BY <2>1
    <3> HIDE DEF Y, L, D, S
    <3> QED
      BY <3>1, <3>2, <3>3, <3>4
  <2>6. ~(MonthOf(t) > month \/ (MonthOf(t) = month /\ DayOf(t) > day))
          <=> MonthOf(t) < month \/ (MonthOf(t) = month /\ DayOf(t) <= day)
    BY <1>3, <2>3
  <2> HIDE DEF Y, L, D, S
  <2> QED
    BY <1>3, <2>4, <2>5, <2>6
<1>6. Ordered(Chosen(schedLines, Y), Staying(Lines, L))
  <2>1. PICK file : file = Chosen(schedLines, Y)
    OBVIOUS
  <2>2. file \in Seq(Lines) /\ Ordered(file, StartOrder) /\ Elems(file) = Elems(schedLines) \cap Y
    <3> HIDE DEF Y
    <3> QED
      BY <1>2, <2>1, ChosenType, ChosenOrdered, ChosenRange
  <2>3. ASSUME NEW i \in 1 .. Len(file), NEW j \in 1 .. Len(file), i < j
        PROVE  <<file[i], file[j]>> \in Staying(Lines, L)
    <3>1. PICK a \in Lines, b \in Lines : a = file[i] /\ b = file[j]
      BY <2>2
    <3>2. a \in Elems(file) /\ b \in Elems(file) /\ <<a, b>> \in StartOrder
      BY <2>2, <2>3, <3>1 DEF Ordered, Elems
    <3>3. /\ YearOf(a.start) = YearOf(b.start) /\ DayNr(a.start) <= DayNr(b.start)
      <4>1. \A l \in Elems(schedLines) : YearOf(l.at) = YearOf(l.start)
        BY <1>2 DEF Elems
      <4>2. a \in Elems(schedLines) /\ b \in Elems(schedLines) /\ a \in Y /\ b \in Y
        BY <2>2, <3>2
      <4> QED
        BY <3>2, <4>1, <4>2 DEF StartOrder
    <3>4. PICK t \in Nat, u \in Nat : t = a.start /\ u = b.start
      BY LineTimes
    <3>5. DayNr(t) <= DayNr(u)
      BY <3>3, <3>4
    <3>6. MonthOf(t) < MonthOf(u) \/ (MonthOf(t) = MonthOf(u) /\ DayOf(t) <= DayOf(u))
      <4>1. YearOf(u) = YearOf(t)
        BY <3>3, <3>4
      <4> QED
        BY <3>5, <4>1, DateOrder
    <3>7. /\ MonthOf(t) \in Nat /\ DayOf(t) \in Nat /\ MonthOf(u) \in Nat /\ DayOf(u) \in Nat
      BY FieldsAreNat
    <3>8. (MonthOf(t) > month \/ (MonthOf(t) = month /\ DayOf(t) > day))
            => MonthOf(u) > month \/ (MonthOf(u) = month /\ DayOf(u) > day)
      BY <1>3, <3>6, <3>7
    <3>9. a \in L => b \in L
      <4>1. /\ a \in L => MonthOf(t) > month \/ (MonthOf(t) = month /\ DayOf(t) > day)
            /\ (MonthOf(u) > month \/ (MonthOf(u) = month /\ DayOf(u) > day)) => b \in L
        BY <3>4
      <4> HIDE DEF L
      <4> QED
        BY <3>8, <4>1
    <3> HIDE DEF L
    <3> QED
      BY <3>1, <3>9 DEF Staying
  <2> HIDE DEF Y, L
  <2> QED
    BY <2>1, <2>3 DEF Ordered
<1> HIDE DEF Y, L, D, S
<1>7. PICK U : U = Lines \ L
  OBVIOUS
<1>8. UpTo(Chosen(schedLines, Y), L) = Chosen(Chosen(schedLines, Y), U)
  <2>1. PICK file \in Seq(Lines) : file = Chosen(schedLines, Y)
    BY <1>2, ChosenType
  <2> QED
    BY <1>6, <1>7, <2>1, UpToIsChosen
<1>9. Chosen(Chosen(Chosen(schedLines, Y), U), D) = Chosen(schedLines, (Y \cap U) \cap D)
  <2>1. Chosen(Chosen(schedLines, Y), U) = Chosen(schedLines, Y \cap U)
    BY <1>2, ChosenTwice
  <2>2. PICK C : C = Y \cap U
    OBVIOUS
  <2>3. Chosen(Chosen(schedLines, C), D) = Chosen(schedLines, C \cap D)
    BY <1>2, ChosenTwice
  <2> QED
    BY <2>1, <2>2, <2>3
<1>10. Chosen(schedLines, (Y \cap U) \cap D) = Chosen(schedLines, S)
  BY <1>2, <1>5, <1>7, ChosenSame
<1> QED
  BY <1>4, <1>8, <1>9, <1>10 DEF StartedWithin, S

-----------------------------------------------------------------------------
(* WateringLog: the rows of the table of zones.                            *)

Row     == [line : Lines, date : Int, firstOfFile : BOOLEAN]
OutRow  == [line : Lines, group : Nat, comma : BOOLEAN]
RowAcc  == [sched : Runs \cup {-1}, prevEnd : Int, group : Nat, rows : Seq(OutRow)]
NoRows  == [sched |-> -1, prevEnd |-> 0, group |-> 0, rows |-> << >>]

Tabled(r) == FoldLeft(AddRow, NoRows, r)

(* The second row goes on with the group of the first.                     *)
GoesOn(a, b) ==
  a.line.sched = b.line.sched /\ b.date <= a.date + a.line.duration + 1

(* What AddRow does to the table, with the row that it adds.               *)
LEMMA AddedRow ==
  ASSUME NEW acc \in RowAcc, NEW row \in Row
  PROVE  /\ AddRow(acc, row) \in RowAcc
         /\ AddRow(acc, row).sched = row.line.sched
         /\ AddRow(acc, row).prevEnd = row.date + row.line.duration + 1
         /\ \E o \in OutRow :
              /\ AddRow(acc, row).rows = Append(acc.rows, o)
              /\ AddRow(acc, row).group = o.group
              /\ o.line = row.line
              /\ o.group = acc.group <=> row.line.sched = acc.sched /\ row.date <= acc.prevEnd
              /\ o.comma <=> o.group = acc.group /\ ~row.firstOfFile
<1>1. /\ row.line \in Lines /\ row.date \in Int /\ row.firstOfFile \in BOOLEAN
      /\ acc.prevEnd \in Int /\ acc.group \in Nat /\ acc.rows \in Seq(OutRow)
  BY DEF Row, RowAcc
<1>2. PICK new \in BOOLEAN : new = (row.line.sched # acc.sched \/ row.date > acc.prevEnd)
  OBVIOUS
<1>3. PICK g \in Nat : g = acc.group + (IF new THEN 1 ELSE 0)
  BY <1>1
<1>4. PICK c \in BOOLEAN : c = ~(new \/ row.firstOfFile)
  OBVIOUS
<1>5. PICK o : o = [line |-> row.line, group |-> g, comma |-> c]
  OBVIOUS
<1>6. o \in OutRow /\ o.line = row.line /\ o.group = g /\ o.comma = c
  BY <1>1, <1>5 DEF OutRow
<1>7. PICK y \in Int : y = row.date + row.line.duration + 1
  BY <1>1, LineTimes
<1>8. AddRow(acc, row) =
        [sched |-> row.line.sched, prevEnd |-> y, group |-> g, rows |-> Append(acc.rows, o)]
  <2>1. o = [line |-> row.line,
             group |-> acc.group + (IF row.line.sched # acc.sched \/ row.date > acc.prevEnd
                                    THEN 1 ELSE 0),
             comma |-> ~((row.line.sched # acc.sched \/ row.date > acc.prevEnd) \/ row.firstOfFile)]
    BY <1>2, <1>3, <1>4, <1>5
  <2>2. o.group = g
    BY <1>6
  <2> QED
    BY <1>7, <2>1, <2>2 DEF AddRow
<1>9. row.line.sched \in Runs /\ Append(acc.rows, o) \in Seq(OutRow)
  <2>1. row.line.sched \in Runs
    BY <1>1 DEF Lines
  <2> QED
    BY <1>1, <1>6, <2>1, AppendProperties
<1>10. g = acc.group <=> ~new
  BY <1>1, <1>3
<1>11. ~new <=> row.line.sched = acc.sched /\ row.date <= acc.prevEnd
  <2>1. row.date > acc.prevEnd <=> ~(row.date <= acc.prevEnd)
    BY <1>1
  <2>2. new <=> row.line.sched # acc.sched \/ row.date > acc.prevEnd
    BY <1>2, Zenon
  <2> QED
    BY <2>1, <2>2
<1>12. c <=> ~new /\ ~row.firstOfFile
  BY <1>4, Zenon
<1>13. AddRow(acc, row) \in RowAcc
  BY <1>8, <1>9 DEF RowAcc
<1>14. /\ AddRow(acc, row).sched = row.line.sched /\ AddRow(acc, row).prevEnd = y
       /\ AddRow(acc, row).rows = Append(acc.rows, o) /\ AddRow(acc, row).group = g
  BY <1>8
<1> QED
  BY <1>6, <1>7, <1>10, <1>11, <1>12, <1>13, <1>14

RowStep == [p \in RowAcc \X Row |-> AddRow(p[1], p[2])]

LEMMA TabledFold ==
  ASSUME NEW s \in Seq(Row)
  PROVE  \E h \in [SUBSET (1 .. Len(s)) -> RowAcc] :
           Folds(h, s, NoRows, RowStep) /\ Tabled(s) = h[1 .. Len(s)]
<1> DEFINE D == 1 .. Len(s)
           G == RowStep
           Good(h) == h = [T \in SUBSET D |->
                            IF T = {} THEN NoRows
                            ELSE AddRow(h[T \ {Max(T)}], s[Max(T)])]
           f == CHOOSE h : Good(h)
<1>1. Len(s) \in Nat /\ DOMAIN s = D /\ \A i \in D : s[i] \in Row
  OBVIOUS
<1>2. Tabled(s) = f[D]
  <2>1. Tabled(s) =
          (CHOOSE h : h =
             [T \in SUBSET DOMAIN s |->
               IF T = {} THEN NoRows
               ELSE AddRow(h[T \ {Max(T)}], s[Max(T)])])[DOMAIN s]
    BY DEF Tabled, FoldLeft, MapThenFoldSet
  <2> HIDE DEF D
  <2> QED
    BY <1>1, <2>1
<1>3. \A b \in RowAcc, x \in Row :
        G[<<b, x>>] = AddRow(b, x) /\ G[<<b, x>>] \in RowAcc
  <2>1. \A b \in RowAcc, x \in Row : AddRow(b, x) \in RowAcc
    BY AddedRow
  <2> QED
    BY <2>1 DEF RowStep
<1>4. PICK h \in [SUBSET D -> RowAcc] : Folds(h, s, NoRows, G)
  <2>1. StepsIn(G, Row, RowAcc) /\ NoRows \in RowAcc
    <3>1. NoRows \in RowAcc
      BY DEF NoRows, RowAcc
    <3> HIDE DEF G
    <3> QED
      BY <1>3, <3>1 DEF StepsIn
  <2> HIDE DEF G
  <2> QED
    BY <2>1, FoldsExist
<1>5. \A T \in SUBSET D : T # {} => Max(T) \in T
  BY <1>1, MaxOfIndices
<1>6. ASSUME NEW T \in SUBSET D
      PROVE  h[T] = IF T = {} THEN NoRows
                    ELSE AddRow(h[T \ {Max(T)}], s[Max(T)])
  <2>1. h[T] = IF T = {} THEN NoRows ELSE G[<<h[T \ {Max(T)}], s[Max(T)]>>]
    <3> HIDE DEF G
    <3> QED
      BY <1>4 DEF Folds
  <2>2. T # {} => h[T \ {Max(T)}] \in RowAcc /\ s[Max(T)] \in Row
    BY <1>1, <1>4, <1>5
  <2> HIDE DEF G, D
  <2> QED
    BY <1>3, <2>1, <2>2
<1>7. Good(h)
  <2>1. h = [T \in SUBSET D |-> h[T]]
    BY <1>4
  <2> HIDE DEF D
  <2> QED
    BY <1>6, <2>1
<1>8. ASSUME NEW g, Good(g)
      PROVE  g[D] = h[D]
  <2>1. \A T \in SUBSET D :
          g[T] = IF T = {} THEN NoRows
                 ELSE AddRow(g[T \ {Max(T)}], s[Max(T)])
    BY <1>8
  <2> HIDE DEF G, Good
  <2>2. AgreeBySteps(g, h, Len(s))
    BY <1>6, <2>1 DEF AgreeBySteps
  <2> QED
    BY <1>1, <2>2, FoldsAgree
<1>9. Tabled(s) = h[D]
  <2> HIDE DEF D, G, Good
  <2>1. Good(f)
    BY <1>7
  <2> HIDE DEF f
  <2> QED
    BY <1>2, <1>8, <2>1
<1> QED
  <2> HIDE DEF f, Good
  <2> QED
    BY <1>4, <1>9

LEMMA TabledEmpty ==
  Tabled(<< >>) = NoRows
<1>1. ASSUME NEW u \in Seq(Row), u = << >>
      PROVE  Tabled(u) = NoRows
  <2>1. 1 .. Len(u) = {}
    BY <1>1
  <2>2. PICK h : Folds(h, u, NoRows, RowStep) /\ Tabled(u) = h[1 .. Len(u)]
    BY TabledFold
  <2>3. {} \in SUBSET (1 .. Len(u)) /\ h[{}] = NoRows
    BY <2>2 DEF Folds
  <2> QED
    BY <2>1, <2>2, <2>3
<1>2. << >> \in Seq(Row)
  OBVIOUS
<1> QED
  BY <1>1, <1>2

LEMMA TabledAppend ==
  ASSUME NEW s \in Seq(Row)
  PROVE  /\ Tabled(s) \in RowAcc
         /\ \A e \in Row : Tabled(Append(s, e)) = AddRow(Tabled(s), e)
<1> DEFINE G == RowStep
<1>1. Tabled(s) \in RowAcc
  <2>1. PICK g \in [SUBSET (1 .. Len(s)) -> RowAcc] : Tabled(s) = g[1 .. Len(s)]
    BY TabledFold
  <2> QED
    BY <2>1
<1>2. ASSUME NEW e \in Row
      PROVE  Tabled(Append(s, e)) = AddRow(Tabled(s), e)
  <2> DEFINE t == Append(s, e)
  <2>1. t \in Seq(Row)
    OBVIOUS
  <2>2. PICK f : Folds(f, s, NoRows, G) /\ Tabled(s) = f[1 .. Len(s)]
    BY TabledFold
  <2>3. PICK h : Folds(h, t, NoRows, G) /\ Tabled(t) = h[1 .. Len(t)]
    <3> HIDE DEF t
    <3> QED
      BY <2>1, TabledFold
  <2>4. Tabled(t) = G[<<Tabled(s), e>>]
    <3> HIDE DEF G
    <3> QED
      BY <2>2, <2>3, FoldsAppend
  <2>5. G[<<Tabled(s), e>>] = AddRow(Tabled(s), e)
    BY <1>1 DEF RowStep
  <2> HIDE DEF G
  <2> QED
    BY <2>4, <2>5
<1> QED
  BY <1>1, <1>2

(* The rows of the table are those read, and which of them go on.          *)
RowsInv(r, acc) ==
  /\ Len(acc.rows) = Len(r)
  /\ \A i \in 1 .. Len(r) : acc.rows[i].line = r[i].line
  /\ \A i \in 1 .. Len(r) - 1 : acc.rows[i].group = acc.rows[i + 1].group <=> GoesOn(r[i], r[i + 1])
  /\ \A i \in 1 .. Len(r) - 1 :
       acc.rows[i + 1].comma <=>
         acc.rows[i].group = acc.rows[i + 1].group /\ ~r[i + 1].firstOfFile
  /\ Len(r) > 0 => /\ acc.rows[1].comma => ~r[1].firstOfFile
                   /\ acc.sched = r[Len(r)].line.sched
                   /\ acc.prevEnd = r[Len(r)].date + r[Len(r)].line.duration + 1
                   /\ acc.group = acc.rows[Len(r)].group

LEMMA RowsInvStep ==
  ASSUME NEW r \in Seq(Row), NEW e \in Row, NEW acc \in RowAcc, RowsInv(r, acc)
  PROVE  RowsInv(Append(r, e), AddRow(acc, e))
<1>1. PICK next : next = AddRow(acc, e)
  OBVIOUS
<1>2. PICK o \in OutRow :
        /\ next.rows = Append(acc.rows, o)
        /\ next.group = o.group
        /\ o.line = e.line
        /\ o.group = acc.group <=> e.line.sched = acc.sched /\ e.date <= acc.prevEnd
        /\ o.comma <=> o.group = acc.group /\ ~e.firstOfFile
  BY <1>1, AddedRow
<1>3. /\ next.sched = e.line.sched
      /\ next.prevEnd = e.date + e.line.duration + 1
  BY <1>1, AddedRow
<1>4. PICK n \in Nat : n = Len(r) /\ Len(acc.rows) = n
  BY DEF RowsInv
<1>5. acc.rows \in Seq(OutRow)
  BY DEF RowAcc
<1>6. PICK u \in Seq(Row) : u = Append(r, e)
  BY AppendProperties
<1>7. /\ Len(u) = n + 1 /\ u[n + 1] = e /\ \A i \in 1 .. n : u[i] = r[i]
  BY <1>4, <1>6, AppendProperties
<1>8. /\ Len(next.rows) = n + 1 /\ next.rows[n + 1] = o
      /\ \A i \in 1 .. n : next.rows[i] = acc.rows[i]
  BY <1>2, <1>4, <1>5, AppendProperties
<1>9. ASSUME n > 0
      PROVE  /\ acc.sched = r[n].line.sched
             /\ acc.prevEnd = r[n].date + r[n].line.duration + 1
             /\ acc.group = acc.rows[n].group
  BY <1>4, <1>9 DEF RowsInv
<1>10. ASSUME n > 0
       PROVE  o.group = acc.rows[n].group <=> GoesOn(r[n], e)
  <2>1. e.line.sched = acc.sched /\ e.date <= acc.prevEnd <=> GoesOn(r[n], e)
    BY <1>9, <1>10 DEF GoesOn
  <2> QED
    BY <1>2, <1>9, <1>10, <2>1
<1>11. \A i \in 1 .. n + 1 : next.rows[i].line = u[i].line
  <2> SUFFICES ASSUME NEW i \in 1 .. n + 1
               PROVE  next.rows[i].line = u[i].line
    OBVIOUS
  <2>1. CASE i = n + 1
    BY <1>2, <1>7, <1>8, <2>1
  <2>2. CASE i # n + 1
    <3>1. i \in 1 .. n
      BY <2>2
    <3> QED
      BY <1>4, <1>7, <1>8, <3>1 DEF RowsInv
  <2> QED
    BY <2>1, <2>2
<1>12. ASSUME NEW i \in 1 .. (n + 1) - 1
       PROVE  /\ next.rows[i].group = next.rows[i + 1].group <=> GoesOn(u[i], u[i + 1])
              /\ next.rows[i + 1].comma <=>
                   next.rows[i].group = next.rows[i + 1].group /\ ~u[i + 1].firstOfFile
  <2>1. i \in 1 .. n
    OBVIOUS
  <2>2. CASE i = n
    <3>1. n > 0 /\ next.rows[i] = acc.rows[n] /\ next.rows[i + 1] = o /\ u[i] = r[n] /\ u[i + 1] = e
      BY <1>7, <1>8, <2>1, <2>2
    <3>2. o.comma <=> acc.rows[n].group = o.group /\ ~e.firstOfFile
      BY <1>2, <1>9, <3>1
    <3>3. acc.rows[n].group = o.group <=> GoesOn(r[n], e)
      BY <1>10, <3>1
    <3> QED
      BY <3>1, <3>2, <3>3
  <2>3. CASE i # n
    <3>1. i \in 1 .. n - 1 /\ i + 1 \in 1 .. n
      BY <2>1, <2>3
    <3>2. /\ next.rows[i] = acc.rows[i] /\ next.rows[i + 1] = acc.rows[i + 1]
          /\ u[i] = r[i] /\ u[i + 1] = r[i + 1]
      BY <1>7, <1>8, <2>1, <3>1
    <3>3. /\ acc.rows[i].group = acc.rows[i + 1].group <=> GoesOn(r[i], r[i + 1])
          /\ acc.rows[i + 1].comma <=>
               acc.rows[i].group = acc.rows[i + 1].group /\ ~r[i + 1].firstOfFile
      BY <1>4, <3>1 DEF RowsInv
    <3> QED
      BY <3>2, <3>3
  <2> QED
    BY <2>2, <2>3
<1>13. next.rows[1].comma => ~u[1].firstOfFile
  <2>1. CASE n = 0
    BY <1>2, <1>7, <1>8, <2>1
  <2>2. CASE n > 0
    <3>1. 1 \in 1 .. n /\ u[1] = r[1] /\ next.rows[1] = acc.rows[1]
      BY <1>7, <1>8, <2>2
    <3> QED
      BY <1>4, <2>2, <3>1 DEF RowsInv
  <2> QED
    BY <2>1, <2>2
<1>14. RowsInv(u, next)
  BY <1>2, <1>3, <1>7, <1>8, <1>11, <1>12, <1>13 DEF RowsInv
<1> QED
  BY <1>1, <1>6, <1>14

LEMMA TabledIsRight ==
  ASSUME NEW r \in Seq(Row)
  PROVE  Tabled(r) \in RowAcc /\ RowsInv(r, Tabled(r))
<1> DEFINE Good == {s \in Seq(Row) : RowsInv(s, Tabled(s))}
<1>1. << >> \in Good
  <2>1. RowsInv(<< >>, NoRows)
    BY DEF RowsInv, NoRows
  <2> QED
    BY <2>1, TabledEmpty
<1>2. ASSUME NEW s \in Seq(Row), NEW e \in Row, s \in Good
      PROVE  Append(s, e) \in Good
  <2>1. RowsInv(s, Tabled(s)) /\ Tabled(s) \in RowAcc
    BY <1>2, TabledAppend
  <2>2. Tabled(Append(s, e)) = AddRow(Tabled(s), e)
    BY TabledAppend
  <2>3. Append(s, e) \in Seq(Row)
    BY AppendProperties
  <2> QED
    BY <2>1, <2>2, <2>3, RowsInvStep
<1> HIDE DEF Good
<1>3. r \in Good
  BY <1>1, <1>2, SeqInduction
<1> QED
  BY <1>3, TabledAppend DEF Good

-----------------------------------------------------------------------------
(* WateringLog: the rows from the file of a month.                         *)

LEMMA UpToType ==
  ASSUME NEW X, NEW L, NEW s \in Seq(X)
  PROVE  UpTo(s, L) \in Seq(X) /\ Elems(UpTo(s, L)) \subseteq Elems(s)
<1> DEFINE late == {i \in DOMAIN s : s[i] \in L}
<1>1. UpTo(s, L) = IF late = {} THEN s ELSE SubSeq(s, 1, Min(late) - 1)
  BY DEF UpTo
<1>2. CASE late # {}
  <2>1. late \subseteq Nat /\ late \subseteq 1 .. Len(s)
    OBVIOUS
  <2> HIDE DEF late
  <2>2. \E y \in late : \A x \in late : y <= x
    BY <1>2, <2>1, NatMin
  <2>3. Min(late) \in late
    BY <2>2 DEF Min
  <2>4. PICK k \in 1 .. Len(s) : k = Min(late)
    BY <2>1, <2>3
  <2>5. PICK u : u = SubSeq(s, 1, k - 1)
    OBVIOUS
  <2>6. u \in Seq(X) /\ Len(u) = k - 1 /\ \A i \in 1 .. k - 1 : u[i] = s[i]
    BY <2>4, <2>5, SubSeqProperties
  <2>7. Elems(u) \subseteq Elems(s)
    BY <2>4, <2>6 DEF Elems
  <2> QED
    BY <1>1, <1>2, <2>4, <2>5, <2>6, <2>7
<1> QED
  BY <1>1, <1>2

StartedIn(q, m) ==
  {l \in Lines : /\ q[1] <= l.start /\ l.start < q[2] + HOURS
                 /\ YearOf(l.start) = YearOf(q[1]) /\ MonthOf(l.start) = m}
StartedTo(q, m) ==
  {l \in Lines : /\ q[1] <= l.start /\ l.start < q[2] + HOURS
                 /\ YearOf(l.start) = YearOf(q[1]) /\ MonthOf(l.start) <= m}

LEMMA RowsInFile ==
  ASSUME zoneLines \in Seq(Lines), NEW q \in LogQueries, NEW end, end = EndOf(q[1], q[2]),
         NEW m \in Nat, m <= EndMonth(q[1], end),
         NEW rows, rows = RowsOfMonth(m, q[1], end)
  PROVE  /\ rows \in Seq(Row)
         /\ \A i \in 1 .. Len(rows) : rows[i].firstOfFile <=> i = 1
         /\ ~ZoneStraddles =>
              /\ StartsInOrder(zoneLines) => LinesOf(rows) = Chosen(zoneLines, StartedIn(q, m))
              /\ \A r \in Elems(rows) : r.date = r.line.start
<1>1. PICK month, day : month = EndMonth(q[1], end) /\ day = EndDay(q[1], end)
  OBVIOUS
<1>2. zoneLines \in Seq(Lines) /\ (StartsInOrder(zoneLines) => Ordered(zoneLines, StartOrder))
  BY OrderOfLines
<1>3. /\ q[1] \in Nat /\ q[2] \in Nat /\ month \in Nat /\ day \in Nat
      /\ \A t \in Nat : YearOf(t) = YearOf(q[1]) =>
           (t < q[2] + HOURS <=> \/ MonthOf(t) < month
                                 \/ MonthOf(t) = month /\ DayOf(t) <= day)
  BY <1>1, DaysOfTable
<1> DEFINE date(l) == TimeOf(YearOf(q[1]), m, DayOf(l.start), HourOf(l.start))
           Y == {l \in Lines : YearOf(l.at) = YearOf(q[1]) /\ MonthOf(l.at) = m}
           L == {l \in Lines : m = month /\ DayOf(l.start) > day}
           D == {l \in Lines : date(l) >= q[1]}
<1>4. PICK file : file = Chosen(zoneLines, Y)
  OBVIOUS
<1>5. PICK taken : taken = Chosen(UpTo(file, L), D)
  OBVIOUS
<1>6. rows = [i \in DOMAIN taken |->
                [line |-> taken[i], date |-> date(taken[i]), firstOfFile |-> i = 1]]
  BY <1>1, <1>4, <1>5 DEF RowsOfMonth
<1>7. /\ file \in Seq(Lines) /\ taken \in Seq(Lines)
      /\ Elems(file) = Elems(zoneLines) \cap Y /\ Elems(taken) \subseteq Elems(file)
  <2> HIDE DEF Y, L, D
  <2>1. file \in Seq(Lines) /\ Elems(file) = Elems(zoneLines) \cap Y
    BY <1>2, <1>4, ChosenType, ChosenRange
  <2>2. PICK read \in Seq(Lines) : read = UpTo(file, L) /\ Elems(read) \subseteq Elems(file)
    BY <2>1, UpToType
  <2>3. taken \in Seq(Lines) /\ Elems(taken) = Elems(read) \cap D
    BY <1>5, <2>2, ChosenType, ChosenRange
  <2> QED
    BY <2>1, <2>2, <2>3
<1>8. \A l \in Lines : date(l) \in Int
  <2> SUFFICES ASSUME NEW l \in Lines
               PROVE  date(l) \in Int
    OBVIOUS
  <2>1. PICK d \in Nat, h \in Nat : d = DayOf(l.start) /\ h = HourOf(l.start)
    BY LineTimes, FieldsAreNat
  <2>2. PICK y \in Nat : y = YearOf(q[1])
    BY <1>3, FieldsAreNat
  <2>3. HOURS \in Nat /\ DAYS \in Nat /\ MONTHS \in Nat
    BY CalendarAssumption
  <2>4. TimeOf(y, m, d, h) \in Int
    <3>1. y * MONTHS \in Int
      BY <2>3
    <3>2. (y * MONTHS + m) * DAYS \in Int
      BY <2>3, <3>1
    <3>3. ((y * MONTHS + m) * DAYS + d) * HOURS \in Int
      BY <2>3, <3>2
    <3> QED
      BY <3>3 DEF TimeOf
  <2> QED
    BY <2>1, <2>2, <2>4
<1> HIDE DEF date
<1>9. /\ DOMAIN rows = 1 .. Len(taken) /\ Len(taken) \in Nat
      /\ \A i \in 1 .. Len(taken) :
           /\ taken[i] \in Lines
           /\ rows[i] = [line |-> taken[i], date |-> date(taken[i]), firstOfFile |-> i = 1]
           /\ rows[i].line = taken[i] /\ rows[i].date = date(taken[i])
           /\ rows[i].firstOfFile = (i = 1)
  BY <1>6, <1>7
<1>10. rows \in Seq(Row) /\ Len(rows) = Len(taken)
  <2>1. \A i \in 1 .. Len(taken) : rows[i] \in Row
    <3> SUFFICES ASSUME NEW i \in 1 .. Len(taken)
                 PROVE  rows[i] \in Row
      OBVIOUS
    <3>1. PICK c \in BOOLEAN : c = (i = 1)
      OBVIOUS
    <3>2. PICK l \in Lines, d \in Int : l = taken[i] /\ d = date(taken[i])
      BY <1>8, <1>9
    <3>3. rows[i] = [line |-> l, date |-> d, firstOfFile |-> c]
      BY <1>9, <3>1, <3>2, Zenon
    <3> QED
      BY <3>3 DEF Row
  <2>2. rows = [i \in 1 .. Len(taken) |-> rows[i]]
    BY <1>6, <1>9
  <2> QED
    BY <1>9, <2>1, <2>2
<1>11. \A i \in 1 .. Len(rows) : rows[i].firstOfFile <=> i = 1
  BY <1>9, <1>10
<1>12. LinesOf(rows) = taken
  <2>1. LinesOf(rows) = [i \in 1 .. Len(taken) |-> taken[i]]
    BY <1>9 DEF LinesOf
  <2>2. taken = [i \in 1 .. Len(taken) |-> taken[i]]
    BY <1>7
  <2> QED
    BY <2>1, <2>2
<1>13. ASSUME ~ZoneStraddles
       PROVE  /\ StartsInOrder(zoneLines) => taken = Chosen(zoneLines, StartedIn(q, m))
              /\ \A i \in 1 .. Len(taken) : date(taken[i]) = taken[i].start
  <2>1. \A l \in Elems(zoneLines) : /\ l \in Lines /\ l.start \in Nat
                                    /\ YearOf(l.at) = YearOf(l.start)
                                    /\ MonthOf(l.at) = MonthOf(l.start)
    <3>1. \A i \in DOMAIN zoneLines : SameMonth(zoneLines[i].at, zoneLines[i].start)
      BY <1>13 DEF ZoneStraddles
    <3>2. DOMAIN zoneLines = 1 .. Len(zoneLines) /\ Elems(zoneLines) \subseteq Lines
      BY <1>2 DEF Elems
    <3> QED
      BY <3>1, <3>2, LineTimes DEF Elems, SameMonth
  <2>2. \A l \in Lines : YearOf(l.start) = YearOf(q[1]) /\ MonthOf(l.start) = m => date(l) = l.start
    BY LineTimes, TimeOfFields DEF date
  <2>3. ASSUME NEW l \in Elems(zoneLines)
        PROVE  /\ l \in (Y \cap (Lines \ L)) \cap D <=> l \in StartedIn(q, m)
               /\ l \in Y => YearOf(l.start) = YearOf(q[1]) /\ MonthOf(l.start) = m
    <3>1. PICK t \in Nat : t = l.start
      BY <2>1
    <3>2. l \in Lines /\ YearOf(l.at) = YearOf(t) /\ MonthOf(l.at) = MonthOf(t)
      BY <2>1, <3>1
    <3>3. l \in Y <=> YearOf(t) = YearOf(q[1]) /\ MonthOf(t) = m
      BY <3>2
    <3>4. l \in L <=> m = month /\ DayOf(t) > day
      BY <3>1, <3>2
    <3>5. l \in D <=> date(l) >= q[1]
      BY <3>2
    <3>6. l \in Y => date(l) = t
      BY <2>2, <3>1, <3>2, <3>3
    <3>7. l \in StartedIn(q, m) <=> /\ q[1] <= t /\ t < q[2] + HOURS
                                    /\ YearOf(t) = YearOf(q[1]) /\ MonthOf(t) = m
      BY <3>1, <3>2 DEF StartedIn
    <3>8. YearOf(t) = YearOf(q[1]) /\ MonthOf(t) = m =>
            (t < q[2] + HOURS <=> ~(m = month /\ DayOf(t) > day))
      <4>1. DayOf(t) \in Nat
        BY FieldsAreNat
      <4> QED
        BY <1>1, <1>3, <4>1
    <3>9. l \in (Y \cap (Lines \ L)) \cap D <=> l \in Y /\ l \notin L /\ l \in D
      <4> HIDE DEF Y, L, D
      <4> QED
        BY <3>2
    <3>10. t >= q[1] <=> q[1] <= t
      BY <1>3
    <3> HIDE DEF Y, L, D
    <3> QED
      BY <3>1, <3>3, <3>4, <3>5, <3>6, <3>7, <3>8, <3>9, <3>10
  <2>4. ASSUME NEW i \in 1 .. Len(taken)
        PROVE  date(taken[i]) = taken[i].start
    <3>1. PICK l : l = taken[i]
      OBVIOUS
    <3>2. l \in Elems(zoneLines) /\ l \in Y /\ l \in Lines
      <4>1. l \in Elems(taken) /\ l \in Lines
        BY <1>7, <3>1 DEF Elems
      <4> HIDE DEF Y
      <4> QED
        BY <1>7, <4>1
    <3>3. YearOf(l.start) = YearOf(q[1]) /\ MonthOf(l.start) = m
      <4> HIDE DEF Y, L, D
      <4> QED
        BY <2>3, <3>2
    <3>4. date(l) = l.start
      BY <2>2, <3>2, <3>3
    <3> QED
      BY <3>1, <3>4
  <2>5. ASSUME StartsInOrder(zoneLines)
        PROVE  taken = Chosen(zoneLines, StartedIn(q, m))
    <3>1. Ordered(file, StartOrder)
      <4> HIDE DEF Y
      <4> QED
        BY <1>2, <1>4, <2>5, ChosenOrdered
    <3>2. ASSUME NEW i \in 1 .. Len(file), NEW j \in 1 .. Len(file), i < j
          PROVE  <<file[i], file[j]>> \in Staying(Lines, L)
      <4>1. PICK a \in Lines, b \in Lines : a = file[i] /\ b = file[j]
        BY <1>7
      <4>2. a \in Elems(file) /\ b \in Elems(file) /\ <<a, b>> \in StartOrder
        BY <1>7, <3>1, <3>2, <4>1 DEF Ordered, Elems
      <4>3. PICK t \in Nat, u \in Nat : t = a.start /\ u = b.start
        BY LineTimes
      <4>4. /\ YearOf(t) = YearOf(u) /\ MonthOf(t) = MonthOf(u) /\ DayNr(t) <= DayNr(u)
        <5> HIDE DEF Y
        <5> QED
          BY <1>7, <2>3, <4>2, <4>3 DEF StartOrder
      <4>5. DayOf(t) <= DayOf(u)
        <5>1. YearOf(u) = YearOf(t) /\ MonthOf(t) \in Nat /\ MonthOf(u) \in Nat
          BY <4>4, FieldsAreNat
        <5> QED
          BY <4>4, <5>1, DateOrder
      <4>6. DayOf(t) \in Nat /\ DayOf(u) \in Nat
        BY FieldsAreNat
      <4>7. DayOf(t) > day => DayOf(u) > day
        BY <1>3, <4>5, <4>6
      <4>8. a \in L => b \in L
        BY <4>3, <4>7
      <4> HIDE DEF L
      <4> QED
        BY <4>1, <4>8 DEF Staying
    <3> HIDE DEF Y, L, D
    <3>3. Ordered(file, Staying(Lines, L))
      BY <3>2 DEF Ordered
    <3>4. PICK U : U = Lines \ L
      OBVIOUS
    <3>5. UpTo(file, L) = Chosen(file, U)
      BY <1>7, <3>3, <3>4, UpToIsChosen
    <3>6. taken = Chosen(zoneLines, (Y \cap U) \cap D)
      <4>1. Chosen(Chosen(zoneLines, Y), U) = Chosen(zoneLines, Y \cap U)
        BY <1>2, ChosenTwice
      <4>2. PICK C : C = Y \cap U
        OBVIOUS
      <4>3. Chosen(Chosen(zoneLines, C), D) = Chosen(zoneLines, C \cap D)
        BY <1>2, ChosenTwice
      <4> QED
        BY <1>4, <1>5, <3>5, <4>1, <4>2, <4>3
    <3>7. \A i \in 1 .. Len(zoneLines) :
            zoneLines[i] \in (Y \cap U) \cap D <=> zoneLines[i] \in StartedIn(q, m)
      BY <2>3, <3>4 DEF Elems
    <3> QED
      BY <1>2, <3>6, <3>7, ChosenSame
  <2> QED
    BY <2>4, <2>5
<1>14. ASSUME ~ZoneStraddles, NEW r \in Elems(rows)
       PROVE  r.date = r.line.start
  <2>1. PICK i \in 1 .. Len(taken) : r = rows[i]
    BY <1>10 DEF Elems
  <2>2. rows[i].line = taken[i] /\ rows[i].date = date(taken[i])
    BY <1>9
  <2>3. date(taken[i]) = taken[i].start
    BY <1>13, <1>14
  <2> QED
    BY <2>1, <2>2, <2>3, Zenon
<1> QED
  BY <1>10, <1>11, <1>12, <1>13, <1>14

-----------------------------------------------------------------------------
(* WateringLog: the table of zones.                                        *)

LEMMA LinesConcat ==
  ASSUME NEW s \in Seq(Row), NEW t \in Seq(Row)
  PROVE  /\ LinesOf(s) \in Seq(Lines)
         /\ LinesOf(s \o t) = LinesOf(s) \o LinesOf(t) /\ LinesOf(<< >>) = << >>
<1>1. PICK f : f = [r \in Row |-> r.line]
  OBVIOUS
<1>2. f \in [Row -> Lines] /\ \A r \in Row : f[r] = r.line
  BY <1>1 DEF Row
<1>3. ASSUME NEW w \in Seq(Row)
      PROVE  LinesOf(w) = Mapped(f, w)
  <2>1. \A i \in DOMAIN w : w[i] \in Row
    OBVIOUS
  <2> QED
    BY <1>2, <2>1 DEF LinesOf, Mapped
<1>4. PICK u \in Seq(Row) : u = s \o t
  BY ConcatProperties
<1>5. /\ Mapped(f, s) \in Seq(Lines)
      /\ Mapped(f, u) = Mapped(f, s) \o Mapped(f, t) /\ Mapped(f, << >>) = << >>
  <2>1. IsMap(f, Row, Lines) /\ IsJoin(u, s, t)
    BY <1>2, <1>4 DEF IsMap, IsJoin
  <2> QED
    BY <2>1, MappedConcat
<1>6. << >> \in Seq(Row)
  OBVIOUS
<1> QED
  BY <1>3, <1>4, <1>5, <1>6

(* The runs that started up to a month are those up to the month before    *)
(* it, then those of the month.                                            *)
LEMMA NextMonthStarted ==
  ASSUME zoneLines \in Seq(Lines), StartsInOrder(zoneLines), NEW q \in LogQueries, NEW m \in Int
  PROVE  Chosen(zoneLines, StartedTo(q, m))
           = Chosen(zoneLines, StartedTo(q, m - 1)) \o Chosen(zoneLines, StartedIn(q, m))
<1>1. PICK A, B : A = StartedTo(q, m - 1) /\ B = StartedIn(q, m)
  OBVIOUS
<1>2. zoneLines \in Seq(Lines) /\ Ordered(zoneLines, StartOrder)
  BY OrderOfLines
<1>3. \A l \in Lines : l.start \in Nat /\ MonthOf(l.start) \in Nat
  BY LineTimes, FieldsAreNat
<1>4. Apart(A, B) /\ A \cup B = StartedTo(q, m)
  BY <1>1, <1>3 DEF StartedTo, StartedIn, Apart
<1>5. ASSUME NEW i \in 1 .. Len(zoneLines), NEW j \in 1 .. Len(zoneLines), i < j
      PROVE  <<zoneLines[i], zoneLines[j]>> \in NoneBefore(Lines, B, A)
  <2>1. PICK a \in Lines, b \in Lines : a = zoneLines[i] /\ b = zoneLines[j]
    BY <1>2
  <2>2. <<a, b>> \in StartOrder
    BY <1>2, <1>5, <2>1 DEF Ordered
  <2>3. PICK t \in Nat, u \in Nat : t = a.start /\ u = b.start
    BY LineTimes
  <2>4. ASSUME a \in B, b \in A
        PROVE  FALSE
    <3>1. YearOf(t) = YearOf(u) /\ MonthOf(t) = m /\ MonthOf(u) <= m - 1
      BY <1>1, <2>3, <2>4 DEF StartedTo, StartedIn
    <3>2. MonthNr(t) - MonthNr(u) = MonthOf(t) - MonthOf(u)
      BY <3>1, MonthOrder
    <3>3. MonthNr(t) \in Nat /\ MonthNr(u) \in Nat /\ MonthOf(u) \in Nat
      BY Fields, FieldsAreNat
    <3>4. MonthNr(u) < MonthNr(t)
      BY <3>1, <3>2, <3>3
    <3>5. DayNr(u) < DayNr(t) /\ DayNr(u) \in Nat /\ DayNr(t) \in Nat
      BY <3>4, MonthOrder, FieldsAreNat
    <3>6. DayNr(t) <= DayNr(u)
      BY <2>2, <2>3 DEF StartOrder
    <3> QED
      BY <3>5, <3>6
  <2> QED
    BY <2>1, <2>4 DEF NoneBefore
<1>6. Ordered(zoneLines, NoneBefore(Lines, B, A))
  BY <1>5 DEF Ordered
<1>7. Chosen(zoneLines, A \cup B) = Chosen(zoneLines, A) \o Chosen(zoneLines, B)
  BY <1>2, <1>4, <1>6, ChosenSplit
<1> QED
  BY <1>1, <1>4, <1>7

LEMMA FirstAndLastStarted ==
  ASSUME zoneLines \in Seq(Lines), NEW q \in LogQueries,
         NEW month, month = EndMonth(q[1], EndOf(q[1], q[2]))
  PROVE  /\ Chosen(zoneLines, StartedTo(q, MonthOf(q[1]) - 1)) = << >>
         /\ Chosen(zoneLines, StartedTo(q, month)) = StartedWithin(zoneLines, q)
<1>1. /\ MonthOf(q[1]) \in Nat /\ month \in Nat
      /\ \A t \in Nat : YearOf(t) = YearOf(q[1]) =>
           /\ q[1] <= t => MonthOf(t) > MonthOf(q[1]) \/ MonthOf(t) = MonthOf(q[1])
           /\ t < q[2] + HOURS => MonthOf(t) < month \/ MonthOf(t) = month
  BY DaysOfTable
<1>2. \A l \in Lines : l.start \in Nat /\ MonthOf(l.start) \in Nat
  BY LineTimes, FieldsAreNat
<1>3. StartedTo(q, MonthOf(q[1]) - 1) = {}
  <2> SUFFICES ASSUME NEW l \in StartedTo(q, MonthOf(q[1]) - 1)
               PROVE  FALSE
    OBVIOUS
  <2>1. /\ l \in Lines /\ q[1] <= l.start /\ YearOf(l.start) = YearOf(q[1])
        /\ MonthOf(l.start) <= MonthOf(q[1]) - 1
    BY DEF StartedTo
  <2> QED
    BY <1>1, <1>2, <2>1
<1>4. PICK S : S = {l \in Lines : /\ q[1] <= l.start /\ l.start < q[2] + HOURS
                                  /\ YearOf(l.start) = YearOf(q[1])}
  OBVIOUS
<1>5. StartedTo(q, month) = S
  <2>1. \A l \in S : l \in Lines /\ MonthOf(l.start) <= month
    BY <1>1, <1>2, <1>4
  <2> QED
    BY <1>4, <2>1 DEF StartedTo
<1>7. Chosen(zoneLines, {}) = << >>
  BY ChosenAllNone
<1> QED
  BY <1>3, <1>4, <1>5, <1>7 DEF StartedWithin

(* The rows that the table of zones is made from.                          *)
LEMMA RowsOfTable ==
  ASSUME zoneLines \in Seq(Lines), NEW q \in LogQueries
  PROVE  \E r \in Seq(Row) :
           /\ TableZone(q[1], q[2]) = Tabled(r).rows
           /\ ~ZoneStraddles =>
                /\ StartsInOrder(zoneLines) => LinesOf(r) = StartedWithin(zoneLines, q)
                /\ \A e \in Elems(r) : e.date = e.line.start
           /\ EndMonth(q[1], EndOf(q[1], q[2])) = MonthOf(q[1]) =>
                \A i \in 1 .. Len(r) : r[i].firstOfFile <=> i = 1
<1>1. PICK end, month, first :
        end = EndOf(q[1], q[2]) /\ month = EndMonth(q[1], end) /\ first = MonthOf(q[1])
  OBVIOUS
<1>2. month \in Nat /\ first \in Nat /\ first <= month
  BY <1>1, DaysOfTable
<1>3. PICK n \in Nat \ {0} : n = month - first + 1
  BY <1>2
<1> DEFINE rows(i) == RowsOfMonth(first + i - 1, q[1], end)
           lines(i) == Chosen(zoneLines, StartedIn(q, first + i - 1))
           upto(i) == Chosen(zoneLines, StartedTo(q, first + i - 1))
<1>4. TableZone(q[1], q[2]) = Tabled(FlattenSeq([i \in 1 .. n |-> rows(i)])).rows
  BY <1>1, <1>3 DEF TableZone, Tabled, NoRows
<1>5. ASSUME NEW i \in 1 .. n
      PROVE  /\ rows(i) \in Seq(Row)
             /\ \A j \in 1 .. Len(rows(i)) : rows(i)[j].firstOfFile <=> j = 1
             /\ ~ZoneStraddles => /\ StartsInOrder(zoneLines) => LinesOf(rows(i)) = lines(i)
                                  /\ \A e \in Elems(rows(i)) : e.date = e.line.start
  <2>1. PICK m \in Nat : m = first + i - 1 /\ m <= month
    BY <1>2, <1>3
  <2>2. PICK w : w = RowsOfMonth(m, q[1], end)
    OBVIOUS
  <2>3. /\ w \in Seq(Row)
        /\ \A j \in 1 .. Len(w) : w[j].firstOfFile <=> j = 1
        /\ ~ZoneStraddles => /\ \/ ~StartsInOrder(zoneLines)
                                \/ LinesOf(w) = Chosen(zoneLines, StartedIn(q, m))
                             /\ \A e \in Elems(w) : e.date = e.line.start
    BY <1>1, <2>1, <2>2, RowsInFile
  <2> QED
    BY <2>1, <2>2, <2>3
<1>6. upto(0) = << >>
  <2>1. first + 0 - 1 = MonthOf(q[1]) - 1
    BY <1>1, <1>2
  <2> QED
    BY <2>1, FirstAndLastStarted
<1>7. ASSUME StartsInOrder(zoneLines), NEW i \in 1 .. n
      PROVE  upto(i) = upto(i - 1) \o lines(i)
  <2>1. PICK m \in Int : m = first + i - 1
    BY <1>2
  <2>2. m - 1 = first + (i - 1) - 1
    BY <1>2, <2>1
  <2>3. Chosen(zoneLines, StartedTo(q, m))
          = Chosen(zoneLines, StartedTo(q, m - 1)) \o Chosen(zoneLines, StartedIn(q, m))
    BY <1>7, NextMonthStarted
  <2> QED
    BY <2>1, <2>2, <2>3
<1>8. upto(n) = StartedWithin(zoneLines, q)
  <2>1. first + n - 1 = month
    BY <1>2, <1>3
  <2> QED
    BY <1>1, <2>1, FirstAndLastStarted
<1> HIDE DEF rows, lines, upto
<1>9. PICK p : p = [i \in 1 .. n |-> rows(i)]
  OBVIOUS
<1>10. p \in Seq(Seq(Row)) /\ Len(p) = n /\ Len(p) > 0 /\ \A i \in 1 .. n : p[i] = rows(i)
  BY <1>3, <1>5, <1>9
<1>11. PICK F \in [0 .. Len(p) -> Seq(Row)] : Joins(F, p)
  BY <1>10, JoinsExist
<1>12. FlattenSeq(p) = F[n]
  <2>1. FlattenSeq(p) = F[Len(p)]
    BY <1>10, <1>11, Flattened
  <2> QED
    BY <1>10, <2>1
<1>13. F[0] = << >> /\ \A i \in 1 .. n : F[i] = F[i - 1] \o rows(i)
  BY <1>10, <1>11 DEF Joins
<1>14. \A i \in 0 .. n : F[i] \in Seq(Row)
  BY <1>10, <1>11
<1>15. ASSUME ~ZoneStraddles
       PROVE  /\ StartsInOrder(zoneLines) => LinesOf(F[n]) = StartedWithin(zoneLines, q)
              /\ \A e \in Elems(F[n]) : e.date = e.line.start
  <2> DEFINE Good == {i \in 0 .. n : /\ StartsInOrder(zoneLines) => LinesOf(F[i]) = upto(i)
                                     /\ \A e \in Elems(F[i]) : e.date = e.line.start}
  <2>1. 0 \in Good
    <3>1. LinesOf(<< >>) = << >>
      <4>1. << >> \in Seq(Row)
        OBVIOUS
      <4> QED
        BY <4>1, LinesConcat
    <3>2. Elems(<< >>) = {}
      BY DEF Elems
    <3> QED
      BY <1>3, <1>6, <1>13, <3>1, <3>2
  <2>2. ASSUME NEW i \in 1 .. n, i - 1 \in Good
        PROVE  i \in Good
    <3>1. i - 1 \in 0 .. n /\ i \in 0 .. n
      BY <1>3
    <3>2. PICK s \in Seq(Row), t \in Seq(Row) : s = F[i - 1] /\ t = rows(i)
      BY <1>5, <1>14, <3>1
    <3>3. LinesOf(s \o t) = LinesOf(s) \o LinesOf(t)
      BY LinesConcat
    <3>4. Elems(s \o t) = Elems(s) \cup Elems(t)
      BY ElemsConcat
    <3>5. /\ StartsInOrder(zoneLines) => LinesOf(s) = upto(i - 1)
          /\ \A e \in Elems(s) : e.date = e.line.start
      BY <2>2, <3>2
    <3>6. /\ StartsInOrder(zoneLines) => LinesOf(t) = lines(i)
          /\ \A e \in Elems(t) : e.date = e.line.start
      BY <1>5, <1>15, <3>2
    <3>7. F[i] = s \o t /\ (StartsInOrder(zoneLines) => upto(i) = upto(i - 1) \o lines(i))
      BY <1>7, <1>13, <3>2
    <3>8. StartsInOrder(zoneLines) => LinesOf(F[i]) = upto(i)
      BY <3>3, <3>5, <3>6, <3>7
    <3>9. \A e \in Elems(F[i]) : e.date = e.line.start
      BY <3>4, <3>5, <3>6, <3>7
    <3> QED
      BY <3>1, <3>8, <3>9
  <2>3. n \in Good
    <3> HIDE DEF Good
    <3>1. n \in Nat /\ n \in 0 .. n
      BY <1>3
    <3>2. \A i \in 1 .. n : i - 1 \in Good => i \in Good
      BY <2>2
    <3> QED
      BY <2>1, <3>1, <3>2, NatInductionTo
  <2> QED
    BY <1>8, <2>3
<1>16. ASSUME month = first
       PROVE  \A j \in 1 .. Len(F[n]) : F[n][j].firstOfFile <=> j = 1
  <2>1. n = 1 /\ 1 \in 1 .. n
    BY <1>2, <1>3, <1>16
  <2>2. PICK t \in Seq(Row) : t = rows(1)
    BY <1>5, <2>1
  <2>3. F[1] = << >> \o t
    <3>1. \A i \in 1 .. n : F[i] = F[i - 1] \o rows(i)
      BY <1>13
    <3>2. F[1] = F[1 - 1] \o rows(1)
      BY <2>1, <3>1
    <3>3. 1 - 1 = 0
      OBVIOUS
    <3>4. F[0] = << >>
      BY <1>13
    <3> QED
      BY <2>2, <3>2, <3>3, <3>4
  <2>4. << >> \o t = t
    BY ConcatEmptySeq
  <2>5. \A j \in 1 .. Len(t) : t[j].firstOfFile <=> j = 1
    BY <1>5, <2>1, <2>2
  <2> QED
    BY <2>1, <2>3, <2>4, <2>5
<1>17. F[n] \in Seq(Row) /\ TableZone(q[1], q[2]) = Tabled(F[n]).rows
  <2>1. n \in 0 .. n
    BY <1>3
  <2> QED
    BY <1>4, <1>9, <1>12, <1>14, <2>1
<1>18. PICK r \in Seq(Row) : r = F[n]
  BY <1>17
<1> QED
  BY <1>1, <1>15, <1>16, <1>17, <1>18

(* As long as no run straddles the end of a file, and no run of a log is   *)
(* said to have started on an earlier day than one before it, the tables   *)
(* hold every run that started in the days of a query, once and in order,  *)
(* for every calendar, log and query (TableZone, TableSchedule).           *)
THEOREM TablesComplete == WaterLogSpec => []TablesAreComplete
<1>1. WaterLogTyped => TablesAreComplete
  <2> SUFFICES ASSUME WaterLogTyped
               PROVE  TablesAreComplete
    OBVIOUS
  <2>1. zoneLines \in Seq(Lines) /\ schedLines \in Seq(Lines)
    BY DEF WaterLogTyped
  <2>2. ASSUME ~ZoneStraddles, StartsInOrder(zoneLines), NEW q \in LogQueries
        PROVE  LinesOf(TableZone(q[1], q[2])) = StartedWithin(zoneLines, q)
    <3>1. PICK r \in Seq(Row) : /\ TableZone(q[1], q[2]) = Tabled(r).rows
                                /\ LinesOf(r) = StartedWithin(zoneLines, q)
      BY <2>1, <2>2, RowsOfTable
    <3>2. PICK out : out = Tabled(r).rows
      OBVIOUS
    <3>3. out \in Seq(OutRow) /\ Len(out) = Len(r) /\ \A i \in 1 .. Len(r) : out[i].line = r[i].line
      BY <3>2, TabledIsRight DEF RowsInv, RowAcc
    <3>4. DOMAIN out = DOMAIN r /\ \A i \in DOMAIN r : out[i].line = r[i].line
      BY <3>3
    <3>5. LinesOf(out) = LinesOf(r)
      BY <3>4 DEF LinesOf
    <3> QED
      BY <3>1, <3>2, <3>5
  <2>3. ASSUME ~SchedStraddles, StartsInOrder(schedLines), NEW q \in LogQueries
        PROVE  TableSchedule(q[1], q[2]) = StartedWithin(schedLines, q)
    BY <2>1, <2>3, ScheduleTable
  <2> QED
    BY <2>2, <2>3 DEF TablesAreComplete
<1> QED
  BY <1>1, WaterLogIsTyped, PTL

(* A table of zones groups the runs of a schedule that follow one another  *)
(* without a gap, and separates the rows of a group, if it covers a single *)
(* month, for every calendar, log and query (TableZone).                   *)
THEOREM RunsGrouped == WaterLogSpec => []RunsAreGrouped
<1>1. WaterLogTyped => RunsAreGrouped
  <2> SUFFICES ASSUME WaterLogTyped, NEW q \in LogQueries, NEW rows, rows = TableZone(q[1], q[2])
               PROVE  /\ ~ZoneStraddles =>
                           \A i \in 1 .. Len(rows) - 1 :
                             rows[i].group = rows[i + 1].group
                               <=> /\ rows[i].line.sched = rows[i + 1].line.sched
                                   /\ rows[i + 1].line.start
                                        <= rows[i].line.start + rows[i].line.duration + 1
                      /\ EndMonth(q[1], EndOf(q[1], q[2])) = MonthOf(q[1]) =>
                           \A i \in DOMAIN rows :
                             rows[i].comma <=> i > 1 /\ rows[i].group = rows[i - 1].group
    BY DEF RunsAreGrouped
  <2>1. zoneLines \in Seq(Lines)
    BY DEF WaterLogTyped
  <2>2. PICK r \in Seq(Row) :
          /\ rows = Tabled(r).rows
          /\ ~ZoneStraddles => \A e \in Elems(r) : e.date = e.line.start
          /\ EndMonth(q[1], EndOf(q[1], q[2])) = MonthOf(q[1]) =>
               \A i \in 1 .. Len(r) : r[i].firstOfFile <=> i = 1
    BY <2>1, RowsOfTable
  <2>3. PICK n \in Nat : n = Len(r)
    OBVIOUS
  <2>4. PICK acc : acc = Tabled(r)
    OBVIOUS
  <2>5. RowsInv(r, acc) /\ acc.rows = rows /\ rows \in Seq(OutRow)
    BY <2>2, <2>4, TabledIsRight DEF RowAcc
  <2>6. /\ Len(rows) = n /\ DOMAIN rows = 1 .. n
        /\ \A i \in 1 .. n : rows[i].line = r[i].line
        /\ \A i \in 1 .. n - 1 : rows[i].group = rows[i + 1].group <=> GoesOn(r[i], r[i + 1])
        /\ \A i \in 1 .. n - 1 :
             rows[i + 1].comma <=> rows[i].group = rows[i + 1].group /\ ~r[i + 1].firstOfFile
        /\ n > 0 => (rows[1].comma => ~r[1].firstOfFile)
    <3>1. /\ Len(acc.rows) = Len(r)
          /\ \A i \in 1 .. Len(r) : acc.rows[i].line = r[i].line
          /\ \A i \in 1 .. Len(r) - 1 :
               acc.rows[i].group = acc.rows[i + 1].group <=> GoesOn(r[i], r[i + 1])
          /\ \A i \in 1 .. Len(r) - 1 :
               acc.rows[i + 1].comma <=>
                 acc.rows[i].group = acc.rows[i + 1].group /\ ~r[i + 1].firstOfFile
          /\ Len(r) > 0 => (acc.rows[1].comma => ~r[1].firstOfFile)
      BY <2>5 DEF RowsInv
    <3>2. Len(rows) = n
      BY <2>3, <2>5, <3>1
    <3>3. DOMAIN rows = 1 .. n
      BY <2>5, <3>2
    <3>4. acc.rows = rows
      BY <2>5
    <3> QED
      BY <2>3, <3>1, <3>2, <3>3, <3>4
  <2>7. ASSUME ~ZoneStraddles, NEW i \in 1 .. n - 1
        PROVE  GoesOn(r[i], r[i + 1])
                 <=> /\ rows[i].line.sched = rows[i + 1].line.sched
                     /\ rows[i + 1].line.start
                          <= rows[i].line.start + rows[i].line.duration + 1
    <3>1. i \in 1 .. n /\ i + 1 \in 1 .. n
      BY <2>3
    <3>2. PICK a \in Row, b \in Row : a = r[i] /\ b = r[i + 1]
      BY <2>3, <3>1
    <3>3. a.date = a.line.start /\ b.date = b.line.start
      BY <2>2, <2>3, <2>7, <3>1, <3>2 DEF Elems
    <3>4. rows[i].line = a.line /\ rows[i + 1].line = b.line
      BY <2>6, <3>1, <3>2
    <3>5. GoesOn(a, b) <=> /\ a.line.sched = b.line.sched
                           /\ b.line.start <= a.line.start + a.line.duration + 1
      BY <3>3 DEF GoesOn
    <3> QED
      BY <3>2, <3>4, <3>5
  <2>8. ASSUME EndMonth(q[1], EndOf(q[1], q[2])) = MonthOf(q[1]), NEW i \in 1 .. n
        PROVE  rows[i].comma <=> i > 1 /\ rows[i].group = rows[i - 1].group
    <3>1. \A j \in 1 .. n : r[j].firstOfFile <=> j = 1
      BY <2>2, <2>3, <2>8
    <3>2. CASE i = 1
      <4>1. n > 0 /\ 1 \in 1 .. n
        BY <3>2
      <4>2. r[1].firstOfFile
        BY <3>1, <4>1
      <4>3. ~rows[1].comma
        BY <2>6, <4>1, <4>2
      <4> QED
        BY <3>2, <4>3
    <3>3. CASE i # 1
      <4>1. PICK j \in 1 .. n - 1 : j + 1 = i /\ j = i - 1
        BY <3>3
      <4>2. rows[j + 1].comma <=> rows[j].group = rows[j + 1].group /\ ~r[j + 1].firstOfFile
        BY <2>6
      <4>3. ~r[i].firstOfFile /\ i > 1
        BY <3>1, <3>3
      <4> QED
        BY <4>1, <4>2, <4>3
    <3> QED
      BY <3>2, <3>3
  <2> QED
    BY <2>6, <2>7, <2>8
<1> QED
  BY <1>1, WaterLogIsTyped, PTL

=============================================================================
