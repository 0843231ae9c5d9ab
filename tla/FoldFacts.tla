----------------------------- MODULE FoldFacts -----------------------------
(***************************************************************************)
(* Facts about folds of lists, for the proofs about the operators that     *)
(* fold.  The theorems of the library on induction and on recursive        *)
(* functions take an operator as a parameter; here a property is a set of  *)
(* numbers and a step of a fold is a function, so that the facts can be    *)
(* cited.                                                                  *)
(***************************************************************************)
EXTENDS Retain, Integers, WellFoundedInduction, TLAPS

LEMMA NatMin ==
  ASSUME NEW S \in SUBSET Nat, S # {}
  PROVE  \E m \in S : \A n \in S : m <= n
<1>1. PICK m \in S : \A n \in S : ~ (<<n, m>> \in OpToRel(<, Nat))
  BY NatLessThanWellFounded, WFMin
<1>2. \A n \in S : ~(n < m)
  BY <1>1 DEF OpToRel
<1> QED  BY <1>2

\* Induction: a set of numbers with 0 and the successors of its members holds all.
LEMMA Induction ==
  ASSUME NEW S \in SUBSET Nat, 0 \in S, \A n \in S : n + 1 \in S
  PROVE  S = Nat
<1> SUFFICES ASSUME Nat \ S # {} PROVE FALSE
  OBVIOUS
<1>1. PICK m \in Nat \ S : \A n \in Nat \ S : m <= n
  BY NatMin
<1>2. m - 1 \in Nat /\ m - 1 \notin Nat \ S
  BY <1>1
<1> QED  BY <1>1, <1>2

-----------------------------------------------------------------------------
(* The first and the last of a set of positions.                            *)

LEMMA MinIs ==
  ASSUME NEW S \in SUBSET Nat, S # {}
  PROVE  Min(S) \in S /\ \A x \in S : Min(S) <= x
<1>1. \E m \in S : \A n \in S : m <= n
  BY NatMin
<1> QED  BY <1>1, Zenon DEF Min

LEMMA MaxIs ==
  ASSUME NEW n \in Nat, NEW S \in SUBSET (0 .. n), S # {}
  PROVE  Max(S) \in S /\ \A x \in S : x <= Max(S)
<1> DEFINE bounds == {m \in Nat : \A x \in S : x <= m}
<1>1. bounds \in SUBSET Nat /\ n \in bounds
  OBVIOUS
<1>2. PICK m \in bounds : \A k \in bounds : m <= k
  BY <1>1, NatMin
<1>3. m \in S
  <2> SUFFICES ASSUME m \notin S PROVE FALSE
    OBVIOUS
  <2>1. \A x \in S : x \in Nat /\ x # m /\ x <= m
    BY <1>2
  <2>2. PICK x \in S : x \in Nat /\ x # m /\ x <= m
    BY <2>1
  <2>3. m - 1 \in Nat
    BY <1>2, <2>2
  <2>4. m - 1 \in bounds
    BY <1>2, <2>1, <2>3
  <2>5. m <= m - 1
    BY <1>2, <2>4
  <2> QED  BY <1>2, <2>5
<1>4. \A x \in S : m >= x
  BY <1>2
<1>5. Max(S) \in S /\ \A x \in S : Max(S) >= x
  BY <1>3, <1>4, Zenon DEF Max
<1> QED  BY <1>5

LEMMA MaxFrom ==
  ASSUME NEW n \in Nat, NEW S \in SUBSET (0 .. n), NEW m \in S, \A x \in S : x <= m
  PROVE  Max(S) = m
<1> DEFINE k == Max(S)
<1>1. k \in S /\ \A x \in S : x <= k
  BY MaxIs
<1> HIDE DEF k
<1>2. k = m
  BY <1>1
<1> QED  BY <1>2 DEF k

-----------------------------------------------------------------------------
(* The function a fold from the left is defined by.                         *)

IsFold(g, D, base, step) ==
  g = [s \in SUBSET D |-> IF s = {} THEN base ELSE step[<<g[s \ {Max(s)}], Max(s)>>]]

\* It exists: the definition by CHOOSE is not empty.
LEMMA FoldExists ==
  ASSUME NEW n \in Nat, NEW D \in SUBSET (1 .. n), NEW V, NEW base \in V,
         NEW step \in [V \X D -> V]
  PROVE  \E g \in [SUBSET D -> V] : IsFold(g, D, base, step)
<1> DEFINE D0(k) == D \cap (1 .. k)
           Is(h, s) == h[s] = IF s = {} THEN base ELSE step[<<h[s \ {Max(s)}], Max(s)>>]
           S == {k \in Nat : \E h \in [SUBSET D0(k) -> V] : \A s \in SUBSET D0(k) : Is(h, s)}
<1>1. 0 \in S
  <2> DEFINE h == [s \in SUBSET D0(0) |-> base]
  <2>1. h \in [SUBSET D0(0) -> V] /\ \A s \in SUBSET D0(0) : s = {} /\ h[s] = base
    OBVIOUS
  <2>2. \A s \in SUBSET D0(0) : Is(h, s)
    BY <2>1
  <2> QED  BY <2>1, <2>2
<1>2. ASSUME NEW k \in S PROVE k + 1 \in S
  <2>1. PICK h \in [SUBSET D0(k) -> V] : \A s \in SUBSET D0(k) : Is(h, s)
    OBVIOUS
  <2> DEFINE j == k + 1
             h1 == [s \in SUBSET D0(j) |-> IF j \in s THEN step[<<h[s \ {j}], j>>] ELSE h[s]]
  <2>2. \A s \in SUBSET D0(j) : /\ j \in s => s \ {j} \in SUBSET D0(k) /\ j \in D
                                /\ j \notin s => s \in SUBSET D0(k)
    OBVIOUS
  <2>3. h1 \in [SUBSET D0(j) -> V]
    BY <2>2
  <2>4. \A s \in SUBSET D0(k) : s \in SUBSET D0(j) /\ h1[s] = h[s]
    OBVIOUS
  <2>5. ASSUME NEW s \in SUBSET D0(j), s # {} PROVE h1[s] = step[<<h1[s \ {Max(s)}], Max(s)>>]
    <3>1. CASE j \in s
      <4>0. j \in Nat /\ s \in SUBSET (0 .. j) /\ \A x \in s : x <= j
        OBVIOUS
      <4>1. Max(s) = j
        BY <3>1, <4>0, MaxFrom
      <4>2. h1[s \ {j}] = h[s \ {j}]
        BY <2>2, <2>4, <3>1
      <4>3. h1[s] = step[<<h[s \ {j}], j>>]
        BY <3>1
      <4> HIDE DEF h1
      <4> QED  BY <4>1, <4>2, <4>3
    <3>2. CASE j \notin s
      <4>1. s \in SUBSET D0(k) /\ s \ {Max(s)} \in SUBSET D0(k)
        BY <2>2, <3>2
      <4>2. h1[s] = h[s] /\ h1[s \ {Max(s)}] = h[s \ {Max(s)}]
        BY <2>4, <4>1
      <4>3. h[s] = step[<<h[s \ {Max(s)}], Max(s)>>]
        BY <2>1, <2>5, <4>1
      <4> HIDE DEF h1
      <4> QED  BY <4>2, <4>3
    <3> QED  BY <3>1, <3>2
  <2>6. h1[{}] = base
    <3>1. {} \in SUBSET D0(k)
      OBVIOUS
    <3>2. h[{}] = base
      BY <2>1, <3>1
    <3> QED  BY <2>4, <3>1, <3>2
  <2> HIDE DEF h1
  <2>7. \A s \in SUBSET D0(j) : Is(h1, s)
    BY <2>5, <2>6
  <2>8. j \in Nat
    OBVIOUS
  <2> HIDE DEF D0, Is, j
  <2>9. j \in S
    BY <2>3, <2>7, <2>8
  <2> QED  BY <2>9 DEF j
<1>3. n \in S
  <2> HIDE DEF S
  <2>1. S \in SUBSET Nat
    BY DEF S
  <2> QED  BY <1>1, <1>2, <2>1, Induction
<1>4. D0(n) = D
  OBVIOUS
<1>5. PICK h \in [SUBSET D -> V] : \A s \in SUBSET D : Is(h, s)
  BY <1>3, <1>4
<1>6. IsFold(h, D, base, step)
  BY <1>5 DEF IsFold
<1> QED  BY <1>6

\* Induction along a fold: what holds of no positions, and of some positions when it
\* holds without the last of them, holds of all.
LEMMA FoldInduction ==
  ASSUME NEW n \in Nat, NEW D \in SUBSET (1 .. n), NEW R,
         {} \in R,
         \A s \in SUBSET D : s # {} /\ s \ {Max(s)} \in R => s \in R
  PROVE  D \in R
<1> DEFINE D0(k) == D \cap (1 .. k)
           S == {k \in Nat : SUBSET D0(k) \subseteq R}
<1>1. 0 \in S
  <2>1. SUBSET D0(0) \subseteq R
    <3> SUFFICES ASSUME NEW s \in SUBSET D0(0) PROVE s = {}
      OBVIOUS
    <3> QED  OBVIOUS
  <2> QED  BY <2>1
<1>2. ASSUME NEW k \in S PROVE k + 1 \in S
  <2> SUFFICES ASSUME NEW s \in SUBSET D0(k + 1), s # {} PROVE s \in R
    OBVIOUS
  <2> DEFINE m == Max(s)
  <2>1. k + 1 \in Nat /\ s \in SUBSET (0 .. k + 1)
    OBVIOUS
  <2>2. m \in s /\ \A x \in s : x <= m
    BY <2>1, MaxIs
  <2> HIDE DEF m
  <2>3. s \ {m} \in SUBSET D0(k)
    BY <2>2
  <2>4. s \in SUBSET D /\ s \ {m} \in R
    BY <2>3
  <2> QED  BY <2>4 DEF m
<1>3. n \in S
  <2> HIDE DEF S
  <2>1. S \in SUBSET Nat
    BY DEF S
  <2> QED  BY <1>1, <1>2, <2>1, Induction
<1>4. D0(n) = D
  OBVIOUS
<1> QED  BY <1>3, <1>4

-----------------------------------------------------------------------------
(* Kept.                                                                    *)

\* What is kept of a list is a list of some of its elements, and not a longer one.
LEMMA KeptIs ==
  ASSUME NEW T, NEW list \in Seq(T), NEW S
  PROVE  /\ Kept(list, S) \in Seq(T \cap S)
         /\ Len(Kept(list, S)) <= Len(list)
<1> DEFINE D == DOMAIN list
           n == Len(list)
           put(v, i) == IF list[i] \in S THEN Append(v, list[i]) ELSE v
           step == [p \in Seq(T) \X D |-> put(p[1], p[2])]
           IsIter(h) == h = [s \in SUBSET D |->
              IF s = {} THEN <<>>
              ELSE IF list[Max(s)] \in S THEN Append(h[s \ {Max(s)}], list[Max(s)])
                   ELSE h[s \ {Max(s)}]]
           iter == CHOOSE h : h = [s \in SUBSET D |->
              IF s = {} THEN <<>>
              ELSE IF list[Max(s)] \in S THEN Append(h[s \ {Max(s)}], list[Max(s)])
                   ELSE h[s \ {Max(s)}]]
<1>1. n \in Nat /\ D = 1 .. n
  OBVIOUS
<1>2. \A v \in Seq(T), i \in D : put(v, i) \in Seq(T)
  OBVIOUS
<1>3. step \in [Seq(T) \X D -> Seq(T)]
  BY <1>2
<1>4. PICK g \in [SUBSET D -> Seq(T)] : IsFold(g, D, <<>>, step)
  <2> HIDE DEF step
  <2>1. D \in SUBSET (1 .. n) /\ <<>> \in Seq(T)
    BY <1>1
  <2> QED  BY <1>1, <1>3, <2>1, FoldExists
<1>5. ASSUME NEW s \in SUBSET D, s # {}
      PROVE  /\ Max(s) \in s /\ \A x \in s : x <= Max(s)
             /\ s \ {Max(s)} \in SUBSET D
  <2>1. s \in SUBSET (0 .. n)
    BY <1>1
  <2>2. Max(s) \in s /\ \A x \in s : x <= Max(s)
    BY <1>1, <1>5, <2>1, MaxIs
  <2> QED  BY <2>2
<1>6. IsIter(g)
  <2>1. ASSUME NEW s \in SUBSET D, s # {}
        PROVE  step[<<g[s \ {Max(s)}], Max(s)>>] = put(g[s \ {Max(s)}], Max(s))
    <3>1. g[s \ {Max(s)}] \in Seq(T) /\ Max(s) \in D
      BY <1>5, <2>1
    <3> QED  BY <3>1
  <2> HIDE DEF step
  <2> QED  BY <1>4, <2>1 DEF IsFold
<1>7. Kept(list, S) = iter[D]
  BY Zenon DEF Kept, FoldLeft, MapThenFoldSet
<1>8. IsIter(iter)
  BY <1>6, Zenon
<1> HIDE DEF iter, step
<1> DEFINE R == {s \in SUBSET D : /\ iter[s] \in Seq(T \cap S)
                                 /\ \A k \in 0 .. n : s \subseteq 1 .. k => Len(iter[s]) <= k}
<1>9. {} \in R
  <2>1. iter[{}] = <<>>
    BY <1>8
  <2>2. <<>> \in Seq(T \cap S) /\ Len(<<>>) = 0
    OBVIOUS
  <2>3. iter[{}] \in Seq(T \cap S) /\ Len(iter[{}]) = 0
    BY <2>1, <2>2, Zenon
  <2>4. \A k \in 0 .. n : Len(iter[{}]) <= k
    BY <1>1, <2>3
  <2>5. {} \in SUBSET D
    OBVIOUS
  <2> QED  BY <2>3, <2>4, <2>5, Zenon
<1>10. ASSUME NEW s \in SUBSET D, s # {}, s \ {Max(s)} \in R PROVE s \in R
  <2> DEFINE m == Max(s)
             v == iter[s \ {m}]
  <2>1. m \in s /\ \A x \in s : x <= m
    BY <1>5, <1>10
  <2>2. iter[s] = put(v, m)
    BY <1>8, <1>10
  <2> HIDE DEF m
  <2>3. m \in D /\ m \in 1 .. n /\ list[m] \in T
    BY <2>1
  <2>4. s \ {m} \subseteq 1 .. m - 1 /\ m - 1 \in 0 .. n
    BY <1>1, <2>1, <2>3
  <2>5. v \in Seq(T \cap S) /\ Len(v) <= m - 1
    BY <1>10, <2>4 DEF m
  <2> HIDE DEF v
  <2>6. put(v, m) \in Seq(T \cap S) /\ Len(put(v, m)) <= m
    BY <2>3, <2>5
  <2>7. \A k \in 0 .. n : s \subseteq 1 .. k => m <= k
    BY <2>1
  <2>8. \A k \in 0 .. n : s \subseteq 1 .. k => Len(put(v, m)) <= k
    BY <2>3, <2>6, <2>7
  <2> HIDE DEF put
  <2> QED  BY <2>2, <2>6, <2>8
<1>11. D \in R
  <2> HIDE DEF R
  <2> QED  BY <1>1, <1>9, <1>10, FoldInduction
<1> QED  BY <1>1, <1>7, <1>11
=============================================================================
