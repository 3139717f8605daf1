------------------------------ MODULE Counting ------------------------------
(***************************************************************************)
(* Facts about the least free slot of a table and about counting the       *)
(* entries that point to an object, which the proofs about reference       *)
(* counts and link counts share.                                           *)
(***************************************************************************)
EXTENDS FiniteSetsExt, FiniteSetTheorems, FunctionTheorems, TLAPS

\* A set of naturals that is not empty has a least element.
LEMMA LeastNat ==
  ASSUME NEW S, S \subseteq Nat, S # {}
  PROVE  \E x \in S : \A y \in S : x <= y
  <1>1. PICK x \in S : \A y \in S : ~ (<<y, x>> \in OpToRel(<, Nat))
    BY NatLessThanWellFounded, WFMin
  <1>2. \A y \in S : ~ (y < x)
    BY <1>1 DEF OpToRel
  <1> QED
    BY <1>2

\* The loops over p->ofile and p->vma that stop at the first entry of a kind
\* find one of that kind.
LEMMA MinNat ==
  ASSUME NEW S, S \subseteq Nat, S # {}
  PROVE  Min(S) \in S /\ \A y \in S : Min(S) <= y
  BY LeastNat DEF Min

\* Integers that do not exceed a bound have a greatest one.
LEMMA MaxInt ==
  ASSUME NEW S, S \subseteq Int, S # {}, NEW b \in Int, \A x \in S : x <= b
  PROVE  Max(S) \in S /\ \A y \in S : Max(S) >= y
  <1> DEFINE T == {n \in Nat : b - n \in S}
  <1>1. T \subseteq Nat /\ T # {}
    <2>1. PICK x \in S : TRUE
      OBVIOUS
    <2>2. b - x \in Nat /\ b - (b - x) = x
      BY <2>1
    <2> QED
      BY <2>2
  <1>2. PICK n \in T : \A m \in T : n <= m
    BY <1>1, LeastNat
  <1>3. \A y \in S : b - y \in T
    <2>1. \A y \in S : b - y \in Nat /\ b - (b - y) = y
      OBVIOUS
    <2> QED
      BY <2>1
  <1>4. b - n \in S /\ \A y \in S : b - n >= y
    BY <1>2, <1>3
  <1> QED
    BY <1>4 DEF Max

\* One more element is one more.
LEMMA CountAdd ==
  ASSUME NEW S, IsFiniteSet(S), NEW x, x \notin S, NEW T, T = S \cup {x}
  PROVE  IsFiniteSet(T) /\ Cardinality(T) = Cardinality(S) + 1
  BY FS_AddElement

\* One element less is one less.
LEMMA CountRemove ==
  ASSUME NEW S, IsFiniteSet(S), NEW x, x \in S, NEW T, T = S \ {x}
  PROVE  IsFiniteSet(T) /\ Cardinality(T) = Cardinality(S) - 1
  BY FS_RemoveElement

Bit(b) == IF b THEN 1 ELSE 0

\* A count changes by what becomes of the one element that a step concerns.
LEMMA CountChange ==
  ASSUME NEW S, IsFiniteSet(S), NEW T, NEW x, \A y : y # x => (y \in S <=> y \in T)
  PROVE  /\ IsFiniteSet(T) /\ Cardinality(S) \in Nat /\ Cardinality(T) \in Nat
         /\ Cardinality(T) = Cardinality(S) - Bit(x \in S) + Bit(x \in T)
  <1>1. Cardinality(S) \in Nat
    BY FS_CardinalityType
  <1>2. CASE x \in S /\ x \notin T
    <2>1. T = S \ {x}
      BY <1>2
    <2>2. IsFiniteSet(T) /\ Cardinality(T) = Cardinality(S) - 1
      BY <1>2, <2>1, CountRemove
    <2>3. Cardinality(T) \in Nat
      BY <2>2, FS_CardinalityType
    <2> QED
      BY <1>1, <1>2, <2>2, <2>3 DEF Bit
  <1>3. CASE x \notin S /\ x \in T
    <2>1. T = S \cup {x}
      BY <1>3
    <2>2. IsFiniteSet(T) /\ Cardinality(T) = Cardinality(S) + 1
      BY <1>3, <2>1, CountAdd
    <2> QED
      BY <1>1, <1>3, <2>2 DEF Bit
  <1>4. CASE x \in S <=> x \in T
    <2>1. \A y : y \in S <=> y \in T
      BY <1>4
    <2>2. S = T
      BY <2>1
    <2> QED
      BY <1>1, <1>4, <2>2 DEF Bit
  <1> QED
    BY <1>2, <1>3, <1>4

\* The entries of a table with rows are those of one row and those of the others.
LEMMA CountRow ==
  ASSUME NEW P, IsFiniteSet(P), NEW D, IsFiniteSet(D), NEW p \in P,
         NEW A, A \subseteq P \X D,
         NEW Row, Row = {d \in D : <<p, d>> \in A},
         NEW Rest, Rest = {x \in A : x[1] # p}
  PROVE  /\ Cardinality(Row) \in Nat /\ Cardinality(Rest) \in Nat
         /\ Cardinality(A) = Cardinality(Rest) + Cardinality(Row)
  <1>1. IsFiniteSet(A)
    BY FS_Product, FS_Subset
  <1>2. IsFiniteSet(Rest) /\ IsFiniteSet(Row)
    BY <1>1, FS_Subset
  <1> DEFINE Pairs == {x \in A : x[1] = p}
             m == [d \in Row |-> <<p, d>>]
  <1>3. \A x \in A : x = <<x[1], x[2]>> /\ x[2] \in D
    OBVIOUS
  <1>4. m \in [Row -> Pairs]
    OBVIOUS
  <1>5. \A a, b \in Row : m[a] = m[b] => a = b
    OBVIOUS
  <1>6. \A x \in Pairs : \E d \in Row : m[d] = x
    BY <1>3
  <1> HIDE DEF m, Pairs
  <1>7. ExistsBijection(Row, Pairs)
    <2>1. m \in Bijection(Row, Pairs)
      BY <1>4, <1>5, <1>6, Fun_IsBij
    <2> QED
      BY <2>1, Fun_ExistsBij
  <1>8. IsFiniteSet(Pairs) /\ Cardinality(Pairs) = Cardinality(Row)
    BY <1>2, <1>7, FS_Bijection
  <1>9. A = Rest \cup Pairs /\ Rest \cap Pairs = {}
    BY DEF Pairs
  <1>10. Cardinality(A) = Cardinality(Rest) + Cardinality(Pairs) - Cardinality({})
    BY <1>2, <1>8, <1>9, FS_Union
  <1> QED
    BY <1>2, <1>8, <1>10, FS_EmptySet, FS_CardinalityType

-----------------------------------------------------------------------------
(* Loops with a fixed number of turns, written as recursive functions.     *)

\* What holds before the first turn and is kept by each holds after all.
LEMMA LoopInduction ==
  ASSUME NEW N \in Nat, NEW S, 0 \in S, \A n \in 0..(N - 1) : n \in S => n + 1 \in S
  PROVE  0..N \subseteq S
  <1>1. SUFFICES ASSUME (0..N) \ S # {} PROVE FALSE
    OBVIOUS
  <1>2. PICK x \in (0..N) \ S : \A y \in (0..N) \ S : x <= y
    <2>1. (0..N) \ S \subseteq Nat
      OBVIOUS
    <2> QED
      BY <1>1, <2>1, LeastNat
  <1>3. x - 1 \in 0..(N - 1) /\ x - 1 \notin (0..N) \ S
    BY <1>2
  <1>4. (x - 1) + 1 \in S
    BY <1>3
  <1> QED
    BY <1>2, <1>4

\* g[n] is the value of the loop variable after n turns: c at first.
IsLoop(g, c, N, F) ==
    \A n \in 0..N : g[n] = IF n = 0 THEN c ELSE F[<<n, g[n - 1]>>]

\* There is a function of the values that a loop variable takes when
\* each turn applies F to the last one.
LEMMA LoopFunction ==
  ASSUME NEW V, NEW c \in V, NEW N \in Nat, NEW F \in [(1..N) \X V -> V]
  PROVE  \E g \in [0..N -> V] : IsLoop(g, c, N, F)
  <1> DEFINE Good(k) == \E g \in [0..k -> V] :
                           \A n \in 0..k : g[n] = IF n = 0 THEN c ELSE F[<<n, g[n - 1]>>]
             S == {k \in 0..N : Good(k)}
  <1>1. 0 \in S
    <2> DEFINE g == [n \in 0..0 |-> c]
    <2>1. g \in [0..0 -> V] /\ \A n \in 0..0 : n = 0 /\ g[n] = c
      OBVIOUS
    <2> HIDE DEF g
    <2>2. Good(0)
      BY <2>1
    <2> QED
      BY <2>2
  <1>2. ASSUME NEW k \in 0..(N - 1), k \in S PROVE k + 1 \in S
    <2>1. PICK g \in [0..k -> V] :
             \A n \in 0..k : g[n] = IF n = 0 THEN c ELSE F[<<n, g[n - 1]>>]
      BY <1>2
    <2> DEFINE h == [n \in 0..(k + 1) |-> IF n = k + 1 THEN F[<<n, g[k]>>] ELSE g[n]]
    <2>2. k \in Nat /\ k + 1 \in 1..N /\ g[k] \in V /\ k + 1 \in 0..N
      OBVIOUS
    <2>3. F[<<k + 1, g[k]>>] \in V
      BY <2>2
    <2>4. h \in [0..(k + 1) -> V]
      BY <2>2, <2>3
    <2>5. ASSUME NEW n \in 0..(k + 1) PROVE h[n] = IF n = 0 THEN c ELSE F[<<n, h[n - 1]>>]
      <3>1. CASE n = k + 1
        <4>1. h[n] = F[<<n, g[k]>>] /\ n - 1 = k /\ h[k] = g[k] /\ n # 0
          BY <2>2, <3>1
        <4> QED
          BY <4>1
      <3>2. CASE n # k + 1
        <4>1. n \in 0..k /\ h[n] = g[n]
          BY <2>2, <3>2
        <4>2. n # 0 => n - 1 \in 0..k /\ n - 1 \in 0..(k + 1) /\ n - 1 # k + 1
          BY <2>2, <4>1
        <4>3. n # 0 => h[n - 1] = g[n - 1]
          BY <4>2
        <4> QED
          BY <2>1, <4>1, <4>3
      <3> QED
        BY <3>1, <3>2
    <2> HIDE DEF h
    <2>6. Good(k + 1)
      BY <2>4, <2>5
    <2> QED
      BY <2>2, <2>6
  <1> HIDE DEF Good
  <1>3. 0..N \subseteq S
    BY <1>1, <1>2, LoopInduction
  <1>4. Good(N)
    BY <1>3
  <1> QED
    BY <1>4 DEF Good, IsLoop
=============================================================================
